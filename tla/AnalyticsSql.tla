----------------------------- MODULE AnalyticsSql -----------------------------
(***************************************************************************)
(* The local Analytics Engine: data points in a table, and the SQL API     *)
(* that translates ClickHouse queries to SQLite.  A query is a sequence of *)
(* tokens; it is parsed, translated, run by SQLite (external), finished in *)
(* JavaScript where SQLite has no function, and rendered.  What a query    *)
(* means is defined apart, from the expression it was printed from.        *)
(***************************************************************************)
EXTENDS Integers, Sequences, FiniteSetsExt, TLC
LOCAL INSTANCE SequencesExt

CONSTANTS
  MaxPoints  \* bound of the data points that are written

\* A second is two ticks of the stored clock; the other units are as short as can be.
PerSecond == 2
MinuteLength == 2
HourLength == 4
DayLength == 8

VARIABLES
  points,   \* the table, in the order of its rows
  asked,    \* the query that was asked last, and what came of it
  reply

sqlVars == <<points, asked, reply>>

-----------------------------------------------------------------------------
(* Values: integers and reals (as fractions), texts, NULL.                 *)

IntV(n) == [ty |-> "int", n |-> n, d |-> 1, s |-> ""]
RealV(n, d) ==
  LET g == Max({k \in 1..d : n % k = 0 /\ d % k = 0})
  IN [ty |-> "real", n |-> n \div g, d |-> d \div g, s |-> ""]
TextV(s) == [ty |-> "text", n |-> 0, d |-> 1, s |-> s]
NullV == [ty |-> "null", n |-> 0, d |-> 1, s |-> ""]

IsNull(v) == v.ty = "null"
Truth(b) == IntV(IF b THEN 1 ELSE 0)
Holds(v) == ~IsNull(v) /\ v.n # 0

\* A number is less than any text.
Below(v, w) ==
  IF v.ty = "text" \/ w.ty = "text" THEN v.ty # "text" /\ w.ty = "text"
  ELSE v.n * w.d < w.n * v.d
Equal(v, w) == IF v.ty = "text" \/ w.ty = "text" THEN v.ty = w.ty /\ v.s = w.s ELSE v.n * w.d = w.n * v.d

Compared(op, v, w) ==
  IF IsNull(v) \/ IsNull(w) THEN NullV
  ELSE Truth(CASE op = "=" -> Equal(v, w) [] op = "<" -> Below(v, w) [] op = ">=" -> ~Below(v, w))
Not3(v) == IF IsNull(v) THEN NullV ELSE Truth(v.n = 0)
And3(v, w) ==
  CASE Holds(v) /\ Holds(w) -> Truth(TRUE)
    [] (~IsNull(v) /\ v.n = 0) \/ (~IsNull(w) /\ w.n = 0) -> Truth(FALSE)
    [] OTHER -> NullV
Or3(v, w) == Not3(And3(Not3(v), Not3(w)))

Sum3(v, w) == IF IsNull(v) \/ IsNull(w) THEN NullV
              ELSE IF v.ty = "int" /\ w.ty = "int" THEN IntV(v.n + w.n) ELSE RealV(v.n * w.d + w.n * v.d, v.d * w.d)
Product3(v, w) == IF IsNull(v) \/ IsNull(w) THEN NullV
                  ELSE IF v.ty = "int" /\ w.ty = "int" THEN IntV(v.n * w.n) ELSE RealV(v.n * w.n, v.d * w.d)
Minus3(v) == IF IsNull(v) THEN NullV ELSE [v EXCEPT !.n = -v.n]
\* Between integers SQLite's quotient is an integer; division by zero gives NULL.
Quotient3(v, w) ==
  IF IsNull(v) \/ IsNull(w) \/ w.n = 0 THEN NullV
  ELSE LET n == v.n * w.d * (IF w.n < 0 THEN -1 ELSE 1) d == v.d * (IF w.n < 0 THEN -w.n ELSE w.n)
       IN IF v.ty = "int" /\ w.ty = "int" THEN IntV(IF n < 0 THEN -((-n) \div d) ELSE n \div d) ELSE RealV(n, d)
Cast(v) == IF IsNull(v) THEN v ELSE IntV(IF v.n < 0 THEN -((-v.n) \div v.d) ELSE v.n \div v.d)

-----------------------------------------------------------------------------
(* The calendar, from 1970 to 1972: days are counted from 0, a Thursday.   *)

MonthLength(k) ==
  LET m == ((k - 1) % 12) + 1
  IN CASE m \in {4, 6, 9, 11} -> 30 [] m = 2 -> (IF k > 24 THEN 29 ELSE 28) [] OTHER -> 31
MonthStart[k \in 1..37] == IF k = 1 THEN 0 ELSE MonthStart[k - 1] + MonthLength(k - 1)
MonthOf(day) == CHOOSE k \in 1..36 : MonthStart[k] <= day /\ day < MonthStart[k + 1]
JanuaryOf(day) == ((MonthOf(day) - 1) \div 12) * 12 + 1
WeekdayOf(day) == (day + 4) % 7

\* SQLite's strftime of a number of seconds.
Strftime(part, v) ==
  IF IsNull(v) THEN v ELSE
  LET day == v.n \div DayLength  second == v.n % DayLength IN
  IntV(CASE part = "%m" -> ((MonthOf(day) - 1) % 12) + 1
         [] part = "%d" -> day - MonthStart[MonthOf(day)] + 1
         [] part = "%w" -> WeekdayOf(day)
         [] part = "%Y" -> 1970 + (MonthOf(day) - 1) \div 12
         [] part = "%j" -> day - MonthStart[JanuaryOf(day)] + 1
         [] part = "%H" -> second \div HourLength)

\* Its modifiers, which work on days.
StartOfMonth(day) == MonthStart[MonthOf(day)]
StartOfYear(day) == MonthStart[JanuaryOf(day)]
ToWeekday(day, w) == CHOOSE e \in day..(day + 6) : WeekdayOf(e) = w
PlusMonths(first, n) == MonthStart[MonthOf(first) + n]

-----------------------------------------------------------------------------
(* The parser.  A result is a node and the place behind it; a place behind *)
(* the end of the query is an error.                                       *)

Id(w) == <<"ident", w>>
Op(o) == <<"op", o>>
Punct(p) == <<"punct", p>>
At(t, i) == IF i \in DOMAIN t THEN t[i] ELSE <<"end", "">>
Word(t, i) == IF At(t, i)[1] = "ident" THEN At(t, i)[2] ELSE ""
Got(node, i) == [node |-> node, i |-> i]
SyntaxError(t) == [node |-> <<"error">>, i |-> Len(t) + 2]

Precedence == ("OR" :> 1) @@ ("AND" :> 2) @@ ("=" :> 3) @@ ("<" :> 3) @@ (">=" :> 3)
              @@ ("+" :> 4) @@ ("-" :> 4) @@ ("*" :> 5) @@ ("/" :> 5)
IntervalUnits == ("HOUR" :> HourLength) @@ ("DAY" :> DayLength) @@ ("WEEK" :> 7 * DayLength)

\* Mutant: operators group to the right.
RightOperand_SameLevel(op) == Precedence[op]

\* The precedence with which an operand on the right is parsed.
RightOperand(op) == Precedence[op] + 1

NoLimit == -1
NoQuery == [select |-> <<>>, dataset |-> "", where |-> <<>>, group |-> <<>>, order |-> <<>>, limit |-> NoLimit]

RECURSIVE ParseExpr(_, _, _), ParseRest(_, _, _), ParseList(_, _), ParseUnary(_, _)

Joined(first, rest) == Got(<<first.node>> \o rest.node, rest.i)

ListFrom(t, first) ==
  IF At(t, first.i) # Punct(",") THEN Got(<<first.node>>, first.i)
  ELSE Joined(first, ParseList(t, first.i + 1))
ParseList(t, i) == ListFrom(t, ParseExpr(t, i, 0))

\* Arguments, from the parenthesis on.
Closed(t, list, distinct) ==
  IF At(t, list.i) = Punct(")") THEN Got([args |-> list.node, distinct |-> distinct], list.i + 1)
  ELSE Got([args |-> <<>>, distinct |-> FALSE], Len(t) + 2)
ParseArgList(t, i) ==
  LET distinct == Word(t, i + 1) = "DISTINCT"
      from == IF distinct THEN i + 2 ELSE i + 1
  IN Closed(t, IF At(t, from) = Punct(")") THEN Got(<<>>, from) ELSE ParseList(t, from), distinct)

\* A second list holds the arguments, and the first one the parameters.
Called(name, params, list) == Got(<<"func", name, list.node.args, list.node.distinct, params>>, list.i)
CalledWith(t, name, first) ==
  IF At(t, first.i) # Punct("(") THEN Called(name, <<>>, first)
  ELSE Called(name, first.node.args,
              [ParseArgList(t, first.i) EXCEPT !.node.distinct = FALSE])
ParseFunc(t, i) == CalledWith(t, t[i][2], ParseArgList(t, i + 1))

ParsePrimary(t, i) ==
  LET k == At(t, i) IN
  CASE k[1] \in {"num", "str"} -> Got(k, i + 1)
    [] k = Op("*") -> Got(<<"star">>, i + 1)
    [] k = Punct("(") -> LET e == ParseExpr(t, i + 1, 0)
                         IN IF At(t, e.i) = Punct(")") THEN Got(e.node, e.i + 1) ELSE SyntaxError(t)
    [] k = Id("INTERVAL") -> IF At(t, i + 1)[1] = "num" /\ Word(t, i + 2) \in DOMAIN IntervalUnits
                             THEN Got(<<"interval", At(t, i + 1)[2] * IntervalUnits[Word(t, i + 2)]>>, i + 3)
                             ELSE SyntaxError(t)
    [] k[1] = "ident" /\ k # Id("INTERVAL") ->
         IF At(t, i + 1) = Punct("(") THEN ParseFunc(t, i) ELSE Got(<<"col", k[2]>>, i + 1)
    [] OTHER -> SyntaxError(t)

ParseUnary(t, i) ==
  IF At(t, i) = Op("-") THEN LET e == ParseUnary(t, i + 1) IN Got(<<"unary", "-", e.node>>, e.i)
  ELSE ParsePrimary(t, i)

\* NOT takes a comparison, and leaves AND and OR.
ParsePrefix(t, i) ==
  IF At(t, i) = Id("NOT") THEN LET e == ParseExpr(t, i + 1, 3) IN Got(<<"unary", "NOT", e.node>>, e.i)
  ELSE ParseUnary(t, i)

\* IN, BETWEEN and IS behind an operand.
ParsePredicate(t, l, negate) ==
  CASE Word(t, l.i) = "IN" ->
         IF At(t, l.i + 1) # Punct("(") THEN SyntaxError(t)
         ELSE LET list == ParseArgList(t, l.i + 1) IN Got(<<"in", l.node, list.node.args, negate>>, list.i)
    [] Word(t, l.i) = "LIKE" ->
         LET p == ParseExpr(t, l.i + 1, 4) IN Got(<<"like", l.node, p.node, negate>>, p.i)
    [] Word(t, l.i) = "BETWEEN" ->
         LET low == ParseExpr(t, l.i + 1, 4)
             high == ParseExpr(t, low.i + 1, 4)
         IN IF At(t, low.i) = Id("AND") THEN Got(<<"between", l.node, low.node, high.node, negate>>, high.i)
            ELSE SyntaxError(t)
    [] Word(t, l.i) = "IS" ->
         LET neg == Word(t, l.i + 1) = "NOT"
             at == IF neg THEN l.i + 2 ELSE l.i + 1
         IN IF At(t, at) = Id("NULL") THEN Got(<<"isnull", l.node, neg>>, at + 1) ELSE SyntaxError(t)

\* What goes on behind an operand, as long as it binds at least as tight as `min'.
ParseRest(t, l, min) ==
  LET word == Word(t, l.i)
      op == IF At(t, l.i)[1] = "op" \/ word \in {"AND", "OR"} THEN At(t, l.i)[2] ELSE ""
  IN CASE 3 >= min /\ word \in {"IN", "LIKE", "BETWEEN", "IS"} -> ParseRest(t, ParsePredicate(t, l, FALSE), min)
       [] 3 >= min /\ word = "NOT" /\ Word(t, l.i + 1) \in {"IN", "LIKE", "BETWEEN"} ->
            ParseRest(t, ParsePredicate(t, [l EXCEPT !.i = @ + 1], TRUE), min)
       [] op \in DOMAIN Precedence /\ Precedence[op] >= min ->
            LET r == ParseExpr(t, l.i + 1, RightOperand(op))
            IN ParseRest(t, Got(<<"binary", op, l.node, r.node>>, r.i), min)
       [] OTHER -> l

ParseExpr(t, i, min) == ParseRest(t, ParsePrefix(t, i), min)

RECURSIVE ParseItems(_, _), ParseOrder(_, _)

\* An item of the SELECT list is named by its alias, or by its own text.
ItemOf(t, i, e) ==
  IF Word(t, e.i) = "AS" THEN Got([expr |-> e.node, name |-> <<At(t, e.i + 1)>>], e.i + 2)
  ELSE Got([expr |-> e.node, name |-> IF e.i > i THEN SubSeq(t, i, e.i - 1) ELSE <<>>], e.i)
ItemsFrom(t, first) ==
  IF At(t, first.i) # Punct(",") THEN Got(<<first.node>>, first.i)
  ELSE Joined(first, ParseItems(t, first.i + 1))
ParseItems(t, i) == ItemsFrom(t, ItemOf(t, i, ParseExpr(t, i, 0)))

OrderOf(t, e) ==
  Got([expr |-> e.node, desc |-> Word(t, e.i) = "DESC"], IF Word(t, e.i) \in {"ASC", "DESC"} THEN e.i + 1 ELSE e.i)
OrderFrom(t, first) ==
  IF At(t, first.i) # Punct(",") THEN Got(<<first.node>>, first.i)
  ELSE Joined(first, ParseOrder(t, first.i + 1))
ParseOrder(t, i) == OrderFrom(t, OrderOf(t, ParseExpr(t, i, 0)))

\* A query as far as it is read, with one more clause.
Clause(q, name, list) == Got([q EXCEPT ![name] = list.node], list.i)

ParseFrom(t, l) ==
  IF Word(t, l.i) = "FROM" /\ At(t, l.i + 1)[1] \in {"ident", "str"}
  THEN Got([l.node EXCEPT !.dataset = t[l.i + 1][2]], l.i + 2) ELSE SyntaxError(t)
ParseWhere(t, l) == IF Word(t, l.i) = "WHERE" THEN Clause(l.node, "where", ParseList(t, l.i + 1)) ELSE l
ParseGroupBy(t, l) == IF Word(t, l.i) = "GROUP" THEN Clause(l.node, "group", ParseList(t, l.i + 2)) ELSE l
ParseOrderBy(t, l) == IF Word(t, l.i) = "ORDER" THEN Clause(l.node, "order", ParseOrder(t, l.i + 2)) ELSE l
ParseLimit(t, l) ==
  IF Word(t, l.i) # "LIMIT" THEN l
  ELSE IF At(t, l.i + 1)[1] = "num" THEN Got([l.node EXCEPT !.limit = At(t, l.i + 1)[2]], l.i + 2)
  ELSE SyntaxError(t)

\* WHERE is one expression, and nothing is left over.
Complete(t, l) ==
  IF Word(t, 1) = "SELECT" /\ l.i = Len(t) + 1 /\ Len(l.node.where) <= 1 THEN l.node ELSE NoQuery

\* Clauses come in this order.
Parse(t) ==
  Complete(t, ParseLimit(t, ParseOrderBy(t, ParseGroupBy(t, ParseWhere(t,
    ParseFrom(t, Clause(NoQuery, "select", ParseItems(t, 2))))))))

-----------------------------------------------------------------------------
(* The translation: what SQLite makes of the expression that is emitted.   *)
(* Every operation is emitted in parentheses, so that the shape is kept.   *)

Columns == {"timestamp", "blob1", "double1", "_sample_interval"}
Literals == ("1970-01-10" :> 9) @@ ("1970-01-11" :> 10)  \* texts that are dates, and their days
DateParts == ("toMonth" :> "%m") @@ ("toDayOfMonth" :> "%d") @@ ("toYear" :> "%Y") @@ ("toDayOfYear" :> "%j")
             @@ ("toHour" :> "%H")
Buckets == ("toStartOfMinute" :> MinuteLength) @@ ("toStartOfHour" :> HourLength)
           @@ ("toStartOfDay" :> DayLength) @@ ("toDate" :> DayLength)
ToDates == {"toDate", "toMonday", "toStartOfWeek", "toStartOfMonth", "toStartOfQuarter", "toStartOfYear"}
ToDateTimes == {"toStartOfMinute", "toStartOfHour", "toStartOfDay", "toStartOfInterval", "toDateTime", "now"}
DateTimeArgFns == ToDates \cup ToDateTimes \cup DOMAIN DateParts \cup {"toQuarter", "toDayOfWeek", "toUnixTimestamp"}
PlainAggregates == {"count", "sum", "avg", "min", "max"}
Quantiles == {"quantile", "quantileExact"}

RECURSIVE InferType(_), SubExprs(_), Emitted(_, _)

InferType(e) ==
  CASE e = <<"col", "timestamp">> -> "DateTime"
    [] e[1] = "unary" -> InferType(e[3])
    [] e[1] = "func" -> (CASE e[2] \in ToDates -> "Date"
                           [] e[2] \in ToDateTimes -> "DateTime"
                           [] e[2] = "if" -> InferType(e[3][2])
                           [] e[2] \in {"min", "max", "coalesce"} -> InferType(e[3][1])
                           [] OTHER -> "other")
    [] OTHER -> "other"

SubExprs(e) ==
  LET Of(list) == UNION {SubExprs(list[k]) : k \in DOMAIN list}
  IN {e} \cup
     (CASE e[1] = "unary" -> SubExprs(e[3])
        [] e[1] = "binary" -> SubExprs(e[3]) \cup SubExprs(e[4])
        [] e[1] = "in" -> SubExprs(e[2]) \cup Of(e[3])
        [] e[1] = "like" -> SubExprs(e[2]) \cup SubExprs(e[3])
        [] e[1] = "between" -> SubExprs(e[2]) \cup SubExprs(e[3]) \cup SubExprs(e[4])
        [] e[1] = "isnull" -> SubExprs(e[2])
        [] e[1] = "func" -> Of(e[3])
        [] OTHER -> {})

FnCalls(e, names) == {f \in SubExprs(e) : f[1] = "func" /\ f[2] \in names}

\* A text that faces a DateTime is a date.
Operand(e, against, rows) ==
  IF e[1] = "str" /\ InferType(against) \in {"DateTime", "Date"} THEN IntV(Literals[e[2]] * DayLength)
  ELSE Emitted(e, rows)

\* `* 1.0 /': ClickHouse divides numbers, not integers.
RealDivision(v, w) == Quotient3([v EXCEPT !.ty = IF IsNull(v) THEN "null" ELSE "real"], w)

Mode(e) == IF Len(e[3]) >= 2 /\ e[3][2][1] = "num" THEN e[3][2][2] ELSE 0

\* Mutant: back by a whole week.
WeekStart_SevenDays(day, w) == ToWeekday(day - 7, w)

\* The weekday `w' on or before a day: six days back, and on to the next one.
WeekStart(day, w) == ToWeekday(day - 6, w)
QuarterStart(day) ==
  LET m == ((MonthOf(day) - 1) % 12) + 1 IN PlusMonths(StartOfYear(day), ((m - 1) \div 3) * 3)

EmittedFunc(e, rows) ==
  LET fn == e[2]
      a == IF e[3] = <<>> THEN NullV
           ELSE IF fn \in DateTimeArgFns /\ e[3][1][1] = "str" THEN IntV(Literals[e[3][1][2]] * DayLength)
           ELSE Emitted(e[3][1], rows)
      second == Cast(a)
      Truncated(day) == IF IsNull(second) THEN second ELSE IntV(day * DayLength)
      day == second.n \div DayLength
      Floored(length) == IF IsNull(second) THEN second ELSE IntV((second.n \div length) * length)
      values == [r \in DOMAIN rows |-> IF e[3] = <<>> THEN NullV ELSE Emitted(e[3][1], <<rows[r]>>)]
      known == SelectSeq(values, LAMBDA v : ~IsNull(v))
      total == FoldLeft(Sum3, IntV(0), known)
      extreme(less(_, _)) == IF known = <<>> THEN NullV
                             ELSE CHOOSE v \in ToSet(known) : \A w \in ToSet(known) : ~less(w, v)
  IN CASE fn = "count" -> IntV(IF e[4] /\ e[3] # <<>> THEN Cardinality(ToSet(known)) ELSE Len(rows))
       [] fn = "sum" -> total
       [] fn = "avg" -> IF known = <<>> THEN NullV ELSE RealDivision(total, IntV(Len(known)))
       [] fn = "min" -> extreme(Below)
       [] fn = "max" -> extreme(LAMBDA v, w : Below(w, v))
       [] fn = "toDateTime" -> a
       [] fn = "toUnixTimestamp" -> second
       [] fn \in DOMAIN Buckets -> Floored(Buckets[fn])
       [] fn = "toStartOfInterval" -> Floored(e[3][2][2])
       [] fn = "toStartOfWeek" -> Truncated(WeekStart(day, Mode(e) % 2))
       [] fn = "toMonday" -> Truncated(WeekStart(day, 1))
       [] fn = "toStartOfMonth" -> Truncated(StartOfMonth(day))
       [] fn = "toStartOfQuarter" -> Truncated(QuarterStart(day))
       [] fn = "toStartOfYear" -> Truncated(StartOfYear(day))
       [] fn \in DOMAIN DateParts -> Strftime(DateParts[fn], second)
       [] fn = "toQuarter" -> Sum3(Quotient3(Sum3(Strftime("%m", second), IntV(-1)), IntV(3)), IntV(1))
       [] fn = "toDayOfWeek" ->
            (LET w == Strftime("%w", second) IN
             IF IsNull(w) THEN w
             ELSE IntV(CASE Mode(e) = 0 -> ((w.n + 6) % 7) + 1 [] Mode(e) = 1 -> (w.n + 6) % 7
                         [] Mode(e) = 2 -> w.n [] Mode(e) = 3 -> w.n + 1))
       [] fn = "if" -> IF Holds(a) THEN Emitted(e[3][2], rows) ELSE Emitted(e[3][3], rows)
       [] fn = "coalesce" -> IF IsNull(a) THEN Emitted(e[3][2], rows) ELSE a

Emitted(e, rows) ==
  CASE e[1] = "num" -> IntV(e[2])
    [] e[1] = "str" -> TextV(e[2])
    [] e[1] = "interval" -> IntV(e[2])
    [] e[1] = "col" -> (CASE rows = <<>> -> NullV
                          [] e[2] = "timestamp" -> RealV(rows[1].timestamp, PerSecond)
                          [] e[2] = "_sample_interval" -> IntV(1)
                          [] OTHER -> rows[1][e[2]])
    [] e[1] = "unary" -> IF e[2] = "NOT" THEN Not3(Emitted(e[3], rows)) ELSE Minus3(Emitted(e[3], rows))
    [] e[1] = "binary" ->
         (LET l == Emitted(e[3], rows) r == Emitted(e[4], rows) IN
          CASE e[2] = "OR" -> Or3(l, r)
            [] e[2] = "AND" -> And3(l, r)
            [] e[2] = "+" -> Sum3(l, r)
            [] e[2] = "-" -> Sum3(l, Minus3(r))
            [] e[2] = "*" -> Product3(l, r)
            [] e[2] = "/" -> RealDivision(l, r)
            [] OTHER -> Compared(e[2], Operand(e[3], e[4], rows), Operand(e[4], e[3], rows)))
    [] e[1] = "in" ->
         (LET v == Emitted(e[2], rows)
              Or(b, x) == Or3(b, Compared("=", v, Operand(x, e[2], rows)))
              in == FoldLeft(Or, Truth(FALSE), e[3])
          IN IF e[4] THEN Not3(in) ELSE in)
    [] e[1] = "like" ->
         (LET in == Compared("=", Emitted(e[2], rows), Emitted(e[3], rows)) IN IF e[4] THEN Not3(in) ELSE in)
    [] e[1] = "between" ->
         (LET v == Emitted(e[2], rows)
              in == And3(Compared(">=", v, Operand(e[3], e[2], rows)),
                         Compared(">=", Operand(e[4], e[2], rows), v))
          IN IF e[5] THEN Not3(in) ELSE in)
    [] e[1] = "isnull" -> Truth(IsNull(Emitted(e[2], rows)) # e[3])
    [] e[1] = "func" -> EmittedFunc(e, rows)

-----------------------------------------------------------------------------
(* The query: what the translator refuses, what SQLite does with the rest, *)
(* and what is left to JavaScript.                                         *)

SelectedCalls(q, names) == UNION {FnCalls(q.select[k].expr, names) : k \in DOMAIN q.select}
HasQuantiles(q) == SelectedCalls(q, Quantiles) # {}
IsQuantile(e) == e[1] = "func" /\ e[2] \in Quantiles

\* A name in GROUP BY and ORDER BY that is no column is an alias of the SELECT list.
Unaliased(e, q) ==
  LET named == {k \in DOMAIN q.select : q.select[k].name = <<Id(e[2])>>}
  IN IF e[1] = "col" /\ e[2] \notin Columns /\ named # {} THEN q.select[Min(named)].expr ELSE e

Exprs(q) ==
  {q.select[k].expr : k \in DOMAIN q.select} \cup ToSet(q.where) \cup ToSet(q.group)
  \cup {Unaliased(q.order[k].expr, q) : k \in DOMAIN q.order}

\* Only UTC is a time zone; the second argument of some functions is a mode.
ForeignZone(f) == \E k \in 2..Len(f[3]) : f[3][k][1] = "str" /\ f[3][k][2] # "UTC"

BadCall(f) ==
  \/ f[2] \in PlainAggregates /\ \E k \in DOMAIN f[3] : FnCalls(f[3][k], PlainAggregates) # {}
  \/ f[2] \in DateTimeArgFns /\ ForeignZone(f)
  \/ f[2] = "toDayOfWeek" /\ Mode(f) \notin 0..3
  \/ f[2] = "toStartOfInterval" /\ f[3][2][1] # "interval"

Refused(q) ==
  \/ q = NoQuery
  \/ \E e \in ToSet(q.where) \cup ToSet(q.group) : FnCalls(e, PlainAggregates) # {}
  \/ \E e \in Exprs(q) : \E f \in SubExprs(e) : f[1] = "func" /\ BadCall(f)
  \/ \E e \in Exprs(q) : FnCalls(e, Quantiles) \ {e} # {}
  \/ HasQuantiles(q) /\ \E k \in DOMAIN q.select : q.select[k].expr = <<"star">>

KeptPoints(q) ==
  SelectSeq(points, LAMBDA p : p.dataset = q.dataset /\ \A e \in ToSet(q.where) : Holds(Emitted(e, <<p>>)))

\* SQLite's groups, in some order: without GROUP BY every row, or all of them.
Grouped(q) ==
  LET rows == KeptPoints(q)
      key(p) == [k \in DOMAIN q.group |-> Emitted(Unaliased(q.group[k], q), <<p>>)]
      keys == SetToSeq({key(rows[r]) : r \in DOMAIN rows})
  IN CASE q.group # <<>> -> [g \in DOMAIN keys |-> SelectSeq(rows, LAMBDA p : key(p) = keys[g])]
       [] q.group = <<>> /\ SelectedCalls(q, PlainAggregates \cup Quantiles) # {} -> <<rows>>
       [] OTHER -> [r \in DOMAIN rows |-> <<rows[r]>>]

\* In halves of an element, from 0.
Position(level, n) == level * (n - 1)

\* computeQuantile, of the sorted values; levels are 0, 1/2 and 1.
ComputeQuantile(fn, level, sorted) ==
  LET n == Len(sorted)
      pos == Position(level, n)
      element(k) == sorted[Min({k + 1, n})]
      rounded == (pos + 1) \div 2
  IN CASE n = 0 -> NullV
       [] n > 0 /\ fn = "quantileExact" -> element(rounded)
       [] n > 0 /\ fn = "quantile" ->
            IF pos % 2 = 0 THEN element(pos \div 2)
            ELSE RealDivision(Sum3(element(pos \div 2), element(pos \div 2 + 1)), IntV(2))

\* What group_concat collects.
Collected(e, rows) ==
  SelectSeq([r \in DOMAIN rows |-> Emitted(e[3][1], <<rows[r]>>)], LAMBDA v : ~IsNull(v))

Cell(e, rows) ==
  IF IsQuantile(e) THEN ComputeQuantile(e[2], e[5][1][2], SortSeq(Collected(e, rows), Below)) ELSE Emitted(e, rows)

\* SQLite has NULL first; JavaScript compares it as the text "null".
Precedes(v, w, desc, inJs) ==
  LET less(a, b) == IF IsNull(a) \/ IsNull(b) THEN IsNull(a) # IsNull(b) /\ (IsNull(a) # inJs) ELSE Below(a, b)
  IN IF desc THEN less(w, v) ELSE less(v, w)

OrderKeys(q, g) == [k \in DOMAIN q.order |-> Cell(Unaliased(q.order[k].expr, q), g)]

Before(q, keys, others) ==
  \E k \in DOMAIN q.order :
    /\ Precedes(keys[k], others[k], q.order[k].desc, HasQuantiles(q))
    /\ \A j \in 1..(k - 1) : keys[j] = others[j]

OrderedGroups(q, groups) == SortSeq(groups, LAMBDA g, h : Before(q, OrderKeys(q, g), OrderKeys(q, h)))

Limited(q, seq) == IF q.limit = NoLimit THEN seq ELSE SubSeq(seq, 1, Min({q.limit, Len(seq)}))

\* formatDateTimeColumns: seconds become days or times of whole seconds.
RenderedAs(type, v) ==
  CASE IsNull(v) \/ type = "other" -> v
    [] ~IsNull(v) /\ type = "Date" -> [IntV((v.n \div v.d) \div DayLength) EXCEPT !.ty = "date"]
    [] ~IsNull(v) /\ type = "DateTime" -> [IntV(v.n \div v.d) EXCEPT !.ty = "datetime"]

Answered(q, g) ==
  [k \in DOMAIN q.select |->
     LET e == q.select[k].expr IN
     IF e = <<"star">> THEN RenderedAs("DateTime", RealV(g[1].timestamp, PerSecond))
     ELSE RenderedAs(IF IsQuantile(e) THEN "other" ELSE InferType(e), Cell(e, g))]

Rendered(q, groups) == [g \in DOMAIN groups |-> Answered(q, groups[g])]

\* ORDER BY and LIMIT run in JavaScript when there are quantiles, and in SQLite else.
SqlReply(q) ==
  IF Refused(q) THEN [status |-> 400, rows |-> <<>>]
  ELSE [status |-> 200, rows |-> Rendered(q, Limited(q, OrderedGroups(q, Grouped(q))))]

-----------------------------------------------------------------------------
(* Queries as they are written: with the fewest parentheses that ClickHouse's *)
(* precedence asks for.  NOT is looser than a comparison.                     *)

Tightness(e) ==
  CASE e[1] = "binary" -> (CASE e[2] = "OR" -> 1 [] e[2] = "AND" -> 2 [] e[2] \in {"=", "<", ">="} -> 4
                             [] e[2] \in {"+", "-"} -> 5 [] OTHER -> 6)
    [] e[1] = "unary" -> IF e[2] = "NOT" THEN 3 ELSE 7
    [] e[1] \in {"in", "like", "between", "isnull"} -> 4
    [] OTHER -> 8

RECURSIVE Printed(_), PrintedList(_)

\* In parentheses, if it is not as tight as its place needs it.
In(e, tightness) ==
  IF Tightness(e) >= tightness THEN Printed(e) ELSE <<Punct("(")>> \o Printed(e) \o <<Punct(")")>>

PrintedList(list) ==
  IF list = <<>> THEN <<>>
  ELSE Printed(list[1]) \o (IF Len(list) = 1 THEN <<>> ELSE <<Punct(",")>> \o PrintedList(Tail(list)))

Negated(neg, word) == IF neg THEN <<Id("NOT"), Id(word)>> ELSE <<Id(word)>>
Enclosed(tokens) == <<Punct("(")>> \o tokens \o <<Punct(")")>>

Printed(e) ==
  CASE e[1] \in {"num", "str"} -> <<e>>
    [] e[1] = "star" -> <<Op("*")>>
    [] e[1] = "interval" -> <<Id("INTERVAL"), <<"num", 1>>,
         Id(CHOOSE u \in DOMAIN IntervalUnits : IntervalUnits[u] = e[2])>>
    [] e[1] = "col" -> <<Id(e[2])>>
    [] e[1] = "unary" -> IF e[2] = "NOT" THEN <<Id("NOT")>> \o In(e[3], 3) ELSE <<Op("-")>> \o In(e[3], 7)
    [] e[1] = "binary" -> In(e[3], Tightness(e)) \o <<IF e[2] \in {"AND", "OR"} THEN Id(e[2]) ELSE Op(e[2])>>
                          \o In(e[4], Tightness(e) + 1)
    [] e[1] = "in" -> In(e[2], 4) \o Negated(e[4], "IN") \o Enclosed(PrintedList(e[3]))
    [] e[1] = "like" -> In(e[2], 4) \o Negated(e[4], "LIKE") \o In(e[3], 5)
    [] e[1] = "between" -> In(e[2], 4) \o Negated(e[5], "BETWEEN") \o In(e[3], 5) \o <<Id("AND")>> \o In(e[4], 5)
    [] e[1] = "isnull" -> In(e[2], 4) \o <<Id("IS")>> \o Negated(e[3], "NULL")
    [] e[1] = "func" -> <<Id(e[2])>> \o (IF e[5] = <<>> THEN <<>> ELSE Enclosed(PrintedList(e[5])))
         \o Enclosed((IF e[4] THEN <<Id("DISTINCT")>> ELSE <<>>) \o PrintedList(e[3]))

Tokens(q) ==
  LET item(k) == Printed(q.select[k].expr)
                 \o (IF q.select[k].name = Printed(q.select[k].expr) THEN <<>> ELSE <<Id("AS")>> \o q.select[k].name)
      order(k) == Printed(q.order[k].expr) \o <<Id(IF q.order[k].desc THEN "DESC" ELSE "ASC")>>
      commas(n, part(_)) == FoldLeft(LAMBDA acc, k : acc \o (IF k = 1 THEN <<>> ELSE <<Punct(",")>>) \o part(k),
                                     <<>>, [k \in 1..n |-> k])
      clause(words, n, part(_)) == IF n = 0 THEN <<>> ELSE words \o commas(n, part)
  IN <<Id("SELECT")>> \o commas(Len(q.select), item) \o <<Id("FROM"), Id(q.dataset)>>
     \o clause(<<Id("WHERE")>>, Len(q.where), LAMBDA k : Printed(q.where[k]))
     \o clause(<<Id("GROUP"), Id("BY")>>, Len(q.group), LAMBDA k : Printed(q.group[k]))
     \o clause(<<Id("ORDER"), Id("BY")>>, Len(q.order), order)
     \o (IF q.limit = NoLimit THEN <<>> ELSE <<Id("LIMIT"), <<"num", q.limit>>>>)

-----------------------------------------------------------------------------
(* What a query means.  A DateTime keeps the fraction of a second that the *)
(* table has.                                                              *)

Typed(v, ty) == IF IsNull(v) THEN v ELSE [v EXCEPT !.ty = ty]
IsDate(v) == v.ty \in {"date", "datetime"}

\* The last of the days, or seconds, of the year before.
LastOf(upTo, length, P(_)) == Max({b \in (upTo - length)..upTo : P(b)})
FirstsOf(k) == {MonthStart[m] : m \in {m \in 1..37 : (m - 1) % k = 0}}
CountFrom(from, to, k) == Cardinality(FirstsOf(k) \cap from..to)

RECURSIVE Meaning(_, _)

MeaningFunc(e, rows) ==
  LET fn == e[2]
      arg == IF e[3] = <<>> THEN NullV ELSE Meaning(e[3][1], rows)
      date == IF arg.ty = "text" THEN IntV(Literals[arg.s] * DayLength) ELSE arg
      second == date.n \div date.d
      day == second \div DayLength
      year == LastOf(day, 366, LAMBDA b : b \in FirstsOf(12))
      shift == IF \E k \in 2..Len(e[3]) : e[3][k] = <<"str", "Prague">> THEN HourLength ELSE 0
      values == [r \in DOMAIN rows |-> IF e[3] = <<>> THEN NullV ELSE Meaning(e[3][1], <<rows[r]>>)]
      known == SelectSeq(values, LAMBDA v : ~IsNull(v))
      total == FoldLeft(Sum3, IntV(0), known)
      rank(k) == CHOOSE v \in ToSet(known) :
                   /\ Len(SelectSeq(known, LAMBDA w : Below(w, v))) <= k
                   /\ Len(SelectSeq(known, LAMBDA w : ~Below(v, w))) > k
      start(length) == IntV(LastOf(second, length, LAMBDA b : (b + shift) % length = 0))
      startDay(P(_)) == IntV(LastOf(day, 366, P) * DayLength)
      length == CASE fn = "toStartOfInterval" -> e[3][2][2] [] OTHER -> Buckets[fn]
  IN CASE fn = "count" -> IF e[4] /\ e[3] # <<>> THEN IntV(Cardinality(ToSet(known))) ELSE IntV(Len(rows))
       [] fn = "sum" -> total
       [] fn = "avg" -> IF known = <<>> THEN NullV ELSE RealV(total.n, total.d * Len(known))
       [] fn = "min" -> IF known = <<>> THEN NullV ELSE rank(0)
       [] fn = "max" -> IF known = <<>> THEN NullV ELSE rank(Len(known) - 1)
       [] fn \in Quantiles -> (IF known = <<>> THEN NullV
            ELSE LET at == e[5][1][2] * (Len(known) - 1) IN
                 IF fn = "quantileExact" \/ at % 2 = 0 THEN rank((at + 1) \div 2)
                 ELSE LET both == Sum3(rank(at \div 2), rank(at \div 2 + 1)) IN RealV(both.n, both.d * 2))
       [] fn = "if" -> IF Holds(arg) THEN Meaning(e[3][2], rows) ELSE Meaning(e[3][3], rows)
       [] fn = "coalesce" -> IF IsNull(arg) THEN Meaning(e[3][2], rows) ELSE arg
       [] fn \in DateTimeArgFns /\ IsNull(date) -> NullV
       [] fn = "toDateTime" -> Typed(date, "datetime")
       [] fn = "toUnixTimestamp" -> IntV(second)
       [] fn \in DOMAIN Buckets \cup {"toStartOfInterval"} ->
            Typed(start(length), IF fn = "toDate" THEN "date" ELSE "datetime")
       [] fn = "toMonday" -> Typed(startDay(LAMBDA b : WeekdayOf(b) = 1), "date")
       [] fn = "toStartOfWeek" -> Typed(startDay(LAMBDA b : WeekdayOf(b) = (Mode(e) % 2)), "date")
       [] fn = "toStartOfMonth" -> Typed(startDay(LAMBDA b : b \in FirstsOf(1)), "date")
       [] fn = "toStartOfQuarter" -> Typed(startDay(LAMBDA b : b \in FirstsOf(3)), "date")
       [] fn = "toStartOfYear" -> Typed(startDay(LAMBDA b : b \in FirstsOf(12)), "date")
       [] fn = "toYear" -> IntV(1969 + CountFrom(0, day, 12))
       [] fn = "toQuarter" -> IntV(CountFrom(year, day, 3))
       [] fn = "toMonth" -> IntV(CountFrom(year, day, 1))
       [] fn = "toDayOfMonth" -> IntV(day - LastOf(day, 31, LAMBDA b : b \in FirstsOf(1)) + 1)
       [] fn = "toDayOfYear" -> IntV(day - year + 1)
       [] fn = "toHour" -> IntV((second % DayLength) \div HourLength)
       [] fn = "toDayOfWeek" ->
            IntV(<<IF WeekdayOf(day) = 0 THEN 7 ELSE WeekdayOf(day),
                   IF WeekdayOf(day) = 0 THEN 6 ELSE WeekdayOf(day) - 1,
                   WeekdayOf(day), WeekdayOf(day) + 1>>[Mode(e) + 1])

\* A text beside a date is one.
Facing(v, w) == IF v.ty = "text" /\ IsDate(w) THEN IntV(Literals[v.s] * DayLength) ELSE v
Relates(op, v, w) == Compared(op, Facing(v, w), Facing(w, v))

Meaning(e, rows) ==
  CASE e[1] = "num" -> IntV(e[2])
    [] e[1] = "str" -> TextV(e[2])
    [] e[1] = "interval" -> IntV(e[2])
    [] e[1] = "col" -> (CASE rows = <<>> -> NullV
                          [] e[2] = "timestamp" -> Typed(RealV(rows[1].timestamp, PerSecond), "datetime")
                          [] e[2] = "_sample_interval" -> IntV(1)
                          [] OTHER -> rows[1][e[2]])
    [] e[1] = "unary" -> IF e[2] = "NOT" THEN Not3(Meaning(e[3], rows)) ELSE Minus3(Meaning(e[3], rows))
    [] e[1] = "binary" ->
         (LET l == Meaning(e[3], rows) r == Meaning(e[4], rows) IN
          CASE e[2] = "AND" -> And3(l, r)
            [] e[2] = "OR" -> Or3(l, r)
            [] e[2] = "+" -> Sum3(l, r)
            [] e[2] = "-" -> Sum3(l, Minus3(r))
            [] e[2] = "*" -> Product3(l, r)
            [] e[2] = "/" -> IF IsNull(l) \/ IsNull(r) \/ r.n = 0 THEN NullV
                             ELSE IF r.n < 0 THEN RealV(-l.n * r.d, l.d * (-r.n)) ELSE RealV(l.n * r.d, l.d * r.n)
            [] OTHER -> Relates(e[2], l, r))
    [] e[1] = "in" -> LET v == Meaning(e[2], rows)
                          any == FoldLeft(LAMBDA b, x : Or3(b, Relates("=", v, Meaning(x, rows))), Truth(FALSE), e[3])
                      IN IF e[4] THEN Not3(any) ELSE any
    [] e[1] = "like" -> LET same == Compared("=", Meaning(e[2], rows), Meaning(e[3], rows))
                        IN IF e[4] THEN Not3(same) ELSE same
    [] e[1] = "between" -> LET v == Meaning(e[2], rows)
                               b == And3(Relates(">=", v, Meaning(e[3], rows)), Not3(Relates("<", Meaning(e[4], rows), v)))
                           IN IF e[5] THEN Not3(b) ELSE b
    [] e[1] = "isnull" -> Truth(IsNull(Meaning(e[2], rows)) # e[3])
    [] e[1] = "func" -> MeaningFunc(e, rows)

-----------------------------------------------------------------------------
(* Data points and queries.                                                *)

Num(n) == <<"num", n>>
Str(t) == <<"str", t>>
Timestamp == <<"col", "timestamp">>
Double1 == <<"col", "double1">>
Fn(fn, args) == <<"func", fn, args, FALSE, <<>>>>

\* Every shape of an expression of two levels: `x' at one place, a leaf at the others.
Beside(x) == {<<x, Num(1)>>, <<Num(1), x>>}
Around(x) ==
  {<<"binary", o, p[1], p[2]>> : o \in {"OR", "AND", "=", "+", "-", "*", "/"}, p \in Beside(x)}
  \cup {<<"unary", o, x>> : o \in {"NOT", "-"}}
  \cup {<<"isnull", x, n>> : n \in BOOLEAN}
  \cup {<<"in", p[1], <<p[2], Double1>>, n>> : p \in Beside(x), n \in BOOLEAN}
  \cup {<<"like", x, Str("x"), TRUE>>}
  \cup {<<"between", p[1], p[2], Double1, n>> : p \in Beside(x), n \in BOOLEAN}
  \cup {<<"between", Num(1), Double1, x, n>> : n \in BOOLEAN}
Conditions == UNION {Around(x) : x \in Around(Double1)}

DateKeys ==
  {Fn(fn, <<Timestamp>>) : fn \in DOMAIN Buckets \cup DOMAIN DateParts \cup {"toMonday", "toQuarter",
     "toStartOfMonth", "toStartOfQuarter", "toStartOfYear", "toDateTime", "toUnixTimestamp"}}
  \cup {Fn("toStartOfWeek", <<Timestamp, Num(m)>>) : m \in 0..1}
  \cup {Fn("toDayOfWeek", <<Timestamp, Num(m)>>) : m \in 0..3}
  \cup {Fn("toStartOfInterval", <<Timestamp, <<"interval", DayLength>>>>)}
  \cup {Fn("toStartOfDay", <<Timestamp, Str(z)>>) : z \in {"UTC", "Prague"}}

Totals ==
  {Fn("count", <<>>), <<"func", "count", <<Double1>>, TRUE, <<>>>>, Fn("sum", <<<<"col", "_sample_interval">>>>)}
  \cup {Fn(fn, <<Double1>>) : fn \in {"sum", "avg", "min", "max"}}
  \cup {<<"func", fn, <<Double1>>, FALSE, <<Num(l)>>>> : fn \in Quantiles, l \in 0..2}
  \cup {<<"binary", "/", Fn("sum", <<Double1>>), Fn("count", <<>>)>>, Fn("sum", <<Fn("max", <<Double1>>)>>)}

\* A text as a date, and as a text.
Filters ==
  {<<"binary", ">=", Timestamp, Str("1970-01-10")>>, <<"binary", "<", Str("1970-01-10"), Timestamp>>,
   <<"between", Timestamp, Str("1970-01-10"), Str("1970-01-11"), FALSE>>,
   <<"in", Fn("toStartOfDay", <<Timestamp>>), <<Str("1970-01-10"), Str("1970-01-11")>>, TRUE>>,
   <<"binary", ">=", Timestamp, Fn("toDateTime", <<Str("1970-01-11")>>)>>,
   <<"like", <<"col", "blob1">>, Str("x"), FALSE>>,
   <<"binary", "=", Fn("if", <<Double1, Num(1), Num(2)>>), Fn("coalesce", <<Double1, Num(2)>>)>>,
   <<"binary", "=", Fn("sum", <<Double1>>), Num(1)>>}

Item(e, n) == [expr |-> e, name |-> <<Id(n)>>]
QueryOf(select, where, group, order, limit) ==
  [select |-> select, dataset |-> "d", where |-> where, group |-> group, order |-> order, limit |-> limit]
N == Item(Fn("count", <<>>), "n")

ConditionQueries == {QueryOf(<<N>>, <<c>>, <<>>, <<>>, NoLimit) : c \in Conditions}
DateQueries ==
  {QueryOf(<<Item(k, "k"), N>>, <<>>, <<<<"col", "k">>>>, <<>>, NoLimit) : k \in DateKeys}
  \cup {QueryOf(<<N, Item(Fn("max", <<Timestamp>>), "last")>>, <<c>>, <<>>, <<>>, NoLimit) : c \in Filters}
TotalQueries ==
  {QueryOf(<<Item(<<"col", "blob1">>, "k"), Item(t, "t")>>, <<>>, <<<<"col", "blob1">>>>,
          <<[expr |-> <<"col", "t">>, desc |-> d]>>, l) : t \in Totals, d \in BOOLEAN, l \in {1, NoLimit}}
  \cup {QueryOf(<<[expr |-> t, name |-> Printed(t)]>>, <<>>, <<>>, <<>>, NoLimit) : t \in Totals}
  \cup {QueryOf(<<Item(Double1, "t")>>, <<c>>, <<>>, <<[expr |-> Double1, desc |-> FALSE]>>, 2) : c \in Filters}

Point(ds, tick, blob, double) == [dataset |-> ds, timestamp |-> tick, blob1 |-> blob, double1 |-> double]
SomeDays == 9..16 \cup {30, 31, 58, 59, 60, 90, 364, 365, 789, 790, 1094}
DatePoints == {Point("d", (day * DayLength + second) * PerSecond + 1, TextV("x"), IntV(1)) : day \in SomeDays, second \in {0, 5}}
DataPoints == {Point("d", 9 * DayLength * PerSecond + 1, TextV("x"), v) : v \in {NullV, IntV(1), IntV(2)}}
              \cup {Point(ds, 9 * DayLength * PerSecond, TextV("y"), IntV(1)) : ds \in {"d", "other"}}

SqlInit == points = <<>> /\ asked = NoQuery /\ reply = [status |-> 0, rows |-> <<>>]

\* writeDataPoint, of a point within the limits.
WriteDataPoint(p) ==
  /\ asked = NoQuery
  /\ Len(points) < MaxPoints
  /\ points' = Append(points, p)
  /\ UNCHANGED <<asked, reply>>

\* A fetch of the SQL API without the token of an account.
Fetch(q) ==
  /\ asked' = q
  /\ \E parsed \in {Parse(Tokens(q))} : reply' = SqlReply(parsed)
  /\ UNCHANGED points

\* The one query that a table of these points is asked.
Queries ==
  CASE asked # NoQuery -> {}
    [] asked = NoQuery /\ Len(points) = 1 /\ points[1] \in DatePoints -> DateQueries
    [] asked = NoQuery /\ Len(points) = 1 /\ points[1].blob1 = TextV("x") /\ points[1] \in DataPoints ->
         ConditionQueries \cup TotalQueries
    [] asked = NoQuery /\ ~(Len(points) = 1 /\ points[1].blob1 = TextV("x")) ->
         IF ToSet(points) \subseteq DataPoints THEN TotalQueries ELSE {}

SqlNext ==
  \/ \E p \in DataPoints : WriteDataPoint(p)
  \/ points = <<>> /\ \E p \in DatePoints : WriteDataPoint(p)
  \/ \E q \in Queries : Fetch(q)

SqlSpec == SqlInit /\ [][SqlNext]_sqlVars

-----------------------------------------------------------------------------
\* The groups that a query is about, as sets of places in the table.
Matching(q) == {r \in DOMAIN points : points[r].dataset = q.dataset
                   /\ \A e \in ToSet(q.where) : Holds(Meaning(e, <<points[r]>>))}
SameGroup(q, r, s) == \A e \in ToSet(q.group) :
  Meaning(Unaliased(e, q), <<points[r]>>) = Meaning(Unaliased(e, q), <<points[s]>>)
Classes(q) ==
  CASE q.group # <<>> -> {{s \in Matching(q) : SameGroup(q, r, s)} : r \in Matching(q)}
    [] q.group = <<>> /\ SelectedCalls(q, PlainAggregates \cup Quantiles) # {} -> {Matching(q)}
    [] OTHER -> {{r} : r \in Matching(q)}

Shows(cell, v) ==
  CASE IsNull(v) -> IsNull(cell)
    [] v.ty = "date" -> cell.ty = "date" /\ cell.n = (v.n \div v.d) \div DayLength
    [] v.ty = "datetime" -> cell.ty = "datetime" /\ cell.n = v.n \div v.d
    [] OTHER -> cell.ty \notin {"date", "datetime"} /\ ~IsNull(cell) /\ Equal(cell, v)

\* ORDER BY puts a group with these keys behind one with the others (where NULL
\* comes is not part of it).
Later(q, keys, others) == \E k \in DOMAIN q.order :
  /\ ~IsNull(keys[k]) /\ ~IsNull(others[k])
  /\ IF q.order[k].desc THEN Below(keys[k], others[k]) ELSE Below(others[k], keys[k])

RowsOf(class) == [i \in 1..Cardinality(class) |-> points[SetToSortSeq(class, <)[i]]]
KeysOf(q, rows) == [k \in DOMAIN q.order |-> Meaning(Unaliased(q.order[k].expr, q), rows)]

Answers(q, groups, rows) ==
  /\ Len(rows) = (IF q.limit = NoLimit THEN Len(groups) ELSE Min({q.limit, Len(groups)}))
  /\ \A i, j \in DOMAIN groups : i < j => ~Later(q, KeysOf(q, groups[i]), KeysOf(q, groups[j]))
  /\ \A i \in DOMAIN rows : \A k \in DOMAIN q.select :
       Shows(rows[i][k], Meaning(q.select[k].expr, groups[i]))

\* The rows are those of some order of the groups that ORDER BY allows, up to LIMIT.
IsAnswer(q, rows) ==
  \E classes \in SetToSeqs(Classes(q)) : Answers(q, [c \in DOMAIN classes |-> RowsOf(classes[c])], rows)

(* A query is read as it was meant, whatever it is nested in (parseExpr);   *)
(* it is refused only if it asks for a time zone that is not kept or for an *)
(* aggregate in a wrong place (translateAnalyticsEngineSql), and what it is *)
(* answered is true of the data points (emit, applyPostProcess,             *)
(* formatDateTimeColumns).                                                  *)
QueriesTrue ==
  asked # NoQuery =>
    /\ Parse(Tokens(asked)) = asked
    /\ IF reply.status = 200 THEN IsAnswer(asked, reply.rows)
       ELSE \E e \in Exprs(asked) : \/ FnCalls(e, {"sum"}) # {}
                                    \/ \E f \in SubExprs(e) : f[1] = "func" /\ <<"str", "Prague">> \in ToSet(f[3])

=============================================================================
