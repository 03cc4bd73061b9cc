------------------------------- MODULE Routing -------------------------------
(***************************************************************************)
(* Which worker answers a request (route-matcher.ts, cli/dev.ts): the main *)
(* one is the fallback, the others register the routes of their            *)
(* configuration and the hosts of lopata.config.ts.  The table is sorted   *)
(* lazily, and a worker whose files change registers its routes again.     *)
(***************************************************************************)
EXTENDS Naturals, Sequences, FiniteSets, SequencesExt

CONSTANTS
  Patterns,     \* of the configurations
  MaxRouteEdits

\* A path is the sequence of its segments: "/a/" is <<"a", "">>, "/" is <<"">>.
\* "ab" stands for a segment that begins with another one, "__" for a first
\* segment that the server keeps for itself (/__api, /__dashboard, /cdn-cgi ...).
Segments == {"", "a", "ab", "__"}
SegLen == [s \in Segments |-> CASE s = "" -> 0 [] s = "a" -> 1 [] OTHER -> 2]
Begins(s, t) == s = t \/ s = "" \/ (s = "a" /\ t = "ab")
Paths == {<<"">>, <<"__">>, <<"a">>, <<"ab">>, <<"a", "">>, <<"a", "a">>, <<"a", "ab">>, <<"ab", "a">>}

\* The tail of a pattern is "/*", "*" or nothing.
RoutePattern == [segs : Seq(Segments \ {"__"}), tail : {"/*", "*", ""}]
Everything == [segs |-> <<>>, tail |-> "/*"]

\* The hosts of a worker: an exact name and a wildcard that covers it.
HostPatterns == {"h.localhost", "*.localhost"}
Hosts == {"h.localhost", "g.localhost", "localhost"}
MatchHost(host, hp) == host = hp \/ (hp = "*.localhost" /\ host # "localhost")

Main == "main"
Aux == <<"x", "y">>              \* in the order of lopata.config.ts
Workers == {Main} \cup ToSet(Aux)

\* The routes of a configuration, of which the key may be absent.
Configs == [has : BOOLEAN, list : {<<>>} \cup {<<p>> : p \in Patterns}]
             \ [has : {FALSE}, list : {<<p>> : p \in Patterns}]

ASSUME RoutingAssumption == Patterns \subseteq RoutePattern /\ MaxRouteEdits \in Nat

VARIABLES
  hosts,    \* of lopata.config.ts
  routes,   \* the routes in each configuration file
  cached,   \* the configurations as loaded at the start
  applied,  \* the list that each worker registered last
  due,      \* callbacks of reloads that have yet to read the configuration
  reading,  \* what the callback of a reload has read from the file
  table, isSorted,
  ready,    \* whether there is a dispatcher yet
  edits

routeVars == <<hosts, routes, cached, applied, due, reading, table, isSorted, ready, edits>>

Entry == [pattern : RoutePattern, worker : Workers, hosts : SUBSET HostPatterns]

RoutingType ==
  /\ hosts \in [Workers -> SUBSET HostPatterns]
  /\ table \in Seq(Entry) /\ isSorted \in BOOLEAN /\ ready \in BOOLEAN /\ edits \in 0..MaxRouteEdits

-----------------------------------------------------------------------------
(* The table.                                                              *)

MatchRoute(path, p) ==
  LET n == Len(p.segs) IN
  CASE p.tail = ""   -> path = p.segs
    [] p.tail = "/*" -> Len(path) > n /\ SubSeq(path, 1, n) = p.segs
    [] p.tail = "*"  -> \/ n = 0
                        \/ /\ Len(path) >= n /\ SubSeq(path, 1, n - 1) = SubSeq(p.segs, 1, n - 1)
                           /\ Begins(p.segs[n], path[n])

Length(p) ==
  Len(p.segs) + FoldLeft(LAMBDA n, s : n + SegLen[s], 0, p.segs)
    + (CASE p.tail = "/*" -> 2 [] p.tail = "*" -> 1 [] OTHER -> 0)

Wild(p) == p.tail # ""
SegmentCount(p) == Len(SelectSeq(p.segs, LAMBDA s : s # ""))
HasWildcardHost(e) == "*.localhost" \in e.hosts

\* The comparator: each criterion decides when those before it are even.
Precedes(e, f) ==
  LET p == e.pattern  q == f.pattern IN
  IF Wild(p) # Wild(q) THEN Wild(q)
  ELSE IF SegmentCount(p) # SegmentCount(q) THEN SegmentCount(p) > SegmentCount(q)
  ELSE IF (p.tail = "/*") # (q.tail = "/*") THEN p.tail = "/*"
  ELSE IF HasWildcardHost(e) # HasWildcardHost(f) THEN HasWildcardHost(f)
  ELSE Length(p) > Length(q)

\* Array.sort is stable.
Sorted(t) ==
  LET Before(j, i) == Precedes(t[j], t[i]) \/ (j < i /\ ~Precedes(t[i], t[j]))
      Place(i) == Cardinality({j \in DOMAIN t : j # i /\ Before(j, i)}) + 1
  IN [k \in DOMAIN t |-> t[CHOOSE i \in DOMAIN t : Place(i) = k]]

Ordered == IF isSorted THEN table ELSE Sorted(table)

Matches(e, path, host) ==
  /\ e.hosts # {} => \E hp \in e.hosts : MatchHost(host, hp)
  /\ MatchRoute(path, e.pattern)

Others(t, w) == SelectSeq(t, LAMBDA e : e.worker # w)

\* A pattern that another worker without hosts has registered is skipped.
Pushed(t, w, c) ==
  LET Taken(u, p) == hosts[w] = {} /\ \E i \in DOMAIN u : u[i].pattern = p /\ u[i].hosts = {}
  IN FoldLeft(LAMBDA u, p : IF Taken(u, p) THEN u
                            ELSE Append(u, [pattern |-> p, worker |-> w, hosts |-> hosts[w]]),
              Others(t, w), c)

Added(t, w, c) == IF c.has THEN Pushed(t, w, c.list) ELSE t

HostAdded(t, w) ==
  Append(Others(t, w), [pattern |-> Everything, worker |-> w, hosts |-> hosts[w]])

\* Start-up: routes, and all paths of its hosts for a worker without any.
Registered(t, w) ==
  LET u == Added(t, w, cached[w]) IN
  IF hosts[w] # {} /\ cached[w].list = <<>> THEN HostAdded(u, w) ELSE u

-----------------------------------------------------------------------------

RoutingInit ==
  /\ hosts \in [Workers -> {{}, {"h.localhost"}, {"*.localhost"}}]
  /\ hosts[Main] # {"*.localhost"}
  /\ routes \in [ToSet(Aux) -> Configs]
  /\ cached = routes /\ applied = [w \in ToSet(Aux) |-> <<>>]
  /\ due = [w \in ToSet(Aux) |-> 0]
  /\ reading = [w \in ToSet(Aux) |-> <<>>]
  /\ table = <<>> /\ isSorted = TRUE /\ ready = FALSE /\ edits = 0

\* A worker's files are edited, perhaps its configuration too: it reloads.  The
\* callback does nothing more as long as there is no dispatcher.
EditRoutes(w, c) ==
  /\ edits < MaxRouteEdits
  /\ routes' = [routes EXCEPT ![w] = c] /\ edits' = edits + 1
  /\ due' = IF ready THEN [due EXCEPT ![w] = @ + 1] ELSE due
  /\ UNCHANGED <<hosts, cached, applied, reading, table, isSorted, ready>>

\* The dispatcher is made once the main worker has loaded; it prints its table.
SetUp ==
  /\ ~ready /\ ready' = TRUE
  /\ table' = Sorted(FoldLeft(Registered, IF hosts[Main] = {} THEN <<>> ELSE HostAdded(<<>>, Main), Aux))
  /\ isSorted' = TRUE
  /\ applied' = [w \in ToSet(Aux) |->
       IF cached[w].list # <<>> THEN cached[w].list
       ELSE IF hosts[w] = {} THEN <<>> ELSE <<Everything>>]
  /\ UNCHANGED <<hosts, routes, cached, due, reading, edits>>

\* The callback of a reload reads the configuration again; two may be at it.
ReadConfig(w) ==
  /\ due[w] > 0 /\ due' = [due EXCEPT ![w] = @ - 1]
  /\ reading' = [reading EXCEPT ![w] = Append(@, routes[w])]
  /\ UNCHANGED <<hosts, routes, cached, applied, table, isSorted, ready, edits>>

AddRoutes_StaysSorted(w, i) ==
  LET c == reading[w][i]  u == Added(table, w, c) IN
  /\ reading' = [reading EXCEPT ![w] = RemoveAt(@, i)]
  /\ applied' = IF c.has THEN [applied EXCEPT ![w] = c.list] ELSE applied
  /\ table' = u
  /\ UNCHANGED <<hosts, routes, cached, due, isSorted, ready, edits>>

\* addRoutes clears the worker's entries first, unless the key is absent.
AddRoutes(w, i) ==
  LET c == reading[w][i]  u == Added(table, w, c) IN
  /\ reading' = [reading EXCEPT ![w] = RemoveAt(@, i)]
  /\ applied' = IF c.has THEN [applied EXCEPT ![w] = c.list] ELSE applied
  /\ table' = u
  /\ isSorted' = IF ~c.has THEN isSorted
                 ELSE IF Len(u) > Len(Others(table, w)) THEN FALSE
                 ELSE isSorted \/ (table # <<>> /\ u = <<>>)
  /\ UNCHANGED <<hosts, routes, cached, due, ready, edits>>

\* resolve() sorts, then takes the first entry that matches.
Request ==
  /\ ready
  /\ table' = Ordered /\ isSorted' = TRUE
  /\ UNCHANGED <<hosts, routes, cached, applied, due, reading, ready, edits>>

FirstHit(t, path, host) ==
  LET hits == {i \in DOMAIN t : Matches(t[i], path, host)}
  IN IF hits = {} THEN Main ELSE t[CHOOSE i \in hits : \A j \in hits : i <= j].worker

\* The server's own paths come first (Bun.serve fetch).
Answers(t, path, host) == IF path[1] = "__" THEN "server" ELSE FirstHit(t, path, host)

RoutingNext ==
  \/ SetUp \/ Request
  \/ \E w \in ToSet(Aux) :
       \/ ReadConfig(w)
       \/ \E c \in Configs : EditRoutes(w, c)
       \/ \E i \in DOMAIN reading[w] : AddRoutes(w, i)

RoutingSpec == RoutingInit /\ [][RoutingNext]_routeVars
-----------------------------------------------------------------------------
Language(p) == {path \in Paths : MatchRoute(path, p)}
Wider(p, q) == Language(q) \subseteq Language(p) /\ Language(p) # Language(q)

\* An entry that another one for the same request should have beaten.
Beaten(e, f) ==
  \/ e.hosts = f.hosts /\ Wider(e.pattern, f.pattern)
  \/ e.pattern = f.pattern /\ f.hosts # {} /\ HasWildcardHost(e) /\ ~HasWildcardHost(f)

\* The worker that answers has the most specific route: no other route for the same
\* hosts that matches the path covers strictly less than the one it answers by, and
\* of equal patterns the exact host's wins over the wildcard's (ensureSorted).  Every
\* worker's entries come from the one list it registered last, and routes without
\* hosts have one owner (addRoutes); nobody takes a path that the server keeps.
RouteBest == ready =>
  /\ LET t == Ordered IN \A path \in Paths : \A host \in Hosts :
       LET hits == {i \in DOMAIN t : Matches(t[i], path, host)} IN
       CASE path[1] = "__" -> Answers(t, path, host) = "server"
         [] hits = {}      -> Answers(t, path, host) = Main
         [] OTHER          -> \E i \in hits : /\ t[i].worker = Answers(t, path, host)
                                             /\ \A j \in hits : ~Beaten(t[i], t[j])
  /\ \A i \in DOMAIN table :
       table[i].worker # Main => table[i].pattern \in ToSet(applied[table[i].worker])
  /\ \A i, j \in DOMAIN table :
       table[i].pattern = table[j].pattern /\ table[i].hosts = {} /\ table[j].hosts = {} => i = j
=============================================================================
