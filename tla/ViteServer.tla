------------------------------ MODULE ViteServer ------------------------------
(***************************************************************************)
(* The Vite plugin's server (vite-plugin/dev-server-plugin.ts): the worker *)
(* is a module that Vite's runner imports again after an edit.  There is   *)
(* no reload of its own: every visit imports the entry point and, when it  *)
(* gets another module than the current one, wires the classes anew.  The  *)
(* rewiring is synchronous, so reloadLock is never seen taken.             *)
(***************************************************************************)
EXTENDS Naturals, FiniteSets

CONSTANTS
  Visits,    \* requests, and the triggers of scheduled() and email()
  Classes,   \* 1..n: Durable Objects and workflows in the order of their wiring
  MaxEdits,
  MaxGens    \* bound of the generations

ASSUME ViteAssumption ==
  /\ IsFiniteSet(Visits)
  /\ Classes = 1..Cardinality(Classes)
  /\ MaxEdits \in Nat /\ MaxGens \in Nat \ {0}

NoModule == 0        \* versions of the source are 1, 2, ...
Sources == 1..(MaxEdits + 1)
ViteGens == 1..MaxGens
Idle == [at |-> "idle", kind |-> "fetch", from |-> NoModule, got |-> NoModule,
         gen |-> 0, tries |-> 0]

VARIABLES
  lacks,      \* each version's class that it does not export, or 0
  source,     \* the version on disk
  module,     \* currentModule
  wired,      \* the module that each class was taken from
  viteGen,    \* currentGenerationId
  viteGens,   \* viteGenerations: "none", "active" or "stopped"
  forgetting, \* generations whose deletion is due in 60 s
  inFlight,   \* genActiveRequests
  failed,     \* whether the last rewiring failed
  visit

viteVars == <<lacks, source, module, wired, viteGen, viteGens, forgetting, inFlight, failed, visit>>

ViteType ==
  /\ lacks \in [Sources -> Classes \cup {0}] /\ source \in Sources
  /\ module \in Sources \cup {NoModule} /\ wired \in [Classes -> Sources \cup {NoModule}]
  /\ viteGen \in ViteGens \cup {0}
  /\ viteGens \in [ViteGens -> {"none", "active", "stopped"}]
  /\ forgetting \subseteq ViteGens /\ inFlight \in [ViteGens -> Nat] /\ failed \in BOOLEAN

ViteInit ==
  /\ lacks \in [Sources -> Classes \cup {0}]
  /\ source = 1 /\ module = NoModule /\ wired = [c \in Classes |-> NoModule]
  /\ viteGen = 0 /\ viteGens = [g \in ViteGens |-> "none"] /\ forgetting = {}
  /\ inFlight = [g \in ViteGens |-> 0] /\ failed = FALSE
  /\ visit = [r \in Visits |-> Idle]

-----------------------------------------------------------------------------

Edit ==
  /\ source \in 1..MaxEdits
  /\ source' = source + 1
  /\ UNCHANGED <<lacks, module, wired, viteGen, viteGens, forgetting, inFlight, failed, visit>>

\* A request that no other handler of the middleware took, or a trigger.
VisitArrives(r, kind) ==
  /\ visit[r] = Idle
  /\ visit' = [visit EXCEPT ![r] = [Idle EXCEPT !.at = "importing", !.kind = kind, !.from = source]]
  /\ UNCHANGED <<lacks, source, module, wired, viteGen, viteGens, forgetting, inFlight, failed>>

\* The runner: a module of the source as it was at some time during the import.
Loads(r, v) == visit[r].at = "importing" /\ v \in visit[r].from..source

Serves(r, v, gen) ==
  /\ visit' = [visit EXCEPT ![r].at = "serving", ![r].got = v, ![r].gen = gen]
  /\ inFlight' = IF visit[r].kind = "fetch" THEN [inFlight EXCEPT ![gen] = @ + 1] ELSE inFlight

\* Marks only generations that are still listed.
Marked(gens, g, state) ==
  [h \in ViteGens |-> IF h = g /\ gens[h] # "none" THEN state ELSE gens[h]]

SameModule(r) ==
  /\ Loads(r, module)
  /\ Serves(r, module, viteGen)
  /\ UNCHANGED <<lacks, source, module, wired, viteGen, viteGens, forgetting, failed>>

Rewires(r, v) ==
  /\ Loads(r, v) /\ v # module
  /\ lacks[v] = 0 /\ viteGen < MaxGens
  /\ module' = v /\ wired' = [c \in Classes |-> v] /\ failed' = FALSE
  /\ viteGen' = viteGen + 1
  /\ viteGens' = [Marked(viteGens, viteGen, "stopped") EXCEPT ![viteGen + 1] = "active"]
  /\ forgetting' = forgetting \cup {g \in {viteGen} : g # 0 /\ viteGens[g] # "none"}
  /\ Serves(r, v, viteGen + 1)
  /\ UNCHANGED <<lacks, source>>

\* wireClassRefs throws at the class that is missing: those before it are wired.
HalfWired(v) == [c \in Classes |-> IF c < lacks[v] THEN v ELSE wired[c]]

RewireFails_KeepsGeneration(r, v) ==
  /\ Loads(r, v) /\ v # module
  /\ lacks[v] # 0 /\ viteGen < MaxGens
  /\ wired' = HalfWired(v) /\ failed' = TRUE
  /\ viteGens' = Marked(viteGens, viteGen, "active")
  /\ viteGen' = viteGen + 1
  /\ IF module # NoModule THEN Serves(r, module, viteGen + 1)
     ELSE /\ visit' = [visit EXCEPT ![r].at = "failed"]
          /\ UNCHANGED inFlight
  /\ UNCHANGED <<lacks, source, module, forgetting>>

\* The catch block takes the new generation back and serves the previous module;
\* without one (at first, or after an HMR race) the visit fails.
RewireFails(r, v) ==
  /\ Loads(r, v) /\ v # module
  /\ lacks[v] # 0 /\ viteGen < MaxGens
  /\ wired' = HalfWired(v) /\ failed' = TRUE
  /\ viteGens' = Marked(viteGens, viteGen, "active")
  /\ IF module # NoModule THEN Serves(r, module, viteGen)
     ELSE /\ visit' = [visit EXCEPT ![r].at = "failed"]
          /\ UNCHANGED inFlight
  /\ UNCHANGED <<lacks, source, module, viteGen, forgetting>>

\* The module does not load: a syntax error, or a graph that is only half evaluated.
LoadFails(r, race) ==
  /\ visit[r].at = "importing"
  /\ visit' = [visit EXCEPT
       ![r].at = IF race /\ visit[r].kind = "fetch" /\ visit[r].tries = 0 THEN "retrying" ELSE "failed"]
  /\ UNCHANGED <<lacks, source, module, wired, viteGen, viteGens, forgetting, inFlight, failed>>

Released(r) == inFlight' = [inFlight EXCEPT ![visit[r].gen] = @ - 1]

\* A response, an error page, or no handler at all.
FetchEnds(r) ==
  /\ visit[r].at = "serving" /\ visit[r].kind = "fetch"
  /\ visit' = [visit EXCEPT ![r].at = "done"]
  /\ Released(r)
  /\ UNCHANGED <<lacks, source, module, wired, viteGen, viteGens, forgetting, failed>>

\* scheduled() or email(): their work is not counted by the generation.
TriggerEnds(r) ==
  /\ visit[r].at = "serving" /\ visit[r].kind = "trigger"
  /\ visit' = [visit EXCEPT ![r].at = "done"]
  /\ UNCHANGED <<lacks, source, module, wired, viteGen, viteGens, forgetting, inFlight, failed>>

\* isHmrRaceError: the module is given up, the request tries again 200 ms later, once.
VisitRaces(r) ==
  /\ visit[r].at = "serving" /\ visit[r].kind = "fetch"
  /\ module' = NoModule
  /\ visit' = [visit EXCEPT ![r].at = IF visit[r].tries = 0 THEN "retrying" ELSE "failed"]
  /\ Released(r)
  /\ UNCHANGED <<lacks, source, wired, viteGen, viteGens, forgetting, failed>>

VisitRetries(r) ==
  /\ visit[r].at = "retrying"
  /\ visit' = [visit EXCEPT ![r].at = "importing", ![r].from = source, ![r].tries = 1]
  /\ UNCHANGED <<lacks, source, module, wired, viteGen, viteGens, forgetting, inFlight, failed>>

\* The dashboard's stop only marks the record.
StopListed(g) ==
  /\ viteGens[g] # "none" /\ g \notin forgetting
  /\ viteGens' = [viteGens EXCEPT ![g] = "stopped"]
  /\ forgetting' = forgetting \cup {g}
  /\ UNCHANGED <<lacks, source, module, wired, viteGen, inFlight, failed, visit>>

Forget(g) ==
  /\ g \in forgetting
  /\ forgetting' = forgetting \ {g}
  /\ viteGens' = [viteGens EXCEPT ![g] = "none"]
  /\ UNCHANGED <<lacks, source, module, wired, viteGen, inFlight, failed, visit>>

ViteNext ==
  \/ Edit
  \/ \E r \in Visits :
       \/ \E kind \in {"fetch", "trigger"} : VisitArrives(r, kind)
       \/ SameModule(r) \/ \E v \in Sources : Rewires(r, v) \/ RewireFails(r, v)
       \/ \E race \in BOOLEAN : LoadFails(r, race)
       \/ FetchEnds(r) \/ TriggerEnds(r) \/ VisitRaces(r) \/ VisitRetries(r)
  \/ \E g \in ViteGens : StopListed(g) \/ Forget(g)

ViteSpec == ViteInit /\ [][ViteNext]_viteVars
-----------------------------------------------------------------------------
Exported(v) == v # NoModule /\ lacks[v] = 0
ServedBy(g) == {r \in Visits : visit[r].at = "serving" /\ visit[r].kind = "fetch" /\ visit[r].gen = g}

\* A visit is never served by a module that is older than the source at its arrival,
\* unless a version since then failed to load or to be wired (ensureWorkerModule);
\* what is served always exports every class.  The classes are all of the current
\* module, except while the last rewiring has failed or a race took the module away.
\* Only the current generation is active, and each generation counts exactly the
\* requests that it serves, whichever way they end (handleWorkerFetch's finally).
ViteServes ==
  /\ \A r \in Visits : visit[r].at \in {"serving", "done"} =>
       /\ Exported(visit[r].got)
       /\ visit[r].got < visit[r].from => \E v \in visit[r].from..source : ~Exported(v)
  /\ module # NoModule /\ ~failed => \A c \in Classes : wired[c] = module
  /\ \A g \in ViteGens : viteGens[g] = "active" => g = viteGen
  /\ \A g \in ViteGens : inFlight[g] = Cardinality(ServedBy(g))
=============================================================================
