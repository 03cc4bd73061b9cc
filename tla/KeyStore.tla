------------------------------ MODULE KeyStore ------------------------------
(***************************************************************************)
(* KV namespaces (bindings/kv.ts) and the Cache API (bindings/cache.ts):   *)
(* rows with an expiration that nobody removes in time.  Whoever reads a   *)
(* row that has expired deletes it by key, in a statement of its own, and  *)
(* the worker threads, main, the dashboard and the CLI have a connection   *)
(* each.                                                                   *)
(***************************************************************************)
EXTENDS Integers, FiniteSets

CONSTANTS
  KvKeys,     \* 1..n, in the order of list()
  Prefixed,   \* the keys under the prefix that is listed
  PageSize,   \* list({ limit })
  MaxTime     \* bound of the clock

ASSUME KeyAssumption ==
  /\ IsFiniteSet(KvKeys) /\ KvKeys = 1..Cardinality(KvKeys) /\ Prefixed \subseteq KvKeys
  /\ PageSize \in Nat \ {0} /\ MaxTime \in Nat \ {0}

Url == 0                 \* the one URL of the cache
KeyRows == KvKeys \cup {Url}
Missing == -1            \* a row's expiration: no row,
Never == MaxTime + 1     \* or one without expiration
NoListing == [cursor |-> 0, seen |-> {}, steady |-> {}, again |-> FALSE, done |-> TRUE]

VARIABLES
  now,
  entry,      \* the expiration of each row
  purging,    \* rows somebody has read as expired and is about to delete
  storing,    \* cache.put while it reads the body: the expiration it computed
  listing,    \* one client's way through the pages
  lost,       \* keys whose row went although it was neither deleted nor over
  overtaken   \* keys put while they were being purged

keyVars == <<now, entry, purging, storing, listing, lost, overtaken>>

KeyType ==
  /\ now \in 0..MaxTime
  /\ entry \in [KeyRows -> Missing..Never]
  /\ purging \subseteq KeyRows /\ overtaken \subseteq KeyRows /\ lost \subseteq KeyRows
  /\ storing \in Missing..Never
  /\ listing \in [cursor : KvKeys \cup {0}, seen : SUBSET KvKeys, steady : SUBSET KvKeys,
                  again : BOOLEAN, done : BOOLEAN]

KeyInit ==
  /\ now = 0
  /\ entry = [k \in KeyRows |-> Missing]
  /\ purging = {} /\ overtaken = {} /\ lost = {}
  /\ storing = Missing
  /\ listing = NoListing

(* KV compares with <, the cache with <=.                                   *)
Expired(k) ==
  entry[k] # Missing /\ (IF k = Url THEN entry[k] <= now ELSE entry[k] < now)

-----------------------------------------------------------------------------

KeyTick ==
  /\ now < MaxTime
  /\ now' = now + 1
  /\ UNCHANGED <<entry, purging, storing, listing, lost, overtaken>>

(* The row of k is written; a listing can no longer count on a row that goes. *)
Stores(k, expiration) ==
  /\ entry' = [entry EXCEPT ![k] = expiration]
  /\ lost' = lost \ {k}
  /\ overtaken' = IF k \in purging THEN overtaken \cup {k} ELSE overtaken \ {k}
  /\ listing' = IF expiration = Missing THEN [listing EXCEPT !.steady = @ \ {k}] ELSE listing

\* expiration and expirationTtl are refused unless they lie well in the future.
KvPut(k, expiration) ==
  /\ expiration > now
  /\ Stores(k, expiration)
  /\ UNCHANGED <<now, purging, storing>>

KvDelete(k) ==
  /\ Stores(k, Missing)
  /\ UNCHANGED <<now, purging, storing>>

\* get, getWithMetadata, their bulk forms and cache.match find an expired row ...
ReadExpired(k) ==
  /\ Expired(k)
  /\ purging' = purging \cup {k}
  /\ UNCHANGED <<now, entry, storing, listing, lost, overtaken>>

\* ... and delete whatever row there is under the key by then.
Purge(k) ==
  /\ k \in purging
  /\ purging' = purging \ {k}
  /\ entry' = [entry EXCEPT ![k] = Missing]
  /\ lost' = IF entry[k] = Missing \/ Expired(k) THEN lost ELSE lost \cup {k}
  /\ listing' = [listing EXCEPT !.steady = @ \ {k}]
  /\ UNCHANGED <<now, storing, overtaken>>

-----------------------------------------------------------------------------
(* cache.put computes the expiration and then awaits the body; max-age=0 is *)
(* over at once, no-store is not stored.                                    *)

CachePutStarts(expiration) ==
  /\ storing = Missing
  /\ expiration >= now
  /\ storing' = expiration
  /\ UNCHANGED <<now, entry, purging, listing, lost, overtaken>>

CachePutEnds ==
  /\ storing # Missing
  /\ storing' = Missing
  /\ Stores(Url, storing)
  /\ UNCHANGED <<now, purging>>

CacheDelete ==
  /\ Stores(Url, Missing)
  /\ UNCHANGED <<now, purging, storing>>

-----------------------------------------------------------------------------
(* list deletes what has expired and then selects from the cursor on.       *)

ListingStarts ==
  /\ listing.done
  /\ listing' = [NoListing EXCEPT !.done = FALSE,
                   !.steady = {k \in Prefixed : entry[k] # Missing}]
  /\ UNCHANGED <<now, entry, purging, storing, lost, overtaken>>

Selected_FromCursor(swept) == {k \in Prefixed : swept[k] # Missing /\ k >= listing.cursor}

Selected(swept) == {k \in Prefixed : swept[k] # Missing /\ k > listing.cursor}
First(n, S) == {k \in S : Cardinality({j \in S : j < k}) < n}
Greatest(S) == CHOOSE k \in S : \A j \in S : j <= k

ListingPage ==
  LET swept == [k \in KeyRows |-> IF k # Url /\ Expired(k) THEN Missing ELSE entry[k]]
      page  == First(PageSize, Selected(swept))
  IN
  /\ ~listing.done
  /\ entry' = swept
  /\ listing' = [cursor |-> IF page = {} THEN 0 ELSE Greatest(page),
                 seen   |-> listing.seen \cup page,
                 steady |-> {k \in listing.steady : swept[k] # Missing},
                 again  |-> listing.again \/ page \cap listing.seen # {},
                 done   |-> Cardinality(Selected(swept)) <= PageSize]
  /\ lost' = lost \cup {k \in KeyRows : swept[k] # entry[k] /\ ~Expired(k)}
  /\ UNCHANGED <<now, purging, storing, overtaken>>

KeyNext ==
  \/ KeyTick
  \/ \E k \in KvKeys : KvDelete(k) \/ \E e \in {now + 1, Never} : KvPut(k, e)
  \/ \E k \in KeyRows : ReadExpired(k) \/ Purge(k)
  \/ \E e \in {now, now + 1, Never} : CachePutStarts(e)
  \/ CachePutEnds \/ CacheDelete
  \/ ListingStarts \/ ListingPage

KeySpec == KeyInit /\ [][KeyNext]_keyVars

\* A listing page by page shows every key that stays there meanwhile, and no key
\* twice, whatever is put, deleted and expires between two pages (list, the cursor
\* is a key).  What was put is there until it is deleted, replaced or expires: the
\* lazy deletions by get, list and match take nothing else, except a value that was
\* put between another connection's look at an expired row and its DELETE.
KeysKept ==
  /\ listing.done => listing.steady \subseteq listing.seen
  /\ ~listing.again
  /\ lost \subseteq overtaken
=============================================================================
