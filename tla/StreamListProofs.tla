------------------------- MODULE StreamListProofs -------------------------
(***************************************************************************)
(* Proofs about StreamList for any number of keys and requests and any     *)
(* durations: the rebuild slots never leak and never pass their limit, an  *)
(* outage's mark is never taken off early, no list is kept on a device for *)
(* longer than its tickets live, and, when a list is fresh for longer than *)
(* a rebuild may take or an outage's mark as long as two, no rebuild of a  *)
(* key starts beside another that has its time.                            *)
(*                                                                         *)
(* The last needs what the other requests of the key are doing: the mark   *)
(* runs from the clock its request read before its build, which may be     *)
(* earlier than a rebuild booked since, unless the key has shown no list   *)
(* to answer from in between (Quiet).  Even then it may end before the     *)
(* rebuild whose lease it took, but no list goes stale meanwhile (Barred). *)
(***************************************************************************)
EXTENDS StreamList, TLAPS, FiniteSetTheorems

USE DurationAssumption, RebuildAssumption, NoneAssumption

\* What the place of a request says about its other fields (the states of
\* handleStream, lastResort and rebuildBehind between their steps).
LEMMA RequestShape ==
  ASSUME TypeOK, NEW r \in Requests
  PROVE  /\ request[r].at \in {"idle", "behind", "last", "build", "joined", "built"}
         /\ request[r].at \in {"behind", "last"} => request[r].key \in Keys /\ request[r].list \in List
         /\ request[r].at \in {"build", "joined", "built"} =>
              request[r].key \in Keys /\ request[r].list \in List \cup {None} /\ request[r].since \in Nat
         /\ request[r].at = "built" =>
              request[r].outcome \in Outcomes /\ request[r].result \in List
<1>1. request[r] \in Request
  BY DEF TypeOK
<1> QED
  BY <1>1 DEF Request

\* The server's own durations are natural numbers (staleWindowFor, outageHoldFor).
LEMMA Durations ==
  /\ StaleWindowFor \in Nat /\ StaleIfErrorFor \in Nat /\ OutageHoldFor \in Nat /\ ShortTTL \in Nat
  /\ StaleWindowFor <= ListTTL /\ ShortTTL <= ListTTL
  /\ ListCache \in Nat /\ PartialListCache \in Nat /\ StaleListCache \in Nat
BY DEF StaleWindowFor, StaleIfErrorFor, OutageHoldFor, ShortTTL, Larger, Smaller,
       ListCache, PartialListCache, StaleListCache

\* What is sent out is a list and a time (writeBuilt, handleStream, lastResort).
LEMMA SentType ==
  ASSUME now \in Nat, NEW l \in List, NEW reach \in Nat, Sent(l, reach)
  PROVE  answer' \in [list: List, until: Nat] \cup {None}
BY DEF Sent

\* How long a device may keep a list is a natural number (listCache, partialListCache).
LEMMA CacheForType ==
  ASSUME NEW l \in List
  PROVE  CacheFor(l) \in Nat
BY Durations DEF CacheFor

\* Dropping ended leases keeps the map's shape (bookRebuild, markOutage).
LEMMA SweptType ==
  ASSUME TypeOK, NEW at
  PROVE  /\ Swept(at) \in [Keys -> Lease \cup {None}]
         /\ \A k \in Keys : Swept(at)[k] # None => Swept(at)[k] = lease[k]
BY DEF TypeOK, Swept
-----------------------------------------------------------------------------
(* The types                                                               *)

\* A handler's step keeps every variable's shape.
LEMMA TypeStep ==
  ASSUME TypeOK, [Next]_vars
  PROVE  TypeOK'
<1> USE DEF TypeOK
<1>1. ASSUME NEW r \in Requests, NEW k \in Keys, Arrive(r, k)
      PROVE  TypeOK'
  <2>1. CASE Hit(r, k)
    <3>1. answer' \in [list: List, until: Nat] \cup {None}
      BY <2>1, CacheForType, SentType DEF Hit, Held
    <3> QED
      BY <1>1, <2>1, <3>1 DEF Arrive, Hit, book, Booked
  <2>2. CASE StaleHit(r, k)
    <3>1. [at |-> "behind", key |-> k, list |-> list[k]] \in Request
      BY <2>2 DEF StaleHit, Held, Request
    <3> QED
      BY <1>1, <2>2, <3>1 DEF Arrive, StaleHit, Goes, Silent, book, Booked
  <2>3. CASE LastHit(r, k)
    <3>1. [at |-> "last", key |-> k, list |-> list[k]] \in Request
      BY <2>3 DEF LastHit, Held, Request
    <3> QED
      BY <1>1, <2>3, <3>1 DEF Arrive, LastHit, Goes, Silent, book, Booked
  <2>4. CASE Miss(r, k)
    <3>1. [at |-> "build", key |-> k, list |-> None, since |-> now] \in Request
      BY DEF Request
    <3> QED
      BY <1>1, <2>4, <3>1 DEF Arrive, Miss, Goes, Silent, book, Booked
  <2> QED
    BY <1>1, <2>1, <2>2, <2>3, <2>4 DEF Arrive
<1>2. ASSUME NEW r \in Requests, RebuildBehind(r)
      PROVE  TypeOK'
  <2> DEFINE k == request[r].key
  <2>1. k \in Keys /\ request[r].list \in List
    BY <1>2, RequestShape DEF RebuildBehind
  <2>2. answer' \in [list: List, until: Nat] \cup {None}
    BY <1>2, <2>1, Durations, SentType DEF RebuildBehind
  <2>3. request' \in [Requests -> Request]
    BY <1>2 DEF RebuildBehind, Goes, Idle, Request
  <2>4. CASE UNCHANGED <<book, rebuilds>>
    BY <1>2, <2>2, <2>3, <2>4 DEF RebuildBehind, book, Booked
  <2>5. CASE /\ BookRebuild(k)
             /\ \E at \in {"start", "done"} :
                  rebuilds' = rebuilds \cup
                    {[key |-> k, gen |-> gen + 1, until |-> now + RebuildBudget, at |-> at,
                      cooloff |-> FALSE]}
    <3>1. [until |-> now + RebuildBudget, gen |-> gen + 1, outage |-> FALSE] \in Lease
      BY DEF Lease
    <3>2. /\ lease' \in [Keys -> Lease \cup {None}]
          /\ \A j \in Keys : lease'[j] # None => lease'[j].gen \in 1..gen'
      BY <2>1, <2>5, <3>1, SweptType DEF BookRebuild
    <3>3. gen' \in Nat /\ live' \in Nat
      BY <2>5 DEF BookRebuild
    <3>4. rebuilds' \subseteq Rebuild
      <4>1. PICK at \in {"start", "done"} :
              rebuilds' = rebuilds \cup
                {[key |-> k, gen |-> gen + 1, until |-> now + RebuildBudget, at |-> at,
                  cooloff |-> FALSE]}
        BY <2>5
      <4>2. [key |-> k, gen |-> gen + 1, until |-> now + RebuildBudget, at |-> at,
             cooloff |-> FALSE] \in Rebuild
        BY <2>1 DEF Rebuild
      <4> QED
        BY <4>1, <4>2
    <3>5. Booked' \subseteq 1..gen'
      BY <2>5, <3>3 DEF BookRebuild, Booked
    <3> QED
      BY <1>2, <2>2, <2>3, <3>2, <3>3, <3>4, <3>5 DEF RebuildBehind
  <2> QED
    BY <1>2, <2>4, <2>5 DEF RebuildBehind
<1>3. ASSUME NEW r \in Requests, LastResort(r)
      PROVE  TypeOK'
  <2>1. request[r].key \in Keys /\ request[r].list \in List
    BY <1>3, RequestShape DEF LastResort
  <2>2. [at |-> "build", key |-> request[r].key,
         list |-> IF Usable(request[r].list) THEN request[r].list ELSE None, since |-> now] \in Request
    BY <2>1 DEF Request
  <2>3. Idle \in Request
    BY DEF Idle, Request
  <2>4. request' \in [Requests -> Request]
    BY <1>3, <2>2, <2>3 DEF LastResort, Goes
  <2>5. answer' \in [list: List, until: Nat] \cup {None}
    BY <1>3, <2>1, Durations, SentType DEF LastResort, Silent
  <2> QED
    BY <1>3, <2>4, <2>5 DEF LastResort, book, Booked
<1>4. ASSUME NEW r \in Requests, BuildInFront(r)
      PROVE  TypeOK'
  <2>1. [request[r] EXCEPT !.at = "joined"] \in Request
    BY <1>4 DEF BuildInFront, Request
  <2> QED
    BY <1>4, <2>1 DEF BuildInFront, Silent, book, Booked
<1>5. ASSUME NEW r \in Requests, ServeHeld(r)
      PROVE  TypeOK'
  <2>1. /\ request[r].key \in Keys /\ request[r].list \in List /\ request[r].since \in Nat
    BY <1>5, RequestShape DEF ServeHeld, FallsBack
  <2>2. answer' \in [list: List, until: Nat] \cup {None}
    BY <1>5, <2>1, Durations, SentType DEF ServeHeld
  <2>3. request' \in [Requests -> Request]
    BY <1>5 DEF ServeHeld, Goes, Idle, Request
  <2>4. [until |-> request[r].since + RebuildCooloff, gen |-> gen + 1, outage |-> TRUE] \in Lease
    BY <2>1 DEF Lease
  <2>5. /\ lease' \in [Keys -> Lease \cup {None}]
        /\ \A j \in Keys : lease'[j] # None => lease'[j].gen \in 1..gen'
    BY <1>5, <2>1, <2>4, SweptType DEF ServeHeld, MarkOutage
  <2> QED
    BY <1>5, <2>2, <2>3, <2>5 DEF ServeHeld, MarkOutage, Booked
<1>6. ASSUME NEW r \in Requests, WriteBuilt(r)
      PROVE  TypeOK'
  <2>1. request[r].result \in List
    BY <1>6, RequestShape DEF WriteBuilt
  <2>2. answer' \in [list: List, until: Nat] \cup {None}
    BY <1>6, <2>1, CacheForType, SentType DEF WriteBuilt
  <2>3. request' \in [Requests -> Request]
    BY <1>6 DEF WriteBuilt, Goes, Idle, Request
  <2> QED
    BY <1>6, <2>2, <2>3 DEF WriteBuilt, book, Booked
<1>7. ASSUME NEW b \in rebuilds, StartRebuild(b)
      PROVE  TypeOK'
  <2>1. [b EXCEPT !.at = "joined"] \in Rebuild /\ [b EXCEPT !.at = "joined"].gen = b.gen
    BY <1>7 DEF Rebuild
  <2> QED
    BY <1>7, <2>1 DEF StartRebuild, Silent, book, Booked
<1>8. ASSUME NEW b \in rebuilds, ReleaseRebuild(b)
      PROVE  TypeOK'
  <2>1. b \in Rebuild /\ b.gen \in 1..gen
    BY DEF Booked
  <2>2. [until |-> now + RebuildCooloff, gen |-> b.gen, outage |-> FALSE] \in Lease
    BY <2>1 DEF Lease, Rebuild
  <2>3. /\ lease' \in [Keys -> Lease \cup {None}]
        /\ \A j \in Keys : lease'[j] # None => lease'[j].gen \in 1..gen
    BY <1>8, <2>1, <2>2 DEF ReleaseRebuild, Released, Rebuild
  <2>4. live' \in Nat
    BY <1>8 DEF ReleaseRebuild, Freed
  <2> QED
    BY <1>8, <2>3, <2>4 DEF ReleaseRebuild, Silent, Booked
<1>9. ASSUME NEW k \in Keys, NEW outcome \in Outcomes, NEW nonempty \in BOOLEAN,
             FinishBuild(k, outcome, nonempty)
      PROVE  TypeOK'
  <2>1. Built(outcome, nonempty) \in List
    BY DEF Built, List
  <2>2. \A r \in Requests : RequestJoined(r, k) =>
          [at |-> "built", key |-> k, list |-> request[r].list, since |-> request[r].since,
           outcome |-> outcome, result |-> Built(outcome, nonempty)] \in Request
    BY <2>1, RequestShape DEF RequestJoined, Request
  <2>3. request' \in [Requests -> Request]
    BY <1>9, <2>2 DEF FinishBuild, Idle, Request
  <2>4. /\ rebuilds' \subseteq Rebuild
        /\ Booked' = Booked
    <3>1. Degraded(outcome) \in BOOLEAN
      BY SMT DEF Degraded
    <3>2. ASSUME NEW b \in rebuilds
          PROVE  /\ [b EXCEPT !.at = "done", !.cooloff = Degraded(outcome)] \in Rebuild
                 /\ [b EXCEPT !.at = "done", !.cooloff = Degraded(outcome)].gen = b.gen
      BY <3>1 DEF Rebuild
    <3>3. rebuilds' = {IF RebuildJoined(b, k)
                       THEN [b EXCEPT !.at = "done", !.cooloff = Degraded(outcome)]
                       ELSE b : b \in rebuilds}
      BY <1>9 DEF FinishBuild
    <3>4. rebuilds' \subseteq Rebuild
      BY <3>2, <3>3
    <3>5. Booked' = Booked
      <4> DEFINE f(b) == IF RebuildJoined(b, k)
                         THEN [b EXCEPT !.at = "done", !.cooloff = Degraded(outcome)] ELSE b
      <4>1. \A b \in rebuilds : f(b).gen = b.gen
        BY <3>2
      <4>2. rebuilds' = {f(b) : b \in rebuilds}
        BY <3>3
      <4> HIDE DEF f
      <4> QED
        BY <4>1, <4>2 DEF Booked
    <3> QED
      BY <3>4, <3>5
  <2>5. list' \in [Keys -> List \cup {None}]
    BY <1>9, <2>1 DEF FinishBuild
  <2> QED
    BY <1>9, <2>3, <2>4, <2>5 DEF FinishBuild, Silent, book
<1>10. CASE Tick
  BY <1>10 DEF Tick, Silent, book, Booked
<1>11. ASSUME NEW k \in Keys, Evict(k)
       PROVE  TypeOK'
  BY <1>11 DEF Evict, Silent, book, Booked
<1>12. CASE UNCHANGED vars
  BY <1>12 DEF vars, book, Booked
<1> QED
  BY <1>1, <1>2, <1>3, <1>4, <1>5, <1>6, <1>7, <1>8, <1>9, <1>10, <1>11, <1>12
     DEF Next, RequestStep, RebuildStep, BuildStep

\* Every variable keeps its shape, and no number is on a lease or a booking before
\* rebuildGen hands it out (bookRebuild, markOutage, releaseRebuild).
THEOREM TypeCorrect == Spec => []TypeOK
<1>1. Init => TypeOK
  BY DEF Init, TypeOK, Idle, Request, Booked
<1>2. TypeOK /\ [Next]_vars => TypeOK'
  BY TypeStep
<1> QED
  BY <1>1, <1>2, PTL DEF Spec
-----------------------------------------------------------------------------
(* The slots and the generations                                           *)

\* What makes the lease's number a fence: no two bookings share one, an outage's
\* number is no booking's, the slots in use are the numbers booked, and what a
\* request remembers as its own start is not in the future.
Fencing ==
  /\ \A a, b \in rebuilds : a.gen = b.gen => a = b
  /\ \A k \in Keys : (lease[k] # None /\ lease[k].outage) => lease[k].gen \notin Booked
  /\ IsFiniteSet(Booked)
  /\ SlotsAreRebuilds
  /\ \A r \in Requests : request[r].at \in {"build", "joined", "built"} => request[r].since <= now

\* The steps that leave the book alone and send no request to a build keep the fence.
LEMMA FencingKept ==
  ASSUME TypeOK, Fencing, UNCHANGED <<book, rebuilds>>, now' = now,
         \A r \in Requests : request'[r].at \in {"build", "joined", "built"} =>
           \/ request'[r].since = now
           \/ /\ request[r].at \in {"build", "joined", "built"}
              /\ request'[r].since = request[r].since
  PROVE  Fencing'
<1>1. now \in Nat
  BY DEF TypeOK
<1>2. \A r \in Requests : request'[r].at \in {"build", "joined", "built"} => request'[r].since <= now'
  BY <1>1 DEF Fencing
<1> QED
  BY <1>2 DEF Fencing, SlotsAreRebuilds, Booked, book

\* A release gives back the slot of the one booking with that number (releaseRebuild).
LEMMA BookedAfterRelease ==
  ASSUME TypeOK, Fencing, NEW b \in rebuilds, ReleaseRebuild(b)
  PROVE  /\ Booked' = Booked \ {b.gen}
         /\ b.gen \in Booked
BY DEF Fencing, Booked, ReleaseRebuild

\* Every step keeps the fence.
LEMMA FencingStep ==
  ASSUME TypeOK, Fencing, [Next]_vars
  PROVE  Fencing'
<1>1. ASSUME NEW r \in Requests, NEW k \in Keys, Arrive(r, k)
      PROVE  Fencing'
  <2>1. \A q \in Requests : request'[q].at \in {"build", "joined", "built"} =>
           \/ request'[q].since = now
           \/ request'[q] = request[q]
    BY <1>1 DEF Arrive, Hit, StaleHit, LastHit, Miss, Goes, TypeOK
  <2> QED
    BY <1>1, <2>1, FencingKept DEF Arrive
<1>2. ASSUME NEW r \in Requests, RebuildBehind(r)
      PROVE  Fencing'
  <2> DEFINE k == request[r].key
  <2>1. \A q \in Requests : request'[q].at \in {"build", "joined", "built"} => request'[q] = request[q]
    BY <1>2 DEF RebuildBehind, Goes, Idle, TypeOK
  <2>2. CASE UNCHANGED <<book, rebuilds>>
    BY <1>2, <2>1, <2>2, FencingKept DEF RebuildBehind
  <2>3. CASE /\ Bookable(k) /\ BookRebuild(k)
             /\ \E at \in {"start", "done"} :
                  rebuilds' = rebuilds \cup
                    {[key |-> k, gen |-> gen + 1, until |-> now + RebuildBudget, at |-> at,
                      cooloff |-> FALSE]}
    <3>1. k \in Keys
      BY <1>2, RequestShape DEF RebuildBehind
    <3>2. /\ Booked' = Booked \cup {gen + 1} /\ gen + 1 \notin Booked
          /\ \A a, b \in rebuilds' : a.gen = b.gen => a = b
      <4>1. PICK new \in [key: {k}, gen: {gen + 1}, until: {now + RebuildBudget},
                          at: {"start", "done"}, cooloff: {FALSE}] :
              rebuilds' = rebuilds \cup {new}
        BY <2>3
      <4>2. new.gen = gen + 1
        BY <4>1
      <4>3. gen + 1 \notin Booked
        BY DEF TypeOK
      <4> QED
        BY <4>1, <4>2, <4>3 DEF Booked, Fencing
    <3>4. \A j \in Keys : (lease'[j] # None /\ lease'[j].outage) => lease'[j].gen \notin Booked'
      <4>1. ASSUME NEW j \in Keys, lease'[j] # None, lease'[j].outage
            PROVE  j # k /\ lease'[j] = lease[j]
        BY <2>3, <3>1, <4>1, SweptType DEF BookRebuild
      <4>2. \A j \in Keys : lease[j] # None => lease[j].gen # gen + 1
        BY DEF TypeOK
      <4> QED
        BY <3>2, <4>1, <4>2 DEF Fencing
    <3>5. IsFiniteSet(Booked')
      BY <3>2, FS_AddElement DEF Fencing
    <3>6. Cardinality(Booked') = Cardinality(Booked) + 1
      BY <3>2, FS_AddElement DEF Fencing
    <3>7. live' = Cardinality(Booked') /\ live' <= MaxConcurrentRebuilds
      BY <2>3, <3>6 DEF Fencing, SlotsAreRebuilds, BookRebuild, Bookable, TypeOK
    <3> QED
      BY <1>2, <2>1, <3>2, <3>4, <3>5, <3>7 DEF Fencing, SlotsAreRebuilds, RebuildBehind
  <2> QED
    BY <1>2, <2>2, <2>3 DEF RebuildBehind
<1>3. ASSUME NEW r \in Requests, LastResort(r)
      PROVE  Fencing'
  <2>1. \A q \in Requests : request'[q].at \in {"build", "joined", "built"} =>
           \/ request'[q].since = now
           \/ request'[q] = request[q]
    BY <1>3 DEF LastResort, Goes, Idle, TypeOK
  <2> QED
    BY <1>3, <2>1, FencingKept DEF LastResort
<1>4. ASSUME NEW r \in Requests, BuildInFront(r)
      PROVE  Fencing'
  <2>1. \A q \in Requests : request'[q].at \in {"build", "joined", "built"} =>
           /\ request[q].at \in {"build", "joined", "built"}
           /\ request'[q].since = request[q].since
    <3>1. request[r] \in [at: {"build", "joined"}, key: Keys, list: List \cup {None}, since: Nat]
      BY <1>4 DEF BuildInFront, TypeOK, Request
    <3>2. [request[r] EXCEPT !.at = "joined"].since = request[r].since
      BY <3>1
    <3> QED
      BY <1>4, <3>2 DEF BuildInFront, TypeOK
  <2> QED
    BY <1>4, <2>1, FencingKept DEF BuildInFront
<1>5. ASSUME NEW r \in Requests, ServeHeld(r)
      PROVE  Fencing'
  <2>1. request[r].key \in Keys
    BY <1>5, RequestShape DEF ServeHeld
  <2>2. Booked' = Booked /\ live' = live /\ rebuilds' = rebuilds
    BY <1>5 DEF ServeHeld, MarkOutage, Booked
  <2>3. \A j \in Keys : (lease'[j] # None /\ lease'[j].outage) => lease'[j].gen \notin Booked'
    <3>1. gen + 1 \notin Booked
      BY DEF TypeOK
    <3>2. \A j \in Keys : lease'[j] # None => lease'[j] = lease[j] \/ lease'[j].gen = gen + 1
      BY <1>5, <2>1, SweptType DEF ServeHeld, MarkOutage
    <3> QED
      BY <2>2, <3>1, <3>2 DEF Fencing
  <2>4. \A q \in Requests : request'[q].at \in {"build", "joined", "built"} => request'[q] = request[q]
    BY <1>5 DEF ServeHeld, Goes, Idle, TypeOK
  <2> QED
    BY <1>5, <2>2, <2>3, <2>4 DEF Fencing, SlotsAreRebuilds, ServeHeld
<1>6. ASSUME NEW r \in Requests, WriteBuilt(r)
      PROVE  Fencing'
  <2>1. \A q \in Requests : request'[q].at \in {"build", "joined", "built"} => request'[q] = request[q]
    BY <1>6 DEF WriteBuilt, Goes, Idle, TypeOK
  <2> QED
    BY <1>6, <2>1, FencingKept DEF WriteBuilt
<1>7. ASSUME NEW b \in rebuilds, StartRebuild(b)
      PROVE  Fencing'
  <2>1. [b EXCEPT !.at = "joined"].gen = b.gen
    BY DEF TypeOK, Rebuild
  <2>2. rebuilds' = (rebuilds \ {b}) \cup {[b EXCEPT !.at = "joined"]}
    BY <1>7 DEF StartRebuild
  <2>3. Booked' = Booked
    BY <2>1, <2>2 DEF Booked
  <2>4. \A x, y \in rebuilds' : x.gen = y.gen => x = y
    BY <2>1, <2>2 DEF Fencing
  <2> QED
    BY <1>7, <2>3, <2>4 DEF Fencing, SlotsAreRebuilds, StartRebuild, book
<1>8. ASSUME NEW b \in rebuilds, ReleaseRebuild(b)
      PROVE  Fencing'
  <2>1. Booked' = Booked \ {b.gen} /\ b.gen \in Booked
    BY <1>8, BookedAfterRelease
  <2>2. IsFiniteSet(Booked') /\ Cardinality(Booked') = Cardinality(Booked) - 1
    BY <2>1, FS_RemoveElement DEF Fencing
  <2>3. live' = Cardinality(Booked') /\ live' <= MaxConcurrentRebuilds
    <3>1. live > 0
      <4>1. Cardinality(Booked) # 0
        BY <2>1, FS_EmptySet DEF Fencing
      <4> QED
        BY <4>1 DEF Fencing, SlotsAreRebuilds, TypeOK
    <3> QED
      BY <1>8, <2>2, <3>1 DEF Fencing, SlotsAreRebuilds, ReleaseRebuild, Freed, TypeOK
  <2>4. \A j \in Keys : (lease'[j] # None /\ lease'[j].outage) => lease'[j] = lease[j]
    BY <1>8 DEF ReleaseRebuild, Released, TypeOK, Rebuild
  <2>5. \A x, y \in rebuilds' : x.gen = y.gen => x = y
    BY <1>8 DEF Fencing, ReleaseRebuild
  <2> QED
    BY <1>8, <2>1, <2>2, <2>3, <2>4, <2>5 DEF Fencing, SlotsAreRebuilds, ReleaseRebuild
<1>9. ASSUME NEW k \in Keys, NEW outcome \in Outcomes, NEW nonempty \in BOOLEAN,
             FinishBuild(k, outcome, nonempty)
      PROVE  Fencing'
  <2> DEFINE f(b) == IF RebuildJoined(b, k)
                     THEN [b EXCEPT !.at = "done", !.cooloff = Degraded(outcome)] ELSE b
  <2>1. \A b \in rebuilds : f(b).gen = b.gen
    BY DEF TypeOK, Rebuild
  <2>2. rebuilds' = {f(b) : b \in rebuilds}
    BY <1>9 DEF FinishBuild
  <2>3. Booked' = Booked /\ \A x, y \in rebuilds' : x.gen = y.gen => x = y
    <3> HIDE DEF f
    <3> QED
      BY <2>1, <2>2 DEF Booked, Fencing
  <2>4. \A q \in Requests : request'[q].at \in {"build", "joined", "built"} =>
           /\ request[q].at \in {"build", "joined", "built"}
           /\ request'[q].since = request[q].since
    BY <1>9 DEF FinishBuild, RequestJoined, Idle
  <2> QED
    BY <1>9, <2>3, <2>4 DEF Fencing, SlotsAreRebuilds, FinishBuild, book
<1>10. CASE Tick
  <2>1. \A q \in Requests : request[q].at \in {"build", "joined", "built"} => request[q].since \in Nat
    BY RequestShape
  <2> QED
    BY <1>10, <2>1 DEF Tick, Fencing, SlotsAreRebuilds, Booked, book, TypeOK
<1>11. ASSUME NEW k \in Keys, Evict(k)
       PROVE  Fencing'
  BY <1>11, FencingKept DEF Evict
<1>12. CASE UNCHANGED vars
  BY <1>12 DEF vars, Fencing, SlotsAreRebuilds, Booked, book
<1> QED
  BY <1>1, <1>2, <1>3, <1>4, <1>5, <1>6, <1>7, <1>8, <1>9, <1>10, <1>11, <1>12
     DEF Next, RequestStep, RebuildStep, BuildStep

\* The fence holds from the start on.
LEMMA FencingInvariant == Spec => [](TypeOK /\ Fencing)
<1>1. Init => TypeOK
  BY DEF Init, TypeOK, Idle, Request, Booked
<1>2. Init => Fencing
  <2> SUFFICES ASSUME Init PROVE Fencing
    OBVIOUS
  <2>1. Booked = {}
    BY DEF Init, Booked
  <2> QED
    BY <2>1, FS_EmptySet DEF Init, Fencing, SlotsAreRebuilds, Idle
<1>3. TypeOK /\ Fencing /\ [Next]_vars => (TypeOK /\ Fencing)'
  BY TypeStep, FencingStep
<1> QED
  BY <1>1, <1>2, <1>3, PTL DEF Spec

\* However rebuilds, sweeps and outages interleave, rebuildsLive is the number of
\* bookings still to be released, and never passes maxConcurrentRebuilds.
THEOREM SlotsHold == Spec => []SlotsAreRebuilds
<1>1. Fencing => SlotsAreRebuilds
  BY DEF Fencing
<1> QED
  BY <1>1, FencingInvariant, PTL

\* An outage's mark stands until it ends: a sweep drops only what has ended by a clock
\* not ahead of now, a booking is refused on a running lease, and a release has another
\* number.
LEMMA OutageStep ==
  ASSUME TypeOK, Fencing, [Next]_vars, NEW k \in Keys, InOutage(k)
  PROVE  lease'[k] # None /\ lease'[k].outage
<1> USE DEF InOutage, LeaseRuns
<1>1. lease[k] \in Lease
  BY DEF TypeOK
<1>2. \A at \in Nat : at <= now => Swept(at)[k] = lease[k]
  BY <1>1 DEF Swept, Lease, TypeOK
<1>3. ASSUME NEW r \in Requests, RebuildBehind(r)
      PROVE  lease'[k] = lease[k]
  <2>1. CASE UNCHANGED book
    BY <2>1 DEF book
  <2>2. CASE Bookable(request[r].key) /\ BookRebuild(request[r].key)
    <3>1. request[r].key # k
      BY <2>2 DEF Bookable
    <3>2. Swept(now)[k] = lease[k]
      BY <1>2 DEF TypeOK
    <3> QED
      BY <2>2, <3>1, <3>2 DEF BookRebuild, Swept
  <2> QED
    BY <1>3, <2>1, <2>2 DEF RebuildBehind
<1>4. ASSUME NEW r \in Requests, ServeHeld(r)
      PROVE  lease'[k] # None /\ lease'[k].outage
  <2>1. request[r].since \in Nat /\ request[r].since <= now
    BY <1>4, RequestShape DEF ServeHeld, Fencing
  <2> DEFINE mark == [until |-> request[r].since + RebuildCooloff, gen |-> gen + 1, outage |-> TRUE]
  <2>2. lease'[k] = lease[k] \/ lease'[k] = mark
    BY <1>2, <1>4, <2>1 DEF ServeHeld, MarkOutage, Swept
  <2>3. mark \in Lease
    BY <2>1 DEF Lease, TypeOK
  <2> QED
    BY <2>2, <2>3
<1>5. ASSUME NEW b \in rebuilds, ReleaseRebuild(b)
      PROVE  lease'[k] = lease[k]
  <2>1. lease[k].gen # b.gen
    BY DEF Fencing, Booked
  <2> QED
    BY <1>5, <2>1 DEF ReleaseRebuild, Released, Superseded, TypeOK
<1>6. CASE UNCHANGED lease
  BY <1>6
<1>7. \/ UNCHANGED lease
      \/ \E r \in Requests : RebuildBehind(r) \/ ServeHeld(r)
      \/ \E b \in rebuilds : ReleaseRebuild(b)
  BY DEF Next, RequestStep, RebuildStep, BuildStep, vars, book, Arrive, LastResort, BuildInFront,
         WriteBuilt, StartRebuild, FinishBuild, Tick, Evict
<1> QED
  BY <1>3, <1>4, <1>5, <1>6, <1>7

\* No booking, sweep or late release takes an outage's mark off a key before it ends;
\* only a newer outage replaces it.
THEOREM OutageHolds == Spec => OutageStands
<1>1. TypeOK /\ Fencing /\ [Next]_vars =>
        [\A k \in Keys : InOutage(k) => lease'[k] # None /\ lease'[k].outage]_vars
  BY OutageStep
<1> QED
  BY <1>1, FencingInvariant, PTL DEF Spec, OutageStands
-----------------------------------------------------------------------------
(* The tickets                                                             *)

\* What is known of a list wherever it is: in the cache it has not passed its end; a
\* request that will answer over a rebuild still may; one in the last resort holds an
\* empty list, or one it may no longer use; and a result is as old as the clock.
Reach ==
  /\ \A k \in Keys : list[k] # None => list[k].built <= now /\ now <= Gone(list[k])
  /\ \A r \in Requests :
       /\ request[r].at = "behind" => Behind(request[r].list)
       /\ request[r].at = "last" => (request[r].list.nonempty => ~Usable(request[r].list))
       /\ request[r].at \in {"build", "joined", "built"} =>
            (request[r].list # None => ~request[r].list.nonempty)
       /\ request[r].at = "built" => request[r].result.built = now
  /\ TicketsOutliveTheCopy

\* A list may be kept for as long as its tickets live when it is sent while fresh, or
\* for a minute when it is sent stale (listCache, partialListCache, staleListCache).
LEMMA SentInTime ==
  ASSUME TypeOK, NEW l \in List, NEW reach \in Nat, Sent(l, reach),
         l.nonempty => now + reach <= l.built + TicketTTL
  PROVE  TicketsOutliveTheCopy'
BY DEF Sent, TicketsOutliveTheCopy

\* A list just built, or hit while it is fresh.
LEMMA FreshInTime ==
  ASSUME TypeOK, NEW l \in List, l.built <= now, now <= Gone(l), Fresh(l)
  PROVE  now + CacheFor(l) <= l.built + TicketTTL
BY TicketAssumption
   DEF TypeOK, List, Gone, Fresh, FreshUntil, CacheFor, ListCache, PartialListCache,
       StaleIfErrorFor, ShortTTL, Larger, Smaller

\* A list answered with while a rebuild runs behind it.
LEMMA BehindInTime ==
  ASSUME TypeOK, NEW l \in List, Behind(l)
  PROVE  now + StaleListCache <= l.built + TicketTTL
BY TicketAssumption
   DEF TypeOK, List, Behind, Fresh, PastTheWindow, Usable, FreshUntil, StaleListCache,
       StaleWindowFor, OutageHoldFor, StaleIfErrorFor, ShortTTL, Larger, Smaller

\* A step that sends nothing out shows no lapsed ticket.
LEMMA SilentInTime ==
  ASSUME Silent
  PROVE  TicketsOutliveTheCopy'
BY DEF Silent, TicketsOutliveTheCopy

\* Every step keeps what is known of the lists.
LEMMA ReachStep ==
  ASSUME TypeOK, Reach, [Next]_vars
  PROVE  Reach'
<1> DEFINE Lists == \A k \in Keys : list[k] # None => list[k].built <= now /\ now <= Gone(list[k])
           Place(r) ==
             /\ request[r].at = "behind" => Behind(request[r].list)
             /\ request[r].at = "last" => (request[r].list.nonempty => ~Usable(request[r].list))
             /\ request[r].at \in {"build", "joined", "built"} =>
                  (request[r].list # None => ~request[r].list.nonempty)
             /\ request[r].at = "built" => request[r].result.built = now
<1>1. Lists /\ (\A r \in Requests : Place(r)) /\ TicketsOutliveTheCopy
  BY DEF Reach
<1>2. SUFFICES Lists' /\ (\A r \in Requests : Place(r)') /\ TicketsOutliveTheCopy'
  BY DEF Reach
<1> USE DEF Gone, FreshUntil
<1>3. ASSUME UNCHANGED <<list, now>> PROVE Lists'
  BY <1>1, <1>3
<1>4. ASSUME now' = now, NEW r \in Requests, request'[r] = request[r] PROVE Place(r)'
  BY <1>1, <1>4 DEF Behind, Fresh, PastTheWindow, Usable
<1>5. ASSUME now' = now, NEW r \in Requests, Goes(r, Idle), NEW q \in Requests PROVE Place(q)'
  BY <1>4, <1>5 DEF Goes, Idle, TypeOK
<1>6. ASSUME NEW r \in Requests, NEW k \in Keys, Arrive(r, k)
      PROVE  Lists' /\ (\A q \in Requests : Place(q)') /\ TicketsOutliveTheCopy'
  <2>1. Lists'
    BY <1>3, <1>6 DEF Arrive
  <2>2. \A q \in Requests : q # r => request'[q] = request[q]
    BY <1>6 DEF Arrive, Hit, StaleHit, LastHit, Miss, Goes, TypeOK
  <2>3. \A q \in Requests : q # r => Place(q)'
    BY <1>4, <1>6, <2>2 DEF Arrive
  <2>4. CASE Hit(r, k)
    <3>1. list[k] \in List /\ list[k].built <= now /\ now <= Gone(list[k]) /\ Fresh(list[k])
      BY <1>1, <2>4 DEF Hit, Held, TypeOK
    <3>2. now + CacheFor(list[k]) <= list[k].built + TicketTTL
      BY <3>1, FreshInTime
    <3>3. TicketsOutliveTheCopy'
      BY <2>4, <3>1, <3>2, SentInTime, CacheForType DEF Hit
    <3>4. Place(r)'
      BY <1>4, <1>6, <2>4 DEF Arrive, Hit
    <3> QED
      BY <2>1, <2>3, <3>3, <3>4
  <2>5. CASE StaleHit(r, k)
    <3>1. request'[r] = [at |-> "behind", key |-> k, list |-> list[k]] /\ Behind(list[k])
      BY <2>5 DEF StaleHit, Goes, TypeOK
    <3>2. Place(r)'
      BY <1>6, <3>1 DEF Arrive, Behind, Fresh, PastTheWindow, Usable
    <3> QED
      BY <2>1, <2>3, <2>5, <3>2, SilentInTime DEF StaleHit
  <2>6. CASE LastHit(r, k)
    <3>1. /\ request'[r] = [at |-> "last", key |-> k, list |-> list[k]]
          /\ list[k].nonempty => ~Usable(list[k])
      BY <2>6 DEF LastHit, Goes, Behind, TypeOK
    <3>2. Place(r)'
      BY <1>6, <3>1 DEF Arrive, Usable
    <3> QED
      BY <2>1, <2>3, <2>6, <3>2, SilentInTime DEF LastHit
  <2>7. CASE Miss(r, k)
    <3>1. request'[r] = [at |-> "build", key |-> k, list |-> None, since |-> now]
      BY <2>7 DEF Miss, Goes, TypeOK
    <3>2. Place(r)'
      BY <3>1
    <3> QED
      BY <2>1, <2>3, <2>7, <3>2, SilentInTime DEF Miss
  <2> QED
    BY <1>6, <2>4, <2>5, <2>6, <2>7 DEF Arrive
<1>7. ASSUME NEW r \in Requests, RebuildBehind(r)
      PROVE  Lists' /\ (\A q \in Requests : Place(q)') /\ TicketsOutliveTheCopy'
  <2>1. request[r].list \in List /\ Behind(request[r].list)
    BY <1>1, <1>7, RequestShape DEF RebuildBehind
  <2>2. TicketsOutliveTheCopy'
    BY <1>7, <2>1, BehindInTime, SentInTime, Durations DEF RebuildBehind
  <2> QED
    BY <1>3, <1>5, <1>7, <2>2 DEF RebuildBehind
<1>8. ASSUME NEW r \in Requests, LastResort(r)
      PROVE  Lists' /\ (\A q \in Requests : Place(q)') /\ TicketsOutliveTheCopy'
  <2> DEFINE l == request[r].list
  <2>1. l \in List /\ (l.nonempty => ~Usable(l))
    BY <1>1, <1>8, RequestShape DEF LastResort
  <2>2. CASE Usable(l) /\ Sent(l, StaleListCache) /\ Goes(r, Idle)
    <3>1. TicketsOutliveTheCopy'
      BY <2>1, <2>2, SentInTime, Durations
    <3> QED
      BY <1>3, <1>5, <1>8, <2>2, <3>1 DEF LastResort
  <2>3. CASE /\ Goes(r, [at |-> "build", key |-> request[r].key,
                         list |-> IF Usable(l) THEN l ELSE None, since |-> now])
             /\ Silent
    <3>1. request'[r] = [at |-> "build", key |-> request[r].key,
                         list |-> IF Usable(l) THEN l ELSE None, since |-> now]
      BY <2>3 DEF Goes, TypeOK
    <3>2. Place(r)'
      BY <2>1, <3>1
    <3>3. \A q \in Requests : q # r => Place(q)'
      BY <1>4, <1>8, <2>3 DEF LastResort, Goes, TypeOK
    <3> QED
      BY <1>3, <1>8, <2>3, <3>2, <3>3, SilentInTime DEF LastResort
  <2> QED
    BY <1>8, <2>2, <2>3 DEF LastResort
<1>9. ASSUME NEW r \in Requests, BuildInFront(r)
      PROVE  Lists' /\ (\A q \in Requests : Place(q)') /\ TicketsOutliveTheCopy'
  <2>1. request[r] \in [at: {"build", "joined"}, key: Keys, list: List \cup {None}, since: Nat]
    BY <1>9 DEF BuildInFront, TypeOK, Request
  <2>2. request'[r].at = "joined" /\ request'[r].list = request[r].list
    BY <1>9, <2>1 DEF BuildInFront, TypeOK
  <2>3. Place(r)'
    BY <1>1, <1>9, <2>2 DEF BuildInFront
  <2>4. \A q \in Requests : q # r => Place(q)'
    BY <1>4, <1>9 DEF BuildInFront, TypeOK
  <2> QED
    BY <1>3, <1>9, <2>3, <2>4, SilentInTime DEF BuildInFront
<1>10. ASSUME NEW r \in Requests, ServeHeld(r)
       PROVE  Lists' /\ (\A q \in Requests : Place(q)') /\ TicketsOutliveTheCopy'
  <2>1. request[r].list \in List /\ ~request[r].list.nonempty
    BY <1>1, <1>10, RequestShape DEF ServeHeld, FallsBack
  <2>2. TicketsOutliveTheCopy'
    BY <1>10, <2>1, SentInTime, Durations DEF ServeHeld
  <2> QED
    BY <1>3, <1>5, <1>10, <2>2 DEF ServeHeld
<1>11. ASSUME NEW r \in Requests, WriteBuilt(r)
       PROVE  Lists' /\ (\A q \in Requests : Place(q)') /\ TicketsOutliveTheCopy'
  <2> DEFINE l == request[r].result
  <2>1. l \in List /\ l.built = now
    BY <1>1, <1>11, RequestShape DEF WriteBuilt
  <2>2. now <= Gone(l) /\ Fresh(l)
    BY <2>1, Durations DEF TypeOK, List, Fresh, Larger
  <2>3. now + CacheFor(l) <= l.built + TicketTTL
    BY <2>1, <2>2, FreshInTime DEF TypeOK
  <2>4. now + 0 <= l.built + TicketTTL
    BY <2>1 DEF TypeOK
  <2>5. TicketsOutliveTheCopy'
    BY <1>11, <2>1, <2>3, <2>4, SentInTime, CacheForType DEF WriteBuilt
  <2> QED
    BY <1>3, <1>5, <1>11, <2>5 DEF WriteBuilt
<1>12. ASSUME NEW b \in rebuilds, StartRebuild(b) \/ ReleaseRebuild(b)
       PROVE  Lists' /\ (\A q \in Requests : Place(q)') /\ TicketsOutliveTheCopy'
  BY <1>3, <1>4, <1>12, SilentInTime DEF StartRebuild, ReleaseRebuild
<1>13. ASSUME NEW k \in Keys, NEW outcome \in Outcomes, NEW nonempty \in BOOLEAN,
              FinishBuild(k, outcome, nonempty)
       PROVE  Lists' /\ (\A q \in Requests : Place(q)') /\ TicketsOutliveTheCopy'
  <2> DEFINE l == Built(outcome, nonempty)
  <2>1. l \in List /\ l.built = now
    BY DEF Built, List, TypeOK
  <2>2. now <= Gone(l)
    BY <2>1, Durations DEF TypeOK, List, Larger
  <2>3. Lists'
    <3>1. \A j \in Keys : list'[j] = list[j] \/ list'[j] = l
      BY <1>13 DEF FinishBuild, TypeOK
    <3>2. now' = now
      BY <1>13 DEF FinishBuild
    <3> HIDE DEF l
    <3> QED
      BY <1>1, <2>1, <2>2, <3>1, <3>2 DEF TypeOK
  <2>4. ASSUME NEW q \in Requests PROVE Place(q)'
    <3>1. CASE ~RequestJoined(q, k)
      BY <1>4, <1>13, <3>1 DEF FinishBuild
    <3>2. CASE RequestJoined(q, k) /\ outcome = "panic"
      BY <1>13, <3>2 DEF FinishBuild, Idle
    <3>3. CASE RequestJoined(q, k) /\ outcome # "panic"
      <4>1. request'[q] = [at |-> "built", key |-> k, list |-> request[q].list,
                           since |-> request[q].since, outcome |-> outcome, result |-> l]
        BY <1>13, <3>3 DEF FinishBuild
      <4>2. now' = now
        BY <1>13 DEF FinishBuild
      <4> HIDE DEF l
      <4> QED
        BY <1>1, <2>1, <3>3, <4>1, <4>2 DEF RequestJoined
    <3> QED
      BY <3>1, <3>2, <3>3
  <2> QED
    BY <1>13, <2>3, <2>4, SilentInTime DEF FinishBuild
<1>14. CASE Tick
  <2>1. ASSUME NEW k \in Keys, list'[k] # None
        PROVE  list'[k].built <= now' /\ now' <= Gone(list'[k])
    <3>1. list'[k] = list[k] /\ ~(now + 1 > Gone(list[k]))
      BY <1>14, <2>1 DEF Tick
    <3>2. list[k] \in List /\ list[k].built <= now
      BY <1>1, <2>1, <3>1 DEF TypeOK
    <3>3. Gone(list[k]) \in Int
      BY <3>2, Durations DEF List, Larger
    <3> QED
      BY <1>14, <3>1, <3>2, <3>3 DEF Tick, TypeOK, List
  <2>2. \A q \in Requests : Place(q)'
    BY <1>1, <1>14 DEF Tick
  <2> QED
    BY <1>14, <2>1, <2>2, SilentInTime DEF Tick
<1>15. ASSUME NEW k \in Keys, Evict(k)
       PROVE  Lists' /\ (\A q \in Requests : Place(q)') /\ TicketsOutliveTheCopy'
  BY <1>1, <1>4, <1>15, SilentInTime DEF Evict, TypeOK
<1>16. CASE UNCHANGED vars
  BY <1>1, <1>3, <1>4, <1>16 DEF vars, TicketsOutliveTheCopy
<1> QED
  BY <1>6, <1>7, <1>8, <1>9, <1>10, <1>11, <1>12, <1>13, <1>14, <1>15, <1>16
     DEF Next, RequestStep, RebuildStep, BuildStep

\* What is known of the lists holds from the start on.
LEMMA ReachInvariant == Spec => []Reach
<1>1. Init => TypeOK /\ Reach
  BY DEF Init, TypeOK, Reach, Idle, Request, Booked, TicketsOutliveTheCopy
<1>2. TypeOK /\ Reach /\ [Next]_vars => (TypeOK /\ Reach)'
  BY TypeStep, ReachStep
<1> QED
  BY <1>1, <1>2, PTL DEF Spec

\* Whatever the configured times, as long as the tickets live for more than three list
\* TTLs, no device is told to keep a list past the life of the tickets in it.
THEOREM TicketsHold == Spec => []TicketsOutliveTheCopy
<1>1. Reach => TicketsOutliveTheCopy
  BY DEF Reach
<1> QED
  BY <1>1, ReachInvariant, PTL
-----------------------------------------------------------------------------
(* One rebuild at a time                                                   *)

\* The places of a request that has a build to wait for
Waiting == {"build", "joined", "built"}

\* Where the bookings of a step's end come from: each was there, or is the one that a
\* request answering from a stale list has just made.
LEMMA WhereBookingsComeFrom ==
  ASSUME TypeOK, [Next]_vars, NEW c \in rebuilds'
  PROVE  \/ \E b \in rebuilds : b.key = c.key /\ b.gen = c.gen /\ b.until = c.until
         \/ \E r \in Requests :
              /\ RebuildBehind(r) /\ c.key = request[r].key
              /\ c.gen = gen + 1 /\ c.until = now + RebuildBudget
              /\ Bookable(c.key) /\ BookRebuild(c.key)
              /\ \A d \in rebuilds' : d = c \/ d \in rebuilds
<1> DEFINE Old == \E b \in rebuilds : b.key = c.key /\ b.gen = c.gen /\ b.until = c.until
           New == \E r \in Requests :
                    /\ RebuildBehind(r) /\ c.key = request[r].key
                    /\ c.gen = gen + 1 /\ c.until = now + RebuildBudget
                    /\ Bookable(c.key) /\ BookRebuild(c.key)
                    /\ \A d \in rebuilds' : d = c \/ d \in rebuilds
<1>1. ASSUME rebuilds' \subseteq rebuilds PROVE Old
  BY <1>1
<1>2. ASSUME NEW r \in Requests, RebuildBehind(r) PROVE Old \/ New
  <2>1. CASE UNCHANGED rebuilds
    BY <1>1, <2>1
  <2>2. CASE /\ Bookable(request[r].key) /\ BookRebuild(request[r].key)
             /\ \E at \in {"start", "done"} :
                  rebuilds' = rebuilds \cup
                    {[key |-> request[r].key, gen |-> gen + 1, until |-> now + RebuildBudget,
                      at |-> at, cooloff |-> FALSE]}
    <3>1. PICK new \in [key: {request[r].key}, gen: {gen + 1}, until: {now + RebuildBudget},
                        at: {"start", "done"}, cooloff: {FALSE}] : rebuilds' = rebuilds \cup {new}
      BY <2>2
    <3>2. CASE c \in rebuilds
      BY <3>2
    <3>3. CASE c = new
      BY <1>2, <2>2, <3>1, <3>3
    <3> QED BY <3>1, <3>2, <3>3
  <2> QED BY <1>2, <2>1, <2>2 DEF RebuildBehind
<1>3. ASSUME NEW b \in rebuilds, StartRebuild(b) PROVE Old
  BY <1>3 DEF StartRebuild, TypeOK, Rebuild
<1>4. ASSUME NEW b \in rebuilds, ReleaseRebuild(b) PROVE Old
  BY <1>1, <1>4 DEF ReleaseRebuild
<1>5. ASSUME NEW k \in Keys, NEW outcome \in Outcomes, NEW nonempty \in BOOLEAN,
             FinishBuild(k, outcome, nonempty)
      PROVE  Old
  <2>1. PICK b \in rebuilds : \/ c = b
                              \/ c = [b EXCEPT !.at = "done", !.cooloff = Degraded(outcome)]
    BY <1>5 DEF FinishBuild
  <2>2. b \in Rebuild
    BY DEF TypeOK
  <2> QED BY <2>1, <2>2 DEF Rebuild
<1>6. \/ UNCHANGED rebuilds
      \/ \E r \in Requests : RebuildBehind(r)
      \/ \E b \in rebuilds : StartRebuild(b) \/ ReleaseRebuild(b)
      \/ \E k \in Keys, outcome \in Outcomes, nonempty \in BOOLEAN : FinishBuild(k, outcome, nonempty)
  BY DEF Next, RequestStep, RebuildStep, BuildStep, vars, Arrive, LastResort, BuildInFront,
         ServeHeld, WriteBuilt, Tick, Evict
<1> QED BY <1>1, <1>2, <1>3, <1>4, <1>5, <1>6

\* How a request comes to wait for a build: it did before, it starts to now with
\* nothing to fall back on, or it starts to with the list its last resort may still use.
LEMMA WhoWaits ==
  ASSUME TypeOK, [Next]_vars, NEW r \in Requests, request'[r].at \in Waiting
  PROVE  \/ /\ request[r].at \in Waiting
            /\ request'[r].key = request[r].key /\ request'[r].list = request[r].list
            /\ request'[r].since = request[r].since
         \/ /\ now' = now /\ request'[r].since = now /\ request'[r].list = None
         \/ /\ LastResort(r) /\ request[r].at = "last" /\ Usable(request[r].list)
            /\ request'[r].key = request[r].key /\ request'[r].list = request[r].list
            /\ request'[r].since = now
<1> DEFINE Still == /\ request[r].at \in Waiting
                    /\ request'[r].key = request[r].key /\ request'[r].list = request[r].list
                    /\ request'[r].since = request[r].since
           Bare == now' = now /\ request'[r].since = now /\ request'[r].list = None
           Falls == /\ LastResort(r) /\ request[r].at = "last" /\ Usable(request[r].list)
                    /\ request'[r].key = request[r].key /\ request'[r].list = request[r].list
                    /\ request'[r].since = now
<1> USE DEF Waiting
<1>1. CASE request'[r] = request[r]
  BY <1>1
<1>2. ASSUME NEW k \in Keys, Arrive(r, k) PROVE Still \/ Bare
  <2>1. CASE UNCHANGED request
    BY <2>1
  <2>2. CASE StaleHit(r, k) \/ LastHit(r, k)
    BY <2>2 DEF StaleHit, LastHit, Goes, TypeOK
  <2>3. CASE Miss(r, k)
    <3>1. request'[r] = [at |-> "build", key |-> k, list |-> None, since |-> now]
      BY <2>3 DEF Miss, Goes, TypeOK
    <3> QED BY <1>2, <3>1 DEF Arrive
  <2> QED BY <1>2, <2>1, <2>2, <2>3 DEF Arrive, Hit
<1>3. CASE request'[r] = Idle
  BY <1>3 DEF Idle
<1>4. CASE LastResort(r)
  <2>1. CASE Goes(r, Idle)
    BY <1>3, <2>1 DEF Goes, TypeOK
  <2>2. CASE Goes(r, [at |-> "build", key |-> request[r].key,
                      list |-> IF Usable(request[r].list) THEN request[r].list ELSE None,
                      since |-> now])
    <3>1. request'[r] = [at |-> "build", key |-> request[r].key,
                         list |-> IF Usable(request[r].list) THEN request[r].list ELSE None,
                         since |-> now]
      BY <2>2 DEF Goes, TypeOK
    <3>2. request[r].at = "last" /\ now' = now
      BY <1>4 DEF LastResort
    <3> QED BY <1>4, <3>1, <3>2
  <2> QED BY <1>4, <2>1, <2>2 DEF LastResort
<1>5. CASE BuildInFront(r)
  <2>1. request[r] \in [at: {"build", "joined"}, key: Keys, list: List \cup {None}, since: Nat]
    BY <1>5 DEF BuildInFront, TypeOK, Request
  <2>2. request'[r] = [request[r] EXCEPT !.at = "joined"] /\ request[r].at = "build"
    BY <1>5 DEF BuildInFront, TypeOK
  <2> QED BY <2>1, <2>2
<1>6. ASSUME NEW k \in Keys, NEW outcome \in Outcomes, NEW nonempty \in BOOLEAN,
             FinishBuild(k, outcome, nonempty)
      PROVE  Still
  BY <1>6, <1>1 DEF FinishBuild, RequestJoined, Idle
<1>7. \/ request'[r] = request[r] \/ request'[r] = Idle
      \/ \E k \in Keys : Arrive(r, k)
      \/ LastResort(r) \/ BuildInFront(r)
      \/ \E k \in Keys, outcome \in Outcomes, nonempty \in BOOLEAN : FinishBuild(k, outcome, nonempty)
  <2>1. ASSUME NEW q \in Requests, q # r, RequestStep(q) PROVE request'[r] = request[r]
    BY <2>1 DEF RequestStep, Arrive, Hit, StaleHit, LastHit, Miss, RebuildBehind, LastResort,
                BuildInFront, ServeHeld, WriteBuilt, Goes, TypeOK
  <2>2. ASSUME RebuildBehind(r) \/ ServeHeld(r) \/ WriteBuilt(r) PROVE request'[r] = Idle
    BY <2>2 DEF RebuildBehind, ServeHeld, WriteBuilt, Goes, TypeOK
  <2> QED
    BY <2>1, <2>2 DEF Next, RequestStep, RebuildStep, BuildStep, vars, StartRebuild, ReleaseRebuild,
                      Tick, Evict
<1> QED BY <1>1, <1>2, <1>3, <1>4, <1>5, <1>6, <1>7

\* A key's list after a step: as it was, gone, or built in this very step.
LEMMA ListAfter ==
  ASSUME TypeOK, [Next]_vars, NEW k \in Keys
  PROVE  list'[k] \in {None, list[k]} \/ (now' = now /\ list'[k] \in List /\ list'[k].built = now)
<1>1. ASSUME NEW j \in Keys, NEW outcome \in Outcomes, NEW nonempty \in BOOLEAN,
             FinishBuild(j, outcome, nonempty)
      PROVE  list'[k] = list[k] \/ (now' = now /\ list'[k] \in List /\ list'[k].built = now)
  <2>1. Built(outcome, nonempty) \in List /\ Built(outcome, nonempty).built = now
    BY DEF Built, List, TypeOK
  <2>2. list'[k] = list[k] \/ list'[k] = Built(outcome, nonempty)
    BY <1>1 DEF FinishBuild, TypeOK
  <2> QED BY <1>1, <2>1, <2>2 DEF FinishBuild
<1>2. CASE Tick
  BY <1>2 DEF Tick
<1>3. ASSUME NEW j \in Keys, Evict(j) PROVE list'[k] \in {None, list[k]}
  BY <1>3 DEF Evict, TypeOK
<1> QED
  BY <1>1, <1>2, <1>3 DEF Next, RequestStep, RebuildStep, BuildStep, vars, Arrive, RebuildBehind,
     LastResort, BuildInFront, ServeHeld, WriteBuilt, StartRebuild, ReleaseRebuild

\* The clock after a step: it moves in a tick, while nobody is on the way to a build.
LEMMA NowAfter ==
  ASSUME TypeOK, [Next]_vars
  PROVE  \/ now' = now
         \/ /\ now' = now + 1 /\ UNCHANGED <<book, rebuilds, request>>
            /\ \A r \in Requests : \/ request[r].at = "idle"
                                   \/ request[r].at = "joined" /\ now < request[r].since + RebuildBudget
BY DEF Next, RequestStep, RebuildStep, BuildStep, vars, Arrive, RebuildBehind, LastResort,
       BuildInFront, ServeHeld, WriteBuilt, StartRebuild, ReleaseRebuild, FinishBuild, Tick, Evict

\* No booking lasts longer than the time a rebuild is given, and nobody waits for a
\* build for longer than that.
Punctual ==
  /\ \A b \in rebuilds : b.until <= now + RebuildBudget
  /\ \A r \in Requests : request[r].at \in Waiting => now <= request[r].since + RebuildBudget

\* Every step keeps the bookings and the waits within a rebuild's time.
LEMMA PunctualStep ==
  ASSUME TypeOK, Fencing, Punctual, [Next]_vars
  PROVE  Punctual'
<1>1. now \in Nat
  BY DEF TypeOK
<1>2. ASSUME NEW c \in rebuilds' PROVE c.until <= now' + RebuildBudget
  <2>1. ASSUME NEW b \in rebuilds, b.until = c.until PROVE c.until <= now' + RebuildBudget
    <3>1. b.until <= now + RebuildBudget /\ b.until \in Nat
      BY DEF Punctual, TypeOK, Rebuild
    <3> QED BY <1>1, <2>1, <3>1, NowAfter
  <2>2. ASSUME NEW r \in Requests, RebuildBehind(r), c.until = now + RebuildBudget
        PROVE  c.until <= now' + RebuildBudget
    BY <1>1, <2>2 DEF RebuildBehind
  <2> QED BY <2>1, <2>2, WhereBookingsComeFrom
<1>3. ASSUME NEW r \in Requests, request'[r].at \in Waiting
      PROVE  now' <= request'[r].since + RebuildBudget
  <2>1. CASE /\ request[r].at \in Waiting /\ request'[r].since = request[r].since
    <3>1. request[r].since \in Nat /\ now <= request[r].since + RebuildBudget
      BY <2>1, RequestShape DEF Punctual, Waiting
    <3>2. CASE now' = now
      BY <2>1, <3>1, <3>2
    <3>3. CASE now' = now + 1 /\ now < request[r].since + RebuildBudget
      BY <1>1, <2>1, <3>1, <3>3
    <3> QED BY <2>1, <3>2, <3>3, NowAfter DEF Waiting
  <2>2. CASE now' = now /\ request'[r].since = now
    BY <1>1, <2>2
  <2>3. CASE LastResort(r) /\ request'[r].since = now
    BY <1>1, <2>3 DEF LastResort
  <2> QED BY <1>3, <2>1, <2>2, <2>3, WhoWaits
<1> QED BY <1>2, <1>3 DEF Punctual

\* A request in the last resort that holds a list it may fall back on
Holding(r) == request[r].at \in Waiting /\ request[r].list # None

PastAndEmpty(l) == PastTheWindow(l) /\ ~l.nonempty

\* While such a request waits, the key has no list an answer may stand on while it is
\* rebuilt: it is the one the request fell back on, or one built since.
Undisturbed(r) ==
  LET k == request[r].key
      s == request[r].since IN
  /\ list[k] # None => list[k].built >= s \/ PastAndEmpty(list[k])
  /\ \A q \in Requests : (request[q].at = "behind" /\ request[q].key = k) => s = now
  /\ \A b \in rebuilds : b.key = k => b.until <= s + RebuildBudget

Quiet ==
  /\ \A r \in Requests : Holding(r) => Undisturbed(r)
  /\ \A r \in Requests : request[r].at = "last" =>
       LET k == request[r].key IN
       /\ PastTheWindow(request[r].list)
       /\ list[k] # None => list[k].built >= now \/ list[k] = request[r].list

\* A list past its window stays past it (staleWindowFor).
LEMMA StaysPast ==
  ASSUME TypeOK, [Next]_vars, NEW l \in List, PastTheWindow(l)
  PROVE  PastTheWindow(l)'
<1>1. now \in Nat /\ now' \in Nat /\ now' >= now
  BY NowAfter DEF TypeOK
<1>2. FreshUntil(l)' = FreshUntil(l) /\ StaleWindowFor' = StaleWindowFor
  BY DEF FreshUntil, StaleWindowFor, Smaller
<1>3. FreshUntil(l) \in Nat /\ StaleWindowFor \in Nat
  BY Durations DEF FreshUntil, List
<1> QED BY <1>1, <1>2, <1>3 DEF PastTheWindow

\* No request answers over a rebuild from what the key holds while another waits in its
\* last resort, as long as a build is shorter than a list is fresh.
LEMMA NotBehind ==
  ASSUME TypeOK, Punctual, Quiet, RebuildBudget < ListTTL,
         NEW r \in Requests, Holding(r), list[request[r].key] # None
  PROVE  ~Behind(list[request[r].key])
<1> DEFINE l == list[request[r].key]
           s == request[r].since
<1>1. s \in Nat /\ request[r].key \in Keys /\ now <= s + RebuildBudget /\ now \in Nat
  BY RequestShape DEF Holding, Waiting, Punctual, TypeOK
<1>2. l \in List /\ (l.built >= s \/ PastAndEmpty(l))
  BY <1>1 DEF TypeOK, Quiet, Undisturbed
<1>3. CASE PastAndEmpty(l)
  BY <1>3 DEF PastAndEmpty, Behind
<1>4. CASE l.built >= s
  <2>1. now < FreshUntil(l)
    BY <1>1, <1>2, <1>4 DEF FreshUntil, List
  <2>2. FreshUntil(l) \in Nat /\ StaleWindowFor \in Nat
    BY <1>2, Durations DEF FreshUntil, List
  <2>3. Fresh(l) /\ ~PastTheWindow(l)
    BY <1>1, <2>1, <2>2 DEF Fresh, PastTheWindow
  <2> QED BY <2>3 DEF Behind
<1> QED BY <1>2, <1>3, <1>4

\* Who answers over a rebuild: he did before, or has just read a stale list.
LEMMA WhoIsBehind ==
  ASSUME TypeOK, [Next]_vars, NEW q \in Requests, request'[q].at = "behind"
  PROVE  \/ request'[q] = request[q]
         \/ \E k \in Keys : /\ request'[q].key = k /\ list[k] # None /\ Behind(list[k])
                            /\ UNCHANGED <<now, list, rebuilds>>
                            /\ \A r \in Requests : r # q => request'[r] = request[r]
<1>1. ASSUME NEW k \in Keys, Arrive(q, k), ~(request'[q] = request[q])
      PROVE  /\ request'[q].key = k /\ list[k] # None /\ Behind(list[k])
             /\ UNCHANGED <<now, list, rebuilds>>
             /\ \A r \in Requests : r # q => request'[r] = request[r]
  <2>1. StaleHit(q, k)
    BY <1>1 DEF Arrive, Hit, LastHit, Miss, Goes, TypeOK
  <2> QED BY <1>1, <2>1 DEF Arrive, StaleHit, Held, Goes, TypeOK
<1>2. ASSUME NEW r \in Requests, r # q, RequestStep(r) PROVE request'[q] = request[q]
  BY <1>2 DEF RequestStep, Arrive, Hit, StaleHit, LastHit, Miss, RebuildBehind, LastResort,
              BuildInFront, ServeHeld, WriteBuilt, Goes, TypeOK
<1>3. ~LastResort(q) /\ ~RebuildBehind(q) /\ ~ServeHeld(q) /\ ~WriteBuilt(q)
  BY DEF LastResort, RebuildBehind, ServeHeld, WriteBuilt, Goes, Idle, TypeOK
<1>4. ~BuildInFront(q)
  <2>1. ASSUME BuildInFront(q) PROVE FALSE
    <3>1. request[q] \in [at: {"build", "joined"}, key: Keys, list: List \cup {None}, since: Nat]
      BY <2>1 DEF BuildInFront, TypeOK, Request
    <3>2. request'[q] = [request[q] EXCEPT !.at = "joined"]
      BY <2>1 DEF BuildInFront, TypeOK
    <3> QED BY <3>1, <3>2
  <2> QED BY <2>1
<1>5. ASSUME NEW k \in Keys, NEW outcome \in Outcomes, NEW nonempty \in BOOLEAN,
             FinishBuild(k, outcome, nonempty)
      PROVE  request'[q] = request[q]
  BY <1>5 DEF FinishBuild, Idle
<1> QED
  BY <1>1, <1>2, <1>3, <1>4, <1>5
     DEF Next, RequestStep, RebuildStep, BuildStep, vars, StartRebuild, ReleaseRebuild, Tick, Evict

\* Who is in the last resort: he was, or has just read a list past its window.
LEMMA WhoIsLast ==
  ASSUME TypeOK, [Next]_vars, NEW r \in Requests, request'[r].at = "last"
  PROVE  \/ request'[r] = request[r]
         \/ \E k \in Keys : /\ list[k] # None /\ PastTheWindow(list[k])
                            /\ request'[r].key = k /\ request'[r].list = list[k]
                            /\ UNCHANGED <<now, list>>
<1>1. ASSUME NEW k \in Keys, Arrive(r, k), ~(request'[r] = request[r])
      PROVE  /\ list[k] # None /\ PastTheWindow(list[k])
             /\ request'[r].key = k /\ request'[r].list = list[k]
             /\ UNCHANGED <<now, list>>
  <2>1. LastHit(r, k)
    BY <1>1 DEF Arrive, Hit, StaleHit, Miss, Goes, TypeOK
  <2> QED BY <1>1, <2>1 DEF Arrive, LastHit, Held, Goes, TypeOK
<1>2. ASSUME NEW q \in Requests, r # q, RequestStep(q) PROVE request'[r] = request[r]
  BY <1>2 DEF RequestStep, Arrive, Hit, StaleHit, LastHit, Miss, RebuildBehind, LastResort,
              BuildInFront, ServeHeld, WriteBuilt, Goes, TypeOK
<1>3. ~LastResort(r) /\ ~RebuildBehind(r) /\ ~ServeHeld(r) /\ ~WriteBuilt(r)
  BY DEF LastResort, RebuildBehind, ServeHeld, WriteBuilt, Goes, Idle, TypeOK
<1>4. ~BuildInFront(r)
  <2>1. ASSUME BuildInFront(r) PROVE FALSE
    <3>1. request[r] \in [at: {"build", "joined"}, key: Keys, list: List \cup {None}, since: Nat]
      BY <2>1 DEF BuildInFront, TypeOK, Request
    <3>2. request'[r] = [request[r] EXCEPT !.at = "joined"]
      BY <2>1 DEF BuildInFront, TypeOK
    <3> QED BY <3>1, <3>2
  <2> QED BY <2>1
<1>5. ASSUME NEW k \in Keys, NEW outcome \in Outcomes, NEW nonempty \in BOOLEAN,
             FinishBuild(k, outcome, nonempty)
      PROVE  request'[r] = request[r]
  BY <1>5 DEF FinishBuild, Idle
<1> QED
  BY <1>1, <1>2, <1>3, <1>4, <1>5
     DEF Next, RequestStep, RebuildStep, BuildStep, vars, StartRebuild, ReleaseRebuild, Tick, Evict

\* Every step keeps the key of a waiting last resort quiet.
LEMMA QuietStep ==
  ASSUME TypeOK, Fencing, Reach, Punctual, Quiet, RebuildBudget < ListTTL, [Next]_vars
  PROVE  Quiet'
<1>0. now \in Nat
  BY DEF TypeOK
<1>1. ASSUME NEW r \in Requests, Holding(r), Holding(r)',
             request'[r].key = request[r].key, request'[r].since = request[r].since
      PROVE  Undisturbed(r)'
  <2>0. /\ request[r].key \in Keys /\ request[r].since \in Nat /\ request[r].since <= now
    BY <1>1, RequestShape DEF Holding, Waiting, Fencing
  <2>1. PICK k \in Keys, s \in Nat : k = request[r].key /\ s = request[r].since /\ s <= now
    BY <2>0
  <2>2. ASSUME list'[k] # None
        PROVE  list'[k].built >= s \/ PastAndEmpty(list[k])'
    <3>1. CASE list'[k] = list[k]
      <4>1. list[k] \in List /\ (list[k].built >= s \/ PastAndEmpty(list[k]))
        BY <1>1, <2>1, <2>2, <3>1 DEF Quiet, Undisturbed, TypeOK
      <4>2. ASSUME PastTheWindow(list[k]) PROVE PastTheWindow(list[k])'
        <5>1. PICK l \in List : l = list[k]
          BY <4>1
        <5>2. PastTheWindow(l)'
          BY <4>2, <5>1, StaysPast
        <5>3. l = list'[k]
          BY <3>1, <5>1
        <5> QED BY <5>2, <5>3 DEF PastTheWindow, FreshUntil, StaleWindowFor, Smaller
      <4> QED BY <3>1, <4>1, <4>2 DEF PastAndEmpty
    <3>2. CASE list'[k].built = now
      BY <1>0, <2>1, <3>2
    <3> QED BY <2>1, <2>2, <3>1, <3>2, ListAfter
  <2>3. ASSUME NEW q \in Requests, request'[q].at = "behind", request'[q].key = k
        PROVE  s = now'
    <3>1. CASE request'[q] = request[q]
      <4>1. s = now
        BY <1>1, <2>1, <2>3, <3>1 DEF Quiet, Undisturbed
      <4>2. now' = now
        BY <2>3, <3>1, NowAfter
      <4> QED BY <4>1, <4>2
    <3>2. ~(list[k] # None /\ Behind(list[k]))
      BY <1>1, <2>1, NotBehind
    <3> QED BY <2>3, <3>1, <3>2, WhoIsBehind
  <2>4. ASSUME NEW c \in rebuilds', c.key = k
        PROVE  c.until <= s + RebuildBudget
    <3>1. ASSUME NEW b \in rebuilds, b.key = c.key, b.until = c.until
          PROVE  c.until <= s + RebuildBudget
      BY <1>1, <2>1, <2>4, <3>1 DEF Quiet, Undisturbed
    <3>2. ASSUME NEW q \in Requests, RebuildBehind(q), c.key = request[q].key,
                 c.until = now + RebuildBudget
          PROVE  c.until <= s + RebuildBudget
      <4>1. s = now
        BY <1>1, <2>1, <2>4, <3>2 DEF Quiet, Undisturbed, RebuildBehind
      <4> QED BY <1>0, <3>2, <4>1
    <3> QED BY <3>1, <3>2, WhereBookingsComeFrom
  <2>5. k = request'[r].key /\ s = request'[r].since
    BY <1>1, <2>1
  <2> QED BY <2>2, <2>3, <2>4, <2>5 DEF Undisturbed, PastAndEmpty, PastTheWindow, FreshUntil, StaleWindowFor, Smaller
<1>2. ASSUME NEW r \in Requests, LastResort(r), request[r].at = "last", Usable(request[r].list),
             request'[r].key = request[r].key, request'[r].since = now
      PROVE  Undisturbed(r)'
  <2>0. request[r].key \in Keys
    BY <1>2, RequestShape
  <2> PICK k \in Keys : k = request[r].key
    BY <2>0
  <2> DEFINE l == request[r].list
  <2>1. UNCHANGED <<now, list, rebuilds>>
    BY <1>2 DEF LastResort
  <2>2. PastTheWindow(l) /\ ~l.nonempty
    BY <1>2 DEF Quiet, Reach
  <2>3. list[k] # None => list[k].built >= now \/ list[k] = l
    BY <1>2 DEF Quiet
  <2>4. list'[k] # None => list'[k].built >= now \/ PastAndEmpty(list[k])'
    BY <2>1, <2>2, <2>3 DEF PastAndEmpty, PastTheWindow, FreshUntil, StaleWindowFor, Smaller
  <2>5. \A c \in rebuilds' : c.until <= now + RebuildBudget
    BY <2>1 DEF Punctual
  <2>6. k = request'[r].key /\ request'[r].since = now /\ now' = now
    BY <1>2, <2>1
  <2> HIDE DEF l
  <2> QED BY <2>4, <2>5, <2>6 DEF Undisturbed, PastAndEmpty, PastTheWindow, FreshUntil, StaleWindowFor, Smaller
<1>3. ASSUME NEW r \in Requests, Holding(r)' PROVE Undisturbed(r)'
  <2>1. request'[r].at \in Waiting /\ request'[r].list # None
    BY <1>3 DEF Holding
  <2>2. CASE /\ request[r].at \in Waiting
             /\ request'[r].key = request[r].key /\ request'[r].list = request[r].list
             /\ request'[r].since = request[r].since
    <3>1. Holding(r)
      BY <2>1, <2>2 DEF Holding
    <3> QED BY <1>1, <1>3, <2>2, <3>1
  <2> QED BY <1>2, <2>1, <2>2, WhoWaits
<1>4. ASSUME NEW r \in Requests, request'[r].at = "last"
      PROVE  /\ PastTheWindow(request[r].list)'
             /\ list'[request'[r].key] # None =>
                  list'[request'[r].key].built >= now' \/ list'[request'[r].key] = request'[r].list
  <2>1. CASE request'[r] = request[r]
    <3>1. request[r].key \in Keys /\ request[r].list \in List /\ request[r].at = "last"
      BY <1>4, <2>1, RequestShape
    <3>2. now' = now
      BY <3>1, NowAfter
    <3>3. PastTheWindow(request[r].list)
      BY <3>1 DEF Quiet
    <3>4. list[request[r].key] # None =>
            list[request[r].key].built >= now \/ list[request[r].key] = request[r].list
      BY <3>1 DEF Quiet
    <3>5. PastTheWindow(request[r].list)'
      BY <2>1, <3>2, <3>3 DEF PastTheWindow, FreshUntil, StaleWindowFor, Smaller
    <3> QED BY <1>0, <2>1, <3>1, <3>2, <3>4, <3>5, ListAfter
  <2>2. ASSUME NEW k \in Keys, PastTheWindow(list[k]), request'[r].key = k,
               request'[r].list = list[k], UNCHANGED <<now, list>>
        PROVE  /\ PastTheWindow(request[r].list)'
               /\ list'[request'[r].key] # None =>
                    list'[request'[r].key].built >= now' \/ list'[request'[r].key] = request'[r].list
    BY <2>2 DEF PastTheWindow, FreshUntil, StaleWindowFor, Smaller
  <2> QED BY <1>4, <2>1, <2>2, WhoIsLast
<1> QED BY <1>3, <1>4 DEF Quiet, PastTheWindow, FreshUntil, StaleWindowFor, Smaller

\* A booking that has its lease on the key, or the mark of an outage that stands for at
\* least as long.
Leased(b) ==
  /\ lease[b.key] # None
  /\ lease[b.key].until >= b.until
  /\ lease[b.key].outage \/ lease[b.key].gen = b.gen

\* A booking whose key nobody can book while it has its time, whatever became of the mark
\* that took its lease: the key has no list that goes stale before then, and who has read
\* a stale one finds a mark that runs.
Barred(b) ==
  LET k == b.key IN
  /\ lease[k] # None => lease[k].outage
  /\ list[k] # None => FreshUntil(list[k]) >= b.until \/ PastAndEmpty(list[k])
  /\ \A q \in Requests : request[q].at = "behind" /\ request[q].key = k => LeaseRuns(k)

Covered ==
  \A b \in rebuilds : now < b.until => Leased(b) \/ (RebuildBudget < ListTTL /\ Barred(b))

\* What the times must be for an outage's mark not to let a second rebuild in beside the
\* one it took the lease from: a rebuild is shorter than a list is fresh, or two of them
\* are no longer than the cool-off.  Both hold of the defaults (28 s, 300 s, 60 s).
RebuildsFit == RebuildBudget < ListTTL \/ 2 * RebuildBudget <= RebuildCooloff

\* No lease may be booked over a booking that still has its time (bookRebuild).
LEMMA BookedOut ==
  ASSUME TypeOK, Covered, NEW b \in rebuilds, NEW q \in Requests, RebuildBehind(q),
         request[q].key = b.key, Bookable(b.key)
  PROVE  now >= b.until
<1>1. b \in Rebuild /\ now \in Nat /\ lease[b.key] \in Lease \cup {None}
  BY DEF TypeOK, Rebuild
<1>2. ASSUME Leased(b) PROVE now >= b.until
  BY <1>1, <1>2 DEF Leased, Bookable, LeaseRuns, Rebuild, Lease
<1>3. ~Barred(b)
  BY DEF Barred, Bookable, RebuildBehind
<1> QED BY <1>1, <1>2, <1>3 DEF Covered, Rebuild

\* What a step that marks no outage leaves of a lease that runs.
LEMMA RunningKept ==
  ASSUME TypeOK, Fencing, [Next]_vars, NEW k \in Keys, LeaseRuns(k),
         \A r \in Requests : ServeHeld(r) => request[r].key # k,
         \A d \in rebuilds : ReleaseRebuild(d) => d.key # k \/ lease[k].gen # d.gen
  PROVE  lease'[k] = lease[k]
<1>1. now \in Nat /\ lease[k] \in Lease /\ now < lease[k].until
  BY DEF TypeOK, LeaseRuns
<1>2. \A at \in Nat : at <= now => Swept(at)[k] = lease[k]
  BY <1>1 DEF Swept, Lease
<1>3. ASSUME NEW q \in Requests, RebuildBehind(q) PROVE lease'[k] = lease[k]
  <2>1. CASE UNCHANGED book
    BY <2>1 DEF book
  <2>2. CASE Bookable(request[q].key) /\ BookRebuild(request[q].key)
    <3>1. request[q].key # k
      BY <2>2 DEF Bookable
    <3>2. lease'[k] = Swept(now)[k]
      BY <2>2, <3>1 DEF BookRebuild, Swept
    <3> QED BY <1>1, <1>2, <3>2
  <2> QED BY <1>3, <2>1, <2>2 DEF RebuildBehind
<1>4. ASSUME NEW r \in Requests, ServeHeld(r) PROVE lease'[k] = lease[k]
  <2>1. request[r].since \in Nat /\ request[r].since <= now /\ request[r].key # k
    BY <1>4, RequestShape DEF ServeHeld, Fencing
  <2>2. lease'[k] = Swept(request[r].since)[k]
    BY <1>4, <2>1 DEF ServeHeld, MarkOutage, Swept
  <2> QED BY <1>2, <2>1, <2>2
<1>5. ASSUME NEW d \in rebuilds, ReleaseRebuild(d) PROVE lease'[k] = lease[k]
  BY <1>5 DEF ReleaseRebuild, Released, Superseded, TypeOK
<1>6. \/ UNCHANGED lease
      \/ \E r \in Requests : RebuildBehind(r) \/ ServeHeld(r)
      \/ \E d \in rebuilds : ReleaseRebuild(d)
  BY DEF Next, RequestStep, RebuildStep, BuildStep, vars, book, Arrive, LastResort, BuildInFront,
         WriteBuilt, StartRebuild, FinishBuild, Tick, Evict
<1> QED BY <1>3, <1>4, <1>5, <1>6

\* The mark of an outage (markOutage), by the request that falls back on its list.
LEMMA TheMark ==
  ASSUME TypeOK, Fencing, NEW r \in Requests, ServeHeld(r)
  PROVE  LET k == request[r].key IN
         /\ Holding(r) /\ k \in Keys /\ request[r].since \in Nat /\ request[r].since <= now
         /\ lease'[k] # None /\ lease'[k].outage
         /\ lease'[k].until = request[r].since + RebuildCooloff
         /\ UNCHANGED <<now, list, rebuilds>>
<1> DEFINE mark == [until |-> request[r].since + RebuildCooloff, gen |-> gen + 1, outage |-> TRUE]
<1>1. /\ request[r].since \in Nat /\ request[r].since <= now /\ Holding(r)
      /\ request[r].key \in Keys
  BY RequestShape DEF ServeHeld, FallsBack, Holding, Waiting, Fencing
<1>2. lease'[request[r].key] = mark
  BY <1>1 DEF ServeHeld, MarkOutage, Swept
<1>3. mark \in Lease
  BY <1>1 DEF Lease, TypeOK
<1>4. mark # None /\ mark.outage /\ mark.until = request[r].since + RebuildCooloff
  BY <1>3
<1>5. UNCHANGED <<now, list, rebuilds>>
  BY DEF ServeHeld
<1> HIDE DEF mark
<1> QED BY <1>1, <1>2, <1>4, <1>5

\* A mark bars the bookings it finds on the key, when a build is shorter than a list is
\* fresh: the key has been quiet since its request began to wait.
LEMMA MarkBars ==
  ASSUME TypeOK, Fencing, Quiet, RebuildBudget < ListTTL,
         NEW r \in Requests, ServeHeld(r), NEW b \in rebuilds, b.key = request[r].key
  PROVE  Barred(b)'
<1> PICK k \in Keys, s \in Nat : k = request[r].key /\ s = request[r].since
  BY TheMark
<1>1. Undisturbed(r) /\ now \in Nat /\ b.until \in Nat /\ s <= now
  BY TheMark DEF Quiet, TypeOK, Rebuild
<1>2. lease'[k] # None /\ lease'[k].outage /\ lease'[k].until = s + RebuildCooloff
  BY TheMark
<1>3. UNCHANGED <<now, list>>
  BY TheMark
<1>4. ASSUME list[k] # None PROVE FreshUntil(list[k]) >= b.until \/ PastAndEmpty(list[k])
  <2>1. list[k] \in List /\ (list[k].built >= s \/ PastAndEmpty(list[k]))
    BY <1>1, <1>4 DEF Undisturbed, TypeOK
  <2>2. b.until <= s + RebuildBudget
    BY <1>1 DEF Undisturbed
  <2>3. CASE list[k].built >= s
    BY <1>1, <2>1, <2>2, <2>3 DEF FreshUntil, List
  <2> QED BY <2>1, <2>3
<1>5. ASSUME NEW q \in Requests, request'[q].at = "behind", request'[q].key = k
      PROVE  LeaseRuns(k)'
  <2>1. request'[q] = request[q]
    BY <1>5 DEF ServeHeld, Goes, Idle, TypeOK
  <2>2. s = now
    BY <1>1, <1>5, <2>1 DEF Undisturbed
  <2> QED BY <1>1, <1>2, <1>3, <2>2 DEF LeaseRuns
<1>6. list'[k] # None => FreshUntil(list[k])' >= b.until \/ PastAndEmpty(list[k])'
  BY <1>3, <1>4 DEF FreshUntil, PastAndEmpty, PastTheWindow, StaleWindowFor, Smaller
<1> QED BY <1>2, <1>5, <1>6 DEF Barred

\* What a step leaves of the lease of a booking that still has its time.
LEMMA LeasedStep ==
  ASSUME TypeOK, Fencing, Punctual, RebuildBudget < ListTTL => Quiet, Covered, RebuildsFit,
         [Next]_vars,
         NEW b \in rebuilds, now < b.until, Leased(b), \E c \in rebuilds' : c.gen = b.gen
  PROVE  Leased(b)' \/ (RebuildBudget < ListTTL /\ Barred(b)')
<1> DEFINE k == b.key
<1>1. k \in Keys /\ b.until \in Nat /\ now \in Nat /\ b.until <= now + RebuildBudget
  BY DEF TypeOK, Rebuild, Punctual
<1>2. /\ lease[k] \in Lease /\ lease[k].until >= b.until
      /\ lease[k].outage \/ lease[k].gen = b.gen
  BY <1>1 DEF Leased, TypeOK
<1>3. ASSUME NEW r \in Requests, ServeHeld(r), request[r].key = k
      PROVE  Leased(b)' \/ (RebuildBudget < ListTTL /\ Barred(b)')
  <2>1. CASE RebuildBudget < ListTTL
    BY <1>3, <2>1, MarkBars
  <2>2. CASE 2 * RebuildBudget <= RebuildCooloff
    <3>1. request[r].since \in Nat /\ now <= request[r].since + RebuildBudget
      BY <1>3, TheMark DEF Punctual, Holding
    <3>2. lease'[k] # None /\ lease'[k].outage /\ lease'[k].until = request[r].since + RebuildCooloff
      BY <1>3, TheMark
    <3>3. lease'[k].until >= b.until
      BY <1>1, <2>2, <3>1, <3>2
    <3> QED BY <3>2, <3>3 DEF Leased
  <2> QED BY <2>1, <2>2 DEF RebuildsFit
<1>4. CASE \A r \in Requests : ServeHeld(r) => request[r].key # k
  <2>1. ASSUME NEW d \in rebuilds, ReleaseRebuild(d) PROVE d.key # k \/ lease[k].gen # d.gen
    <3>1. b # d /\ b.gen # d.gen
      BY <2>1 DEF ReleaseRebuild, Fencing
    <3> QED BY <1>1, <1>2, <3>1 DEF Fencing, Booked
  <2>2. LeaseRuns(k)
    BY <1>1, <1>2 DEF LeaseRuns, Leased, Lease
  <2>3. lease'[k] = lease[k]
    BY <1>1, <1>4, <2>1, <2>2, RunningKept
  <2> QED BY <1>2, <2>3 DEF Leased
<1> QED BY <1>3, <1>4

\* Every step keeps a booking barred that still has its time.
LEMMA BarredStep ==
  ASSUME TypeOK, Fencing, Punctual, Quiet, RebuildBudget < ListTTL, [Next]_vars,
         NEW b \in rebuilds, now < b.until, Barred(b)
  PROVE  Barred(b)'
<1> PICK k \in Keys : k = b.key
  BY DEF TypeOK, Rebuild
<1>1. b.until \in Nat /\ now \in Nat /\ b.until <= now + RebuildBudget
  BY DEF TypeOK, Rebuild, Punctual
<1>2. CASE \E r \in Requests : ServeHeld(r) /\ request[r].key = k
  BY <1>2, MarkBars
<1>3. CASE \A r \in Requests : ServeHeld(r) => request[r].key # k
  <2>1. ASSUME NEW q \in Requests, RebuildBehind(q), request[q].key = k PROVE ~Bookable(k)
    BY <2>1 DEF Barred, RebuildBehind, Bookable
  <2>2. ASSUME NEW d \in rebuilds, lease[k] # None PROVE lease[k].gen # d.gen
    BY <2>2 DEF Barred, Fencing, Booked
  <2>3. lease'[k] # None => lease'[k].outage
    <3>1. \A at : Swept(at)[k] \in {None, lease[k]}
      BY DEF Swept
    <3>2. ASSUME lease'[k] \in {None, lease[k]} PROVE lease'[k] # None => lease'[k].outage
      BY <3>2 DEF Barred
    <3>3. ASSUME NEW q \in Requests, RebuildBehind(q) PROVE lease'[k] \in {None, lease[k]}
      <4>1. CASE UNCHANGED book
        BY <4>1 DEF book
      <4>2. CASE Bookable(request[q].key) /\ BookRebuild(request[q].key)
        <5>1. request[q].key # k
          BY <2>1, <3>3, <4>2
        <5>2. lease'[k] = Swept(now)[k]
          BY <4>2, <5>1 DEF BookRebuild, Swept
        <5> QED BY <3>1, <5>2
      <4> QED BY <3>3, <4>1, <4>2 DEF RebuildBehind
    <3>4. ASSUME NEW r \in Requests, ServeHeld(r) PROVE lease'[k] \in {None, lease[k]}
      <4>1. lease'[k] = Swept(request[r].since)[k]
        BY <1>3, <3>4 DEF ServeHeld, MarkOutage, Swept
      <4> QED BY <3>1, <4>1
    <3>5. ASSUME NEW d \in rebuilds, ReleaseRebuild(d) PROVE lease'[k] \in {None, lease[k]}
      <4>1. d.key = k => Superseded(d)
        BY <2>2 DEF Superseded
      <4> QED BY <3>5, <4>1 DEF ReleaseRebuild, Released, TypeOK
    <3>6. \/ UNCHANGED lease
          \/ \E r \in Requests : RebuildBehind(r) \/ ServeHeld(r)
          \/ \E d \in rebuilds : ReleaseRebuild(d)
      BY DEF Next, RequestStep, RebuildStep, BuildStep, vars, book, Arrive, LastResort, BuildInFront,
             WriteBuilt, StartRebuild, FinishBuild, Tick, Evict
    <3> QED BY <3>2, <3>3, <3>4, <3>5, <3>6
  <2>4. ASSUME list'[k] # None PROVE FreshUntil(list[k])' >= b.until \/ PastAndEmpty(list[k])'
    <3>1. CASE list'[k] = list[k]
      <4>1. PICK l \in List : l = list[k]
        BY <2>4, <3>1 DEF TypeOK
      <4>2. FreshUntil(l) >= b.until \/ (PastTheWindow(l) /\ ~l.nonempty)
        BY <2>4, <3>1, <4>1 DEF Barred, PastAndEmpty
      <4>3. PastTheWindow(l) => PastTheWindow(l)'
        BY <4>1, StaysPast
      <4>4. l = list'[k]
        BY <3>1, <4>1
      <4> QED BY <4>2, <4>3, <4>4 DEF PastAndEmpty, PastTheWindow, FreshUntil, StaleWindowFor, Smaller
    <3>2. CASE list'[k].built = now
      BY <1>1, <3>2 DEF FreshUntil
    <3> QED BY <2>4, <3>1, <3>2, ListAfter
  <2>5. ASSUME NEW q \in Requests, request'[q].at = "behind", request'[q].key = k
        PROVE  LeaseRuns(k)'
    <3>1. ASSUME list[k] # None PROVE ~Behind(list[k])
      <4>1. list[k] \in List
        BY <3>1 DEF TypeOK
      <4>2. CASE PastAndEmpty(list[k])
        BY <4>2 DEF PastAndEmpty, Behind
      <4>3. CASE FreshUntil(list[k]) >= b.until
        <5>1. FreshUntil(list[k]) \in Nat /\ StaleWindowFor \in Nat
          BY <4>1, Durations DEF FreshUntil, List
        <5>2. now < FreshUntil(list[k])
          BY <1>1, <4>3, <5>1
        <5>3. Fresh(list[k]) /\ ~PastTheWindow(list[k])
          BY <1>1, <5>1, <5>2 DEF Fresh, PastTheWindow
        <5> QED BY <5>3 DEF Behind
      <4> QED BY <3>1, <4>2, <4>3 DEF Barred
    <3>2. request'[q] = request[q]
      BY <2>5, <3>1, WhoIsBehind
    <3>3. LeaseRuns(k) /\ now' = now
      BY <2>5, <3>2, NowAfter DEF Barred
    <3>4. lease'[k] = lease[k]
      BY <1>3, <2>2, <3>3, RunningKept DEF LeaseRuns
    <3> QED BY <3>3, <3>4 DEF LeaseRuns
  <2> QED BY <2>3, <2>4, <2>5 DEF Barred
<1> QED BY <1>2, <1>3

\* Every step keeps the bookings covered.
LEMMA CoveredStep ==
  ASSUME TypeOK, Fencing, Covered, Punctual, RebuildBudget < ListTTL => Quiet, RebuildsFit,
         [Next]_vars
  PROVE  Covered'
<1> DEFINE Safe(c) == Leased(c)' \/ (RebuildBudget < ListTTL /\ Barred(c)')
<1> SUFFICES ASSUME NEW c \in rebuilds', now' < c.until PROVE Safe(c)
  BY DEF Covered
<1>1. now \in Nat
  BY DEF TypeOK
<1>2. ASSUME NEW b \in rebuilds, b.key = c.key, b.gen = c.gen, b.until = c.until
      PROVE  Safe(c)
  <2>1. now < b.until
    <3>1. b.until \in Nat
      BY DEF TypeOK, Rebuild
    <3> QED BY <1>1, <1>2, <3>1, NowAfter
  <2>2. \E d \in rebuilds' : d.gen = b.gen
    BY <1>2
  <2>3. Leased(b) \/ (RebuildBudget < ListTTL /\ Barred(b))
    BY <2>1 DEF Covered
  <2>4. Leased(b)' \/ (RebuildBudget < ListTTL /\ Barred(b)')
    BY <2>1, <2>2, <2>3, LeasedStep, BarredStep
  <2> QED BY <1>2, <2>4 DEF Leased, Barred
<1>3. ASSUME NEW r \in Requests, RebuildBehind(r), c.key = request[r].key,
             c.gen = gen + 1, c.until = now + RebuildBudget, BookRebuild(c.key)
      PROVE  Leased(c)'
  <2> DEFINE new == [until |-> now + RebuildBudget, gen |-> gen + 1, outage |-> FALSE]
  <2>1. c.key \in Keys
    BY <1>3, RequestShape DEF RebuildBehind
  <2>2. lease'[c.key] = new
    BY <1>3, <2>1 DEF BookRebuild, Swept
  <2>3. new \in Lease
    BY DEF Lease, TypeOK
  <2>4. new # None /\ new.until = c.until /\ new.gen = c.gen
    BY <1>3, <2>3
  <2>5. c.until \in Nat
    BY <1>1, <1>3
  <2> QED BY <2>2, <2>4, <2>5 DEF Leased
<1> QED BY <1>2, <1>3, WhereBookingsComeFrom

\* Every step keeps the older of two rebuilds of a key past its time.
LEMMA OneInTimeStep ==
  ASSUME TypeOK, Covered, OneRebuildInTime, [Next]_vars
  PROVE  OneRebuildInTime'
<1> SUFFICES ASSUME NEW a \in rebuilds', NEW c \in rebuilds', a.key = c.key, a.gen < c.gen
             PROVE  now' >= a.until
  BY DEF OneRebuildInTime
<1> DEFINE Old(x) == \E b \in rebuilds : b.key = x.key /\ b.gen = x.gen /\ b.until = x.until
           New(x) == \E r \in Requests :
                       /\ RebuildBehind(r) /\ x.key = request[r].key /\ x.gen = gen + 1
                       /\ Bookable(x.key)
                       /\ \A d \in rebuilds' : d = x \/ d \in rebuilds
<1>1. now \in Nat /\ gen \in Nat /\ rebuilds \subseteq Rebuild /\ \A b \in rebuilds : b.gen <= gen
  BY DEF TypeOK, Booked
<1>2. (Old(a) \/ New(a)) /\ (Old(c) \/ New(c))
  BY WhereBookingsComeFrom
<1>3. ASSUME Old(a), Old(c) PROVE now' >= a.until
  <2>1. PICK a0 \in rebuilds : a0.key = a.key /\ a0.gen = a.gen /\ a0.until = a.until
    BY <1>3
  <2>2. PICK c0 \in rebuilds : c0.key = c.key /\ c0.gen = c.gen
    BY <1>3
  <2>3. now >= a.until /\ a.until \in Nat
    BY <1>1, <2>1, <2>2 DEF OneRebuildInTime, Rebuild
  <2> QED BY <1>1, <2>3, NowAfter
<1>4. ASSUME New(c) PROVE now' >= a.until
  <2>1. /\ a \in rebuilds /\ now' = now
        /\ \E r \in Requests : RebuildBehind(r) /\ request[r].key = a.key /\ Bookable(a.key)
    BY <1>1, <1>4 DEF RebuildBehind
  <2> QED BY <2>1, BookedOut
<1>5. ASSUME New(a), Old(c) PROVE FALSE
  <2>1. PICK c0 \in rebuilds : c0.gen = c.gen
    BY <1>5
  <2>2. a.gen = gen + 1 /\ c.gen <= gen /\ c.gen \in Nat
    BY <1>1, <1>5, <2>1 DEF Rebuild
  <2> QED BY <1>1, <2>2
<1> QED BY <1>2, <1>3, <1>4, <1>5

\* However requests, rebuilds and outages interleave, two rebuilds of one key run at
\* once only when the older one has outrun the time it booked (bookRebuild, markOutage,
\* releaseRebuild), provided a list is fresh for longer than a rebuild may take, or an
\* outage's mark is as long as two: with neither, the mark of a request that waited for
\* its build ends before the rebuild does whose lease it took.
THEOREM OneRebuildHolds ==
  ASSUME RebuildsFit
  PROVE  Spec => []OneRebuildInTime
<1> DEFINE Rest == Punctual /\ (RebuildBudget < ListTTL => Quiet) /\ Covered /\ OneRebuildInTime
<1>1. Init => Rest
  BY DEF Init, Idle, Punctual, Quiet, Holding, Waiting, Covered, OneRebuildInTime
<1>2. TypeOK /\ Fencing /\ Reach /\ Rest /\ [Next]_vars => Rest'
  BY PunctualStep, QuietStep, CoveredStep, OneInTimeStep
<1>3. Rest => OneRebuildInTime
  OBVIOUS
<1> HIDE DEF Rest
<1> QED BY <1>1, <1>2, <1>3, FencingInvariant, ReachInvariant, PTL DEF Spec
=============================================================================
