------------------------ MODULE UpstreamProofs ------------------------
(***************************************************************************)
(* Theorems about how scout deals with what it asks: the pauses after a    *)
(* refusal (UpstreamPause), the availability checks of TorBox              *)
(* (CheckBatcher) and the status of its downloads (TorBoxStatus), for any  *)
(* upstreams, accounts, releases and ids, and any bounds and lives.        *)
(*                                                                         *)
(* Pauses.  The map's size is a cardinality, so the induction carries that *)
(* the set of paused upstreams is finite; a refusal adds one upstream to   *)
(* what Room leaves, and Room leaves less than a full map.  The length of  *)
(* a pause is a bound on every paused upstream, kept because a refusal     *)
(* sets the end of one pause only, to a later moment no further off.       *)
(*                                                                         *)
(* Checks.  What a batcher has in its channel and has taken from it is in  *)
(* its hands: demands of its account, of flights that wait, each in one    *)
(* batcher's hands only, and the demand that started it among them.  So no *)
(* demand starts a batcher where one still runs, an answer ends no other   *)
(* batcher's flights, and a batcher in the map has yet to read its channel.*)
(*                                                                         *)
(* Status.  What a read brings is as recent as the read, so a "no" passes  *)
(* from the listing to its memo, to the flight, to the remembered miss and *)
(* the snapshot, each link a bound on how long it may have been wrong.     *)
(***************************************************************************)
EXTENDS UpstreamPause, CheckBatcher, TorBoxStatus, TLAPS, FiniteSetTheorems, SequenceTheorems

(* Pauses *)

Pause == [until: Nat, refusals: 1..(MaxDoublings + 1)]
LongestPause == More(MaxRetryAfter, MaxRefusalPause + MaxRefusalPause \div 4)

IInv ==
  /\ TypeOK
  /\ IsFiniteSet(Paused) /\ Cardinality(Paused) <= MaxPaused
  /\ \A u \in Paused : paused[u].until <= now + LongestPause

(* A power of two is a number of subsets. *)
LEMMA PowerOfTwo ==
  ASSUME NEW k \in Nat
  PROVE  2 ^ k \in Nat
PROOF
  <1>1. IsFiniteSet(1..k) /\ Cardinality(1..k) = k
    <2>1. 1 \in Int /\ k \in Int /\ (1 > k => k = 0)
      OBVIOUS
    <2> QED BY <2>1, FS_Interval
  <1>2. IsFiniteSet(SUBSET (1..k)) /\ Cardinality(SUBSET (1..k)) = 2 ^ Cardinality(1..k)
    BY <1>1, FS_SUBSET
  <1> QED BY <1>1, <1>2, FS_CardinalityType

(* None is not a pause. *)
LEMMA NoneIsNoPause == None \notin Pause
  BY PauseAssumption, NoneAssumption DEF Pause

(* However it is worked out, a pause is a length of time within the bound. *)
LEMMA PausesInBounds ==
  ASSUME NEW refusals \in 1..(MaxDoublings + 1), NEW asked \in 0..MaxRetryAfter,
         NEW named \in BOOLEAN, NEW pause \in Pauses(refusals, asked, named)
  PROVE  pause \in 0..LongestPause
PROOF
  <1> USE PauseAssumption
  <1>1. CASE named
    BY <1>1 DEF Pauses, LongestPause, More
  <1>2. CASE ~named
    <2> DEFINE power == 2 ^ (refusals - 1)
               doubled == RefusalPause * power
               p == Less(doubled, MaxRefusalPause)
    <2>1. power \in Nat
      <3>1. refusals - 1 \in Nat
        OBVIOUS
      <3> QED BY <3>1, PowerOfTwo
    <2> HIDE DEF power
    <2>2. doubled \in Nat
      BY <2>1
    <2> HIDE DEF doubled
    <2>3. p \in 0..MaxRefusalPause
      BY <2>2 DEF Less
    <2>4. pause \in p..(p + p \div 4)
      BY <1>2 DEF Pauses, p, doubled, power
    <2> HIDE DEF p
    <2>5. pause \in 0..(MaxRefusalPause + MaxRefusalPause \div 4)
      BY <2>3, <2>4
    <2> QED BY <2>5 DEF LongestPause, More
  <1> QED BY <1>1, <1>2

(* What a refusal counts and when its pause ends. *)
LEMMA CountedInBounds ==
  ASSUME TypeOK, NEW u \in Upstreams
  PROVE  Counted(u) \in 1..(MaxDoublings + 1)
PROOF
  <1> USE PauseAssumption, NoneIsNoPause DEF TypeOK, Pause
  <1>1. Refusals(u) \in 0..(MaxDoublings + 1)
    BY DEF Refusals
  <1> QED BY <1>1 DEF Counted, Less

LEMMA UntilInBounds ==
  ASSUME TypeOK, NEW u \in Upstreams, NEW pause \in Nat
  PROVE  /\ Until(u, pause) \in Nat /\ Until(u, pause) >= now + pause
         /\ paused[u] # None => Until(u, pause) >= paused[u].until
         /\ Until(u, pause) = now + pause \/ (paused[u] # None /\ Until(u, pause) = paused[u].until)
  BY BoundAssumption, NoneIsNoPause DEF TypeOK, Pause, Until, More

(* Room leaves the running pauses, or none, or everything, and never so    *)
(* much that a new upstream finds a full map.                              *)
LEMMA RoomKeeps ==
  ASSUME IInv, NEW u \in Upstreams
  PROVE  /\ \A v \in Upstreams : Room(u)[v] \in {paused[v], None}
         /\ DOMAIN Room(u) = Upstreams /\ Room(u) \in [Upstreams -> Pause \cup {None}]
         /\ \A v \in Running : Room(u)[v] = paused[v] \/ Cardinality(Running) >= MaxPaused
         /\ LET kept == {v \in Upstreams : Room(u)[v] # None}
            IN IsFiniteSet(kept \cup {u}) /\ Cardinality(kept \cup {u}) <= MaxPaused
PROOF
  <1> DEFINE kept == {v \in Upstreams : Room(u)[v] # None}
  <1>1. paused \in [Upstreams -> Pause \cup {None}]
    BY DEF IInv, TypeOK, Pause
  <1>2. IsFiniteSet(Paused) /\ Cardinality(Paused) \in Nat /\ Cardinality(Paused) <= MaxPaused
    BY FS_CardinalityType DEF IInv
  <1>3. /\ \A v \in Upstreams : Room(u)[v] \in {paused[v], None}
        /\ DOMAIN Room(u) = Upstreams /\ Room(u) \in [Upstreams -> Pause \cup {None}]
        /\ \A v \in Running : Room(u)[v] = paused[v] \/ Cardinality(Running) >= MaxPaused
    <2>1. Running \subseteq Upstreams
      BY DEF Running, Paused
    <2>2. Running \subseteq Paused /\ IsFiniteSet(Running) /\ Cardinality(Running) \in Nat
      BY <1>2, FS_Subset, FS_CardinalityType DEF Running
    <2> QED BY <1>1, <2>1, <2>2, PausedAssumption DEF Room, Pruned
  <1>4. IsFiniteSet(kept \cup {u}) /\ Cardinality(kept \cup {u}) <= MaxPaused
    <2>1. CASE u \in Paused
      <3>1. Room(u) = paused
        BY <2>1 DEF Room
      <3>2. kept \cup {u} = Paused
        BY <2>1, <3>1 DEF Paused
      <3> QED BY <1>2, <3>2
    <2>2. CASE u \notin Paused /\ Cardinality(Paused) < MaxPaused
      <3>1. ~(Cardinality(Paused) >= MaxPaused)
        BY <1>2, <2>2, PausedAssumption
      <3>2. kept = Paused
        BY <3>1 DEF Room, Paused
      <3>3. Cardinality(Paused \cup {u}) = Cardinality(Paused) + 1 /\ IsFiniteSet(Paused \cup {u})
        BY <1>2, <2>2, FS_AddElement
      <3> QED BY <1>2, <2>2, <3>2, <3>3, PausedAssumption
    <2>3. CASE u \notin Paused /\ Cardinality(Paused) >= MaxPaused
      <3>1. Room(u) = Pruned
        BY <2>3 DEF Room
      <3>2. Running \subseteq Paused /\ IsFiniteSet(Running) /\ Cardinality(Running) \in Nat
        BY <1>2, FS_Subset, FS_CardinalityType DEF Running
      <3>3. CASE Cardinality(Running) < MaxPaused
        <4>1. kept = Running
          BY <3>1, <3>3 DEF Pruned, Running, Paused
        <4>2. IsFiniteSet(Running \cup {u}) /\ Cardinality(Running \cup {u}) = Cardinality(Running) + 1
          BY <2>3, <3>2, FS_AddElement
        <4> QED BY <3>2, <3>3, <4>1, <4>2, PausedAssumption
      <3>4. CASE ~(Cardinality(Running) < MaxPaused)
        <4>1. kept = {}
          BY <3>1, <3>4 DEF Pruned
        <4>2. kept \cup {u} = {u}
          BY <4>1
        <4>3. IsFiniteSet({u}) /\ Cardinality({u}) = 1
          BY FS_Singleton
        <4> QED BY <4>2, <4>3, PausedAssumption
      <3> QED BY <3>3, <3>4
    <2> QED BY <1>2, <2>1, <2>2, <2>3, PausedAssumption
  <1> QED BY <1>3, <1>4

(* What one refusal makes of the map. *)
LEMMA RefusalEffect ==
  ASSUME IInv, NEW r \in Requests, NEW asked \in 0..MaxRetryAfter, NEW named \in BOOLEAN,
         Refused(r, asked, named)
  PROVE  \E u \in Upstreams, pause \in 0..LongestPause :
           /\ u = request[r]
           /\ paused' = [Room(u) EXCEPT ![u] = [until |-> Until(u, pause), refusals |-> Counted(u)]]
           /\ leave' = [leave EXCEPT ![u] = More(@, now + pause)]
           /\ request' = [request EXCEPT ![r] = None]
           /\ now' = now
PROOF
  <1> DEFINE u == request[r]
  <1>1. u \in Upstreams
    BY DEF IInv, TypeOK, Refused
  <1>2. Counted(u) \in 1..(MaxDoublings + 1)
    BY <1>1, CountedInBounds DEF IInv
  <1> HIDE DEF u
  <1>3. PICK pause \in Pauses(Counted(u), asked, named) :
          /\ paused' = [Room(u) EXCEPT ![u] = [until |-> Until(u, pause), refusals |-> Counted(u)]]
          /\ leave' = [leave EXCEPT ![u] = More(@, now + pause)]
    BY DEF Refused, u
  <1>4. pause \in 0..LongestPause
    BY <1>2, PausesInBounds
  <1>5. request' = [request EXCEPT ![r] = None] /\ now' = now
    BY DEF Refused
  <1> QED BY <1>1, <1>3, <1>4, <1>5 DEF u
-----------------------------------------------------------------------------
(* The start of the system satisfies the invariant. *)
LEMMA InitIInv == Init => IInv
PROOF
  <1> SUFFICES ASSUME Init PROVE IInv
    OBVIOUS
  <1>1. Paused = {}
    BY DEF Init, Paused
  <1>2. TypeOK
    BY <1>1, BoundAssumption DEF Init, TypeOK
  <1>3. IsFiniteSet(Paused) /\ Cardinality(Paused) <= MaxPaused
    BY <1>1, FS_EmptySet, PausedAssumption
  <1> QED BY <1>1, <1>2, <1>3 DEF IInv

(* A refusal preserves the invariant. *)
LEMMA RefusedIInv ==
  ASSUME IInv, NEW r \in Requests, NEW asked \in 0..MaxRetryAfter, NEW named \in BOOLEAN,
         Refused(r, asked, named)
  PROVE  IInv'
PROOF
  <1> USE PauseAssumption, BoundAssumption
  <1>1. PICK u \in Upstreams, pause \in 0..LongestPause :
          /\ u = request[r]
          /\ paused' = [Room(u) EXCEPT ![u] = [until |-> Until(u, pause), refusals |-> Counted(u)]]
          /\ leave' = [leave EXCEPT ![u] = More(@, now + pause)]
          /\ request' = [request EXCEPT ![r] = None]
          /\ now' = now
    BY RefusalEffect
  <1>2. LongestPause \in Nat /\ pause \in Nat /\ now \in Nat
    BY DEF LongestPause, More, IInv, TypeOK
  <1> DEFINE entry == [until |-> Until(u, pause), refusals |-> Counted(u)]
  <1>3. entry \in Pause /\ entry # None
    BY <1>2, CountedInBounds, UntilInBounds, NoneIsNoPause DEF IInv, Pause
  <1>4. /\ \A v \in Upstreams : Room(u)[v] \in {paused[v], None}
        /\ DOMAIN Room(u) = Upstreams /\ Room(u) \in [Upstreams -> Pause \cup {None}]
    BY RoomKeeps
  <1>5. paused'[u] = entry /\ \A v \in Upstreams \ {u} : paused'[v] = Room(u)[v]
    BY <1>1, <1>4
  <1>6. paused' \in [Upstreams -> Pause \cup {None}]
    BY <1>1, <1>3, <1>4
  <1>7. Paused' = {v \in Upstreams : Room(u)[v] # None} \cup {u}
    BY <1>3, <1>5 DEF Paused
  <1>8. IsFiniteSet(Paused') /\ Cardinality(Paused') <= MaxPaused
    BY <1>7, RoomKeeps
  <1>9. \A v \in Paused' : v # u => v \in Paused /\ paused'[v] = paused[v]
    BY <1>4, <1>5 DEF Paused
  <1>10. leave' \in [Upstreams -> Nat] /\ \A v \in Upstreams : leave'[v] >= leave[v]
    BY <1>1, <1>2 DEF IInv, TypeOK, More
  <1>11. entry.until <= leave'[u] /\ entry.until <= now + LongestPause
    <2>1. leave'[u] >= now + pause /\ leave'[u] >= leave[u]
      BY <1>1, <1>2 DEF IInv, TypeOK, More
    <2>2. CASE Until(u, pause) = now + pause
      BY <1>2, <2>1, <2>2
    <2>3. CASE paused[u] # None /\ Until(u, pause) = paused[u].until
      <3>1. u \in Paused
        BY <2>3 DEF Paused
      <3>2. paused[u].until <= leave[u] /\ paused[u].until <= now + LongestPause /\ leave[u] \in Nat
        BY <3>1 DEF IInv, TypeOK
      <3>3. paused[u] \in Pause
        BY <2>3 DEF IInv, TypeOK, Pause
      <3> QED BY <1>10, <2>1, <2>3, <3>2, <3>3 DEF Pause
    <2> QED BY <1>2, <2>2, <2>3, UntilInBounds DEF IInv
  <1>12. \A v \in Paused' : paused'[v].until <= leave'[v] /\ paused'[v].until <= now' + LongestPause
    <2> SUFFICES ASSUME NEW v \in Paused'
                 PROVE  paused'[v].until <= leave'[v] /\ paused'[v].until <= now' + LongestPause
      OBVIOUS
    <2>1. CASE v = u
      BY <1>1, <1>5, <1>11, <2>1
    <2>2. CASE v # u
      <3>1. v \in Paused /\ paused'[v] = paused[v] /\ v \in Upstreams
        BY <1>9, <2>2 DEF Paused
      <3>2. paused[v].until <= leave[v] /\ paused[v].until <= now + LongestPause
        BY <3>1 DEF IInv, TypeOK
      <3>3. paused[v] \in Pause
        BY <3>1 DEF IInv, TypeOK, Pause, Paused
      <3>4. leave[v] \in Nat /\ leave'[v] \in Nat /\ leave'[v] >= leave[v]
        BY <1>10, <3>1 DEF IInv, TypeOK
      <3> QED BY <1>1, <3>1, <3>2, <3>3, <3>4 DEF Pause
    <2> QED BY <2>1, <2>2
  <1>13. request' \in [Requests -> Upstreams \cup {None}] /\ now' \in 0..MaxTime
    BY <1>1 DEF IInv, TypeOK
  <1> QED BY <1>6, <1>8, <1>10, <1>12, <1>13 DEF IInv, TypeOK, Pause

(* Every step preserves the invariant. *)
LEMMA NextIInv == IInv /\ [Next]_vars => IInv'
PROOF
  <1> SUFFICES ASSUME IInv, [Next]_vars PROVE IInv'
    OBVIOUS
  <1> USE BoundAssumption
  <1>1. ASSUME NEW r \in Requests, NEW u \in Upstreams, Send(r, u) PROVE IInv'
    BY <1>1 DEF Send, IInv, TypeOK, Paused
  <1>2. ASSUME NEW r \in Requests, NEW asked \in 0..MaxRetryAfter, NEW named \in BOOLEAN,
               Refused(r, asked, named)
        PROVE  IInv'
    BY <1>2, RefusedIInv
  <1>3. ASSUME NEW r \in Requests, Answered(r) PROVE IInv'
    <2> DEFINE u == request[r]
    <2>1. u \in Upstreams /\ paused' = [paused EXCEPT ![u] = None]
      BY <1>3 DEF Answered, IInv, TypeOK
    <2>2. request' = [request EXCEPT ![r] = None] /\ UNCHANGED <<now, leave>>
      BY <1>3 DEF Answered
    <2> HIDE DEF u
    <2>3. Paused' = Paused \ {u} /\ \A v \in Paused' : paused'[v] = paused[v]
      BY <2>1 DEF IInv, TypeOK, Paused
    <2>4. IsFiniteSet(Paused') /\ Cardinality(Paused') <= MaxPaused
      <3>1. Paused' \subseteq Paused
        BY <2>3
      <3>2. Cardinality(Paused) \in Nat /\ Cardinality(Paused') \in Nat
            /\ Cardinality(Paused') <= Cardinality(Paused) /\ IsFiniteSet(Paused')
        BY <3>1, FS_Subset, FS_CardinalityType DEF IInv
      <3> QED BY <3>2, PausedAssumption DEF IInv
    <2>5. TypeOK'
      BY <2>1, <2>2, <2>3 DEF IInv, TypeOK
    <2> QED BY <2>2, <2>3, <2>4, <2>5 DEF IInv
  <1>4. ASSUME NEW r \in Requests, Failed(r) PROVE IInv'
    BY <1>4 DEF Failed, IInv, TypeOK, Paused
  <1>5. ASSUME Tick PROVE IInv'
    <2>1. TypeOK'
      BY <1>5 DEF Tick, IInv, TypeOK, Paused
    <2>2. Paused' = Paused /\ paused' = paused /\ now' = now + 1
      BY <1>5 DEF Tick, Paused
    <2>3. LongestPause \in Nat /\ now \in Nat
      BY PauseAssumption DEF LongestPause, More, IInv, TypeOK
    <2>4. \A u \in Paused : paused[u].until \in Nat
      BY NoneIsNoPause DEF IInv, TypeOK, Paused, Pause
    <2> QED BY <2>1, <2>2, <2>3, <2>4 DEF IInv
  <1>6. CASE UNCHANGED vars
    BY <1>6 DEF vars, IInv, TypeOK, Paused
  <1> QED BY <1>1, <1>2, <1>3, <1>4, <1>5, <1>6 DEF Next

(* Every behaviour of the transport keeps the shapes of its state, and no  *)
(* entry of the map outlasts what a refusal asked for (refused).           *)
THEOREM TypeCorrect == Spec => []TypeOK
PROOF
  <1>1. IInv => TypeOK
    BY DEF IInv
  <1> QED BY InitIInv, NextIInv, <1>1, PTL DEF Spec

(* However many upstreams there are and however they refuse, at most       *)
(* maxPausedUpstreams have an entry, and none is closed for longer than    *)
(* the longest pause with its jitter (refused, pruneLocked).               *)
THEOREM PausesAreBounded == Spec => []PausesBounded
PROOF
  <1>1. IInv => PausesBounded
    <2> SUFFICES ASSUME IInv PROVE PausesBounded
      OBVIOUS
    <2>1. LongestPause \in Nat /\ now \in Nat
      BY PauseAssumption, BoundAssumption DEF LongestPause, More, IInv, TypeOK
    <2>2. ASSUME NEW u \in Upstreams PROVE Left(u) <= LongestPause
      <3>1. CASE paused[u] = None
        BY <2>1, <3>1 DEF Left
      <3>2. CASE paused[u] # None
        <4>1. paused[u].until \in Nat /\ paused[u].until <= now + LongestPause
          BY <3>2, NoneIsNoPause DEF IInv, TypeOK, Paused, Pause
        <4> QED BY <2>1, <3>2, <4>1 DEF Left
      <3> QED BY <3>1, <3>2
    <2> QED BY <2>2 DEF PausesBounded, LongestPause, IInv
  <1> QED BY InitIInv, NextIInv, <1>1, PTL DEF Spec

(* A running pause is cut short by an answer of that upstream, or by       *)
(* starting the full map over, and by nothing else (refused, ok).          *)
THEOREM PausesStand == Spec => PauseStands
PROOF
  <1> DEFINE Stands(u) ==
        \/ paused'[u] # None /\ paused'[u].until >= paused[u].until
        \/ \E r \in Requests : request[r] = u /\ Answered(r)
        \/ Cardinality(Running) >= MaxPaused
  <1>1. ASSUME IInv, [Next]_vars PROVE [\A u \in Running : Stands(u)]_vars
    <2> SUFFICES ASSUME NEW u \in Running, Next PROVE Stands(u)
      BY <1>1
    <2>1. u \in Upstreams /\ paused[u] # None /\ paused[u].until \in Nat
      BY <1>1, NoneIsNoPause DEF IInv, TypeOK, Running, Paused, Pause
    <2>2. CASE paused' = paused
      BY <2>1, <2>2
    <2>3. ASSUME NEW r \in Requests, Answered(r) PROVE Stands(u)
      <3>1. CASE request[r] = u
        BY <2>3, <3>1
      <3>2. CASE request[r] # u
        BY <1>1, <2>1, <2>3, <3>2 DEF Answered, IInv, TypeOK
      <3> QED BY <3>1, <3>2
    <2>4. ASSUME NEW r \in Requests, NEW asked \in 0..MaxRetryAfter, NEW named \in BOOLEAN,
                 Refused(r, asked, named)
          PROVE  Stands(u)
      <3>1. PICK w \in Upstreams, pause \in 0..LongestPause :
              paused' = [Room(w) EXCEPT ![w] = [until |-> Until(w, pause), refusals |-> Counted(w)]]
        BY <1>1, <2>4, RefusalEffect
      <3>2. DOMAIN Room(w) = Upstreams /\ Counted(w) \in 1..(MaxDoublings + 1)
        BY <1>1, RoomKeeps, CountedInBounds DEF IInv
      <3>3. CASE w = u
        <4>1. pause \in Nat
          BY PauseAssumption DEF LongestPause, More
        <4>2. Until(u, pause) \in Nat /\ Until(u, pause) >= paused[u].until
          BY <1>1, <2>1, <4>1, UntilInBounds DEF IInv
        <4>3. paused'[u] = [until |-> Until(u, pause), refusals |-> Counted(u)]
          BY <2>1, <3>1, <3>2, <3>3
        <4>4. paused'[u] \in Pause
          BY <3>2, <3>3, <4>2, <4>3 DEF Pause
        <4> QED BY <4>2, <4>3, <4>4, NoneIsNoPause
      <3>4. CASE w # u
        <4>1. paused'[u] = Room(w)[u]
          BY <2>1, <3>1, <3>2, <3>4
        <4>2. Room(w)[u] = paused[u] \/ Cardinality(Running) >= MaxPaused
          BY <1>1, RoomKeeps
        <4> QED BY <2>1, <4>1, <4>2
      <3> QED BY <3>3, <3>4
    <2>5. CASE Tick
      BY <2>2, <2>5 DEF Tick
    <2>6. ASSUME NEW r \in Requests, (\E v \in Upstreams : Send(r, v)) \/ Failed(r)
          PROVE  Stands(u)
      BY <2>2, <2>6 DEF Send, Failed
    <2> QED BY <2>3, <2>4, <2>5, <2>6 DEF Next
  <1>2. IInv /\ [Next]_vars => [\A u \in Running : Stands(u)]_vars
    BY <1>1
  <1> QED BY InitIInv, NextIInv, <1>2, PTL DEF Spec, PauseStands
-----------------------------------------------------------------------------
(* Availability checks *)

(* What a batcher has in its channel and has taken from it. *)
Hands(b) == IF batcher[b] = Nil THEN {} ELSE Range(batcher[b].queue) \cup Range(batcher[b].demands)

CheckShape ==
  /\ positives \in [Accounts -> SUBSET Hashes]
  /\ caller \in [Callers -> Caller \cup {Nil}]
  /\ inFlight \in [Flights -> {"none", "demand", "waits", "alone"}]
  /\ batcher \in [Flights -> Batcher \cup {Nil}]
  /\ items \in [Accounts -> Flights \cup {Nil}]

(* The first of a batcher's demands is the one that started it. *)
FirstIs(b, d, q) == IF d = <<>> THEN q # <<>> /\ Head(q) = b ELSE Head(d) = b
HandsInBounds ==
  \A b \in Flights : batcher[b] # Nil =>
    /\ Len(batcher[b].queue) <= MaxDemands /\ Len(batcher[b].demands) <= MaxDemands
    /\ FirstIs(b, batcher[b].demands, batcher[b].queue)
    /\ batcher[b].at = "fetch" => batcher[b].queue = <<>>
    /\ \A f \in Hands(b) : f.acct = b.acct /\ inFlight[f] = "waits"
HandsApart == \A b \in Flights, d \in Flights : b # d => Hands(b) \cap Hands(d) = {}

OpenIsOut ==
  \A c \in Callers : caller[c] # Nil =>
    \A f \in caller[c].open : f.acct = caller[c].acct /\ inFlight[f] # "none"
PublishedReads ==
  /\ IsFiniteSet(Published) /\ Cardinality(Published) <= MaxBatchers
  /\ \A a \in Published :
       /\ items[a].acct = a
       /\ batcher[items[a]] # Nil /\ batcher[items[a]].at # "fetch"

CheckInv == CheckShape /\ HandsInBounds /\ HandsApart /\ OpenIsOut /\ PublishedReads

(* A demand a batcher has leaves its hands only as its flight ends, or in  *)
(* a drain that finds more than it may take.                               *)
KeepsDemands ==
  \A b \in Flights : \A f \in Hands(b) :
    \/ f \in Hands(b)'
    \/ batcher[b].at = "fetch" /\ inFlight'[f] = "none"
    \/ Drain(b) /\ Len(batcher[b].demands) + Len(batcher[b].queue) > MaxDemands
DemandsKept == [][KeepsDemands]_checkVars

(* The batches of a finite set of numbers are its parts, of one to         *)
(* CacheBatch releases each (CacheCheck).                                  *)
LEMMA QuotientAndRest ==
  ASSUME NEW x \in Nat, NEW y \in Nat, NEW n \in Nat \ {0}
  PROVE  /\ x % n \in 0..(n - 1)
         /\ x \div n = y \div n /\ x % n = y % n => x = y
PROOF
  <1>1. x = (x \div n) * n + (x % n) /\ x % n \in 0..(n - 1)
    OBVIOUS
  <1>2. y = (y \div n) * n + (y % n)
    OBVIOUS
  <1> QED BY <1>1, <1>2

(* Two releases of a sorted set have different places in it. *)
LEMMA PlacesApart ==
  ASSUME NEW S \in SUBSET Hashes, NEW g \in S, NEW h \in S, g < h
  PROVE  Place(g, S) \in Nat /\ Place(h, S) \in Nat /\ Place(g, S) < Place(h, S)
PROOF
  <1> DEFINE below(k) == {i \in S : i < k}
  <1>1. g \in Nat /\ h \in Nat /\ S \subseteq Nat /\ IsFiniteSet(S)
    BY HashAssumption, FS_Subset
  <1>2. IsFiniteSet(below(g)) /\ IsFiniteSet(below(h))
    BY <1>1, FS_Subset
  <1>3. Cardinality(below(g)) \in Nat /\ Cardinality(below(h)) \in Nat
    BY <1>2, FS_CardinalityType
  <1>4. below(g) \subseteq below(h) /\ g \in below(h) /\ g \notin below(g)
    <2>1. \A i \in S : i < g => i < h
      BY <1>1
    <2>2. ~(g < g)
      BY <1>1
    <2> QED BY <2>1, <2>2
  <1>5. Cardinality(below(g)) <= Cardinality(below(h)) /\ Cardinality(below(g)) # Cardinality(below(h))
    BY <1>2, <1>4, FS_Subset
  <1> QED BY <1>3, <1>5 DEF Place

(* A batch has at most CacheBatch releases: their places leave different   *)
(* remainders.                                                             *)
LEMMA BatchSize ==
  ASSUME NEW S \in SUBSET Hashes, NEW batch \in Batches(S)
  PROVE  batch \in SUBSET S /\ Cardinality(batch) \in 1..CacheBatch
PROOF
  <1>1. CacheBatch \in Nat \ {0} /\ S \subseteq Nat /\ IsFiniteSet(S)
    BY SizeAssumption, HashAssumption, FS_Subset
  <1>2. PICK h \in S : batch = {g \in S : Place(g, S) \div CacheBatch = Place(h, S) \div CacheBatch}
    BY DEF Batches
  <1>3. batch \in SUBSET S /\ h \in batch /\ IsFiniteSet(batch)
    BY <1>1, <1>2, FS_Subset
  <1>4. \A g \in S : Place(g, S) \in Nat
    <2> TAKE g \in S
    <2>1. IsFiniteSet({i \in S : i < g})
      BY <1>1, FS_Subset
    <2> QED BY <2>1, FS_CardinalityType DEF Place
  <1> DEFINE rest == [g \in batch |-> Place(g, S) % CacheBatch]
             T == 0..(CacheBatch - 1)
  <1>5. rest \in [batch -> T]
    BY <1>1, <1>3, <1>4, QuotientAndRest
  <1>6. ASSUME NEW g \in batch, NEW k \in batch, rest[g] = rest[k] PROVE g = k
    <2>1. Place(g, S) \div CacheBatch = Place(k, S) \div CacheBatch
      BY <1>2
    <2>2. Place(g, S) = Place(k, S)
      BY <1>1, <1>3, <1>4, <1>6, <2>1, QuotientAndRest
    <2>3. ~(g < k) /\ ~(k < g)
      BY <1>3, <1>4, <2>2, PlacesApart
    <2> QED BY <1>1, <1>3, <2>3
  <1>7. IsFiniteSet(T) /\ Cardinality(T) = CacheBatch
    <2>1. 0 \in Int /\ CacheBatch - 1 \in Int /\ ~(0 > CacheBatch - 1)
      BY <1>1
    <2>2. IsFiniteSet(T) /\ Cardinality(T) = (CacheBatch - 1) - 0 + 1
      BY <2>1, FS_Interval
    <2> QED BY <1>1, <2>2
  <1> HIDE DEF rest, T
  <1>8. rest \in Injection(batch, T)
    BY <1>5, <1>6 DEF Injection, IsInjective
  <1>9. Cardinality(batch) <= CacheBatch
    BY <1>7, <1>8, FS_Injection
  <1>10. Cardinality(batch) \in Nat /\ Cardinality(batch) # 0
    BY <1>3, FS_CardinalityType, FS_EmptySet
  <1> QED BY <1>1, <1>3, <1>9, <1>10

(* The releases TorBox has spoken of, when the requests in failed were not answered. *)
Heard(S, failed) == UNION (Batches(S) \ failed)

(* No release is in two batches: what one failed batch held, no other asked for. *)
LEMMA BatchesApart ==
  ASSUME NEW S, NEW failed \in SUBSET Batches(S)
  PROVE  Heard(S, failed) \subseteq S \ UNION failed
PROOF
  <1> DEFINE part(h) == {g \in S : Place(g, S) \div CacheBatch = Place(h, S) \div CacheBatch}
  <1> SUFFICES ASSUME NEW a \in Batches(S), a \notin failed, NEW x \in a,
                      NEW b \in failed, x \in b
               PROVE  FALSE
    <2>1. \A a \in Batches(S) : a \subseteq S
      BY DEF Batches
    <2> QED BY <2>1 DEF Heard
  <1>1. PICK h \in S : a = part(h)
    BY DEF Batches
  <1>2. PICK k \in S : b = part(k)
    BY DEF Batches
  <1>3. Place(x, S) \div CacheBatch = Place(h, S) \div CacheBatch
        /\ Place(x, S) \div CacheBatch = Place(k, S) \div CacheBatch
    BY <1>1, <1>2
  <1>4. a = b
    BY <1>1, <1>2, <1>3
  <1> QED BY <1>4

(* What taking, sending and draining do to the releases of a channel. *)
LEMMA SeqRange ==
  ASSUME NEW S, NEW s \in Seq(S)
  PROVE  /\ Range(s) \subseteq S
         /\ Len(s) \in Nat /\ DOMAIN s = 1..Len(s)
         /\ s # <<>> => Len(s) >= 1 /\ Head(s) = s[1] /\ Head(s) \in Range(s)
         /\ \A x : x \in Range(s) <=> \E i \in 1..Len(s) : x = s[i]
PROOF
  <1>1. Len(s) \in Nat /\ DOMAIN s = 1..Len(s)
    BY LenProperties
  <1>2. \A x : x \in Range(s) <=> \E i \in 1..Len(s) : x = s[i]
    BY <1>1 DEF Range
  <1>3. \A i \in 1..Len(s) : s[i] \in S
    BY ElementOfSeq
  <1>4. Range(s) \subseteq S
    BY <1>2, <1>3
  <1>5. s # <<>> => Len(s) >= 1 /\ Head(s) = s[1] /\ Head(s) \in Range(s)
    <2> SUFFICES ASSUME s # <<>> PROVE Len(s) >= 1 /\ Head(s) = s[1] /\ Head(s) \in Range(s)
      OBVIOUS
    <2>1. Len(s) >= 1 /\ 1 \in 1..Len(s)
      BY <1>1, EmptySeq
    <2>2. Head(s) = s[1]
      OBVIOUS
    <2> QED BY <1>2, <2>1, <2>2
  <1> QED BY <1>1, <1>2, <1>4, <1>5

(* Sending to a channel. *)
LEMMA AppendRange ==
  ASSUME NEW S, NEW s \in Seq(S), NEW e \in S
  PROVE  /\ Append(s, e) \in Seq(S) /\ Len(Append(s, e)) = Len(s) + 1 /\ Append(s, e) # <<>>
         /\ Range(Append(s, e)) = Range(s) \cup {e}
         /\ Head(Append(s, e)) = IF s = <<>> THEN e ELSE Head(s)
PROOF
  <1>1. /\ Append(s, e) \in Seq(S) /\ Len(Append(s, e)) = Len(s) + 1
        /\ \A i \in 1..Len(s) : Append(s, e)[i] = s[i]
        /\ Append(s, e)[Len(s) + 1] = e
    BY AppendProperties
  <1>2. Len(s) \in Nat
    BY SeqRange
  <1>3. Append(s, e) # <<>>
    BY <1>1, <1>2, EmptySeq
  <1>4. 1..(Len(s) + 1) = (1..Len(s)) \cup {Len(s) + 1}
    BY <1>2
  <1>5. /\ \A x : x \in Range(Append(s, e)) <=> \E i \in 1..(Len(s) + 1) : x = Append(s, e)[i]
        /\ \A x : x \in Range(s) <=> \E i \in 1..Len(s) : x = s[i]
    <2>1. (\A x : x \in Range(Append(s, e)) <=> \E i \in 1..Len(Append(s, e)) : x = Append(s, e)[i])
      BY <1>1, SeqRange
    <2>2. (\A x : x \in Range(s) <=> \E i \in 1..Len(s) : x = s[i])
      BY SeqRange
    <2> QED BY <1>1, <2>1, <2>2
  <1>6. Range(Append(s, e)) = Range(s) \cup {e}
    BY <1>1, <1>4, <1>5
  <1>7. Head(Append(s, e)) = Append(s, e)[1]
    BY <1>1, <1>3, SeqRange
  <1>8. CASE s = <<>>
    <2>1. Len(s) = 0
      BY <1>8, EmptySeq
    <2> QED BY <1>1, <1>3, <1>6, <1>7, <1>8, <2>1
  <1>9. CASE s # <<>>
    <2>1. 1 \in 1..Len(s) /\ Head(s) = s[1]
      BY <1>2, <1>9, SeqRange
    <2> QED BY <1>1, <1>3, <1>6, <1>7, <1>9, <2>1
  <1> QED BY <1>8, <1>9

(* Taking from a channel. *)
LEMMA TailRange ==
  ASSUME NEW S, NEW s \in Seq(S), s # <<>>
  PROVE  /\ Tail(s) \in Seq(S) /\ Head(s) \in S /\ Len(Tail(s)) = Len(s) - 1
         /\ Range(s) = {Head(s)} \cup Range(Tail(s))
PROOF
  <1>1. /\ Head(s) \in S /\ Tail(s) \in Seq(S) /\ Len(Tail(s)) = Len(s) - 1
        /\ \A i \in 1..Len(Tail(s)) : Tail(s)[i] = s[i + 1]
    BY HeadTailProperties
  <1>2. Len(s) \in Nat /\ Len(s) >= 1 /\ Head(s) = s[1]
    BY SeqRange
  <1>3. /\ \A x : x \in Range(s) <=> \E i \in 1..Len(s) : x = s[i]
        /\ \A x : x \in Range(Tail(s)) <=> \E i \in 1..Len(Tail(s)) : x = Tail(s)[i]
    <2>1. (\A x : x \in Range(s) <=> \E i \in 1..Len(s) : x = s[i])
      BY SeqRange
    <2>2. (\A x : x \in Range(Tail(s)) <=> \E i \in 1..Len(Tail(s)) : x = Tail(s)[i])
      BY <1>1, SeqRange
    <2> QED BY <2>1, <2>2
  <1>4. ASSUME NEW i \in 1..Len(s) PROVE i = 1 \/ (i - 1 \in 1..Len(Tail(s)) /\ s[i] = Tail(s)[i - 1])
    BY <1>1, <1>2
  <1>5. ASSUME NEW i \in 1..Len(Tail(s)) PROVE i + 1 \in 1..Len(s) /\ Tail(s)[i] = s[i + 1]
    BY <1>1, <1>2
  <1>6. 1 \in 1..Len(s)
    BY <1>2
  <1>7. Range(s) \subseteq {Head(s)} \cup Range(Tail(s))
    BY <1>2, <1>3, <1>4
  <1>8. {Head(s)} \cup Range(Tail(s)) \subseteq Range(s)
    BY <1>2, <1>3, <1>5, <1>6
  <1> QED BY <1>1, <1>7, <1>8

(* As many as fit, from the front. *)
LEMMA FrontIs ==
  ASSUME NEW S, NEW all \in Seq(S), NEW n \in Nat, n <= Len(all)
  PROVE  SubSeq(all, 1, n) \in Seq(S) /\ Len(SubSeq(all, 1, n)) = n
         /\ \A i \in 1..n : SubSeq(all, 1, n)[i] = all[i]
PROOF
  <1>1. Len(all) \in Nat /\ n \in Int /\ 1 \in Int
    BY SeqRange
  <1>2. \A i \in 1..n : all[i] \in S
    <2> TAKE i \in 1..n
    <2>1. i \in 1..Len(all)
      BY <1>1
    <2> QED BY <2>1, ElementOfSeq
  <1>3. /\ SubSeq(all, 1, n) \in Seq(S) /\ Len(SubSeq(all, 1, n)) = (IF 1 <= n THEN n - 1 + 1 ELSE 0)
        /\ \A i \in 1..(n - 1 + 1) : SubSeq(all, 1, n)[i] = all[1 + i - 1]
    BY <1>1, <1>2, SubSeqProperties
  <1> QED BY <1>3

(* A flight is a record of its account; what is sent to a batcher is one.  *)
LEMMA BatcherTyped ==
  ASSUME CheckShape, NEW b \in Flights, batcher[b] # Nil
  PROVE  /\ batcher[b] \in Batcher
         /\ batcher[b].queue \in Seq(Flights) /\ batcher[b].demands \in Seq(Flights)
         /\ batcher[b].at \in {"collect", "collected", "fetch"}
         /\ Hands(b) = Range(batcher[b].queue) \cup Range(batcher[b].demands)
         /\ Hands(b) \subseteq Flights
PROOF
  <1>1. batcher[b] \in Batcher
    BY DEF CheckShape
  <1>2. batcher[b].queue \in Seq(Flights) /\ batcher[b].demands \in Seq(Flights)
        /\ batcher[b].at \in {"collect", "collected", "fetch"}
    BY <1>1 DEF Batcher
  <1>3. Hands(b) = Range(batcher[b].queue) \cup Range(batcher[b].demands)
    BY DEF Hands
  <1>4. Range(batcher[b].queue) \subseteq Flights /\ Range(batcher[b].demands) \subseteq Flights
    BY <1>2, SeqRange
  <1> QED BY <1>1, <1>2, <1>3, <1>4

(* What a drain takes of the channel. *)
LEMMA DrainedIs ==
  ASSUME CheckShape, HandsInBounds, NEW b \in Flights, batcher[b] # Nil
  PROVE  /\ Drained(b) \in Seq(Flights) /\ Len(Drained(b)) <= MaxDemands
         /\ Range(Drained(b)) \subseteq Hands(b)
         /\ Len(batcher[b].demands) + Len(batcher[b].queue) <= MaxDemands =>
              Hands(b) \subseteq Range(Drained(b))
         /\ FirstIs(b, Drained(b), <<>>)
PROOF
  <1> DEFINE s == batcher[b].demands
             t == batcher[b].queue
             all == s \o t
             n == IF Len(all) < MaxDemands THEN Len(all) ELSE MaxDemands
  <1>1. s \in Seq(Flights) /\ t \in Seq(Flights) /\ Hands(b) = Range(t) \cup Range(s)
    BY BatcherTyped
  <1>2. FirstIs(b, s, t)
    BY DEF HandsInBounds
  <1>3. Drained(b) = SubSeq(all, 1, n)
    BY DEF Drained
  <1> HIDE DEF s, t
  <1>4. Len(s) \in Nat /\ Len(t) \in Nat /\ MaxDemands \in Nat \ {0}
    BY <1>1, SeqRange, SizeAssumption
  <1>5. all \in Seq(Flights) /\ Len(all) = Len(s) + Len(t)
    BY <1>1, ConcatProperties
  <1>6. n \in Nat /\ n <= Len(all) /\ n <= MaxDemands /\ n <= Len(s) + Len(t)
    BY <1>4, <1>5
  <1>7. Len(s) + Len(t) <= MaxDemands => n = Len(s) + Len(t)
    BY <1>4, <1>5
  <1>8. s # <<>> \/ t # <<>> => n > 0
    <2>1. s # <<>> => Len(s) >= 1
      BY <1>1, SeqRange
    <2>2. t # <<>> => Len(t) >= 1
      BY <1>1, SeqRange
    <2> QED BY <1>4, <1>5, <2>1, <2>2
  <1> HIDE DEF n
  <1> DEFINE d == Drained(b)
  <1>0. d = Drained(b)
    OBVIOUS
  <1>9. d \in Seq(Flights) /\ Len(d) = n /\ \A i \in 1..n : d[i] = all[i]
    BY <1>3, <1>5, <1>6, FrontIs
  <1>14. \A i \in 1..(Len(s) + Len(t)) : all[i] = IF i <= Len(s) THEN s[i] ELSE t[i - Len(s)]
    BY <1>1, ConcatProperties
  <1> HIDE DEF d, all
  <1>10. /\ Range(d) \subseteq Range(s) \cup Range(t)
         /\ n = Len(s) + Len(t) => Range(s) \cup Range(t) \subseteq Range(d)
         /\ n > 0 /\ s # <<>> => d # <<>> /\ Head(d) = Head(s)
         /\ n > 0 /\ s = <<>> /\ t # <<>> => d # <<>> /\ Head(d) = Head(t)
    <2>3. \A x : x \in Range(d) <=> \E i \in 1..n : x = d[i]
      BY <1>9, SeqRange
    <2>4. \A x : x \in Range(s) <=> \E i \in 1..Len(s) : x = s[i]
      BY <1>1, SeqRange
    <2>5. \A x : x \in Range(t) <=> \E i \in 1..Len(t) : x = t[i]
      BY <1>1, SeqRange
    <2>9. Range(d) \subseteq Range(s) \cup Range(t)
      <3> SUFFICES ASSUME NEW i \in 1..n PROVE d[i] \in Range(s) \cup Range(t)
        BY <2>3
      <3>1. i \in 1..(Len(s) + Len(t)) /\ d[i] = all[i] /\ i \in Nat /\ i >= 1 /\ i <= Len(s) + Len(t)
        BY <1>4, <1>6, <1>9
      <3>0. /\ i <= Len(s) => all[i] = s[i]
            /\ ~(i <= Len(s)) => all[i] = t[i - Len(s)]
        BY <1>14, <3>1
      <3>2. CASE i <= Len(s)
        <4>1. i \in 1..Len(s)
          BY <1>4, <3>1, <3>2
        <4>2. d[i] = s[i]
          BY <3>0, <3>1, <3>2
        <4> QED BY <2>4, <2>5, <4>1, <4>2
      <3>3. CASE ~(i <= Len(s))
        <4>1. i - Len(s) \in 1..Len(t)
          BY <1>4, <3>1, <3>3
        <4>2. d[i] = t[i - Len(s)]
          BY <3>0, <3>1, <3>3
        <4> QED BY <2>4, <2>5, <4>1, <4>2
      <3> QED BY <3>2, <3>3
    <2>10. ASSUME n = Len(s) + Len(t) PROVE Range(s) \cup Range(t) \subseteq Range(d)
      <3>2. ASSUME NEW i \in 1..Len(s) PROVE s[i] \in Range(d)
        <4>1. i \in 1..n /\ d[i] = s[i]
          BY <1>4, <1>14, <1>9, <2>10
        <4> QED BY <2>3, <4>1
      <3>3. ASSUME NEW i \in 1..Len(t) PROVE t[i] \in Range(d)
        <4>1. Len(s) + i \in 1..n /\ Len(s) + i \in 1..(Len(s) + Len(t))
              /\ ~(Len(s) + i <= Len(s)) /\ Len(s) + i - Len(s) = i
          BY <1>4, <2>10
        <4>2. all[Len(s) + i] = t[i] /\ d[Len(s) + i] = all[Len(s) + i]
          BY <1>9, <1>14, <4>1
        <4> QED BY <2>3, <4>1, <4>2
      <3>4. Range(s) \subseteq Range(d)
        BY <2>4, <3>2
      <3>5. Range(t) \subseteq Range(d)
        BY <2>5, <3>3
      <3> QED BY <3>4, <3>5
    <2>11. n > 0 => d # <<>> /\ Head(d) = all[1]
      <3> SUFFICES ASSUME n > 0 PROVE d # <<>> /\ Head(d) = all[1]
        OBVIOUS
      <3>1. d # <<>>
        BY <1>6, <1>9, EmptySeq
      <3>2. 1 \in 1..n
        BY <1>6
      <3>3. Head(d) = d[1]
        BY <1>9, <3>1, SeqRange
      <3> QED BY <1>9, <3>1, <3>2, <3>3
    <2>12. n > 0 /\ s # <<>> => d # <<>> /\ Head(d) = Head(s)
      <3> SUFFICES ASSUME n > 0, s # <<>> PROVE d # <<>> /\ Head(d) = Head(s)
        OBVIOUS
      <3>1. Len(s) >= 1 /\ Head(s) = s[1]
        BY <1>1, SeqRange
      <3>2. all[1] = s[1]
        BY <1>4, <1>14, <3>1
      <3> QED BY <2>11, <3>1, <3>2
    <2>13. n > 0 /\ s = <<>> /\ t # <<>> => d # <<>> /\ Head(d) = Head(t)
      <3> SUFFICES ASSUME n > 0, s = <<>>, t # <<>> PROVE d # <<>> /\ Head(d) = Head(t)
        OBVIOUS
      <3>1. Len(s) = 0
        BY <1>1, EmptySeq
      <3>2. Len(t) >= 1 /\ Head(t) = t[1]
        BY <1>1, SeqRange
      <3>3. all[1] = t[1]
        BY <1>4, <1>14, <3>1, <3>2
      <3> QED BY <2>11, <3>2, <3>3
    <2> QED BY <1>9, <2>9, <2>10, <2>12, <2>13
  <1>11. FirstIs(b, d, <<>>)
    BY <1>2, <1>8, <1>10 DEF FirstIs
  <1>12. Range(d) \subseteq Hands(b)
    BY <1>1, <1>10
  <1>13. Len(s) + Len(t) <= MaxDemands => Hands(b) \subseteq Range(d)
    BY <1>1, <1>7, <1>10
  <1> QED BY <1>0, <1>6, <1>9, <1>11, <1>12, <1>13 DEF s, t

(* The batcher that started a demand has it, so a demand that waits to be  *)
(* sent is of no batcher, and starts no second one.                        *)
LEMMA StarterInHand ==
  ASSUME CheckShape, HandsInBounds, NEW b \in Flights, batcher[b] # Nil
  PROVE  b \in Hands(b) /\ inFlight[b] = "waits"
PROOF
  <1>1. /\ batcher[b].queue \in Seq(Flights) /\ batcher[b].demands \in Seq(Flights)
        /\ Hands(b) = Range(batcher[b].queue) \cup Range(batcher[b].demands)
    BY BatcherTyped
  <1>2. FirstIs(b, batcher[b].demands, batcher[b].queue)
    BY DEF HandsInBounds
  <1>3. b \in Hands(b)
    BY <1>1, <1>2, SeqRange DEF FirstIs
  <1> QED BY <1>3 DEF HandsInBounds

(* The four parts of the invariant that speak of batchers, from what an    *)
(* action does to one batcher and to the flights in its hands.             *)
LEMMA OneBatcher ==
  ASSUME CheckShape, HandsInBounds, HandsApart, NEW b \in Flights,
         \A d \in Flights \ {b} : batcher'[d] = batcher[d],
         \A d \in Flights \ {b} : \A f \in Hands(d) : inFlight'[f] = inFlight[f],
         batcher'[b] # Nil =>
           /\ Len(batcher'[b].queue) <= MaxDemands /\ Len(batcher'[b].demands) <= MaxDemands
           /\ FirstIs(b, batcher'[b].demands, batcher'[b].queue)
           /\ batcher'[b].at = "fetch" => batcher'[b].queue = <<>>
           /\ \A f \in Hands(b)' : f.acct = b.acct /\ inFlight'[f] = "waits",
         \A d \in Flights \ {b} : Hands(b)' \cap Hands(d) = {}
  PROVE  HandsInBounds' /\ HandsApart'
PROOF
  <1>1. \A d \in Flights \ {b} : Hands(d)' = Hands(d)
    BY DEF Hands
  <1>2. HandsInBounds'
    <2> SUFFICES ASSUME NEW d \in Flights, batcher'[d] # Nil
                 PROVE  /\ Len(batcher'[d].queue) <= MaxDemands /\ Len(batcher'[d].demands) <= MaxDemands
                        /\ FirstIs(d, batcher'[d].demands, batcher'[d].queue)
                        /\ batcher'[d].at = "fetch" => batcher'[d].queue = <<>>
                        /\ \A f \in Hands(d)' : f.acct = d.acct /\ inFlight'[f] = "waits"
      BY DEF HandsInBounds
    <2>1. CASE d = b
      BY <2>1
    <2>2. CASE d # b
      <3>1. batcher'[d] = batcher[d] /\ Hands(d)' = Hands(d)
        BY <1>1, <2>2
      <3>2. /\ Len(batcher[d].queue) <= MaxDemands /\ Len(batcher[d].demands) <= MaxDemands
            /\ FirstIs(d, batcher[d].demands, batcher[d].queue)
            /\ batcher[d].at = "fetch" => batcher[d].queue = <<>>
            /\ \A f \in Hands(d) : f.acct = d.acct /\ inFlight[f] = "waits"
        BY <3>1 DEF HandsInBounds
      <3>3. \A f \in Hands(d) : inFlight'[f] = inFlight[f]
        BY <2>2
      <3> QED BY <3>1, <3>2, <3>3
    <2> QED BY <2>1, <2>2
  <1>3. HandsApart'
    <2> SUFFICES ASSUME NEW d \in Flights, NEW e \in Flights, d # e PROVE Hands(d)' \cap Hands(e)' = {}
      BY DEF HandsApart
    <2>1. CASE d # b /\ e # b
      BY <1>1, <2>1 DEF HandsApart
    <2>2. CASE d = b
      BY <1>1, <2>2
    <2>3. CASE e = b
      BY <1>1, <2>3
    <2> QED BY <2>1, <2>2, <2>3
  <1> QED BY <1>2, <1>3

(* What is out stays out as long as no flight ends. *)
LEMMA OpenKept ==
  ASSUME CheckShape, OpenIsOut, caller' = caller,
         \A f \in Flights : inFlight[f] # "none" => inFlight'[f] # "none"
  PROVE  OpenIsOut'
PROOF
  <1>1. ASSUME NEW c \in Callers, caller[c] # Nil PROVE caller[c].open \subseteq Flights
    <2>1. caller[c] \in Caller
      BY <1>1 DEF CheckShape
    <2> QED BY <2>1 DEF Caller
  <1> QED BY <1>1 DEF OpenIsOut

(* What is published reads on as long as only a batcher that reads on, or  *)
(* one that is not published, changes.                                     *)
LEMMA PublishedKept ==
  ASSUME PublishedReads, items' = items, NEW b \in Flights,
         \A d \in Flights \ {b} : batcher'[d] = batcher[d],
         \/ batcher'[b] # Nil /\ batcher'[b].at # "fetch"
         \/ \A a \in Published : items[a] # b,
         \A a \in Published : items[a] \in Flights
  PROVE  PublishedReads'
PROOF
  <1>1. Published' = Published
    BY DEF Published
  <1>2. \A a \in Published :
          items[a].acct = a /\ batcher[items[a]] # Nil /\ batcher[items[a]].at # "fetch"
    BY DEF PublishedReads
  <1>3. ASSUME NEW a \in Published
        PROVE  items'[a].acct = a /\ batcher'[items'[a]] # Nil /\ batcher'[items'[a]].at # "fetch"
    <2>1. CASE items[a] = b
      BY <1>2, <2>1
    <2>2. CASE items[a] # b
      <3>1. batcher'[items[a]] = batcher[items[a]]
        BY <2>2
      <3> QED BY <1>2, <3>1
    <2> QED BY <2>1, <2>2
  <1> QED BY <1>1, <1>3 DEF PublishedReads

LEMMA PublishedTyped ==
  ASSUME CheckShape, NEW a \in Published
  PROVE  a \in Accounts /\ items[a] \in Flights
  BY DEF CheckShape, Published

(* Collecting: the demands of a batcher change places, in its hands. *)
LEMMA StepTake ==
  ASSUME CheckInv, NEW b \in Flights, Take(b)
  PROVE  CheckInv' /\ Hands(b)' = Hands(b)
PROOF
  <1> USE DEF CheckInv
  <1> DEFINE q == batcher[b].queue
             s == batcher[b].demands
             new == [batcher[b] EXCEPT !.demands = Append(s, Head(q)), !.queue = Tail(q)]
  <1>1. /\ batcher[b] # Nil /\ batcher[b].at = "collect" /\ Len(s) < MaxDemands /\ q # <<>>
        /\ batcher' = [batcher EXCEPT ![b] = new]
        /\ UNCHANGED <<positives, caller, inFlight, items>>
    BY DEF Take
  <1>2. batcher[b] \in Batcher /\ q \in Seq(Flights) /\ s \in Seq(Flights)
        /\ Hands(b) = Range(q) \cup Range(s)
    BY <1>1, BatcherTyped
  <1>3. batcher'[b] = new /\ \A d \in Flights \ {b} : batcher'[d] = batcher[d]
    BY <1>1 DEF CheckShape
  <1>4. new.demands = Append(s, Head(q)) /\ new.queue = Tail(q) /\ new.at = "collect"
    BY <1>1, <1>2 DEF Batcher
  <1>5. /\ Tail(q) \in Seq(Flights) /\ Head(q) \in Flights /\ Len(Tail(q)) = Len(q) - 1
        /\ Range(q) = {Head(q)} \cup Range(Tail(q)) /\ Len(q) \in Nat
    <2>1. Len(q) \in Nat
      BY <1>2, SeqRange
    <2> QED BY <1>1, <1>2, <2>1, TailRange
  <1>6. /\ Append(s, Head(q)) \in Seq(Flights) /\ Len(Append(s, Head(q))) = Len(s) + 1
        /\ Append(s, Head(q)) # <<>> /\ Len(s) \in Nat
        /\ Range(Append(s, Head(q))) = Range(s) \cup {Head(q)}
        /\ Head(Append(s, Head(q))) = IF s = <<>> THEN Head(q) ELSE Head(s)
    <2>1. Len(s) \in Nat
      BY <1>2, SeqRange
    <2> QED BY <1>2, <1>5, <2>1, AppendRange
  <1>7. new \in Batcher
    BY <1>1, <1>2, <1>5, <1>6 DEF Batcher
  <1> HIDE DEF new, q, s
  <1>8. new # Nil
    BY <1>7, NilAssumption
  <1>9. Hands(b)' = Range(new.queue) \cup Range(new.demands)
    BY <1>3, <1>8 DEF Hands
  <1>10. Hands(b)' = Hands(b)
    BY <1>2, <1>4, <1>5, <1>6, <1>9
  <1>11. /\ Len(q) <= MaxDemands /\ Len(s) <= MaxDemands /\ FirstIs(b, s, q)
         /\ \A f \in Hands(b) : f.acct = b.acct /\ inFlight[f] = "waits"
    BY <1>1 DEF HandsInBounds, q, s
  <1>12. Len(Tail(q)) <= MaxDemands /\ Len(Append(s, Head(q))) <= MaxDemands
    BY <1>1, <1>5, <1>6, <1>11, SizeAssumption
  <1>13. FirstIs(b, Append(s, Head(q)), Tail(q))
    BY <1>6, <1>11 DEF FirstIs
  <1>14. CheckShape'
    <2>1. batcher' \in [Flights -> Batcher \cup {Nil}]
      BY <1>1, <1>7 DEF CheckShape
    <2> QED BY <1>1, <2>1 DEF CheckShape
  <1>15. HandsInBounds' /\ HandsApart'
    <2>1. \A d \in Flights \ {b} : \A f \in Hands(d) : inFlight'[f] = inFlight[f]
      BY <1>1
    <2>2. batcher'[b] # Nil =>
           /\ Len(batcher'[b].queue) <= MaxDemands /\ Len(batcher'[b].demands) <= MaxDemands
           /\ FirstIs(b, batcher'[b].demands, batcher'[b].queue)
           /\ batcher'[b].at = "fetch" => batcher'[b].queue = <<>>
           /\ \A f \in Hands(b)' : f.acct = b.acct /\ inFlight'[f] = "waits"
      BY <1>1, <1>3, <1>4, <1>10, <1>11, <1>12, <1>13
    <2>3. \A d \in Flights \ {b} : Hands(b)' \cap Hands(d) = {}
      BY <1>10 DEF HandsApart
    <2> QED BY <1>3, <2>1, <2>2, <2>3, OneBatcher
  <1>16. OpenIsOut'
    BY <1>1, OpenKept
  <1>17. PublishedReads'
    <2>1. batcher'[b] # Nil /\ batcher'[b].at # "fetch"
      BY <1>3, <1>4, <1>8
    <2>2. \A a \in Published : items[a] \in Flights
      BY PublishedTyped
    <2> QED BY <1>1, <1>3, <2>1, <2>2, PublishedKept
  <1> QED BY <1>10, <1>14, <1>15, <1>16, <1>17

(* The end of collecting changes nothing in the batcher's hands. *)
LEMMA StepCollected ==
  ASSUME CheckInv, NEW b \in Flights, Collected(b)
  PROVE  CheckInv' /\ Hands(b)' = Hands(b)
PROOF
  <1> USE DEF CheckInv
  <1> DEFINE new == [batcher[b] EXCEPT !.at = "collected"]
  <1>1. /\ batcher[b] # Nil
        /\ batcher' = [batcher EXCEPT ![b] = new]
        /\ UNCHANGED <<positives, caller, inFlight, items>>
    BY DEF Collected
  <1>2. batcher[b] \in Batcher /\ Hands(b) = Range(batcher[b].queue) \cup Range(batcher[b].demands)
    BY <1>1, BatcherTyped
  <1>3. batcher'[b] = new /\ \A d \in Flights \ {b} : batcher'[d] = batcher[d]
    BY <1>1 DEF CheckShape
  <1>4. /\ new \in Batcher /\ new.demands = batcher[b].demands /\ new.queue = batcher[b].queue
        /\ new.at = "collected"
    BY <1>2 DEF Batcher
  <1> HIDE DEF new
  <1>8. new # Nil
    BY <1>4, NilAssumption
  <1>9. Hands(b)' = Range(new.queue) \cup Range(new.demands)
    BY <1>3, <1>8 DEF Hands
  <1>10. Hands(b)' = Hands(b)
    BY <1>2, <1>4, <1>9
  <1>14. CheckShape'
    <2>1. batcher' \in [Flights -> Batcher \cup {Nil}]
      BY <1>1, <1>4 DEF CheckShape
    <2> QED BY <1>1, <2>1 DEF CheckShape
  <1>15. HandsInBounds' /\ HandsApart'
    <2>1. \A d \in Flights \ {b} : \A f \in Hands(d) : inFlight'[f] = inFlight[f]
      BY <1>1
    <2>2. batcher'[b] # Nil =>
           /\ Len(batcher'[b].queue) <= MaxDemands /\ Len(batcher'[b].demands) <= MaxDemands
           /\ FirstIs(b, batcher'[b].demands, batcher'[b].queue)
           /\ batcher'[b].at = "fetch" => batcher'[b].queue = <<>>
           /\ \A f \in Hands(b)' : f.acct = b.acct /\ inFlight'[f] = "waits"
      BY <1>1, <1>3, <1>4, <1>10 DEF HandsInBounds
    <2>3. \A d \in Flights \ {b} : Hands(b)' \cap Hands(d) = {}
      BY <1>10 DEF HandsApart
    <2> QED BY <1>3, <2>1, <2>2, <2>3, OneBatcher
  <1>16. OpenIsOut'
    BY <1>1, OpenKept
  <1>17. PublishedReads'
    <2>1. batcher'[b] # Nil /\ batcher'[b].at # "fetch"
      BY <1>3, <1>4, <1>8
    <2>2. \A a \in Published : items[a] \in Flights
      BY PublishedTyped
    <2> QED BY <1>1, <1>3, <2>1, <2>2, PublishedKept
  <1> QED BY <1>10, <1>14, <1>15, <1>16, <1>17

(* A demand that is still to be sent is in no hands, and has started no    *)
(* batcher.                                                                *)
LEMMA Unsent ==
  ASSUME CheckInv, NEW f \in Flights, inFlight[f] # "waits"
  PROVE  batcher[f] = Nil /\ \A d \in Flights : f \notin Hands(d)
PROOF
  <1> USE DEF CheckInv
  <1>1. \A d \in Flights : f \notin Hands(d)
    <2> SUFFICES ASSUME NEW d \in Flights, f \in Hands(d) PROVE FALSE
      OBVIOUS
    <2>1. batcher[d] # Nil
      BY DEF Hands
    <2> QED BY <2>1 DEF HandsInBounds
  <1>2. batcher[f] = Nil
    BY StarterInHand
  <1> QED BY <1>1, <1>2

(* A demand joins the batcher of its account that the map has. *)
LEMMA StepJoin ==
  ASSUME CheckInv, NEW f \in Flights, inFlight[f] = "demand", Join(f), UNCHANGED <<positives, caller>>
  PROVE  CheckInv' /\ \A d \in Flights : Hands(d) \subseteq Hands(d)'
PROOF
  <1> USE DEF CheckInv
  <1>0. f.acct \in Accounts
    BY DEF Flights
  <1>1. f.acct \in Published /\ items[f.acct] # Nil
    BY <1>0 DEF Join, BatcherFor, Published
  <1>2. PICK b \in Flights : b = items[f.acct]
    BY <1>1, PublishedTyped
  <1> DEFINE q == batcher[b].queue
             new == [batcher[b] EXCEPT !.queue = Append(q, f)]
  <1>3. /\ b.acct = f.acct /\ batcher[b] # Nil /\ batcher[b].at # "fetch"
        /\ Len(q) < MaxDemands
        /\ batcher' = [batcher EXCEPT ![b] = new]
        /\ inFlight' = [inFlight EXCEPT ![f] = "waits"]
        /\ items' = items
    BY <1>1, <1>2 DEF PublishedReads, Join, BatcherFor
  <1>4. batcher[b] \in Batcher /\ q \in Seq(Flights) /\ batcher[b].demands \in Seq(Flights)
        /\ Hands(b) = Range(q) \cup Range(batcher[b].demands)
    BY <1>3, BatcherTyped
  <1>5. batcher'[b] = new /\ \A d \in Flights \ {b} : batcher'[d] = batcher[d]
    BY <1>3 DEF CheckShape
  <1>6. new.demands = batcher[b].demands /\ new.queue = Append(q, f) /\ new.at = batcher[b].at
    BY <1>4 DEF Batcher
  <1>7. /\ Append(q, f) \in Seq(Flights) /\ Len(Append(q, f)) = Len(q) + 1
        /\ Append(q, f) # <<>> /\ Len(q) \in Nat
        /\ Range(Append(q, f)) = Range(q) \cup {f}
        /\ Head(Append(q, f)) = IF q = <<>> THEN f ELSE Head(q)
    <2>1. Len(q) \in Nat
      BY <1>4, SeqRange
    <2> QED BY <1>4, <2>1, AppendRange
  <1>8. new \in Batcher
    BY <1>4, <1>7 DEF Batcher
  <1> HIDE DEF new, q
  <1>9. new # Nil
    BY <1>8, NilAssumption
  <1>10. Hands(b)' = Range(new.queue) \cup Range(new.demands)
    BY <1>5, <1>9 DEF Hands
  <1>11. Hands(b)' = Hands(b) \cup {f}
    BY <1>4, <1>6, <1>7, <1>10
  <1>12. \A d \in Flights : f \notin Hands(d)
    BY Unsent
  <1>13. inFlight'[f] = "waits" /\ \A g \in Flights \ {f} : inFlight'[g] = inFlight[g]
    BY <1>3 DEF CheckShape
  <1>14. CheckShape'
    <2>1. batcher' \in [Flights -> Batcher \cup {Nil}]
      BY <1>3, <1>8 DEF CheckShape
    <2>2. inFlight' \in [Flights -> {"none", "demand", "waits", "alone"}]
      BY <1>3 DEF CheckShape
    <2> QED BY <1>3, <2>1, <2>2 DEF CheckShape
  <1>15. HandsInBounds' /\ HandsApart'
    <2>0. \A d \in Flights : Hands(d) \subseteq Flights
      <3> TAKE d \in Flights
      <3>1. CASE batcher[d] = Nil
        BY <3>1 DEF Hands
      <3>2. CASE batcher[d] # Nil
        BY <3>2, BatcherTyped
      <3> QED BY <3>1, <3>2
    <2>1. \A d \in Flights \ {b} : \A g \in Hands(d) : inFlight'[g] = inFlight[g]
      BY <1>12, <1>13, <2>0
    <2>2. /\ Len(q) <= MaxDemands /\ Len(batcher[b].demands) <= MaxDemands
          /\ FirstIs(b, batcher[b].demands, q)
          /\ \A g \in Hands(b) : g.acct = b.acct /\ inFlight[g] = "waits"
      BY <1>3 DEF HandsInBounds, q
    <2>3. Len(Append(q, f)) <= MaxDemands
      BY <1>3, <1>7, SizeAssumption
    <2>4. FirstIs(b, batcher[b].demands, Append(q, f))
      BY <1>7, <2>2 DEF FirstIs
    <2>5. \A g \in Hands(b) \cup {f} : g.acct = b.acct /\ inFlight'[g] = "waits"
      BY <1>3, <1>12, <1>13, <2>0, <2>2
    <2>6. batcher'[b] # Nil =>
           /\ Len(batcher'[b].queue) <= MaxDemands /\ Len(batcher'[b].demands) <= MaxDemands
           /\ FirstIs(b, batcher'[b].demands, batcher'[b].queue)
           /\ batcher'[b].at = "fetch" => batcher'[b].queue = <<>>
           /\ \A g \in Hands(b)' : g.acct = b.acct /\ inFlight'[g] = "waits"
      BY <1>3, <1>5, <1>6, <1>11, <2>2, <2>3, <2>4, <2>5
    <2>7. \A d \in Flights \ {b} : Hands(b)' \cap Hands(d) = {}
      BY <1>3, <1>11, <1>12 DEF HandsApart
    <2> QED BY <1>3, <1>5, <2>1, <2>6, <2>7, OneBatcher
  <1>16. OpenIsOut'
    <2>1. \A g \in Flights : inFlight[g] # "none" => inFlight'[g] # "none"
      BY <1>13
    <2> QED BY <2>1, OpenKept
  <1>17. PublishedReads'
    <2>1. batcher'[b] # Nil /\ batcher'[b].at # "fetch"
      BY <1>3, <1>5, <1>6, <1>9
    <2>2. \A a \in Published : items[a] \in Flights
      BY PublishedTyped
    <2> QED BY <1>3, <1>5, <2>1, <2>2, PublishedKept
  <1>18. \A d \in Flights : Hands(d) \subseteq Hands(d)'
    <2> TAKE d \in Flights
    <2>1. CASE d = b
      BY <1>11, <2>1
    <2>2. CASE d # b
      BY <1>5, <2>2 DEF Hands
    <2> QED BY <2>1, <2>2
  <1> QED BY <1>14, <1>15, <1>16, <1>17, <1>18

(* A demand starts a batcher where none of its name runs. *)
LEMMA StepStart ==
  ASSUME CheckInv, NEW f \in Flights, inFlight[f] = "demand", Start(f), UNCHANGED <<positives, caller>>
  PROVE  CheckInv' /\ \A d \in Flights : Hands(d) \subseteq Hands(d)'
PROOF
  <1> USE DEF CheckInv
  <1> DEFINE new == [at |-> "collect", queue |-> <<f>>, demands |-> <<>>]
  <1>0. f.acct \in Accounts
    BY DEF Flights
  <1>1. /\ items[f.acct] = Nil /\ Cardinality(Published) < MaxBatchers
        /\ batcher' = [batcher EXCEPT ![f] = new]
        /\ items' = [items EXCEPT ![f.acct] = f]
        /\ inFlight' = [inFlight EXCEPT ![f] = "waits"]
    BY DEF Start, BatcherFor
  <1>2. batcher[f] = Nil /\ \A d \in Flights : f \notin Hands(d)
    BY Unsent
  <1>3. new \in Batcher
    BY DEF Batcher
  <1>4. new # Nil /\ f # Nil
    BY <1>3, NilAssumption
  <1>5. batcher'[f] = new /\ \A d \in Flights \ {f} : batcher'[d] = batcher[d]
    BY <1>1 DEF CheckShape
  <1>6. Hands(f)' = {f}
    <2>1. Hands(f)' = Range(<<f>>) \cup Range(<<>>)
      BY <1>4, <1>5 DEF Hands
    <2>2. Range(<<f>>) = {f} /\ Range(<<>>) = {}
      <3>1. Range(<<f>>) = {f}
        BY DEF Range
      <3>2. Range(<<>>) = {}
        BY DEF Range
      <3> QED BY <3>1, <3>2
    <2> QED BY <2>1, <2>2
  <1>7. inFlight'[f] = "waits" /\ \A g \in Flights \ {f} : inFlight'[g] = inFlight[g]
    BY <1>1 DEF CheckShape
  <1>8. items'[f.acct] = f /\ \A a \in Accounts \ {f.acct} : items'[a] = items[a]
    BY <1>0, <1>1 DEF CheckShape
  <1>14. CheckShape'
    <2>1. batcher' \in [Flights -> Batcher \cup {Nil}]
      BY <1>1, <1>3 DEF CheckShape
    <2>2. inFlight' \in [Flights -> {"none", "demand", "waits", "alone"}]
      BY <1>1 DEF CheckShape
    <2>3. items' \in [Accounts -> Flights \cup {Nil}]
      BY <1>1 DEF CheckShape
    <2> QED BY <2>1, <2>2, <2>3 DEF CheckShape
  <1>15. HandsInBounds' /\ HandsApart'
    <2>1. \A d \in Flights \ {f} : \A g \in Hands(d) : inFlight'[g] = inFlight[g]
      <3> SUFFICES ASSUME NEW d \in Flights, NEW g \in Hands(d) PROVE inFlight'[g] = inFlight[g]
        OBVIOUS
      <3>1. batcher[d] # Nil
        BY DEF Hands
      <3>2. g \in Flights
        BY <3>1, BatcherTyped
      <3> QED BY <1>2, <1>7, <3>2
    <2>2. Len(<<f>>) <= MaxDemands /\ Len(<<>>) <= MaxDemands
      BY SizeAssumption
    <2>3. FirstIs(f, <<>>, <<f>>)
      BY DEF FirstIs
    <2>4. batcher'[f] # Nil =>
           /\ Len(batcher'[f].queue) <= MaxDemands /\ Len(batcher'[f].demands) <= MaxDemands
           /\ FirstIs(f, batcher'[f].demands, batcher'[f].queue)
           /\ batcher'[f].at = "fetch" => batcher'[f].queue = <<>>
           /\ \A g \in Hands(f)' : g.acct = f.acct /\ inFlight'[g] = "waits"
      <3>1. batcher'[f].queue = <<f>> /\ batcher'[f].demands = <<>> /\ batcher'[f].at = "collect"
        BY <1>5
      <3>2. \A g \in Hands(f)' : g.acct = f.acct /\ inFlight'[g] = "waits"
        BY <1>6, <1>7
      <3> QED BY <2>2, <2>3, <3>1, <3>2
    <2>5. \A d \in Flights \ {f} : Hands(f)' \cap Hands(d) = {}
      BY <1>2, <1>6
    <2> QED BY <1>5, <2>1, <2>4, <2>5, OneBatcher
  <1>16. OpenIsOut'
    <2>1. \A g \in Flights : inFlight[g] # "none" => inFlight'[g] # "none"
      BY <1>7
    <2> QED BY <2>1, OpenKept
  <1>17. PublishedReads'
    <2>1. Published' = Published \cup {f.acct} /\ f.acct \notin Published
      BY <1>0, <1>1, <1>4, <1>8 DEF Published
    <2>2. IsFiniteSet(Published) /\ Cardinality(Published) \in Nat
      BY FS_CardinalityType DEF PublishedReads
    <2>3. IsFiniteSet(Published') /\ Cardinality(Published') = Cardinality(Published) + 1
      BY <2>1, <2>2, FS_AddElement
    <2>4. Cardinality(Published') <= MaxBatchers
      BY <1>1, <2>2, <2>3, SizeAssumption
    <2>5. ASSUME NEW a \in Published'
          PROVE  items'[a].acct = a /\ batcher'[items'[a]] # Nil /\ batcher'[items'[a]].at # "fetch"
      <3>1. CASE a = f.acct
        BY <1>4, <1>5, <1>8, <3>1
      <3>2. CASE a # f.acct
        <4>1. a \in Published /\ items'[a] = items[a] /\ items[a] \in Flights
          <5>1. a \in Published
            BY <2>1, <3>2
          <5> QED BY <1>8, <3>2, <5>1, PublishedTyped
        <4>2. items[a].acct = a /\ batcher[items[a]] # Nil /\ batcher[items[a]].at # "fetch"
          BY <4>1 DEF PublishedReads
        <4>3. items[a] # f /\ batcher'[items[a]] = batcher[items[a]]
          BY <1>2, <1>5, <4>1, <4>2
        <4> QED BY <4>1, <4>2, <4>3
      <3> QED BY <3>1, <3>2
    <2> QED BY <2>3, <2>4, <2>5 DEF PublishedReads
  <1>18. \A d \in Flights : Hands(d) \subseteq Hands(d)'
    <2> TAKE d \in Flights
    <2>1. CASE d = f
      BY <1>2, <2>1 DEF Hands
    <2>2. CASE d # f
      BY <1>5, <2>2 DEF Hands
    <2> QED BY <2>1, <2>2
  <1> QED BY <1>14, <1>15, <1>16, <1>17, <1>18

(* Where neither the batchers nor the map change, and no demand in hand    *)
(* ends, the parts about batchers stay.                                    *)
LEMMA BatchersKept ==
  ASSUME CheckInv, UNCHANGED <<batcher, items>>,
         \A f \in Flights : inFlight[f] = "waits" => inFlight'[f] = "waits"
  PROVE  /\ HandsInBounds' /\ HandsApart' /\ PublishedReads'
         /\ \A d \in Flights : Hands(d)' = Hands(d)
PROOF
  <1> USE DEF CheckInv
  <1>1. \A d \in Flights : Hands(d)' = Hands(d)
    BY DEF Hands
  <1>2. HandsInBounds'
    <2> SUFFICES ASSUME NEW d \in Flights, batcher[d] # Nil, NEW f \in Hands(d) PROVE inFlight'[f] = "waits"
      BY <1>1 DEF HandsInBounds
    <2>1. f \in Flights /\ inFlight[f] = "waits"
      BY BatcherTyped DEF HandsInBounds
    <2> QED BY <2>1
  <1>3. HandsApart'
    BY <1>1 DEF HandsApart
  <1>4. PublishedReads'
    <2>1. Published' = Published
      BY DEF Published
    <2> QED BY <2>1 DEF PublishedReads
  <1> QED BY <1>1, <1>2, <1>3, <1>4

(* A demand joins, starts, or asks alone: no batcher loses one. *)
LEMMA StepDemand ==
  ASSUME CheckInv, NEW f \in Flights, Demand(f)
  PROVE  CheckInv' /\ \A d \in Flights : Hands(d) \subseteq Hands(d)'
PROOF
  <1>1. inFlight[f] = "demand" /\ UNCHANGED <<positives, caller>>
    BY DEF Demand
  <1>2. CASE Join(f)
    BY <1>1, <1>2, StepJoin
  <1>3. CASE Start(f)
    BY <1>1, <1>3, StepStart
  <1>4. CASE AskAlone(f)
    <2> USE DEF CheckInv
    <2>1. inFlight' = [inFlight EXCEPT ![f] = "alone"] /\ UNCHANGED <<batcher, items>>
      BY <1>4 DEF AskAlone
    <2>2. inFlight'[f] = "alone" /\ \A g \in Flights \ {f} : inFlight'[g] = inFlight[g]
      BY <2>1 DEF CheckShape
    <2>3. CheckShape'
      BY <1>1, <2>1 DEF CheckShape
    <2>4. OpenIsOut'
      <3>1. \A g \in Flights : inFlight[g] # "none" => inFlight'[g] # "none"
        BY <2>2
      <3> QED BY <1>1, <3>1, OpenKept
    <2>5. \A g \in Flights : inFlight[g] = "waits" => inFlight'[g] = "waits"
      BY <1>1, <2>2
    <2> QED BY <2>1, <2>3, <2>4, <2>5, BatchersKept
  <1> QED BY <1>2, <1>3, <1>4 DEF Demand

(* A batcher drains its channel and leaves the map, where nobody can find it any more. *)
LEMMA StepDrain ==
  ASSUME CheckInv, NEW b \in Flights, Drain(b)
  PROVE  /\ CheckInv'
         /\ \A d \in Flights \ {b} : Hands(d)' = Hands(d)
         /\ Len(batcher[b].demands) + Len(batcher[b].queue) <= MaxDemands => Hands(b) \subseteq Hands(b)'
PROOF
  <1> USE DEF CheckInv
  <1> DEFINE new == [at |-> "fetch", queue |-> <<>>, demands |-> Drained(b)]
  <1>0. b.acct \in Accounts
    BY DEF Flights
  <1>1. /\ batcher[b] # Nil
        /\ batcher' = [batcher EXCEPT ![b] = new]
        /\ items' = [items EXCEPT ![b.acct] = IF items[b.acct] = b THEN Nil ELSE items[b.acct]]
        /\ UNCHANGED <<positives, caller, inFlight>>
    BY DEF Drain, Unpublished
  <1>2. /\ Drained(b) \in Seq(Flights) /\ Len(Drained(b)) <= MaxDemands
        /\ Range(Drained(b)) \subseteq Hands(b) /\ FirstIs(b, Drained(b), <<>>)
        /\ Len(batcher[b].demands) + Len(batcher[b].queue) <= MaxDemands =>
             Hands(b) \subseteq Range(Drained(b))
    BY <1>1, DrainedIs
  <1>3. new.queue = <<>> /\ new.demands = Drained(b)
    OBVIOUS
  <1>4. new \in Batcher
    BY <1>2 DEF Batcher
  <1> HIDE DEF new
  <1>5. new # Nil
    BY <1>4, NilAssumption
  <1>6. batcher'[b] = new /\ \A d \in Flights \ {b} : batcher'[d] = batcher[d]
    BY <1>1 DEF CheckShape
  <1>7. Hands(b)' = Range(Drained(b))
    <2>1. Hands(b)' = Range(<<>>) \cup Range(Drained(b))
      BY <1>3, <1>5, <1>6 DEF Hands
    <2>2. Range(<<>>) = {}
      BY DEF Range
    <2> QED BY <2>1, <2>2
  <1>8. /\ items'[b.acct] = (IF items[b.acct] = b THEN Nil ELSE items[b.acct])
        /\ \A a \in Accounts \ {b.acct} : items'[a] = items[a]
    BY <1>0, <1>1 DEF CheckShape
  <1>9. CheckShape'
    <2>1. batcher' \in [Flights -> Batcher \cup {Nil}]
      BY <1>1, <1>4 DEF CheckShape
    <2>2. items' \in [Accounts -> Flights \cup {Nil}]
      BY <1>1 DEF CheckShape
    <2> QED BY <1>1, <2>1, <2>2 DEF CheckShape
  <1>10. HandsInBounds' /\ HandsApart'
    <2>1. \A d \in Flights \ {b} : \A g \in Hands(d) : inFlight'[g] = inFlight[g]
      BY <1>1
    <2>2. Len(<<>>) <= MaxDemands
      BY SizeAssumption
    <2>3. \A g \in Hands(b) : g.acct = b.acct /\ inFlight[g] = "waits"
      BY <1>1 DEF HandsInBounds
    <2>4. batcher'[b] # Nil =>
           /\ Len(batcher'[b].queue) <= MaxDemands /\ Len(batcher'[b].demands) <= MaxDemands
           /\ FirstIs(b, batcher'[b].demands, batcher'[b].queue)
           /\ batcher'[b].at = "fetch" => batcher'[b].queue = <<>>
           /\ \A g \in Hands(b)' : g.acct = b.acct /\ inFlight'[g] = "waits"
      BY <1>1, <1>2, <1>3, <1>6, <1>7, <2>2, <2>3
    <2>5. \A d \in Flights \ {b} : Hands(b)' \cap Hands(d) = {}
      BY <1>2, <1>7 DEF HandsApart
    <2> QED BY <1>6, <2>1, <2>4, <2>5, OneBatcher
  <1>11. OpenIsOut'
    BY <1>1, OpenKept
  <1>12. PublishedReads'
    <2>1. ASSUME NEW a \in Published' PROVE a \in Published /\ items'[a] = items[a] /\ items[a] # b
      <3>1. a \in Accounts /\ items'[a] # Nil
        BY DEF Published
      <3>2. items'[a] = items[a] /\ a \in Published
        BY <1>8, <3>1 DEF Published
      <3>3. items[a].acct = a
        BY <3>2 DEF PublishedReads
      <3>4. items[a] # b
        BY <1>8, <3>1, <3>2, <3>3
      <3> QED BY <3>2, <3>4
    <2>2. Published' \subseteq Published
      BY <2>1
    <2>3. IsFiniteSet(Published') /\ Cardinality(Published') <= MaxBatchers
      <3>1. IsFiniteSet(Published) /\ Cardinality(Published) <= MaxBatchers
        BY DEF PublishedReads
      <3>2. /\ IsFiniteSet(Published') /\ Cardinality(Published') <= Cardinality(Published)
            /\ Cardinality(Published) \in Nat /\ Cardinality(Published') \in Nat
        BY <2>2, <3>1, FS_Subset, FS_CardinalityType
      <3> QED BY <3>1, <3>2, SizeAssumption
    <2>4. ASSUME NEW a \in Published'
          PROVE  items'[a].acct = a /\ batcher'[items'[a]] # Nil /\ batcher'[items'[a]].at # "fetch"
      <3>1. a \in Published /\ items'[a] = items[a] /\ items[a] # b /\ items[a] \in Flights
        BY <2>1, <2>4, PublishedTyped
      <3>2. items[a].acct = a /\ batcher[items[a]] # Nil /\ batcher[items[a]].at # "fetch"
        BY <3>1 DEF PublishedReads
      <3>3. batcher'[items[a]] = batcher[items[a]]
        BY <1>6, <3>1
      <3> QED BY <3>1, <3>2, <3>3
    <2> QED BY <2>3, <2>4 DEF PublishedReads
  <1>13. \A d \in Flights \ {b} : Hands(d)' = Hands(d)
    BY <1>6 DEF Hands
  <1> QED BY <1>2, <1>7, <1>9, <1>10, <1>11, <1>12, <1>13

(* The releases a check hears of when the flights of ended are over. *)
ToldTo(c, ended, known) ==
  UNION {f.set : f \in {g \in caller[c].open \cap ended : g.set \subseteq known}}

(* Who waits for none of them hears nothing; who does, of releases asked about. *)
LEMMA EndedIs ==
  ASSUME CheckShape, NEW ended, NEW known, NEW held, NEW c \in Callers, caller[c] # Nil
  PROVE  LET told == ToldTo(c, ended, known)
             after == Ended(ended, known, held)[c]
         IN /\ told \subseteq known /\ told \subseteq Hashes
            /\ after \in Caller
            /\ after.acct = caller[c].acct /\ after.open = caller[c].open \ ended
            /\ after.held = caller[c].held \cup (told \cap held)
            /\ after.missing = caller[c].missing \cup (told \ held)
            /\ caller[c].open \cap ended = {} => after = caller[c]
PROOF
  <1> DEFINE told == ToldTo(c, ended, known)
             after == Ended(ended, known, held)[c]
  <1>1. caller[c] \in Caller
    BY DEF CheckShape
  <1>2. caller[c].open \subseteq Flights
    BY <1>1 DEF Caller
  <1>3. told \subseteq known
    BY DEF ToldTo
  <1>4. told \subseteq Hashes
    <2>1. \A f \in Flights : f.set \subseteq Hashes
      BY DEF Flights
    <2> QED BY <1>2, <2>1 DEF ToldTo
  <1>5. after = [caller[c] EXCEPT !.open = caller[c].open \ ended,
                                  !.held = caller[c].held \cup (told \cap held),
                                  !.missing = caller[c].missing \cup (told \ held)]
    BY DEF Ended, ToldTo
  <1>6. caller[c].open \cap ended = {} => told = {}
    BY DEF ToldTo
  <1> HIDE DEF told, after
  <1>7. after = [acct |-> caller[c].acct, open |-> caller[c].open \ ended,
                 held |-> caller[c].held \cup (told \cap held),
                 missing |-> caller[c].missing \cup (told \ held)]
    BY <1>1, <1>5 DEF Caller
  <1>8. after \in Caller
    BY <1>1, <1>4, <1>7 DEF Caller
  <1>9. caller[c].open \cap ended = {} => after = caller[c]
    <2> SUFFICES ASSUME caller[c].open \cap ended = {} PROVE after = caller[c]
      OBVIOUS
    <2>1. /\ caller[c].open \ ended = caller[c].open
          /\ caller[c].held \cup (told \cap held) = caller[c].held
          /\ caller[c].missing \cup (told \ held) = caller[c].missing
      BY <1>6
    <2>2. caller[c] = [acct |-> caller[c].acct, open |-> caller[c].open,
                       held |-> caller[c].held, missing |-> caller[c].missing]
      BY <1>1 DEF Caller
    <2> QED BY <1>7, <2>1, <2>2
  <1>10. /\ after.acct = caller[c].acct /\ after.open = caller[c].open \ ended
         /\ after.held = caller[c].held \cup (told \cap held)
         /\ after.missing = caller[c].missing \cup (told \ held)
    BY <1>7
  <1> QED BY <1>3, <1>4, <1>8, <1>9, <1>10 DEF told, after

(* The end of some flights, as the checks that wait see it. *)
LEMMA EndedKeeps ==
  ASSUME CheckInv, NEW ended \in SUBSET Flights, NEW known, NEW held,
         caller' = Ended(ended, known, held),
         \A f \in Flights \ ended : inFlight'[f] = inFlight[f]
  PROVE  caller' \in [Callers -> Caller \cup {Nil}] /\ OpenIsOut'
PROOF
  <1> USE DEF CheckInv
  <1> DEFINE after == Ended(ended, known, held)
  <1>1. ASSUME NEW c \in Callers, caller[c] # Nil
        PROVE  after[c] \in Caller /\ after[c].acct = caller[c].acct /\ after[c].open = caller[c].open \ ended
    BY <1>1, EndedIs
  <1>2. ASSUME NEW c \in Callers, caller[c] = Nil PROVE after[c] = Nil
    BY <1>2 DEF Ended
  <1>3. after = [c \in Callers |-> after[c]]
    BY DEF Ended
  <1> HIDE DEF after
  <1>4. caller' = after
    BY DEF after
  <1>5. \A c \in Callers : after[c] \in Caller \cup {Nil}
    BY <1>1, <1>2
  <1>6. caller' \in [Callers -> Caller \cup {Nil}]
    BY <1>3, <1>4, <1>5
  <1>7. OpenIsOut'
    <2> SUFFICES ASSUME NEW c \in Callers, caller'[c] # Nil, NEW f \in caller'[c].open
                 PROVE  f.acct = caller'[c].acct /\ inFlight'[f] # "none"
      BY DEF OpenIsOut
    <2>1. caller[c] # Nil
      BY <1>2, <1>4
    <2>2. f \in caller[c].open /\ f \notin ended /\ caller'[c].acct = caller[c].acct
      BY <1>1, <1>4, <2>1
    <2>3. f \in Flights
      <3>1. caller[c] \in Caller
        BY <2>1 DEF CheckShape
      <3> QED BY <2>2, <3>1 DEF Caller
    <2>4. f.acct = caller[c].acct /\ inFlight[f] # "none"
      BY <2>1, <2>2 DEF OpenIsOut
    <2> QED BY <2>2, <2>3, <2>4
  <1> QED BY <1>6, <1>7

(* An answer ends the flights in the batcher's hands and no other's. *)
LEMMA StepAnswer ==
  ASSUME CheckInv, NEW b \in Flights, NEW failed, NEW held, Answer(b, failed, held)
  PROVE  /\ CheckInv'
         /\ batcher[b].at = "fetch" /\ \A f \in Hands(b) : f \in Hands(b)' \/ inFlight'[f] = "none"
         /\ \A d \in Flights \ {b} : Hands(d)' = Hands(d)
PROOF
  <1> USE DEF CheckInv
  <1> DEFINE ended == Range(batcher[b].demands)
             known == UNION (Batches(Asked(b)) \ failed)
  <1>1. /\ batcher[b] # Nil /\ batcher[b].at = "fetch"
        /\ caller' = Ended(ended, known, held)
        /\ inFlight' = [f \in Flights |-> IF f \in ended THEN "none" ELSE inFlight[f]]
        /\ batcher' = [batcher EXCEPT ![b] = Nil]
        /\ UNCHANGED <<positives, items>>
    BY DEF Answer
  <1>2. ended \subseteq Hands(b) /\ Hands(b) \subseteq Flights
    BY <1>1, BatcherTyped
  <1> HIDE DEF ended, known
  <1>3. batcher'[b] = Nil /\ \A d \in Flights \ {b} : batcher'[d] = batcher[d]
    BY <1>1 DEF CheckShape
  <1>4. \A f \in Flights : inFlight'[f] = IF f \in ended THEN "none" ELSE inFlight[f]
    BY <1>1
  <1>5. caller' \in [Callers -> Caller \cup {Nil}] /\ OpenIsOut'
    <2>1. \A f \in Flights \ ended : inFlight'[f] = inFlight[f]
      BY <1>4
    <2>2. ended \in SUBSET Flights
      BY <1>2
    <2> QED BY <1>1, <2>1, <2>2, EndedKeeps
  <1>6. CheckShape'
    <2>1. batcher' \in [Flights -> Batcher \cup {Nil}]
      BY <1>1 DEF CheckShape
    <2>2. inFlight' \in [Flights -> {"none", "demand", "waits", "alone"}]
      BY <1>1 DEF CheckShape
    <2> QED BY <1>1, <1>5, <2>1, <2>2 DEF CheckShape
  <1>7. HandsInBounds' /\ HandsApart'
    <2>1. ASSUME NEW d \in Flights \ {b}, NEW f \in Hands(d) PROVE inFlight'[f] = inFlight[f]
      <3>1. f \in Flights
        <4>1. batcher[d] # Nil
          BY DEF Hands
        <4> QED BY <4>1, BatcherTyped
      <3>2. f \notin ended
        BY <1>2 DEF HandsApart
      <3> QED BY <1>4, <3>1, <3>2
    <2>2. Hands(b)' = {}
      BY <1>3 DEF Hands
    <2> QED BY <1>3, <2>1, <2>2, OneBatcher
  <1>8. PublishedReads'
    <2>1. \A a \in Published : items[a] # b
      BY <1>1 DEF PublishedReads
    <2>2. \A a \in Published : items[a] \in Flights
      BY PublishedTyped
    <2> QED BY <1>1, <1>3, <2>1, <2>2, PublishedKept
  <1>9. \A f \in Hands(b) : f \in ended
    <2>1. batcher[b].queue = <<>>
      BY <1>1 DEF HandsInBounds
    <2>2. Hands(b) = Range(batcher[b].queue) \cup ended
      BY <1>1, BatcherTyped DEF ended
    <2>3. Range(<<>>) = {}
      BY DEF Range
    <2> QED BY <2>1, <2>2, <2>3
  <1>10. \A d \in Flights \ {b} : Hands(d)' = Hands(d)
    BY <1>3 DEF Hands
  <1> QED BY <1>1, <1>2, <1>4, <1>5, <1>6, <1>7, <1>8, <1>9, <1>10

(* A flight that asked alone ends alone. *)
LEMMA StepAnswerAlone ==
  ASSUME CheckInv, NEW f \in Flights, NEW ok, NEW held, AnswerAlone(f, ok, held)
  PROVE  CheckInv' /\ \A d \in Flights : Hands(d)' = Hands(d)
PROOF
  <1> USE DEF CheckInv
  <1> DEFINE known == IF ok THEN f.set ELSE {}
  <1>1. /\ inFlight[f] = "alone"
        /\ caller' = Ended({f}, known, held)
        /\ inFlight' = [inFlight EXCEPT ![f] = "none"]
        /\ UNCHANGED <<positives, batcher, items>>
    BY DEF AnswerAlone
  <1> HIDE DEF known
  <1>2. inFlight'[f] = "none" /\ \A g \in Flights \ {f} : inFlight'[g] = inFlight[g]
    BY <1>1 DEF CheckShape
  <1>3. caller' \in [Callers -> Caller \cup {Nil}] /\ OpenIsOut'
    <2>1. {f} \in SUBSET Flights
      OBVIOUS
    <2> QED BY <1>1, <1>2, <2>1, EndedKeeps
  <1>4. CheckShape'
    <2>1. inFlight' \in [Flights -> {"none", "demand", "waits", "alone"}]
      BY <1>1 DEF CheckShape
    <2> QED BY <1>1, <1>3, <2>1 DEF CheckShape
  <1>5. \A g \in Flights : inFlight[g] = "waits" => inFlight'[g] = "waits"
    BY <1>1, <1>2
  <1> QED BY <1>1, <1>3, <1>4, <1>5, BatchersKept

(* A check asks in batches, each of which is a flight of its account. *)
LEMMA StepCheck ==
  ASSUME CheckInv, NEW c \in Callers, NEW a \in Accounts, NEW set \in SUBSET Hashes, Check(c, a, set)
  PROVE  CheckInv' /\ \A d \in Flights : Hands(d)' = Hands(d)
PROOF
  <1> USE DEF CheckInv
  <1> DEFINE ask == set \ positives[a]
             open == {[acct |-> a, set |-> batch] : batch \in Batches(ask)}
             new == [acct |-> a, open |-> open, held |-> set \ ask, missing |-> {}]
  <1>1. /\ caller' = [caller EXCEPT ![c] = new]
        /\ inFlight' = [f \in Flights |->
             IF f \in open /\ inFlight[f] = "none" THEN "demand" ELSE inFlight[f]]
        /\ UNCHANGED <<positives, batcher, items>>
    BY DEF Check
  <1>2. ask \in SUBSET Hashes
    OBVIOUS
  <1>3. \A f \in open : f \in Flights /\ f.acct = a
    <2> SUFFICES ASSUME NEW batch \in Batches(ask)
                 PROVE  [acct |-> a, set |-> batch] \in Flights /\ [acct |-> a, set |-> batch].acct = a
      OBVIOUS
    <2> HIDE DEF ask
    <2>1. batch \in SUBSET ask /\ Cardinality(batch) \in 1..CacheBatch
      BY <1>2, BatchSize
    <2>2. batch \in {s \in SUBSET Hashes : Cardinality(s) \in 1..CacheBatch}
      BY <1>2, <2>1
    <2> QED BY <2>2 DEF Flights
  <1> HIDE DEF ask, open
  <1>4. new \in Caller /\ new.open = open /\ new.acct = a
    <2>1. open \in SUBSET Flights
      BY <1>3
    <2> QED BY <1>2, <2>1 DEF Caller
  <1> HIDE DEF new
  <1>5. caller'[c] = new /\ \A e \in Callers \ {c} : caller'[e] = caller[e]
    BY <1>1 DEF CheckShape
  <1>6. \A f \in Flights : inFlight'[f] =
          IF f \in open /\ inFlight[f] = "none" THEN "demand" ELSE inFlight[f]
    BY <1>1
  <1>7. CheckShape'
    <2>1. caller' \in [Callers -> Caller \cup {Nil}]
      BY <1>1, <1>4 DEF CheckShape
    <2>2. inFlight' \in [Flights -> {"none", "demand", "waits", "alone"}]
      BY <1>1 DEF CheckShape
    <2> QED BY <1>1, <2>1, <2>2 DEF CheckShape
  <1>8. OpenIsOut'
    <2> SUFFICES ASSUME NEW e \in Callers, caller'[e] # Nil, NEW f \in caller'[e].open
                 PROVE  f.acct = caller'[e].acct /\ inFlight'[f] # "none"
      BY DEF OpenIsOut
    <2>1. CASE e = c
      <3>1. f \in open /\ f \in Flights /\ f.acct = a
        BY <1>3, <1>4, <1>5, <2>1
      <3> QED BY <1>4, <1>5, <1>6, <2>1, <3>1
    <2>2. CASE e # c
      <3>1. caller[e] # Nil /\ caller'[e] = caller[e] /\ f \in caller[e].open
        BY <1>5, <2>2
      <3>2. f \in Flights
        <4>1. caller[e] \in Caller
          BY <3>1 DEF CheckShape
        <4> QED BY <3>1, <4>1 DEF Caller
      <3>3. f.acct = caller[e].acct /\ inFlight[f] # "none"
        BY <3>1 DEF OpenIsOut
      <3> QED BY <1>6, <3>1, <3>2, <3>3
    <2> QED BY <2>1, <2>2
  <1>9. \A f \in Flights : inFlight[f] = "waits" => inFlight'[f] = "waits"
    BY <1>6
  <1> QED BY <1>1, <1>7, <1>8, <1>9, BatchersKept

(* A check that returns leaves the flights to those who still wait. *)
LEMMA StepReturn ==
  ASSUME CheckInv, NEW c \in Callers, Return(c)
  PROVE  CheckInv' /\ \A d \in Flights : Hands(d)' = Hands(d)
PROOF
  <1> USE DEF CheckInv
  <1>1. /\ caller[c] # Nil
        /\ positives' = [positives EXCEPT ![caller[c].acct] = @ \cup caller[c].held]
        /\ caller' = [caller EXCEPT ![c] = Nil]
        /\ UNCHANGED <<inFlight, batcher, items>>
    BY DEF Return
  <1>2. caller[c].held \subseteq Hashes
    <2>1. caller[c] \in Caller
      BY <1>1 DEF CheckShape
    <2> QED BY <2>1 DEF Caller
  <1>3. CheckShape'
    <2>1. positives' \in [Accounts -> SUBSET Hashes]
      BY <1>1, <1>2 DEF CheckShape
    <2>2. caller' \in [Callers -> Caller \cup {Nil}]
      BY <1>1 DEF CheckShape
    <2> QED BY <1>1, <2>1, <2>2 DEF CheckShape
  <1>4. OpenIsOut'
    <2>1. \A e \in Callers : caller'[e] # Nil => caller'[e] = caller[e]
      BY <1>1 DEF CheckShape
    <2> QED BY <1>1, <2>1 DEF OpenIsOut
  <1>5. \A f \in Flights : inFlight[f] = "waits" => inFlight'[f] = "waits"
    BY <1>1
  <1> QED BY <1>1, <1>3, <1>4, <1>5, BatchersKept

LEMMA StepForget ==
  ASSUME CheckInv, NEW a \in Accounts, NEW h \in Hashes, Forget(a, h)
  PROVE  CheckInv' /\ \A d \in Flights : Hands(d)' = Hands(d)
PROOF
  <1> USE DEF CheckInv
  <1>1. /\ positives' = [positives EXCEPT ![a] = @ \ {h}]
        /\ UNCHANGED <<caller, inFlight, batcher, items>>
    BY DEF Forget
  <1>2. CheckShape'
    BY <1>1 DEF CheckShape
  <1>3. OpenIsOut'
    BY <1>1, OpenKept
  <1> QED BY <1>1, <1>2, <1>3, BatchersKept

LEMMA InitCheckInv == CheckInit => CheckInv
PROOF
  <1> SUFFICES ASSUME CheckInit PROVE CheckInv
    OBVIOUS
  <1>1. /\ positives = [a \in Accounts |-> {}] /\ caller = [c \in Callers |-> Nil]
        /\ inFlight = [f \in Flights |-> "none"] /\ batcher = [f \in Flights |-> Nil]
        /\ items = [a \in Accounts |-> Nil]
    BY DEF CheckInit
  <1>2. CheckShape
    BY <1>1 DEF CheckShape
  <1>3. HandsInBounds /\ OpenIsOut
    BY <1>1 DEF HandsInBounds, OpenIsOut
  <1>4. HandsApart
    BY <1>1 DEF HandsApart, Hands
  <1>5. PublishedReads
    <2>1. Published = {}
      BY <1>1 DEF Published
    <2>2. IsFiniteSet({}) /\ Cardinality({}) = 0
      BY FS_EmptySet
    <2> QED BY <2>1, <2>2, SizeAssumption DEF PublishedReads
  <1> QED BY <1>2, <1>3, <1>4, <1>5 DEF CheckInv

LEMMA NextCheckInv ==
  ASSUME CheckInv, [CheckNext]_checkVars
  PROVE  CheckInv' /\ (KeepsDemands \/ UNCHANGED checkVars)
PROOF
  <1>1. CASE \E c \in Callers, a \in Accounts, set \in SUBSET Hashes : Check(c, a, set)
    BY <1>1, StepCheck DEF KeepsDemands
  <1>2. CASE \E c \in Callers : Return(c)
    BY <1>2, StepReturn DEF KeepsDemands
  <1>3. ASSUME NEW f \in Flights, Demand(f) PROVE CheckInv' /\ KeepsDemands
    BY <1>3, StepDemand DEF KeepsDemands
  <1>4. ASSUME NEW f \in Flights, NEW ok, NEW held, AnswerAlone(f, ok, held) PROVE CheckInv' /\ KeepsDemands
    BY <1>4, StepAnswerAlone DEF KeepsDemands
  <1>5. ASSUME NEW b \in Flights, Take(b) \/ Collected(b) PROVE CheckInv' /\ KeepsDemands
    <2>1. CheckInv' /\ Hands(b)' = Hands(b)
      BY <1>5, StepTake, StepCollected
    <2>2. \A d \in Flights \ {b} : batcher'[d] = batcher[d]
      BY <1>5 DEF Take, Collected, CheckInv, CheckShape
    <2>3. \A d \in Flights \ {b} : Hands(d)' = Hands(d)
      BY <2>2 DEF Hands
    <2> QED BY <2>1, <2>3 DEF KeepsDemands
  <1>6. ASSUME NEW b \in Flights, Drain(b) PROVE CheckInv' /\ KeepsDemands
    <2>1. /\ CheckInv'
          /\ \A d \in Flights \ {b} : Hands(d)' = Hands(d)
          /\ Len(batcher[b].demands) + Len(batcher[b].queue) <= MaxDemands => Hands(b) \subseteq Hands(b)'
      BY <1>6, StepDrain
    <2>2. ASSUME Hands(b) # {} PROVE Len(batcher[b].demands) \in Nat /\ Len(batcher[b].queue) \in Nat
      <3>1. batcher[b] # Nil
        BY <2>2 DEF Hands
      <3>2. batcher[b].queue \in Seq(Flights) /\ batcher[b].demands \in Seq(Flights)
        BY <3>1, BatcherTyped DEF CheckInv
      <3> QED BY <3>2, SeqRange
    <2>3. ASSUME NEW f \in Hands(b), f \notin Hands(b)'
          PROVE  Len(batcher[b].demands) + Len(batcher[b].queue) > MaxDemands
      <3>1. ~(Len(batcher[b].demands) + Len(batcher[b].queue) <= MaxDemands)
        BY <2>1, <2>3
      <3>2. Len(batcher[b].demands) \in Nat /\ Len(batcher[b].queue) \in Nat
        BY <2>2, <2>3
      <3>3. \A x \in Nat, y \in Nat, z \in Nat : ~(x + y <= z) => x + y > z
        OBVIOUS
      <3> QED BY <3>1, <3>2, <3>3, SizeAssumption, Zenon
    <2>4. ASSUME NEW d \in Flights, NEW f \in Hands(d)
          PROVE  f \in Hands(d)' \/ (Drain(d) /\ Len(batcher[d].demands) + Len(batcher[d].queue) > MaxDemands)
      <3>1. CASE d = b
        BY <1>6, <2>3, <3>1
      <3>2. CASE d # b
        BY <2>1, <3>2
      <3> QED BY <3>1, <3>2
    <2> QED BY <2>1, <2>4 DEF KeepsDemands
  <1>7. ASSUME NEW b \in Flights, NEW failed, NEW held, Answer(b, failed, held) PROVE CheckInv' /\ KeepsDemands
    <2>1. /\ CheckInv'
          /\ batcher[b].at = "fetch" /\ \A f \in Hands(b) : f \in Hands(b)' \/ inFlight'[f] = "none"
          /\ \A d \in Flights \ {b} : Hands(d)' = Hands(d)
      BY <1>7, StepAnswer
    <2>2. ASSUME NEW d \in Flights, NEW f \in Hands(d)
          PROVE  f \in Hands(d)' \/ (batcher[d].at = "fetch" /\ inFlight'[f] = "none")
      <3>1. CASE d = b
        BY <2>1, <3>1
      <3>2. CASE d # b
        BY <2>1, <3>2
      <3> QED BY <3>1, <3>2
    <2> QED BY <2>1, <2>2 DEF KeepsDemands
  <1>8. CASE \E a \in Accounts, h \in Hashes : Forget(a, h)
    BY <1>8, StepForget DEF KeepsDemands
  <1>9. CASE UNCHANGED checkVars
    <2>1. CheckShape'
      BY <1>9 DEF CheckInv, CheckShape, checkVars
    <2>2. OpenIsOut'
      BY <1>9 DEF CheckInv, OpenIsOut, checkVars
    <2> QED BY <1>9, <2>1, <2>2, BatchersKept DEF CheckInv, checkVars
  <1>10. CASE \E f \in Flights : FlightStep(f) \/ BatcherStep(f)
    BY <1>3, <1>4, <1>5, <1>6, <1>7, <1>10 DEF FlightStep, BatcherStep
  <1> QED BY <1>1, <1>2, <1>8, <1>9, <1>10 DEF CheckNext

LEMMA CheckInvHolds == CheckSpec => []CheckInv
PROOF
  <1>1. CheckInv /\ [CheckNext]_checkVars => CheckInv'
    BY NextCheckInv
  <1> QED BY <1>1, InitCheckInv, PTL DEF CheckSpec

(* Every variable of the availability checks keeps its shape, and no       *)
(* batcher has more demands than maxTorboxDemands, or another account's    *)
(* (demandCheckCached, run).                                               *)
THEOREM CheckTypeCorrect == CheckSpec => []CheckTypeOK
PROOF
  <1>1. CheckInv => CheckTypeOK
    <2> SUFFICES ASSUME CheckInv PROVE CheckTypeOK
      OBVIOUS
    <2> USE DEF CheckInv
    <2>1. ASSUME NEW b \in Flights, batcher[b] # Nil
          PROVE  /\ batcher[b].at \in {"collect", "collected", "fetch"}
                 /\ Len(batcher[b].queue) <= MaxDemands /\ Len(batcher[b].demands) <= MaxDemands
                 /\ Range(batcher[b].queue) \subseteq {f \in Flights : f.acct = b.acct}
                 /\ Range(batcher[b].demands) \subseteq {f \in Flights : f.acct = b.acct}
      <3>1. /\ batcher[b].at \in {"collect", "collected", "fetch"}
            /\ Hands(b) = Range(batcher[b].queue) \cup Range(batcher[b].demands)
            /\ Hands(b) \subseteq Flights
        BY <2>1, BatcherTyped
      <3>2. /\ Len(batcher[b].queue) <= MaxDemands /\ Len(batcher[b].demands) <= MaxDemands
            /\ \A f \in Hands(b) : f.acct = b.acct
        BY <2>1 DEF HandsInBounds
      <3> QED BY <3>1, <3>2
    <2>2. /\ positives \in [Accounts -> SUBSET Hashes]
          /\ \A c \in Callers : caller[c] = Nil \/ caller[c] \in Caller
          /\ inFlight \in [Flights -> {"none", "demand", "waits", "alone"}]
          /\ \A a \in Accounts : items[a] = Nil \/ items[a] \in Flights
      BY DEF CheckShape
    <2>3. \A b \in {f \in Flights : batcher[f] # Nil} :
            /\ batcher[b].at \in {"collect", "collected", "fetch"}
            /\ \A s \in {batcher[b].queue, batcher[b].demands} :
                 Len(s) <= MaxDemands /\ Range(s) \subseteq {f \in Flights : f.acct = b.acct}
      BY <2>1
    <2> QED BY <2>2, <2>3 DEF CheckTypeOK
  <1> QED BY <1>1, CheckInvHolds, PTL

(* Nobody waits for what will not come: demands go only to batchers that   *)
(* will read them, of which there are never too many, and a check waits    *)
(* only for flights in progress (demandCheckCached, run, checkCachedBatch). *)
THEOREM DemandsStayRead == CheckSpec => []DemandsAreRead
PROOF
  <1>1. CheckInv => DemandsAreRead
    BY DEF CheckInv, DemandsAreRead, PublishedReads, OpenIsOut
  <1> QED BY <1>1, CheckInvHolds, PTL

(* A demand a batcher has received is answered, or is still in its hands;  *)
(* only a drain that finds more demands than the batcher has room for      *)
(* leaves one behind (run).                                                *)
THEOREM DemandsAreKept == CheckSpec => DemandsKept
PROOF
  <1>1. CheckInv /\ [CheckNext]_checkVars => (KeepsDemands \/ UNCHANGED checkVars)
    BY NextCheckInv
  <1> QED BY <1>1, CheckInvHolds, PTL DEF CheckSpec, DemandsKept

(* Only who waits for a flight of the account hears when it ends, and what *)
(* it hears is what TorBox said.                                           *)
LEMMA ToldOfEnded ==
  ASSUME CheckInv, NEW a, NEW ended \in SUBSET Flights, \A f \in ended : f.acct = a,
         NEW known, NEW said, known \subseteq said, NEW held,
         caller' = Ended(ended, known, held)
  PROVE  ToldOnly(a, said, held)
PROOF
  <1> SUFFICES ASSUME NEW c \in Callers, caller[c] # Nil, caller'[c] # caller[c]
               PROVE  /\ caller[c].acct = a
                      /\ caller'[c].held \ caller[c].held \subseteq held
                      /\ caller'[c].missing \ caller[c].missing \subseteq said \ held
    BY DEF ToldOnly
  <1> DEFINE told == ToldTo(c, ended, known)
             after == Ended(ended, known, held)[c]
  <1>1. caller'[c] = after
    OBVIOUS
  <1>2. /\ told \subseteq known
        /\ after.held = caller[c].held \cup (told \cap held)
        /\ after.missing = caller[c].missing \cup (told \ held)
        /\ caller[c].open \cap ended = {} => after = caller[c]
    BY EndedIs DEF CheckInv
  <1> HIDE DEF told, after
  <1>3. PICK f \in caller[c].open \cap ended : TRUE
    BY <1>1, <1>2
  <1>4. caller[c].acct = a
    BY <1>3 DEF CheckInv, OpenIsOut
  <1> QED BY <1>1, <1>2, <1>4

(* What a check is told of a release is what TorBox said of it on that     *)
(* account, and a release of a failed request is neither held nor missing  *)
(* (CacheCheck, run): the batches of a request have no release in common,  *)
(* and a check waits for flights of its account only.                      *)
THEOREM ToldTheTruth == CheckSpec => ToldWhatTorBoxSays
PROOF
  <1> DEFINE Truth ==
        \A f \in Flights :
          /\ \A failed \in SUBSET Batches(Asked(f)), held \in SUBSET Asked(f) :
               Answer(f, failed, held) => ToldOnly(f.acct, Asked(f) \ UNION failed, held)
          /\ \A ok \in BOOLEAN, held \in SUBSET f.set :
               AnswerAlone(f, ok, held) => ToldOnly(f.acct, IF ok THEN f.set ELSE {}, held)
  <1>1. CheckInv => Truth
    <2> SUFFICES ASSUME CheckInv, NEW f \in Flights PROVE
          /\ \A failed \in SUBSET Batches(Asked(f)), held \in SUBSET Asked(f) :
               Answer(f, failed, held) => ToldOnly(f.acct, Asked(f) \ UNION failed, held)
          /\ \A ok \in BOOLEAN, held \in SUBSET f.set :
               AnswerAlone(f, ok, held) => ToldOnly(f.acct, IF ok THEN f.set ELSE {}, held)
      OBVIOUS
    <2>1. ASSUME NEW failed \in SUBSET Batches(Asked(f)), NEW held, Answer(f, failed, held)
          PROVE  ToldOnly(f.acct, Asked(f) \ UNION failed, held)
      <3> DEFINE ended == Range(batcher[f].demands)
                 known == Heard(Asked(f), failed)
      <3>1. batcher[f] # Nil /\ caller' = Ended(ended, known, held)
        BY <2>1 DEF Answer, Heard
      <3>2. ended \subseteq Hands(f) /\ Hands(f) \subseteq Flights
        BY <3>1, BatcherTyped DEF CheckInv
      <3>3. \A g \in Hands(f) : g.acct = f.acct
        BY <3>1 DEF CheckInv, HandsInBounds
      <3>0. failed \in SUBSET Batches(Asked(f))
        OBVIOUS
      <3>4. known \subseteq Asked(f) \ UNION failed
        BY ONLY <3>0, BatchesApart
      <3> HIDE DEF ended, known
      <3>5. ended \in SUBSET Flights /\ \A g \in ended : g.acct = f.acct
        BY <3>2, <3>3
      <3> DEFINE said == Asked(f) \ UNION failed
      <3>6. known \subseteq said
        BY <3>4
      <3> HIDE DEF said
      <3>7. ToldOnly(f.acct, said, held)
        BY <3>1, <3>5, <3>6, ToldOfEnded
      <3> QED BY <3>7 DEF said
    <2>2. ASSUME NEW ok, NEW held, AnswerAlone(f, ok, held)
          PROVE  ToldOnly(f.acct, IF ok THEN f.set ELSE {}, held)
      <3> DEFINE known == IF ok THEN f.set ELSE {}
      <3>1. caller' = Ended({f}, known, held)
        BY <2>2 DEF AnswerAlone
      <3> HIDE DEF known
      <3>2. ToldOnly(f.acct, known, held)
        BY <3>1, ToldOfEnded
      <3> QED BY <3>2 DEF known
    <2> QED BY <2>1, <2>2
  <1> HIDE DEF Truth
  <1>2. ToldWhatTorBoxSays <=> [][Truth]_checkVars
    BY DEF ToldWhatTorBoxSays, Truth
  <1> QED BY <1>1, <1>2, CheckInvHolds, PTL
-----------------------------------------------------------------------------
(* Status *)

(* The shape of what is out: the stages a read or a Cancel goes through,   *)
(* and the ids it has by then.                                             *)
ListingReads == [at : {"idle", "asked", "read"}, id : Listed \union {Unread},
                 saw : {"nothing", "fault"}, aged : BOOLEAN]
StatusReads == [at : {"idle", "listing", "queue", "queueRead", "entry", "entryRead"},
                id : Listed, saw : Live \union {"nothing", "none", "finished"}, aged : BOOLEAN]
Cancels == [at : {"idle", "dequeue", "dequeued", "listing", "entry", "looked", "delete", "deleted"},
            id : Listed, saw : Live \union {"nothing", "none", "finished"}, aged : {FALSE}]
Resolves == [at : {"idle", "listing"}, id : Listed, saw : {"nothing"}, aged : {FALSE}]
Adds == [at : {"idle", "sent", "parked", "created"}, id : Listed,
         saw : {"nothing"}, aged : {FALSE}]
Holdings == {a \in [id : Listed, is : Live \union {"none", "queued", "finished"}] :
               a.is # "none" => a.id \in Ids}

StatusShape ==
  /\ listing \in ListingReads /\ flight \in StatusReads
  /\ cancel \in Cancels /\ add \in Adds /\ resolve \in Resolves /\ account \in Holdings

(* How old what scout remembers, or is about to, may be: the chain a "no"  *)
(* goes through, link by link.                                             *)
Age(o) == IF o.aged THEN 1 ELSE 0
ListingNo == listing.at = "read" /\ listing.id = Missing => since <= Age(listing)
MemoNo == memo.ttl > 0 /\ memo.id = Missing => since <= 1 + (ListTTL - memo.ttl)
MissNo == miss > 0 => since <= ListTTL + (MissTTL - miss)
QueueNo == flight.at \in {"queue", "queueRead"} => since <= ListTTL + (MissTTL - 1) + Age(flight)
EntryNo == /\ flight.at = "entry" /\ flight.id # account.id => since <= Age(flight)
           /\ flight.at = "entryRead" /\ flight.saw \notin Live => since <= Age(flight)
SnapNo == snap.says = "no" => since <= ListTTL + MissTTL + (StatusTTL - snap.ttl)
NoIsRecent ==
  account.is \in Live => ListingNo /\ MemoNo /\ MissNo /\ QueueNo /\ EntryNo /\ SnapNo

FetchIsRecent ==
  account.is \notin Live =>
    /\ flight.at = "entryRead" /\ flight.saw \in Live => since <= Age(flight)
    /\ snap.says = "downloading" => since <= 1 + (StatusTTL - snap.ttl)
SaidLives == snap.says # "nothing" => snap.ttl > 0

\* Cancel has looked at the torrent, and it had not finished.
Looked == cancel.at = "delete" \/ (cancel.at = "looked" /\ cancel.saw \notin {"none", "finished"})
LookedUnfinished ==
  Looked /\ account.is = "finished" /\ account.id = cancel.id => since = 0

StatusInv ==
  /\ StatusTypeOK /\ StatusShape
  /\ NoIsRecent /\ FetchIsRecent /\ SaidLives
  /\ LookedUnfinished

(* The ids scout goes by are ids, or a mark that there is none.            *)
LEMMA Marks ==
  /\ {NoId, Missing, Unread, Ask} \intersect Ids = {}
  /\ Missing \in Listed /\ Ask \notin Listed /\ Unread \notin Listed
  BY StatusAssumption DEF NoId, Missing, Unread, Ask, Ids, Listed

LEMMA TorrentIDTyped ==
  ASSUME StatusTypeOK
  PROVE  /\ TorrentID \in Listed \union {Unread, Ask}
         /\ TorrentID = Missing => miss > 0 \/ (memo.ttl > 0 /\ memo.id = Missing)
         /\ TorrentID \in Ids => TorrentID = tid \/ (tid = NoId /\ ~(miss > 0))
         /\ TorrentID = Missing => tid = NoId
  BY StatusAssumption, Marks DEF StatusTypeOK, TorrentID, Listed, NoId, Missing, Unread, Ask

LEMMA RememberTyped ==
  ASSUME StatusTypeOK, NEW id \in Listed \union {Unread}, Remember(id) \/ RememberListed(id)
  PROVE  tid' \in {tid, id} /\ tid' \in Listed /\ miss' \in {miss, MissTTL}
         /\ (miss' # miss => id = Missing)
  BY DEF StatusTypeOK, Remember, RememberListed, Listed

LEMMA ByListingTyped ==
  ASSUME StatusTypeOK, StatusShape, NEW id \in Listed \union {Unread}, ByListing(id)
  PROVE  /\ flight' \in [at : {"idle", "queue", "entry"}, id : Listed,
                         saw : {"nothing"}, aged : BOOLEAN]
         /\ flight'.at = "entry" => id \in Ids /\ flight'.id = id
         /\ flight'.at # "idle" => flight'.aged = flight.aged
         /\ flight'.at = "queue" => id = Missing
         /\ \/ snap' = snap
            \/ flight'.at = "idle" /\ id = Missing /\ snap' = [says |-> "no", ttl |-> StatusTTL]
PROOF
  <1>1. flight.aged \in BOOLEAN /\ NoId \in Listed /\ Ids \subseteq Listed
    BY Marks DEF StatusShape, StatusReads, Listed, NoId, Missing
  <1>2. CASE id = Unread /\ End("unknown")
    BY <1>1, <1>2 DEF End, Idle, Out
  <1>3. CASE id \in Ids /\ flight' = [Out("entry") EXCEPT !.id = id, !.aged = flight.aged] /\ UNCHANGED snap
    BY <1>1, <1>3 DEF Out
  <1>4. CASE id = Missing /\ End("no")
    BY <1>1, <1>4 DEF End, Idle, Out
  <1>5. CASE id = Missing /\ flight' = [Out("queue") EXCEPT !.aged = flight.aged] /\ UNCHANGED snap
    BY <1>1, <1>5 DEF Out
  <1> QED BY <1>2, <1>3, <1>4, <1>5 DEF ByListing

LEMMA SinceTyped ==
  ASSUME since \in 0..MaxAge, NEW ticks \in {0, 1}, Since(ticks)
  PROVE  /\ since' \in 0..MaxAge
         /\ \/ since' = 0
            \/ /\ since' <= since + ticks
               /\ Kind(account') = Kind(account)
               /\ account.is \in Live <=> account'.is \in Live
               /\ ~Astray'
PROOF
  <1>1. MaxAge \in Nat \ {0}
    BY StatusAssumption
  <1>2. since' = 0 \/ (since' <= since + ticks /\ Kind(account') = Kind(account) /\ ~Astray')
    BY <1>1 DEF Since
  <1>3. since' \in 0..MaxAge
    BY <1>1 DEF Since
  <1>4. Kind(account') = Kind(account) => (account.is \in Live <=> account'.is \in Live)
    BY DEF Kind
  <1> QED BY <1>2, <1>3, <1>4

(* What is out keeps its shape. *)
LEMMA StepShape ==
  ASSUME StatusTypeOK, StatusShape, Step
  PROVE  StatusShape'
PROOF
  <1>0. NoId \in Listed /\ Ids \subseteq Listed /\ Listed \intersect {Unread, Ask} = {} /\ NoId \notin Ids
        /\ Missing = NoId /\ Listed = Ids \union {NoId}
    BY Marks DEF Listed, NoId, Missing
  <1> USE DEF StatusShape
  <1>1. CASE OtherRead
    BY <1>0, <1>1 DEF OtherRead, JoinListing, ListingReads, Out
  <1>2. CASE ListingRead
    <2>1. PICK got : listing' = [listing EXCEPT !.at = "read",
                       !.id = IF ~got.ok THEN Unread
                              ELSE IF "ours" \in got.ids THEN account.id ELSE Missing,
                       !.saw = IF got.fault THEN "fault" ELSE "nothing"]
      BY <1>2 DEF ListingRead
    <2> QED BY <1>0, <1>2, <2>1 DEF ListingRead, ListingReads, Holdings
  <1>3. CASE ListingFailed
    BY <1>0, <1>3 DEF ListingFailed, ListingReads
  <1>4. CASE ListingDone
    <2>1. listing' \in ListingReads
      BY <1>0, <1>4 DEF ListingDone, ListingReads, Idle, Out
    <2>2. listing.id \in Listed \union {Unread}
      BY DEF ListingReads
    <2>3. flight' = flight \/ ByListing(listing.id)
      BY <1>4 DEF ListingDone
    <2>4. flight' \in StatusReads
      BY <2>2, <2>3, ByListingTyped DEF StatusReads
    <2>5. cancel' \in Cancels
      <3>1. Idle \in Cancels /\ \A id \in Ids : [Out("entry") EXCEPT !.id = id] \in Cancels
        BY <1>0 DEF Cancels, Idle, Out
      <3>2. cancel' = cancel \/ CancelBy(listing.id)
        BY <1>4 DEF ListingDone
      <3> QED BY <3>1, <3>2 DEF CancelBy
    <2>6. resolve' \in Resolves
      BY <1>0, <1>4 DEF ListingDone, Resolves, Idle, Out
    <2>7. UNCHANGED <<add, account>>
      BY <1>4 DEF ListingDone
    <2> QED BY <2>1, <2>4, <2>5, <2>6, <2>7
  <1>5. CASE Evicted
    BY <1>5 DEF Evicted
  <1>6. CASE StatusStart
    <2>1. UNCHANGED <<cancel, add, resolve, account>>
      BY <1>6 DEF StatusStart
    <2>2. CASE qid # NoId /\ End("queued") /\ UNCHANGED <<tid, miss, listing>>
      BY <1>0, <2>1, <2>2 DEF End, StatusReads, Idle, Out
    <2>3. CASE qid = NoId /\ TorrentID = Ask /\ flight' = Out("listing") /\ JoinListing
      BY <1>0, <2>1, <2>3 DEF JoinListing, ListingReads, StatusReads, Out
    <2>4. CASE qid = NoId /\ TorrentID # Ask /\ ByListing(TorrentID) /\ UNCHANGED listing
      <3>1. TorrentID \in Listed \union {Unread}
        BY <2>4, TorrentIDTyped
      <3>2. flight' \in [at : {"idle", "queue", "entry"}, id : Listed, saw : {"nothing"}, aged : BOOLEAN]
        BY <2>4, <3>1, ByListingTyped
      <3> QED BY <2>1, <2>4, <3>2 DEF StatusReads
    <2> QED BY <1>6, <2>2, <2>3, <2>4 DEF StatusStart
  <1>7. CASE QueueRead
    <2>1. flight' = [flight EXCEPT !.at = "queueRead",
                              !.id = IF account.is = "queued" THEN account.id ELSE NoId]
      BY <1>7 DEF QueueRead
    <2> QED BY <1>0, <1>7, <2>1 DEF QueueRead, StatusReads, Holdings
  <1>8. CASE EntryRead
    <2>1. EntryOf(flight.id) \in Live \union {"none", "finished"}
      BY DEF EntryOf, Held
    <2> QED BY <1>0, <1>8, <2>1 DEF EntryRead, StatusReads
  <1>9. CASE QueueDone \/ QueueFailed \/ EntryDone \/ StatusFailed
    <2>1. Idle \in StatusReads
      BY <1>0 DEF StatusReads, Idle, Out
    <2>2. flight' = Idle /\ UNCHANGED <<listing, cancel, add, resolve, account>>
      BY <1>9 DEF QueueDone, QueueFailed, EntryDone, StatusFailed, End
    <2> QED BY <2>1, <2>2
  <1>10. CASE CancelStart
    <2>1. UNCHANGED <<flight, add, resolve, account>>
      BY <1>10 DEF CancelStart
    <2>2. CASE qid # NoId /\ cancel' = [Out("dequeue") EXCEPT !.id = qid] /\ UNCHANGED listing
      BY <1>0, <2>1, <2>2 DEF StatusTypeOK, Cancels, Out
    <2>3. CASE cancel' = Out("listing") /\ JoinListing
      BY <1>0, <2>1, <2>3 DEF JoinListing, ListingReads, Cancels, Out
    <2>4. CASE CancelBy(TorrentID) /\ UNCHANGED listing
      BY <1>0, <2>1, <2>4 DEF CancelBy, Cancels, Idle, Out
    <2> QED BY <1>10, <2>2, <2>3, <2>4 DEF CancelStart
  <1>11. CASE CancelDelete \/ CancelDone \/ CancelFailed
    <2>1. Idle \in Cancels /\ Nothing \in Holdings
      BY <1>0 DEF Cancels, Idle, Out, Nothing, Holdings
    <2>2. [cancel EXCEPT !.at = IF @ = "delete" THEN "deleted" ELSE "dequeued"] \in Cancels
      BY DEF Cancels
    <2> QED BY <1>11, <2>1, <2>2 DEF CancelDelete, CancelDone, CancelFailed
  <1>12. ASSUME NEW reannounce \in BOOLEAN, CancelLook \/ CancelJudge(reannounce) PROVE StatusShape'
    <2>1. EntryOf(cancel.id) \in Live \union {"none", "finished"}
      BY DEF EntryOf, Held
    <2>2. Idle \in Cancels /\ [cancel EXCEPT !.at = "delete", !.saw = "nothing"] \in Cancels
      BY <1>0 DEF Cancels, Idle, Out
    <2>3. [cancel EXCEPT !.at = "looked", !.saw = EntryOf(cancel.id)] \in Cancels
      BY <2>1 DEF Cancels
    <2>4. CASE CancelLook
      BY <2>3, <2>4 DEF CancelLook
    <2>5. CASE CancelJudge(reannounce)
      BY <2>2, <2>5 DEF CancelJudge
    <2> QED BY <1>12, <2>4, <2>5
  <1>13. CASE AddSent \/ AddAnswered \/ AddLost
    <2>1. Idle \in Adds /\ Out("sent") \in Adds
      BY <1>0 DEF Adds, Idle, Out
    <2> QED BY <1>13, <2>1 DEF AddSent, AddAnswered, AddLost
  <1>14. CASE ResolveGone \/ ResolveParked \/ ResolveLeft
    <2>1. Idle \in Resolves /\ Out("listing") \in Resolves
      BY <1>0 DEF Resolves, Idle, Out
    <2>2. Out("asked") \in ListingReads
      BY <1>0 DEF ListingReads, Out
    <2>3. CASE ResolveGone \/ ResolveLeft
      BY <2>1, <2>3 DEF ResolveGone, ResolveLeft
    <2>4. CASE ResolveParked
      <3>1. resolve' \in {resolve, Out("listing")} /\ listing' \in {listing, Out("asked")}
        BY <2>4 DEF ResolveParked, JoinListing
      <3> QED BY <2>1, <2>2, <2>4, <3>1 DEF ResolveParked
    <2> QED BY <1>14, <2>3, <2>4
  <1>15. ASSUME NEW id \in Ids, NEW is \in {"downloading", "queued", "finished", "stalled"}, AddLands(id, is)
         PROVE  StatusShape'
    <2>1. account' \in Holdings
      BY <1>0, <1>15 DEF AddLands, Live, Holdings
    <2>2. add' \in Adds
      BY <1>0, <1>15 DEF AddLands, Adds
    <2> QED BY <1>15, <2>1, <2>2 DEF AddLands
  <1>16. ASSUME NEW id \in Ids, NEW is \in {"downloading", "queued"}, ByHand(id, is) PROVE StatusShape'
    BY <1>0, <1>16 DEF ByHand, Live, Holdings
  <1>17. CASE RemovedByHand \/ Lapse
    BY <1>0, <1>17 DEF RemovedByHand, Lapse, Nothing, Holdings
  <1>18. ASSUME NEW is \in {"downloading", "stalled", "finished"}, Progress(is) PROVE StatusShape'
    BY <1>0, <1>18 DEF Progress, Live, Holdings
  <1>19. ASSUME NEW id \in Ids, Promoted(id) PROVE StatusShape'
    BY <1>0, <1>19 DEF Promoted, Live, Holdings
  <1> QED BY <1>1, <1>2, <1>3, <1>4, <1>5, <1>6, <1>7, <1>8, <1>9, <1>10, <1>11, <1>12, <1>13,
             <1>14, <1>15, <1>16, <1>17, <1>18, <1>19 DEF Step, Status, Cancel, Resolve

(* What End and forgetting leave of the snapshot. *)
LEMMA EndTyped ==
  ASSUME StatusTypeOK, SaidLives, NEW says \in {"unknown", "no", "downloading", "queued"}, End(says)
  PROVE  /\ snap' \in [says : {"nothing", "no", "downloading", "queued"}, ttl : 0..StatusTTL]
         /\ SaidLives'
         /\ flight' = Idle
         /\ snap' = snap \/ (snap'.says = says /\ snap'.ttl = StatusTTL)
PROOF
  <1>1. StatusTTL \in Nat \ {0}
    BY StatusAssumption
  <1> QED BY <1>1 DEF End, StatusTypeOK, SaidLives

LEMMA NoSnapTyped ==
  NoSnap \in [says : {"nothing", "no", "downloading", "queued"}, ttl : 0..StatusTTL]
  /\ NoSnap.says = "nothing"
  BY StatusAssumption DEF NoSnap

(* The memories keep their types. *)
MemoryTyped ==
  /\ snap \in [says : {"nothing", "no", "downloading", "queued"}, ttl : 0..StatusTTL] /\ SaidLives
  /\ tid \in Listed /\ qid \in Listed /\ miss \in 0..MissTTL /\ qmiss \in 0..MissTTL
  /\ ours \in BOOLEAN
  /\ memo \in [id : Listed, ttl : 0..ListTTL] /\ oversized \in 0..ListTTL

(* What a step writes to the memories has its type. *)
LEMMA StepMemory ==
  ASSUME StatusTypeOK, StatusShape, SaidLives, Step
  PROVE  MemoryTyped'
PROOF
  <1>0. NoId \in Listed /\ Ids \subseteq Listed /\ Listed \intersect {Unread, Ask} = {} /\ NoId \notin Ids
        /\ Missing = NoId /\ Listed = Ids \union {NoId}
    BY Marks DEF Listed, NoId, Missing
  <1>a. MissTTL \in Nat \ {0} /\ ListTTL \in Nat \ {0} /\ StatusTTL \in Nat \ {0}
    BY StatusAssumption
  <1>b. MemoryTyped
    BY DEF StatusTypeOK, MemoryTyped
  <1>c. NoMemo \in [id : Listed, ttl : 0..ListTTL]
    BY <1>0, <1>a DEF NoMemo
  <1> USE DEF MemoryTyped, memory, shared
  <1>d. ASSUME UNCHANGED <<memory, shared>> PROVE MemoryTyped'
    BY <1>b, <1>d DEF SaidLives
  <1>1. CASE OtherRead \/ ListingRead \/ ListingFailed \/ QueueRead \/ EntryRead \/ CancelLook \/ CancelDelete
             \/ CancelFailed \/ AddLost \/ ResolveLeft \/ RemovedByHand
    BY <1>1, <1>d DEF OtherRead, ListingRead, ListingFailed, QueueRead, EntryRead, CancelLook, CancelDelete,
                      CancelFailed, AddLost, ResolveLeft, RemovedByHand
  <1>2. ASSUME NEW id, NEW is, AddLands(id, is) \/ ByHand(id, is) \/ Progress(is) \/ Promoted(id) PROVE MemoryTyped'
    BY <1>2, <1>d DEF AddLands, ByHand, Progress, Promoted
  <1>3. CASE ListingDone
    <2>1. listing.id \in Listed \union {Unread} /\ listing.id # Unread => listing.id \in Listed
      BY DEF StatusShape, ListingReads
    <2>2. memo' \in [id : Listed, ttl : 0..ListTTL] /\ oversized' \in 0..ListTTL
      BY <1>3, <1>a, <1>b, <2>1 DEF ListingDone, StatusShape, ListingReads
    <2>3. tid' \in Listed /\ miss' \in 0..MissTTL
      <3>1. (tid' = tid /\ miss' = miss) \/ RememberListed(listing.id)
        BY <1>3 DEF ListingDone
      <3> QED BY <1>0, <1>a, <1>b, <2>1, <3>1 DEF RememberListed
    <2>4. snap' \in [says : {"nothing", "no", "downloading", "queued"}, ttl : 0..StatusTTL] /\ SaidLives'
      <3>1. snap' = snap \/ ByListing(listing.id)
        BY <1>3 DEF ListingDone
      <3>2. listing.id \in Listed \union {Unread}
        BY DEF StatusShape, ListingReads
      <3>3. snap' = snap \/ snap' = [says |-> "no", ttl |-> StatusTTL]
        BY <3>1, <3>2, ByListingTyped
      <3> QED BY <1>a, <1>b, <3>3 DEF SaidLives
    <2>5. UNCHANGED <<qid, qmiss, ours>>
      BY <1>3 DEF ListingDone
    <2> QED BY <1>b, <2>2, <2>3, <2>4, <2>5
  <1>4. CASE Evicted
    BY <1>4, <1>b, <1>c DEF Evicted, SaidLives
  <1>5. CASE StatusStart
    <2>1. UNCHANGED <<qid, qmiss, ours, memo, oversized>>
      BY <1>5 DEF StatusStart
    <2>2. CASE End("queued") /\ UNCHANGED <<tid, miss>>
      BY <1>b, <2>1, <2>2, EndTyped
    <2>3. CASE UNCHANGED <<snap, tid, miss>>
      BY <1>b, <2>1, <2>3 DEF SaidLives
    <2>4. CASE TorrentID # Ask /\ ByListing(TorrentID) /\ Remember(TorrentID)
      <3>1. TorrentID \in Listed \union {Unread}
        BY <2>4, TorrentIDTyped
      <3>2. snap' = snap \/ snap' = [says |-> "no", ttl |-> StatusTTL]
        BY <2>4, <3>1, ByListingTyped
      <3>3. snap' \in [says : {"nothing", "no", "downloading", "queued"}, ttl : 0..StatusTTL] /\ SaidLives'
        BY <1>a, <1>b, <3>2 DEF SaidLives
      <3>4. tid' \in Listed /\ miss' \in 0..MissTTL
        BY <1>a, <1>b, <2>4, <3>1, RememberTyped
      <3> QED BY <1>b, <2>1, <3>3, <3>4
    <2> QED BY <1>5, <2>2, <2>3, <2>4 DEF StatusStart
  <1>6. CASE QueueDone \/ QueueFailed \/ EntryDone \/ StatusFailed
    <2>1. PICK says \in {"unknown", "no", "downloading", "queued"} : End(says)
      BY <1>6 DEF QueueDone, QueueFailed, EntryDone, StatusFailed, Says
    <2>2. UNCHANGED <<tid, miss, ours, memo, oversized>>
      BY <1>6 DEF QueueDone, QueueFailed, EntryDone, StatusFailed
    <2>3. qid' \in {qid, flight.id} /\ qmiss' \in {qmiss, MissTTL}
      BY <1>6 DEF QueueDone, QueueFailed, EntryDone, StatusFailed
    <2>4. flight.id \in Listed
      BY DEF StatusShape, StatusReads
    <2> QED BY <1>a, <1>b, <2>1, <2>2, <2>3, <2>4, EndTyped
  <1>7. CASE CancelStart
    <2>1. UNCHANGED <<snap, qid, qmiss, ours, memo, oversized>>
      BY <1>7 DEF CancelStart
    <2>2. (tid' = tid /\ miss' = miss) \/ (TorrentID # Ask /\ Remember(TorrentID))
      BY <1>7 DEF CancelStart
    <2>3. tid' \in Listed /\ miss' \in 0..MissTTL
      BY <1>a, <1>b, <2>2, TorrentIDTyped, RememberTyped
    <2> QED BY <1>b, <2>1, <2>3 DEF SaidLives
  <1>8. ASSUME NEW reannounce \in BOOLEAN, CancelJudge(reannounce) PROVE MemoryTyped'
    BY <1>8, <1>0, <1>b, NoSnapTyped DEF CancelJudge, ForgetTorrentID, SaidLives
  <1>9. CASE CancelDone
    BY <1>9, <1>0, <1>b, NoSnapTyped DEF CancelDone, ForgetTorrentID, SaidLives
  <1>10. CASE AddSent
    BY <1>10, <1>a, <1>b DEF AddSent, SaidLives
  <1>11. CASE AddAnswered
    <2>1. add.id \in Listed
      BY DEF StatusShape, Adds
    <2> QED BY <1>11, <1>b, <2>1, NoSnapTyped DEF AddAnswered, SaidLives
  <1>12. CASE ResolveGone
    BY <1>12, <1>0, <1>b, NoSnapTyped DEF ResolveGone, ForgetTorrentID, SaidLives
  <1>13. CASE ResolveParked
    <2>1. (tid' = tid /\ miss' = miss) \/ (TorrentID # Ask /\ Remember(TorrentID))
      BY <1>13 DEF ResolveParked
    <2>2. tid' \in Listed /\ miss' \in 0..MissTTL
      BY <1>a, <1>b, <2>1, TorrentIDTyped, RememberTyped
    <2>3. qid' \in {qid, NoId} /\ snap' \in {snap, NoSnap}
      BY <1>13 DEF ResolveParked
    <2>4. SaidLives'
      BY <1>b, <2>3, NoSnapTyped DEF SaidLives
    <2>5. UNCHANGED <<qmiss, ours, memo, oversized>>
      BY <1>13 DEF ResolveParked
    <2> QED BY <1>0, <1>b, <2>2, <2>3, <2>4, <2>5, NoSnapTyped
  <1>14. CASE Lapse
    BY <1>14, <1>0, <1>b DEF Lapse, SaidLives
  <1> QED BY <1>1, <1>2, <1>3, <1>4, <1>5, <1>6, <1>7, <1>8, <1>9, <1>10, <1>11, <1>12, <1>13,
             <1>14 DEF Step, Status, Cancel, Resolve

LEMMA TypesOfShape ==
  StatusShape /\ MemoryTyped /\ since \in 0..MaxAge => StatusTypeOK /\ SaidLives
PROOF
  <1> SUFFICES ASSUME StatusShape, MemoryTyped, since \in 0..MaxAge PROVE StatusTypeOK /\ SaidLives
    OBVIOUS
  <1>1. \A o \in {listing, flight, cancel, add, resolve} : o.id \in Listed \union {Unread} /\ o.aged \in BOOLEAN
    BY DEF StatusShape, ListingReads, StatusReads, Cancels, Adds, Resolves
  <1>2. account.id \in Listed
    BY DEF StatusShape, Holdings
  <1> QED BY <1>1, <1>2 DEF StatusTypeOK, MemoryTyped

LEMMA TypesOfShapeNext ==
  StatusShape' /\ MemoryTyped' /\ since' \in 0..MaxAge => StatusTypeOK' /\ SaidLives'
PROOF
  <1>1. StatusShape /\ MemoryTyped /\ since \in 0..MaxAge => StatusTypeOK /\ SaidLives
    BY TypesOfShape
  <1>2. (StatusShape /\ MemoryTyped /\ since \in 0..MaxAge => StatusTypeOK /\ SaidLives)'
    BY <1>1, PTL
  <1> QED BY <1>2

(* The clock. *)
LEMMA TickShape ==
  ASSUME StatusTypeOK, StatusShape, SaidLives, StatusTick
  PROVE  StatusShape' /\ MemoryTyped'
PROOF
  <1>1. StatusShape'
    BY DEF StatusTick, StatusShape, Older, ListingReads, StatusReads
  <1>2. snap' \in [says : {"nothing", "no", "downloading", "queued"}, ttl : 0..StatusTTL] /\ SaidLives'
    BY NoSnapTyped, StatusAssumption DEF StatusTick, StatusTypeOK, SaidLives
  <1>3. memo' \in [id : Listed, ttl : 0..ListTTL]
    BY StatusAssumption, Marks DEF StatusTick, StatusTypeOK, NoMemo
  <1>4. miss' \in 0..MissTTL /\ qmiss' \in 0..MissTTL /\ oversized' \in 0..ListTTL
    BY StatusAssumption DEF StatusTick, StatusTypeOK, Ticked
  <1>5. UNCHANGED <<tid, qid, ours>>
    BY DEF StatusTick
  <1> QED BY <1>1, <1>2, <1>3, <1>4, <1>5 DEF MemoryTyped, StatusTypeOK

(* At the start of the history every link holds. *)
LEMMA FreshIsRecent ==
  StatusShape /\ MemoryTyped /\ since = 0 => NoIsRecent /\ FetchIsRecent /\ LookedUnfinished
PROOF
  <1> SUFFICES ASSUME StatusShape, MemoryTyped, since = 0
               PROVE  NoIsRecent /\ FetchIsRecent /\ LookedUnfinished
    OBVIOUS
  <1>1. MissTTL \in Nat \ {0} /\ ListTTL \in Nat \ {0} /\ StatusTTL \in Nat \ {0}
    BY StatusAssumption
  <1>2. memo.ttl \in 0..ListTTL /\ miss \in 0..MissTTL /\ snap.ttl \in 0..StatusTTL
    BY DEF MemoryTyped
  <1>3. Age(listing) \in {0, 1} /\ Age(flight) \in {0, 1}
    BY DEF Age
  <1>4. ListingNo /\ MemoNo /\ MissNo
    BY <1>1, <1>2, <1>3 DEF ListingNo, MemoNo, MissNo
  <1>5. QueueNo /\ EntryNo /\ SnapNo
    BY <1>1, <1>2, <1>3 DEF QueueNo, EntryNo, SnapNo
  <1>6. FetchIsRecent
    BY <1>1, <1>2, <1>3 DEF FetchIsRecent
  <1> QED BY <1>4, <1>5, <1>6 DEF NoIsRecent, LookedUnfinished

LEMMA FreshIsRecentNext ==
  StatusShape' /\ MemoryTyped' /\ since' = 0 => NoIsRecent' /\ FetchIsRecent' /\ LookedUnfinished'
PROOF
  <1>1. StatusShape /\ MemoryTyped /\ since = 0 => NoIsRecent /\ FetchIsRecent /\ LookedUnfinished
    BY FreshIsRecent
  <1>2. (StatusShape /\ MemoryTyped /\ since = 0 => NoIsRecent /\ FetchIsRecent /\ LookedUnfinished)'
    BY <1>1, PTL
  <1> QED BY <1>2

(* What nothing touches is no older by the count than it was. *)
LEMMA LinksLast ==
  ASSUME StatusShape, MemoryTyped, since \in Nat, since' \in Nat, since' <= since
  PROVE  /\ UNCHANGED listing /\ ListingNo => ListingNo'
         /\ UNCHANGED memo /\ MemoNo => MemoNo'
         /\ UNCHANGED miss /\ MissNo => MissNo'
         /\ UNCHANGED flight /\ QueueNo => QueueNo'
         /\ UNCHANGED <<flight, account>> /\ EntryNo => EntryNo'
         /\ UNCHANGED snap /\ SnapNo => SnapNo'
PROOF
  <1>1. MissTTL \in Nat \ {0} /\ ListTTL \in Nat \ {0} /\ StatusTTL \in Nat \ {0}
    BY StatusAssumption
  <1>2. memo.ttl \in 0..ListTTL /\ miss \in 0..MissTTL /\ snap.ttl \in 0..StatusTTL
    BY DEF MemoryTyped
  <1>3. Age(listing) \in {0, 1} /\ Age(flight) \in {0, 1}
    BY DEF Age
  <1>4. UNCHANGED listing => Age(listing)' = Age(listing)
    BY DEF Age
  <1>6. UNCHANGED listing /\ ListingNo => ListingNo'
    BY <1>3, <1>4 DEF ListingNo
  <1>7. UNCHANGED memo /\ MemoNo => MemoNo'
    BY <1>1, <1>2 DEF MemoNo
  <1>8. UNCHANGED miss /\ MissNo => MissNo'
    BY <1>1, <1>2 DEF MissNo
  <1>9. UNCHANGED flight /\ QueueNo => QueueNo'
    BY <1>1 DEF QueueNo, Age
  <1>10. UNCHANGED <<flight, account>> /\ EntryNo => EntryNo'
    BY DEF EntryNo, Age
  <1>11. UNCHANGED snap /\ SnapNo => SnapNo'
    BY <1>1, <1>2 DEF SnapNo
  <1> QED BY <1>6, <1>7, <1>8, <1>9, <1>10, <1>11

(* A read that finds the release gone is as old as the evidence it goes by. *)
LEMMA ByListingRecent ==
  ASSUME StatusShape, StatusTypeOK, NEW id \in Listed \union {Unread}, ByListing(id),
         since \in Nat, since' \in Nat, since' <= since,
         id = Missing => since <= ListTTL + (MissTTL - 1),
         id \in Ids => tid' = id, account'.is \in Live, ~Astray'
  PROVE  QueueNo' /\ EntryNo' /\ (SnapNo => SnapNo')
PROOF
  <1>1. MissTTL \in Nat \ {0} /\ ListTTL \in Nat \ {0} /\ StatusTTL \in Nat \ {0} /\ snap.ttl \in 0..StatusTTL
    BY StatusAssumption DEF StatusTypeOK
  <1>2. /\ flight' \in [at : {"idle", "queue", "entry"}, id : Listed,
                         saw : {"nothing"}, aged : BOOLEAN]
        /\ flight'.at = "entry" => id \in Ids /\ flight'.id = id
        /\ flight'.at = "queue" => id = Missing
        /\ \/ snap' = snap
           \/ id = Missing /\ snap' = [says |-> "no", ttl |-> StatusTTL]
    BY ByListingTyped
  <1>4. QueueNo'
    BY <1>1, <1>2 DEF QueueNo, Age
  <1>5. flight'.at = "entry" => flight'.id = account'.id
    <2>1. tid' \in {NoId, account'.id}
      BY DEF Astray
    <2> QED BY <1>2, <2>1, Marks
  <1>6. EntryNo'
    BY <1>2, <1>5 DEF EntryNo
  <1>7. SnapNo => SnapNo'
    BY <1>1, <1>2 DEF SnapNo
  <1> QED BY <1>4, <1>6, <1>7

(* Every memory is at hand when it answers, and the id it gives is kept. *)
LEMMA TorrentIDRecent ==
  ASSUME StatusShape, StatusTypeOK, SaidLives, since \in Nat, MemoNo, MissNo
  PROVE  /\ TorrentID = Missing => since <= ListTTL + (MissTTL - 1)
         /\ TorrentID = Missing /\ Remember(TorrentID) => miss' = miss \/ (miss' = MissTTL /\ since <= ListTTL)
         /\ TorrentID \in Ids /\ Remember(TorrentID) => tid' = TorrentID /\ miss' = miss
PROOF
  <1>1. MissTTL \in Nat \ {0} /\ ListTTL \in Nat \ {0}
    BY StatusAssumption
  <1>2. memo.ttl \in 0..ListTTL /\ miss \in 0..MissTTL
    BY DEF StatusTypeOK
  <1>3. TorrentID = Missing => miss > 0 \/ (memo.ttl > 0 /\ memo.id = Missing)
    BY TorrentIDTyped
  <1>4. TorrentID = Missing => since <= ListTTL + (MissTTL - 1)
    BY <1>1, <1>2, <1>3 DEF MemoNo, MissNo
  <1>5. TorrentID = Missing /\ Remember(TorrentID) => miss' = miss \/ (miss' = MissTTL /\ since <= ListTTL)
    <2> SUFFICES ASSUME TorrentID = Missing, Remember(TorrentID), miss' # miss
                 PROVE  miss' = MissTTL /\ since <= ListTTL
      OBVIOUS
    <2>1. tid = NoId /\ ~(miss > 0) /\ miss' = MissTTL
      BY DEF Remember, RememberListed
    <2>2. since <= 1 + (ListTTL - memo.ttl) /\ memo.ttl > 0
      BY <1>3, <2>1 DEF MemoNo
    <2> QED BY <1>1, <1>2, <2>1, <2>2
  <1>6. TorrentID \in Ids /\ Remember(TorrentID) => tid' = TorrentID /\ miss' = miss
    <2> SUFFICES ASSUME TorrentID \in Ids, Remember(TorrentID) PROVE tid' = TorrentID /\ miss' = miss
      OBVIOUS
    <2>1. TorrentID = tid \/ (tid = NoId /\ ~(miss > 0))
      BY TorrentIDTyped
    <2>2. tid \in Ids => tid # NoId
      BY Marks
    <2>3. CASE TorrentID = tid
      BY <2>2, <2>3 DEF Remember
    <2>4. CASE tid = NoId /\ ~(miss > 0)
      BY <2>4, Marks DEF Remember, RememberListed
    <2> QED BY <2>1, <2>3, <2>4
  <1> QED BY <1>4, <1>5, <1>6

(* A listing that was read to its end names what the account holds.        *)
LEMMA DataOk ==
  ASSUME NEW entries, NEW closed, DecodeData(entries, closed).ok
  PROVE  /\ \A i \in 1..Len(entries) : entries[i] = "odd" => ~(i <= Limit + 1)
         /\ ~(Len(entries) > Limit)
         /\ ~(Len(entries) > 0 /\ {entries[i] : i \in 1..Len(entries)} \intersect {"ours", "other"} = {})
         /\ DecodeData(entries, closed).ids
              = {entries[i] : i \in 1..Len(entries)} \intersect {"ours", "other"}
  BY DEF DecodeData, Transient, Persistent

(* A body that is accepted is whole and has one array of data. *)
LEMMA ListingOk ==
  ASSUME NEW body, DecodeListing(body).ok
  PROVE  LET data == {i \in DOMAIN body.fields : body.fields[i].key = "data"}
         IN /\ ~body.cut
            /\ \A i \in DOMAIN body.fields : body.fields[i].key # "failed"
            /\ \E i \in data : /\ data = {i} /\ body.fields[i].array
                               /\ \E closed : DecodeListing(body) = DecodeData(body.fields[i].entries, closed)
PROOF
  <1> DEFINE data == {i \in DOMAIN body.fields : body.fields[i].key = "data"}
             field == body.fields[CHOOSE i \in data : TRUE]
             success == \A i \in DOMAIN body.fields : body.fields[i].key # "failed"
             inData == body.cut /\ Len(body.fields) \in data
             first == DecodeData(field.entries, ~inData)
             second == DecodeData(field.entries, TRUE)
  <1>1. DecodeListing(body) =
          IF \E i, j \in data : i # j THEN Transient
          ELSE IF data # {} /\ field.array /\ first \in {Transient, Persistent} THEN first
          ELSE IF body.cut THEN Transient
          ELSE IF data = {} \/ ~field.array \/ ~success THEN Persistent
          ELSE second
    BY DEF DecodeListing
  <1> HIDE DEF field, success, first, second, inData
  <1>2. ~Transient.ok /\ ~Persistent.ok
    BY DEF Transient, Persistent
  <1>3. /\ ~\E i, j \in data : i # j
        /\ ~body.cut /\ data # {} /\ field.array /\ success
        /\ DecodeListing(body) = second
    BY <1>1, <1>2
  <1>4. PICK i \in data : data = {i}
    BY <1>3
  <1>5. (CHOOSE j \in data : TRUE) = i
    BY <1>4
  <1> QED BY <1>3, <1>4, <1>5 DEF field, success, second

(* The listing of one field that is data. *)
LEMMA WholeOk ==
  ASSUME NEW entries, NEW body, body.fields = Whole(entries), DecodeListing(body).ok
  PROVE  /\ \A i \in 1..Len(entries) : entries[i] = "odd" => ~(i <= Limit + 1)
         /\ ~(Len(entries) > Limit)
         /\ ~(Len(entries) > 0 /\ {entries[i] : i \in 1..Len(entries)} \intersect {"ours", "other"} = {})
         /\ DecodeListing(body).ids
              = {entries[i] : i \in 1..Len(entries)} \intersect {"ours", "other"}
PROOF
  <1>1. /\ DOMAIN body.fields = {1, 2}
        /\ body.fields[1].key = "success" /\ body.fields[2].key = "data"
        /\ body.fields[2].entries = entries
    BY DEF Whole, Field
  <1>2. PICK d \in DOMAIN body.fields :
          /\ body.fields[d].key = "data"
          /\ \E closed : DecodeListing(body) = DecodeData(body.fields[d].entries, closed)
    BY ListingOk
  <1>3. d = 2
    BY <1>1, <1>2
  <1>4. PICK closed : DecodeListing(body) = DecodeData(entries, closed)
    BY <1>1, <1>2, <1>3
  <1>5. DecodeListing(body).ids = DecodeData(entries, closed).ids /\ DecodeData(entries, closed).ok
    BY <1>4
  <1>6. /\ \A i \in 1..Len(entries) : entries[i] = "odd" => ~(i <= Limit + 1)
        /\ ~(Len(entries) > Limit)
        /\ ~(Len(entries) > 0 /\ {entries[i] : i \in 1..Len(entries)} \intersect {"ours", "other"} = {})
        /\ DecodeData(entries, closed).ids
             = {entries[i] : i \in 1..Len(entries)} \intersect {"ours", "other"}
    BY <1>5, DataOk
  <1> QED BY <1>5, <1>6

(* Of what TorBox may send, an accepted body lists what the account holds. *)
LEMMA HeldIsListed ==
  ASSUME NEW a, Held(a), NEW body \in Bodies(a), DecodeListing(body).ok
  PROVE  "ours" \in DecodeListing(body).ids
PROOF
  <1> USE StatusAssumption
  <1>1. ~body.cut /\ \A i \in DOMAIN body.fields : body.fields[i].key # "failed"
    BY ListingOk
  <1>2. PICK d \in DOMAIN body.fields :
          /\ {i \in DOMAIN body.fields : body.fields[i].key = "data"} = {d}
          /\ body.fields[d].array
    BY ListingOk
  <1>3. \/ body.fields \in {Whole(<<"other", "ours">>), Whole(<<"ours">>)}
        \/ body.fields = Whole(<<"blank">>)
        \/ body.fields = Whole(<<"other", "odd">>)
        \/ body.fields = <<Field("other", <<>>)>>
        \/ body.fields = <<Null>>
        \/ body.fields = <<Null, Field("data", <<>>)>>
        \/ body.fields = <<Field("failed", <<>>), Field("data", <<>>)>>
        \/ body.fields = Whole([i \in 1..Limit + 1 |-> "blank"])
    BY <1>1 DEF Bodies, Entries
  <1>4. CASE body.fields = Whole(<<"other", "ours">>)
    <2>1. /\ DecodeListing(body).ids
              = {<<"other", "ours">>[i] : i \in 1..Len(<<"other", "ours">>)} \intersect {"ours", "other"}
      BY <1>4, WholeOk
    <2>2. 2 \in 1..Len(<<"other", "ours">>) /\ <<"other", "ours">>[2] = "ours"
      OBVIOUS
    <2> QED BY <2>1, <2>2
  <1>5. CASE body.fields = Whole(<<"ours">>)
    <2>1. /\ DecodeListing(body).ids = {<<"ours">>[i] : i \in 1..Len(<<"ours">>)} \intersect {"ours", "other"}
      BY <1>5, WholeOk
    <2>2. 1 \in 1..Len(<<"ours">>) /\ <<"ours">>[1] = "ours"
      OBVIOUS
    <2> QED BY <2>1, <2>2
  <1>6. body.fields # Whole(<<"blank">>)
    <2> SUFFICES ASSUME body.fields = Whole(<<"blank">>) PROVE FALSE
      OBVIOUS
    <2>1. Len(<<"blank">>) = 1 /\ <<"blank">>[1] = "blank"
      OBVIOUS
    <2>2. ~(Len(<<"blank">>) > 0
              /\ {<<"blank">>[i] : i \in 1..Len(<<"blank">>)} \intersect {"ours", "other"} = {})
      BY WholeOk
    <2>3. {<<"blank">>[i] : i \in 1..Len(<<"blank">>)} \intersect {"ours", "other"} = {}
      BY <2>1
    <2> QED BY <2>1, <2>2, <2>3
  <1>7. body.fields # Whole(<<"other", "odd">>)
    <2>1. Len(<<"other", "odd">>) = 2 /\ <<"other", "odd">>[2] = "odd"
      OBVIOUS
    <2>2. 2 \in 1..2 /\ 2 <= Limit + 1
      OBVIOUS
    <2> QED BY <2>1, <2>2, WholeOk
  <1>8. body.fields # <<Field("other", <<>>)>>
    BY <1>2 DEF Field
  <1>9. body.fields # <<Null>>
    BY <1>2 DEF Null
  <1>10. body.fields # <<Null, Field("data", <<>>)>>
    <2> SUFFICES ASSUME body.fields = <<Null, Field("data", <<>>)>> PROVE FALSE
      OBVIOUS
    <2>1. DOMAIN body.fields = {1, 2} /\ body.fields[1].key = "data" /\ body.fields[2].key = "data"
      BY DEF Null, Field
    <2>2. {1, 2} \subseteq {d}
      BY <1>2, <2>1
    <2> QED BY <2>2
  <1>11. body.fields # <<Field("failed", <<>>), Field("data", <<>>)>>
    BY <1>1 DEF Field
  <1>12. body.fields # Whole([i \in 1..Limit + 1 |-> "blank"])
    <2>1. Len([i \in 1..Limit + 1 |-> "blank"]) = Limit + 1
      OBVIOUS
    <2> QED BY <2>1, WholeOk
  <1> QED BY <1>3, <1>4, <1>5, <1>6, <1>7, <1>8, <1>9, <1>10, <1>11, <1>12

(* A release TorBox fetches is not lost sight of: every step leaves each   *)
(* link of the chain as recent as it says.                                 *)
LEMMA StepNoIsRecent ==
  ASSUME StatusInv, Step, account.is \in Live, account'.is \in Live, since' \in Nat, since' <= since, ~Astray'
  PROVE  NoIsRecent'
PROOF
  <1>0. /\ StatusShape /\ StatusTypeOK /\ SaidLives /\ MemoryTyped /\ since \in Nat
        /\ ListingNo /\ MemoNo /\ MissNo /\ QueueNo /\ EntryNo /\ SnapNo
    BY StatusAssumption DEF StatusInv, NoIsRecent, StatusTypeOK, MemoryTyped
  <1>1. MissTTL \in Nat \ {0} /\ ListTTL \in Nat \ {0} /\ StatusTTL \in Nat \ {0}
    BY StatusAssumption
  <1>2. memo.ttl \in 0..ListTTL /\ miss \in 0..MissTTL /\ snap.ttl \in 0..StatusTTL
    BY <1>0 DEF MemoryTyped
  <1>3. account.id \in Ids /\ Held(account)
    BY <1>0 DEF StatusShape, Holdings, Held, Live
  <1>4. /\ UNCHANGED listing => ListingNo'
        /\ UNCHANGED memo => MemoNo'
        /\ UNCHANGED miss => MissNo'
        /\ UNCHANGED flight => QueueNo'
        /\ UNCHANGED <<flight, account>> => EntryNo'
        /\ UNCHANGED snap => SnapNo'
    BY <1>0, LinksLast
  <1>5. NoSnap.says # "no" /\ Idle.at = "idle"
    BY DEF NoSnap, Idle, Out
  <1>6. flight' = Idle => QueueNo' /\ EntryNo'
    BY <1>5 DEF QueueNo, EntryNo
  <1>7. snap' = NoSnap => SnapNo'
    BY <1>5 DEF SnapNo
  <1> USE DEF NoIsRecent, memory, shared
  <1>10. CASE OtherRead
    <2>1. ListingNo'
      BY <1>0, <1>4, <1>10 DEF OtherRead, JoinListing, Out, ListingNo
    <2> QED BY <1>4, <1>10, <2>1 DEF OtherRead
  <1>11. CASE ListingRead
    <2>1. PICK got \in {DecodeListing(body) : body \in Bodies(account)} :
            listing' = [listing EXCEPT !.at = "read",
                     !.id = IF ~got.ok THEN Unread
                            ELSE IF "ours" \in got.ids THEN account.id ELSE Missing,
                     !.saw = IF got.fault THEN "fault" ELSE "nothing"]
      BY <1>11 DEF ListingRead
    <2>2. ~got.ok \/ "ours" \in got.ids
      <3>1. PICK body \in Bodies(account) : got = DecodeListing(body)
        OBVIOUS
      <3> QED BY <1>3, <3>1, HeldIsListed
    <2>3. listing'.id \in {Unread, account.id}
      BY <1>0, <2>1, <2>2 DEF StatusShape, ListingReads
    <2>4. listing'.id # Missing
      BY <1>3, <2>3, Marks DEF Missing, Unread
    <2>5. ListingNo'
      BY <2>4 DEF ListingNo
    <2> QED BY <1>4, <1>11, <2>5 DEF ListingRead
  <1>12. CASE ListingFailed
    <2>1. listing'.id = Unread
      BY <1>0, <1>12 DEF ListingFailed, StatusShape, ListingReads
    <2>2. ListingNo'
      BY <2>1 DEF ListingNo, Missing, Unread
    <2> QED BY <1>4, <1>12, <2>2 DEF ListingFailed
  <1>13. CASE ListingDone
    <2>1. listing.at = "read" /\ listing.id \in Listed \union {Unread} /\ Age(listing) \in {0, 1}
      BY <1>0, <1>13 DEF ListingDone, StatusShape, ListingReads, Age
    <2>2. listing.id = Missing => since <= 1
      BY <1>0, <2>1 DEF ListingNo
    <2>3. ListingNo'
      BY <1>5, <1>13 DEF ListingDone, ListingNo
    <2>4. MemoNo'
      <3>1. memo' = memo \/ memo' = [id |-> listing.id, ttl |-> ListTTL]
        BY <1>13 DEF ListingDone
      <3> QED BY <1>0, <1>1, <1>4, <2>2, <3>1 DEF MemoNo
    <2>5. MissNo'
      <3>1. miss' = miss \/ (listing.id = Missing /\ miss' = MissTTL)
        BY <1>13 DEF ListingDone, RememberListed
      <3> QED BY <1>0, <1>1, <1>4, <2>2, <3>1 DEF MissNo
    <2>6. QueueNo' /\ EntryNo' /\ SnapNo'
      <3>1. CASE flight.at = "listing"
        <4>1. ByListing(listing.id) /\ RememberListed(listing.id)
          BY <1>13, <3>1 DEF ListingDone
        <4>2. listing.id \in Ids => tid' = listing.id
          BY <4>1 DEF RememberListed
        <4>3. listing.id = Missing => since <= ListTTL + (MissTTL - 1)
          BY <1>0, <1>1, <2>2
        <4> QED BY <1>0, <2>1, <4>1, <4>2, <4>3, ByListingRecent
      <3>2. CASE flight.at # "listing"
        BY <1>4, <1>13, <3>2 DEF ListingDone
      <3> QED BY <3>1, <3>2
    <2> QED BY <2>3, <2>4, <2>5, <2>6
  <1>14. CASE Evicted
    <2>1. MemoNo'
      BY <1>14 DEF Evicted, NoMemo, MemoNo
    <2> QED BY <1>4, <1>14, <2>1 DEF Evicted
  <1>15. CASE StatusStart
    <2>0. UNCHANGED <<memo, account>>
      BY <1>15 DEF StatusStart
    <2>1. CASE End("queued") /\ UNCHANGED <<tid, miss, listing>>
      <3>1. flight' = Idle /\ snap'.says # "no"
        BY <2>1 DEF End
      <3>2. SnapNo'
        BY <3>1 DEF SnapNo
      <3> QED BY <1>4, <1>6, <2>0, <2>1, <3>1, <3>2
    <2>2. CASE flight' = Out("listing") /\ JoinListing /\ UNCHANGED <<snap, tid, miss>>
      <3>1. ListingNo'
        BY <1>4, <2>2 DEF JoinListing, Out, ListingNo
      <3>2. QueueNo' /\ EntryNo'
        BY <2>2 DEF Out, QueueNo, EntryNo
      <3> QED BY <1>4, <2>0, <2>2, <3>1, <3>2
    <2>3. CASE TorrentID # Ask /\ ByListing(TorrentID) /\ Remember(TorrentID) /\ UNCHANGED listing
      <3>1. TorrentID \in Listed \union {Unread}
        BY <1>0, <2>3, TorrentIDTyped
      <3>2. /\ TorrentID = Missing => since <= ListTTL + (MissTTL - 1)
            /\ TorrentID \in Ids => tid' = TorrentID
            /\ miss' = miss \/ (miss' = MissTTL /\ since <= ListTTL)
        BY <1>0, <2>3, <3>1, TorrentIDRecent, RememberTyped
      <3>3. MissNo'
        BY <1>0, <1>1, <1>4, <3>2 DEF MissNo
      <3>4. QueueNo' /\ EntryNo' /\ SnapNo'
        BY <1>0, <2>3, <3>1, <3>2, ByListingRecent
      <3> QED BY <1>4, <2>0, <2>3, <3>3, <3>4
    <2> QED BY <1>15, <2>1, <2>2, <2>3 DEF StatusStart
  <1>16. CASE QueueRead
    <2>1. flight'.at = "queueRead" /\ flight'.aged = flight.aged /\ flight.at = "queue"
      BY <1>0, <1>16 DEF QueueRead, StatusShape, StatusReads
    <2>2. QueueNo' /\ EntryNo'
      BY <1>0, <1>1, <2>1 DEF QueueNo, EntryNo, Age
    <2> QED BY <1>4, <1>16, <2>2 DEF QueueRead
  <1>17. CASE EntryRead
    <2>1. /\ flight'.at = "entryRead" /\ flight'.aged = flight.aged /\ flight.at = "entry"
          /\ flight'.saw = EntryOf(flight.id)
      BY <1>0, <1>17 DEF EntryRead, StatusShape, StatusReads
    <2>2. flight'.saw \notin Live => flight.id # account.id
      BY <1>3, <2>1 DEF EntryOf
    <2>3. QueueNo' /\ EntryNo'
      BY <1>0, <2>1, <2>2 DEF QueueNo, EntryNo, Age
    <2> QED BY <1>4, <1>17, <2>3 DEF EntryRead
  <1>18. CASE QueueDone \/ QueueFailed
    <2>1. /\ flight' = Idle
          /\ \/ snap' = [says |-> "no", ttl |-> StatusTTL]
             \/ snap' = [says |-> "queued", ttl |-> StatusTTL]
          /\ UNCHANGED <<listing, memo, miss>> /\ flight.at \in {"queue", "queueRead"}
      BY <1>18 DEF QueueDone, QueueFailed, End
    <2>2. since <= ListTTL + MissTTL
      BY <1>0, <1>1, <2>1 DEF QueueNo, Age
    <2>3. SnapNo'
      BY <1>0, <1>1, <2>1, <2>2 DEF SnapNo
    <2> QED BY <1>4, <1>6, <2>1, <2>3
  <1>19. CASE EntryDone
    <2>1. flight' = Idle /\ snap' = [says |-> Says(flight.saw), ttl |-> StatusTTL]
          /\ UNCHANGED <<listing, memo, miss>> /\ flight.at = "entryRead"
      BY <1>19 DEF EntryDone, End, Says
    <2>2. Says(flight.saw) = "no" => since <= 1
      BY <1>0, <2>1 DEF EntryNo, Age, Says
    <2>3. SnapNo'
      BY <1>0, <1>1, <2>1, <2>2 DEF SnapNo
    <2> QED BY <1>4, <1>6, <2>1, <2>3
  <1>20. CASE StatusFailed
    BY <1>4, <1>6, <1>20 DEF StatusFailed, End
  <1>21. CASE CancelStart
    <2>0. UNCHANGED <<memo, account, flight, snap>>
      BY <1>21 DEF CancelStart
    <2>1. ListingNo'
      <3>1. UNCHANGED listing \/ JoinListing
        BY <1>21 DEF CancelStart
      <3> QED BY <1>4, <3>1 DEF JoinListing, Out, ListingNo
    <2>2. MissNo'
      <3>1. miss' = miss \/ (TorrentID # Ask /\ Remember(TorrentID))
        BY <1>21 DEF CancelStart
      <3>2. miss' = miss \/ (miss' = MissTTL /\ since <= ListTTL)
        BY <1>0, <3>1, TorrentIDTyped, TorrentIDRecent, RememberTyped
      <3> QED BY <1>0, <1>1, <1>4, <3>2 DEF MissNo
    <2> QED BY <1>4, <2>0, <2>1, <2>2
  <1>22. ASSUME NEW reannounce \in BOOLEAN, CancelLook \/ CancelJudge(reannounce) PROVE NoIsRecent'
    BY <1>4, <1>7, <1>22 DEF CancelLook, CancelJudge, ForgetTorrentID
  <1>23. CASE CancelDelete \/ CancelDone \/ CancelFailed
    <2>1. CASE CancelDelete
      BY <2>1 DEF CancelDelete, Nothing, Live
    <2>2. CASE CancelDone \/ CancelFailed
      BY <1>4, <1>7, <2>2 DEF CancelDone, CancelFailed, ForgetTorrentID
    <2> QED BY <1>23, <2>1, <2>2
  <1>24. CASE AddSent
    <2>1. MissNo'
      BY <1>24 DEF AddSent, MissNo
    <2> QED BY <1>4, <1>24, <2>1 DEF AddSent
  <1>25. CASE AddAnswered \/ AddLost \/ ResolveLeft
    BY <1>4, <1>7, <1>25 DEF AddAnswered, AddLost, ResolveLeft
  <1>26. CASE ResolveGone
    BY <1>4, <1>7, <1>26 DEF ResolveGone, ForgetTorrentID
  <1>27. CASE ResolveParked
    <2>0. UNCHANGED <<memo, account, flight>> /\ snap' \in {snap, NoSnap}
      BY <1>27 DEF ResolveParked
    <2>1. ListingNo'
      <3>1. UNCHANGED listing \/ JoinListing
        BY <1>27 DEF ResolveParked
      <3> QED BY <1>4, <3>1 DEF JoinListing, Out, ListingNo
    <2>2. MissNo'
      <3>1. miss' = miss \/ (TorrentID # Ask /\ Remember(TorrentID))
        BY <1>27 DEF ResolveParked
      <3>2. miss' = miss \/ (miss' = MissTTL /\ since <= ListTTL)
        BY <1>0, <3>1, TorrentIDTyped, TorrentIDRecent, RememberTyped
      <3> QED BY <1>0, <1>1, <1>4, <3>2 DEF MissNo
    <2> QED BY <1>4, <1>7, <2>0, <2>1, <2>2
  <1>28. ASSUME NEW id \in Ids, NEW is, AddLands(id, is) PROVE NoIsRecent'
    <2>1. account' = account
      BY <1>28 DEF AddLands, Live
    <2> QED BY <1>4, <1>28, <2>1 DEF AddLands
  <1>29. ASSUME NEW id \in Ids, NEW is, ByHand(id, is) \/ Promoted(id) PROVE NoIsRecent'
    BY <1>29 DEF ByHand, Promoted, Live
  <1>30. CASE RemovedByHand
    BY <1>30 DEF RemovedByHand, Nothing, Live
  <1>31. CASE Lapse
    BY <1>4, <1>31 DEF Lapse
  <1>32. ASSUME NEW is \in {"downloading", "stalled", "finished"}, Progress(is) PROVE NoIsRecent'
    <2>1. account'.id = account.id /\ UNCHANGED <<memory, shared, listing, flight>>
      BY <1>0, <1>32 DEF Progress, StatusShape, Holdings
    <2>2. EntryNo'
      BY <1>0, <2>1 DEF EntryNo, Age
    <2> QED BY <1>4, <2>1, <2>2
  <1> QED BY <1>10, <1>11, <1>12, <1>13, <1>14, <1>15, <1>16, <1>17, <1>18, <1>19, <1>20, <1>21, <1>22,
             <1>23, <1>24, <1>25, <1>26, <1>27, <1>28, <1>29, <1>30, <1>31, <1>32 DEF Step, Status, Cancel, Resolve

(* Nor is what was said of a fetch that is over. *)
LEMMA StepFetchIsRecent ==
  ASSUME StatusInv, Step, account.is \notin Live, account'.is \notin Live, since' \in Nat, since' <= since
  PROVE  FetchIsRecent'
PROOF
  <1>0. StatusShape /\ SaidLives /\ FetchIsRecent /\ since \in Nat
    BY StatusAssumption DEF StatusInv, StatusTypeOK
  <1>1. StatusTTL \in Nat \ {0} /\ snap.ttl \in 0..StatusTTL
    BY StatusAssumption DEF StatusInv, StatusTypeOK
  <1>2. Idle.at = "idle" /\ NoSnap.says # "downloading"
    BY DEF Idle, Out, NoSnap
  <1> USE DEF memory, shared
  <1>3. CASE EntryDone
    <2>1. flight' = Idle /\ snap' = [says |-> Says(flight.saw), ttl |-> StatusTTL] /\ flight.at = "entryRead"
      BY <1>3 DEF EntryDone, End, Says
    <2>2. Says(flight.saw) = "downloading" => since <= 1
      BY <1>0, <2>1 DEF FetchIsRecent, Says, Age
    <2> QED BY <1>0, <1>1, <1>2, <2>1, <2>2 DEF FetchIsRecent
  <1>4. CASE EntryRead
    <2>1. flight'.saw = EntryOf(flight.id) /\ snap' = snap
      BY <1>0, <1>4 DEF EntryRead, StatusShape, StatusReads
    <2>2. flight'.saw \notin Live
      BY <2>1 DEF EntryOf, Live
    <2> QED BY <1>0, <1>1, <2>1, <2>2 DEF FetchIsRecent
  <1>5. CASE QueueRead
    BY <1>0, <1>1, <1>5 DEF QueueRead, FetchIsRecent, StatusShape, StatusReads
  <1>6. CASE ~(EntryDone \/ EntryRead \/ QueueRead)
    <2>1. listing.id \in Listed \union {Unread} /\ (TorrentID # Ask => TorrentID \in Listed \union {Unread})
      BY TorrentIDTyped DEF StatusInv, StatusShape, ListingReads
    <2>2. ASSUME NEW id \in Listed \union {Unread}, ByListing(id)
          PROVE  flight'.at # "entryRead" /\ (snap' = snap \/ snap'.says # "downloading")
      BY <2>2, ByListingTyped DEF StatusInv
    <2> DEFINE Told == /\ flight' = flight \/ flight'.at # "entryRead"
                       /\ snap' = snap \/ snap'.says # "downloading"
    <2>3. ASSUME StatusStart PROVE Told
      BY <1>2, <2>1, <2>2, <2>3 DEF StatusStart, End, Out
    <2>4. ASSUME ListingDone PROVE Told
      BY <2>1, <2>2, <2>4 DEF ListingDone
    <2>5. ASSUME QueueDone \/ QueueFailed \/ StatusFailed PROVE Told
      BY <1>2, <2>5 DEF QueueDone, QueueFailed, StatusFailed, End
    <2>6. ASSUME ResolveGone \/ ResolveParked \/ AddAnswered \/ CancelDone PROVE Told
      BY <1>2, <2>6 DEF ResolveGone, ResolveParked, AddAnswered, CancelDone, ForgetTorrentID
    <2>7. ASSUME NEW reannounce \in BOOLEAN, CancelLook \/ CancelJudge(reannounce) PROVE Told
      BY <1>2, <2>7 DEF CancelLook, CancelJudge, ForgetTorrentID
    <2>8. ASSUME NEW id, NEW is, AddLands(id, is) \/ ByHand(id, is) \/ Progress(is) \/ Promoted(id) PROVE Told
      BY <2>8 DEF AddLands, ByHand, Progress, Promoted
    <2>9. ASSUME OtherRead \/ ListingRead \/ ListingFailed \/ Evicted \/ RemovedByHand \/ Lapse PROVE Told
      BY <2>9 DEF OtherRead, ListingRead, ListingFailed, Evicted, RemovedByHand, Lapse
    <2>10. ASSUME CancelStart \/ CancelDelete \/ CancelFailed \/ AddSent \/ AddLost \/ ResolveLeft PROVE Told
      BY <2>10 DEF CancelStart, CancelDelete, CancelFailed, AddSent, AddLost, ResolveLeft
    <2>11. Told
      BY <1>6, <2>3, <2>4, <2>5, <2>6, <2>7, <2>8, <2>9, <2>10 DEF Step, Status, Cancel, Resolve
    <2> QED BY <1>0, <1>1, <2>11 DEF FetchIsRecent, Age
  <1> QED BY <1>3, <1>4, <1>5, <1>6

(* Cancel deletes what had not finished as it looked, and no tick passes   *)
(* before it does: had it finished since, that was just now.               *)
LEMMA StepLooked ==
  ASSUME StatusInv, Step, Since(0)
  PROVE  LookedUnfinished'
PROOF
  <1>1. SUFFICES ASSUME Looked', account'.is = "finished", account'.id = cancel'.id
                 PROVE  since' = 0
    BY DEF LookedUnfinished
  <1>2. MaxAge \in Nat \ {0} /\ since \in 0..MaxAge
    BY StatusAssumption DEF StatusInv, StatusTypeOK
  <1>3. cancel \in Cancels /\ account \in Holdings /\ LookedUnfinished
    BY DEF StatusInv, StatusShape
  <1>4. Kind(account') # Kind(account) => since' = 0
    BY DEF Since
  <1>5. since = 0 => since' = 0
    BY <1>2 DEF Since
  <1>6. CASE UNCHANGED <<cancel, account>>
    BY <1>1, <1>3, <1>5, <1>6 DEF LookedUnfinished, Looked
  <1>7. CASE CancelLook
    <2>1. cancel'.saw = EntryOf(cancel.id) /\ cancel'.at = "looked" /\ cancel'.id = cancel.id /\ account' = account
      BY <1>3, <1>7 DEF CancelLook, Cancels
    <2>2. EntryOf(cancel.id) = "finished"
      BY <1>1, <2>1 DEF EntryOf, Held
    <2> QED BY <1>1, <2>1, <2>2 DEF Looked
  <1>8. ASSUME NEW reannounce \in BOOLEAN, CancelJudge(reannounce) PROVE since' = 0
    <2>1. CASE cancel' = Idle
      BY <1>1, <2>1 DEF Looked, Idle, Out
    <2>2. CASE cancel' # Idle
      <3>1. cancel.saw # "none" /\ MayDelete(cancel.saw) /\ cancel' = [cancel EXCEPT !.at = "delete", !.saw = "nothing"]
        BY <1>8, <2>2 DEF CancelJudge
      <3>2. cancel'.id = cancel.id /\ account' = account /\ cancel.at = "looked"
        BY <1>3, <1>8, <3>1 DEF CancelJudge, Cancels
      <3>3. cancel.saw \notin {"none", "finished"}
        BY <3>1 DEF MayDelete
      <3> QED BY <1>1, <1>3, <1>5, <3>2, <3>3 DEF LookedUnfinished, Looked
    <2> QED BY <2>1, <2>2
  <1>9. CASE CancelStart \/ ListingDone
    <2>1. cancel' = cancel \/ cancel'.at \notin {"looked", "delete"}
      <3>1. \A id : CancelBy(id) => cancel'.at \notin {"looked", "delete"}
        BY DEF CancelBy, Idle, Out
      <3> QED BY <1>9, <3>1 DEF CancelStart, ListingDone, Out
    <2> QED BY <1>1, <1>6, <1>9, <2>1 DEF Looked, CancelStart, ListingDone
  <1>10. CASE CancelDelete \/ CancelDone \/ CancelFailed
    <2>1. cancel'.at \notin {"looked", "delete"}
      BY <1>3, <1>10 DEF CancelDelete, Deleted, CancelDone, CancelFailed, Idle, Out, Cancels
    <2> QED BY <1>1, <2>1 DEF Looked
  <1>11. ASSUME NEW id, NEW is, AddLands(id, is) \/ ByHand(id, is) \/ Progress(is) \/ Promoted(id) PROVE since' = 0
    <2>1. cancel' = cancel
      BY <1>11 DEF AddLands, ByHand, Progress, Promoted
    <2>2. CASE account' = account
      BY <1>6, <2>1, <2>2
    <2>3. CASE AddLands(id, is) /\ account' = [id |-> id, is |-> is] /\ id \notin Remembered
      BY <1>1, <2>1, <2>3 DEF Remembered
    <2>4. CASE ByHand(id, is)
      BY <1>1, <2>1, <2>4 DEF ByHand, Remembered
    <2>5. CASE Progress(is)
      BY <1>1, <1>3, <1>4, <2>5 DEF Progress, Kind, Holdings, Live
    <2>6. CASE Promoted(id)
      BY <1>1, <1>3, <2>6 DEF Promoted, Holdings
    <2> QED BY <1>11, <2>2, <2>3, <2>4, <2>5, <2>6 DEF AddLands
  <1>12. CASE RemovedByHand
    BY <1>1, <1>12 DEF RemovedByHand, Nothing
  <1> QED BY <1>6, <1>7, <1>8, <1>9, <1>10, <1>11, <1>12 DEF Step, Status, Cancel, Resolve, OtherRead,
             ListingRead, ListingFailed, Evicted, StatusStart, QueueRead, EntryRead, QueueDone, QueueFailed, EntryDone,
             StatusFailed, AddSent, AddAnswered, AddLost, ResolveGone, ResolveParked, ResolveLeft, Lapse

(* A step, whatever it does to the history, preserves the invariant. *)
LEMMA StepStatusInv ==
  ASSUME StatusInv, Step, Since(0)
  PROVE  StatusInv'
PROOF
  <1>1. StatusTypeOK /\ StatusShape /\ SaidLives /\ since \in 0..MaxAge /\ MaxAge \in Nat
    BY StatusAssumption DEF StatusInv, StatusTypeOK
  <1>2. StatusShape' /\ MemoryTyped'
    BY <1>1, StepShape, StepMemory
  <1>3. /\ since' \in 0..MaxAge
        /\ \/ since' = 0
           \/ /\ since' <= since + 0
              /\ account.is \in Live <=> account'.is \in Live
              /\ ~Astray'
    BY <1>1, SinceTyped
  <1>4. StatusTypeOK' /\ SaidLives'
    BY <1>2, <1>3, TypesOfShapeNext
  <1>5. CASE since' = 0
    <2>1. NoIsRecent' /\ FetchIsRecent' /\ LookedUnfinished'
      BY <1>2, <1>5, FreshIsRecentNext
    <2> QED BY <1>2, <1>4, <2>1 DEF StatusInv
  <1>6. CASE since' <= since + 0 /\ (account.is \in Live <=> account'.is \in Live) /\ ~Astray'
    <2>1. since' \in Nat /\ since' <= since
      BY <1>1, <1>3, <1>6
    <2>2. NoIsRecent'
      <3>1. CASE account'.is \in Live
        BY <1>6, <2>1, <3>1, StepNoIsRecent
      <3> QED BY <3>1 DEF NoIsRecent
    <2>3. FetchIsRecent'
      <3>1. CASE account'.is \notin Live
        BY <1>6, <2>1, <3>1, StepFetchIsRecent
      <3> QED BY <3>1 DEF FetchIsRecent
    <2>4. LookedUnfinished'
      BY StepLooked
    <2> QED BY <1>2, <1>4, <2>2, <2>3, <2>4 DEF StatusInv
  <1> QED BY <1>3, <1>5, <1>6

(* A tick ages what is out and lowers every timer by as much as it adds. *)
LEMMA TickStatusInv ==
  ASSUME StatusInv, StatusTick, Since(1)
  PROVE  StatusInv'
PROOF
  <1>1. StatusTypeOK /\ StatusShape /\ SaidLives /\ since \in 0..MaxAge /\ MaxAge \in Nat
    BY StatusAssumption DEF StatusInv, StatusTypeOK
  <1>2. StatusShape' /\ MemoryTyped'
    BY <1>1, TickShape
  <1>3. since' \in 0..MaxAge /\ (since' = 0 \/ since' <= since + 1)
    BY <1>1, SinceTyped
  <1>4. StatusTypeOK' /\ SaidLives'
    BY <1>2, <1>3, TypesOfShapeNext
  <1>5. CASE since' = 0
    <2>1. NoIsRecent' /\ FetchIsRecent' /\ LookedUnfinished'
      BY <1>2, <1>5, FreshIsRecentNext
    <2> QED BY <1>2, <1>4, <2>1 DEF StatusInv
  <1>6. CASE since' <= since + 1
    <2>1. /\ StatusTTL \in Nat \ {0} /\ ListTTL \in Nat \ {0} /\ MissTTL \in Nat \ {0}
          /\ snap.ttl \in 0..StatusTTL /\ memo.ttl \in 0..ListTTL /\ miss \in 0..MissTTL
          /\ since \in Nat /\ since' \in Nat
      BY <1>1, <1>3, StatusAssumption DEF StatusTypeOK
    <2>2. account' = account /\ cancel' = cancel /\ cancel.at = "idle"
      BY DEF StatusTick
    <2>3. /\ listing'.at = listing.at /\ listing'.id = listing.id
          /\ listing.at # "idle" => ~listing.aged /\ listing'.aged
      BY <1>1 DEF StatusTick, Older, StatusShape, ListingReads
    <2>4. /\ flight'.at = flight.at /\ flight'.id = flight.id /\ flight'.saw = flight.saw
          /\ flight.at # "idle" => ~flight.aged /\ flight'.aged
      BY <1>1 DEF StatusTick, Older, StatusShape, StatusReads
    <2>5. ListingNo => ListingNo'
      BY <1>6, <2>1, <2>3 DEF ListingNo, Age
    <2>6. MemoNo => MemoNo'
      <3>1. CASE memo.ttl > 1
        <4>1. memo'.id = memo.id /\ memo'.ttl = memo.ttl - 1
          BY <1>1, <3>1 DEF StatusTick, StatusTypeOK
        <4> QED BY <1>6, <2>1, <3>1, <4>1 DEF MemoNo
      <3>2. CASE ~(memo.ttl > 1)
        BY <3>2 DEF StatusTick, NoMemo, MemoNo
      <3> QED BY <3>1, <3>2
    <2>7. MissNo => MissNo'
      BY <1>6, <2>1 DEF StatusTick, Ticked, MissNo
    <2>8. QueueNo => QueueNo'
      BY <1>6, <2>1, <2>4 DEF QueueNo, Age
    <2>9. EntryNo => EntryNo'
      BY <1>6, <2>1, <2>2, <2>4 DEF EntryNo, Age
    <2>10. snap' = NoSnap \/ (snap'.says = snap.says /\ snap'.ttl = snap.ttl - 1)
      BY <1>1 DEF StatusTick, StatusTypeOK
    <2>11. SnapNo => SnapNo'
      BY <1>6, <2>1, <2>10 DEF SnapNo, NoSnap
    <2>12. FetchIsRecent => FetchIsRecent'
      BY <1>6, <2>1, <2>2, <2>4, <2>10 DEF FetchIsRecent, NoSnap, Age
    <2>13. NoIsRecent => NoIsRecent'
      BY <2>2, <2>5, <2>6, <2>7, <2>8, <2>9, <2>11 DEF NoIsRecent
    <2>14. LookedUnfinished'
      BY <2>2 DEF LookedUnfinished, Looked
    <2> QED BY <1>2, <1>4, <2>12, <2>13, <2>14 DEF StatusInv
  <1> QED BY <1>3, <1>5, <1>6

LEMMA InitStatusInv == StatusInit => StatusInv
PROOF
  <1> SUFFICES ASSUME StatusInit PROVE StatusInv
    OBVIOUS
  <1>1. MissTTL \in Nat \ {0} /\ ListTTL \in Nat \ {0} /\ StatusTTL \in Nat \ {0} /\ MaxAge \in Nat \ {0}
    BY StatusAssumption
  <1>2. NoId \in Listed /\ Missing \in Listed
    BY Marks DEF NoId, Missing
  <1>3. StatusShape
    BY <1>2 DEF StatusInit, StatusShape, ListingReads, StatusReads, Cancels, Adds, Resolves,
       Holdings, Idle, Out, Nothing
  <1>4. MemoryTyped /\ since \in 0..MaxAge
    <2>1. NoMemo \in [id : Listed, ttl : 0..ListTTL]
      BY <1>1, <1>2 DEF NoMemo
    <2>2. since = MaxAge /\ miss = 0 /\ qmiss = 0 /\ oversized = 0 /\ tid = NoId /\ qid = NoId /\ ours = FALSE
          /\ snap = NoSnap /\ memo = NoMemo
      BY DEF StatusInit
    <2>3. since \in 0..MaxAge /\ miss \in 0..MissTTL /\ qmiss \in 0..MissTTL /\ oversized \in 0..ListTTL
      BY <1>1, <2>2
    <2> QED BY <1>2, <2>1, <2>2, <2>3, NoSnapTyped DEF MemoryTyped, SaidLives
  <1>5. StatusTypeOK /\ SaidLives
    BY <1>3, <1>4, TypesOfShape
  <1>6. NoIsRecent
    BY DEF StatusInit, NoIsRecent, Nothing, Live
  <1>7. FetchIsRecent /\ LookedUnfinished
    BY DEF StatusInit, FetchIsRecent, LookedUnfinished, Looked, Idle, Out, NoSnap
  <1> QED BY <1>3, <1>5, <1>6, <1>7 DEF StatusInv

LEMMA NextStatusInv == StatusInv /\ [StatusNext]_statusVars => StatusInv'
PROOF
  <1> SUFFICES ASSUME StatusInv, [StatusNext]_statusVars PROVE StatusInv'
    OBVIOUS
  <1>1. CASE UNCHANGED statusVars
    BY <1>1 DEF statusVars, memory, shared, StatusInv, StatusTypeOK, StatusShape, NoIsRecent, ListingNo, MemoNo, MissNo,
       QueueNo, EntryNo, SnapNo, FetchIsRecent, SaidLives, LookedUnfinished, Looked, Age
  <1> QED BY <1>1, StepStatusInv, TickStatusInv DEF StatusNext

(* The memories, the reads and what Cancel has out keep their types, for   *)
(* any ids and any lives (StatusAnswer, accountListing, Cancel).           *)
THEOREM StatusTypeCorrect == StatusSpec => []StatusTypeOK
PROOF
  <1>1. StatusInv => StatusTypeOK
    BY DEF StatusInv
  <1> QED BY InitStatusInv, NextStatusInv, <1>1, PTL DEF StatusSpec

(* A "no" is at most a listing fetch, its memo, a remembered miss, a       *)
(* status flight and a snapshot old, and a "downloading" a flight and a    *)
(* snapshot, for any lives of the memories (statusAnswerUncached).         *)
THEOREM SaidStaysRecent == StatusSpec => []SaidIsRecent
PROOF
  <1>1. StatusInv => SaidIsRecent
    <2> SUFFICES ASSUME StatusInv PROVE SaidIsRecent
      OBVIOUS
    <2>1. /\ StatusTTL \in Nat \ {0} /\ ListTTL \in Nat \ {0} /\ MissTTL \in Nat \ {0}
          /\ snap.ttl \in 0..StatusTTL /\ since \in Nat
          /\ snap.says # "nothing" => snap.ttl > 0
      BY StatusAssumption DEF StatusInv, StatusTypeOK, SaidLives
    <2>2. snap.says = "no" /\ account.is \in Live => since <= NoBound
      BY <2>1 DEF StatusInv, NoIsRecent, SnapNo, NoBound, Snapshot
    <2>3. snap.says = "downloading" /\ account.is \notin Live => since <= Snapshot
      BY <2>1 DEF StatusInv, FetchIsRecent, Snapshot
    <2> QED BY <2>2, <2>3 DEF SaidIsRecent
  <1> QED BY InitStatusInv, NextStatusInv, <1>1, PTL DEF StatusSpec

(* Cancel deletes no torrent that had finished when it looked (Cancel).    *)
THEOREM FinishedStays == StatusSpec => FinishedIsKept
PROOF
  <1>1. ASSUME StatusInv, [StatusNext]_statusVars
        PROVE  [cancel.at = "delete" /\ cancel'.at = "deleted" /\ account.is = "finished" => since = 0]_statusVars
    <2> SUFFICES ASSUME StatusNext, cancel.at = "delete", cancel'.at = "deleted", account.is = "finished"
                 PROVE  since = 0
      BY <1>1
    <2>1. cancel \in Cancels /\ LookedUnfinished
      BY <1>1 DEF StatusInv, StatusShape
    <2>2. CASE CancelDelete
      BY <2>1, <2>2 DEF CancelDelete, Deleted, LookedUnfinished, Looked
    <2>3. ASSUME NEW reannounce \in BOOLEAN, CancelLook \/ CancelJudge(reannounce) PROVE FALSE
      BY <2>3 DEF CancelLook, CancelJudge
    <2>4. CASE ListingDone
      BY <2>4 DEF ListingDone
    <2>5. CASE CancelStart \/ CancelDone \/ CancelFailed
      BY <2>5 DEF CancelStart, CancelDone, CancelFailed, Idle, Out
    <2>6. CASE cancel' = cancel
      BY <2>6
    <2>7. CASE Step
      BY <2>2, <2>3, <2>4, <2>5, <2>6, <2>7 DEF Step, Status, Cancel, Resolve, OtherRead, ListingRead, ListingFailed, Evicted,
         StatusStart, QueueRead, EntryRead, QueueDone, QueueFailed, EntryDone, StatusFailed, AddSent, AddLands,
         AddAnswered, AddLost, ResolveGone, ResolveParked, ResolveLeft, ByHand, RemovedByHand, Progress, Promoted, Lapse
    <2>8. CASE StatusTick
      BY <2>6, <2>8 DEF StatusTick
    <2> QED BY <2>7, <2>8 DEF StatusNext
  <1>2. StatusInv /\ [StatusNext]_statusVars =>
          [cancel.at = "delete" /\ cancel'.at = "deleted" /\ account.is = "finished" => since = 0]_statusVars
    BY <1>1
  <1> QED BY InitStatusInv, NextStatusInv, <1>2, PTL DEF StatusSpec, FinishedIsKept
=============================================================================
