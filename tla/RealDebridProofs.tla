-------------------------- MODULE RealDebridProofs --------------------------
(***************************************************************************)
(* Theorems about RealDebrid for every finite set of files, every set of   *)
(* polls, and every choice of the bounds: the types, that a link is that   *)
(* of the file asked for, that a denied torrent is not bought again, and   *)
(* that the budget is charged for adds only.                               *)
(*                                                                         *)
(* LinkIsTheFile does not follow from rdLinkFor alone: of an answer that   *)
(* names no selection it takes the only link there is.  It is right        *)
(* because a torrent has an owner: every memory of its id, and every poll  *)
(* that works on it, is for one and the same key, and a selection that is  *)
(* not empty has a file of that key in it.  Owned says so, and is kept     *)
(* because ids are remembered per key and an id is given out once          *)
(* (Unminted).                                                             *)
(*                                                                         *)
(* DeniedIsNotBoughtAgain rests on one inequality: the refusal put on      *)
(* record with a denial lives at least as long as the denial.              *)
(***************************************************************************)
EXTENDS RealDebrid, TLAPS, FiniteSetTheorems

Working == {"info", "select", "again", "unrestrict"}

\* The adds that are out and have created nothing yet
Out == {p \in Polls : poll[p].at = "sent" /\ poll[p].id = 0}

Owner(id, k) ==
  /\ \A p \in Polls : poll[p].id = id => poll[p].ask.key = k
  /\ \A g \in Keys : known[g] = id => g = k
  /\ torrents[id].chosen = {} \/ \E f \in FilesOf(k) : f \in torrents[id].chosen

Owned == \A id \in Ids : \E k \in Keys : Owner(id, k)

Unminted ==
  \A id \in Ids : id > minted /\ id # Earlier =>
    /\ torrents[id] = Nothing
    /\ \A p \in Polls : poll[p].id # id
    /\ \A g \in Keys : known[g] # id

Placed ==
  \A p \in Polls : /\ poll[p].at \in Working => poll[p].id # 0
                   /\ poll[p].at \in {"idle", "charge"} => poll[p].id = 0

IInv ==
  /\ TypeOK
  /\ Spare \in Asks
  /\ Owned /\ Unminted /\ Placed
  /\ LinkIsTheFile
  /\ denied <= refused
  /\ IsFiniteSet(Out) /\ ChargesAreAdds

LEMMA Bounds ==
  /\ MaxIds \in Nat /\ MaxIds > 0 /\ Allowance \in Nat
  /\ AttemptTTL \in Nat /\ RefusalTTL \in Nat /\ UnknownTTL \in Nat /\ GiveUp \in Nat
  /\ Earlier \in Nat /\ Earlier = MaxIds + 1 /\ Ids = 1..Earlier
  BY BoundsAssumption, TTLAssumption DEF Earlier, Ids

LEMMA AskTyped ==
  ASSUME NEW a \in Asks
  PROVE  a.key \in Keys /\ a.file \in Files /\ a.file \in FilesOf(a.key)
  BY AsksAssumption DEF FilesOf

LEMMA FilesOfTyped == \A k : FilesOf(k) \subseteq Files
  BY AsksAssumption DEF FilesOf
-----------------------------------------------------------------------------
(* rdLinkFor.  In a finite set of file numbers, the member at the position *)
(* of f is f: a smaller or larger member has fewer or more before it.      *)
LEMMA NthAtPosition ==
  ASSUME NEW S, S \subseteq Files, NEW f \in S
  PROVE  Nth(S, Before(S, f)) = f
PROOF
  <1> DEFINE Lower(g) == {h \in S : h < g}
  <1>1. IsFiniteSet(S) /\ S \subseteq Nat
    BY FilesAssumption, FS_Subset
  <1>2. ASSUME NEW a \in S, NEW b \in S, a < b
        PROVE  Cardinality(Lower(a)) # Cardinality(Lower(b))
    <2>1. Lower(a) \subseteq Lower(b) /\ a \in Lower(b) /\ a \notin Lower(a)
      <3>1. a \in Nat /\ b \in Nat /\ \A h \in S : h \in Nat
        BY <1>1
      <3>2. ASSUME NEW h \in S, h < a PROVE h < b
        BY <1>2, <3>1, <3>2
      <3>3. Lower(a) \subseteq Lower(b)
        BY <3>2
      <3>4. a \in Lower(b)
        BY <1>2
      <3>5. a \notin Lower(a)
        <4>1. ~(a < a)
          BY <3>1
        <4> QED BY <4>1
      <3> QED BY <3>3, <3>4, <3>5
    <2>2. Lower(b) \subseteq S
      OBVIOUS
    <2> HIDE DEF Lower
    <2>3. IsFiniteSet(Lower(b))
      BY <1>1, <2>2, FS_Subset
    <2> QED BY <2>1, <2>3, FS_Subset
  <1>3. \A g \in S : Cardinality(Lower(g)) = Cardinality(Lower(f)) => g = f
    <2> SUFFICES ASSUME NEW g \in S, g # f PROVE Cardinality(Lower(g)) # Cardinality(Lower(f))
      OBVIOUS
    <2>1. g < f \/ f < g
      BY <1>1
    <2> QED BY <1>2, <2>1
  <1> QED BY <1>3 DEF Nth, Before

LEMMA OnlyMember ==
  ASSUME NEW S, S \subseteq Files, NEW f \in S, Cardinality(S) = 1
  PROVE  Nth(S, 0) = f
PROOF
  <1>1. IsFiniteSet(S) /\ S \subseteq Nat
    BY FilesAssumption, FS_Subset
  <1>2. S = {f}
    BY <1>1, FS_Singleton
  <1>3. {h \in S : h < f} = {}
    BY <1>1, <1>2
  <1>4. Before(S, f) = 0
    BY <1>3, FS_EmptySet DEF Before
  <1> QED BY <1>4, NthAtPosition

(* Whatever info leaves out, the link found is the owner's, or none. *)
LEMMA LinkForOwner ==
  ASSUME TypeOK, NEW id \in Ids, NEW k, NEW f \in FilesOf(k), NEW lean \in BOOLEAN, Owner(id, k)
  PROVE  LinkFor(id, lean, f) \in {0} \cup FilesOf(k)
PROOF
  <1> DEFINE chosen == torrents[id].chosen
  <1>1. chosen \subseteq Files /\ f \in Files
    BY FilesOfTyped DEF TypeOK, Torrent
  <1>2. Links(id) \in {chosen, {}} /\ Reported(id, lean) \in {chosen, {}}
    BY DEF Links, Reported
  <1>3. Cardinality({}) = 0
    BY FS_EmptySet
  <1>4. CASE f \in Reported(id, lean)
    <2>1. Reported(id, lean) = chosen /\ f \in chosen
      BY <1>2, <1>4
    <2>2. CASE Links(id) = chosen
      BY <1>1, <1>4, <2>1, <2>2, NthAtPosition DEF LinkFor
    <2>3. CASE Links(id) = {}
      <3>1. IsFiniteSet({h \in chosen : h < f})
        BY <1>1, FilesAssumption, FS_Subset
      <3>2. Before(chosen, f) \in Nat
        BY <3>1, FS_CardinalityType DEF Before
      <3>3. ~(Before(chosen, f) < Cardinality(Links(id)))
        BY <1>3, <2>3, <3>2
      <3> QED BY <1>4, <2>1, <3>3 DEF LinkFor
    <2> QED BY <1>2, <2>2, <2>3
  <1>5. CASE f \notin Reported(id, lean)
    <2>1. CASE Reported(id, lean) = {} /\ Cardinality(Links(id)) = 1
      <3>1. Links(id) = chosen /\ chosen # {}
        BY <1>2, <1>3, <2>1
      <3>2. PICK g \in FilesOf(k) : g \in chosen
        BY <3>1 DEF Owner
      <3>3. Nth(Links(id), 0) = g
        BY <1>1, <2>1, <3>1, <3>2, OnlyMember
      <3> QED BY <1>5, <2>1, <3>3 DEF LinkFor
    <2>2. CASE ~(Reported(id, lean) = {} /\ Cardinality(Links(id)) = 1)
      BY <1>5, <2>2 DEF LinkFor
    <2> QED BY <2>1, <2>2
  <1> QED BY <1>4, <1>5

(* A poll at work on a torrent asks under its owner's key. *)
LEMMA OwnerOfPoll ==
  ASSUME IInv, NEW p \in Polls, poll[p].id # 0, NEW lean \in BOOLEAN
  PROVE  /\ poll[p].id \in Ids /\ poll[p].ask \in Asks
         /\ LinkFor(poll[p].id, lean, poll[p].ask.file) \in {0} \cup FilesOf(poll[p].ask.key)
PROOF
  <1>1. poll[p].id \in Ids /\ poll[p].ask \in Asks
    BY DEF IInv, TypeOK, Poll
  <1>2. PICK k \in Keys : Owner(poll[p].id, k)
    BY <1>1 DEF IInv, Owned
  <1>3. k = poll[p].ask.key /\ poll[p].ask.file \in FilesOf(k)
    BY <1>1, <1>2, AskTyped DEF Owner
  <1>4. LinkFor(poll[p].id, lean, poll[p].ask.file) \in {0} \cup FilesOf(k)
    BY <1>1, <1>2, <1>3, LinkForOwner DEF IInv
  <1> QED BY <1>1, <1>3, <1>4
-----------------------------------------------------------------------------
LEMMA InitIInv == Init => IInv
PROOF
  <1> SUFFICES ASSUME Init PROVE IInv
    OBVIOUS
  <1> USE Bounds
  <1>1. PICK t \in Torrent, a \in Asks :
          /\ (t.ready => t.chosen # {}) /\ (t.chosen # {} => a.file \in t.chosen)
          /\ t.here \/ t = Nothing
          /\ torrents = [id \in Ids |-> IF id = Earlier THEN t ELSE Nothing]
          /\ known \in [Keys -> {0, Earlier}]
          /\ \A g \in Keys : known[g] # 0 => g = a.key /\ t.here
    BY DEF Init
  <1>2. Spare \in Asks
    BY AsksAssumption DEF Spare
  <1>3. /\ poll = [p \in Polls |-> Idle(Spare)]
        /\ attempt = 0 /\ unknown = 0 /\ refused = 0 /\ rejected = 0
        /\ spent = 0 /\ minted = 0 /\ unheard = 0 /\ denied = 0
    BY DEF Init
  <1>4. \A p \in Polls : /\ poll[p].id = 0 /\ poll[p].link = 0 /\ poll[p].at = "idle"
                         /\ poll[p] \in Poll
    BY <1>2, <1>3 DEF Idle, Poll, Places
  <1>5. Nothing \in Torrent
    BY DEF Nothing, Torrent
  <1>6. poll \in [Polls -> Poll]
    BY <1>3, <1>4
  <1>7. torrents \in [Ids -> Torrent] /\ known \in [Keys -> {0} \cup Ids]
    BY <1>1, <1>5
  <1>8. TypeOK
    BY <1>3, <1>6, <1>7 DEF TypeOK
  <1>9. Owned
    <2> SUFFICES ASSUME NEW id \in Ids PROVE Owner(id, a.key)
      BY AskTyped DEF Owned
    <2>1. torrents[id].chosen = {} \/ \E f \in FilesOf(a.key) : f \in torrents[id].chosen
      BY <1>1, AskTyped DEF Nothing
    <2>2. \A g \in Keys : known[g] = id => g = a.key
      BY <1>1
    <2> QED BY <1>4, <2>1, <2>2 DEF Owner
  <1>10. Unminted
    BY <1>1, <1>4 DEF Unminted
  <1>11. Placed /\ LinkIsTheFile /\ denied <= refused
    BY <1>3, <1>4 DEF Placed, Working, LinkIsTheFile
  <1>12. Out = {}
    BY <1>4 DEF Out
  <1>13. IsFiniteSet(Out) /\ ChargesAreAdds
    BY <1>3, <1>12, FS_EmptySet DEF ChargesAreAdds, Out
  <1> QED BY <1>2, <1>8, <1>9, <1>10, <1>11, <1>13 DEF IInv

(* A torrent keeps its owner when polls take its id up only from the       *)
(* memory of their key, a key remembers only an id of its own polls, and   *)
(* a selection grows only by a poll that is at work on the torrent.        *)
LEMMA OwnersStay ==
  ASSUME IInv, minted' = minted,
         \A p \in Polls : poll'[p].id # 0 =>
           \/ poll[p].id = poll'[p].id /\ poll[p].ask = poll'[p].ask
           \/ poll'[p].ask \in Asks /\ known[poll'[p].ask.key] = poll'[p].id,
         \A g \in Keys : known'[g] # 0 =>
           known[g] = known'[g] \/ \E p \in Polls : poll[p].ask.key = g /\ poll[p].id = known'[g],
         \A id \in Ids : \/ torrents'[id].chosen \in {{}, torrents[id].chosen}
                         \/ \E p \in Polls : poll[p].id = id /\ poll[p].ask.file \in torrents'[id].chosen,
         \A id \in Ids : ~torrents[id].here => torrents'[id] = torrents[id]
  PROVE  Owned' /\ Unminted'
PROOF
  <1> USE Bounds
  <1>1. 0 \notin Ids
    OBVIOUS
  <1>2. ASSUME NEW id \in Ids PROVE \E k \in Keys : Owner(id, k)'
    <2>1. PICK k \in Keys : Owner(id, k)
      BY DEF IInv, Owned
    <2>2. \A p \in Polls : poll'[p].id = id => poll'[p].ask.key = k
      BY <1>1, <2>1, AskTyped DEF Owner
    <2>3. \A g \in Keys : known'[g] = id => g = k
      BY <1>1, <2>1 DEF Owner
    <2>4. torrents'[id].chosen = {} \/ \E f \in FilesOf(k) : f \in torrents'[id].chosen
      <3>1. \A p \in Polls : poll[p].id = id => poll[p].ask.file \in FilesOf(k)
        BY <2>1, AskTyped DEF Owner, IInv, TypeOK, Poll
      <3> QED BY <2>1, <3>1 DEF Owner
    <2> QED BY <2>2, <2>3, <2>4 DEF Owner
  <1>3. ASSUME NEW id \in Ids, id > minted', id # Earlier
        PROVE  /\ torrents'[id] = Nothing
               /\ \A p \in Polls : poll'[p].id # id
               /\ \A g \in Keys : known'[g] # id
    <2>1. /\ torrents[id] = Nothing
          /\ \A p \in Polls : poll[p].id # id
          /\ \A g \in Keys : known[g] # id
      BY <1>3 DEF IInv, Unminted
    <2>2. ~torrents[id].here
      BY <2>1 DEF Nothing
    <2> QED BY <1>1, <2>1, <2>2, AskTyped
  <1> QED BY <1>2, <1>3 DEF Owned, Unminted

(* The set of adds that are out, when one poll's step leaves, joins or     *)
(* does not touch it.                                                      *)
LEMMA OutChanges ==
  ASSUME IInv, NEW p \in Polls, NEW new, poll' = [poll EXCEPT ![p] = new]
  PROVE  /\ Cardinality(Out) \in Nat /\ Cardinality(Out') \in Nat /\ IsFiniteSet(Out')
         /\ (new.at = "sent" /\ new.id = 0) <=> (p \in Out) => Cardinality(Out') = Cardinality(Out)
         /\ p \in Out /\ ~(new.at = "sent" /\ new.id = 0)
              => Cardinality(Out') = Cardinality(Out) - 1
         /\ p \notin Out /\ new.at = "sent" /\ new.id = 0
              => Cardinality(Out') = Cardinality(Out) + 1
PROOF
  <1>1. Out' = IF new.at = "sent" /\ new.id = 0 THEN Out \cup {p} ELSE Out \ {p}
    BY DEF IInv, TypeOK, Out
  <1>2. IsFiniteSet(Out) /\ Cardinality(Out) \in Nat
    BY FS_CardinalityType DEF IInv
  <1>3. /\ IsFiniteSet(Out \cup {p})
        /\ Cardinality(Out \cup {p}) = IF p \in Out THEN Cardinality(Out) ELSE Cardinality(Out) + 1
    BY <1>2, FS_AddElement
  <1>4. /\ IsFiniteSet(Out \ {p})
        /\ Cardinality(Out \ {p}) = IF p \in Out THEN Cardinality(Out) - 1 ELSE Cardinality(Out)
    BY <1>2, FS_RemoveElement
  <1>5. IsFiniteSet(Out') /\ Cardinality(Out') \in Nat
    BY <1>1, <1>3, <1>4, FS_CardinalityType
  <1>6. CASE new.at = "sent" /\ new.id = 0
    BY <1>1, <1>2, <1>3, <1>5, <1>6
  <1>7. CASE ~(new.at = "sent" /\ new.id = 0)
    BY <1>1, <1>2, <1>4, <1>5, <1>7
  <1> QED BY <1>6, <1>7

(* A step of one poll that charges and creates nothing. *)
LEMMA PollMoves ==
  ASSUME IInv, NEW p \in Polls, NEW new \in Poll,
         poll' = [poll EXCEPT ![p] = new],
         poll[p].at # "sent", new.at # "sent", new.link \in {0} \cup FilesOf(new.ask.key),
         new.at \in Working => new.id # 0,
         new.at \in {"idle", "charge"} => new.id = 0,
         new.id # 0 => \/ new.id = poll[p].id /\ new.ask = poll[p].ask
                       \/ known[new.ask.key] = new.id,
         known' \in [Keys -> {0} \cup Ids], \A g \in Keys : known'[g] \in {0, known[g]},
         UNCHANGED <<attempt, unknown, spent, minted, unheard>>,
         refused' \in 0..RefusalTTL, rejected' \in 0..RefusalTTL, denied' \in 0..RefusalTTL,
         denied' <= refused',
         torrents' \in [Ids -> Torrent],
         \A id \in Ids : \/ torrents'[id].chosen \in {{}, torrents[id].chosen}
                         \/ \E q \in Polls : poll[q].id = id /\ poll[q].ask.file \in torrents'[id].chosen,
         \A id \in Ids : ~torrents[id].here => torrents'[id] = torrents[id]
  PROVE  IInv'
PROOF
  <1>1. poll \in [Polls -> Poll]
    BY DEF IInv, TypeOK
  <1>2. poll' \in [Polls -> Poll] /\ poll'[p] = new /\ \A q \in Polls \ {p} : poll'[q] = poll[q]
    BY <1>1
  <1>3. TypeOK'
    BY <1>2 DEF IInv, TypeOK
  <1>4. new.ask \in Asks
    BY DEF Poll
  <1>5. \A q \in Polls : poll'[q].id # 0 =>
          \/ poll[q].id = poll'[q].id /\ poll[q].ask = poll'[q].ask
          \/ poll'[q].ask \in Asks /\ known[poll'[q].ask.key] = poll'[q].id
    BY <1>2, <1>4
  <1>6. Owned' /\ Unminted'
    BY <1>5, OwnersStay
  <1>7. Placed' /\ LinkIsTheFile'
    BY <1>2 DEF IInv, Placed, LinkIsTheFile
  <1>8. IsFiniteSet(Out') /\ Cardinality(Out') = Cardinality(Out)
    <2>1. p \notin Out
      BY DEF Out
    <2> QED BY <2>1, OutChanges
  <1>9. ChargesAreAdds'
    BY <1>8 DEF IInv, ChargesAreAdds, Out
  <1> QED BY <1>3, <1>6, <1>7, <1>8, <1>9 DEF IInv, Spare

(* A poll that is over refers to nothing. *)
LEMMA IdlePoll ==
  ASSUME NEW a \in Asks
  PROVE  /\ Idle(a) \in Poll /\ Idle(a).at = "idle" /\ Idle(a).id = 0
         /\ Idle(a).link = 0 /\ Idle(a).ask = a
  BY DEF Idle, Poll, Places

(* What a recorded answer leaves of the refusals. *)
LEMMA RecordedTypes ==
  ASSUME IInv, NEW p \in Polls, NEW answer, Recorded(p, answer) \/ Unrecorded \/ Throttled
  PROVE  /\ refused' \in 0..RefusalTTL /\ rejected' \in 0..RefusalTTL
         /\ refused' >= refused
PROOF
  <1>1. /\ refused \in 0..RefusalTTL /\ rejected \in 0..RefusalTTL
    BY DEF IInv, TypeOK
  <1>2. /\ refused' \in {refused, RefusalTTL} /\ rejected' \in {rejected, RefusalTTL}
    BY DEF Recorded, Unrecorded, Throttled, Rejected
  <1> QED BY <1>1, <1>2, Bounds

LEMMA EnterIInv ==
  ASSUME IInv, NEW p \in Polls, NEW a \in Asks, NEW noAdd \in BOOLEAN, Enter(p, a, noAdd)
  PROVE  IInv'
PROOF
  <1> USE Bounds
  <1> DEFINE entry == Entry(a, noAdd)
             id == IF entry = "info" THEN known[a.key] ELSE 0
             out == [Idle(a) EXCEPT !.at = entry, !.noAdd = noAdd, !.id = id]
             new == IF entry \in Places THEN out ELSE Idle(Spare)
  <1>1. poll' = [poll EXCEPT ![p] = new]
    BY DEF Enter
  <1>2. entry \in {"info", "charge"} \/ entry \notin Places
    BY DEF Entry, Places
  <1>3. entry = "info" => known[a.key] # 0
    BY DEF Entry
  <1>4. known \in [Keys -> {0} \cup Ids] /\ a.key \in Keys
    BY AskTyped DEF IInv, TypeOK
  <1> HIDE DEF entry
  <1>5. id \in {0} \cup Ids /\ (entry = "info" => id # 0 /\ id = known[a.key]) /\ (entry # "info" => id = 0)
    BY <1>3, <1>4
  <1> HIDE DEF id
  <1>6. entry \in Places => /\ out \in Poll /\ out.at = entry /\ out.id = id
                            /\ out.link = 0 /\ out.ask = a
    BY <1>5 DEF Idle, Poll
  <1> HIDE DEF out
  <1>7. Spare \in Asks
    BY DEF IInv
  <1>8. /\ new \in Poll /\ new.at # "sent" /\ new.link \in {0} \cup FilesOf(new.ask.key)
        /\ new.at \in Working => new.id # 0
        /\ new.at \in {"idle", "charge"} => new.id = 0
        /\ new.id # 0 => known[new.ask.key] = new.id
    <2>1. CASE entry \in Places
      <3>1. entry \in {"info", "charge"}
        BY <1>2, <2>1
      <3> QED BY <1>5, <1>6, <2>1, <3>1 DEF Working
    <2>2. CASE entry \notin Places
      BY <1>7, <2>2, IdlePoll DEF Working
    <2> QED BY <2>1, <2>2
  <1> HIDE DEF new
  <1>9. /\ poll[p].at # "sent"
        /\ UNCHANGED <<known, attempt, unknown, refused, rejected, spent, minted, torrents, unheard, denied>>
    BY DEF Enter, memory, service
  <1>10. /\ refused \in 0..RefusalTTL /\ rejected \in 0..RefusalTTL /\ denied \in 0..RefusalTTL
         /\ denied <= refused /\ torrents \in [Ids -> Torrent]
    BY DEF IInv, TypeOK
  <1> QED BY <1>1, <1>4, <1>8, <1>9, <1>10, PollMoves

(* The steps that end a poll which has no add out. *)
LEMMA EndsIInv ==
  ASSUME IInv, NEW p \in Polls, poll[p].at # "sent", Ended(p),
         known' \in [Keys -> {0} \cup Ids], \A g \in Keys : known'[g] \in {0, known[g]},
         UNCHANGED <<attempt, unknown, spent, minted, unheard>>,
         refused' \in 0..RefusalTTL, rejected' \in 0..RefusalTTL, denied' \in 0..RefusalTTL,
         denied' <= refused',
         torrents' \in [Ids -> Torrent],
         \A id \in Ids : \/ torrents'[id].chosen \in {{}, torrents[id].chosen}
                         \/ \E q \in Polls : poll[q].id = id /\ poll[q].ask.file \in torrents'[id].chosen,
         \A id \in Ids : ~torrents[id].here => torrents'[id] = torrents[id]
  PROVE  IInv'
PROOF
  <1>1. Spare \in Asks
    BY DEF IInv
  <1>2. poll' = [poll EXCEPT ![p] = Idle(Spare)]
    BY DEF Ended
  <1> QED BY <1>1, <1>2, IdlePoll, PollMoves DEF Working

(* What every poll at work on a torrent may use of the invariant. *)
LEMMA WorkingPoll ==
  ASSUME IInv, NEW p \in Polls, poll[p].at \in Working
  PROVE  /\ poll[p] \in Poll /\ poll[p].at # "sent" /\ poll[p].id # 0 /\ poll[p].id \in Ids
         /\ poll[p].ask \in Asks /\ poll[p].link \in {0} \cup FilesOf(poll[p].ask.key)
         /\ \A lean \in BOOLEAN : LinkFor(poll[p].id, lean, poll[p].ask.file) \in {0} \cup FilesOf(poll[p].ask.key)
PROOF
  <1>1. poll[p] \in Poll /\ poll[p].id # 0 /\ poll[p].at # "sent"
    BY DEF IInv, TypeOK, Placed, Working
  <1>2. poll[p].id \in Ids /\ poll[p].ask \in Asks
    BY <1>1 DEF Poll
  <1>3. poll[p].link \in {0} \cup FilesOf(poll[p].ask.key)
    BY DEF IInv, LinkIsTheFile
  <1>4. \A lean \in BOOLEAN : LinkFor(poll[p].id, lean, poll[p].ask.file) \in {0} \cup FilesOf(poll[p].ask.key)
    BY <1>1, OwnerOfPoll
  <1> QED BY <1>1, <1>2, <1>3, <1>4

(* A denial is put on record together with a refusal. *)
LEMMA DeniedTypes ==
  ASSUME IInv, NEW p \in Polls,
         Denied(p) \/ (UNCHANGED denied /\ (Unrecorded \/ \E answer : Recorded(p, answer)))
  PROVE  /\ refused' \in 0..RefusalTTL /\ rejected' \in 0..RefusalTTL
         /\ denied' \in 0..RefusalTTL /\ denied' <= refused'
PROOF
  <1>1. /\ refused \in 0..RefusalTTL /\ rejected \in 0..RefusalTTL /\ denied \in 0..RefusalTTL
        /\ denied <= refused
    BY DEF IInv, TypeOK
  <1>2. CASE UNCHANGED denied /\ (Unrecorded \/ \E answer : Recorded(p, answer))
    <2>1. /\ refused' \in 0..RefusalTTL /\ rejected' \in 0..RefusalTTL /\ refused' >= refused
      BY <1>2, RecordedTypes
    <2> QED BY <1>1, <1>2, <2>1, Bounds
  <1>3. CASE Denied(p)
    <2>1. CASE poll[p].fresh
      BY <1>1, <1>3, <2>1, Bounds DEF Denied, Throttled
    <2>2. CASE ~poll[p].fresh
      BY <1>1, <1>3, <2>2 DEF Denied, Unrecorded
    <2> QED BY <2>1, <2>2
  <1> QED BY <1>2, <1>3

LEMMA InfoAnswerIInv ==
  ASSUME IInv, NEW p \in Polls, NEW answer, InfoAnswer(p, answer)
  PROVE  IInv'
PROOF
  <1> DEFINE lean == answer = "lean"
             a == poll[p].ask
             id == poll[p].id
             at_hand == torrents[id].ready /\ a.file \in Reported(id, lean) /\ LinkFor(id, lean, a.file) # 0
             place == IF at_hand THEN "unrestrict" ELSE "select"
             link == IF at_hand THEN LinkFor(id, lean, a.file) ELSE 0
             new == [poll[p] EXCEPT !.at = place, !.link = link]
  <1>1. poll[p].at \in Working
    BY DEF InfoAnswer, Working
  <1>2. /\ poll[p] \in Poll /\ poll[p].at # "sent" /\ id # 0 /\ id \in Ids /\ a \in Asks
        /\ LinkFor(id, lean, a.file) \in {0} \cup FilesOf(a.key)
    BY <1>1, WorkingPoll
  <1>3. /\ UNCHANGED <<attempt, unknown, spent, minted, torrents, unheard>>
    BY DEF InfoAnswer, service
  <1>4. known \in [Keys -> {0} \cup Ids] /\ torrents \in [Ids -> Torrent]
    BY DEF IInv, TypeOK
  <1>5. CASE /\ poll' = [poll EXCEPT ![p].at = place, ![p].link = link]
             /\ Unrecorded /\ UNCHANGED <<known, denied>>
    <2>1. poll' = [poll EXCEPT ![p] = new]
      <3> HIDE DEF place, link
      <3> QED BY <1>5 DEF new, IInv, TypeOK
    <2>2. link \in {0} \cup FilesOf(a.key) /\ place \in {"unrestrict", "select"}
      BY <1>2
    <2> HIDE DEF place, link
    <2>3. /\ new \in Poll /\ new.at = place /\ new.link = link /\ new.ask = a /\ new.id = id
      BY <1>2, <2>2, FilesOfTyped DEF Poll, Places
    <2> HIDE DEF new, a, id
    <2>4. /\ refused' \in 0..RefusalTTL /\ rejected' \in 0..RefusalTTL
          /\ denied' \in 0..RefusalTTL /\ denied' <= refused'
      BY <1>5, DeniedTypes
    <2> QED BY <1>2, <1>3, <1>4, <1>5, <2>1, <2>2, <2>3, <2>4, PollMoves DEF Working, a, id
  <1>6. CASE known' = [known EXCEPT ![a.key] = 0] /\ Denied(p) /\ Ended(p)
    <2>1. known' \in [Keys -> {0} \cup Ids] /\ \A g \in Keys : known'[g] \in {0, known[g]}
      BY <1>4, <1>6
    <2> QED BY <1>2, <1>3, <1>4, <1>6, <2>1, DeniedTypes, EndsIInv
  <1>7. CASE Recorded(p, answer) /\ Ended(p) /\ UNCHANGED <<known, denied>>
    BY <1>2, <1>3, <1>4, <1>7, DeniedTypes, EndsIInv
  <1> QED BY <1>5, <1>6, <1>7 DEF InfoAnswer

LEMMA InfoAgainIInv ==
  ASSUME IInv, NEW p \in Polls, NEW answer, InfoAgain(p, answer)
  PROVE  IInv'
PROOF
  <1> DEFINE a == poll[p].ask
             id == poll[p].id
             link == LinkFor(id, answer = "lean", a.file)
             new == [poll[p] EXCEPT !.at = "unrestrict", !.link = link]
  <1>1. poll[p].at \in Working
    BY DEF InfoAgain, Working
  <1>2. /\ poll[p] \in Poll /\ poll[p].at # "sent" /\ id # 0 /\ id \in Ids /\ a \in Asks
        /\ link \in {0} \cup FilesOf(a.key)
    <2>1. (answer = "lean") \in BOOLEAN
      OBVIOUS
    <2> QED BY <1>1, <2>1, WorkingPoll
  <1>3. UNCHANGED <<known, attempt, unknown, spent, minted, torrents, unheard>>
    BY DEF InfoAgain, service
  <1>4. known \in [Keys -> {0} \cup Ids] /\ torrents \in [Ids -> Torrent]
    BY DEF IInv, TypeOK
  <1>5. CASE Ended(p) /\ (Denied(p) \/ (UNCHANGED denied /\ (Unrecorded \/ Recorded(p, answer))))
    BY <1>2, <1>3, <1>4, <1>5, DeniedTypes, EndsIInv
  <1>6. CASE /\ poll' = [poll EXCEPT ![p].at = "unrestrict", ![p].link = link]
             /\ Unrecorded /\ UNCHANGED denied
    <2> HIDE DEF link
    <2>1. poll' = [poll EXCEPT ![p] = new]
      BY <1>6 DEF IInv, TypeOK
    <2>2. /\ new \in Poll /\ new.at = "unrestrict" /\ new.link = link /\ new.ask = a /\ new.id = id
      BY <1>2, FilesOfTyped DEF Poll, Places
    <2> HIDE DEF new, a, id
    <2>3. /\ refused' \in 0..RefusalTTL /\ rejected' \in 0..RefusalTTL
          /\ denied' \in 0..RefusalTTL /\ denied' <= refused'
      BY <1>6, DeniedTypes
    <2> QED BY <1>2, <1>3, <1>4, <1>6, <2>1, <2>2, <2>3, PollMoves DEF Working, a, id
  <1> QED BY <1>5, <1>6 DEF InfoAgain

LEMMA UnrestrictIInv ==
  ASSUME IInv, NEW p \in Polls, NEW answer, Unrestrict(p, answer)
  PROVE  IInv'
PROOF
  <1> DEFINE a == poll[p].ask
             new == [Idle(a) EXCEPT !.link = poll[p].link]
  <1>1. poll[p].at \in Working
    BY DEF Unrestrict, Working
  <1>2. poll[p] \in Poll /\ poll[p].at # "sent" /\ a \in Asks /\ poll[p].link \in {0} \cup FilesOf(a.key)
    BY <1>1, WorkingPoll
  <1>3. UNCHANGED <<known, attempt, unknown, spent, minted, torrents, unheard, denied>>
    BY DEF Unrestrict, service
  <1>4. known \in [Keys -> {0} \cup Ids] /\ torrents \in [Ids -> Torrent]
    BY DEF IInv, TypeOK
  <1>5. /\ refused' \in 0..RefusalTTL /\ rejected' \in 0..RefusalTTL
        /\ denied' \in 0..RefusalTTL /\ denied' <= refused'
    BY <1>3, DeniedTypes DEF Unrestrict
  <1>6. CASE Ended(p)
    BY <1>2, <1>3, <1>4, <1>5, <1>6, EndsIInv
  <1>7. CASE poll' = [poll EXCEPT ![p] = [Idle(@.ask) EXCEPT !.link = poll[p].link]]
    <2>1. poll' = [poll EXCEPT ![p] = new]
      BY <1>7 DEF IInv, TypeOK
    <2>2. new \in Poll /\ new.at = "idle" /\ new.id = 0 /\ new.link = poll[p].link /\ new.ask = a
      BY <1>2 DEF Idle, Poll, Places
    <2> HIDE DEF new
    <2> QED BY <1>2, <1>3, <1>4, <1>5, <2>1, <2>2, PollMoves DEF Working
  <1> QED BY <1>6, <1>7 DEF Unrestrict

LEMMA SelectAnswerIInv ==
  ASSUME IInv, NEW p \in Polls, NEW answer, NEW selection \in SUBSET Files,
         SelectAnswer(p, answer, selection)
  PROVE  IInv'
PROOF
  <1> DEFINE a == poll[p].ask
             id == poll[p].id
             new == [poll[p] EXCEPT !.at = "again"]
  <1>1. poll[p].at \in Working
    BY DEF SelectAnswer, Working
  <1>2. /\ poll[p] \in Poll /\ poll[p].at # "sent" /\ id # 0 /\ id \in Ids /\ a \in Asks
        /\ poll[p].link \in {0} \cup FilesOf(a.key)
    BY <1>1, WorkingPoll
  <1>3. UNCHANGED <<known, attempt, unknown, spent, minted, unheard, denied>>
    BY DEF SelectAnswer
  <1>4. known \in [Keys -> {0} \cup Ids] /\ torrents \in [Ids -> Torrent]
    BY DEF IInv, TypeOK
  <1>5. /\ refused' \in 0..RefusalTTL /\ rejected' \in 0..RefusalTTL
        /\ denied' \in 0..RefusalTTL /\ denied' <= refused'
    BY <1>3, DeniedTypes DEF SelectAnswer
  <1>6. /\ torrents' \in [Ids -> Torrent]
        /\ \A i \in Ids : \/ torrents'[i].chosen \in {{}, torrents[i].chosen}
                          \/ \E q \in Polls : poll[q].id = i /\ poll[q].ask.file \in torrents'[i].chosen
        /\ \A i \in Ids : ~torrents[i].here => torrents'[i] = torrents[i]
    <2>1. CASE torrents[id].here
      <3> DEFINE chosen == [torrents[id] EXCEPT !.chosen = selection]
      <3>1. torrents' = [torrents EXCEPT ![id] = chosen]
        BY <1>2, <1>4, <2>1 DEF SelectAnswer
      <3>2. chosen \in Torrent /\ chosen.chosen = selection
        BY <1>2, <1>4 DEF Torrent
      <3>3. selection = torrents[id].chosen \/ a.file \in selection
        BY <2>1 DEF SelectAnswer
      <3> HIDE DEF chosen, a, id
      <3>4. torrents'[id] = chosen /\ \A i \in Ids \ {id} : torrents'[i] = torrents[i]
        BY <1>2, <1>4, <3>1
      <3>5. torrents' \in [Ids -> Torrent]
        BY <1>4, <3>1, <3>2
      <3> QED BY <2>1, <3>2, <3>3, <3>4, <3>5 DEF a, id
    <2>2. CASE ~torrents[id].here
      BY <1>4, <2>2 DEF SelectAnswer
    <2> QED BY <2>1, <2>2
  <1>7. CASE Ended(p)
    BY <1>2, <1>3, <1>4, <1>5, <1>6, <1>7, EndsIInv
  <1>8. CASE Goes(p, "again")
    <2>1. poll' = [poll EXCEPT ![p] = new]
      BY <1>8 DEF Goes, IInv, TypeOK
    <2>2. new \in Poll /\ new.at = "again" /\ new.id = id /\ new.link = poll[p].link /\ new.ask = a
      BY <1>2 DEF Poll, Places
    <2> HIDE DEF new
    <2> QED BY <1>2, <1>3, <1>4, <1>5, <1>6, <2>1, <2>2, PollMoves DEF Working
  <1> QED BY <1>7, <1>8 DEF SelectAnswer
-----------------------------------------------------------------------------
(* The steps of an add.  The numbers that ChargesAreAdds relates: *)
LEMMA Sums ==
  ASSUME IInv
  PROVE  /\ spent \in 0..Allowance /\ minted \in 0..MaxIds /\ unheard \in Nat
         /\ Cardinality(Out) \in Nat
         /\ spent <= minted + unheard + Cardinality(Out)
  BY FS_CardinalityType DEF IInv, TypeOK, ChargesAreAdds, Out

LEMMA ChargeIInv ==
  ASSUME IInv, NEW p \in Polls, Charge(p)
  PROVE  IInv'
PROOF
  <1> USE Bounds
  <1>1. poll[p] \in Poll /\ poll[p].at = "charge" /\ poll[p].id = 0 /\ poll[p].link \in {0} \cup FilesOf(poll[p].ask.key)
    BY DEF Charge, IInv, TypeOK, Placed, LinkIsTheFile
  <1>2. UNCHANGED <<known, unknown, refused, rejected, minted, torrents, unheard, denied>>
    BY DEF Charge, service
  <1>3. known \in [Keys -> {0} \cup Ids] /\ torrents \in [Ids -> Torrent] /\ poll \in [Polls -> Poll]
    BY DEF IInv, TypeOK
  <1>4. CASE Ended(p) /\ UNCHANGED <<spent, attempt>>
    <2>1. /\ refused' \in 0..RefusalTTL /\ rejected' \in 0..RefusalTTL
          /\ denied' \in 0..RefusalTTL /\ denied' <= refused'
      BY <1>2 DEF IInv, TypeOK
    <2> QED BY <1>1, <1>2, <1>3, <1>4, <2>1, EndsIInv
  <1>5. CASE spent < Allowance /\ spent' = spent + 1 /\ attempt' = AttemptTTL /\ Goes(p, "sent")
    <2> DEFINE new == [poll[p] EXCEPT !.at = "sent"]
    <2>1. poll' = [poll EXCEPT ![p] = new]
      BY <1>5 DEF Goes
    <2>2. new \in Poll /\ new.at = "sent" /\ new.id = 0 /\ new.link = poll[p].link
          /\ new.ask = poll[p].ask
      BY <1>1 DEF Poll, Places
    <2> HIDE DEF new
    <2>3. poll'[p] = new /\ \A q \in Polls \ {p} : poll'[q] = poll[q]
      BY <1>3, <2>1
    <2>4. TypeOK'
      BY <1>2, <1>3, <1>5, <2>1, <2>2 DEF IInv, TypeOK
    <2>5. Owned' /\ Unminted'
      <3>1. \A q \in Polls : poll'[q].id # 0 => poll[q].id = poll'[q].id /\ poll[q].ask = poll'[q].ask
        BY <2>2, <2>3
      <3> QED BY <1>2, <3>1, OwnersStay
    <2>6. Placed' /\ LinkIsTheFile'
      BY <1>1, <2>2, <2>3 DEF IInv, Placed, Working, LinkIsTheFile
    <2>7. IsFiniteSet(Out') /\ Cardinality(Out') = Cardinality(Out) + 1
      <3>1. p \notin Out
        BY <1>1 DEF Out
      <3> QED BY <2>1, <2>2, <3>1, OutChanges, Sums
    <2>8. ChargesAreAdds'
      <3>1. spent' <= minted' + unheard' + Cardinality(Out')
        BY <1>2, <1>5, <2>7, Sums
      <3> QED BY <3>1 DEF ChargesAreAdds, Out
    <2> QED BY <1>2, <2>4, <2>5, <2>6, <2>7, <2>8 DEF IInv, Spare
  <1> QED BY <1>4, <1>5 DEF Charge

(* A new id is nobody's yet: its owner is the key of the add that made it.  *)
LEMMA CreateIInv ==
  ASSUME IInv, NEW p \in Polls, Create(p)
  PROVE  IInv'
PROOF
  <1> USE Bounds
  <1> DEFINE id == minted + 1
             a == poll[p].ask
             new == [poll[p] EXCEPT !.id = id]
             made == [torrents[id] EXCEPT !.here = TRUE]
  <1>1. poll[p] \in Poll /\ poll[p].at = "sent" /\ poll[p].id = 0 /\ a \in Asks /\ minted < MaxIds
        /\ poll[p].link \in {0} \cup FilesOf(a.key)
    BY DEF Create, IInv, TypeOK, Poll, LinkIsTheFile
  <1>2. UNCHANGED <<known, attempt, unknown, refused, rejected, spent, unheard, denied>>
    BY DEF Create, memory
  <1>3. known \in [Keys -> {0} \cup Ids] /\ torrents \in [Ids -> Torrent] /\ poll \in [Polls -> Poll]
        /\ minted \in 0..MaxIds
    BY DEF IInv, TypeOK
  <1>4. id \in Ids /\ id > minted /\ id # Earlier /\ id # 0
    BY <1>1, <1>3
  <1>5. minted' = id /\ torrents' = [torrents EXCEPT ![id] = made] /\ poll' = [poll EXCEPT ![p] = new]
    BY DEF Create
  <1>6. /\ torrents[id] = Nothing
        /\ \A q \in Polls : poll[q].id # id
        /\ \A g \in Keys : known[g] # id
    BY <1>4 DEF IInv, Unminted
  <1>7. made \in Torrent /\ made.chosen = {}
    <2>1. Nothing \in Torrent /\ Nothing.chosen = {}
      BY DEF Nothing, Torrent
    <2>2. torrents[id] \in Torrent /\ torrents[id].chosen = {}
      BY <1>6, <2>1
    <2> HIDE DEF id
    <2> QED BY <2>2 DEF Torrent
  <1>8. new \in Poll /\ new.at = "sent" /\ new.id = id /\ new.ask = a /\ new.link = poll[p].link
    BY <1>1, <1>4 DEF Poll
  <1> HIDE DEF id, new, made
  <1>9. /\ poll'[p] = new /\ \A q \in Polls \ {p} : poll'[q] = poll[q]
        /\ torrents'[id] = made /\ \A i \in Ids \ {id} : torrents'[i] = torrents[i]
    BY <1>3, <1>4, <1>5
  <1>10. TypeOK'
    BY <1>1, <1>2, <1>3, <1>4, <1>5, <1>7, <1>8 DEF IInv, TypeOK, id
  <1>11. Owned'
    <2> SUFFICES ASSUME NEW i \in Ids PROVE \E k \in Keys : Owner(i, k)'
      BY DEF Owned
    <2>1. CASE i = id
      <3>1. PICK k \in Keys : k = a.key
        BY <1>1, AskTyped
      <3>2. Owner(i, k)'
        BY <1>2, <1>6, <1>7, <1>8, <1>9, <2>1, <3>1 DEF Owner
      <3> QED BY <3>2
    <2>2. CASE i # id
      <3>1. PICK k \in Keys : Owner(i, k)
        BY DEF IInv, Owned
      <3>2. Owner(i, k)'
        BY <1>2, <1>8, <1>9, <2>2, <3>1 DEF Owner
      <3> QED BY <3>2
    <2> QED BY <2>1, <2>2
  <1>12. Unminted'
    <2> SUFFICES ASSUME NEW i \in Ids, i > minted', i # Earlier
                 PROVE  /\ torrents'[i] = Nothing
                        /\ \A q \in Polls : poll'[q].id # i
                        /\ \A g \in Keys : known'[g] # i
      BY DEF Unminted
    <2>1. i # id /\ i > minted
      BY <1>3, <1>5 DEF id
    <2>2. /\ torrents[i] = Nothing
          /\ \A q \in Polls : poll[q].id # i
          /\ \A g \in Keys : known[g] # i
      BY <2>1 DEF IInv, Unminted
    <2> QED BY <1>2, <1>8, <1>9, <2>1, <2>2
  <1>13. Placed' /\ LinkIsTheFile'
    BY <1>1, <1>8, <1>9 DEF IInv, Placed, Working, LinkIsTheFile
  <1>14. IsFiniteSet(Out') /\ Cardinality(Out') = Cardinality(Out) - 1
    <2>1. p \in Out
      BY <1>1 DEF Out
    <2> QED BY <1>4, <1>5, <1>8, <2>1, OutChanges
  <1>15. ChargesAreAdds'
    <2>1. spent' <= minted' + unheard' + Cardinality(Out')
      BY <1>2, <1>5, <1>14, Sums DEF id
    <2> QED BY <2>1 DEF ChargesAreAdds, Out
  <1> QED BY <1>2, <1>10, <1>11, <1>12, <1>13, <1>14, <1>15 DEF IInv, Spare

LEMMA CreatedIInv ==
  ASSUME IInv, NEW p \in Polls, Created(p)
  PROVE  IInv'
PROOF
  <1> USE Bounds
  <1> DEFINE new == [poll[p] EXCEPT !.at = "info", !.fresh = TRUE]
  <1>1. poll[p] \in Poll /\ poll[p].at = "sent" /\ poll[p].id # 0
        /\ poll[p].id \in Ids /\ poll[p].ask \in Asks /\ poll[p].link \in {0} \cup FilesOf(poll[p].ask.key)
    BY DEF Created, IInv, TypeOK, Poll, LinkIsTheFile
  <1>2. UNCHANGED <<refused, rejected, spent, minted, torrents, unheard, denied>>
        /\ attempt' = 0 /\ unknown' = 0 /\ known' = [known EXCEPT ![poll[p].ask.key] = poll[p].id]
    BY DEF Created, Settle, Remember, service
  <1>3. known \in [Keys -> {0} \cup Ids] /\ poll \in [Polls -> Poll]
    BY DEF IInv, TypeOK
  <1>4. poll' = [poll EXCEPT ![p] = new]
    BY <1>3 DEF Created
  <1>5. new \in Poll /\ new.at = "info" /\ new.id = poll[p].id /\ new.ask = poll[p].ask
        /\ new.link = poll[p].link
    BY <1>1 DEF Poll, Places
  <1> HIDE DEF new
  <1>6. poll'[p] = new /\ \A q \in Polls \ {p} : poll'[q] = poll[q]
    BY <1>3, <1>4
  <1>7. TypeOK'
    BY <1>1, <1>2, <1>3, <1>4, <1>5, AskTyped DEF IInv, TypeOK
  <1>8. Owned' /\ Unminted'
    <2>1. \A q \in Polls : poll'[q].id # 0 => poll[q].id = poll'[q].id /\ poll[q].ask = poll'[q].ask
      BY <1>5, <1>6
    <2>2. \A g \in Keys : known'[g] # 0 =>
            known[g] = known'[g] \/ \E q \in Polls : poll[q].ask.key = g /\ poll[q].id = known'[g]
      BY <1>2, <1>3
    <2> QED BY <1>2, <2>1, <2>2, OwnersStay
  <1>9. Placed' /\ LinkIsTheFile'
    BY <1>1, <1>5, <1>6 DEF IInv, Placed, Working, LinkIsTheFile
  <1>10. IsFiniteSet(Out') /\ Cardinality(Out') = Cardinality(Out)
    <2>1. p \notin Out
      BY <1>1 DEF Out
    <2> QED BY <1>4, <1>5, <2>1, OutChanges
  <1>11. ChargesAreAdds'
    BY <1>2, <1>10 DEF IInv, ChargesAreAdds, Out
  <1> QED BY <1>2, <1>7, <1>8, <1>9, <1>10, <1>11 DEF IInv, Spare

LEMMA SumKept ==
  ASSUME NEW s \in Nat, NEW m \in Nat, NEW u \in Nat, NEW c \in Nat, s <= m + u + c,
         NEW t \in Nat, NEW v \in Nat, NEW d \in Nat,
         (t - v <= s - u /\ d = c) \/ (d = c - 1 /\ (t = 0 \/ t - v < s - u))
  PROVE  t <= m + v + d
  OBVIOUS

(* An add that ends without an id leaves the poll with nothing. *)
LEMMA AddEnds ==
  ASSUME IInv, NEW p \in Polls, poll[p].at = "sent", Ended(p),
         UNCHANGED <<known, minted, torrents, denied>>,
         attempt' \in 0..AttemptTTL, unknown' \in 0..UnknownTTL,
         refused' \in 0..RefusalTTL, rejected' \in 0..RefusalTTL, refused' >= refused,
         spent' \in 0..Allowance, unheard' \in Nat,
         poll[p].id # 0 => spent' - unheard' <= spent - unheard,
         poll[p].id = 0 => spent' = 0 \/ spent' - unheard' < spent - unheard
  PROVE  IInv'
PROOF
  <1> USE Bounds
  <1> DEFINE new == Idle(Spare)
  <1>1. Spare \in Asks /\ poll \in [Polls -> Poll]
    BY DEF IInv, TypeOK
  <1>2. poll' = [poll EXCEPT ![p] = new] /\ new \in Poll /\ new.at = "idle" /\ new.id = 0
        /\ new.link = 0
    BY <1>1, IdlePoll DEF Ended
  <1> HIDE DEF new
  <1>3. poll'[p] = new /\ \A q \in Polls \ {p} : poll'[q] = poll[q]
    BY <1>1, <1>2
  <1>4. TypeOK'
    BY <1>1, <1>2 DEF IInv, TypeOK
  <1>5. Owned' /\ Unminted'
    <2>1. \A q \in Polls : poll'[q].id # 0 => poll[q].id = poll'[q].id /\ poll[q].ask = poll'[q].ask
      BY <1>2, <1>3
    <2> QED BY <2>1, OwnersStay
  <1>6. Placed' /\ LinkIsTheFile'
    BY <1>2, <1>3 DEF IInv, Placed, Working, LinkIsTheFile
  <1>7. denied' <= refused'
    BY DEF IInv, TypeOK
  <1>8. IsFiniteSet(Out') /\ Cardinality(Out') \in Nat
    BY <1>2, OutChanges
  <1>9. spent' <= minted' + unheard' + Cardinality(Out')
    <2> DEFINE c == Cardinality(Out)
               d == Cardinality(Out')
               t == spent'
               v == unheard'
    <2>1. /\ spent \in Nat /\ minted \in Nat /\ unheard \in Nat /\ c \in Nat
          /\ spent <= minted + unheard + c
      BY Sums
    <2>2. t \in Nat /\ v \in Nat /\ d \in Nat /\ minted' = minted
      BY <1>8
    <2>3. (t - v <= spent - unheard /\ d = c) \/ (d = c - 1 /\ (t = 0 \/ t - v < spent - unheard))
      <3>1. CASE p \in Out
        <4>1. d = c - 1
          BY <1>2, <3>1, OutChanges
        <4>2. poll[p].id = 0
          BY <3>1 DEF Out
        <4> QED BY <4>1, <4>2
      <3>2. CASE p \notin Out
        <4>1. d = c
          BY <1>2, <3>2, OutChanges
        <4>2. poll[p].id # 0
          BY <3>2 DEF Out
        <4> QED BY <4>1, <4>2
      <3> QED BY <3>1, <3>2
    <2> HIDE DEF c, d, t, v
    <2>4. t <= minted + v + d
      BY <2>1, <2>2, <2>3, SumKept
    <2> QED BY <2>2, <2>4 DEF d, t, v
  <1> QED BY <1>4, <1>5, <1>6, <1>7, <1>8, <1>9 DEF IInv, Spare, ChargesAreAdds, Out

LEMMA DeclinedIInv ==
  ASSUME IInv, NEW p \in Polls, NEW answer, Declined(p, answer)
  PROVE  IInv'
PROOF
  <1> USE Bounds
  <1>1. /\ poll[p].at = "sent" /\ Ended(p) /\ attempt' = 0 /\ unknown' = 0
        /\ UNCHANGED <<known, minted, torrents, denied, unheard>>
    BY DEF Declined, Settle, service
  <1>2. /\ refused \in 0..RefusalTTL /\ rejected \in 0..RefusalTTL
        /\ refused' \in {refused, RefusalTTL} /\ rejected' \in {rejected, RefusalTTL}
    BY DEF Declined, Rejected, Throttled, IInv, TypeOK
  <1>3. spent' = IF spent > 0 THEN spent - 1 ELSE 0
    BY DEF Declined, Refunded
  <1>4. spent \in 0..Allowance /\ unheard \in Nat
    BY Sums
  <1>5. /\ spent' \in 0..Allowance /\ (spent' = 0 \/ spent' - unheard' < spent - unheard)
        /\ spent' - unheard' <= spent - unheard
    BY <1>1, <1>3, <1>4
  <1>6. /\ refused' \in 0..RefusalTTL /\ rejected' \in 0..RefusalTTL /\ refused' >= refused
    BY <1>2
  <1>7. attempt' \in 0..AttemptTTL /\ unknown' \in 0..UnknownTTL /\ unheard' \in Nat
    BY <1>1, <1>4
  <1>8. /\ poll[p].id # 0 => spent' - unheard' <= spent - unheard
        /\ poll[p].id = 0 => spent' = 0 \/ spent' - unheard' < spent - unheard
    BY <1>5
  <1> HIDE Bounds
  <1> QED BY <1>1, <1>5, <1>6, <1>7, <1>8, AddEnds

LEMMA LostIInv ==
  ASSUME IInv, NEW p \in Polls, NEW cause, Lost(p, cause) \/ Torn(p, cause)
  PROVE  IInv'
PROOF
  <1> USE Bounds
  <1>1. /\ poll[p].at = "sent" /\ Ended(p)
        /\ UNCHANGED <<known, attempt, rejected, spent, minted, torrents, denied>>
        /\ unheard' = IF poll[p].id = 0 THEN unheard + 1 ELSE unheard
    BY DEF Lost, Torn, NeverHeard, service
  <1>2. attempt \in 0..AttemptTTL /\ unknown \in 0..UnknownTTL
        /\ refused \in 0..RefusalTTL /\ rejected \in 0..RefusalTTL
    BY DEF IInv, TypeOK
  <1>3. unknown' \in {unknown, UnknownTTL} /\ refused' \in {refused, RefusalTTL}
    BY DEF Lost, Torn, NoteUnknownOutcome
  <1>4. spent \in 0..Allowance /\ unheard \in Nat
    BY Sums
  <1>5. /\ unheard' \in Nat
        /\ poll[p].id # 0 => spent' - unheard' <= spent - unheard
        /\ poll[p].id = 0 => spent' - unheard' < spent - unheard
    BY <1>1, <1>4
  <1> QED BY <1>1, <1>2, <1>3, <1>4, <1>5, AddEnds
-----------------------------------------------------------------------------
(* Real-Debrid's own steps, the end of a memory, and the clock. *)
LEMMA ServiceIInv ==
  ASSUME IInv, NEW id \in Ids, Finish(id) \/ Vanish(id)
  PROVE  IInv'
PROOF
  <1>1. torrents \in [Ids -> Torrent]
    BY DEF IInv, TypeOK
  <1>2. /\ torrents[id].here
        /\ UNCHANGED <<poll, known, attempt, unknown, refused, rejected, spent, minted, unheard, denied>>
    BY DEF Finish, Vanish, memory
  <1>3. PICK new \in Torrent :
          torrents' = [torrents EXCEPT ![id] = new] /\ new.chosen \in {{}, torrents[id].chosen}
    <2>1. CASE Finish(id)
      <3> DEFINE t == [torrents[id] EXCEPT !.ready = TRUE]
      <3>1. t \in Torrent /\ t.chosen = torrents[id].chosen
        BY <1>1 DEF Torrent
      <3>2. torrents' = [torrents EXCEPT ![id] = t]
        BY <2>1 DEF Finish
      <3> QED BY <3>1, <3>2
    <2>2. CASE Vanish(id)
      <3>1. Nothing \in Torrent /\ Nothing.chosen = {}
        BY DEF Nothing, Torrent
      <3> QED BY <2>2, <3>1 DEF Vanish
    <2> QED BY <2>1, <2>2
  <1>4. torrents'[id] = new /\ \A i \in Ids \ {id} : torrents'[i] = torrents[i]
    BY <1>1, <1>3
  <1>5. TypeOK'
    BY <1>1, <1>2, <1>3 DEF IInv, TypeOK
  <1>6. Owned' /\ Unminted'
    BY <1>2, <1>3, <1>4, OwnersStay DEF IInv, TypeOK
  <1> QED BY <1>2, <1>5, <1>6 DEF IInv, Placed, LinkIsTheFile, Out, ChargesAreAdds, Spare

LEMMA LapseIInv ==
  ASSUME IInv, NEW k \in Keys, Lapse(k)
  PROVE  IInv'
PROOF
  <1>1. known \in [Keys -> {0} \cup Ids] /\ known' = [known EXCEPT ![k] = 0]
    BY DEF Lapse, IInv, TypeOK
  <1>2. UNCHANGED <<poll, attempt, unknown, refused, rejected, spent, minted, torrents, unheard, denied>>
    BY DEF Lapse, service
  <1>3. known' \in [Keys -> {0} \cup Ids] /\ \A g \in Keys : known'[g] \in {0, known[g]}
    BY <1>1
  <1>4. Owned' /\ Unminted'
    BY <1>2, <1>3, OwnersStay
  <1>5. TypeOK'
    BY <1>2, <1>3 DEF IInv, TypeOK
  <1> QED BY <1>2, <1>4, <1>5 DEF IInv, Placed, LinkIsTheFile, Out, ChargesAreAdds, Spare

LEMMA TickIInv ==
  ASSUME IInv, Tick
  PROVE  IInv'
PROOF
  <1> USE Bounds
  <1>1. UNCHANGED <<known, spent, minted, torrents, unheard>>
    BY DEF Tick, service
  <1>2. /\ refused' = Less(refused) /\ rejected' = Less(rejected) /\ denied' = Less(denied)
        /\ attempt' = Less(attempt) /\ unknown' = Less(unknown)
    BY DEF Tick
  <1>3. \A q \in Polls : poll'[q] = [poll[q] EXCEPT !.aged = poll[q].at # "idle"]
    BY DEF Tick
  <1>4. \A q \in Polls : /\ [poll[q] EXCEPT !.aged = poll[q].at # "idle"] \in Poll
                         /\ poll'[q].at = poll[q].at /\ poll'[q].id = poll[q].id
                         /\ poll'[q].ask = poll[q].ask /\ poll'[q].link = poll[q].link
    <2> SUFFICES ASSUME NEW q \in Polls
                 PROVE  /\ [poll[q] EXCEPT !.aged = poll[q].at # "idle"] \in Poll
                        /\ poll'[q].at = poll[q].at /\ poll'[q].id = poll[q].id
                        /\ poll'[q].ask = poll[q].ask /\ poll'[q].link = poll[q].link
      OBVIOUS
    <2> DEFINE aged == poll[q].at # "idle"
    <2>1. poll[q] \in Poll /\ aged \in BOOLEAN /\ poll'[q] = [poll[q] EXCEPT !.aged = aged]
      BY <1>3 DEF IInv, TypeOK
    <2> HIDE DEF aged
    <2>2. /\ [poll[q] EXCEPT !.aged = aged] \in Poll
          /\ poll'[q].at = poll[q].at /\ poll'[q].id = poll[q].id
          /\ poll'[q].ask = poll[q].ask /\ poll'[q].link = poll[q].link
      BY <2>1 DEF Poll
    <2> QED BY <2>2 DEF aged
  <1>5. poll' \in [Polls -> Poll]
    BY <1>4 DEF Tick
  <1>6. TypeOK'
    BY <1>1, <1>2, <1>5 DEF Less, IInv, TypeOK
  <1>7. Owned' /\ Unminted'
    BY <1>1, <1>4, OwnersStay
  <1>8. denied' <= refused'
    BY <1>2 DEF Less, IInv, TypeOK
  <1>9. Out' = Out
    BY <1>4 DEF Out
  <1>10. ChargesAreAdds'
    BY <1>1, <1>9 DEF IInv, ChargesAreAdds, Out
  <1>11. Placed' /\ LinkIsTheFile'
    BY <1>4 DEF IInv, Placed, LinkIsTheFile
  <1> QED BY <1>6, <1>7, <1>8, <1>9, <1>10, <1>11 DEF IInv, Spare

LEMMA NextIInv == IInv /\ [Next]_vars => IInv'
PROOF
  <1> SUFFICES ASSUME IInv, [Next]_vars PROVE IInv'
    OBVIOUS
  <1>1. ASSUME NEW p \in Polls, PollStep(p) PROVE IInv'
    BY <1>1, EnterIInv, ChargeIInv, CreateIInv, CreatedIInv, DeclinedIInv, LostIInv,
       InfoAnswerIInv, InfoAgainIInv, SelectAnswerIInv, UnrestrictIInv DEF PollStep
  <1>2. CASE UNCHANGED vars
    BY <1>2 DEF vars, memory, service, IInv, TypeOK, Owned, Owner, Unminted, Placed,
                LinkIsTheFile, Out, ChargesAreAdds, Spare
  <1> QED BY <1>1, <1>2, ServiceIInv, LapseIInv, TickIInv DEF Next
-----------------------------------------------------------------------------
(* Every behaviour keeps the types; above all no more torrents are charged *)
(* for than the hour allows (AddBudget.take, refund).                      *)
THEOREM TypeCorrect == Spec => []TypeOK
PROOF
  <1>1. IInv => TypeOK
    BY DEF IInv
  <1> QED BY InitIInv, NextIInv, <1>1, PTL DEF Spec

(* The link a poll answers is that of a file its key names, and so of the  *)
(* file it asked for where the key names no other, whichever files are     *)
(* selected and whatever info leaves out (rdLinkFor, resolveExisting).     *)
THEOREM LinksAreTheFiles == Spec => []LinkIsTheFile
PROOF
  <1>1. IInv => LinkIsTheFile
    BY DEF IInv
  <1> QED BY InitIInv, NextIInv, <1>1, PTL DEF Spec

(* The budget is charged for torrents that may exist and for nothing else  *)
(* (realDebridStore.Resolve, refundUnusedAdd).                             *)
THEOREM ChargesAccounted == Spec => []ChargesAreAdds
PROOF
  <1>1. IInv => ChargesAreAdds
    BY DEF IInv
  <1> QED BY InitIInv, NextIInv, <1>1, PTL DEF Spec

(* Real-Debrid denying a torrent it has just created does not start a      *)
(* round of buying it again (Resolve's last word on a fresh torrent).      *)
THEOREM DeniedStaysUnbought == Spec => DeniedIsNotBoughtAgain
PROOF
  <1> DEFINE Unbought(p) == poll[p].at = "idle" /\ poll'[p].at = "charge" => denied = 0
  <1>1. ASSUME IInv, [Next]_vars PROVE [\A p \in Polls : Unbought(p)]_vars
    <2> SUFFICES ASSUME NEW p \in Polls, Next, poll[p].at = "idle", poll'[p].at = "charge"
                 PROVE  denied = 0
      BY <1>1
    <2>1. poll \in [Polls -> Poll] /\ Spare \in Asks
      BY <1>1 DEF IInv, TypeOK
    <2>2. CASE poll'[p] = poll[p]
      BY <2>2
    <2>3. CASE Tick
      <3> DEFINE aged == poll[p].at # "idle"
      <3>1. poll'[p] = [poll[p] EXCEPT !.aged = aged] /\ poll[p] \in Poll
        BY <2>1, <2>3 DEF Tick
      <3>2. poll'[p].at = poll[p].at
        BY <3>1 DEF Poll
      <3> QED BY <3>2
    <2>4. CASE (\E id \in Ids : Finish(id) \/ Vanish(id)) \/ \E k \in Keys : Lapse(k)
      BY <2>2, <2>4 DEF Finish, Vanish, Lapse
    <2>5. ASSUME NEW q \in Polls, PollStep(q), q # p PROVE FALSE
      <3>1. \E new : poll' = [poll EXCEPT ![q] = new]
        BY <2>1, <2>5 DEF PollStep, Enter, Charge, Create, Created, Declined, Lost, Torn,
           NeverHeard, InfoAnswer, InfoAgain, SelectAnswer, Unrestrict, Ended, Goes
      <3>2. poll'[p] = poll[p]
        BY <2>1, <2>5, <3>1
      <3> QED BY <3>2
    <2>6. ASSUME PollStep(p) PROVE denied = 0
      <3>1. PICK a \in Asks, noAdd \in BOOLEAN : Enter(p, a, noAdd)
        BY <2>6 DEF PollStep, Charge, Create, Created, Declined, Lost, Torn,
           NeverHeard, InfoAnswer, InfoAgain, SelectAnswer, Unrestrict
      <3> DEFINE entry == Entry(a, noAdd)
                 out == [Idle(a) EXCEPT !.at = entry, !.noAdd = noAdd,
                                        !.id = IF entry = "info" THEN known[a.key] ELSE 0]
      <3>2. poll'[p] = IF entry \in Places THEN out ELSE Idle(Spare)
        BY <2>1, <3>1 DEF Enter
      <3>3. out.at = entry
        BY DEF Idle
      <3>4. entry = "charge"
        BY <2>1, <3>2, <3>3, IdlePoll
      <3>5. ~BackedOff
        BY <3>4 DEF Entry
      <3>6. refused = 0
        BY <1>1, <3>5 DEF BackedOff, IInv, TypeOK
      <3> QED BY <1>1, <3>6 DEF IInv, TypeOK
    <2> QED BY <2>3, <2>4, <2>5, <2>6 DEF Next
  <1>2. IInv /\ [Next]_vars => [\A p \in Polls : Unbought(p)]_vars
    BY <1>1
  <1> QED BY InitIInv, NextIInv, <1>2, PTL DEF Spec, DeniedIsNotBoughtAgain
=============================================================================
