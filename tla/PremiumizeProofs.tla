-------------------------- MODULE PremiumizeProofs --------------------------
(***************************************************************************)
(* Theorems about Premiumize for every set of polls, infinite ones         *)
(* included, every allowance and every choice of the memories' lives that  *)
(* TTLAssumption allows: the types, the account of the charges, that only  *)
(* an answer without content takes a named holder away, and how long       *)
(* "coming" can be the answer.                                             *)
(*                                                                         *)
(* ChargesAreTransfers is inductive once two facts are added: the polls    *)
(* whose charge is open are finitely many (a cardinality of an infinite    *)
(* set says nothing), and the charges that stand are a number.  With the   *)
(* sum in hand a refund never finds an empty count, so the guard in        *)
(* Refunded that keeps the count from going below zero is never needed.    *)
(*                                                                         *)
(* The deadline needs how long it can have been so at each of the poll's   *)
(* stages and for each marker (Deadlines): a marker's life is only written *)
(* anew by a poll that entered when no other lived.                        *)
(***************************************************************************)
EXTENDS Premiumize, TLAPS, FiniteSetTheorems

\* The polls whose own charge nobody has accounted for yet
Open == {p \in Polls : poll[p].at = "sent" /\ ~poll[p].queued}

IInv ==
  /\ TypeOK
  /\ IsFiniteSet(Open)
  /\ spent = owed + Cardinality(Open)

(* The timers' constants are numbers. *)
LEMMA Lives ==
  /\ AttemptTTL \in Nat /\ RefusalTTL \in Nat /\ UnknownTTL \in Nat /\ QueuedTTL \in Nat
  /\ Allowance \in Nat /\ MaxTold \in Nat
  BY TTLAssumption, BoundsAssumption

(* A poll that goes out with a charge of its own opens one; a poll that    *)
(* ends closes its charge; any other change of a poll leaves them alone.   *)
LEMMA OpenGrows ==
  ASSUME IInv, NEW p \in Polls, NEW new, poll[p].at # "sent",
         poll' = [poll EXCEPT ![p] = new], new.at = "sent", ~new.queued
  PROVE  IsFiniteSet(Open') /\ Cardinality(Open') = Cardinality(Open) + 1
PROOF
  <1>1. Open' = Open \cup {p} /\ p \notin Open
    BY DEF IInv, TypeOK, Open
  <1> QED BY <1>1, FS_AddElement DEF IInv

LEMMA OpenShrinks ==
  ASSUME IInv, NEW p \in Polls, poll[p].at = "sent", Ended(p)
  PROVE  /\ IsFiniteSet(Open') /\ Cardinality(Open') \in Nat
         /\ Cardinality(Open) = Cardinality(Open') + (IF poll[p].queued THEN 0 ELSE 1)
PROOF
  <1>1. Open' = Open \ {p} /\ (p \in Open <=> ~poll[p].queued)
    BY DEF IInv, TypeOK, Open, Ended, Idle
  <1>2. /\ IsFiniteSet(Open \ {p})
        /\ Cardinality(Open \ {p}) = IF p \in Open THEN Cardinality(Open) - 1 ELSE Cardinality(Open)
    BY FS_RemoveElement DEF IInv
  <1>3. Cardinality(Open) \in Nat /\ Cardinality(Open \ {p}) \in Nat
    BY <1>2, FS_CardinalityType DEF IInv
  <1> QED BY <1>1, <1>2, <1>3

LEMMA OpenStays ==
  ASSUME IInv, NEW p \in Polls, NEW new,
         poll' = [poll EXCEPT ![p] = new],
         (new.at = "sent" /\ ~new.queued) <=> (poll[p].at = "sent" /\ ~poll[p].queued)
  PROVE  Open' = Open
  BY DEF IInv, TypeOK, Open

(* A refund takes back exactly the charge the poll made, if it made one. *)
LEMMA RefundIsExact ==
  ASSUME IInv, NEW p \in Polls, poll[p].at = "sent", Ended(p), Refunded(p), owed' = owed
  PROVE  /\ spent' \in 0..Allowance
         /\ spent' = owed' + Cardinality(Open')
PROOF
  <1>1. /\ Cardinality(Open') \in Nat
        /\ Cardinality(Open) = Cardinality(Open') + (IF poll[p].queued THEN 0 ELSE 1)
    BY OpenShrinks
  <1>2. spent \in 0..Allowance /\ owed \in Nat /\ spent = owed + Cardinality(Open)
    BY DEF IInv, TypeOK
  <1>3. CASE poll[p].queued
    BY <1>1, <1>2, <1>3, Lives DEF Refunded
  <1>4. CASE ~poll[p].queued
    <2>1. spent # 0
      BY <1>1, <1>2, <1>4
    <2> QED BY <1>1, <1>2, <1>4, <2>1, Lives DEF Refunded
  <1> QED BY <1>3, <1>4

(* A charge that stands moves from the open ones to those that are owed. *)
LEMMA ChargeStands ==
  ASSUME IInv, NEW p \in Polls, poll[p].at = "sent", Ended(p),
         owed' = (IF poll[p].queued THEN owed ELSE owed + 1), spent' = spent
  PROVE  owed' \in Nat /\ spent' = owed' + Cardinality(Open')
PROOF
  <1>1. /\ Cardinality(Open') \in Nat
        /\ Cardinality(Open) = Cardinality(Open') + (IF poll[p].queued THEN 0 ELSE 1)
    BY OpenShrinks
  <1>2. owed \in Nat /\ spent = owed + Cardinality(Open)
    BY DEF IInv, TypeOK
  <1> QED BY <1>1, <1>2
-----------------------------------------------------------------------------
LEMMA InitIInv == Init => IInv
PROOF
  <1> SUFFICES ASSUME Init PROVE IInv
    OBVIOUS
  <1>1. TypeOK
    BY Lives DEF Init, TypeOK, Poll, Places, Idle
  <1>2. Open = {}
    BY DEF Init, Open, Idle
  <1>3. IsFiniteSet(Open) /\ spent = owed + Cardinality(Open)
    BY <1>2, FS_EmptySet DEF Init
  <1> QED BY <1>1, <1>3 DEF IInv

(* Entering and being dealt with at Premiumize leave the count alone. *)
LEMMA EnterIInv ==
  ASSUME IInv, NEW p \in Polls, NEW noAdd \in BOOLEAN, Enter(p, noAdd), told' \in 0..MaxTold
  PROVE  IInv'
PROOF
  <1> DEFINE new == [Idle EXCEPT !.at = "send", !.noAdd = noAdd, !.queued = AlreadyQueued]
  <1>1. poll' = [poll EXCEPT ![p] = new]
    BY DEF Enter
  <1>2. AlreadyQueued \in BOOLEAN
    BY DEF AlreadyQueued
  <1>3. new \in Poll /\ new.at = "send"
    BY <1>2 DEF Idle, Poll, Places
  <1>4. TypeOK'
    <2> HIDE DEF new
    <2> QED BY <1>1, <1>3 DEF Enter, guards, marks, IInv, TypeOK
  <1>5. Open' = Open
    <2>1. poll[p].at # "sent"
      BY DEF Enter
    <2> HIDE DEF new
    <2> QED BY <1>1, <1>3, <2>1, OpenStays
  <1> QED BY <1>4, <1>5 DEF IInv, Enter

LEMMA CarryIInv ==
  ASSUME IInv, NEW p \in Polls, NEW got \in {"content", "transfer", "refusal"}, Carry(p, got),
         told' \in 0..MaxTold
  PROVE  IInv'
PROOF
  <1> DEFINE new == [poll[p] EXCEPT !.got = got]
  <1>1. poll' = [poll EXCEPT ![p] = new]
    BY DEF Carry
  <1>2. poll[p] \in Poll
    BY DEF IInv, TypeOK
  <1>3. new \in Poll /\ new.at = poll[p].at /\ new.queued = poll[p].queued
    BY <1>2 DEF Poll
  <1>4. has' \in {"none", "transfer", "content"}
    BY DEF Carry, IInv, TypeOK
  <1> HIDE DEF new
  <1>5. TypeOK'
    BY <1>1, <1>3, <1>4 DEF Carry, guards, marks, IInv, TypeOK
  <1>6. Open' = Open
    BY <1>1, <1>3, OpenStays
  <1> QED BY <1>5, <1>6 DEF IInv, Carry

(* A poll that ends has left the places where a charge is open. *)
LEMMA EndedType ==
  ASSUME IInv, NEW p \in Polls, Ended(p)
  PROVE  poll' \in [Polls -> Poll]
  BY DEF IInv, TypeOK, Ended, Idle, Poll, Places

(* The one step that charges the budget. *)
LEMMA SendIInv ==
  ASSUME IInv, NEW p \in Polls, Send(p), told' \in 0..MaxTold
  PROVE  IInv'
PROOF
  <1> USE Lives
  <1>1. poll[p].at = "send" /\ poll[p] \in Poll
    BY DEF Send, IInv, TypeOK
  <1>2. CASE ~poll[p].queued /\ Ended(p) /\ UNCHANGED <<spent, attempt>>
    <2>1. Open' = Open
      BY <1>1, <1>2, OpenStays DEF Ended, Idle
    <2> QED BY <1>2, <2>1, EndedType DEF Send, guards, marks, IInv, TypeOK
  <1>3. CASE /\ poll[p].queued \/ spent < Allowance
             /\ spent' = (IF poll[p].queued THEN spent ELSE spent + 1)
             /\ attempt' = (IF poll[p].noAdd THEN attempt ELSE AttemptTTL)
             /\ poll' = [poll EXCEPT ![p].at = "sent"]
    <2> DEFINE new == [poll[p] EXCEPT !.at = "sent"]
    <2>1. poll' = [poll EXCEPT ![p] = new]
      BY <1>3
    <2>2. new \in Poll /\ new.at = "sent" /\ new.queued = poll[p].queued
      BY <1>1 DEF Poll, Places
    <2> HIDE DEF new
    <2>3. spent \in 0..Allowance /\ owed \in Nat /\ spent = owed + Cardinality(Open)
          /\ Cardinality(Open) \in Nat
      BY FS_CardinalityType DEF IInv, TypeOK
    <2>4. IsFiniteSet(Open') /\ spent' = owed + Cardinality(Open')
      <3>1. CASE poll[p].queued
        <4>1. Open' = Open
          BY <2>1, <2>2, <3>1, OpenStays
        <4> QED BY <1>3, <3>1, <4>1 DEF IInv
      <3>2. CASE ~poll[p].queued
        <4>1. IsFiniteSet(Open') /\ Cardinality(Open') = Cardinality(Open) + 1
          BY <1>1, <2>1, <2>2, <3>2, OpenGrows
        <4> QED BY <1>3, <2>3, <3>2, <4>1
      <3> QED BY <3>1, <3>2
    <2>5. spent' \in 0..Allowance /\ attempt' \in 0..AttemptTTL
      BY <1>3, <2>3 DEF IInv, TypeOK
    <2>6. poll' \in [Polls -> Poll]
      BY <2>1, <2>2 DEF IInv, TypeOK
    <2> QED BY <2>4, <2>5, <2>6 DEF Send, marks, IInv, TypeOK
  <1> QED BY <1>2, <1>3 DEF Send

(* The answers that queued nothing. *)
LEMMA DeclinedIInv ==
  ASSUME IInv, NEW p \in Polls, NEW account \in BOOLEAN, Declined(p, account),
         told' \in 0..MaxTold
  PROVE  IInv'
PROOF
  <1>1. poll[p].at = "sent" /\ Ended(p) /\ Refunded(p) /\ owed' = owed
    BY DEF Declined
  <1>2. spent' \in 0..Allowance /\ spent' = owed' + Cardinality(Open') /\ IsFiniteSet(Open')
    BY <1>1, RefundIsExact, OpenShrinks
  <1>3. poll' \in [Polls -> Poll]
    BY <1>1, EndedType
  <1> QED BY <1>2, <1>3, Lives DEF Declined, Settle, marks, IInv, TypeOK

LEMMA ServedIInv ==
  ASSUME IInv, NEW p \in Polls, NEW found \in BOOLEAN, Served(p, found), told' \in 0..MaxTold
  PROVE  IInv'
PROOF
  <1>1. poll[p].at = "sent" /\ Ended(p) /\ Refunded(p) /\ owed' = owed
    BY DEF Served
  <1>2. spent' \in 0..Allowance /\ spent' = owed' + Cardinality(Open') /\ IsFiniteSet(Open')
    BY <1>1, RefundIsExact, OpenShrinks
  <1>3. poll' \in [Polls -> Poll]
    BY <1>1, EndedType
  <1>4. queued' \in 0..QueuedTTL /\ held' \in BOOLEAN
    <2>1. queued \in 0..QueuedTTL /\ held \in BOOLEAN
      BY DEF IInv, TypeOK
    <2>2. queued' = queued \/ queued' = 0
      BY DEF Served, ServedMarks, marks
    <2>3. held' = held \/ held' = TRUE
      BY Zenon DEF Served, ServedMarks, marks
    <2>4. held' \in BOOLEAN
      BY <2>1, <2>3, Zenon
    <2> QED BY <2>1, <2>2, <2>4, Lives
  <1>5. attempt' \in 0..AttemptTTL /\ unknown' \in 0..UnknownTTL
    BY Lives DEF Served, Settle
  <1> QED BY <1>2, <1>3, <1>4, <1>5 DEF Served, IInv, TypeOK

(* The answers whose charge stands. *)
LEMMA PendingIInv ==
  ASSUME IInv, NEW p \in Polls, Pending(p), told' \in 0..MaxTold
  PROVE  IInv'
PROOF
  <1>1. /\ poll[p].at = "sent" /\ Ended(p) /\ spent' = spent
        /\ owed' = (IF poll[p].queued THEN owed ELSE owed + 1)
    BY DEF Pending
  <1>2. owed' \in Nat /\ spent' = owed' + Cardinality(Open') /\ IsFiniteSet(Open')
    BY <1>1, ChargeStands, OpenShrinks
  <1>3. poll' \in [Polls -> Poll]
    BY <1>1, EndedType
  <1>4. queued' \in 0..QueuedTTL /\ held' \in BOOLEAN
    <2>1. queued \in 0..QueuedTTL
      BY DEF IInv, TypeOK
    <2>2. queued' \in 0..QueuedTTL
      BY <2>1, Lives DEF Pending, NoteQueued
    <2>3. held' \in BOOLEAN
      BY Zenon DEF Pending
    <2> QED BY <2>2, <2>3
  <1>5. attempt' \in 0..AttemptTTL /\ unknown' \in 0..UnknownTTL
    BY Lives DEF Pending, Settle
  <1> QED BY <1>1, <1>2, <1>3, <1>4, <1>5 DEF Pending, IInv, TypeOK

LEMMA NeverHeardIInv ==
  ASSUME IInv, NEW p \in Polls, NeverHeard(p), told' \in 0..MaxTold,
         refused' \in 0..RefusalTTL, unknown' \in 0..UnknownTTL
  PROVE  IInv'
PROOF
  <1>1. /\ poll[p].at = "sent" /\ Ended(p) /\ spent' = spent
        /\ owed' = (IF poll[p].queued THEN owed ELSE owed + 1)
    BY DEF NeverHeard
  <1>2. owed' \in Nat /\ spent' = owed' + Cardinality(Open') /\ IsFiniteSet(Open')
    BY <1>1, ChargeStands, OpenShrinks
  <1>3. poll' \in [Polls -> Poll]
    BY <1>1, EndedType
  <1> QED BY <1>2, <1>3 DEF NeverHeard, marks, IInv, TypeOK

LEMMA LostIInv ==
  ASSUME IInv, NEW p \in Polls, NEW cause \in {"reset", "cancelled"},
         Lost(p, cause) \/ Torn(p, cause), told' \in 0..MaxTold
  PROVE  IInv'
PROOF
  <1>1. NeverHeard(p)
    BY DEF Lost, Torn
  <1>2. refused' \in 0..RefusalTTL /\ unknown' \in 0..UnknownTTL
    BY Lives DEF Lost, Torn, NoteUnknownOutcome, IInv, TypeOK
  <1> QED BY <1>1, <1>2, NeverHeardIInv

(* The clock, the account and the mark's eviction. *)
LEMMA ElsewhereIInv ==
  ASSUME IInv, Tick \/ Finish \/ Drop \/ Lapse
  PROVE  IInv'
PROOF
  <1> USE Lives
  <1>1. CASE Tick
    <2>1. \A p \in Polls : poll'[p] = [poll[p] EXCEPT !.aged = poll[p].at # "idle"]
      BY <1>1 DEF Tick
    <2>2. \A p \in Polls : /\ [poll[p] EXCEPT !.aged = poll[p].at # "idle"] \in Poll
                           /\ poll'[p].at = poll[p].at /\ poll'[p].queued = poll[p].queued
      BY <2>1 DEF IInv, TypeOK, Poll
    <2>3. poll' \in [Polls -> Poll]
      BY <1>1, <2>2 DEF Tick
    <2>4. Open' = Open
      BY <2>2 DEF Open
    <2>5. TypeOK'
      BY <1>1, <2>3 DEF Tick, Less, IInv, TypeOK
    <2> QED BY <1>1, <2>4, <2>5 DEF Tick, IInv
  <1>2. CASE Finish \/ Drop \/ Lapse
    BY <1>2 DEF Finish, Drop, Lapse, guards, marks, Open, IInv, TypeOK
  <1> QED BY <1>1, <1>2

LEMMA NextIInv == IInv /\ [Next]_vars => IInv'
PROOF
  <1> SUFFICES ASSUME IInv, [Next]_vars PROVE IInv'
    OBVIOUS
  <1>1. ASSUME NEW p \in Polls, PollStep(p), told' = IF Coming' THEN told ELSE 0 PROVE IInv'
    <2>1. told' \in 0..MaxTold
      BY <1>1, Lives DEF IInv, TypeOK
    <2> QED BY <1>1, <2>1, EnterIInv, SendIInv, CarryIInv, DeclinedIInv, ServedIInv,
               PendingIInv, LostIInv DEF PollStep
  <1>2. CASE Tick \/ Finish \/ Drop \/ Lapse
    BY <1>2, ElsewhereIInv
  <1>3. CASE UNCHANGED vars
    BY <1>3 DEF vars, guards, marks, Open, IInv, TypeOK
  <1> QED BY <1>1, <1>2, <1>3 DEF Next

(* Every behaviour keeps the types; above all the count of the hour's adds *)
(* stays between zero and the allowance (AddBudget.take, refund).          *)
THEOREM TypeCorrect == Spec => []TypeOK
PROOF
  <1>1. IInv => TypeOK
    BY DEF IInv
  <1> QED BY InitIInv, NextIInv, <1>1, PTL DEF Spec

(* What the budget is charged for is what directdl may have queued: every  *)
(* charge belongs to a poll that is out, to a transfer, or to an answer    *)
(* nobody read (premiumizeStore.Resolve).                                  *)
THEOREM ChargesAccounted == Spec => []ChargesAreTransfers
PROOF
  <1>1. IInv => ChargesAreTransfers
    BY DEF IInv, Open, ChargesAreTransfers
  <1> QED BY InitIInv, NextIInv, <1>1, PTL DEF Spec

(* Once scout can name Premiumize a holder of a release, only an answer    *)
(* that the content is not there, or time, takes that away (Resolve's      *)
(* pending and served answers, settleQueuedTransfer).                      *)
THEOREM HolderStays == Spec => HolderStaysNamed
PROOF
  <1> DEFINE Kept(p) ==
        poll'[p].at = "idle" /\ poll[p].at # "idle" /\ HoldsTorrent /\ ~HoldsTorrent'
          => poll[p].got = "transfer"
  <1>1. ASSUME IInv, [Next]_vars PROVE [\A p \in Polls : Kept(p)]_vars
    <2> SUFFICES ASSUME NEW p \in Polls, Next PROVE Kept(p)
      BY <1>1
    <2> USE DEF HoldsTorrent, AlreadyQueued
    <2>1. CASE UNCHANGED marks
      BY <2>1 DEF marks
    <2>2. ASSUME NEW q \in Polls, Pending(q) PROVE Kept(p)
      <3>1. CASE q = p
        BY <2>2, <3>1 DEF Pending
      <3>2. CASE q # p
        BY <1>1, <2>2, <3>2 DEF Pending, Ended, IInv, TypeOK
      <3> QED BY <3>1, <3>2
    <2>3. ASSUME NEW q \in Polls, NEW found \in BOOLEAN, Served(q, found) PROVE Kept(p)
      BY <2>3 DEF Served, ServedMarks, marks
    <2>4. ASSUME Tick PROVE Kept(p)
      <3>1. poll'[p] = [poll[p] EXCEPT !.aged = poll[p].at # "idle"] /\ poll[p] \in Poll
        BY <1>1, <2>4 DEF Tick, IInv, TypeOK
      <3>2. poll'[p].at = poll[p].at
        BY <3>1 DEF Poll
      <3> QED BY <3>2
    <2>5. ASSUME Lapse PROVE Kept(p)
      BY <2>5 DEF Lapse
    <2>6. ASSUME Finish \/ Drop PROVE Kept(p)
      BY <2>1, <2>6 DEF Finish, Drop
    <2>7. ASSUME NEW q \in Polls,
                 \/ \E noAdd \in BOOLEAN : Enter(q, noAdd)
                 \/ Send(q)
                 \/ \E got \in {"content", "transfer", "refusal"} : Carry(q, got)
                 \/ \E account \in BOOLEAN : Declined(q, account)
                 \/ \E cause \in {"reset", "cancelled"} : Lost(q, cause) \/ Torn(q, cause)
          PROVE  Kept(p)
      <3>1. UNCHANGED marks
        BY <2>7 DEF Enter, Send, Carry, Declined, Lost, Torn, NeverHeard
      <3> QED BY <2>1, <3>1
    <2> QED BY <2>2, <2>3, <2>4, <2>5, <2>6, <2>7 DEF Next, PollStep
  <1>2. IInv /\ [Next]_vars => [\A p \in Polls : Kept(p)]_vars
    BY <1>1
  <1> QED BY InitIInv, NextIInv, <1>2, PTL DEF Spec, HolderStaysNamed
-----------------------------------------------------------------------------
(* How long "coming" can have been the answer, read off the state.  What   *)
(* starts the answer anew is a poll that goes out, and it entered when no  *)
(* add's marker lived: not coming at all, or by the queue marker alone.    *)
Since(p) == (IF poll[p].queued THEN PendingGiveUp ELSE 0) + (IF poll[p].aged THEN 1 ELSE 0)

Deadlines ==
  /\ told > 0 => Coming
  /\ \A p \in Polls : poll[p].at # "idle" => told <= Since(p)
  /\ attempt > 0 => told + attempt <= PendingGiveUp + 1 + AttemptTTL
  /\ queued > 0 => told <= QueuedTTL - queued + 1

LEMMA ByTheQueueAlone ==
  ASSUME TypeOK, Deadlines, attempt = 0, told > 0
  PROVE  AlreadyQueued /\ told <= PendingGiveUp
PROOF
  <1>1. queued > 0 /\ ~PendingTooLong
    BY DEF Deadlines, Coming, AddStillBelievable, AlreadyQueued
  <1>2. /\ queued \in 0..QueuedTTL /\ told \in 0..MaxTold
        /\ QueuedTTL \in Nat /\ PendingGiveUp \in Nat /\ MaxTold \in Nat
    BY Lives, TTLAssumption DEF TypeOK
  <1>3. told <= QueuedTTL - queued + 1 /\ QueuedTTL - queued < PendingGiveUp
    BY <1>1, <1>2 DEF Deadlines, PendingTooLong
  <1> QED BY <1>1, <1>2, <1>3 DEF AlreadyQueued

LEMMA SinceTypes ==
  ASSUME TypeOK, NEW p \in Polls
  PROVE  Since(p) \in 0..(PendingGiveUp + 1)
  BY TTLAssumption DEF Since

(* A poll's step keeps the count or ends it. *)
LEMMA PollDeadlines ==
  ASSUME TypeOK, TypeOK', Deadlines, NEW p \in Polls, PollStep(p),
         told' = IF Coming' THEN told ELSE 0
  PROVE  Deadlines'
PROOF
  <1>1. /\ told \in Nat /\ told' \in Nat /\ told' <= told
        /\ attempt \in 0..AttemptTTL /\ queued \in 0..QueuedTTL
        /\ attempt' \in 0..AttemptTTL /\ queued' \in 0..QueuedTTL
        /\ AttemptTTL \in Nat /\ QueuedTTL \in Nat /\ PendingGiveUp \in Nat
    BY Lives, TTLAssumption DEF TypeOK
  <1>2. told' > 0 => Coming'
    BY <1>1
  <1>3. \A q \in Polls : poll[q] \in Poll
    BY DEF TypeOK
  <1>4. \A q \in Polls : q # p => poll'[q] = poll[q]
    BY DEF PollStep, Enter, Send, Carry, Declined, Pending, Served, Lost, Torn, NeverHeard, Ended, TypeOK
  <1>5. ASSUME poll'[p].at # "idle"
        PROVE  told' <= Since(p)'
    <2>1. CASE \E noAdd \in BOOLEAN : Enter(p, noAdd)
      <3>1. PICK noAdd \in BOOLEAN : Enter(p, noAdd)
        BY <2>1
      <3>2. poll'[p].queued = AlreadyQueued /\ poll'[p].aged = FALSE
        BY <3>1 DEF Enter, Idle, TypeOK
      <3>3. attempt = 0
        BY <3>1 DEF Enter
      <3>4. CASE told > 0
        <4>1. AlreadyQueued /\ told <= PendingGiveUp
          BY <3>3, <3>4, ByTheQueueAlone
        <4>2. Since(p)' = PendingGiveUp
          BY <1>1, <3>2, <4>1 DEF Since
        <4> QED BY <1>1, <4>1, <4>2
      <3>5. CASE ~(told > 0)
        <4>1. told' = 0
          BY <1>1, <3>5
        <4>2. Since(p)' \in 0..(PendingGiveUp + 1)
          BY <1>1 DEF Since
        <4> QED BY <1>1, <4>1, <4>2
      <3> QED BY <3>4, <3>5
    <2>2. CASE Send(p) \/ \E got \in {"content", "transfer", "refusal"} : Carry(p, got)
      <3>1. poll[p].at # "idle"
        BY <2>2 DEF Send, Carry
      <3>2. poll'[p].queued = poll[p].queued /\ poll'[p].aged = poll[p].aged
        <4>1. poll'[p] = [poll[p] EXCEPT !.at = "sent"] \/ \E got : poll'[p] = [poll[p] EXCEPT !.got = got]
          BY <1>5, <2>2 DEF Send, Carry, Ended, Idle, TypeOK
        <4> QED BY <1>3, <4>1 DEF Poll
      <3>3. Since(p)' = Since(p)
        BY <3>2 DEF Since
      <3>4. told <= Since(p) /\ Since(p) \in Nat
        BY <1>1, <3>1, SinceTypes DEF Deadlines
      <3> QED BY <1>1, <3>3, <3>4
    <2>3. ASSUME Ended(p) PROVE FALSE
      BY <1>5, <2>3 DEF Ended, Idle, TypeOK
    <2>4. CASE \/ Pending(p)
               \/ \E b \in BOOLEAN : Declined(p, b) \/ Served(p, b)
               \/ \E cause \in {"reset", "cancelled"} : Lost(p, cause) \/ Torn(p, cause)
      BY <2>3, <2>4 DEF Pending, Declined, Served, Lost, Torn, NeverHeard
    <2> QED BY <2>1, <2>2, <2>4 DEF PollStep
  <1>6. \A q \in Polls : poll'[q].at # "idle" => told' <= Since(q)'
    <2> SUFFICES ASSUME NEW q \in Polls, q # p, poll'[q].at # "idle" PROVE told' <= Since(q)'
      BY <1>5
    <2>1. poll[q].at # "idle" /\ Since(q)' = Since(q)
      BY <1>4 DEF Since
    <2>2. told <= Since(q) /\ Since(q) \in Nat
      BY <1>1, <2>1, SinceTypes DEF Deadlines
    <2> QED BY <1>1, <2>1, <2>2
  <1>7. attempt' > 0 => told' + attempt' <= PendingGiveUp + 1 + AttemptTTL
    <2>1. CASE attempt' \in {0, attempt}
      BY <1>1, <2>1 DEF Deadlines
    <2>2. CASE Send(p) /\ attempt' = AttemptTTL
      <3>1. told <= Since(p)
        BY <2>2 DEF Send, Deadlines
      <3>2. Since(p) \in Nat /\ Since(p) <= PendingGiveUp + 1
        BY <1>1, SinceTypes
      <3> QED BY <1>1, <2>2, <3>1, <3>2
    <2>3. attempt' \in {0, attempt} \/ (Send(p) /\ attempt' = AttemptTTL)
      BY DEF PollStep, Enter, Send, Carry, Declined, Pending, Served, Lost, Torn, NeverHeard, Settle, guards
    <2> QED BY <2>1, <2>2, <2>3
  <1>8. queued' > 0 => told' <= QueuedTTL - queued' + 1
    <2>1. CASE queued' \in {0, queued}
      <3>1. ASSUME queued' > 0
            PROVE  queued' = queued /\ told <= QueuedTTL - queued + 1
        BY <2>1, <3>1 DEF Deadlines
      <3>2. ASSUME queued' > 0
            PROVE  told' <= QueuedTTL - queued' + 1
        BY <1>1, <3>1, <3>2
      <3> QED BY <3>2
    <2>2. CASE Pending(p) /\ ~poll[p].queued /\ queued' = QueuedTTL
      <3>1. told <= Since(p) /\ Since(p) <= 1 /\ Since(p) \in Nat
        BY <1>1, <2>2, SinceTypes DEF Pending, Deadlines, Since
      <3> QED BY <1>1, <2>2, <3>1
    <2>3. queued' \in {0, queued} \/ (Pending(p) /\ ~poll[p].queued /\ queued' = QueuedTTL)
      BY DEF PollStep, Enter, Send, Carry, Declined, Pending, NoteQueued, Served, ServedMarks, Lost,
             Torn, NeverHeard, marks
    <2> QED BY <2>1, <2>2, <2>3
  <1> QED BY <1>2, <1>6, <1>7, <1>8 DEF Deadlines

(* A tick that takes one from what is left adds at most one to what is     *)
(* told: their sum stays under its bound.                                  *)
LEMMA ATickPassesOn ==
  ASSUME NEW t \in Nat, NEW t1 \in Nat, NEW a \in Nat, NEW a1 \in Nat, NEW bound \in Nat,
         t1 <= t + 1, a1 = a - 1, t + a <= bound
  PROVE  t1 + a1 <= bound
PROOF BY Z3

\* Time passes: what is told grows by what the markers lose.
LEMMA TickDeadlines ==
  ASSUME TypeOK, TypeOK', Deadlines, Tick
  PROVE  Deadlines'
PROOF
  <1>1. /\ told \in Nat /\ told' \in Nat /\ told' <= told + 1
        /\ attempt \in 0..AttemptTTL /\ queued \in 0..QueuedTTL
        /\ attempt' = Less(attempt) /\ queued' = Less(queued)
        /\ AttemptTTL \in Nat /\ QueuedTTL \in Nat /\ PendingGiveUp \in Nat
    BY Lives, TTLAssumption DEF TypeOK, Tick
  <1>2. told' > 0 => Coming'
    BY DEF Tick
  <1>3. ASSUME NEW p \in Polls, poll'[p].at # "idle"
        PROVE  told' <= Since(p)'
    <2>1. /\ poll'[p] = [poll[p] EXCEPT !.aged = poll[p].at # "idle"] /\ poll[p] \in Poll
          /\ ~poll[p].aged
      BY DEF Tick, TypeOK
    <2>2. poll[p].at # "idle" /\ poll'[p].queued = poll[p].queued /\ poll'[p].aged
      BY <1>3, <2>1 DEF Poll
    <2>3. Since(p)' = Since(p) + 1 /\ told <= Since(p) /\ Since(p) \in Nat
      BY <1>1, <2>1, <2>2 DEF Since, Deadlines
    <2> QED BY <1>1, <2>3
  <1>4. ASSUME attempt' > 0
        PROVE  told' + attempt' <= PendingGiveUp + 1 + AttemptTTL
    <2>1. attempt > 0 /\ attempt' = attempt - 1
      BY <1>1, <1>4 DEF Less
    <2>2. told + attempt <= PendingGiveUp + 1 + AttemptTTL
      BY <2>1 DEF Deadlines
    <2>3. /\ told \in Nat /\ told' \in Nat /\ told' <= told + 1
          /\ attempt \in Nat /\ attempt' \in Nat
          /\ PendingGiveUp + 1 + AttemptTTL \in Nat
      BY <1>1, <2>1
    <2> QED BY <2>1, <2>2, <2>3, ATickPassesOn
  <1>5. ASSUME queued' > 0
        PROVE  told' <= QueuedTTL - queued' + 1
    <2>1. queued > 0 /\ queued' = queued - 1
      BY <1>1, <1>5 DEF Less
    <2>2. told <= QueuedTTL - queued + 1
      BY <2>1 DEF Deadlines
    <2>3. /\ told \in Nat /\ told' \in Nat /\ told' <= told + 1 /\ queued \in Nat
          /\ QueuedTTL \in Nat
      BY <1>1
    <2> QED BY <2>1, <2>2, <2>3
  <1> QED BY <1>2, <1>3, <1>4, <1>5 DEF Deadlines

(* "Coming is a claim with a deadline": a release is called downloading    *)
(* without a break for no longer than pendingGiveUp and the life of the    *)
(* marker of an add that goes out just before, whatever polls come and go  *)
(* (AddInFlight of premiumizeStore).                                       *)
THEOREM ComingHasADeadline == Spec => []ComingIsADeadline
PROOF
  <1>1. Init => Deadlines
    BY DEF Init, Deadlines, Idle
  <1>2. TypeOK /\ TypeOK' /\ Deadlines /\ [Next]_vars => Deadlines'
    <2> SUFFICES ASSUME TypeOK, TypeOK', Deadlines, [Next]_vars PROVE Deadlines'
      OBVIOUS
    <2>1. ASSUME NEW p \in Polls, PollStep(p), told' = IF Coming' THEN told ELSE 0 PROVE Deadlines'
      BY <2>1, PollDeadlines
    <2>2. CASE UNCHANGED <<poll, guards, queued, told>>
      BY <2>2 DEF guards, Deadlines, Since, Coming, AddStillBelievable, BackedOff, AlreadyQueued,
                  PendingTooLong, UnknownTooLong
    <2>3. CASE Finish \/ Drop \/ Lapse \/ UNCHANGED vars
      BY <2>2, <2>3 DEF Finish, Drop, Lapse, marks, vars
    <2>4. CASE Tick
      BY <2>4, TickDeadlines
    <2> QED BY <2>1, <2>3, <2>4 DEF Next
  <1>3. TypeOK /\ Deadlines => ComingIsADeadline
    <2> SUFFICES ASSUME TypeOK, Deadlines, told > 0 PROVE told <= PendingGiveUp + AttemptTTL
      BY Lives, TTLAssumption DEF TypeOK, ComingIsADeadline
    <2>1. /\ told \in Nat /\ attempt \in 0..AttemptTTL
          /\ AttemptTTL \in Nat /\ PendingGiveUp \in Nat
      BY Lives, TTLAssumption DEF TypeOK
    <2>2. CASE attempt > 0
      BY <2>1, <2>2 DEF Deadlines
    <2>3. CASE ~(attempt > 0)
      BY <2>1, <2>3, ByTheQueueAlone
    <2> QED BY <2>2, <2>3
  <1> QED BY <1>1, <1>2, <1>3, TypeCorrect, PTL DEF Spec
=============================================================================
