-------------------------- MODULE TorBoxAddProofs --------------------------
(***************************************************************************)
(* Theorems about TorBoxAdd for every set of polls and releases, infinite  *)
(* ones included, and every choice of the durations that TTLAssumption     *)
(* allows: the types, that no add is admitted over an unanswered one, that *)
(* a silent service is given up, and that a read-only poll only reads.     *)
(*                                                                         *)
(* What the memories say lags behind what happened, and the induction says *)
(* by how much it does not.  Marked: while an add is unanswered the marker *)
(* has at least as long to live.  Stamped: while the service is silent the *)
(* stamp is as old as the silence; it is the marker that keeps the stamp   *)
(* from being missed, because an add that is lost asks the marker whether  *)
(* there is anything to stamp.  Reading: a read-only poll is at a place    *)
(* from which no add and no denial of a created torrent can follow.        *)
(***************************************************************************)
EXTENDS TorBoxAdd, TLAPS

Marked == \A h \in Hashes : pending[h] <= attempt[h]

Stamped == \A h \in Hashes : silence[h] > 0 => unknown[h] = silence[h]

Reading ==
  \A p \in Polls : poll[p].noAdd => poll[p].at \in {"idle", "held", "lookup", "promoted"}

IInv == TypeOK /\ Marked /\ Reading

(* The durations are numbers.                                              *)
LEMMA Durations ==
  /\ AttemptTTL \in Nat /\ RefusalTTL \in Nat /\ GiveUp \in Nat /\ UnknownTTL \in Nat
  /\ AttemptTTL > 0 /\ RefusalTTL > 0 /\ UnknownTTL > 0
  BY TTLAssumption
-----------------------------------------------------------------------------
(* The places of a poll.                                                   *)
LEMMA IdlePoll ==
  ASSUME NEW h \in Hashes
  PROVE  Idle(h) \in Poll /\ Idle(h).at = "idle" /\ Idle(h).noAdd = FALSE
  BY DEF Idle, Poll, Places

(* A read-only poll finds its way to a look at the account, or ends.       *)
LEMMA CascadeOnlyReads ==
  ASSUME NEW h
  PROVE  /\ BelowHeld(h, TRUE) \in {"lookup", "would add"}
         /\ FromTheTop(h, TRUE) \in {"unavailable", "held", "lookup", "would add"}
  BY DEF FromTheTop, BelowHeld

(* One poll moves, and keeps its release and its caller's wish.            *)
LEMMA PlaceKeeps ==
  ASSUME poll \in [Polls -> Poll], Reading, NEW p \in Polls, NEW place, Place(p, place),
         poll[p].noAdd => place \notin {"admit", "send", "sent", "fresh"}
  PROVE  poll' \in [Polls -> Poll] /\ Reading'
PROOF
  <1> DEFINE to == IF place \in Places THEN place ELSE "idle"
  <1>1. to \in Places /\ (poll[p].noAdd => to \in {"idle", "held", "lookup", "promoted"})
    BY DEF Places
  <1>2. poll' = [poll EXCEPT ![p].at = to]
    BY DEF Place
  <1> HIDE DEF to
  <1>3. poll'[p] \in Poll /\ poll'[p].at = to /\ poll'[p].noAdd = poll[p].noAdd
    BY <1>1, <1>2 DEF Poll
  <1>4. poll' \in [Polls -> Poll]
    BY <1>2, <1>3
  <1>5. Reading'
    BY <1>1, <1>2, <1>3 DEF Reading
  <1> QED BY <1>4, <1>5

(* One poll ends.                                                          *)
LEMMA EndedKeeps ==
  ASSUME poll \in [Polls -> Poll], Reading, NEW p \in Polls, Ended(p)
  PROVE  poll' \in [Polls -> Poll] /\ Reading'
PROOF
  <1> DEFINE new == Idle(poll[p].hash)
  <1>1. new \in Poll /\ new.at = "idle"
    BY IdlePoll DEF Poll
  <1>2. poll' = [poll EXCEPT ![p] = new]
    BY DEF Ended
  <1> HIDE DEF new
  <1> QED BY <1>1, <1>2 DEF Reading
-----------------------------------------------------------------------------
(* The timers, one group at a time. *)
Counters ==
  /\ attempt \in [Hashes -> 0..AttemptTTL] /\ unknown \in [Hashes -> 0..UnknownTTL]
  /\ pending \in [Hashes -> 0..AttemptTTL] /\ silence \in [Hashes -> 0..UnknownTTL]
Refusals == refused \in [Hashes -> 0..RefusalTTL] /\ rejected \in 0..RefusalTTL
Ids ==
  /\ tid \in [Hashes -> BOOLEAN] /\ qid \in [Hashes -> BOOLEAN]
  /\ holds \in [Hashes -> {"none", "queued", "torrent"}]

LEMMA TypeParts == TypeOK <=> poll \in [Polls -> Poll] /\ Counters /\ Refusals /\ Ids
  BY DEF TypeOK, Counters, Refusals, Ids

LEMMA TypePartsNext == TypeOK' <=> (poll \in [Polls -> Poll])' /\ Counters' /\ Refusals' /\ Ids'
  BY DEF TypeOK, Counters, Refusals, Ids

(* An answer stops the clocks of scout and of the history together.        *)
LEMMA SettledTogether ==
  ASSUME Counters, Marked, NEW h \in Hashes, Settle(h), Answered(h)
  PROVE  Counters' /\ Marked' /\ (Stamped => Stamped')
  BY Durations DEF Counters, Marked, Stamped, Settle, Answered

LEMMA RecordedRefusal ==
  ASSUME Refusals, NEW h \in Hashes, NEW noAdd,
         Throttled(h) \/ Rejected \/ Unrecorded \/ ThrottledFor(h, noAdd)
  PROVE  Refusals'
  BY Durations DEF Refusals, Throttled, Rejected, Unrecorded, ThrottledFor

(* The stamp is written once, and only a silence it covers begins with it. *)
LEMMA Noted ==
  ASSUME Counters, NEW h \in Hashes, NoteUnknownOutcome(h), UNCHANGED silence
  PROVE  unknown' \in [Hashes -> 0..UnknownTTL] /\ (Stamped => Stamped')
  BY Durations DEF Counters, Stamped, NoteUnknownOutcome

LEMMA QuietTypes ==
  ASSUME Counters, NEW h \in Hashes, NEW cause, Quiet(h, cause)
  PROVE  silence' \in [Hashes -> 0..UnknownTTL]
  BY Durations DEF Counters, Quiet

LEMMA LessTypes ==
  ASSUME NEW n \in Nat, NEW timer \in [Hashes -> 0..n]
  PROVE  Less(timer) \in [Hashes -> 0..n]
  BY DEF Less
-----------------------------------------------------------------------------
LEMMA InitIInv == Init => IInv /\ Stamped
PROOF
  <1> SUFFICES ASSUME Init PROVE IInv /\ Stamped
    OBVIOUS
  <1>1. PICK h \in Hashes : poll = [p \in Polls |-> Idle(h)]
    BY DEF Init
  <1>2. poll \in [Polls -> Poll] /\ Reading
    BY <1>1, IdlePoll DEF Reading
  <1>3. Counters /\ Refusals /\ Ids /\ Marked /\ Stamped
    BY Durations DEF Init, Counters, Refusals, Ids, Marked, Stamped
  <1> QED BY <1>2, <1>3, TypeParts DEF IInv

(* What each step does to the invariant; the stamp is dealt with after.    *)
LEMMA EnterIInv ==
  ASSUME IInv, NEW p \in Polls, NEW h \in Hashes, NEW noAdd \in BOOLEAN, Enter(p, h, noAdd)
  PROVE  IInv'
PROOF
  <1> DEFINE to == FromTheTop(h, noAdd)
             new == IF to \in Places THEN [Idle(h) EXCEPT !.at = to, !.noAdd = noAdd]
                                     ELSE poll[p]
  <1>1. poll \in [Polls -> Poll] /\ Reading
    BY TypeParts DEF IInv
  <1>2. noAdd = TRUE => to \in {"unavailable", "held", "lookup", "would add"}
    BY CascadeOnlyReads
  <1>3. poll' = [poll EXCEPT ![p] = new]
    BY DEF Enter
  <1>4. new \in Poll /\ (new.noAdd => new.at \in {"idle", "held", "lookup", "promoted"})
    <2>1. CASE to \notin Places
      BY <1>1, <2>1 DEF Reading
    <2>2. CASE to \in Places
      <3> HIDE DEF to
      <3>1. new = [Idle(h) EXCEPT !.at = to, !.noAdd = noAdd]
        BY <2>2
      <3>2. new \in Poll /\ new.at = to /\ new.noAdd = noAdd
        BY <2>2, <3>1 DEF Idle, Poll
      <3> QED BY <1>2, <2>2, <3>2 DEF Places
    <2> QED BY <2>1, <2>2
  <1> HIDE DEF new
  <1>5. poll' \in [Polls -> Poll] /\ Reading'
    BY <1>1, <1>3, <1>4 DEF Reading
  <1>6. Counters' /\ Refusals' /\ Ids' /\ Marked'
    BY TypeParts DEF Enter, IInv, memory, history, Counters, Refusals, Ids, Marked
  <1> QED BY <1>5, <1>6, TypePartsNext DEF IInv

LEMMA HeldAnswerIInv ==
  ASSUME IInv, NEW p \in Polls, NEW answer, HeldAnswer(p, answer)
  PROVE  IInv'
PROOF
  <1> DEFINE h == poll[p].hash
             noAdd == poll[p].noAdd
  <1>1. poll \in [Polls -> Poll] /\ Reading /\ Counters /\ Refusals /\ Ids /\ Marked
    BY TypeParts DEF IInv
  <1>2. h \in Hashes /\ noAdd \in BOOLEAN
    BY <1>1 DEF Poll
  <1>3. Counters' /\ Marked'
    BY <1>1 DEF HeldAnswer, Counters, Marked
  <1>4. Refusals'
    <2>1. Throttled(h) \/ Rejected \/ Unrecorded \/ ThrottledFor(h, noAdd)
      BY DEF HeldAnswer
    <2> QED BY <1>1, <1>2, <2>1, RecordedRefusal
  <1>5. Ids'
    <2>1. \E b \in BOOLEAN : tid' = [tid EXCEPT ![h] = b]
      <3>1. tid[h] \in BOOLEAN
        BY <1>1, <1>2 DEF Ids
      <3>2. \/ tid' = [tid EXCEPT ![h] = TRUE] \/ tid' = [tid EXCEPT ![h] = FALSE]
            \/ \E known \in BOOLEAN : tid' = [tid EXCEPT ![h] = known /\ tid[h]]
        BY DEF HeldAnswer
      <3> QED BY <3>1, <3>2
    <2>2. UNCHANGED <<qid, holds>>
      BY DEF HeldAnswer
    <2> QED BY <1>1, <1>2, <2>1, <2>2 DEF Ids
  <1>6. poll' \in [Polls -> Poll] /\ Reading'
    <2>1. Place(p, "idle") \/ Place(p, BelowHeld(h, noAdd))
      BY DEF HeldAnswer
    <2>2. noAdd => BelowHeld(h, noAdd) \notin {"admit", "send", "sent", "fresh"}
      BY <1>2, CascadeOnlyReads
    <2>3. CASE Place(p, "idle")
      BY <1>1, <2>3, PlaceKeeps
    <2>4. CASE Place(p, BelowHeld(h, noAdd))
      BY <1>1, <2>2, <2>4, PlaceKeeps
    <2> QED BY <2>1, <2>3, <2>4
  <1> QED BY <1>3, <1>4, <1>5, <1>6, TypePartsNext DEF IInv

LEMMA LookupIInv ==
  ASSUME IInv, NEW p \in Polls, LookupFound(p) \/ LookupMissed(p)
  PROVE  IInv'
PROOF
  <1> DEFINE h == poll[p].hash
  <1>1. poll \in [Polls -> Poll] /\ Reading /\ Counters /\ Refusals /\ Ids /\ Marked
    BY TypeParts DEF IInv
  <1>2. h \in Hashes
    BY <1>1 DEF Poll
  <1>3. CASE LookupFound(p)
    <2>1. poll' \in [Polls -> Poll] /\ Reading'
      BY <1>1, <1>3, PlaceKeeps DEF LookupFound
    <2>2. Counters' /\ Marked'
      <3>1. UNCHANGED <<attempt, unknown, pending, silence>> \/ (Settle(h) /\ Answered(h))
        BY <1>3 DEF LookupFound, Found
      <3>2. CASE UNCHANGED <<attempt, unknown, pending, silence>>
        BY <1>1, <3>2 DEF Counters, Marked
      <3>3. CASE Settle(h) /\ Answered(h)
        BY <1>1, <1>2, <3>3, SettledTogether
      <3> QED BY <3>1, <3>2, <3>3
    <2>3. Refusals' /\ Ids'
      BY <1>1, <1>2, <1>3 DEF LookupFound, Found, Refusals, Ids
    <2> QED BY <2>1, <2>2, <2>3, TypePartsNext DEF IInv
  <1>4. CASE LookupMissed(p)
    <2>1. poll' \in [Polls -> Poll] /\ Reading'
      BY <1>1, <1>4, PlaceKeeps DEF LookupMissed
    <2>2. Counters' /\ Refusals' /\ Ids' /\ Marked'
      BY <1>1, <1>4 DEF LookupMissed, memory, history, Counters, Refusals, Ids, Marked
    <2> QED BY <2>1, <2>2, TypePartsNext DEF IInv
  <1> QED BY <1>3, <1>4

LEMMA AdmitIInv ==
  ASSUME IInv, NEW p \in Polls, NEW charge, Admit(p, charge)
  PROVE  IInv'
PROOF
  <1> DEFINE h == poll[p].hash
  <1>1. poll \in [Polls -> Poll] /\ Reading /\ Counters /\ Refusals /\ Ids /\ Marked
    BY TypeParts DEF IInv
  <1>2. h \in Hashes
    BY <1>1 DEF Poll
  <1>3. ~poll[p].noAdd
    BY <1>1 DEF Admit, Reading
  <1>4. poll' \in [Polls -> Poll] /\ Reading'
    <2>1. Place(p, "send") \/ Place(p, "idle")
      BY DEF Admit
    <2> QED BY <1>1, <1>3, <2>1, PlaceKeeps
  <1>5. unknown' \in [Hashes -> 0..UnknownTTL]
    <2>1. UNCHANGED unknown \/ NoteUnknownOutcome(h)
      BY DEF Admit
    <2>2. UNCHANGED silence
      BY DEF Admit, history
    <2> QED BY <1>1, <1>2, <2>1, <2>2, Noted DEF Counters
  <1>6. Counters' /\ Marked'
    BY <1>1, <1>5 DEF Admit, history, Counters, Marked
  <1>7. Refusals'
    <2>1. /\ UNCHANGED rejected
          /\ UNCHANGED refused \/ refused' = [refused EXCEPT ![h] = RefusalTTL]
      BY DEF Admit
    <2> QED BY <1>1, <1>2, <2>1, Durations DEF Refusals
  <1>8. Ids'
    BY <1>1 DEF Admit, Ids
  <1> QED BY <1>4, <1>6, <1>7, <1>8, TypePartsNext DEF IInv

LEMMA SendIInv ==
  ASSUME IInv, NEW p \in Polls, Send(p)
  PROVE  IInv'
PROOF
  <1> DEFINE h == poll[p].hash
  <1>1. poll \in [Polls -> Poll] /\ Reading /\ Counters /\ Refusals /\ Ids /\ Marked
    BY TypeParts DEF IInv
  <1>2. h \in Hashes /\ ~poll[p].noAdd
    BY <1>1 DEF Poll, Send, Reading
  <1>3. poll' \in [Polls -> Poll] /\ Reading'
    BY <1>1, <1>2, PlaceKeeps DEF Send
  <1>4. Counters' /\ Marked'
    BY <1>1, <1>2, Durations DEF Send, Counters, Marked
  <1>5. Refusals' /\ Ids'
    BY <1>1 DEF Send, Refusals, Ids
  <1> QED BY <1>3, <1>4, <1>5, TypePartsNext DEF IInv

LEMMA CreateIInv ==
  ASSUME IInv, NEW p \in Polls, NEW as \in {"queued", "torrent"}, Create(p, as)
  PROVE  IInv'
PROOF
  <1>1. poll \in [Polls -> Poll] /\ Reading /\ Counters /\ Refusals /\ Ids /\ Marked
    BY TypeParts DEF IInv
  <1>2. poll' \in [Polls -> Poll] /\ Reading'
    BY <1>1 DEF Create, Poll, Reading
  <1>3. Ids'
    BY <1>1 DEF Create, memory, Ids, Poll
  <1>4. Counters' /\ Refusals' /\ Marked'
    BY <1>1 DEF Create, memory, Counters, Refusals, Marked
  <1> QED BY <1>2, <1>3, <1>4, TypePartsNext DEF IInv

LEMMA AnsweredIInv ==
  ASSUME IInv, NEW p \in Polls, NEW x \in BOOLEAN, NEW status,
         Created(p, x) \/ Parked(p) \/ Declined(p, status) \/ Unrecognised(p)
  PROVE  IInv'
PROOF
  <1> DEFINE h == poll[p].hash
  <1>1. poll \in [Polls -> Poll] /\ Reading /\ Counters /\ Refusals /\ Ids /\ Marked
    BY TypeParts DEF IInv
  <1>2. h \in Hashes /\ poll[p].at = "sent" /\ ~poll[p].noAdd
    BY <1>1 DEF Poll, Created, Parked, Declined, Unrecognised, Reading
  <1>3. Counters' /\ Marked'
    BY <1>1, <1>2, SettledTogether DEF Created, Parked, Declined, Unrecognised
  <1>4. Refusals'
    <2>1. Throttled(h) \/ Rejected \/ Unrecorded
      BY DEF Created, Parked, Declined, Unrecognised, Unrecorded
    <2> QED BY <1>1, <1>2, <2>1, RecordedRefusal
  <1>5. Ids'
    BY <1>1, <1>2 DEF Created, Parked, Declined, Unrecognised, Ids
  <1>6. poll' \in [Polls -> Poll] /\ Reading'
    <2>1. CASE Ended(p)
      BY <1>1, <2>1, EndedKeeps
    <2>2. CASE Created(p, x)
      BY <1>1, <1>2, <2>2 DEF Created, Poll, Places, Reading
    <2> QED BY <2>1, <2>2 DEF Parked, Declined, Unrecognised
  <1> QED BY <1>3, <1>4, <1>5, <1>6, TypePartsNext DEF IInv

LEMMA UnheardIInv ==
  ASSUME IInv, NEW p \in Polls, NEW cause, Lost(p, cause) \/ Torn(p, cause)
  PROVE  IInv'
PROOF
  <1> DEFINE h == poll[p].hash
  <1>1. poll \in [Polls -> Poll] /\ Reading /\ Counters /\ Refusals /\ Ids /\ Marked
    BY TypeParts DEF IInv
  <1>2. h \in Hashes
    BY <1>1 DEF Poll
  <1>3. poll' \in [Polls -> Poll] /\ Reading'
    BY <1>1, EndedKeeps DEF Lost, Torn
  <1>4. unknown' \in [Hashes -> 0..UnknownTTL]
    <2>1. UNCHANGED unknown \/ NoteUnknownOutcome(h)
      BY DEF Lost, Torn
    <2> QED BY <1>1, <1>2, <2>1, Durations DEF NoteUnknownOutcome, Counters
  <1>5. silence' \in [Hashes -> 0..UnknownTTL]
    BY <1>1, <1>2, QuietTypes DEF Lost, Torn
  <1>6. Counters' /\ Marked'
    BY <1>1, <1>4, <1>5 DEF Lost, Torn, Counters, Marked
  <1>7. Refusals'
    <2>1. /\ UNCHANGED rejected
          /\ UNCHANGED refused \/ refused' = [refused EXCEPT ![h] = RefusalTTL]
      BY DEF Lost, Torn
    <2> QED BY <1>1, <1>2, <2>1, Durations DEF Refusals
  <1>8. Ids'
    BY <1>1 DEF Lost, Torn, Ids
  <1> QED BY <1>3, <1>6, <1>7, <1>8, TypePartsNext DEF IInv

LEMMA ElsewhereIInv ==
  ASSUME IInv, NEW h \in Hashes,
         Discover(h) \/ DiscoverQueued(h) \/ Promote(h) \/ Remove(h) \/ Lapse(h)
  PROVE  IInv'
PROOF
  <1>1. poll \in [Polls -> Poll] /\ Reading /\ Counters /\ Refusals /\ Ids /\ Marked
    BY TypeParts DEF IInv
  <1>2. poll' \in [Polls -> Poll] /\ Reading' /\ Refusals'
    BY <1>1 DEF Discover, DiscoverQueued, Promote, Remove, Lapse, memory, history, Reading, Refusals
  <1>3. Counters' /\ Marked'
    <2>1. CASE Discover(h)
      BY <1>1, <2>1, SettledTogether DEF Discover, Found
    <2>2. CASE ~Discover(h)
      BY <1>1, <2>2 DEF DiscoverQueued, Promote, Remove, Lapse, memory, history, Counters, Marked
    <2> QED BY <2>1, <2>2
  <1>4. Ids'
    <2>1. CASE Lapse(h)
      <3>1. UNCHANGED holds
        BY <2>1 DEF Lapse
      <3>2. PICK t \in BOOLEAN, q \in BOOLEAN :
              tid' = [tid EXCEPT ![h] = t /\ tid[h]] /\ qid' = [qid EXCEPT ![h] = q /\ qid[h]]
        BY <2>1 DEF Lapse
      <3>3. (t /\ tid[h]) \in BOOLEAN /\ (q /\ qid[h]) \in BOOLEAN
        OBVIOUS
      <3> QED BY <1>1, <3>1, <3>2, <3>3 DEF Ids
    <2>2. CASE ~Lapse(h)
      BY <1>1, <2>2 DEF Discover, Found, DiscoverQueued, Promote, Remove, memory, Ids
    <2> QED BY <2>1, <2>2
  <1> QED BY <1>2, <1>3, <1>4, TypePartsNext DEF IInv

LEMMA TickIInv == IInv /\ Tick => IInv'
PROOF
  <1> SUFFICES ASSUME IInv, Tick PROVE IInv'
    OBVIOUS
  <1>1. poll \in [Polls -> Poll] /\ Reading /\ Counters /\ Refusals /\ Ids /\ Marked
    BY TypeParts DEF IInv
  <1>2. poll' \in [Polls -> Poll] /\ Reading'
    <2>1. poll' = [p \in Polls |-> [poll[p] EXCEPT !.aged = poll[p].at # "idle"]]
      BY DEF Tick
    <2>2. \A p \in Polls : /\ poll'[p] \in Poll /\ poll'[p].at = poll[p].at
                           /\ poll'[p].noAdd = poll[p].noAdd
      BY <1>1, <2>1 DEF Poll
    <2> QED BY <1>1, <2>1, <2>2 DEF Reading
  <1>3. Counters' /\ Refusals' /\ Ids'
    BY <1>1, LessTypes, Durations DEF Tick, Counters, Refusals, Ids
  <1>4. Marked'
    BY <1>1 DEF Tick, Less, Marked, Counters
  <1> QED BY <1>2, <1>3, <1>4, TypePartsNext DEF IInv

LEMMA RestartIInv == IInv /\ Restart => IInv'
PROOF
  <1> SUFFICES ASSUME IInv, Restart PROVE IInv'
    OBVIOUS
  <1>1. poll \in [Polls -> Poll] /\ Ids
    BY TypeParts DEF IInv
  <1>2. \A p \in Polls : poll[p].hash \in Hashes
    BY <1>1 DEF Poll
  <1>3. poll' \in [Polls -> Poll] /\ Reading'
    BY <1>2, IdlePoll DEF Restart, Reading
  <1>4. Counters' /\ Refusals' /\ Ids' /\ Marked'
    BY <1>1, Durations DEF Restart, Counters, Refusals, Ids, Marked
  <1> QED BY <1>3, <1>4, TypePartsNext DEF IInv

LEMMA NextIInv == IInv /\ [Next]_vars => IInv'
PROOF
  <1> SUFFICES ASSUME IInv, [Next]_vars PROVE IInv'
    OBVIOUS
  <1>1. CASE UNCHANGED vars
    BY <1>1 DEF vars, memory, history, IInv, TypeOK, Marked, Reading
  <1>2. CASE Next
    BY <1>2, EnterIInv, HeldAnswerIInv, LookupIInv, AdmitIInv, SendIInv, CreateIInv,
       AnsweredIInv, UnheardIInv, ElsewhereIInv, TickIInv, RestartIInv DEF Next
  <1> QED BY <1>1, <1>2
-----------------------------------------------------------------------------
(* The stamp under a reset.  Where only resets are counted as silence, an  *)
(* add that is lost begins the silence and the stamp in one step.          *)
LEMMA UnheardStamped ==
  ASSUME IInv, Stamped, "timeout" \notin SilentCauses,
         NEW p \in Polls, NEW cause, Lost(p, cause) \/ Torn(p, cause)
  PROVE  Stamped'
PROOF
  <1> DEFINE h == poll[p].hash
  <1>1. poll \in [Polls -> Poll] /\ Counters /\ Marked
    BY TypeParts DEF IInv
  <1>2. h \in Hashes
    BY <1>1 DEF Poll
  <1>3. Quiet(h, cause) /\ (UNCHANGED unknown \/ NoteUnknownOutcome(h))
    BY DEF Lost, Torn
  <1>4. cause \in SilentCauses => cause = "reset"
    BY CausesAssumption
  <1>5. ASSUME cause \in SilentCauses, pending[h] > 0, silence[h] = 0, unknown[h] = 0
        PROVE  unknown'[h] = UnknownTTL /\ silence'[h] = UnknownTTL
    <2>1. attempt[h] > 0
      BY <1>1, <1>2, <1>5 DEF Marked, Counters
    <2>2. NoteUnknownOutcome(h)
      BY <1>4, <1>5, <2>1 DEF Lost, Torn, AddOutcomeUnknown, UnknownTooLong
    <2> QED BY <1>1, <1>2, <1>3, <1>5, <2>2, Durations DEF NoteUnknownOutcome, Quiet, Counters
  <1>6. ASSUME ~(cause \in SilentCauses /\ pending[h] > 0 /\ silence[h] = 0 /\ unknown[h] = 0)
        PROVE  silence' = silence
    BY <1>1, <1>3, <1>6 DEF Quiet, Counters
  <1>7. ASSUME unknown[h] > 0
        PROVE  unknown'[h] = unknown[h]
    BY <1>1, <1>2, <1>3, <1>7 DEF NoteUnknownOutcome, Counters
  <1>8. \A g \in Hashes \ {h} : unknown'[g] = unknown[g] /\ silence'[g] = silence[g]
    BY <1>1, <1>3 DEF NoteUnknownOutcome, Quiet, Counters
  <1>9. silence'[h] > 0 => unknown'[h] = silence'[h]
    BY <1>2, <1>5, <1>6, <1>7 DEF Stamped
  <1> QED BY <1>8, <1>9 DEF Stamped

LEMMA NextStamped ==
  ASSUME IInv, Stamped, "timeout" \notin SilentCauses, [Next]_vars
  PROVE  Stamped'
PROOF
  <1> DEFINE Still == UNCHANGED <<unknown, silence>>
  <1>1. poll \in [Polls -> Poll] /\ Counters /\ Marked
    BY TypeParts DEF IInv
  <1>2. \A p \in Polls : poll[p].hash \in Hashes
    BY <1>1 DEF Poll
  <1>3. CASE Still
    BY <1>3 DEF Stamped
  <1>4. ASSUME NEW p \in Polls,
               \/ LookupFound(p) \/ Parked(p) \/ Unrecognised(p)
               \/ \E x : Created(p, x) \/ Declined(p, x)
        PROVE  Stamped'
    <2>1. CASE Settle(poll[p].hash) /\ Answered(poll[p].hash)
      BY <1>1, <1>2, <2>1, SettledTogether
    <2> QED BY <1>3, <1>4, <2>1 DEF LookupFound, Found, Parked, Unrecognised, Created, Declined
  <1>5. ASSUME NEW h \in Hashes, Discover(h)
        PROVE  Stamped'
    BY <1>1, <1>5, SettledTogether DEF Discover, Found
  <1>6. ASSUME NEW p \in Polls, NEW charge, Admit(p, charge)
        PROVE  Stamped'
    <2>1. UNCHANGED silence /\ (UNCHANGED unknown \/ NoteUnknownOutcome(poll[p].hash))
      BY <1>6 DEF Admit, history
    <2> QED BY <1>1, <1>2, <1>3, <2>1, Noted
  <1>7. CASE Tick
    BY <1>1, <1>7 DEF Tick, Less, Stamped, Counters
  <1>8. CASE Restart
    BY <1>8 DEF Restart, Stamped
  <1>9. ASSUME NEW p \in Polls,
               \/ \E h \in Hashes, noAdd \in BOOLEAN : Enter(p, h, noAdd)
               \/ \E answer : HeldAnswer(p, answer)
               \/ LookupMissed(p) \/ Send(p)
               \/ \E as : Create(p, as)
        PROVE  Still
    BY <1>9 DEF Enter, HeldAnswer, LookupMissed, Send, Create, memory, history
  <1>10. ASSUME NEW h \in Hashes, DiscoverQueued(h) \/ Promote(h) \/ Remove(h) \/ Lapse(h)
         PROVE  Still
    BY <1>10 DEF DiscoverQueued, Promote, Remove, Lapse, memory, history
  <1>11. CASE UNCHANGED vars
    BY <1>3, <1>11 DEF vars, memory, history
  <1>12. CASE Next
    <2>1. ASSUME NEW p \in Polls, NEW cause \in Causes, Lost(p, cause) \/ Torn(p, cause)
          PROVE  Stamped'
      BY <2>1, UnheardStamped
    <2> QED BY <1>3, <1>4, <1>5, <1>6, <1>7, <1>8, <1>9, <1>10, <1>12, <2>1 DEF Next
  <1> QED BY <1>11, <1>12
-----------------------------------------------------------------------------
(* A poll is moved by its own steps, by the clock, and by a restart.       *)
OwnStep(p) ==
  \/ \E h \in Hashes, noAdd \in BOOLEAN : Enter(p, h, noAdd)
  \/ \E answer \in {"link", "failed", "throttled", "rejected", "gone"} : HeldAnswer(p, answer)
  \/ LookupFound(p) \/ LookupMissed(p) \/ Send(p) \/ Parked(p) \/ Unrecognised(p)
  \/ \E b \in BOOLEAN : Admit(p, b) \/ Created(p, b)
  \/ \E as \in {"queued", "torrent"} : Create(p, as)
  \/ \E status \in {"declined", "rejected"} : Declined(p, status)
  \/ \E cause \in Causes : Lost(p, cause) \/ Torn(p, cause)

LEMMA MovedBy ==
  ASSUME poll \in [Polls -> Poll], [Next]_vars, NEW p \in Polls, poll'[p] # poll[p]
  PROVE  OwnStep(p) \/ Tick \/ Restart
PROOF
  <1>1. ASSUME NEW q \in Polls, OwnStep(q)
        PROVE  q = p
    <2>1. ASSUME NEW place, Place(q, place)
          PROVE  q = p
      BY <2>1 DEF Place
    <2>2. CASE Ended(q)
      BY <2>2 DEF Ended
    <2>3. CASE \/ \E h \in Hashes, noAdd \in BOOLEAN : Enter(q, h, noAdd)
               \/ \E as \in {"queued", "torrent"} : Create(q, as)
               \/ \E b \in BOOLEAN : Created(q, b)
      BY <2>3 DEF Enter, Create, Created
    <2>4. CASE \/ \E answer \in {"link", "failed", "throttled", "rejected", "gone"} :
                    HeldAnswer(q, answer)
               \/ LookupFound(q) \/ LookupMissed(q) \/ Send(q)
               \/ \E b \in BOOLEAN : Admit(q, b)
      BY <2>1, <2>4 DEF HeldAnswer, LookupFound, LookupMissed, Send, Admit
    <2>5. CASE \/ Parked(q) \/ Unrecognised(q)
               \/ \E status \in {"declined", "rejected"} : Declined(q, status)
               \/ \E cause \in Causes : Lost(q, cause) \/ Torn(q, cause)
      BY <2>2, <2>5 DEF Parked, Unrecognised, Declined, Lost, Torn
    <2> QED BY <1>1, <2>3, <2>4, <2>5 DEF OwnStep
  <1>2. ASSUME NEW h \in Hashes,
               Discover(h) \/ DiscoverQueued(h) \/ Promote(h) \/ Remove(h) \/ Lapse(h)
        PROVE  FALSE
    BY <1>2 DEF Discover, DiscoverQueued, Promote, Remove, Lapse
  <1>3. ~UNCHANGED vars
    BY DEF vars
  <1>4. (\E q \in Polls : OwnStep(q)) \/ Tick \/ Restart
    BY <1>2, <1>3 DEF Next, OwnStep
  <1> QED BY <1>1, <1>4

(* What a poll passes through on its way to an add (addMagnet).            *)
LEMMA AdmittedBy ==
  ASSUME IInv, [Next]_vars, NEW p \in Polls, poll[p].at = "admit", poll'[p].at = "send"
  PROVE  ~AddOutcomeUnknown(poll[p].hash) /\ ~UnknownTooLong(poll[p].hash)
PROOF
  <1>1. poll \in [Polls -> Poll]
    BY DEF IInv, TypeOK
  <1>2. OwnStep(p) \/ Tick \/ Restart
    BY <1>1, MovedBy
  <1>3. ~Tick /\ ~Restart
    <2>1. poll[p] \in Poll
      BY <1>1
    <2>2. ~Restart
      BY DEF Restart, Idle
    <2>3. ~Tick
      BY <2>1 DEF Tick, Poll
    <2> QED BY <2>2, <2>3
  <1>4. PICK charge \in BOOLEAN : Admit(p, charge)
    BY <1>1, <1>2, <1>3 DEF OwnStep, Enter, HeldAnswer, LookupFound, LookupMissed, Send, Parked,
       Unrecognised, Created, Create, Declined, Lost, Torn
  <1>5. ~Place(p, "idle")
    BY <1>1 DEF Place, Places, Poll
  <1> QED BY <1>4, <1>5 DEF Admit

(* A step of a read-only poll: where it leads, and what it leaves alone.   *)
LEMMA ReadOnlyStep ==
  ASSUME IInv, IInv', NEW p \in Polls, poll[p].noAdd, poll[p].at # "idle", OwnStep(p)
  PROVE  /\ poll'[p].at \notin {"admit", "send", "sent"}
         /\ UNCHANGED refused
PROOF
  <1>1. poll \in [Polls -> Poll] /\ poll[p].at \in {"held", "lookup", "promoted"}
    BY DEF IInv, TypeOK, Reading
  <1>2. \/ \E answer \in {"link", "failed", "throttled", "rejected", "gone"} : HeldAnswer(p, answer)
        \/ LookupFound(p) \/ LookupMissed(p)
    BY <1>1 DEF OwnStep, Enter, Send, Parked, Unrecognised, Admit, Created, Create, Declined,
       Lost, Torn
  <1>3. UNCHANGED refused
    BY <1>1, <1>2 DEF HeldAnswer, LookupFound, LookupMissed, memory, Unrecorded, Rejected,
       ThrottledFor
  <1>4. poll'[p].at \notin {"admit", "send", "sent"}
    <2>1. CASE poll'[p].noAdd
      BY <2>1 DEF IInv, Reading
    <2>2. poll'[p].noAdd = poll[p].noAdd
      <3>1. \E place : Place(p, place)
        BY <1>2 DEF HeldAnswer, LookupFound, LookupMissed
      <3> QED BY <1>1, <3>1 DEF Place, Poll
    <2> QED BY <2>1, <2>2
  <1> QED BY <1>3, <1>4
-----------------------------------------------------------------------------
LEMMA Invariant == Spec => []IInv
  BY InitIInv, NextIInv, PTL DEF Spec

(* Every variable of the model has its type, and every timer the life of   *)
(* its entry for a bound (putBool and putStamp with their lives).          *)
THEOREM TypeCorrect == Spec => []TypeOK
PROOF
  <1>1. IInv => TypeOK
    BY DEF IInv
  <1> QED BY <1>1, Invariant, PTL

(* While any add of a release is unanswered and its marker should live, no *)
(* poll is admitted to another (addMagnet's look at addAttemptKey).        *)
THEOREM AdmissionWaits == Spec => AdmitWaitsForTheAnswer
PROOF
  <1>1. IInv /\ [Next]_vars =>
          [\A p \in Polls : poll[p].at = "admit" /\ poll'[p].at = "send" =>
             pending[poll[p].hash] = 0]_vars
    <2> SUFFICES ASSUME IInv, [Next]_vars, NEW p \in Polls,
                        poll[p].at = "admit", poll'[p].at = "send"
                 PROVE  pending[poll[p].hash] = 0
      OBVIOUS
    <2>1. poll[p].hash \in Hashes /\ Counters /\ Marked
      BY TypeParts DEF IInv, Poll
    <2>2. ~(attempt[poll[p].hash] > 0)
      BY AdmittedBy DEF AddOutcomeUnknown
    <2> QED BY <2>1, <2>2 DEF Marked, Counters
  <1> QED BY <1>1, Invariant, PTL DEF Spec, AdmitWaitsForTheAnswer

(* A service that only ever resets connections is given up once it has     *)
(* been silent for GiveUp (unknownTooLong).  Of a service that lets scout  *)
(* time out this is not so, and the hypothesis says it is not meant.       *)
THEOREM SilenceIsGivenUp ==
  ASSUME "timeout" \notin SilentCauses
  PROVE  Spec => SilenceEndsAdds
PROOF
  <1>1. IInv /\ Stamped /\ [Next]_vars => Stamped'
    BY NextStamped
  <1>2. IInv /\ Stamped /\ [Next]_vars =>
          [\A p \in Polls :
             LET h == poll[p].hash
             IN poll[p].at = "admit" /\ poll'[p].at = "send" /\ silence[h] > 0 =>
                  UnknownTTL - silence[h] <= GiveUp]_vars
    <2> SUFFICES ASSUME IInv, Stamped, [Next]_vars, NEW p \in Polls,
                        poll[p].at = "admit", poll'[p].at = "send", silence[poll[p].hash] > 0
                 PROVE  UnknownTTL - silence[poll[p].hash] <= GiveUp
      OBVIOUS
    <2>1. poll[p].hash \in Hashes /\ Counters
      BY TypeParts DEF IInv, Poll
    <2>2. unknown[poll[p].hash] = silence[poll[p].hash]
      BY <2>1 DEF Stamped
    <2>3. ~UnknownTooLong(poll[p].hash)
      BY AdmittedBy
    <2> QED BY <2>1, <2>2, <2>3, Durations DEF UnknownTooLong, Counters
  <1> QED BY <1>1, <1>2, InitIInv, Invariant, PTL DEF Spec, SilenceEndsAdds

(* A read-only poll never gets on the way to an add and never writes a     *)
(* backoff of a release (Resolve's noAdd branches, recordRefusalFor).      *)
THEOREM ReadOnlyReads == Spec => ReadOnlyPollsOnlyRead
PROOF
  <1>1. IInv /\ IInv' /\ [Next]_vars =>
          [\A p \in Polls :
             poll[p].noAdd /\ poll[p].at # "idle" /\ poll'[p] # poll[p] =>
               /\ poll'[p].at \notin {"admit", "send", "sent"}
               /\ \A h \in Hashes : refused'[h] <= refused[h]]_vars
    <2> SUFFICES ASSUME IInv, IInv', [Next]_vars, NEW p \in Polls,
                        poll[p].noAdd, poll[p].at # "idle", poll'[p] # poll[p]
                 PROVE  /\ poll'[p].at \notin {"admit", "send", "sent"}
                        /\ \A h \in Hashes : refused'[h] <= refused[h]
      OBVIOUS
    <2>1. poll \in [Polls -> Poll] /\ refused \in [Hashes -> 0..RefusalTTL]
      BY DEF IInv, TypeOK
    <2>2. OwnStep(p) \/ Tick \/ Restart
      BY <2>1, MovedBy
    <2>3. CASE OwnStep(p)
      BY <2>1, <2>3, ReadOnlyStep
    <2>4. CASE Tick
      <3>1. poll'[p].at = poll[p].at
        BY <2>1, <2>4 DEF Tick, Poll
      <3>2. poll[p].at \in {"idle", "held", "lookup", "promoted"}
        BY DEF IInv, Reading
      <3>3. \A h \in Hashes : refused'[h] <= refused[h]
        BY <2>1, <2>4 DEF Tick, Less
      <3> QED BY <3>1, <3>2, <3>3
    <2>5. CASE Restart
      BY <2>1, <2>5 DEF Restart, Idle
    <2> QED BY <2>2, <2>3, <2>4, <2>5
  <1> QED BY <1>1, Invariant, PTL DEF Spec, ReadOnlyPollsOnlyRead
=============================================================================
