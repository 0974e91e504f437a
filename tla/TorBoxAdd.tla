----------------------------- MODULE TorBoxAdd -----------------------------
(***************************************************************************)
(* How src/internal/scout/stores.go resolves a release on one TorBox       *)
(* account: a /play poll reads scout's own memories of the release, asks   *)
(* TorBox about a torrent it knows, and in the last resort pays for an add *)
(* (createtorrent).  There is no singleflight: several polls of one        *)
(* release run at once, and share the memories, which live in the          *)
(* in-memory cache under keys of the release.                              *)
(*                                                                         *)
(* A poll is atomic between two network calls, except that admission to an *)
(* add (addMagnet's own look at the memories and the charge) and the       *)
(* sending of it are steps of their own.  TorBox itself is external: it    *)
(* creates what it was sent at any moment, and answers, or not.            *)
(*                                                                         *)
(* A definition whose name starts with Bad is a plausible bug in the       *)
(* definition after it; no behaviour of Spec uses it.                      *)
(***************************************************************************)
EXTENDS Integers, FiniteSets

CONSTANTS Polls,         \* requests in progress at once
          Hashes,        \* releases
          AttemptTTL,    \* addAttemptTTL, in ticks of resolveBudget
          RefusalTTL,    \* refusalBackoff
          GiveUp,        \* addGiveUp
          UnknownTTL,    \* unknownOutcomeTTL
          SilentCauses   \* what the history counts as the service going quiet:
                         \* a subset of {"reset", "timeout"}

ASSUME TTLAssumption ==
  /\ AttemptTTL \in Nat /\ RefusalTTL \in Nat \ {0} /\ GiveUp \in Nat /\ UnknownTTL \in Nat
  /\ 1 < AttemptTTL /\ AttemptTTL < GiveUp /\ GiveUp < UnknownTTL
ASSUME CausesAssumption == SilentCauses \subseteq {"reset", "timeout"}

VARIABLES
  poll,      \* each poll: where it is, what it asks for, whether a tick passed over it
  \* scout's memories of a release; a timer holds the ticks its entry has left,
  \* 0 when there is none
  attempt,   \* addAttemptKey, a timer: an add went out and was not heard of
  unknown,   \* unknownOutcomeKey, a timer: scout failed to learn what an add did
  refused,   \* refusedKey, a timer: TorBox is said to have declined this release
  rejected,  \* accountRefusedKey, a timer: TorBox is said to have turned the account away
  tid,       \* torrentIDKey: the account is known to hold the release
  qid,       \* torboxQueuedKey: the add is known to be parked in TorBox's queue
  \* TorBox
  holds,     \* holds[h]: "none", "queued" or "torrent"
  \* history, read by no action; timers too
  pending,   \* started when an add goes out, stopped when any add of h is answered
  silence    \* started when an add first goes unanswered, stopped when one is answered

memory == <<attempt, unknown, refused, rejected, tid, qid>>
history == <<pending, silence>>
vars == <<poll, memory, holds, history>>

\* Where a poll is: "held", "promoted" and "fresh" wait for TorBox's answer
\* about a torrent (remembered, just discovered, just created), "lookup" for the
\* account listing, "sent" for the answer to createtorrent.
Places == {"idle", "held", "lookup", "promoted", "admit", "send", "sent", "fresh"}
Poll == [at: Places, hash: Hashes, noAdd: BOOLEAN, aged: BOOLEAN,
         took: {"no", "queued", "torrent"}]

AddOutcomeUnknown(h) == attempt[h] > 0
\* the stamp is written once, so its age is what is gone of its life
UnknownTooLong(h) == unknown[h] > 0 /\ UnknownTTL - unknown[h] > GiveUp
AddStillBelievable(h) == ~UnknownTooLong(h) /\ AddOutcomeUnknown(h)
AccountBackedOff == rejected > 0
BackedOff(h) == AccountBackedOff \/ refused[h] > 0
-----------------------------------------------------------------------------
(* Resolve's cascade from the queue marker on: what it does next, or the   *)
(* answer it gives at once.                                                *)
BadBelowHeld(h, noAdd) ==  \* forgets that the caller is read-only
  IF qid[h] THEN "lookup"
  ELSE IF UnknownTooLong(h) THEN "dead link"
  ELSE IF AddOutcomeUnknown(h) THEN "add in flight"
  ELSE IF BackedOff(h) THEN "unavailable"
  ELSE "admit"

BelowHeld(h, noAdd) ==
  IF qid[h] THEN "lookup"
  ELSE IF noAdd THEN "would add"
  ELSE IF UnknownTooLong(h) THEN "dead link"
  ELSE IF AddOutcomeUnknown(h) THEN "add in flight"
  ELSE IF BackedOff(h) THEN "unavailable"
  ELSE "admit"

(* Resolve's cascade from the top.  The warm entry is the held path with   *)
(* its file list remembered, and leads to the same places.                 *)
FromTheTop(h, noAdd) ==
  IF AccountBackedOff THEN "unavailable"
  ELSE IF ~noAdd /\ ~AddStillBelievable(h) /\ BackedOff(h) THEN "unavailable"
  ELSE IF tid[h] THEN "held"
  ELSE BelowHeld(h, noAdd)

\* An answer ends the poll; anything else is where it goes on.
Place(p, place) ==
  poll' = [poll EXCEPT ![p].at = IF place \in Places THEN place ELSE "idle"]

Idle(h) == [at |-> "idle", hash |-> h, noAdd |-> FALSE, aged |-> FALSE, took |-> "no"]

Enter(p, h, noAdd) ==
  /\ poll[p].at = "idle"
  /\ poll' = [poll EXCEPT ![p] =
       IF FromTheTop(h, noAdd) \in Places
         THEN [Idle(h) EXCEPT !.at = FromTheTop(h, noAdd), !.noAdd = noAdd]
         ELSE @]
  /\ UNCHANGED <<memory, holds, history>>

\* recordRefusal and recordRefusalFor: what a refusal is remembered as.
Throttled(h) == refused' = [refused EXCEPT ![h] = RefusalTTL] /\ UNCHANGED rejected
Rejected == rejected' = RefusalTTL /\ UNCHANGED refused
Unrecorded == UNCHANGED <<refused, rejected>>

ThrottledFor(h, noAdd) == IF noAdd THEN Unrecorded ELSE Throttled(h)

\* settleAddAttempt: an outcome, of any kind, ends the run of not knowing.
Settle(h) == attempt' = [attempt EXCEPT ![h] = 0] /\ unknown' = [unknown EXCEPT ![h] = 0]
Answered(h) == pending' = [pending EXCEPT ![h] = 0] /\ silence' = [silence EXCEPT ![h] = 0]
-----------------------------------------------------------------------------
(* TorBox answers a poll about a torrent it knows, by id: resolveHeldTorrent *)
(* and what its callers make of it.  Whatever the answer, the id is stamped  *)
(* again, unless the answer is that the account no longer has the torrent.   *)
HeldAnswer(p, answer) ==
  LET h == poll[p].hash
      noAdd == poll[p].noAdd
  IN /\ poll[p].at \in {"held", "promoted", "fresh"}
     /\ answer = "gone" => holds[h] # "torrent"
     /\ answer = "link" => holds[h] = "torrent"
     /\ \/ /\ answer \in {"link", "failed"}  \* failed: not ready, cancelled, no file list
           /\ tid' = [tid EXCEPT ![h] = TRUE]
           /\ Unrecorded /\ Place(p, "idle")
        \/ /\ answer = "throttled"
           /\ tid' = [tid EXCEPT ![h] = TRUE]
           /\ ThrottledFor(h, noAdd) /\ Place(p, "idle")
        \/ /\ answer = "rejected"
           /\ tid' = [tid EXCEPT ![h] = TRUE]
           /\ Rejected /\ Place(p, "idle")
        \/ /\ answer = "gone" /\ poll[p].at = "held"
           /\ tid' = [tid EXCEPT ![h] = FALSE]
           /\ Unrecorded /\ Place(p, BelowHeld(h, noAdd))
        \/ /\ answer = "gone" /\ poll[p].at = "promoted"
           /\ \E known \in BOOLEAN : tid' = [tid EXCEPT ![h] = known /\ @]  \* by list, or by link
           /\ Unrecorded /\ Place(p, "idle")
        \/ /\ answer = "gone" /\ poll[p].at = "fresh"  \* created, and then denied
           /\ \E known \in BOOLEAN : tid' = [tid EXCEPT ![h] = known /\ @]
           /\ Throttled(h) /\ Place(p, "idle")
     /\ UNCHANGED <<attempt, unknown, qid, holds, pending, silence>>

(* torrentID finds the release in the account listing: it is remembered,   *)
(* and whatever add was out for it has plainly landed.  A poll of a parked *)
(* add (Resolve) and a status read (StatusAnswer) both get here.           *)
Found(h) ==
  /\ holds[h] = "torrent"
  /\ tid' = [tid EXCEPT ![h] = TRUE]
  /\ Settle(h) /\ Answered(h)

LookupFound(p) ==
  LET h == poll[p].hash IN
  /\ poll[p].at = "lookup"
  /\ IF tid[h] THEN UNCHANGED <<tid, attempt, unknown, pending, silence>> ELSE Found(h)
  /\ qid' = [qid EXCEPT ![h] = FALSE]
  /\ Place(p, "promoted")
  /\ UNCHANGED <<refused, rejected, holds>>

LookupMissed(p) ==  \* not in the listing, or no listing: still parked
  /\ poll[p].at = "lookup"
  /\ ~tid[poll[p].hash]
  /\ Place(p, "idle")
  /\ UNCHANGED <<memory, holds, history>>

Discover(h) ==
  /\ ~tid[h]
  /\ Found(h)
  /\ UNCHANGED <<poll, refused, rejected, qid, holds>>

(* A status read that missed the account listing finds the release in     *)
(* TorBox's queue.  That settles nothing.                                  *)
DiscoverQueued(h) ==
  /\ ~qid[h]
  /\ holds[h] = "queued"
  /\ qid' = [qid EXCEPT ![h] = TRUE]
  /\ UNCHANGED <<poll, attempt, unknown, refused, rejected, tid, holds, history>>
-----------------------------------------------------------------------------
(* Resolve's error branch after an add.  It asks the release's marker, not *)
(* the poll's own fate, whether the outcome is unknown: with the marker    *)
(* live, a cause that is neither a cancellation nor "already in flight"    *)
(* starts the clock on not knowing; with the marker gone the error is      *)
(* remembered as TorBox's refusal, unless it is scout's own.               *)
BadNoteUnknownOutcome(h) ==  \* restamps, so the deadline moves on with every add
  unknown' = [unknown EXCEPT ![h] = UnknownTTL]

NoteUnknownOutcome(h) ==  \* stamps the first failure, never restamps
  unknown' = [unknown EXCEPT ![h] = IF @ > 0 THEN @ ELSE UnknownTTL]

(* addMagnet's own look at the memories, then the caller's clock and the   *)
(* budget (spendAdd), which may refuse for reasons outside this module.    *)
(* Between this poll's look and its error branch another poll may write    *)
(* the marker, and then even scout's own refusal starts the clock.         *)
Admit(p, charge) ==
  LET h == poll[p].hash IN
  /\ poll[p].at = "admit"
  /\ \/ /\ charge /\ ~UnknownTooLong(h) /\ ~AddOutcomeUnknown(h)
        /\ Place(p, "send")
        /\ UNCHANGED <<unknown, refused>>
     \/ /\ ~charge /\ ~UnknownTooLong(h)  \* in flight, or scout's own refusal
        /\ Place(p, "idle")
        /\ \/ UNCHANGED unknown
           \/ AddOutcomeUnknown(h) /\ NoteUnknownOutcome(h)
        /\ UNCHANGED refused
     \/ /\ ~charge /\ UnknownTooLong(h)   \* a dead link, which the error branch files
        /\ Place(p, "idle")
        /\ IF AddOutcomeUnknown(h) THEN UNCHANGED refused ELSE refused' = [refused EXCEPT ![h] = RefusalTTL]
        /\ UNCHANGED unknown
  /\ UNCHANGED <<attempt, rejected, tid, qid, holds, history>>

(* noteAddAttempt, then the request: the marker is written first. *)
Send(p) ==
  LET h == poll[p].hash IN
  /\ poll[p].at = "send"
  /\ attempt' = [attempt EXCEPT ![h] = AttemptTTL]
  /\ pending' = [pending EXCEPT ![h] = AttemptTTL]
  /\ Place(p, "sent")
  /\ UNCHANGED <<unknown, refused, rejected, tid, qid, holds,
                 silence>>

(* TorBox carries the add out: a torrent, or a place in its queue. *)
Create(p, as) ==
  LET h == poll[p].hash IN
  /\ poll[p].at = "sent" /\ poll[p].took = "no"
  /\ holds[h] # "queued" /\ (holds[h] = "torrent" => as = "torrent")
  /\ holds' = [holds EXCEPT ![h] = as]
  /\ poll' = [poll EXCEPT ![p].took = as]
  /\ UNCHANGED <<memory, pending, silence>>

Ended(p) == poll' = [poll EXCEPT ![p] = Idle(@.hash)]

(* An answer with a torrent id.  A movie's id is remembered at once; an    *)
(* episode's only after the file list came (listed).                       *)
Created(p, listed) ==
  LET h == poll[p].hash IN
  /\ poll[p].at = "sent" /\ poll[p].took = "torrent"
  /\ Settle(h) /\ Answered(h)
  /\ tid' = [tid EXCEPT ![h] = @ \/ ~listed]
  /\ poll' = [poll EXCEPT ![p].at = "fresh", ![p].took = "no"]
  /\ UNCHANGED <<refused, rejected, qid, holds>>

(* An answer with a queued id, or the 400 that says the hash is queued     *)
(* already and is then found in the queue's listing.                        *)
Parked(p) ==
  LET h == poll[p].hash IN
  /\ poll[p].at = "sent"
  /\ poll[p].took = "queued" \/ (poll[p].took = "no" /\ holds[h] = "queued")
  /\ Settle(h) /\ Answered(h)
  /\ qid' = [qid EXCEPT ![h] = TRUE]
  /\ Ended(p)
  /\ UNCHANGED <<refused, rejected, tid, holds>>

(* An answer that created nothing: a 429 or 5xx, a 401 or 403, another     *)
(* 4xx, or a 200 that says success:false.                                  *)
Declined(p, status) ==
  LET h == poll[p].hash IN
  /\ poll[p].at = "sent" /\ poll[p].took = "no"
  /\ Settle(h) /\ Answered(h)
  /\ IF status = "rejected" THEN Rejected ELSE Throttled(h)
  /\ Ended(p)
  /\ UNCHANGED <<tid, qid, holds>>

(* A 200 whose body carries no id this code knows: a torrent may exist; the *)
(* answer is a dead link, remembered as a refusal.                          *)
Unrecognised(p) ==
  LET h == poll[p].hash IN
  /\ poll[p].at = "sent"
  /\ Settle(h) /\ Answered(h)
  /\ Throttled(h)
  /\ Ended(p)
  /\ UNCHANGED <<tid, qid, holds>>

(* No answer.  A reset connection is the service's silence; the request's  *)
(* 30 seconds running out and a client that hung up are both cancellations *)
(* to isCancellation.  The marker stays.                                   *)
Quiet(h, cause) ==
  silence' = [silence EXCEPT ![h] =
                IF cause \in SilentCauses /\ pending[h] > 0 /\ @ = 0 /\ unknown[h] = 0
                  THEN UnknownTTL ELSE @]

Lost(p, cause) ==
  LET h == poll[p].hash IN
  /\ poll[p].at = "sent"
  /\ IF AddOutcomeUnknown(h)
       THEN /\ IF cause = "reset" THEN NoteUnknownOutcome(h) ELSE UNCHANGED unknown
            /\ UNCHANGED refused
       ELSE /\ IF cause = "reset" THEN refused' = [refused EXCEPT ![h] = RefusalTTL] ELSE UNCHANGED refused
            /\ UNCHANGED unknown
  /\ Quiet(h, cause)
  /\ Ended(p)
  /\ UNCHANGED <<attempt, rejected, tid, qid, holds,
                 pending>>

(* A status line whose body could not be read: unknownOutcome.  The marker *)
(* stays, and the clock starts whether or not the marker is still there.   *)
BadTorn(p, cause) ==  \* settles before it reads the body
  LET h == poll[p].hash IN
  /\ poll[p].at = "sent"
  /\ Settle(h)
  /\ Quiet(h, cause)
  /\ Ended(p)
  /\ UNCHANGED <<refused, rejected, tid, qid, holds,
                 pending>>

Torn(p, cause) ==
  LET h == poll[p].hash IN
  /\ poll[p].at = "sent"
  /\ IF cause = "reset" /\ ~UnknownTooLong(h) THEN NoteUnknownOutcome(h) ELSE UNCHANGED unknown
  /\ IF UnknownTooLong(h) /\ ~AddOutcomeUnknown(h)  \* a dead link, which the error branch files
       THEN refused' = [refused EXCEPT ![h] = RefusalTTL] ELSE UNCHANGED refused
  /\ Quiet(h, cause)
  /\ Ended(p)
  /\ UNCHANGED <<attempt, rejected, tid, qid, holds,
                 pending>>
-----------------------------------------------------------------------------
(* TorBox starts a queued add, or loses a torrent or a queued add.         *)
Promote(h) ==
  /\ holds[h] = "queued"
  /\ holds' = [holds EXCEPT ![h] = "torrent"]
  /\ UNCHANGED <<poll, memory, history>>

Remove(h) ==
  /\ holds[h] # "none"
  /\ holds' = [holds EXCEPT ![h] = "none"]
  /\ UNCHANGED <<poll, memory, history>>

(* The remembered ids end after six hours, are evicted, or are forgotten   *)
(* by a cancel that deleted what they name (Remove is the deletion).       *)
Lapse(h) ==
  /\ tid[h] \/ qid[h]
  /\ \E t, q \in BOOLEAN :
       /\ tid' = [tid EXCEPT ![h] = t /\ @]
       /\ qid' = [qid EXCEPT ![h] = q /\ @]
  /\ UNCHANGED <<poll, attempt, unknown, refused, rejected, holds, history>>

(* resolveBudget, 45 seconds, is less than half of addAttemptTTL: one tick *)
(* at most passes over a poll.                                             *)
BadLess(timer) == [h \in Hashes |-> timer[h] - 1]  \* an entry's life goes on past its end
Less(timer) == [h \in Hashes |-> IF timer[h] > 0 THEN timer[h] - 1 ELSE 0]

Tick ==
  /\ \A p \in Polls : ~poll[p].aged
  /\ poll' = [p \in Polls |-> [poll[p] EXCEPT !.aged = poll[p].at # "idle"]]
  /\ attempt' = Less(attempt) /\ unknown' = Less(unknown) /\ refused' = Less(refused)
  /\ rejected' = IF rejected > 0 THEN rejected - 1 ELSE 0
  /\ pending' = Less(pending) /\ silence' = Less(silence)
  /\ UNCHANGED <<tid, qid, holds>>

(* The memories are volatile, the torrent id is kept on disk; the polls    *)
(* are cut off.  The history begins anew with the process.                 *)
Restart ==
  /\ poll' = [p \in Polls |-> Idle(poll[p].hash)]
  /\ attempt' = [h \in Hashes |-> 0] /\ unknown' = [h \in Hashes |-> 0]
  /\ refused' = [h \in Hashes |-> 0] /\ rejected' = 0
  /\ qid' = [h \in Hashes |-> FALSE]
  /\ pending' = [h \in Hashes |-> 0] /\ silence' = [h \in Hashes |-> 0]
  /\ UNCHANGED <<tid, holds>>

Init ==
  /\ \E h \in Hashes : poll = [p \in Polls |-> Idle(h)]
  /\ attempt = [h \in Hashes |-> 0] /\ unknown = [h \in Hashes |-> 0]
  /\ refused = [h \in Hashes |-> 0] /\ rejected = 0
  /\ tid \in [Hashes -> BOOLEAN] /\ qid = [h \in Hashes |-> FALSE]
  /\ holds \in [Hashes -> {"none", "torrent"}]
  /\ pending = [h \in Hashes |-> 0] /\ silence = [h \in Hashes |-> 0]

Causes == {"reset", "timeout", "hung up"}

Next ==
  \/ \E p \in Polls, h \in Hashes, noAdd \in BOOLEAN : Enter(p, h, noAdd)
  \/ \E p \in Polls, answer \in {"link", "failed", "throttled", "rejected", "gone"} :
       HeldAnswer(p, answer)
  \/ \E p \in Polls : LookupFound(p) \/ LookupMissed(p) \/ Send(p) \/ Parked(p) \/ Unrecognised(p)
  \/ \E p \in Polls, b \in BOOLEAN : Admit(p, b) \/ Created(p, b)
  \/ \E p \in Polls, as \in {"queued", "torrent"} : Create(p, as)
  \/ \E p \in Polls, status \in {"declined", "rejected"} : Declined(p, status)
  \/ \E p \in Polls, cause \in Causes : Lost(p, cause) \/ Torn(p, cause)
  \/ \E h \in Hashes : Discover(h) \/ DiscoverQueued(h) \/ Promote(h) \/ Remove(h) \/ Lapse(h)
  \/ Tick
  \/ Restart

Spec == Init /\ [][Next]_vars
-----------------------------------------------------------------------------
(* Every variable has its type. *)
TypeOK ==
  /\ poll \in [Polls -> Poll]
  /\ attempt \in [Hashes -> 0..AttemptTTL] /\ unknown \in [Hashes -> 0..UnknownTTL]
  /\ refused \in [Hashes -> 0..RefusalTTL] /\ rejected \in 0..RefusalTTL
  /\ tid \in [Hashes -> BOOLEAN] /\ qid \in [Hashes -> BOOLEAN]
  /\ holds \in [Hashes -> {"none", "queued", "torrent"}]
  /\ pending \in [Hashes -> 0..AttemptTTL] /\ silence \in [Hashes -> 0..UnknownTTL]

(* An add that went out and was not heard of keeps every later poll from   *)
(* paying for another, for as long as the marker lives: the marker is      *)
(* written before the request, and nothing but an outcome takes it away.   *)
AdmitWaitsForTheAnswer ==
  [][\A p \in Polls :
       poll[p].at = "admit" /\ poll'[p].at = "send" => pending[poll[p].hash] = 0]_vars

(* A service that stops answering is given up: once adds of a release have *)
(* gone unanswered for GiveUp, no further one is paid for in the rest of   *)
(* UnknownTTL.  (A silence that begins under the stamp of an earlier one   *)
(* is not counted anew.)                                                   *)
SilenceEndsAdds ==
  [][\A p \in Polls :
       LET h == poll[p].hash
       IN poll[p].at = "admit" /\ poll'[p].at = "send" /\ silence[h] > 0 =>
            UnknownTTL - silence[h] <= GiveUp]_vars

(* A read-only resolve neither pays nor stops anyone else: a step of a     *)
(* noAdd poll never leads to an add and writes no backoff of the release,  *)
(* even when the torrent it read about is gone.                            *)
ReadOnlyPollsOnlyRead ==
  [][\A p \in Polls :
       poll[p].noAdd /\ poll[p].at # "idle" /\ poll'[p] # poll[p] =>
         /\ poll'[p].at \notin {"admit", "send", "sent"}
         /\ \A h \in Hashes : refused'[h] <= refused[h]]_vars
=============================================================================
