---------------------------- MODULE Premiumize ----------------------------
(***************************************************************************)
(* How src/internal/scout/stores.go resolves one release on one Premiumize *)
(* account.  There is one call, directdl, and it is both the question and  *)
(* the purchase: it hands out the content of what the account has, and     *)
(* starts a transfer of what it has not.  Scout tells the two apart by     *)
(* what it remembers: a queue marker (it started a transfer, stamped with  *)
(* the time), a held mark (content came back within six hours), and the    *)
(* memories of an add that TorBoxAdd has too.                              *)
(*                                                                         *)
(* Premiumize deals with a request at one moment (Carry) and its answer is *)
(* read at a later one, so answers arrive in any order.  A poll reads all  *)
(* its guards in one step (Enter) and charges, marks and sends in another. *)
(*                                                                         *)
(* A definition whose name starts with Bad is a plausible bug in the       *)
(* definition after it; no behaviour of Spec uses it.                      *)
(***************************************************************************)
EXTENDS Integers, FiniteSets

CONSTANTS Polls,         \* requests in progress at once
          Allowance,     \* adds the hourly budget has left
          AttemptTTL,    \* addAttemptTTL, in ticks of resolveBudget
          RefusalTTL,    \* refusalBackoff
          GiveUp,        \* addGiveUp
          UnknownTTL,    \* unknownOutcomeTTL
          PendingGiveUp, \* pendingGiveUp
          QueuedTTL,     \* queuedTTL
          MaxTold        \* bound: where told stops counting

ASSUME BoundsAssumption == Allowance \in Nat /\ MaxTold \in Nat
ASSUME TTLAssumption ==
  /\ {AttemptTTL, GiveUp, UnknownTTL, PendingGiveUp, QueuedTTL} \subseteq Nat
  /\ RefusalTTL \in Nat \ {0}
  /\ 1 < AttemptTTL /\ AttemptTTL < GiveUp /\ GiveUp < UnknownTTL
  /\ AttemptTTL < PendingGiveUp /\ PendingGiveUp < QueuedTTL

VARIABLES
  poll,      \* each poll: where it is, and what it has read or been answered
  \* scout's memories; a timer holds the ticks its entry has left, 0: none
  attempt,   \* addAttemptKey, a timer
  unknown,   \* unknownOutcomeKey, a timer
  refused,   \* refusedKey, a timer
  rejected,  \* accountRefusedKey, a timer
  queued,    \* pmQueuedKey, a timer
  held,      \* pmHeldKey
  spent,     \* adds charged to the hourly budget
  \* Premiumize
  has,       \* what the account has of the release: "none", "transfer" or "content"
  \* history, read by no action
  owed,      \* charges that stand: something was queued, or nobody knows
  told       \* for how many ticks on end "coming" has been the answer

guards == <<attempt, unknown, refused, rejected>>
marks == <<queued, held>>
vars == <<poll, guards, marks, spent, has, owed, told>>

Places == {"idle", "send", "sent"}
\* queued: the marker as it was read; got: what Premiumize made of the request
Poll == [at: Places, noAdd: BOOLEAN, queued: BOOLEAN, aged: BOOLEAN,
         got: {"nothing", "content", "transfer", "refusal"}]
Idle == [at |-> "idle", noAdd |-> FALSE, queued |-> FALSE, aged |-> FALSE, got |-> "nothing"]
Ended(p) == poll' = [poll EXCEPT ![p] = Idle]

AlreadyQueued == queued > 0
HoldsTorrent == AlreadyQueued \/ held
UnknownTooLong == unknown > 0 /\ UnknownTTL - unknown > GiveUp
AddStillBelievable == attempt > 0 /\ ~UnknownTooLong
BackedOff == rejected > 0 \/ refused > 0
PendingTooLong == queued > 0 /\ QueuedTTL - queued >= PendingGiveUp

(* The reporter AddInFlight, which the probe route answers "downloading"   *)
(* from.  A refusal on record outranks the queue marker.                   *)
Coming == AddStillBelievable \/ (~BackedOff /\ AlreadyQueued /\ ~PendingTooLong)
-----------------------------------------------------------------------------
(* Resolve up to the call.  A read-only poll passes if scout queued a      *)
(* transfer or was served the release before.                              *)
Enter(p, noAdd) ==
  /\ poll[p].at = "idle"
  /\ noAdd => HoldsTorrent
  /\ attempt = 0 /\ ~UnknownTooLong /\ ~BackedOff
  /\ poll' = [poll EXCEPT ![p] = [Idle EXCEPT !.at = "send", !.noAdd = noAdd, !.queued = AlreadyQueued]]
  /\ UNCHANGED <<guards, marks, spent, has, owed>>

(* A transfer scout queued is paid for; anything else is charged before    *)
(* the call, or refused by the clock or the budget.  Only a poll that may  *)
(* add writes the add's marker.                                            *)
Send(p) ==
  /\ poll[p].at = "send"
  /\ \/ /\ poll[p].queued \/ spent < Allowance
        /\ spent' = IF poll[p].queued THEN spent ELSE spent + 1
        /\ attempt' = IF poll[p].noAdd THEN attempt ELSE AttemptTTL
        /\ poll' = [poll EXCEPT ![p].at = "sent"]
     \/ /\ ~poll[p].queued
        /\ Ended(p)
        /\ UNCHANGED <<spent, attempt>>
  /\ UNCHANGED <<unknown, refused, rejected, marks, has, owed>>

(* Premiumize deals with the request.  What it does not have it starts a   *)
(* transfer of, unless it has the content in its cache.                    *)
Carry(p, got) ==
  /\ poll[p].at = "sent" /\ poll[p].got = "nothing"
  /\ \/ got = "refusal" /\ UNCHANGED has
     \/ got = has /\ UNCHANGED has
     \/ got \in {"content", "transfer"} /\ has = "none" /\ has' = got
  /\ poll' = [poll EXCEPT ![p].got = got]
  /\ UNCHANGED <<guards, marks, spent, owed>>

\* settleAddAttempt, for a read-only poll's answer too
Settle == attempt' = 0 /\ unknown' = 0
Refunded(p) == spent' = IF poll[p].queued \/ spent = 0 THEN spent ELSE spent - 1

(* Another status, or a 200 that is no success: nothing was queued.  It is *)
(* remembered against the release, by a read-only poll too.                *)
Declined(p, account) ==
  /\ poll[p].at = "sent" /\ poll[p].got = "refusal"
  /\ Settle
  /\ Refunded(p)
  /\ IF account THEN rejected' = RefusalTTL /\ UNCHANGED refused
                ELSE refused' = RefusalTTL /\ UNCHANGED rejected
  /\ Ended(p)
  /\ UNCHANGED <<marks, has, owed>>

BadNoteQueued(p) == queued' = QueuedTTL  \* on every poll
NoteQueued(p) == queued' = IF poll[p].queued THEN queued ELSE QueuedTTL

(* Success without content: a transfer, whose charge stands.  The account  *)
(* does not have the release.  Past pendingGiveUp the poll is told the     *)
(* link is dead, before it that the release is coming; nothing else        *)
(* differs.                                                                *)
Pending(p) ==
  /\ poll[p].at = "sent" /\ poll[p].got = "transfer"
  /\ Settle
  /\ held' = FALSE
  /\ NoteQueued(p)
  /\ owed' = IF poll[p].queued THEN owed ELSE owed + 1
  /\ Ended(p)
  /\ UNCHANGED <<refused, rejected, spent, has>>

(* Content: nothing was queued, so nothing is charged, whatever becomes of *)
(* the choice of a file.  Only a poll that may add settles the queue       *)
(* marker, and leaves the held mark in its place.                          *)
BadServedMarks(p) ==  \* a read-only poll settles the marker
  queued' = 0 /\ held' = (held \/ ~poll[p].noAdd)

ServedMarks(p) ==
  IF poll[p].noAdd THEN UNCHANGED marks ELSE queued' = 0 /\ held' = TRUE

BadServed(p, found) ==  \* the refund waits for the file to be found
  /\ poll[p].at = "sent" /\ poll[p].got = "content"
  /\ Settle
  /\ IF found THEN Refunded(p) ELSE UNCHANGED spent
  /\ ServedMarks(p)
  /\ Ended(p)
  /\ UNCHANGED <<refused, rejected, has, owed>>

Served(p, found) ==
  /\ poll[p].at = "sent" /\ poll[p].got = "content"
  /\ Settle
  /\ Refunded(p)
  /\ ServedMarks(p)
  /\ Ended(p)
  /\ UNCHANGED <<refused, rejected, has, owed>>

NoteUnknownOutcome(cause) ==  \* stamps the first failure, never a cancellation
  unknown' = IF unknown = 0 /\ cause = "reset" THEN UnknownTTL ELSE unknown

(* No answer, or one whose body could not be read: the charge and the      *)
(* marker stay.                                                            *)
NeverHeard(p) ==
  /\ poll[p].at = "sent"
  /\ owed' = IF poll[p].queued THEN owed ELSE owed + 1
  /\ Ended(p)
  /\ UNCHANGED <<attempt, rejected, marks, spent, has>>

Lost(p, cause) ==
  /\ NeverHeard(p)
  /\ IF attempt > 0
       THEN NoteUnknownOutcome(cause) /\ UNCHANGED refused
       ELSE refused' = (IF cause = "reset" THEN RefusalTTL ELSE refused) /\ UNCHANGED unknown

Torn(p, cause) ==
  /\ NeverHeard(p)
  /\ poll[p].got # "nothing"
  /\ IF UnknownTooLong THEN UNCHANGED unknown ELSE NoteUnknownOutcome(cause)
  /\ UNCHANGED refused
-----------------------------------------------------------------------------
(* Premiumize finishes the transfer, or loses what it has.                 *)
Finish ==
  /\ has = "transfer"
  /\ has' = "content"
  /\ UNCHANGED <<poll, guards, marks, spent, owed, told>>

Drop ==
  /\ has # "none"
  /\ has' = "none"
  /\ UNCHANGED <<poll, guards, marks, spent, owed, told>>

(* The held mark's six hours end, or it is evicted. *)
Lapse ==
  /\ held
  /\ held' = FALSE
  /\ UNCHANGED <<poll, guards, queued, spent, has, owed, told>>

BadLess(t) == t - 1  \* an entry's life goes on past its end
Less(t) == IF t > 0 THEN t - 1 ELSE 0

(* resolveBudget is less than half of addAttemptTTL: one tick at most      *)
(* passes over a poll.                                                     *)
Tick ==
  /\ \A p \in Polls : ~poll[p].aged
  /\ poll' = [p \in Polls |-> [poll[p] EXCEPT !.aged = poll[p].at # "idle"]]
  /\ attempt' = Less(attempt) /\ unknown' = Less(unknown)
  /\ refused' = Less(refused) /\ rejected' = Less(rejected) /\ queued' = Less(queued)
  /\ told' = IF Coming /\ Coming' THEN (IF told < MaxTold THEN told + 1 ELSE told) ELSE 0
  /\ UNCHANGED <<held, spent, has, owed>>

(* A behaviour is one life of the process: the held mark is on disk, all   *)
(* else is in memory.                                                      *)
Init ==
  /\ poll = [p \in Polls |-> Idle]
  /\ attempt = 0 /\ unknown = 0 /\ refused = 0 /\ rejected = 0
  /\ queued = 0 /\ held \in BOOLEAN
  /\ spent = 0 /\ has \in {"none", "transfer", "content"}
  /\ owed = 0 /\ told = 0

PollStep(p) ==
  \/ \E noAdd \in BOOLEAN : Enter(p, noAdd)
  \/ Send(p) \/ Pending(p)
  \/ \E got \in {"content", "transfer", "refusal"} : Carry(p, got)
  \/ \E b \in BOOLEAN : Declined(p, b) \/ Served(p, b)
  \/ \E cause \in {"reset", "cancelled"} : Lost(p, cause) \/ Torn(p, cause)

Next ==
  \/ \E p \in Polls : PollStep(p) /\ told' = IF Coming' THEN told ELSE 0
  \/ Finish \/ Drop \/ Lapse
  \/ Tick

Spec == Init /\ [][Next]_vars
-----------------------------------------------------------------------------
(* Every variable has its type. *)
TypeOK ==
  /\ poll \in [Polls -> Poll]
  /\ attempt \in 0..AttemptTTL /\ unknown \in 0..UnknownTTL
  /\ refused \in 0..RefusalTTL /\ rejected \in 0..RefusalTTL
  /\ queued \in 0..QueuedTTL /\ held \in BOOLEAN
  /\ spent \in 0..Allowance /\ has \in {"none", "transfer", "content"}
  /\ owed \in Nat /\ told \in 0..MaxTold

(* "Coming is a claim with a deadline": however many polls ask, and however *)
(* their answers cross, a release is called downloading without a break for *)
(* no longer than pendingGiveUp and the life of the marker of an add that   *)
(* goes out just before.                                                    *)
ComingIsADeadline == told <= PendingGiveUp + AttemptTTL

(* What the budget is charged for is what directdl may have queued: every  *)
(* charge belongs to a poll that is out, to a transfer, or to an answer    *)
(* nobody read.  Plays of what the account has cost nothing, also when     *)
(* they find no file.                                                      *)
ChargesAreTransfers ==
  spent = owed + Cardinality({p \in Polls : poll[p].at = "sent" /\ ~poll[p].queued})

(* Once scout can name Premiumize a holder of a release, only an answer    *)
(* that the content is not there, or time, takes that away: no play and no *)
(* probe ends the readiness enquiry of the next one.                       *)
HolderStaysNamed ==
  [][\A p \in Polls :
       poll'[p].at = "idle" /\ poll[p].at # "idle" /\ HoldsTorrent /\ ~HoldsTorrent'
         => poll[p].got = "transfer"]_vars

(* "A probe reports what is true right now and starts nothing": no         *)
(* read-only poll makes Premiumize start a transfer.                       *)
ProbesStartNothing ==
  [][\A p \in Polls :
       poll[p].noAdd /\ poll[p].got = "nothing" /\ poll'[p].got # "nothing"
         => ~(has = "none" /\ has' = "transfer")]_vars
=============================================================================
