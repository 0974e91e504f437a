---------------------------- MODULE RealDebrid ----------------------------
(***************************************************************************)
(* How src/internal/scout/stores.go resolves the files of one release on   *)
(* one Real-Debrid account.  A poll asks for one file of the release (an   *)
(* episode of a season pack).  Real-Debrid has no lookup by hash and makes *)
(* a new torrent for every addMagnet, so scout remembers the id of the     *)
(* torrent it bought, by a key that stands for the file: the episode, or   *)
(* the position, that was asked for.  A torrent serves the files that were *)
(* selected on it, one link per selected file, in file order.              *)
(*                                                                         *)
(* Keys and files are not one to one.  An episode and a position may name  *)
(* the same file; and an episode the pack does not name is picked by the   *)
(* position its target came with, which the key leaves out.                *)
(*                                                                         *)
(* A poll walks addMagnet, info, selectFiles, info, unrestrict, one step   *)
(* per answer; other polls, Real-Debrid and the account's owner act in     *)
(* between.  The guards around the add are those of TorBoxAdd, read by one *)
(* step (Enter) and acted on by another (Charge).                          *)
(*                                                                         *)
(* A definition whose name starts with Bad is a plausible bug in the       *)
(* definition after it; no behaviour of Spec uses it.                      *)
(***************************************************************************)
EXTENDS Integers, FiniteSets

CONSTANTS Polls,       \* requests in progress at once
          Files,       \* file ids of the release, numbers in file order
          Keys,        \* what rdTorrentKey tells apart
          Asks,        \* targets: the key, and the file pickFileID picks for it
          MaxIds,      \* bound: torrents Real-Debrid creates
          Allowance,   \* adds the hourly budget has left
          AttemptTTL,  \* addAttemptTTL, in ticks of resolveBudget
          RefusalTTL,  \* refusalBackoff
          GiveUp,      \* addGiveUp
          UnknownTTL   \* unknownOutcomeTTL

ASSUME FilesAssumption == Files \subseteq Nat \ {0} /\ IsFiniteSet(Files)
ASSUME AsksAssumption == Asks # {} /\ Asks \subseteq [key: Keys, file: Files]
ASSUME BoundsAssumption == MaxIds \in Nat \ {0} /\ Allowance \in Nat
ASSUME TTLAssumption ==
  /\ AttemptTTL \in Nat /\ RefusalTTL \in Nat \ {0} /\ GiveUp \in Nat /\ UnknownTTL \in Nat
  /\ 1 < AttemptTTL /\ AttemptTTL < GiveUp /\ GiveUp < UnknownTTL

VARIABLES
  poll,      \* each poll: where it is and what it carries from step to step
  \* scout's memories; a timer holds the ticks its entry has left, 0: none
  known,     \* rdTorrentKey: the torrent bought under a key, 0: none
  attempt,   \* addAttemptKey, a timer
  unknown,   \* unknownOutcomeKey, a timer
  refused,   \* refusedKey, a timer
  rejected,  \* accountRefusedKey, a timer
  spent,     \* adds charged to the hourly budget
  \* Real-Debrid
  minted,    \* ids given out in this life: 1..minted
  torrents,  \* by id: whether the account has it, what is selected, whether links are there
  \* history, read by no action
  unheard,   \* adds never heard of that created nothing
  denied     \* a timer, started when Real-Debrid denies a torrent it just created

memory == <<known, attempt, unknown, refused, rejected>>
service == <<minted, torrents>>
vars == <<poll, memory, spent, service, unheard, denied>>

Earlier == MaxIds + 1  \* a torrent from before this life of the process
Ids == 1..Earlier
Torrent == [here: BOOLEAN, chosen: SUBSET Files, ready: BOOLEAN]
Nothing == [here |-> FALSE, chosen |-> {}, ready |-> FALSE]
Places == {"idle", "charge", "sent", "info", "select", "again", "unrestrict"}
\* id: the torrent asked about, or created by an add that is out; link: what
\* is unrestricted and, once idle, what the poll answered (0: no link)
Poll == [at: Places, ask: Asks, noAdd: BOOLEAN, fresh: BOOLEAN, id: {0} \cup Ids,
         link: {0} \cup Files, aged: BOOLEAN]

UnknownTooLong == unknown > 0 /\ UnknownTTL - unknown > GiveUp
AddInFlight == UnknownTooLong \/ attempt > 0
BackedOff == rejected > 0 \/ refused > 0

Idle(a) == [at |-> "idle", ask |-> a, noAdd |-> FALSE, fresh |-> FALSE, id |-> 0,
            link |-> 0, aged |-> FALSE]
Spare == CHOOSE a \in Asks : TRUE  \* what a poll that is over, without a link, asks for
Ended(p) == poll' = [poll EXCEPT ![p] = Idle(Spare)]
Goes(p, place) == poll' = [poll EXCEPT ![p].at = place]

(* What a refusal is remembered as: recordRefusal and recordRefusalFor.    *)
Throttled == refused' = RefusalTTL /\ UNCHANGED rejected
Rejected == rejected' = RefusalTTL /\ UNCHANGED refused
Unrecorded == UNCHANGED <<refused, rejected>>

Recorded(p, answer) ==
  CASE answer = "rejected" -> Rejected
    [] answer = "throttled" /\ ~poll[p].noAdd -> Throttled
    [] OTHER -> Unrecorded
-----------------------------------------------------------------------------
(* Resolve's cascade: the account, a torrent known under this very key,    *)
(* and only then the guards of an add.                                     *)
Entry(a, noAdd) ==
  IF rejected > 0 THEN "unavailable"
  ELSE IF known[a.key] # 0 THEN "info"
  ELSE IF noAdd THEN "would add"
  ELSE IF AddInFlight THEN "in flight, or dead"
  ELSE IF BackedOff THEN "unavailable"
  ELSE "charge"

Enter(p, a, noAdd) ==
  LET entry == Entry(a, noAdd) IN
  /\ poll[p].at = "idle"
  /\ poll' = [poll EXCEPT ![p] =
       IF entry \in Places
         THEN [Idle(a) EXCEPT !.at = entry, !.noAdd = noAdd,
                              !.id = IF entry = "info" THEN known[a.key] ELSE 0]
         ELSE Idle(Spare)]
  /\ UNCHANGED <<memory, spent, service, unheard, denied>>

(* The clock and the budget may refuse, which is scout's own and is not    *)
(* remembered; else the marker is written and addMagnet goes out.          *)
Charge(p) ==
  /\ poll[p].at = "charge"
  /\ \/ /\ spent < Allowance
        /\ spent' = spent + 1
        /\ attempt' = AttemptTTL
        /\ Goes(p, "sent")
     \/ Ended(p) /\ UNCHANGED <<spent, attempt>>
  /\ UNCHANGED <<known, unknown, refused, rejected, service, unheard, denied>>

(* Real-Debrid carries the add out, before it answers or without answering. *)
Create(p) ==
  /\ poll[p].at = "sent" /\ poll[p].id = 0 /\ minted < MaxIds
  /\ minted' = minted + 1
  /\ torrents' = [torrents EXCEPT ![minted + 1].here = TRUE]
  /\ poll' = [poll EXCEPT ![p].id = minted + 1]
  /\ UNCHANGED <<memory, spent, unheard, denied>>

Settle == attempt' = 0 /\ unknown' = 0

Remember(a, id) == known' = [known EXCEPT ![a.key] = id]

(* An id came back: it is remembered for the target, and resolved from.    *)
Created(p) ==
  /\ poll[p].at = "sent" /\ poll[p].id # 0
  /\ Settle
  /\ Remember(poll[p].ask, poll[p].id)
  /\ poll' = [poll EXCEPT ![p].at = "info", ![p].fresh = TRUE]
  /\ UNCHANGED <<refused, rejected, spent, service, unheard, denied>>

(* refundUnusedAdd gives the add back to the budget. *)
BadRefunded == UNCHANGED spent
Refunded == spent' = IF spent > 0 THEN spent - 1 ELSE 0

(* An answer that created nothing: a refusal of either kind (any other     *)
(* status is remembered like a throttle), or a body without an id, behind  *)
(* which there may be a torrent all the same.  The charge goes back, and   *)
(* the answer is remembered.                                               *)
Declined(p, answer) ==
  /\ poll[p].at = "sent"
  /\ answer # "no id" => poll[p].id = 0
  /\ Settle
  /\ Refunded
  /\ IF answer = "rejected" THEN Rejected ELSE Throttled
  /\ Ended(p)
  /\ UNCHANGED <<known, service, unheard, denied>>

NoteUnknownOutcome(cause) ==  \* stamps the first failure, never a cancellation
  unknown' = IF unknown = 0 /\ cause = "reset" THEN UnknownTTL ELSE unknown

NeverHeard(p) ==
  /\ poll[p].at = "sent"
  /\ unheard' = IF poll[p].id = 0 THEN unheard + 1 ELSE unheard
  /\ Ended(p)
  /\ UNCHANGED <<known, attempt, rejected, spent, service, denied>>

(* No answer: the release's marker, which another poll may have settled,   *)
(* decides between not knowing and a refusal.                              *)
Lost(p, cause) ==
  /\ NeverHeard(p)
  /\ IF attempt > 0
       THEN NoteUnknownOutcome(cause) /\ UNCHANGED refused
       ELSE refused' = (IF cause = "reset" THEN RefusalTTL ELSE refused) /\ UNCHANGED unknown

(* An answer whose body could not be read: unknownOutcome.                 *)
Torn(p, cause) ==
  /\ NeverHeard(p)
  /\ IF UnknownTooLong THEN UNCHANGED unknown ELSE NoteUnknownOutcome(cause)
  /\ UNCHANGED refused
-----------------------------------------------------------------------------
(* What info reports: the files it says are selected (a lean answer says   *)
(* nothing of them) and the links, one per selected file, in file order.   *)
Nth(S, n) == CHOOSE g \in S : Cardinality({h \in S : h < g}) = n
Before(S, f) == Cardinality({h \in S : h < f})
Links(id) == IF torrents[id].ready THEN torrents[id].chosen ELSE {}
Reported(id, lean) == IF lean THEN {} ELSE torrents[id].chosen

(* rdLinkFor: the link at the file's position among the selected ones; of  *)
(* an answer that names no selection, the only link.                       *)
BadLinkFor(id, lean, f) == IF Links(id) = {} THEN 0 ELSE Nth(Links(id), 0)  \* links[0]

LinkFor(id, lean, f) ==
  LET selected == Reported(id, lean)
      links == Links(id)
  IN IF f \in selected
       THEN IF Before(selected, f) < Cardinality(links) THEN Nth(links, Before(selected, f)) ELSE 0
       ELSE IF selected = {} /\ Cardinality(links) = 1 THEN Nth(links, 0) ELSE 0

(* Resolve's last word on a torrent just created and denied: backed off,   *)
(* or every poll would buy another.                                        *)
BadDenied(p) ==  \* recordRefusal ignores "gone", and Resolve leaves it at that
  Unrecorded /\ IF poll[p].fresh THEN denied' = RefusalTTL ELSE UNCHANGED denied

Denied(p) ==
  IF poll[p].fresh THEN Throttled /\ denied' = RefusalTTL ELSE Unrecorded /\ UNCHANGED denied

(* The first info of resolveExisting.  "gone" (404) forgets what is        *)
(* remembered under the key, whichever id that is by now.  A downloaded   *)
(* torrent with this file selected goes straight to its link.              *)
InfoAnswer(p, answer) ==
  LET lean == answer = "lean"
      f == poll[p].ask.file
      id == poll[p].id
      at_hand == torrents[id].ready /\ f \in Reported(id, lean) /\ LinkFor(id, lean, f) # 0
  IN /\ poll[p].at = "info"
     /\ \/ /\ answer \in {"ok", "lean"} /\ torrents[id].here
           /\ poll' = [poll EXCEPT ![p].at = IF at_hand THEN "unrestrict" ELSE "select",
                                   ![p].link = IF at_hand THEN LinkFor(id, lean, f) ELSE 0]
           /\ Unrecorded /\ UNCHANGED <<known, denied>>
        \/ /\ answer = "gone" /\ (~torrents[id].here \/ poll[p].fresh)
           /\ known' = [known EXCEPT ![poll[p].ask.key] = 0]
           /\ Denied(p) /\ Ended(p)
        \/ /\ answer \in {"failed", "throttled", "rejected"}  \* failed: no file, blocked name, ...
           /\ Recorded(p, answer) /\ Ended(p) /\ UNCHANGED <<known, denied>>
     /\ UNCHANGED <<attempt, unknown, spent, service, unheard>>

(* selectFiles: Real-Debrid takes the file into the selection, may take    *)
(* others the owner asked for, or leaves a torrent it has started alone.   *)
SelectAnswer(p, answer, selection) ==
  LET id == poll[p].id IN
  /\ poll[p].at = "select"
  /\ IF torrents[id].here
       THEN /\ selection = torrents[id].chosen \/ poll[p].ask.file \in selection
            /\ answer = "ok" => selection # {}
            /\ torrents' = [torrents EXCEPT ![id].chosen = selection]
       ELSE selection = torrents[id].chosen /\ answer # "ok" /\ UNCHANGED torrents
  /\ IF answer = "ok" THEN Goes(p, "again") ELSE Ended(p)
  /\ Recorded(p, answer)
  /\ UNCHANGED <<known, attempt, unknown, spent, minted, unheard, denied>>

(* The second info.  Here "gone" forgets nothing.                          *)
InfoAgain(p, answer) ==
  LET link == LinkFor(poll[p].id, answer = "lean", poll[p].ask.file) IN
  /\ poll[p].at = "again"
  /\ \/ /\ answer \in {"ok", "lean"} /\ torrents[poll[p].id].here
        /\ IF link = 0 THEN Ended(p)  \* not ready, or no link for the file: a dead link
           ELSE poll' = [poll EXCEPT ![p].at = "unrestrict", ![p].link = link]
        /\ Unrecorded /\ UNCHANGED denied
     \/ /\ answer = "gone" /\ (~torrents[poll[p].id].here \/ poll[p].fresh)
        /\ Denied(p) /\ Ended(p)
     \/ /\ answer \in {"failed", "throttled", "rejected"}
        /\ Recorded(p, answer) /\ Ended(p) /\ UNCHANGED denied
  /\ UNCHANGED <<known, attempt, unknown, spent, service, unheard>>

(* unrestrict: a 403 speaks of the file (failed), a 401 of the account.    *)
Unrestrict(p, answer) ==
  /\ poll[p].at = "unrestrict"
  /\ IF answer = "ok"
       THEN poll' = [poll EXCEPT ![p] = [Idle(@.ask) EXCEPT !.link = poll[p].link]]
       ELSE Ended(p)
  /\ Recorded(p, answer)
  /\ UNCHANGED <<known, attempt, unknown, spent, service, unheard, denied>>
-----------------------------------------------------------------------------
(* Real-Debrid finishes a torrent; it or the owner removes one.            *)
Finish(id) ==
  /\ torrents[id].here /\ torrents[id].chosen # {} /\ ~torrents[id].ready
  /\ torrents' = [torrents EXCEPT ![id].ready = TRUE]
  /\ UNCHANGED <<poll, memory, spent, minted, unheard, denied>>

Vanish(id) ==
  /\ torrents[id].here
  /\ torrents' = [torrents EXCEPT ![id] = Nothing]
  /\ UNCHANGED <<poll, memory, spent, minted, unheard, denied>>

(* A remembered id ends after six hours, or is evicted. *)
Lapse(k) ==
  /\ known[k] # 0
  /\ known' = [known EXCEPT ![k] = 0]
  /\ UNCHANGED <<poll, attempt, unknown, refused, rejected, spent, service, unheard, denied>>

BadLess(t) == t - 1  \* an entry's life goes on past its end
Less(t) == IF t > 0 THEN t - 1 ELSE 0

(* resolveBudget is less than half of addAttemptTTL: one tick at most      *)
(* passes over a poll.                                                     *)
Tick ==
  /\ \A p \in Polls : ~poll[p].aged
  /\ poll' = [p \in Polls |-> [poll[p] EXCEPT !.aged = poll[p].at # "idle"]]
  /\ attempt' = Less(attempt) /\ unknown' = Less(unknown)
  /\ refused' = Less(refused) /\ rejected' = Less(rejected) /\ denied' = Less(denied)
  /\ UNCHANGED <<known, spent, service, unheard>>

(* A behaviour is one life of the process: the ids are on disk, all else   *)
(* is in memory.  It starts with what an earlier life bought and may have  *)
(* gone down in the middle of: nothing, or a torrent for one target,       *)
(* remembered or not, selected or not, finished or not.                    *)
Init ==
  /\ poll = [p \in Polls |-> Idle(Spare)]
  /\ attempt = 0 /\ unknown = 0 /\ refused = 0 /\ rejected = 0
  /\ spent = 0 /\ minted = 0 /\ unheard = 0 /\ denied = 0
  /\ \E t \in Torrent, a \in Asks :
       /\ (t.ready => t.chosen # {}) /\ (t.chosen # {} => a.file \in t.chosen)
       /\ t.here \/ t = Nothing
       /\ torrents = [id \in Ids |-> IF id = Earlier THEN t ELSE Nothing]
       /\ known \in [Keys -> {0, Earlier}]
       /\ \A k \in Keys : known[k] # 0 => k = a.key /\ t.here

Refusals == {"failed", "throttled", "rejected"}

PollStep(p) ==
  \/ \E a \in Asks, noAdd \in BOOLEAN : Enter(p, a, noAdd)
  \/ Charge(p) \/ Create(p) \/ Created(p)
  \/ \E answer \in {"throttled", "rejected", "no id"} : Declined(p, answer)
  \/ \E cause \in {"reset", "cancelled"} : Lost(p, cause) \/ Torn(p, cause)
  \/ \E answer \in Refusals \cup {"ok", "lean", "gone"} : InfoAnswer(p, answer) \/ InfoAgain(p, answer)
  \/ \E answer \in Refusals \cup {"ok"}, selection \in SUBSET Files : SelectAnswer(p, answer, selection)
  \/ \E answer \in Refusals \cup {"ok"} : Unrestrict(p, answer)

Next ==
  \/ \E p \in Polls : PollStep(p)
  \/ \E id \in Ids : Finish(id) \/ Vanish(id)
  \/ \E k \in Keys : Lapse(k)
  \/ Tick

Spec == Init /\ [][Next]_vars
-----------------------------------------------------------------------------
(* Every variable has its type. *)
TypeOK ==
  /\ poll \in [Polls -> Poll]
  /\ known \in [Keys -> {0} \cup Ids]
  /\ attempt \in 0..AttemptTTL /\ unknown \in 0..UnknownTTL
  /\ refused \in 0..RefusalTTL /\ rejected \in 0..RefusalTTL /\ denied \in 0..RefusalTTL
  /\ spent \in 0..Allowance /\ minted \in 0..MaxIds /\ unheard \in Nat
  /\ torrents \in [Ids -> Torrent]

(* The link a poll answers is that of a file its key names, whichever      *)
(* files a torrent has selected, whatever info leaves out, and whatever    *)
(* other polls of the release select meanwhile: "Silently the wrong        *)
(* episode, which is worse than any cost it saved."  Where the key names   *)
(* one file that is the file asked for.  Where it names two, the code does *)
(* not tell them apart: of an answer that names no selection the poll      *)
(* takes the link there is, and that may be the other file's.              *)
FilesOf(k) == {a.file : a \in {b \in Asks : b.key = k}}
LinkIsTheFile == \A p \in Polls : poll[p].link \in {0} \cup FilesOf(poll[p].ask.key)

(* Real-Debrid denying a torrent it has just created does not start a      *)
(* round of buying it again: no poll is let through to an add within       *)
(* RefusalTTL of it, of whatever file.                                     *)
DeniedIsNotBoughtAgain ==
  [][\A p \in Polls : poll[p].at = "idle" /\ poll'[p].at = "charge" => denied = 0]_vars

(* The budget is charged for torrents that may exist and for nothing else: *)
(* each charge is a created torrent, an add that is still out, or one that *)
(* was never heard of.                                                     *)
ChargesAreAdds ==
  spent <= minted + unheard
           + Cardinality({p \in Polls : poll[p].at = "sent" /\ poll[p].id = 0})
=============================================================================
