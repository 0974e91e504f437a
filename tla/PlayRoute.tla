----------------------------- MODULE PlayRoute -----------------------------
(* The play, probe and cancel routes over the pool of stores: handler.go,  *)
(* StorePool of stores.go, linkmemo.go, linkcheck.go and playwarm.go.      *)
(*                                                                         *)
(* One release, one file, one household's accounts.  A request is served   *)
(* at a time; what other requests, other releases and the services do in   *)
(* the meantime are steps of their own (Elsewhere..., Other...).           *)
(* The memo changes under a request only where the request reads or writes *)
(* it around a wait: while it is served from nothing else, the changes     *)
(* commute with its steps.                                                 *)
(*                                                                         *)
(* A store is what the modules of the three stores make of it: what its    *)
(* account has of the release, whether scout knows the id, and what stands *)
(* in the way of an add.  One call of a store is one step.  A call fails,  *)
(* or answers from a memory that is behind, at any time: failed remembers  *)
(* for whom, and the properties claim nothing of those.  The give-up of an *)
(* add nobody answered for is in the stores' modules.                      *)
(*                                                                         *)
(* A definition whose name starts with Bad is a plausible bug in the       *)
(* definition after it; no behaviour of Spec uses it.                      *)
EXTENDS Naturals, Sequences, FiniteSets, Functions

CONSTANTS
  Order,    \* the configured services, in the order of debridServices
  Lists,    \* those whose status is found by the release (TorBox)
  Truth,    \* those with a cache check of their own (isCacheTruthService)
  Links,    \* playback links
  NoLink,
  MaxChanges  \* accounts that change under one request

Services == Range(Order)

ASSUME OrderAssumption == Order \in Seq(Services) /\ IsInjective(Order)
ASSUME ServicesAssumption == Lists \subseteq Services /\ Truth \subseteq Services
ASSUME LinksAssumption == NoLink \notin Links

VARIABLES
  has,      \* [Services -> what the account has of the release]
  knows,    \* [Services -> BOOLEAN]: HoldsTorrent, an id is remembered
  marks,    \* [Services -> what stands in the way of an add]
  pending,  \* play:pending, "/play is answering downloading for this file"
  memo,     \* the link memo's entry for the file
  req,      \* the request being served; when idle, the answer to the last one
  passed,   \* history: the links in the memo that have passed a check
  steady,   \* history: services that did not change, or lose their id, in the request
  failed,   \* history: services a call of the request failed for
  unheard,  \* history: services a probe could not get a status from
  before    \* history: what the last request was answered, if it says something of now

store == <<has, knows, marks>>
history == <<passed, steady, failed, unheard, before>>
vars == <<store, pending, memo, req, history>>

\* out: an add of ours is out, unanswered; refused: this release, of late;
\* rejected: the account's key; spent: scout's own hourly allowance is gone
MarkSets == {{}, {"out"}, {"refused"}, {"rejected"}, {"spent"}, {"out", "rejected"}}
NoMemo == [link |-> NoLink, checked |-> FALSE]

\* The services of S in configured order.
Configured(S) ==
  LET places == {i \in DOMAIN Order : Order[i] \in S}
      nth(n) == CHOOSE i \in places : Cardinality({j \in places : j <= i}) = n
  IN  [n \in 1..Cardinality(places) |-> Order[nth(n)]]
Holding == {s \in Services : knows[s]}

Idle(answer) ==
  [at |-> "idle", route |-> "none", todo |-> <<>>, unknown |-> {}, err |-> "dead", truth |-> TRUE,
   link |-> NoLink, spare |-> NoLink, answer |-> answer]
Serving(route, at, todo) == [Idle("none") EXCEPT !.at = at, !.route = route, !.todo = todo]

\* req goes on to `at', with the services to ask there.
Goes(at, todo) == req' = [req EXCEPT !.at = at, !.todo = todo]
NextStore == req' = [req EXCEPT !.todo = Tail(@)]

Alive == {"link", "ready", "coming"}

(* An answer says something of the release as it is, if it was found while *)
(* nothing changed and no call failed, unless it is the memo's link to     *)
(* what no account holds any more, or a 404 for a link that did not serve. *)
HeldReady == \E s \in Services : has[s] = "ready" /\ (knows[s] \/ s \in Lists)
Tells(answer) ==
  /\ req.route # "cancel" /\ steady = Services /\ failed = {}
  /\ ~(req.at \in {"memo", "recheck"} /\ ~HeldReady)
  /\ ~(req.at = "check" /\ answer = "not found")

\* An answer to the client, and what it says is remembered.
Answer(answer) ==
  /\ req' = Idle(answer)
  /\ pending' = (pending \/ (answer = "coming" /\ req.route # "probe"))
  /\ before' = IF ~Tells(answer) THEN "none"
               ELSE IF answer \in Alive THEN "alive"
               ELSE IF answer = "not found" THEN answer ELSE "none"
  /\ steady' = Services /\ failed' = {} /\ unheard' = {}
-----------------------------------------------------------------------------
(* A request comes in.  A play that is told its link would not open        *)
(* (fresh) forgets it; the others look in the memo.                        *)
Begin(route) ==
  /\ req.at = "idle"
  /\ memo' = IF route = "fresh" THEN NoMemo ELSE memo
  /\ passed' = passed \cap {memo'.link}
  /\ req' = CASE route = "probe" -> Serving(route, "status", Order)
              [] route = "cancel" -> Serving(route, "cancel", Configured(Lists))
              [] OTHER -> Serving("play", "memo", <<>>)
  /\ UNCHANGED <<store, pending, steady, failed, unheard, before>>

\* Past the memo: a held release is tried first, unless a download is waited for.
PastTheMemo ==
  IF ~pending /\ Holding # {} THEN Goes("held", Configured(Holding)) ELSE Goes("status", Order)

(* A remembered link is served; one that was never checked is checked      *)
(* first, which takes a while.                                             *)
MemoMiss ==
  /\ req.at = "memo" /\ memo = NoMemo
  /\ PastTheMemo
  /\ UNCHANGED <<store, pending, memo, history>>
MemoHit ==
  /\ req.at = "memo" /\ memo # NoMemo
  /\ IF memo.checked
       THEN Answer("link")
       ELSE /\ req' = [req EXCEPT !.at = "recheck", !.link = memo.link]
            /\ UNCHANGED <<pending, steady, failed, unheard, before>>
  /\ UNCHANGED <<store, memo, passed>>

BadMarkChecked(link) ==  \* whatever link is there by now
  memo' = IF memo = NoMemo THEN memo ELSE [memo EXCEPT !.checked = TRUE]

MarkChecked(link) == memo' = IF memo.link = link THEN [memo EXCEPT !.checked = TRUE] ELSE memo

(* checkLink: the CDN serves the file, serves something else, serves       *)
(* another file of the release, or could not be asked.                     *)
Verdicts == {"playable", "unverified", "broken", "wrong file"}

Recheck(verdict) ==
  /\ req.at = "recheck"
  /\ \/ /\ verdict = "playable"
        /\ MarkChecked(req.link)
        /\ passed' = (passed \cup {req.link}) \cap {memo'.link}
        /\ Answer("link")
     \/ /\ verdict = "unverified"
        /\ Answer("link") /\ UNCHANGED <<memo, passed>>
     \/ /\ verdict \in {"broken", "wrong file"}
        /\ memo' = NoMemo /\ passed' = {}
        /\ req' = [req EXCEPT !.at = "memo", !.link = NoLink]
        /\ UNCHANGED <<pending, steady, failed, unheard, before>>
  /\ UNCHANGED store
-----------------------------------------------------------------------------
(* StatusDetail asks the stores in turn, each on a slice of the budget: at *)
(* the top of a play or probe, once more of those that could not answer    *)
(* (escalated), and after a resolve that failed.                           *)
Asking == {"status", "escalated", "after"}

\* What a store that answers says.  TorBox finds the release and so learns its id.
Fetches(s) == has[s] = "fetching" /\ (s \in Lists \/ knows[s])
Discovers(s) == s \in Lists /\ has[s] # "none"

StatusAnswered(s) ==
  /\ req.at \in Asking /\ req.todo # <<>> /\ s = Head(req.todo)
  /\ knows' = [knows EXCEPT ![s] = @ \/ Discovers(s)]
  /\ marks' = [marks EXCEPT ![s] = IF Discovers(s) THEN @ \ {"out"} ELSE @]
  /\ IF Fetches(s) THEN Answer("coming")
     ELSE NextStore /\ UNCHANGED <<pending, steady, failed, unheard, before>>
  /\ UNCHANGED <<has, memo, passed>>

(* A store that could not answer is unknown, and asked again; one that     *)
(* only has Status, and fails before its slice is over, reads as a no, and *)
(* so does an answer that is behind.  Out of time, the stores not asked    *)
(* are unknown with those that could not tell.                             *)
BadStillUnknown(S) == req.unknown  \* a read that failed is a no

StillUnknown(S) == IF req.at = "status" THEN req.unknown \cup S ELSE {}

StatusFailed(s) ==
  /\ req.at \in Asking /\ req.todo # <<>> /\ s = Head(req.todo)
  /\ \E S \in {{}, {s}} :
       /\ req' = [req EXCEPT !.todo = Tail(@), !.unknown = StillUnknown(S)]
       /\ unheard' = IF req.route = "probe" THEN unheard \cup S ELSE {}
  /\ failed' = failed \cup {s}
  /\ UNCHANGED <<store, pending, memo, passed, steady, before>>

OutOfTime ==
  /\ req.at \in Asking /\ req.todo # <<>>
  /\ req' = [req EXCEPT !.todo = <<>>, !.unknown = StillUnknown(Range(req.todo))]
  /\ failed' = failed \cup Range(req.todo)
  /\ unheard' = IF req.route = "probe" THEN unheard \cup Range(req.todo) ELSE {}
  /\ UNCHANGED <<store, pending, memo, passed, steady, before>>

(* No store is fetching it, as far as they could say.  A play asks the     *)
(* unknown ones again if the clock allows both that and an add.            *)
StatusOver ==
  /\ req.at \in {"status", "escalated"} /\ req.todo = <<>>
  /\ \/ req.route = "probe" /\ Goes("cache check", <<>>)
     \/ /\ req.route = "play" /\ req.at = "status" /\ req.unknown # {}
        /\ req' = [req EXCEPT !.at = "escalated", !.todo = Configured(req.unknown), !.unknown = {}]
     \/ /\ req.route = "play"
        /\ req' = [req EXCEPT !.at = "cache check", !.unknown = {}]
  /\ UNCHANGED <<store, pending, memo, history>>

(* CacheCheck: which services hold it, by their own word; of some there is *)
(* none.  A finished torrent of the account's is a cached one.             *)
BadOrdered(preferred) == preferred \o Order  \* the preferred ones twice

Ordered(preferred) == preferred \o Configured(Services \ Range(preferred))

BadPreferred(heldBy) == Configured(heldBy)  \* not those an id is remembered for

Preferred(heldBy) == Configured(Holding) \o Configured(heldBy \ Holding)

BadEnquired(heldBy) == Configured(heldBy)  \* Real-Debrid says it holds nothing

Enquired(heldBy) == Configured(heldBy \cup Holding)

CacheCheck(answered, heldBy) ==
  /\ req.at = "cache check"
  /\ answered \subseteq Truth /\ heldBy \subseteq answered
  /\ {s \in answered : has[s] = "ready"} \subseteq heldBy
  /\ failed' = failed \cup (Truth \ answered)
  /\ IF req.route = "play"
       THEN Goes("resolve", Ordered(Preferred(heldBy)))
       ELSE req' = [req EXCEPT !.at = "enquire", !.todo = Enquired(heldBy),
                               !.truth = answered # {}]
  /\ UNCHANGED <<store, pending, memo, passed, steady, unheard, before>>
-----------------------------------------------------------------------------
(* What a store's Resolve comes to: a link, "coming" (an add is out or     *)
(* parked), "refused" (the service, or scout, will not now), or "dead".    *)
Barred(s, noAdd) ==
  \/ "rejected" \in marks[s]
  \/ s \in Lists /\ ~noAdd /\ marks[s] = {"refused"}

\* Nothing is held by the id that is remembered, or none is.
ToBeAdded(s, noAdd) == ~Barred(s, noAdd) /\ (~knows[s] \/ (s \in Lists /\ has[s] = "none"))

(* It answers without an add: barred; from the torrent it holds; denied by *)
(* the service, which forgets the id; or it would have to add, and the     *)
(* caller, a parked add, an unanswered add, a refusal or the hour's        *)
(* allowance does not let it.                                              *)
Answers(s, noAdd, says) ==
  LET forgets == knows' = [knows EXCEPT ![s] = FALSE] /\ UNCHANGED <<has, marks>> IN
  \/ Barred(s, noAdd) /\ says = "refused" /\ UNCHANGED store
  \/ /\ ~Barred(s, noAdd) /\ knows[s] /\ has[s] # "none"
     /\ says = (IF has[s] = "ready" THEN "link" ELSE "dead") /\ UNCHANGED store
  \/ ~Barred(s, noAdd) /\ knows[s] /\ has[s] = "none" /\ s \notin Lists /\ says = "dead" /\ forgets
  \/ /\ ToBeAdded(s, noAdd) /\ forgets
     /\ \/ noAdd /\ says = "dead"
        \/ ~noAdd /\ s \in Lists /\ has[s] = "fetching" /\ says = "coming"
        \/ ~noAdd /\ "out" \in marks[s] /\ says = "coming"
        \/ ~noAdd /\ marks[s] \in {{"refused"}, {"spent"}} /\ says = "refused"
        \/ ~noAdd /\ marks[s] = {} /\ says = "refused"  \* too late for an add

(* It sends an add, which creates the torrent, is parked, is never         *)
(* answered, or is turned down.                                            *)
Adds(s, says) ==
  /\ ToBeAdded(s, FALSE) /\ marks[s] = {}
  /\ \/ /\ \E now \in {"fetching", "ready"} :
             /\ has[s] = "ready" => now = "ready"
             /\ has' = [has EXCEPT ![s] = now]
             /\ says = IF now = "ready" THEN "link" ELSE "dead"
        /\ knows' = [knows EXCEPT ![s] = TRUE] /\ UNCHANGED marks
     \/ /\ s \in Lists /\ has[s] = "none" /\ says = "coming"
        /\ has' = [has EXCEPT ![s] = "fetching"]
        /\ knows' = [knows EXCEPT ![s] = FALSE] /\ UNCHANGED marks
     \/ /\ says \in {"coming", "refused"}
        /\ \E now \in {has[s], "fetching"} :
             (has[s] # "none" => now = has[s]) /\ has' = [has EXCEPT ![s] = now]
        /\ knows' = [knows EXCEPT ![s] = FALSE] /\ marks' = [marks EXCEPT ![s] = {"out"}]
     \/ /\ says \in {"dead", "refused"}
        /\ \E bar \in {"refused", "rejected"} :
             (says = "dead" => bar = "refused") /\ marks' = [marks EXCEPT ![s] = {bar}]
        /\ knows' = [knows EXCEPT ![s] = FALSE] /\ UNCHANGED has

\* A link is minted: it is none of those in use.
Fresh(link) == link \notin {memo.link, req.link, req.spare}
Minted == \E link \in Links :
  /\ Fresh(link)
  /\ req' = [req EXCEPT !.at = IF @ = "relist" THEN "relist check" ELSE "check",
                        !.todo = <<>>, !.link = link]

\* Of the errors the one that is the best explanation: coming, then refused, then dead.
Worse(err, says) == IF "coming" \in {err, says} THEN "coming"
                    ELSE IF "refused" \in {err, says} THEN "refused" ELSE "dead"

(* What the walk over the stores makes of an answer.  ResolvePreferring    *)
(* gives every store a turn, also after one that is fetching it.  Of       *)
(* ResolveCachedOnly's errors only a probe makes anything, of a refusal.   *)
ReadOnly == {"held", "enquire", "relist"}

Heard(says) ==
  req' = [req EXCEPT !.todo = Tail(@),
                     !.err = IF req.at \in {"resolve", "enquire"} THEN Worse(@, says) ELSE @]
Takes(says) ==
  IF says = "link" /\ req.at = "enquire" THEN Answer("ready")
  ELSE /\ IF says = "link" THEN Minted ELSE Heard(says)
       /\ steady' = {s \in steady : knows[s] => knows'[s]}
       /\ UNCHANGED <<pending, failed, unheard, before>>

Asks(s) == req.at \in ReadOnly \cup {"resolve"} /\ req.todo # <<>> /\ s = Head(req.todo)

NoAdd == req.at \in ReadOnly

ResolveAnswered(s, says) ==
  /\ Asks(s) /\ Answers(s, NoAdd, says)
  /\ Takes(says)
  /\ UNCHANGED <<memo, passed>>

ResolveAdded(s, says) ==
  /\ Asks(s) /\ ~NoAdd /\ Adds(s, says)
  /\ IF says = "link" THEN Minted ELSE Heard(says)
  /\ steady' = steady \ {s}
  /\ UNCHANGED <<pending, memo, passed, failed, unheard, before>>

\* The call fails: the service faults or throttles, or the read of it is cut off.
ResolveFailed(s, says) ==
  /\ Asks(s) /\ knows[s] /\ says \in {"dead", "refused"}
  /\ Heard(says)
  /\ failed' = failed \cup {s}
  /\ UNCHANGED <<store, pending, memo, passed, steady, unheard, before>>

(* No store made a link.  The held step goes on to the status; a resolve   *)
(* is followed by one more status read; a play whose better link could not *)
(* be had serves the first.                                                *)
HeldOver ==
  /\ req.at = "held" /\ req.todo = <<>>
  /\ Goes("status", Order)
  /\ UNCHANGED <<store, pending, memo, history>>
ResolveOver ==
  /\ req.at = "resolve" /\ req.todo = <<>>
  /\ \/ Goes("after", Order)
     \/ req' = [req EXCEPT !.at = "after", !.todo = Order, !.err = Worse(@, "refused")]  \* the clock
  /\ UNCHANGED <<store, pending, memo, history>>

\* What a play answers when no store resolved it and none says it is fetching.
PlayVerdict ==
  /\ req.at = "after" /\ req.todo = <<>>
  /\ Answer(IF req.err = "dead" THEN "not found" ELSE req.err)
  /\ UNCHANGED <<store, memo, passed>>

(* What a probe answers when nothing is ready and no status says it is     *)
(* coming, from the stores' memories; a usable key's add outranks another  *)
(* account's refusal.                                                      *)
AddInFlight == \E s \in Services : marks[s] = {"out"}
AccountRefusal == \E s \in Services : "rejected" \in marks[s]
EveryAddRefusedByScout == \A s \in Services : "spent" \in marks[s]
RecentRefusal == \E s \in Services : "refused" \in marks[s]
CannotTell == (~req.truth /\ Truth # {}) \/ req.unknown # {}

ProbeVerdict ==
  /\ req.at = "enquire" /\ req.todo = <<>>
  /\ Answer(IF AddInFlight THEN "coming"
            ELSE IF \/ AccountRefusal \/ EveryAddRefusedByScout \/ req.err = "refused"
                    \/ RecentRefusal \/ CannotTell
                   THEN "refused"
                   ELSE "not found")
  /\ UNCHANGED <<store, memo, passed>>
-----------------------------------------------------------------------------
(* servePlayLink: a minted link is checked, remembered and served.  One    *)
(* that is broken is answered as a release no store could resolve.  One    *)
(* that names another file of the release is minted again from the stores  *)
(* that hold it, with their list of files; if that fails the first is      *)
(* served as it is.                                                        *)
Put(link, checked) ==
  /\ memo' = [link |-> link, checked |-> checked]
  /\ passed' = IF checked THEN {link} ELSE {}
Serve(link, checked) == Put(link, checked) /\ Answer("link")

Checked(verdict) ==
  /\ req.at = "check"
  /\ CASE verdict \in {"playable", "unverified"} -> Serve(req.link, verdict = "playable")
       [] verdict = "broken" -> memo' = NoMemo /\ passed' = {} /\ Answer("not found")
       [] verdict = "wrong file" ->
            /\ memo' = NoMemo /\ passed' = {}
            /\ req' = [req EXCEPT !.at = "relist", !.spare = req.link, !.todo = Configured(Holding)]
            /\ UNCHANGED <<pending, steady, failed, unheard, before>>
  /\ UNCHANGED store

RelistOver ==
  /\ req.at = "relist" /\ req.todo = <<>>
  /\ Serve(req.spare, FALSE)
  /\ UNCHANGED store

RelistChecked(verdict) ==
  /\ req.at = "relist check"
  /\ IF verdict \in {"playable", "unverified"}
       THEN Serve(req.link, verdict = "playable")
       ELSE Serve(req.spare, FALSE)
  /\ UNCHANGED store
-----------------------------------------------------------------------------
(* resolveCancel: of the stores that can cancel, the first that has an     *)
(* opinion of the release answers.                                         *)
Cancel(s) ==
  /\ req.at = "cancel" /\ req.todo # <<>> /\ s = Head(req.todo)
  /\ \/ Answer("refused") /\ UNCHANGED store
     \/ /\ has[s] = "none" /\ UNCHANGED store
        /\ NextStore /\ UNCHANGED <<pending, steady, failed, unheard, before>>
     \/ has[s] # "none" /\ Answer("finished or not ours") /\ UNCHANGED store
     \/ /\ has[s] = "fetching" /\ Answer("cancelled")
        /\ has' = [has EXCEPT ![s] = "none"] /\ knows' = [knows EXCEPT ![s] = FALSE]
        /\ UNCHANGED marks
  /\ UNCHANGED <<memo, passed>>
CancelOver ==
  /\ req.at = "cancel" /\ req.todo = <<>>
  /\ Answer("not found")
  /\ UNCHANGED <<store, memo, passed>>
-----------------------------------------------------------------------------
(* The rest of the world: of the accounts, MaxChanges steps a request.     *)
Changed(s) ==
  /\ Cardinality(Services \ steady) < MaxChanges
  /\ steady' = IF req.at = "idle" THEN Services ELSE steady \ {s}
  /\ before' = "none"
  /\ UNCHANGED <<pending, memo, req, passed, failed, unheard>>

\* The account's torrent is added, finishes, or is removed; a service does that, or another client.
Elsewhere(s) ==
  /\ \E now \in {"none", "fetching", "ready"} \ {has[s]} : has' = [has EXCEPT ![s] = now]
  /\ UNCHANGED <<knows, marks>>
  /\ Changed(s)

\* Another request learns or loses the id; a marker is written, settled or lapses.
OtherMemory(s) ==
  /\ \/ knows' = [knows EXCEPT ![s] = ~@] /\ UNCHANGED marks
     \/ /\ \E m \in MarkSets : /\ Cardinality((m \ marks[s]) \cup (marks[s] \ m)) = 1
                               /\ marks' = [marks EXCEPT ![s] = m]
        /\ UNCHANGED knows
  /\ UNCHANGED has
  /\ Changed(s)

PendingLapses ==
  /\ pending /\ req.at \in {"idle", "memo"}
  /\ pending' = FALSE
  /\ UNCHANGED <<store, memo, req, history>>

\* Another request of the file, or the fan-out's probe, mints, checks or drops a link.
OtherLink ==
  /\ req.at \in {"idle", "recheck", "check", "relist check"}
  /\ \/ memo' = NoMemo /\ passed' = {}
     \/ \E link \in Links, checked \in BOOLEAN : Fresh(link) /\ Put(link, checked)
     \/ memo # NoMemo /\ Put(memo.link, TRUE)
  /\ UNCHANGED <<store, pending, req, steady, failed, unheard, before>>
-----------------------------------------------------------------------------
Init ==
  /\ has = [s \in Services |-> "none"]
  /\ knows = [s \in Services |-> FALSE]
  /\ marks = [s \in Services |-> {}]
  /\ pending = FALSE
  /\ memo = NoMemo
  /\ req = Idle("none")
  /\ passed = {}
  /\ steady = Services /\ failed = {} /\ unheard = {} /\ before = "none"

Says == {"link", "coming", "refused", "dead"}

Step ==
  \/ MemoMiss \/ MemoHit
  \/ \E verdict \in Verdicts : Recheck(verdict) \/ Checked(verdict) \/ RelistChecked(verdict)
  \/ OutOfTime \/ StatusOver
  \/ \E answered \in SUBSET Truth : \E heldBy \in SUBSET answered : CacheCheck(answered, heldBy)
  \/ HeldOver \/ ResolveOver \/ PlayVerdict \/ ProbeVerdict \/ RelistOver \/ CancelOver
  \/ \E s \in Services :
       \/ StatusAnswered(s) \/ StatusFailed(s) \/ Cancel(s)
       \/ \E says \in Says : ResolveAnswered(s, says) \/ ResolveAdded(s, says) \/ ResolveFailed(s, says)

Next ==
  \/ \E route \in {"play", "fresh", "probe", "cancel"} : Begin(route)
  \/ Step
  \/ \E s \in Services : Elsewhere(s) \/ OtherMemory(s)
  \/ PendingLapses \/ OtherLink

Spec == Init /\ [][Next]_vars
-----------------------------------------------------------------------------
(* Every variable has its type. *)
TypeOK ==
  /\ has \in [Services -> {"none", "fetching", "ready"}]
  /\ knows \in [Services -> BOOLEAN] /\ marks \in [Services -> MarkSets]
  /\ pending \in BOOLEAN
  /\ memo \in [link : Links \cup {NoLink}, checked : BOOLEAN]
  /\ memo.link = NoLink => memo = NoMemo
  /\ IsInjective(req.todo) /\ Range(req.todo) \cup req.unknown \subseteq Services
  /\ req.at = "idle" => req = Idle(req.answer)
  /\ req.at \in {"check", "recheck", "relist", "relist check"} => req.link \in Links
  /\ req.spare # NoLink <=> req.at \in {"relist", "relist check"}

(* The memo skips the check of a link only if that link has passed one,    *)
(* whatever other requests put there while this one was out checking:      *)
(* markChecked (linkmemo.go) compares the link, not the file.              *)
CheckedLinkPassed == memo.checked => memo.link \in passed

Answered(answer) == req.at # "idle" /\ req'.at = "idle" /\ req'.answer = answer
Told == steady \ failed  \* accounts as they were, that answered with what is

(* "404 \"not_queued\" is a claim, not a shrug": a play or a probe says    *)
(* that only if none of the accounts that told it the truth is fetching    *)
(* the release, holds it ready, or has an add of ours out with a key that  *)
(* works; and a probe only if every store could be heard.  The 404 of a    *)
(* play whose link failed its check is the one other kind: it says         *)
(* something of that link, and nothing of the accounts.                    *)
NotFoundIsAClaim ==
  [][Answered("not found") /\ req.route # "cancel" /\ req.at # "check" =>
       /\ \A s \in Told : /\ ~Fetches(s) /\ marks[s] # {"out"}
                          /\ ~(has[s] = "ready" /\ knows[s])
       /\ unheard = {}]_vars

(* An add is sent only for want of anything better: no account that told   *)
(* the truth is fetching the release, or holds it, known or to be found,   *)
(* with no refusal against it.  Two things this cannot see: a store whose  *)
(* id is dropped under the request, and one whose id is stale already: it  *)
(* is tried first as a holder, is denied, and adds.                        *)
HoldsReady(s) ==
  has[s] = "ready" /\ (knows[s] \/ s \in Lists) /\ marks[s] \cap {"refused", "rejected"} = {}

BoughtOnlyWhenNeeded ==
  [][req.at = "resolve" =>
     \A s \in Services, says \in Says :
       ResolveAdded(s, says) /\ s \in steady /\ ~knows[s] => \A t \in Told : ~Fetches(t) /\ ~HoldsReady(t)]_vars

(* "The two routes agreeing": of a release nothing happened to between two *)
(* requests of which no call failed, one is not told that it plays or is   *)
(* coming and the other that it is not to be found, whichever the route.   *)
(* The code's routes do contradict each other in two cases, which Tells    *)
(* leaves out and nothing else: the memo still has a link to a release     *)
(* that no account holds, so a play is redirected where a probe says 404;  *)
(* and a link does not pass its check, so a play says 404 where a probe    *)
(* said ready.                                                             *)
RoutesAgree ==
  [][req.at # "idle" /\ req'.at = "idle" =>
       {before, before'} # {"alive", "not found"}]_vars
=============================================================================
