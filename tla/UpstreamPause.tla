--------------------------- MODULE UpstreamPause ---------------------------
(***************************************************************************)
(* The transport under every outbound client, pausingTransport in          *)
(* src/internal/scout/upstreampause.go: an upstream that refuses (429, or  *)
(* 503 with a Retry-After), or whose answer says its allowance is spent,   *)
(* is answered for here, with a 429 of scout's own, until its pause ends.  *)
(*                                                                         *)
(* RoundTrip looks at the pause, asks the upstream without the lock, and   *)
(* acts on the answer under the lock: three moments, between which other   *)
(* requests to the same upstream run.  The upstreams are external.         *)
(*                                                                         *)
(* A definition whose name starts with Bad is a plausible bug in the       *)
(* definition after it; no behaviour of Spec uses it.                      *)
(***************************************************************************)
EXTENDS Integers, FiniteSets

CONSTANTS Upstreams,        \* pause keys: a host, and the credential if any
          Requests,         \* requests in progress at once
          RefusalPause,     \* refusalPause
          MaxRefusalPause,  \* maxRefusalPause
          MaxRetryAfter,    \* maxRetryAfter
          MaxDoublings,     \* the 10 of min(refusals-1, 10)
          MaxPaused,        \* maxPausedUpstreams
          None,             \* no pause
          MaxTime           \* bound: the clock stops there

ASSUME PauseAssumption ==
  /\ RefusalPause \in Nat \ {0} /\ MaxRefusalPause \in Nat \ {0} /\ MaxRetryAfter \in Nat \ {0}
  /\ MaxDoublings \in Nat
ASSUME PausedAssumption == MaxPaused \in Nat \ {0}
ASSUME NoneAssumption == None \notin [until: Nat, refusals: Nat]
ASSUME BoundAssumption == MaxTime \in Nat

VARIABLES
  now,      \* the clock
  paused,   \* paused[u]: when its pause ends and how many refusals it counts, or None
  request,  \* each request: the upstream it is out to, or None
  \* history, read by no action:
  leave     \* leave[u]: the latest time up to which u was to be left alone

vars == <<now, paused, request, leave>>

Less(a, b) == IF a < b THEN a ELSE b
More(a, b) == IF a > b THEN a ELSE b

Paused == {u \in Upstreams : paused[u] # None}
Left(u) == IF paused[u] = None THEN 0 ELSE paused[u].until - now

\* The refusals in a row.  A count past MaxDoublings + 1 gives the same pause, and is
\* kept there: this is where the shift is capped
Refusals(u) == IF paused[u] = None THEN 0 ELSE paused[u].refusals
BadCounted(u) == Refusals(u) + 1
Counted(u) == Less(Refusals(u) + 1, MaxDoublings + 1)

\* How long a refusal may pause an upstream: what it asked for (Retry-After, or the
\* reset of a spent allowance, already capped), or the doubled pause and some jitter
Pauses(refusals, asked, named) ==
  IF named THEN {asked}
  ELSE LET pause == Less(RefusalPause * 2 ^ (refusals - 1), MaxRefusalPause)
       IN pause .. (pause + pause \div 4)

\* pruneLocked, before a new upstream enters a full map: drop the pauses that have
\* ended, and if that makes no room, all of them
Running == {u \in Paused : paused[u].until > now}
Pruned ==
  [u \in Upstreams |->
     IF u \in Running /\ Cardinality(Running) < MaxPaused THEN paused[u] ELSE None]
BadRoom(u) == paused  \* never pruned
Room(u) == IF u \notin Paused /\ Cardinality(Paused) >= MaxPaused THEN Pruned ELSE paused

BadUntil(u, pause) == now + pause  \* a shorter pause ends a longer one
Until(u, pause) == More(now + pause, IF paused[u] = None THEN 0 ELSE paused[u].until)
-----------------------------------------------------------------------------
\* RoundTrip's look at the pause: only an upstream that is not paused is asked
Send(r, u) ==
  /\ request[r] = None
  /\ Left(u) <= 0
  /\ request' = [request EXCEPT ![r] = u]
  /\ UNCHANGED <<now, paused, leave>>

\* a 429, a 503 with a Retry-After, or an answer whose allowance is spent
Refused(r, asked, named) ==
  LET u == request[r] IN
  /\ u # None
  /\ \E pause \in Pauses(Counted(u), asked, named) :
       /\ paused' = [Room(u) EXCEPT ![u] = [until |-> Until(u, pause), refusals |-> Counted(u)]]
       /\ leave' = [leave EXCEPT ![u] = More(@, now + pause)]
  /\ request' = [request EXCEPT ![r] = None]
  /\ UNCHANGED now

\* any other answer below 400 ends the pause, whichever request it is the answer to
Answered(r) ==
  LET u == request[r] IN
  /\ u # None
  /\ paused' = [paused EXCEPT ![u] = None]
  /\ request' = [request EXCEPT ![r] = None]
  /\ UNCHANGED <<now, leave>>

\* a transport error, another 4xx, or a 5xx that asks for nothing: no news of the limit
Failed(r) ==
  /\ request[r] # None
  /\ request' = [request EXCEPT ![r] = None]
  /\ UNCHANGED <<now, paused, leave>>

Tick ==
  /\ now < MaxTime
  /\ now' = now + 1
  /\ UNCHANGED <<paused, request, leave>>

Init ==
  /\ now = 0
  /\ paused = [u \in Upstreams |-> None]
  /\ request = [r \in Requests |-> None]
  /\ leave = [u \in Upstreams |-> 0]

Next ==
  \/ \E r \in Requests :
       \/ \E u \in Upstreams : Send(r, u)
       \/ \E asked \in 0..MaxRetryAfter, named \in BOOLEAN : Refused(r, asked, named)
       \/ Answered(r)
       \/ Failed(r)
  \/ Tick

Spec == Init /\ [][Next]_vars
-----------------------------------------------------------------------------
(* Properties                                                              *)

\* Every variable keeps its shape; a pause counts at least one refusal and never more
\* than the doublings tell apart, and lasts no longer than somebody asked for (refused).
TypeOK ==
  /\ now \in 0..MaxTime
  /\ paused \in [Upstreams -> [until: Nat, refusals: 1..(MaxDoublings + 1)] \cup {None}]
  /\ request \in [Requests -> Upstreams \cup {None}]
  /\ leave \in [Upstreams -> Nat]
  /\ \A u \in Paused : paused[u].until <= leave[u]

\* However many upstreams refuse, however often, and however many requests one refuses
\* at once, the map never outgrows maxPausedUpstreams, and no upstream is closed for
\* longer than maxRetryAfter or the longest pause with its jitter (refused, pruneLocked).
PausesBounded ==
  /\ Cardinality(Paused) <= MaxPaused
  /\ \A u \in Upstreams : Left(u) <= More(MaxRetryAfter, MaxRefusalPause + MaxRefusalPause \div 4)

\* A running pause is cut short by an answer of that upstream, or by starting the full
\* map over, and by nothing else: a refusal that asks for less does not shorten what an
\* earlier one asked for (refused), and other upstreams' refusals leave it alone.
PauseStands ==
  [][\A u \in Running :
       \/ paused'[u] # None /\ paused'[u].until >= paused[u].until
       \/ \E r \in Requests : request[r] = u /\ Answered(r)
       \/ Cardinality(Running) >= MaxPaused]_vars
=============================================================================
