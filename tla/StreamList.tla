---------------------------- MODULE StreamList ----------------------------
(***************************************************************************)
(* The life of a cached stream list in src/internal/scout/handler.go: the  *)
(* request that reads it (handleStream), the rebuild it may start behind   *)
(* its answer (rebuildBehind, under a lease that bookRebuild grants and    *)
(* releaseRebuild ends), and the foreground build of the last resort, with *)
(* the outage it may mark on the key (lastResort, markOutage).             *)
(*                                                                         *)
(* A step is one stretch between two of: the cache read, a section under   *)
(* rebuildMu, the singleflight call.  The singleflight group is external:  *)
(* whoever calls it for a key joins the build in flight there, and all who *)
(* joined get its result at once.  What a build does inside (scrape, cache *)
(* check, rank) is its outcome; what it stores is part of its end.         *)
(*                                                                         *)
(* A definition whose name starts with Bad is a plausible bug in the       *)
(* definition after it; no behaviour of Spec uses it.                      *)
(***************************************************************************)
EXTENDS Integers, FiniteSets

CONSTANTS Keys,                 \* list cache keys: a config, an origin, a title
          Requests,             \* /stream requests in progress at once
          ListTTL,              \* Deps.ListTTL
          TicketTTL,            \* Deps.PlayTicketTTL
          PartialListTTL,       \* partialListTTL
          MaxStaleServeWindow,  \* maxStaleServeWindow
          MaxStaleIfError,      \* maxStaleIfError
          OutageViewingRoom,    \* outageViewingRoom
          RebuildBudget,        \* ScrapeTimeout + listBuildSlack
          RebuildCooloff,       \* rebuildCooloff
          MaxConcurrentRebuilds,\* maxConcurrentRebuilds
          None,                 \* no entry, no lease, no answer yet
          MaxTime, MaxGen       \* bounds: the clock and rebuildGen stop there

ASSUME DurationAssumption ==
  /\ ListTTL \in Nat \ {0} /\ TicketTTL \in Nat /\ PartialListTTL \in Nat \ {0}
  /\ MaxStaleServeWindow \in Nat /\ MaxStaleIfError \in Nat /\ OutageViewingRoom \in Nat
  /\ RebuildBudget \in Nat \ {0} /\ RebuildCooloff \in Nat \ {0}
ASSUME RebuildAssumption == MaxConcurrentRebuilds \in Nat \ {0}
ASSUME BoundAssumption == MaxTime \in Nat /\ MaxGen \in Nat
\* what BuildDeps warns about when it does not hold
ASSUME TicketAssumption == TicketTTL > 3 * ListTTL

VARIABLES
  now,       \* the clock
  list,      \* list[k]: the cached entry, or None
  lease,     \* rebuilds[k]: the lease on the key, or None
  gen,       \* rebuildGen
  live,      \* rebuildsLive
  rebuilds,  \* the granted bookings whose release is still to come
  request,   \* each request: where it is and what it has read
  answer     \* the list the last step sent out, if it did, and how long a device may keep it

book == <<lease, gen, live>>
vars == <<now, list, book, rebuilds, request, answer>>

\* when the entry was built, which is when its tickets were minted; whether every
\* indexer answered; whether it has any stream
List == [built: Nat, complete: BOOLEAN, nonempty: BOOLEAN]
Lease == [until: Nat, gen: Nat, outage: BOOLEAN]
ASSUME NoneAssumption == None \notin List /\ None \notin Lease
Outcomes == {"ok", "partial", "indexers", "cache-check", "panic"}
Degraded(outcome) == outcome \in {"indexers", "cache-check"}

Larger(a, b) == IF a > b THEN a ELSE b
Smaller(a, b) == IF a < b THEN a ELSE b

StaleWindowFor == Smaller(ListTTL, MaxStaleServeWindow)
BadStaleIfErrorFor == MaxStaleIfError  \* the tickets' life is forgotten
StaleIfErrorFor == Larger(0, Smaller(MaxStaleIfError, TicketTTL - 3 * ListTTL))
OutageHoldFor == Larger(StaleIfErrorFor, TicketTTL - 3 * ListTTL - OutageViewingRoom)
ShortTTL == Smaller(ListTTL, PartialListTTL)

FreshUntil(l) == l.built + ListTTL
Gone(l) == l.built + IF l.complete THEN ListTTL + Larger(StaleWindowFor, OutageHoldFor)
                                   ELSE ShortTTL
Held(k) == list[k] # None

\* what handleStream makes of an entry it hits
Fresh(l) == now < FreshUntil(l) \/ ~l.complete
PastTheWindow(l) == l.complete /\ now >= FreshUntil(l) + StaleWindowFor
Usable(l) == now < FreshUntil(l) + OutageHoldFor
-----------------------------------------------------------------------------
(* How long a device may go on using a list it is sent now: max-age, and   *)
(* the longer of stale-while-revalidate and stale-if-error                 *)
ListCache == ListTTL + Larger(ListTTL, StaleIfErrorFor)
PartialListCache == ShortTTL + ShortTTL
StaleListCache == ShortTTL

Sent(l, reach) == answer' = [list |-> l, until |-> now + reach]
Silent == answer' = None
CacheFor(l) == IF l.complete THEN ListCache ELSE PartialListCache
-----------------------------------------------------------------------------
(* The book of rebuilds                                                    *)

\* bookings and outages drop every lease that has ended, by the clock they were given
Swept(at) == [k \in Keys |-> IF lease[k] # None /\ at >= lease[k].until THEN None
                             ELSE lease[k]]

LeaseRuns(k) == lease[k] # None /\ now < lease[k].until
InOutage(k) == LeaseRuns(k) /\ lease[k].outage

BadBookable(k) == ~InOutage(k) /\ live < MaxConcurrentRebuilds
Bookable(k) == ~LeaseRuns(k) /\ live < MaxConcurrentRebuilds

BadBookRebuild(k) ==  \* the number is used and not handed out
  /\ lease' = [Swept(now) EXCEPT ![k] = [until |-> now + RebuildBudget, gen |-> gen + 1,
                                         outage |-> FALSE]]
  /\ live' = live + 1
  /\ UNCHANGED gen
BookRebuild(k) ==
  /\ gen' = gen + 1
  /\ lease' = [Swept(now) EXCEPT ![k] = [until |-> now + RebuildBudget, gen |-> gen + 1,
                                         outage |-> FALSE]]
  /\ live' = live + 1

BadMarkOutage(k, at) ==  \* no number of its own
  /\ lease' = [Swept(at) EXCEPT ![k] = [until |-> at + RebuildCooloff, gen |-> gen,
                                        outage |-> TRUE]]
  /\ UNCHANGED <<gen, live>>
MarkOutage(k, at) ==
  /\ gen' = gen + 1
  /\ lease' = [Swept(at) EXCEPT ![k] = [until |-> at + RebuildCooloff, gen |-> gen + 1,
                                        outage |-> TRUE]]
  /\ UNCHANGED live

Superseded(b) == lease[b.key] = None \/ lease[b.key].gen # b.gen

BadFreed(b) == IF Superseded(b) THEN live ELSE live - 1  \* the slot only with the lease
Freed(b) == IF live > 0 THEN live - 1 ELSE live

Released(b) ==
  IF Superseded(b) THEN lease
  ELSE [lease EXCEPT ![b.key] =
    IF b.cooloff THEN [until |-> now + RebuildCooloff, gen |-> b.gen, outage |-> FALSE]
    ELSE None]
-----------------------------------------------------------------------------
(* A request                                                               *)

Idle == [at |-> "idle"]
Goes(r, to) == request' = [request EXCEPT ![r] = to]

\* the answers a cached entry gives with nothing more to do
Hit(r, k) ==
  /\ Held(k) /\ Fresh(list[k]) /\ ~PastTheWindow(list[k])
  /\ Sent(list[k], CacheFor(list[k]))
  /\ UNCHANGED request

\* stale, or past the stale window and still worth having: answer from the entry,
\* with a rebuild behind it
Behind(l) ==
  \/ ~Fresh(l) /\ ~PastTheWindow(l)
  \/ PastTheWindow(l) /\ l.nonempty /\ Usable(l)

\* the bound on rebuildGen: each request in progress may take one more
NumbersLeft == gen + Cardinality({r \in Requests : request[r].at # "idle"}) < MaxGen

StaleHit(r, k) ==
  /\ Held(k) /\ Behind(list[k]) /\ NumbersLeft
  /\ Goes(r, [at |-> "behind", key |-> k, list |-> list[k]])
  /\ Silent

LastHit(r, k) ==
  /\ Held(k) /\ PastTheWindow(list[k]) /\ ~Behind(list[k]) /\ NumbersLeft
  /\ Goes(r, [at |-> "last", key |-> k, list |-> list[k]])
  /\ Silent

Miss(r, k) ==
  /\ ~Held(k)
  /\ Goes(r, [at |-> "build", key |-> k, list |-> None, since |-> now])
  /\ Silent

Arrive(r, k) ==
  /\ request[r].at = "idle"
  /\ Hit(r, k) \/ StaleHit(r, k) \/ LastHit(r, k) \/ Miss(r, k)
  /\ UNCHANGED <<now, list, book, rebuilds>>

\* rebuildBehind and the answer over it.  A config that no longer opens gives the
\* booking back without building
RebuildBehind(r) ==
  /\ request[r].at = "behind"
  /\ LET k == request[r].key IN
     \/ /\ ~Bookable(k) /\ UNCHANGED <<book, rebuilds>>
     \/ /\ Bookable(k)
        /\ BookRebuild(k)
        /\ \E at \in {"start", "done"} :
             rebuilds' = rebuilds \cup
               {[key |-> k, gen |-> gen + 1, until |-> now + RebuildBudget, at |-> at,
                 cooloff |-> FALSE]}
  /\ Sent(request[r].list, StaleListCache)
  /\ Goes(r, Idle)
  /\ UNCHANGED <<now, list>>

\* lastResort up to its build, which keeps the list it may fall back on
LastResort(r) ==
  /\ request[r].at = "last"
  /\ LET k == request[r].key
         l == request[r].list IN
     IF Usable(l) /\ InOutage(k)
     THEN Sent(l, StaleListCache) /\ Goes(r, Idle)
     ELSE /\ Goes(r, [at |-> "build", key |-> k, list |-> IF Usable(l) THEN l ELSE None, since |-> now])
          /\ Silent
  /\ UNCHANGED <<now, list, book, rebuilds>>

BuildInFront(r) ==
  /\ request[r].at = "build"
  /\ request' = [request EXCEPT ![r].at = "joined"]
  /\ Silent /\ UNCHANGED <<now, list, book, rebuilds>>
-----------------------------------------------------------------------------
(* The build of a key, and what those who joined it do with its result     *)

StartRebuild(b) ==
  /\ b.at = "start"
  /\ rebuilds' = (rebuilds \ {b}) \cup {[b EXCEPT !.at = "joined"]}
  /\ Silent /\ UNCHANGED <<now, list, book, request>>

RequestJoined(r, k) == request[r].at = "joined" /\ request[r].key = k
RebuildJoined(b, k) == b.at = "joined" /\ b.key = k

\* whether a partial list is empty makes no difference to what becomes of it
Built(outcome, nonempty) ==
  [built |-> now, complete |-> outcome # "partial", nonempty |-> nonempty \/ outcome = "partial"]

\* buildStreamList's end: a degraded list is for those who waited for it only.
\* A panic in the build reaches everyone who joined it, and serves nobody
FinishBuild(k, outcome, nonempty) ==
  /\ (\E r \in Requests : RequestJoined(r, k)) \/ (\E b \in rebuilds : RebuildJoined(b, k))
  /\ list' = IF outcome \in {"ok", "partial"}
             THEN [list EXCEPT ![k] = Built(outcome, nonempty)] ELSE list
  /\ request' = [r \in Requests |->
       IF ~RequestJoined(r, k) THEN request[r]
       ELSE IF outcome = "panic" THEN Idle
       ELSE [at |-> "built", key |-> k, list |-> request[r].list,
             since |-> request[r].since, outcome |-> outcome, result |-> Built(outcome, nonempty)]]
  /\ rebuilds' = {IF RebuildJoined(b, k) THEN [b EXCEPT !.at = "done", !.cooloff = Degraded(outcome)]
                  ELSE b : b \in rebuilds}
  /\ Silent /\ UNCHANGED <<now, book>>

ReleaseRebuild(b) ==
  /\ b.at = "done"
  /\ live' = Freed(b)
  /\ lease' = Released(b)
  /\ rebuilds' = rebuilds \ {b}
  /\ Silent /\ UNCHANGED <<now, list, gen, request>>

FallsBack(q) == q.outcome = "indexers" /\ q.list # None

\* no indexer answered: lastResort marks the key, by the clock it read before the
\* build, and serves what it holds
ServeHeld(r) ==
  /\ request[r].at = "built" /\ FallsBack(request[r])
  /\ MarkOutage(request[r].key, request[r].since)
  /\ Sent(request[r].list, StaleListCache)
  /\ Goes(r, Idle)
  /\ UNCHANGED <<now, list, rebuilds>>

WriteBuilt(r) ==
  /\ request[r].at = "built" /\ ~FallsBack(request[r])
  /\ Sent(request[r].result,
          IF Degraded(request[r].outcome) THEN 0 ELSE CacheFor(request[r].result))
  /\ Goes(r, Idle)
  /\ UNCHANGED <<now, list, book, rebuilds>>
-----------------------------------------------------------------------------
(* A tick is long beside a handler's own work: the clock moves only while  *)
(* every request waits for a build, or none is there.  A build somebody    *)
(* waits for ends within its context's timeout, RebuildBudget; a rebuild   *)
(* nobody waits for may lag behind as it likes.  The cache drops an ended  *)
(* entry when it is next read: dropping it as it ends is the same to every *)
(* reader.                                                                 *)
Tick ==
  /\ now < MaxTime
  /\ \A r \in Requests : \/ request[r].at = "idle"
                         \/ request[r].at = "joined" /\ now < request[r].since + RebuildBudget
  /\ now' = now + 1
  /\ list' = [k \in Keys |-> IF list[k] # None /\ now + 1 > Gone(list[k]) THEN None ELSE list[k]]
  /\ Silent /\ UNCHANGED <<book, rebuilds, request>>

\* the cache is bounded in bytes: an entry may leave it early
Evict(k) ==
  /\ list[k] # None
  /\ list' = [list EXCEPT ![k] = None]
  /\ Silent /\ UNCHANGED <<now, book, rebuilds, request>>

Init ==
  /\ now = 0
  /\ list = [k \in Keys |-> None]
  /\ lease = [k \in Keys |-> None]
  /\ gen = 0
  /\ live = 0
  /\ rebuilds = {}
  /\ request = [r \in Requests |-> Idle]
  /\ answer = None

RequestStep(r) ==
  \/ \E k \in Keys : Arrive(r, k)
  \/ RebuildBehind(r) \/ LastResort(r) \/ BuildInFront(r) \/ ServeHeld(r) \/ WriteBuilt(r)
RebuildStep == \E b \in rebuilds : StartRebuild(b) \/ ReleaseRebuild(b)
BuildStep == \E k \in Keys, outcome \in Outcomes, nonempty \in BOOLEAN :
               FinishBuild(k, outcome, nonempty)

Next ==
  \/ \E r \in Requests : RequestStep(r)
  \/ RebuildStep
  \/ BuildStep
  \/ Tick
  \/ \E k \in Keys : Evict(k)

Spec == Init /\ [][Next]_vars
-----------------------------------------------------------------------------
(* Properties                                                              *)

Booked == {b.gen : b \in rebuilds}
Request ==
  [at: {"idle"}]
  \cup [at: {"behind", "last"}, key: Keys, list: List]
  \cup [at: {"build", "joined"}, key: Keys, list: List \cup {None}, since: Nat]
  \cup [at: {"built"}, key: Keys, list: List \cup {None}, since: Nat,
        outcome: Outcomes, result: List]
Rebuild == [key: Keys, gen: Nat, until: Nat, at: {"start", "joined", "done"},
            cooloff: BOOLEAN]
\* Every variable keeps its shape, and every number on a lease or a booking is one
\* that rebuildGen has handed out.
TypeOK ==
  /\ now \in Nat /\ gen \in Nat /\ live \in Nat
  /\ list \in [Keys -> List \cup {None}]
  /\ lease \in [Keys -> Lease \cup {None}]
  /\ rebuilds \subseteq Rebuild
  /\ \A k \in Keys : lease[k] # None => lease[k].gen \in 1..gen
  /\ Booked \subseteq 1..gen
  /\ request \in [Requests -> Request]
  /\ answer \in [list: List, until: Nat] \cup {None}

\* rebuildsLive counts the bookings that are still to be released, and never passes
\* maxConcurrentRebuilds: no slot leaks when a rebuild outlives its lease, is swept or
\* is overtaken by an outage, and none is given back twice (releaseRebuild).
SlotsAreRebuilds ==
  /\ live = Cardinality(Booked)
  /\ live <= MaxConcurrentRebuilds

\* Two rebuilds of one key run at once only when the older one has outrun the time it
\* booked (the lease and its generation).
OneRebuildInTime ==
  \A a, b \in rebuilds : (a.key = b.key /\ a.gen < b.gen) => now >= a.until

\* A list the device is told to keep plays for as long as it is told to keep it: the
\* tickets in it, minted at the build, outlive max-age, stale-while-revalidate and
\* stale-if-error, however late in its life the list was sent (staleIfErrorFor,
\* outageHoldFor).  An empty list carries no ticket.
TicketsOutliveTheCopy ==
  (answer # None /\ answer.list.nonempty) => answer.until <= answer.list.built + TicketTTL

\* A mark of an outage stands until it ends: no booking, sweep or late release of a
\* rebuild takes it off the key, only a newer outage replaces it (markOutage,
\* releaseRebuild).
OutageStands ==
  [][\A k \in Keys : InOutage(k) => lease'[k] # None /\ lease'[k].outage]_vars
=============================================================================
