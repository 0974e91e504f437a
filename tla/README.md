# A verification project for den-scout

den-scout is a Go service that answers stream lists for a media player: it scrapes
indexers for releases, asks debrid services (TorBox, Real-Debrid, Premiumize) which of
them they hold, ranks them, and resolves a chosen one into a link, adding it to the
account when it has to. What is hard in it is neither parsing nor ranking. It is the
scarce, shared and forgetful state around the services: adds that cost and are limited
by the hour, answers that never come, memories of an account that fall behind it, lists
that outlive their tickets, rebuilds behind an answer, a cache in two tiers without a
common lock, refusals every request should honour. This directory models that part in
TLA+, checks it with TLC on small instances, and proves most of what it checks with TLAPS.

All paths below are under `src/internal/scout/`.

## 1. Inventory

| Component | State | Operations | What makes it correct | Module |
|---|---|---|---|---|
| Add budget (`addbudget.go`) | a list of charge times per account, behind a mutex | `take`, `refund`, `remaining`, `freesIn` | never over the limit; the play reserve is for viewers; Retry-After is exact | `AddBudget` |
| TorBox add path (`stores.go` 820-1990) | memories of a release in the cache: attempt marker, give-up stamp, refusal, account refusal, torrent id, queue id | `Resolve`, `addMagnet`, `resolveHeldTorrent`, `torrentID` | no second paid add over an unanswered one; silence ends; read-only only reads | `TorBoxAdd` |
| TorBox check batcher (`stores.go` 543-764) | map of batchers, their channels, flights, memory of positives | `CacheCheck`, `demandCheckCached`, `run`, `fetchCached` | every demand is answered; an answer is TorBox's; not knowing is not "missing" | `CheckBatcher` |
| TorBox status and account listing (`stores.go` 2473-2815, 2959-3497) | status flights and snapshots, listing flight, memo and unreadable mark, remembered misses | `StatusAnswer`, `torrentID`, `accountListing`, `decodeListing` | memories that feed each other stay recent; a listing that was not read to its end is no answer | `TorBoxStatus` |
| Cancel (`stores.go` 2161-2284, `handler.go` 1928-2041) | the ids | `Cancel`, `controlTorrent`, `controlQueued` | a finished download is kept | `TorBoxStatus`, `PlayRoute` |
| Real-Debrid (`stores.go` 3772-4320) | an id per target (a season and episode, or a position), the add's memories, a charge | `Resolve`, `resolveExisting`, `rdLinkFor`, `unrestrictFor` | the link is of a file the target names; one charge per torrent; no buying round | `RealDebrid` |
| Premiumize (`stores.go` 889-972, 4320-4725) | queue marker, held mark, the add's memories, a charge | `Resolve`, `AddInFlight`, `HoldsTorrent` | a pending transfer ends; charges are transfers; a probe hides no holder | `Premiumize` |
| Store pool (`stores.go` 1112-1361, 4725-5142) | none of its own | `CacheCheck`, `ResolvePreferring`, `ResolveCachedOnly`, `StatusDetail`, the reporters | what is held is tried before what is bought; the best explanation wins | `PlayRoute` |
| Play, probe, cancel routes (`handler.go` 1262-2041) | `play:pending` | `resolvePlay`, `handleProbe`, `servePlayLink`, `relistMovie`, `resolveCancel` | 404 is a claim; the routes agree, but in two cases (section 9) | `PlayRoute` |
| Link memo, link check, play warm-up (`linkmemo.go`, `linkcheck.go`, `playwarm.go`) | one remembered link per file and whether it was checked | get, put, markChecked, forget, `checkLink` | a check speaks of the link it checked | `PlayRoute` |
| Stream lists (`handler.go` 157-1260) | cached lists, rebuild leases with generations, slots | `handleStream`, `lastResort`, `rebuildBehind`, `bookRebuild`, `releaseRebuild`, `markOutage` | no slot leaks; no late release undoes a newer lease; tickets outlive the copies | `StreamList` |
| Upstream pauses (`upstreampause.go`) | pause and count per host and credential | `RoundTrip`, `refused`, `answered`, `pruneLocked` | bounded map, bounded pause, a pause stands | `UpstreamPause` |
| Memory and disk cache (`cache.go`, `diskcache.go`) | LRU with deadlines; one file per key; a burst counter | `Get`, `Put`, `PutClass`, `Sweep` | what a put replaced does not return, unless the put was overlapped (section 9); bounded | `TieredCache`, which implements `CachePromise` |
| Host limiter (`hostlimit.go`) | token bucket with debt per host | wait, refund | never more than the rate; a cancelled wait is handed back | planned |
| Availability (`availability.go`) | checks in flight | start, finish | bounded, always given back | planned |
| Scrape, coverage (`scrape.go`, `coverage.go`) | results under a deadline | fan out, merge | late results are dropped, not raced | planned |
| Indexer config mint (`indexerconfig.go`) | memo of minted configs | mint | one mint per config | planned |
| Rank, season, probe parsing, labels, tickets, seal, config, metrics, logs, wiring | | | | pure data, cryptography or reporting: not modelled (section 8) |

How they interact: a list request reads the cache (`TieredCache`, and `StreamList` for
what it makes of it), builds through scrape and the check batcher (`CheckBatcher`), both
through the pausing transport (`UpstreamPause`). A play or a probe goes through the
routes and the pool (`PlayRoute`), which ask the stores (`TorBoxStatus`, `TorBoxAdd`,
`RealDebrid`, `Premiumize`); a store charges the budget immediately before it adds
(`AddBudget`) and hands the charge back when the request was no add. All of it runs in
concurrent handlers with no queue between them: what they share is the cache, a few maps
behind mutexes and the singleflight groups. A restart loses everything but the durable
part of the cache.

The hard behaviours, each at its line with the properties that watch it, are the
`hazards` of PROJECT.json.

## 2. Modules and how they correspond to the code

A definition whose name starts with `Bad` is a plausible bug in the definition after
it. It is no part of any behaviour; it is there to show that a property can fail.

**AddBudget** (`addbudget.go`). `spent` and `known` are the map, `held` the charges of
callers between `spendAdd` and the answer of their service. Every operation holds the
mutex, so each is one action: `Grant` and `Refuse` are `take` (with the drop of drained
accounts it begins with), `Refund` and `Keep` what a caller does with its charge when
its request ends, `Restart` the loss of the count. `Remaining` and `FreesIn` are the
pure reads behind Retry-After. `made` and `misfits` are history: for every moment, the
adds charged then or later and not handed back, and the refunds that took a charge of
another moment.

**TorBoxAdd** (`stores.go`). One variable per memory; a timer has the ticks its cache
entry has left. A poll is a place in `Resolve`'s cascade; between two network calls it
is atomic, save that addMagnet's look at the memories (`Admit`) and the sending
(`Send`) are steps of their own. TorBox creates what it was sent at any moment after
the sending (`Create`), and answers with a torrent (`Created`), a queue place
(`Parked`), a refusal (`Declined`), a body nobody recognises (`Unrecognised`), half an
answer (`Torn`), or nothing (`Lost`, by a reset, a timeout or a client that hung up).
`pending` and `silence` are history. Abstractions: the budget is the choice `charge` of
`Admit`; the remembered file list takes the same path as the remembered id; finding an
already queued hash in the queue's listing is part of `Parked`; a status read is what it
leaves in the memories (`Discover`, `DiscoverQueued`); a cancel is `Remove` and `Lapse`.

**TorBoxStatus** (`stores.go`). One release of one account. Every network read is two
steps: TorBox composes its answer (`ListingRead`, `QueueRead`, `EntryRead`), and scout
acts on it later (`ListingDone`, `QueueDone`, `EntryDone`). `flight` is the status
flight of `StatusAnswer`, `listing` the account listing other releases share
(`OtherRead`), `cancel` a cancel in progress, `add` the effect of an add. `TorrentID` is
the cascade of memories in `torrentID` and `cachedListing`; `DecodeListing` is
`decodeListing` over bodies whose entries are told apart as ours, another's, without a
hash, or malformed; bodies may be cut off, repeat `data`, carry `success: false` or
pass the entry limit. Cancel looks at the entry (`CancelLook`), decides (`CancelJudge`)
and deletes (`CancelDelete`), each a step. A resolve is what it does to the memories
(`AddSent` to `ResolveLeft`); one that finds its add parked asks `torrentID` whether it
has been promoted (`ResolveParked`), waits for the listing if it must (`resolve`), and a
miss there is remembered as any other reader's is (`ListingDone`). A resolve that finds
the remembered torrent gone reads and forgets in one step (`ResolveGone`). `since` is
history: how long the account has been as it
is; it starts again while scout remembers an id that was replaced (`Astray`), which a
status read does not look behind, by design.

**RealDebrid** (`stores.go`). A poll asks for a target of a pack, which is a key and the
file `pickFileID` picks for it (`Asks`). Ids are remembered by the key, as `rdTorrentKey`
does, and a key may stand for more than one file (`FilesOf`). The poll walks addMagnet,
info, selectFiles, info, unrestrict, one step per answer. `torrents` is the account: which
ids are there, which files are selected, whether links are there. `LinkFor` is
`rdLinkFor`: links are one per selected file in file order, and a lean answer names no
selection. The behaviour is one life of the process; `Init` starts it with what an earlier
life may have left (`Earlier`), since the ids are on disk and the markers are not. Which
file a key picks is an input (`pickFileID` is name matching); `unheard` and `denied` are
history.

**Premiumize** (`stores.go`). There is one call, `directdl`, which is question and
purchase in one. `Enter` is Resolve's guards, `Send` the charge and the marker, `Carry`
the moment Premiumize deals with it, and the answers are `Served` (content), `Pending`
(a transfer), `Declined`, `Lost` and `Torn`. `Coming` is the reporter `AddInFlight`
behind "downloading". `owed` and `told` are history.

**PlayRoute** (`handler.go`, the pool of `stores.go`, `linkmemo.go`, `linkcheck.go`,
`playwarm.go`). A request is a walk: the memo (`MemoHit`, `Recheck`), the stores that hold
the release ("held"), the status in two rounds (`StatusAnswered`, `StatusFailed`,
`OutOfTime`, `StatusOver`), the cache check, the resolve in preference order
(`ResolveAnswered`, `ResolveAdded`, `ResolveFailed`), a status after it, the verdict; for
a probe the read-only enquiry and `ProbeVerdict`; for a link its check, the remint
(`relistMovie`) and the memo; for a cancel `Cancel`. A link that fails its check is
answered as the code answers it, with the 404 of a release that is not found (`Checked`);
`Tells` is what an answer says of the release itself. A store's call is one step: what
goes on inside one is in the store's own module. One request is served at a time; other
requests, the accounts' owners and the services are `Elsewhere`, `OtherMemory`,
`OtherLink` and `PendingLapses`, between any two steps, at most `MaxChanges` of the
accounts under one request. The properties claim nothing of a service that failed a call
or changed under the request (`Told`).

**CachePromise, TieredCache** (`cache.go`, `diskcache.go`). `CachePromise` is the abstract
cache: what may still be answered of a key in this process (`may`), what a restart may
bring back (`stored`), and the last put that returned with nothing else running on its key
(`floor`, and `kept` if the disk took it). A value may be lost at any time; nothing is
answered that was not put, after its life, or that such a put superseded. `TieredCache`
has the memory tier (one lock, LRU, a budget) and the files, which share no lock:
`GetRead` and `GetDone`, `Put` then `Retire` (a volatile value removes the file) or
`Write` and `Rename` (a durable one) and, a moment later, `Count` in the burst counter.
`Sweep` is `Look`, `RemoveFile`, `ResetWritten` and `Swept`, of each of the `Sweepers` on
its own: the hourly goroutine (`Hourly`) and those that `noteWritten` starts (`Bursts`)
are under no common lock, so they overlap, and each resets the counter. `fresh` (the files
the last listing did not see) and `resets` (the sweeps that reset the counter since) are
history. File operations fail and disable persistence; `Restart` cuts everything off.
`PromiseKept` is `Promise!PSpec` under the mapping that counts the tiers and what
goroutines in progress still have in hand. Abstractions: all values have one size; the
directory is set and can be listed.

**CheckBatcher** (`stores.go`). `Check` and `Return` are `CacheCheck` before and after its
wait, `Demand` (`Join`, `Start`, `AskAlone`) is `demandCheckCached` under the lock,
`Take`, `Collected`, `Drain` and `Answer` are the batcher's `run`, `AnswerAlone` the
request outside a batcher. A batcher is named by the flight whose demand started it,
which ends with it. TorBox's answers, and which requests fail, are free
choices; the timer may fire at any time. A remembered positive lapses at any time.

**StreamList** (`handler.go`). `list` is the cached entry (when it was built, whether
every indexer answered, whether it has streams), `lease`, `gen` and `live` the book of
rebuilds, `rebuilds` the goroutines that hold a booking, `request` each request's place.
`Arrive` is `handleStream` up to what it does with its hit or miss; `RebuildBehind`,
`LastResort`, `BuildInFront`, `ServeHeld` and `WriteBuilt` are the stretches after it,
`FinishBuild` the end of a build for everyone who joined it, `ReleaseRebuild` the
deferred release. `answer` is what a step sent out and for how long the client may keep
it. Abstractions: what a build does inside is its outcome (`ok`, `partial`, no
`indexers`, failed `cache-check`, `panic`); a partial list is taken to have streams;
requests whose config does not open change nothing and are left out, and so are the
debug path and the health counters.

**UpstreamPause** (`upstreampause.go`). `Send`, `Refused`, `Answered` and `Failed` are the
moments of `RoundTrip`: the look at the pause, and what it does under the lock with the
answer. What an upstream asks for is an input, already capped by `maxRetryAfter`;
`leave` is history.

The `MC` modules add the symmetry sets where a run uses them, the order of services of
`MCPlayRoute`, and the targets of `MCRealDebrid`. Three of them also bound what may
happen together: `MCTieredCache` and `MCTorBoxStatus` have two corners each, chosen at
the start, and `MCRealDebrid` asks for its last target only before an add of this life.
Every behaviour they allow is one of the component; section 4 says what each keeps out.

## 3. Timing and atomicity

Durations are ticks. What the models assume of time, and why:

- TorBoxAdd, RealDebrid, Premiumize: a tick is as long as `resolveBudget` (45 s), and at
  most one passes over a poll; `addAttemptTTL` (90 s) is two of them.
- TorBoxStatus: a tick is 15 s, the budget of a status flight and of the listing fetch it
  leads, so at most one passes over either; Cancel's budget is 8 s, and none passes over
  it. A timer of n ticks spans n - 1 of the moments a tick falls on, so the snapshot's 5 s
  and the listing's 15 s are both timers of 2.
- StreamList: a handler's own work takes no time beside a tick; a build that a request
  waits for ends within `RebuildBudget`, its context's timeout. A rebuild nobody waits
  for may lag for ever. The first is needed: `markOutage` dates its mark by the clock
  from before the build, and with an unbounded build `OneRebuildInTime` fails.
- PlayRoute has no clock: a budget may run out at any step that looks at it.
- AddBudget, UpstreamPause and TieredCache assume nothing of time but that it does not go
  back.

## 4. Runs

| Run | Bounds | Shows |
|---|---|---|
| `add_budget` | 2 accounts, 2 callers, window 2, limit 2, reserve 1, clock to 3 | count, reserve and Retry-After are right in every order of takes, refunds and restarts; adds of a window pass the limit by at most the number of misplaced refunds |
| `torbox_add` | 2 polls, 1 release; TTLs 2, 1, 3, 7 | no add is admitted over an unanswered one; resets end adds after `addGiveUp`; read-only polls only read |
| `torbox_status` | two ids of scout's and one of the owner's; TTLs 2, entry limit 2; two of status read, cancel, add and resolve out at once; in two corners, with hands that replace the torrent and with an add parked and promoted | what a poll is told is a bounded while old; Cancel keeps what had finished when it looked |
| `real_debrid` | 2 polls, 2 files and 2 keys, one of which may mean either file, a torrent of this life and one of an earlier, 1 add in the budget | the link is of a file its target names; charges are torrents that may exist; a denied torrent starts no buying round |
| `premiumize` | 3 polls, 2 adds in the budget | "coming" ends; charges are transfers; polls leave the holder named |
| `premiumize_probe` | 1 poll | **violated**: a read-only poll starts a transfer |
| `play_route` | TorBox and Real-Debrid in that order, 3 links, 1 change of an account per request | only checked links skip the check; 404 is said of what was read; nothing is bought that is held or coming; the routes agree but in two cases |
| `tiered_cache` | memory of 1 entry, disk budget of 2, clock to 2, 1 restart; in two corners, of 2 goroutines, 2 keys and 3 puts that race, and of 5 durable puts of 3 keys against the hourly sweep and a burst's | the tiers implement `CachePromise`; the directory is bounded |
| `check_batcher` | 1 check at a time that may leave and come back, 2 accounts, 2 releases, 1 per request, 1 batcher, 2 demands | no demand goes to a dead batcher, answers are TorBox's, every demand is answered |
| `check_batcher_full` | 1 account, 2 releases, 1 demand per batcher | **violated**: a demand sent after the batcher filled is never answered |
| `stream_list` | 2 keys, 1 request, 2 slots, clock to 3, 3 generations | slots, generations, outage marks, ticket lives |
| `upstream_pause` | 3 upstreams, a map of 2, 2 requests, clock to 3 | map and pause are bounded, a running pause stands |

Why the bounds are enough for the interesting cases: two callers are what it takes for a
refund to remove another's charge, two polls for a marker to be settled under a poll;
the TTLs keep the order of the real ones (`1 < AttemptTTL < GiveUp < UnknownTTL`), with
room for two adds before the deadline. In `torbox_status` the chain of memories a "no"
can pass through (listing fetch, memo, remembered miss, flight, snapshot) is as long as
it can be, and `MaxAge` lies one past its sum. Its corners keep apart what the owner does by
hand and what TorBox parks and promotes: either makes a new id for one release, and the
promoted id is why scout has two; no more than two of the four readers and writers beside
the listing are out at once, since a stale memory has one writer and one reader. In
`real_debrid` two files are what it takes for a link's position to matter, two keys for an
id to be remembered under one and not the other, a key of both files for a link to be
another file's, and an earlier torrent and a new one for a poll to hold an id that is no
longer the remembered one. Three polls of `premiumize` are a
play, another play and a probe of one transfer. In `play_route` the two services are the
two kinds there are: one that finds a release by its hash and has a cache check, one
that has neither; Premiumize, which has a check and no status, is left out of the
instance. In `tiered_cache` a memory of one entry evicts at every second value, and three
puts are a value, one that supersedes it and one that interferes. Those races are about
one key's values and need no full directory; the directory's size is about names and
sweeps, and needs no reader. Hence two corners. A disk budget of two is the least at
which a write can follow a reset without a sweep coming due, so it is the least at which
overlapping sweeps cost anything; three keys and five puts are enough to overrun it. In
`stream_list` one request at a time still has several rebuilds in progress, since they
outlive it, and three generations let a booking be overtaken and its successor be
overtaken too. `MaxGen` counts the requests in progress (`NumbersLeft`), so that no step
is cut off half way. The map of pauses has one place less than there are upstreams, so
it prunes both ways. In `check_batcher` there are as many flights per account as a
batcher has room for, which is where its liveness holds; more than that is
`check_batcher_full`.

Symmetry is used for identical accounts, callers, polls, keys, goroutines, links,
requests and upstreams in runs of invariants and action properties, never in a run with
liveness. Every property of a passing run has a mutant, a plausible bug under which TLC
finds it violated.

The violated runs are the `findings` of PROJECT.json, each with the line of the code,
its comments or its tests that says otherwise.

## 5. Refinement

`tiered_cache` checks `PromiseKept`, that every step of the two tiers is a step of
`CachePromise` or leaves it as it is. What it rests on: a Get that has read a file holds a
value that is not in the tiers at the moment, so the mapping counts it (`Held`); a put
promises to supersede only when it ran alone on its key (`alone`), because the tiers do
not order overlapping operations of one key, and what an overlapped put replaced can come
back after it has returned (section 9); a failed file operation turns persistence off for
the process, after which the files are invisible to it, and visible again to the next one:
hence `kept` beside `floor`.

## 6. Fairness

Only CheckBatcher states fairness: a flight's goroutine and a batcher's goroutine each go
on when they can. The Go scheduler runs a goroutine that is ready; the batcher's timer
fires; a request to TorBox ends because its context has a timeout of 15 s. Nothing obliges a
caller to ask or a remembered positive to lapse. The other modules are safety only; what
must end in them is a bound on a counted time (`SilenceEndsAdds`, `ComingIsADeadline`,
`SaidIsRecent`), which needs no fairness.

## 7. Proofs

TLAPS checks these for every value of the constants that satisfies the named
assumptions, so for any number of accounts, callers, keys and requests. The head of
a proof module says what its invariants add to the properties and why. What is left to
TLC is at the end of the section.

*AddBudgetProofs.* `TypeCorrect`; `LimitHolds` (`WithinLimit`); `ReserveHolds`
(`ReserveKept`); `RetryAfterHolds` (`RetryAfterIsExact`); `OvershootHolds`
(`OvershootBounded`). `WithinLimit` is inductive with the types. `ReserveKept` is not: it
speaks of the live charges only, and a drain moves charges forward. The strengthening
(`BudgetInv`) says that a prefetch's charge sits among the first `Limit - Reserve` of
its list. Taking a suffix (`LiveIsSuffix`) or dropping the last charge
(`PrefixProperties`) only moves a charge forward, and `take` appends a prefetch's charge
below that position only (`KeptIsGood`, `BudgetStep`). The other two need that the list
is in time order (`TimeInv`): the wait is then the time until one position of the list
has left the window. For the overshoot, the adds since any moment are at most the
charges the list still has from that moment on (`Later`) and the misplaced refunds
(`OverInv`); it is why `made` counts from every moment and not only from the window's
start, which moves. Assumed: the limit and the window are positive, the reserve is below
the limit (`parsePlayReserve`).

*TorBoxAddProofs.* `TypeCorrect`; `AdmissionWaits` (`AdmitWaitsForTheAnswer`);
`SilenceIsGivenUp` (`SilenceEndsAdds`); `ReadOnlyReads` (`ReadOnlyPollsOnlyRead`), for
infinite sets of polls and releases too. The memories lag behind what happened, and the
invariant says how far they do not: while an add is unanswered its marker has at least
as long to live (`Marked`); while the service is silent the stamp is as old as the
silence (`Stamped`), which needs the marker again, because an add that is lost asks the
marker whether there is anything to stamp; and a read-only poll is at a place from which
no add follows (`Reading`). `SilenceIsGivenUp` has the hypothesis that a client's timeout
is no cause of silence: with it among `SilentCauses` the code does not keep the property
(section 9), and TLC shows it.

*StreamListProofs.* `TypeCorrect`; `SlotsHold` (`SlotsAreRebuilds`); `OutageHolds`
(`OutageStands`); `TicketsHold` (`TicketsOutliveTheCopy`); `OneRebuildHolds`
(`OneRebuildInTime`). The first two properties need
that a generation is a fence (`Fencing`): no two bookings share a number, and no outage
has a booking's number; then a late release finds either its own lease or nothing to
do. The tickets need to know where a list can be (`Reach`): a cached entry has not
passed its end, a request in the last resort holds an empty list or one it may no
longer use. `TicketsHold` rests on `TicketAssumption`, `TicketTTL > 3 * ListTTL`:
`BuildDeps` (`deps.go` 266-271) only warns when it does not hold, and then the theorem
says nothing. `OneRebuildHolds` needs that every booking in its time is covered by its
key's lease (`Covered`). An outage's mark takes the lease over and runs from the clock
its request read before its build, so it may end before a rebuild does whose lease it
took. With a list that is fresh for longer than a rebuild may take that does no harm
(`Barred`): while a request waits in its last resort the key has no list another could
rebuild behind (`Quiet`), and one built since goes stale only after that rebuild's time.
Without, two rebuilds have to fit the cool-off. That is the hypothesis, `RebuildsFit`;
the defaults (28 s, 300 s, 60 s) satisfy both halves. It is not idle: with lists fresh
for one tick, rebuilds of two and a cool-off of two, TLC finds two rebuilds of a key in
their time. A deployment with `LIST_TTL_SECS` no longer than `SCRAPE_TIMEOUT_SECS` and 20
seconds, and that timeout above 10, is outside of it.

*UpstreamProofs*, three parts.

Pauses: `TypeCorrect`; `PausesAreBounded` (`PausesBounded`); `PausesStand`
(`PauseStands`), for infinite sets of upstreams too. The map's size is a
cardinality, so the induction carries that the paused upstreams are finitely many; a
refusal adds one to what `Room` leaves, which is less than a full map
(`RoomKeeps`). The length of a pause is a bound on the end of each against the clock,
which a refusal respects (`UntilInBounds`) and the clock only loosens. `PauseStands`
follows from the types: a refusal takes the later of two ends.

Availability checks: `CheckTypeCorrect` (`CheckTypeOK`); `DemandsStayRead`
(`DemandsAreRead`); `ToldTheTruth` (`ToldWhatTorBoxSays`); `DemandsAreKept`, the safety
half of `EveryDemandAnswered`: a demand a batcher has received stays in its hands until
its flight ends, but for a drain that finds more than the batcher may take (the finding of
`check_batcher_full`). The properties speak of the map, the flights and the checks; what
ties them together is what each batcher has in its channel and has taken (`Hands`). Those
demands are of the batcher's account, their flights wait, and the demand that started the
batcher is the first of them (`HandsInBounds`), so a flight that is yet to be demanded
starts no batcher where one still runs (`Unsent`). No demand is in two batchers' hands
(`HandsApart`), so an answer ends no other batcher's flights (`StepAnswer`), and a batcher
in the map has yet to drain (`PublishedReads`). What a check waits for is of its account
and in progress (`OpenIsOut`). `ToldTheTruth` also rests on how a request is cut: its
batches have no release in common (`BatchesApart`), so the releases of failed batches are
exactly those nothing is known of; that a batch has at most `CacheBatch` releases
(`BatchSize`) is a count of remainders, since two releases of one batch have different
places in the sorted set. Assumed: the releases are finitely many numbers, the sizes are
positive, `Nil` is none of the records.

Status: `StatusTypeCorrect` (`StatusTypeOK`); `SaidStaysRecent` (`SaidIsRecent`);
`FinishedStays` (`FinishedIsKept`). The bound on a "no" is the sum of a chain, and the
invariant is the chain link by link (`NoIsRecent`): a listing read without the release is
as old as the read (`ListingNo`), the memo made of it adds its life so far (`MemoNo`), the
remembered miss adds its own (`MissNo`), then the flight that went on from it (`QueueNo`,
or `EntryNo` for an id that is gone) and the snapshot (`SnapNo`). Each link must hold on
its own, because a read may be overtaken at any point: a miss remembered from a memo that
is about to lapse outlives it. A "downloading" has two links (`FetchIsRecent`). That a
listing which was not read to its end never enters the chain is two facts about
`DecodeListing`: a body it accepts, of any there are, is whole and has one array of data
(`ListingOk`), and such a body, of those TorBox may send, lists the release if the account
holds it (`HeldIsListed`). `FinishedStays` needs what Cancel's look leaves behind
(`LookedUnfinished`): from the look to the delete, a finished torrent finished since.
Assumed: the two sets of ids are disjoint sets of positive numbers, the lives and the
limit are positive.

*PremiumizeProofs.* `TypeCorrect`; `ChargesAccounted` (`ChargesAreTransfers`);
`HolderStays` (`HolderStaysNamed`); `ComingHasADeadline` (`ComingIsADeadline`). The
account of the charges needs that the polls whose charge is open (`Open`) are finitely
many; with it every refund finds a charge to hand back (`RefundIsExact`), whatever the
marker said when the call was sent. The deadline needs how long the release can have been
called coming at each stage of a poll and for each life of a marker (`Deadlines`): the
queue marker's life is only written anew by a poll that entered when no other stood.

*RealDebridProofs.* `TypeCorrect`; `LinksAreTheFiles` (`LinkIsTheFile`);
`ChargesAccounted` (`ChargesAreAdds`); `DeniedStaysUnbought` (`DeniedIsNotBoughtAgain`).
`rdLinkFor` takes the only link of an answer that names no selection, so it is right only
because a torrent has an owner (`Owned`): every memory of its id and every poll on it are
for one and the same key, and what it has selected is nothing or contains a file of that
key. An owner is kept because ids are remembered by key and an id is new when it is given
out (`Unminted`); `LinkForOwner` then is the link, `NthAtPosition` the count of files in
front of it. `DeniedStaysUnbought` needs that a refusal outlives the denial it came from
(`denied <= refused`). Assumed: the pack's files are finitely many and numbered from 1.

*TieredCacheProofs.* `Refines`; `TypeCorrect`; `DiskStaysBounded` (`DiskBounded`).
`Refines` is `Spec => PromiseKept`, the refinement of section 5 for
every set of keys and goroutines and all budgets. The set of values that may be answered
only shrinks but for a put's own, so what is left is that nothing older than `floor` or
`kept` is in it (`Retired`). That holds when a put that ran alone returns because it was
the only goroutine on its key (`Alone`), the memory has nothing of the key older than it
(`Newest`), and it has either dealt with the file or turned persistence off. The mapping's
sets are dealt with member by member (`VisibleMembers`). For the volume, no two files
have the same number (`Numbered`), so a sweep leaves at most a budget of the files it
listed, whatever other sweeps remove (`Left`); the files the last listing did not see
were written since, and `written` counts them, but for those yet to be counted and those
a sweep has reset since (`Late`). A reset is worth less than a budget, and each sweep
that overlaps makes one, so the bound has a term for each: that is all the code keeps.

*PlayRouteProofs.* `TypeCorrect`; `CheckedLinksPassed` (`CheckedLinkPassed`);
`NotFoundClaims` (`NotFoundIsAClaim`); `AddsOnlyWhenNeeded` (`BoughtOnlyWhenNeeded`);
`TheRoutesAgree` (`RoutesAgree`), for any finite set of stores in any order. What a
request answers is a claim about accounts it read some steps before, so the invariant is
what it has established by each stage about the stores that did not change since and
answered with what is so (`Told`): a store whose status was read is not fetching
(`StatusRead`), a probe keeps the stores it could not hear (`UnheardKept`) and has asked
every holder (`Enquiring`), a walk that may add asks the stores it knows an id at first
and has made a link of what it found ready there (`Resolving`). The routes agree because
what the last answer said of the release is so while nothing changes (`Agreeing`); of the
two answers `Tells` leaves out nothing follows (section 9). The
queues a request works through are sequences, so the first part of the module is about
putting a finite set in order, which the model does with a choice and not a recursion.
Assumed: the configured order names every store once (`OrderAssumption`).

*Only model-checked.* Liveness under fairness (`EveryDemandAnswered` of CheckBatcher), which
is out of the prover's reach. Every safety property that a passing run checks is a
theorem.

## 8. Not modelled

Parsing and formatting (release names, container headers, labels, manifests), sealing
and ticket signatures, metrics and logs: no state that another component reads, or data
whose detail no property here tells apart. The limiter, availability, scrape and mint
have state worth modelling and are in the plan. No model but TieredCache spans a restart
with its history: the budget and the markers are lost by design, and `Restart` is an
action or `Init` starts from what an earlier life left, but what the service counted
before it is not held against the process after it. `WithinLimit`
and `ChargesAreAdds` are upper bounds: a charge handed back twice, or for an add that did
happen, only lowers a count and they do not see it. `ChargesAreTransfers` is exact.

## 9. Disagreements seen

Besides the two findings, the models have behaviours that differ from what a comment
says, or that a maintainer would want to know of. They are in the models as the code has
them, and the properties are stated so as not to deny them.

- `addbudget.go` 140: a refund removes the account's newest charge, whoever made it, so a
  rolling window may hold more adds than the limit, one more for each refund of that
  kind. `OvershootBounded` is that bound.
- `stores.go` 1752: an add cut off by a reset reads the release's shared marker; if
  another poll's answer has settled it, the reset is filed as TorBox's refusal.
- `stores.go` 1876 and 1896: two polls both find no marker and both send.
- `stores.go` 1748: the client's own timeout counts as a cancellation and starts no
  give-up clock; only resets do (`SilentCauses` of TorBoxAdd).
- `stores.go` 4005-4022 and 4269-4311: `rdTorrentKey` calls itself "Keyed by the FILE", but
  it is the season and episode, and `pickFileID` falls back to the target's `FileIdx` when
  the pack does not name the episode. Two lists may give one episode two positions
  (`scrape.go` 696-697), so one key may mean two files, and where `rdLinkFor` takes the
  only link ("there is only one thing it can be") it may be the other one's.
  `LinkIsTheFile` promises a file of the key.
- `diskcache.go` 92: a Get that read a file before a volatile Put removed it puts the old
  value into memory after that Put has returned, and it is answered from then on, where
  103-108 says that "a volatile value supersedes every older value for this key".
  Likewise 143: a durable Put may rename its file into place after a newer volatile Put
  has removed what was there. `PromiseKept` promises replacement by a put that nothing
  overlapped. Get and Sweep remove by path (88, 224, 241), and so may remove a file
  renamed there since they looked: a fresh value is lost, which the promise permits.
- `diskcache.go` 150-156 and 293-316: the hourly sweep and a burst's take no common lock.
  Each resets the counter when it is done, so writes another sweep did not list are no
  longer counted, and the directory may hold a budget of old files and, of new ones, less
  than a budget for every reset since the last listing and less than one more, with no
  sweep due. `DiskBounded` is that bound.
- `handler.go` 1586-1601: a play serves the memo's link though no account holds the
  release any more and a probe of it answers 404.
- `handler.go` 1863-1865: a play whose link fails its check, and whose remint brings no
  better, answers the same 404 `dead_link` as for a release no store could resolve, where
  a probe said ready. `RoutesAgree` leaves these two cases out, and `NotFoundIsAClaim`
  the second.
- `handler.go` 828: lastResort's held list is always an empty one, since `handleStream`
  has served every other on the way there.
- `upstreampause.go` 166: an answer to a request sent before the refusal ends the pause.
- `stores.go` 2557-2564: a queue listing that cannot be read ends a status as "no", where
  the comment at 2019-2021 wants it indeterminate. A "no" may be 65 s old in all, where
  2832-2836 says that the memo adds no staleness.
- `stores.go` 1937 and 2202: a torrent the owner promoted by hand is cancelled as
  scout's own, and a stalled one is deleted whoever added it.
- `stores.go` 4071: a late 404 about an older torrent forgets the id of a newer one.
- `stores.go` 4519: a read-only Premiumize poll's torn answer starts the give-up clock, and
  its answer settles another poll's add marker. Two plays of one release may both be
  charged for one transfer.
- `stores.go` 3850-3864: a Real-Debrid status that fails at once reads as "no", so a
  release it is fetching can be answered 404. With Real-Debrid ready and TorBox fetching,
  a play answers with a link and a probe "downloading".
- `handler.go` 1620: while `play:pending` stands and TorBox's remembered id is stale, a
  play adds at TorBox again though Real-Debrid holds the release ready.

## 10. Plan

1. *Done:* AddBudget, TorBoxAdd, StreamList, UpstreamPause, CheckBatcher, TorBoxStatus,
   RealDebrid, Premiumize, PlayRoute, TieredCache with CachePromise; proofs of every safety
   property their runs check, and of the cache's refinement.
2. HostLimiter, Availability, the scrape's fan-out, the mint of indexer configs.
3. Composition of TorBoxAdd with AddBudget: a charge is held exactly by polls between
   `Admit` and the end of their add, and the two refine one account of paid adds.
4. Liveness of the rebuild slots with TLC.
