--------------------------- MODULE CheckBatcher ---------------------------
(***************************************************************************)
(* The availability check of TorBox in src/internal/scout/stores.go: a     *)
(* check (CacheCheck) asks about the releases it does not remember as      *)
(* held, in batches; equal batches of an account share a flight; the       *)
(* flights of a few milliseconds share a batcher, a goroutine that         *)
(* collects their demands from a channel until its timer fires, leaves the *)
(* map of batchers, asks TorBox about all of them at once and replies.     *)
(*                                                                         *)
(* A step is one stretch between two of: the map's lock, the channel, the  *)
(* network.  The flights are external (singleflight): whoever asks for a   *)
(* flight in progress joins it, and all who joined get its result.  TorBox *)
(* is external too: it says of any release that it has it, or has not.     *)
(*                                                                         *)
(* A definition whose name starts with Bad is a plausible bug in the       *)
(* definition after it; no behaviour of CheckSpec uses it.                 *)
(***************************************************************************)
EXTENDS Integers, Sequences, FiniteSets, Functions

CONSTANTS Callers,      \* checks in progress at once
          Accounts,     \* TorBox accounts
          Hashes,       \* releases, in the order batches are cut
          CacheBatch,   \* cacheBatch: releases in one request
          MaxBatchers,  \* maxTorboxBatchers
          MaxDemands,   \* maxTorboxDemands: of a batcher, and of its channel
          Nil           \* no check, no batcher

ASSUME HashAssumption == Hashes \subseteq Nat /\ IsFiniteSet(Hashes)
ASSUME SizeAssumption ==
  /\ CacheBatch \in Nat \ {0} /\ MaxBatchers \in Nat \ {0} /\ MaxDemands \in Nat \ {0}

\* the releases of a sorted set, cut into requests of at most CacheBatch
Place(h, set) == Cardinality({g \in set : g < h})
Batches(set) == {{g \in set : Place(g, set) \div CacheBatch = Place(h, set) \div CacheBatch} : h \in set}

\* a flight's key: the account and the batch
Flights == [acct: Accounts, set: {s \in SUBSET Hashes : Cardinality(s) \in 1..CacheBatch}]

\* what a check waits for and has been told; a batcher, its channel and what it took from it
Caller == [acct: Accounts, open: SUBSET Flights, held: SUBSET Hashes, missing: SUBSET Hashes]
Batcher == [at: {"collect", "collected", "fetch"}, queue: Seq(Flights), demands: Seq(Flights)]
ASSUME NilAssumption == Nil \notin Flights /\ Nil \notin Caller /\ Nil \notin Batcher

VARIABLES
  positives,  \* positives[a]: the releases remembered as held (cachedKey)
  caller,     \* each check: what it waits for and what it has been told, or Nil
  inFlight,   \* "none"; "demand": to be demanded; "waits": on a reply; "alone": on its own
              \* request
  batcher,    \* batcher[f]: the batcher that the demand of f started, or Nil
  items       \* torboxBatchers.items: the batcher demands may join, or Nil

checkVars == <<positives, caller, inFlight, batcher, items>>

Published == {a \in Accounts : items[a] # Nil}
-----------------------------------------------------------------------------
\* CacheCheck: the remembered positives answer for themselves, the rest is asked in
\* batches.  A check that remembers everything changes nothing
Check(c, a, set) ==
  LET ask  == set \ positives[a]
      open == {[acct |-> a, set |-> batch] : batch \in Batches(ask)}
  IN /\ caller[c] = Nil
     /\ ask # {}
     /\ caller' = [caller EXCEPT ![c] =
          [acct |-> a, open |-> open, held |-> set \ ask, missing |-> {}]]
     /\ inFlight' = [f \in Flights |->
          IF f \in open /\ inFlight[f] = "none" THEN "demand" ELSE inFlight[f]]
     /\ UNCHANGED <<positives, batcher, items>>

\* every batch came back, or the check's context ended: the batches still out are not
\* described, and the positives are remembered, those it had remembered before too
Return(c) ==
  /\ caller[c] # Nil
  /\ positives' = [positives EXCEPT ![caller[c].acct] = @ \cup caller[c].held]
  /\ caller' = [caller EXCEPT ![c] = Nil]
  /\ UNCHANGED <<inFlight, batcher, items>>

BadPartial(ended, known, held) ==  \* what did not come back is said to be missing
  [c \in Callers |->
     IF caller[c] = Nil THEN Nil
     ELSE LET told == UNION {f.set : f \in caller[c].open \cap ended}
          IN [caller[c] EXCEPT !.open = @ \ ended,
                               !.held = @ \cup (told \cap known \cap held),
                               !.missing = @ \cup (told \ (known \cap held))]]

\* The flights of ended are over, and all who joined one get its result.  TorBox has
\* spoken of the releases in known; a batch it spoke of in part only counts for nothing
Ended(ended, known, held) ==
  [c \in Callers |->
     IF caller[c] = Nil THEN Nil
     ELSE LET told == UNION {f.set : f \in {g \in caller[c].open \cap ended : g.set \subseteq known}}
          IN [caller[c] EXCEPT !.open = @ \ ended,
                               !.held = @ \cup (told \cap held),
                               !.missing = @ \cup (told \ held)]]
-----------------------------------------------------------------------------
BadBatcherFor(a) ==  \* the map is asked for any account's batcher
  IF Published = {} THEN Nil ELSE items[CHOOSE p \in Published : TRUE]
BatcherFor(a) == items[a]

\* demandCheckCached, under the map's lock: join the account's batcher, or start one,
\* or, when its channel or the map is full, ask alone
Join(f) ==
  LET b == BatcherFor(f.acct) IN
  /\ b # Nil
  /\ Len(batcher[b].queue) < MaxDemands
  /\ batcher' = [batcher EXCEPT ![b].queue = Append(@, f)]
  /\ inFlight' = [inFlight EXCEPT ![f] = "waits"]
  /\ UNCHANGED items

Start(f) ==
  /\ BatcherFor(f.acct) = Nil
  /\ Cardinality(Published) < MaxBatchers
  /\ batcher' = [batcher EXCEPT ![f] = [at |-> "collect", queue |-> <<f>>, demands |-> <<>>]]
  /\ items' = [items EXCEPT ![f.acct] = f]
  /\ inFlight' = [inFlight EXCEPT ![f] = "waits"]

AskAlone(f) ==
  LET b == BatcherFor(f.acct) IN
  /\ IF b = Nil THEN Cardinality(Published) >= MaxBatchers
                 ELSE Len(batcher[b].queue) >= MaxDemands
  /\ inFlight' = [inFlight EXCEPT ![f] = "alone"]
  /\ UNCHANGED <<batcher, items>>

Demand(f) ==
  /\ inFlight[f] = "demand"
  /\ Join(f) \/ Start(f) \/ AskAlone(f)
  /\ UNCHANGED <<positives, caller>>

\* run: one demand from the channel
Take(b) ==
  /\ batcher[b] # Nil /\ batcher[b].at = "collect"
  /\ Len(batcher[b].demands) < MaxDemands
  /\ batcher[b].queue # <<>>
  /\ batcher' = [batcher EXCEPT ![b].demands = Append(@, Head(batcher[b].queue)),
                                ![b].queue = Tail(@)]
  /\ UNCHANGED <<positives, caller, inFlight, items>>

\* the timer fired, or the batcher is full: on to the lock
Collected(b) ==
  /\ batcher[b] # Nil /\ batcher[b].at = "collect"
  /\ batcher' = [batcher EXCEPT ![b].at = "collected"]
  /\ UNCHANGED <<positives, caller, inFlight, items>>

BadDrained(b) == batcher[b].demands  \* what came as the timer fired is left behind
Drained(b) ==
  LET all == batcher[b].demands \o batcher[b].queue
  IN SubSeq(all, 1, IF Len(all) < MaxDemands THEN Len(all) ELSE MaxDemands)

BadUnpublished(b) == items
Unpublished(b) == [items EXCEPT ![b.acct] = IF @ = b THEN Nil ELSE @]

\* under the lock: take what the channel still has, as long as there is room, and leave
\* the map.  Nobody reads the channel again
Drain(b) ==
  /\ batcher[b] # Nil /\ batcher[b].at = "collected"
  /\ batcher' = [batcher EXCEPT ![b] = [at |-> "fetch", queue |-> <<>>, demands |-> Drained(b)]]
  /\ items' = Unpublished(b)
  /\ UNCHANGED <<positives, caller, inFlight>>

\* the releases of all demands, each once
Asked(b) ==
  IF batcher[b] = Nil THEN {} ELSE UNION {f.set : f \in Range(batcher[b].demands)}

\* the requests, of which some may fail, and the replies
Answer(b, failed, held) ==
  LET ended == Range(batcher[b].demands)
      known == UNION (Batches(Asked(b)) \ failed)
  IN /\ batcher[b] # Nil /\ batcher[b].at = "fetch"
     /\ held \subseteq known
     /\ caller' = Ended(ended, known, held)
     /\ inFlight' = [f \in Flights |-> IF f \in ended THEN "none" ELSE inFlight[f]]
     /\ batcher' = [batcher EXCEPT ![b] = Nil]
     /\ UNCHANGED <<positives, items>>

\* the answer to a request of its own
AnswerAlone(f, ok, held) ==
  LET known == IF ok THEN f.set ELSE {} IN
  /\ inFlight[f] = "alone"
  /\ held \subseteq known
  /\ caller' = Ended({f}, known, held)
  /\ inFlight' = [inFlight EXCEPT ![f] = "none"]
  /\ UNCHANGED <<positives, batcher, items>>
-----------------------------------------------------------------------------
\* cachedTTL has passed since the positive was last remembered, or it was evicted
Forget(a, h) ==
  /\ h \in positives[a]
  /\ positives' = [positives EXCEPT ![a] = @ \ {h}]
  /\ UNCHANGED <<caller, inFlight, batcher, items>>

CheckInit ==
  /\ positives = [a \in Accounts |-> {}]
  /\ caller = [c \in Callers |-> Nil]
  /\ inFlight = [f \in Flights |-> "none"]
  /\ batcher = [f \in Flights |-> Nil]
  /\ items = [a \in Accounts |-> Nil]

BatcherStep(b) ==
  \/ Take(b) \/ Collected(b) \/ Drain(b)
  \/ \E failed \in SUBSET Batches(Asked(b)), held \in SUBSET Asked(b) : Answer(b, failed, held)
FlightStep(f) ==
  \/ Demand(f)
  \/ \E ok \in BOOLEAN, held \in SUBSET f.set : AnswerAlone(f, ok, held)

CheckNext ==
  \/ \E c \in Callers, a \in Accounts, set \in SUBSET Hashes : Check(c, a, set)
  \/ \E c \in Callers : Return(c)
  \/ \E f \in Flights : FlightStep(f) \/ BatcherStep(f)
  \/ \E a \in Accounts, h \in Hashes : Forget(a, h)

\* A goroutine that can go on does; the timer fires, and every request ends (shared has
\* a timeout).  Nothing makes a check ask
Fairness ==
  \A f \in Flights : WF_checkVars(FlightStep(f)) /\ WF_checkVars(BatcherStep(f))

CheckSpec == CheckInit /\ [][CheckNext]_checkVars /\ Fairness
-----------------------------------------------------------------------------
(* Properties                                                              *)

\* Every variable keeps its shape; a batcher has the demands of its account only, and
\* no more of them, in hand or in its channel, than maxTorboxDemands.
CheckTypeOK ==
  /\ positives \in [Accounts -> SUBSET Hashes]
  /\ \A c \in Callers : caller[c] = Nil \/ caller[c] \in Caller
  /\ inFlight \in [Flights -> {"none", "demand", "waits", "alone"}]
  /\ \A b \in {f \in Flights : batcher[f] # Nil} :
       /\ batcher[b].at \in {"collect", "collected", "fetch"}
       /\ \A s \in {batcher[b].queue, batcher[b].demands} :
            Len(s) <= MaxDemands /\ Range(s) \subseteq {f \in Flights : f.acct = b.acct}
  /\ \A a \in Accounts : items[a] = Nil \/ items[a] \in Flights

\* A demand is only ever sent to a batcher of its account that has yet to drain its
\* channel, of which there are never more than maxTorboxBatchers (demandCheckCached, run),
\* and a check that waits, waits for a flight in progress: a failed request, too, is
\* replied to (checkCachedBatch).  What a drain leaves in a channel this does not see.
DemandsAreRead ==
  /\ Cardinality(Published) <= MaxBatchers
  /\ \A a \in Published :
       /\ items[a].acct = a
       /\ batcher[items[a]] # Nil /\ batcher[items[a]].at # "fetch"
  /\ \A c \in Callers : caller[c] # Nil => \A f \in caller[c].open : inFlight[f] # "none"

\* What a check is told of a release is what TorBox says of it on that account as the
\* flight ends, whoever else's demands shared the request; a release no answer came for
\* is neither held nor missing ("we do not know", CacheCheck).
ToldOnly(a, known, held) ==
  \A c \in Callers :
    caller[c] # Nil /\ caller'[c] # caller[c] =>
      /\ caller[c].acct = a
      /\ caller'[c].held \ caller[c].held \subseteq held
      /\ caller'[c].missing \ caller[c].missing \subseteq known \ held
ToldWhatTorBoxSays ==
  [][\A f \in Flights :
       /\ \A failed \in SUBSET Batches(Asked(f)), held \in SUBSET Asked(f) :
            Answer(f, failed, held) => ToldOnly(f.acct, Asked(f) \ UNION failed, held)
       /\ \A ok \in BOOLEAN, held \in SUBSET f.set :
            AnswerAlone(f, ok, held) => ToldOnly(f.acct, IF ok THEN f.set ELSE {}, held)]_checkVars

\* Every demand is answered, also one that was sent just as the timer fired: "draining
\* under it closes that race before the coordinator is unpublished" (run).
EveryDemandAnswered ==
  \A f \in Flights : inFlight[f] = "waits" ~> inFlight[f] # "waits"
=============================================================================
