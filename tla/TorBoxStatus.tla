---------------------------- MODULE TorBoxStatus ----------------------------
(***************************************************************************)
(* What src/internal/scout/stores.go says about a release TorBox may be    *)
(* fetching, and how it takes one back: the status read of one release on  *)
(* one account (StatusAnswer), the account listing every release of the    *)
(* account shares (accountListing), and Cancel.                            *)
(*                                                                         *)
(* The three meet in the cache.  A status read is a singleflight that      *)
(* stores a snapshot; the torrent id it needs comes from a memory, a       *)
(* remembered miss, a memo of the listing or a listing fetch that is a     *)
(* singleflight of its own; Cancel and Resolve write and forget the same   *)
(* memories while both are out.  Each network read is two steps: TorBox    *)
(* composes its answer, and scout acts on it later.  A poll that joins a   *)
(* status flight, or leaves it at its own deadline, changes no state.      *)
(*                                                                         *)
(* A tick is 15 seconds, the whole budget of a status flight and of the    *)
(* listing fetch it leads: at most one tick passes over either.  Cancel's  *)
(* budget is 8 seconds, and no tick passes over it.                        *)
(*                                                                         *)
(* A definition whose name starts with Bad is a plausible bug in the       *)
(* definition after it; no behaviour of StatusSpec uses it.                *)
(***************************************************************************)
EXTENDS Integers, Sequences

CONSTANTS OurIds,     \* TorBox's ids of the torrents and queue entries scout's adds create
          HandIds,    \* and of those the account's owner creates
          StatusTTL,  \* torboxStatusTTL, in ticks
          MissTTL,    \* torrentMissTTL, of both remembered misses
          ListTTL,    \* listingTTL, of the memo and of the mark that there is no reading it
          MaxAge,     \* the history counts ticks up to here
          Limit       \* maxListingEntries

ASSUME StatusAssumption ==
  /\ OurIds \subseteq Nat \ {0} /\ HandIds \subseteq Nat \ {0} /\ OurIds \intersect HandIds = {}
  /\ {StatusTTL, MissTTL, ListTTL, MaxAge, Limit} \subseteq Nat \ {0}

VARIABLES
  \* scout's memories of the release; a timer counts the ticks left
  snap,      \* torboxStatusKey: the last answer and its timer
  tid,       \* torrentIDKey: an id, or 0
  miss,      \* torrentMissKey, a timer
  qid,       \* torboxQueuedKey: an id, or 0
  qmiss,     \* torboxQueuedMissKey, a timer
  ours,      \* torboxAddedKey
  \* the account's
  memo,      \* listingMemo: the id listed for the release, 0 for none, and its timer
  oversized, \* the ":oversized" key, a timer
  \* what is out
  listing, flight, cancel, add, resolve,
  \* TorBox
  account,   \* what it holds of the release
  \* history
  since      \* ticks the account has been as it is, to scout's knowledge of the id

memory == <<snap, tid, miss, qid, qmiss, ours>>
shared == <<memo, oversized>>
statusVars == <<memory, shared, listing, flight, cancel, add, resolve, account, since>>

Ids == OurIds \union HandIds
NoId == 0
Unread == -1   \* a listing that gave no answer
Ask == -2      \* nothing remembered: the listing has to be asked for
Missing == 0   \* a listing that was read, without the release in it
Listed == Ids \union {Missing}

Out(at) == [at |-> at, id |-> NoId, saw |-> "nothing", aged |-> FALSE]
Idle == Out("idle")
Nothing == [id |-> NoId, is |-> "none"]
NoSnap == [says |-> "nothing", ttl |-> 0]
NoMemo == [id |-> Missing, ttl |-> 0]

Live == {"downloading", "stalled"}
Held(a) == a.is \in Live \union {"finished"}
\* a fetch, a place in the queue, and neither, as a poll tells them apart
Kind(a) == IF a.is \in Live THEN "downloading" ELSE IF a.is = "queued" THEN "queued" ELSE "no"
-----------------------------------------------------------------------------
(* decodeListing: the body is its top-level fields, in order, and whether   *)
(* it was cut off.  Entries are "ours", "other" (usable hashes), "blank"    *)
(* (none) and "odd" (a field of the wrong type).                            *)

Transient == [ok |-> FALSE, fault |-> FALSE, ids |-> {}]
Persistent == [ok |-> FALSE, fault |-> TRUE, ids |-> {}]

DecodeData(entries, closed) ==
  LET seen == Len(entries)
      kinds == {entries[i] : i \in 1..seen}
      usable == kinds \intersect {"ours", "other"}
  IN IF \E i \in 1..seen : entries[i] = "odd" /\ i <= Limit + 1 THEN Persistent
     ELSE IF seen > Limit THEN Persistent
     ELSE IF ~closed THEN Transient
     ELSE IF seen > 0 /\ usable = {} THEN Persistent
     ELSE [ok |-> TRUE, fault |-> FALSE, ids |-> usable]

DecodeListing(body) ==
  LET data == {i \in DOMAIN body.fields : body.fields[i].key = "data"}
      field == body.fields[CHOOSE i \in data : TRUE]
      success == \A i \in DOMAIN body.fields : body.fields[i].key # "failed"
      inData == body.cut /\ Len(body.fields) \in data
  IN IF \E i, j \in data : i # j THEN Transient      \* a repeated key settles nothing
     ELSE IF data # {} /\ field.array
            /\ DecodeData(field.entries, ~inData) \in {Transient, Persistent}
       THEN DecodeData(field.entries, ~inData)
     ELSE IF body.cut THEN Transient                 \* no closing brace
     ELSE IF data = {} \/ ~field.array \/ ~success THEN Persistent
     ELSE DecodeData(field.entries, TRUE)

(* What TorBox may send for the account as it is: the listing, the listing  *)
(* cut off, or one of the shapes that are not a listing.                    *)
Field(key, entries) == [key |-> key, array |-> TRUE, entries |-> entries]
Null == [key |-> "data", array |-> FALSE, entries |-> <<>>]
Whole(entries) == <<Field("success", <<>>), Field("data", entries)>>
Entries(a) == IF Held(a) THEN <<"other", "ours">> ELSE <<"other">>

Bodies(a) ==
  [fields : {Whole(Entries(a))}, cut : {FALSE}]
  \union [fields : {Whole(IF Held(a) THEN <<"ours">> ELSE <<>>)}, cut : {FALSE}]
  \union [fields : {Whole(<<"other">>), Whole(<<"blank">>), <<Field("success", <<>>)>>, <<>>},
          cut : {TRUE}]
  \union [fields : {Whole(<<"blank">>), Whole(<<"other", "odd">>), <<Field("other", <<>>)>>,
                    <<Null>>, <<Null, Field("data", <<>>)>>,
                    <<Field("failed", <<>>), Field("data", <<>>)>>,
                    Whole([i \in 1..Limit + 1 |-> "blank"])},
          cut : {FALSE}]
-----------------------------------------------------------------------------
(* torrentID from the memories, then cachedListing: the id, Missing (a      *)
(* remembered miss, or a listing without the release), Unread, or Ask.    *)
BadTorrentID ==  \* an unreadable account is taken for one that holds nothing
  IF tid # NoId THEN tid
  ELSE IF miss > 0 \/ oversized > 0 THEN Missing
  ELSE IF memo.ttl > 0 THEN memo.id
  ELSE Ask

TorrentID ==
  IF tid # NoId THEN tid
  ELSE IF miss > 0 THEN Missing
  ELSE IF memo.ttl > 0 THEN memo.id
  ELSE IF oversized > 0 THEN Unread
  ELSE Ask

(* What torrentID remembers of a listing: the id, or an authoritative miss. *)
RememberListed(id) ==
  /\ tid' = IF id \in Ids THEN id ELSE tid
  /\ miss' = IF id = Missing THEN MissTTL ELSE miss

(* The memories already answered, or a listing did: a remembered miss is    *)
(* not stamped again.                                                       *)
Remember(id) ==
  IF tid # NoId \/ miss > 0 THEN UNCHANGED <<tid, miss>> ELSE RememberListed(id)

JoinListing == listing' = IF listing.at = "idle" THEN Out("asked") ELSE listing

ForgetTorrentID == tid' = NoId /\ snap' = NoSnap /\ ours' = FALSE
-----------------------------------------------------------------------------
(* The listing fetch.  Another release's read leads one too.                *)
OtherRead ==
  /\ memo.ttl = 0 /\ oversized = 0
  /\ listing.at = "idle"
  /\ JoinListing
  /\ UNCHANGED <<memory, shared, flight, cancel, add, resolve, account>>

\* TorBox composes the listing, or answers with an error.
ListingRead ==
  /\ listing.at = "asked"
  /\ \E got \in {DecodeListing(body) : body \in Bodies(account)} :
       listing' = [listing EXCEPT !.at = "read",
                     !.id = IF ~got.ok THEN Unread
                            ELSE IF "ours" \in got.ids THEN account.id ELSE Missing,
                     !.saw = IF got.fault THEN "fault" ELSE "nothing"]
  /\ UNCHANGED <<memory, shared, flight, cancel, add, resolve, account>>

ListingFailed ==
  /\ listing.at = "asked"
  /\ listing' = [listing EXCEPT !.at = "read", !.id = Unread]
  /\ UNCHANGED <<memory, shared, flight, cancel, add, resolve, account>>
(* putCachedListing makes room for another account's listing.               *)
Evicted ==
  /\ memo.ttl > 0
  /\ memo' = NoMemo
  /\ UNCHANGED <<memory, oversized, listing, flight, cancel, add, resolve, account>>
-----------------------------------------------------------------------------
(* statusAnswerUncached, from where the torrent's id is known or known to   *)
(* be missing.  Ending stores the snapshot; "unknown" stores nothing.       *)
End(says) ==
  /\ flight' = Idle
  /\ snap' = IF says = "unknown" THEN snap ELSE [says |-> says, ttl |-> StatusTTL]

ByListing(id) ==
  \/ /\ id = Unread
     /\ End("unknown")
  \/ /\ id \in Ids
     /\ flight' = [Out("entry") EXCEPT !.id = id, !.aged = flight.aged]
     /\ UNCHANGED snap
  \/ /\ id = Missing /\ qmiss > 0
     /\ End("no")
  \/ /\ id = Missing /\ qmiss = 0
     /\ flight' = [Out("queue") EXCEPT !.aged = flight.aged]
     /\ UNCHANGED snap

StatusStart ==
  /\ snap.ttl = 0 /\ flight.at = "idle"
  /\ \/ /\ qid # NoId
        /\ End("queued")
        /\ UNCHANGED <<tid, miss, listing>>
     \/ /\ qid = NoId /\ TorrentID = Ask
        /\ flight' = Out("listing")
        /\ JoinListing
        /\ UNCHANGED <<snap, tid, miss>>
     \/ /\ qid = NoId /\ TorrentID # Ask
        /\ ByListing(TorrentID)
        /\ Remember(TorrentID)
        /\ UNCHANGED listing
  /\ UNCHANGED <<qid, qmiss, ours, shared, cancel, add, resolve, account>>

\* findQueuedByHash, and mylist by id: what TorBox puts in its answer.
QueueRead ==
  /\ flight.at = "queue"
  /\ flight' = [flight EXCEPT !.at = "queueRead",
                              !.id = IF account.is = "queued" THEN account.id ELSE NoId]
  /\ UNCHANGED <<memory, shared, listing, cancel, add, resolve, account>>

EntryOf(id) == IF Held(account) /\ account.id = id THEN account.is ELSE "none"

EntryRead ==
  /\ flight.at = "entry"
  /\ flight' = [flight EXCEPT !.at = "entryRead", !.saw = EntryOf(flight.id)]
  /\ UNCHANGED <<memory, shared, listing, cancel, add, resolve, account>>

QueueDone ==
  /\ flight.at = "queueRead"
  /\ IF flight.id # NoId
       THEN qid' = flight.id /\ qmiss' = qmiss /\ End("queued")
       ELSE qid' = qid /\ qmiss' = MissTTL /\ End("no")
  /\ UNCHANGED <<tid, miss, ours, shared, listing, cancel, add, resolve, account>>

\* The queue's listing could not be read.
QueueFailed ==
  /\ flight.at \in {"queue", "queueRead"}
  /\ End("no")
  /\ UNCHANGED <<tid, miss, qid, qmiss, ours, shared, listing, cancel, add, resolve, account>>

Says(saw) == IF saw \in Live THEN "downloading" ELSE "no"

EntryDone ==
  /\ flight.at = "entryRead"
  /\ End(Says(flight.saw))
  /\ UNCHANGED <<tid, miss, qid, qmiss, ours, shared, listing, cancel, add, resolve, account>>

\* An error, an unreadable body, or the flight's 15 seconds.
StatusFailed ==
  /\ flight.at \in {"listing", "entry", "entryRead"}
  /\ End("unknown")
  /\ UNCHANGED <<tid, miss, qid, qmiss, ours, shared, listing, cancel, add, resolve, account>>
-----------------------------------------------------------------------------
(* Cancel.  A refusal, or a reannounce, ends it without a change of state.  *)
CancelBy(id) ==
  cancel' = IF id \in Ids THEN [Out("entry") EXCEPT !.id = id] ELSE Idle

CancelStart ==
  /\ cancel.at = "idle"
  /\ \/ /\ qid # NoId /\ ours
        /\ cancel' = [Out("dequeue") EXCEPT !.id = qid]
        /\ UNCHANGED <<tid, miss, listing>>
     \/ /\ qid = NoId /\ TorrentID = Ask
        /\ cancel' = Out("listing")
        /\ JoinListing
        /\ UNCHANGED <<tid, miss>>
     \/ /\ qid = NoId /\ TorrentID # Ask
        /\ CancelBy(TorrentID)
        /\ Remember(TorrentID)
        /\ UNCHANGED listing
  /\ UNCHANGED <<snap, qid, qmiss, ours, shared, flight, add, resolve, account>>

(* The fetch returns: the memo, or the mark, and whoever waits goes on.      *)
ListingDone ==
  /\ listing.at = "read"
  /\ memo' = IF listing.id = Unread THEN memo ELSE [id |-> listing.id, ttl |-> ListTTL]
  /\ oversized' = IF listing.saw = "fault" THEN ListTTL ELSE oversized
  /\ IF "listing" \in {flight.at, cancel.at, resolve.at}
       THEN RememberListed(listing.id) ELSE UNCHANGED <<tid, miss>>
  /\ IF flight.at = "listing" THEN ByListing(listing.id) ELSE UNCHANGED <<flight, snap>>
  /\ IF cancel.at = "listing" THEN CancelBy(listing.id) ELSE UNCHANGED cancel
  /\ listing' = Idle /\ resolve' = Idle
  /\ UNCHANGED <<qid, qmiss, ours, add, account>>

BadMayDelete(saw) == saw = "stalled" \/ ours  \* a finished one is scout's to delete
MayDelete(saw) == saw # "finished" /\ (saw = "stalled" \/ ours)

\* fetchEntry, and what is decided on its answer.
CancelLook ==
  /\ cancel.at = "entry"
  /\ cancel' = [cancel EXCEPT !.at = "looked", !.saw = EntryOf(cancel.id)]
  /\ UNCHANGED <<memory, shared, listing, flight, add, resolve, account>>

CancelJudge(reannounce) ==
  /\ cancel.at = "looked"
  /\ IF cancel.saw = "none" THEN ForgetTorrentID ELSE UNCHANGED <<snap, tid, ours>>
  /\ cancel' = IF cancel.saw # "none" /\ MayDelete(cancel.saw) /\ ~reannounce
                 THEN [cancel EXCEPT !.at = "delete", !.saw = "nothing"] ELSE Idle
  /\ UNCHANGED <<miss, qid, qmiss, shared, listing, flight, add, resolve, account>>

\* controlTorrent and controlQueued: TorBox deletes what has the id.
Deleted ==
  /\ account.id = cancel.id
  /\ \/ cancel.at = "delete" /\ Held(account)
     \/ cancel.at = "dequeue" /\ account.is = "queued"

CancelDelete ==
  /\ Deleted
  /\ account' = Nothing
  /\ cancel' = [cancel EXCEPT !.at = IF @ = "delete" THEN "deleted" ELSE "dequeued"]
  /\ UNCHANGED <<memory, shared, listing, flight, add, resolve>>

CancelDone ==
  /\ \/ cancel.at = "deleted" /\ ForgetTorrentID /\ UNCHANGED qid
     \/ cancel.at = "dequeued" /\ qid' = NoId /\ ours' = FALSE /\ UNCHANGED <<snap, tid>>
  /\ cancel' = Idle
  /\ UNCHANGED <<miss, qmiss, shared, listing, flight, add, resolve, account>>

\* TorBox refuses, has no such id, or its answer is lost.
CancelFailed ==
  /\ cancel.at # "idle"
  /\ cancel' = Idle
  /\ UNCHANGED <<memory, shared, listing, flight, add, resolve, account>>
-----------------------------------------------------------------------------
(* Resolve, as far as it touches what the reads above use (TorBoxAdd has    *)
(* the rest): an add clears the remembered miss before it goes out.         *)
Remembered == {tid, qid, memo.id, listing.id, flight.id, cancel.id, add.id, account.id}

AddSent ==
  /\ add.at = "idle" /\ tid = NoId /\ qid = NoId
  /\ add' = Out("sent")
  /\ miss' = 0
  /\ UNCHANGED <<snap, tid, qid, qmiss, ours, shared, listing, flight, cancel, resolve, account>>

\* A torrent, a place in the queue, or what the account already has.
AddLands(id, is) ==
  /\ add.at = "sent"
  /\ IF account.is = "none"
       THEN /\ id \in OurIds \ Remembered /\ is \in {"downloading", "queued", "finished"}
            /\ account' = [id |-> id, is |-> is]
       ELSE id = account.id /\ is = account.is /\ UNCHANGED account
  /\ add' = [add EXCEPT !.at = IF is = "queued" THEN "parked" ELSE "created", !.id = id]
  /\ UNCHANGED <<memory, shared, listing, flight, cancel, resolve>>

AddAnswered ==
  /\ \/ add.at = "created" /\ tid' = add.id /\ ours' = TRUE /\ snap' = NoSnap /\ UNCHANGED qid
     \/ add.at = "parked" /\ qid' = add.id /\ ours' = TRUE /\ UNCHANGED <<snap, tid>>
  /\ add' = Idle
  /\ UNCHANGED <<miss, qmiss, shared, listing, flight, cancel, resolve, account>>

AddLost ==
  /\ add.at # "idle"
  /\ add' = Idle
  /\ UNCHANGED <<memory, shared, listing, flight, cancel, resolve, account>>

\* A resolve finds the remembered torrent gone.
ResolveGone ==
  /\ tid # NoId /\ EntryOf(tid) = "none"
  /\ ForgetTorrentID
  /\ UNCHANGED <<miss, qid, qmiss, shared, listing, flight, cancel, add, resolve, account>>

\* A resolve of a parked add asks torrentID whether it has been promoted.  One
\* that waited for the listing goes on as one that found the id remembered.
ResolveParked ==
  /\ qid # NoId
  /\ IF TorrentID = Ask
       THEN /\ resolve.at = "idle" /\ resolve' = Out("listing") /\ JoinListing
            /\ UNCHANGED <<snap, tid, miss, qid>>
       ELSE /\ Remember(TorrentID)
            /\ qid' = IF TorrentID \in Ids THEN NoId ELSE qid
            /\ snap' = IF TorrentID \in Ids THEN NoSnap ELSE snap
            /\ UNCHANGED <<listing, resolve>>
  /\ UNCHANGED <<qmiss, ours, shared, flight, cancel, add, account>>

\* The request's own time is over.
ResolveLeft ==
  /\ resolve.at = "listing"
  /\ resolve' = Idle
  /\ UNCHANGED <<memory, shared, listing, flight, cancel, add, account>>
-----------------------------------------------------------------------------
(* The account's owner, and TorBox.                                         *)
ByHand(id, is) ==
  /\ account.is = "none" /\ id \in HandIds \ Remembered
  /\ account' = [id |-> id, is |-> is]
  /\ UNCHANGED <<memory, shared, listing, flight, cancel, add, resolve>>

RemovedByHand ==
  /\ account.is # "none"
  /\ account' = Nothing
  /\ UNCHANGED <<memory, shared, listing, flight, cancel, add, resolve>>

Progress(is) ==
  /\ account.is \in Live /\ is # account.is
  /\ account' = [account EXCEPT !.is = is]
  /\ UNCHANGED <<memory, shared, listing, flight, cancel, add, resolve>>

Promoted(id) ==
  /\ account.is = "queued" /\ id \notin Remembered /\ (id \in OurIds <=> account.id \in OurIds)
  /\ account' = [account EXCEPT !.id = id, !.is = "downloading"]
  /\ UNCHANGED <<memory, shared, listing, flight, cancel, add, resolve>>

\* Six hours after they were written; the mark never outlives the id of its add.
Lapse ==
  /\ ours \/ tid # NoId \/ qid # NoId
  /\ ours' = FALSE
  /\ tid' \in {tid, NoId} /\ qid' \in {qid, NoId}
  /\ UNCHANGED <<snap, miss, qmiss, shared, listing, flight, cancel, add, resolve, account>>

BadTicked(t) == t - 1  \* an entry's life goes on past its end
Ticked(t) == IF t > 0 THEN t - 1 ELSE 0
Older(o) == [o EXCEPT !.aged = @ \/ o.at # "idle"]

StatusTick ==
  /\ ~listing.aged /\ ~flight.aged /\ cancel.at = "idle"
  /\ snap' = IF snap.ttl > 1 THEN [snap EXCEPT !.ttl = @ - 1] ELSE NoSnap
  /\ memo' = IF memo.ttl > 1 THEN [memo EXCEPT !.ttl = @ - 1] ELSE NoMemo
  /\ miss' = Ticked(miss) /\ qmiss' = Ticked(qmiss) /\ oversized' = Ticked(oversized)
  /\ listing' = Older(listing) /\ flight' = Older(flight)
  /\ UNCHANGED <<tid, qid, ours, cancel, add, resolve, account>>

StatusInit ==
  /\ snap = NoSnap /\ tid = NoId /\ miss = 0 /\ qid = NoId /\ qmiss = 0 /\ ours = FALSE
  /\ memo = NoMemo /\ oversized = 0
  /\ listing = Idle /\ flight = Idle /\ cancel = Idle /\ add = Idle /\ resolve = Idle
  /\ account = Nothing /\ since = MaxAge

Status == StatusStart \/ QueueRead \/ EntryRead \/ QueueDone \/ QueueFailed
          \/ EntryDone \/ StatusFailed
Cancel == CancelStart \/ CancelLook \/ CancelDelete \/ CancelDone \/ CancelFailed
          \/ \E reannounce \in BOOLEAN : CancelJudge(reannounce)
Resolve == AddSent \/ AddAnswered \/ AddLost
           \/ ResolveGone \/ ResolveParked \/ ResolveLeft

Step ==
  \/ OtherRead \/ ListingRead \/ ListingFailed \/ ListingDone \/ Evicted
  \/ Status
  \/ Cancel
  \/ Resolve
  \/ \E id \in Ids, is \in {"downloading", "queued", "finished", "stalled"} : AddLands(id, is)
  \/ \E id \in Ids, is \in {"downloading", "queued"} : ByHand(id, is)
  \/ RemovedByHand \/ Lapse
  \/ \E is \in {"downloading", "stalled", "finished"} : Progress(is)
  \/ \E id \in Ids : Promoted(id)

(* The history starts again whenever the account goes from one kind to      *)
(* another, and as long as the remembered id is of a torrent that was       *)
(* replaced: nothing before a resolve finds that out looks for another.     *)
Astray == account.is \in Live /\ tid \notin {NoId, account.id}
Since(ticks) ==
  since' = IF Kind(account') # Kind(account) \/ Astray' THEN 0
           ELSE IF since + ticks > MaxAge THEN MaxAge ELSE since + ticks

StatusNext == (Step /\ Since(0)) \/ (StatusTick /\ Since(1))

StatusSpec == StatusInit /\ [][StatusNext]_statusVars
-----------------------------------------------------------------------------
(* Every variable has its type. *)
StatusTypeOK ==
  /\ snap \in [says : {"nothing", "no", "downloading", "queued"}, ttl : 0..StatusTTL]
  /\ {tid, qid} \subseteq Listed /\ miss \in 0..MissTTL /\ qmiss \in 0..MissTTL
  /\ ours \in BOOLEAN
  /\ memo \in [id : Listed, ttl : 0..ListTTL] /\ oversized \in 0..ListTTL
  /\ \A o \in {listing, flight, cancel, add, resolve} : o.id \in Listed \union {Unread} /\ o.aged \in BOOLEAN
  /\ account.id \in Listed /\ since \in 0..MaxAge

(* What a poll is told of a fetch was so a bounded while ago: the memories  *)
(* do not feed on one another.  A "no", which is what lets /play pay for an *)
(* add, is at most a listing fetch, its memo, the mark of a miss, a status  *)
(* flight and a snapshot old, and a listing that was not read to its end    *)
(* never becomes one ("only the first justifies remembering a miss"); a     *)
(* "downloading" is a flight and a snapshot old, so a delete or a finish    *)
(* shows within that time.  (A timer of n ticks spans n - 1 of the moments  *)
(* a tick falls on.)                                                        *)
Snapshot == 1 + (StatusTTL - 1)
NoBound == 1 + (ListTTL - 1) + (MissTTL - 1) + Snapshot
SaidIsRecent ==
  /\ snap.says = "no" /\ account.is \in Live => since <= NoBound
  /\ snap.says = "downloading" /\ account.is \notin Live => since <= Snapshot

(* "A completed download is kept": what Cancel deletes had not finished     *)
(* when Cancel looked.  A torrent that finishes between the look and the    *)
(* delete is lost; one that had finished before is not, whoever added it.   *)
(* No tick passes over a Cancel, so one that finished within the tick of    *)
(* the look counts as finished after it, whichever came first.              *)
FinishedIsKept ==
  [][cancel.at = "delete" /\ cancel'.at = "deleted" /\ account.is = "finished" => since = 0]_statusVars
=============================================================================
