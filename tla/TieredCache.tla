---------------------------- MODULE TieredCache ----------------------------
(***************************************************************************)
(* src/internal/scout/diskcache.go over src/internal/scout/cache.go: the   *)
(* memory tier (one lock, LRU, a byte budget) in front of one file per key.*)
(*                                                                         *)
(* The tiers share no lock.  A Get that misses memory reads the file and   *)
(* acts on what it read later; a Put writes memory first and the file, or  *)
(* its removal, afterwards; a Sweep decides on a listing of the directory  *)
(* and removes by path.  Each of these is a process here that the others   *)
(* interleave with, that the process's end cuts off, and whose file        *)
(* operations can fail.  Sweeps overlap too: the one of SweepEvery has its *)
(* goroutine, each burst of writes starts another, and all of them reset   *)
(* the one counter of what was written.  Values are the numbers of their   *)
(* puts and all have one size, so the byte budgets count entries.  The     *)
(* directory is set and can be listed, a sweep lists it and reads what it  *)
(* lists at once, and a file Sweep may not remove is one that is gone.     *)
(*                                                                         *)
(* A definition whose name starts with Bad is a plausible bug in the       *)
(* definition after it; no behaviour of Spec uses it.                      *)
(***************************************************************************)
EXTENDS Integers, Sequences, FiniteSets

CONSTANTS Keys,
          Procs,     \* goroutines in a Get or a Put
          Hourly,    \* the goroutine of SweepEvery
          Bursts,    \* goroutines a burst starts a sweep in, a bound of the check
          Lives,     \* ttls, in ticks
          MemBudget, \* NewMemoryCache's maxBytes
          Budget,    \* TieredCache.maxBytes
          Grace,     \* tempFileGrace
          MaxPuts, MaxNow, MaxCrashes  \* bounds of the check

ASSUME TieredAssumption ==
  /\ Lives \subseteq Nat \ {0} /\ Hourly \notin Bursts /\ IsFiniteSet(Bursts)
  /\ {MemBudget, Budget, Grace} \subseteq Nat \ {0} /\ {MaxPuts, MaxNow, MaxCrashes} \subseteq Nat

VARIABLES
  now,
  mem,      \* MemoryCache: entries, the most recently used first
  off,      \* persistence is disabled for the life of the process
  disk,     \* per key, its file
  orphans,  \* moments at which temp files nobody will rename were written
  written,  \* since the last sweep
  uncounted,  \* files renamed into place that written does not count yet
  op,       \* the Gets and Puts out
  sweep,    \* the sweeps
  \* history
  puts, crashes, said,
  fresh, resets,  \* since a sweep last listed: keys written, sweeps that reset written
  floor, kept  \* the last put of a key that returned alone, here and on the disk

history == <<puts, crashes, floor, kept>>
vars == <<now, mem, off, disk, orphans, written, uncounted, op, sweep, fresh, resets, said, history>>

NoFile == [ver |-> 0, expires |-> 0]
Idle == [at |-> "idle"]
Sweepers == {Hourly} \union Bursts
Asleep == [at |-> "asleep"]
Due == [at |-> "due"]  \* its goroutine is started
Silence == <<>>

Files == {k \in Keys : disk[k] # NoFile}
Out(k) == {p \in Procs : op[p] # Idle /\ op[p].key = k}
-----------------------------------------------------------------------------
(* MemoryCache.                                                            *)
InMemory(k) == {i \in DOMAIN mem : mem[i].key = k}
Without(k) ==  \* a key has one entry at most
  IF InMemory(k) = {} THEN mem
  ELSE LET i == CHOOSE i \in InMemory(k) : TRUE
       IN SubSeq(mem, 1, i - 1) \o SubSeq(mem, i + 1, Len(mem))
BadTrimmed(s) == s  \* the byte budget is not looked at
Trimmed(s) == SubSeq(s, 1, IF Len(s) > MemBudget THEN MemBudget ELSE Len(s))

MemPut(k, v) == mem' = Trimmed(<<[key |-> k, ver |-> v.ver, expires |-> v.expires]>> \o Without(k))

Lapsed(e) == now > e.expires

Dead(f) == now >= f.expires  \* of a file
-----------------------------------------------------------------------------
(* A goroutine on a key: it and the others on the key are no longer alone. *)
Start(p, k, o) ==
  op' = [q \in Procs |->
           IF q = p THEN [o EXCEPT !.alone = (Out(k) = {})]
           ELSE IF q \in Out(k) THEN [op[q] EXCEPT !.alone = FALSE]
           ELSE op[q]]
Goes(p, where) == op' = [op EXCEPT ![p].at = where]

(* A put returns.  Alone, it stands for everything before it.              *)
Returned(k, v, alone, persisted) ==
  /\ floor' = IF alone THEN [floor EXCEPT ![k] = v] ELSE floor
  /\ kept' = IF alone /\ persisted THEN [kept EXCEPT ![k] = v] ELSE kept
Return(p, persisted) ==
  /\ op' = [op EXCEPT ![p] = Idle]
  /\ Returned(op[p].key, op[p].v.ver, op[p].alone, persisted)
-----------------------------------------------------------------------------
(* TieredCache.Get.                                                        *)
GetHit(k) ==
  \E i \in InMemory(k) :
    /\ ~Lapsed(mem[i])
    /\ mem' = <<mem[i]>> \o Without(k)
    /\ said' = <<k, mem[i].ver>>
    /\ UNCHANGED <<now, off, disk, orphans, written, uncounted, op, sweep, fresh, resets, history>>

\* The memory misses and drops what has lapsed; the file is read, or there is none.
GetRead(p, k) ==
  /\ op[p] = Idle
  /\ \A i \in InMemory(k) : Lapsed(mem[i])
  /\ mem' = Without(k)
  /\ IF off \/ disk[k] = NoFile
       THEN InMemory(k) # {} /\ UNCHANGED op
       ELSE Start(p, k, [at |-> "have", key |-> k, v |-> disk[k], class |-> "get", alone |-> TRUE])
  /\ said' = Silence
  /\ UNCHANGED <<now, off, disk, orphans, written, uncounted, sweep, fresh, resets, history>>

GetDone(p) ==
  LET k == op[p].key  f == op[p].v IN
  /\ op[p].at = "have"
  /\ IF Dead(f) THEN disk' = [disk EXCEPT ![k] = NoFile] /\ said' = Silence /\ UNCHANGED mem
                ELSE MemPut(k, f) /\ said' = <<k, f.ver>> /\ UNCHANGED disk
  /\ op' = [op EXCEPT ![p] = Idle]
  /\ UNCHANGED <<now, off, orphans, written, uncounted, sweep, fresh, resets, history>>
-----------------------------------------------------------------------------
(* TieredCache.PutClass.                                                   *)
Put(p, k, life, class) ==
  LET v == [ver |-> puts + 1, expires |-> now + life] IN
  /\ op[p] = Idle /\ puts < MaxPuts
  /\ puts' = puts + 1
  /\ MemPut(k, v)
  /\ IF class = "durable" /\ off
       THEN /\ Returned(k, v.ver, Out(k) = {}, FALSE)
            /\ op' = [q \in Procs |-> IF q \in Out(k) THEN [op[q] EXCEPT !.alone = FALSE] ELSE op[q]]
       ELSE /\ Start(p, k, [at |-> IF class = "volatile" THEN "retire" ELSE "temp",
                            key |-> k, v |-> v, class |-> class, alone |-> TRUE])
            /\ UNCHANGED <<floor, kept>>
  /\ said' = Silence
  /\ UNCHANGED <<now, off, disk, orphans, written, uncounted, sweep, fresh, resets, crashes>>

BadRetire(p) ==  \* a volatile value leaves the durable file alone
  /\ op[p].at = "retire"
  /\ Return(p, TRUE)
  /\ said' = Silence
  /\ UNCHANGED <<now, mem, off, disk, orphans, written, uncounted, sweep, fresh, resets, puts, crashes>>

Retire(p) ==
  /\ op[p].at = "retire"
  /\ \/ disk' = [disk EXCEPT ![op[p].key] = NoFile] /\ Return(p, TRUE) /\ UNCHANGED off
     \/ disk[op[p].key] # NoFile /\ off' = TRUE /\ Return(p, FALSE) /\ UNCHANGED disk
  /\ said' = Silence
  /\ UNCHANGED <<now, mem, orphans, written, uncounted, sweep, fresh, resets, puts, crashes>>

\* The temp file is created, written and closed; or one of the three fails.
Write(p) ==
  /\ op[p].at = "temp"
  /\ \/ op' = [op EXCEPT ![p].at = "rename"] /\ UNCHANGED <<off, floor, kept>>
     \/ off' = TRUE /\ Return(p, FALSE)
  /\ said' = Silence
  /\ UNCHANGED <<now, mem, disk, orphans, written, uncounted, sweep, fresh, resets, puts, crashes>>

Rename(p) ==
  /\ op[p].at = "rename"
  /\ \/ /\ disk' = [disk EXCEPT ![op[p].key] = op[p].v]
        /\ uncounted' = uncounted \union {[key |-> op[p].key, ver |-> op[p].v.ver]}
        /\ fresh' = fresh \union {op[p].key}
        /\ Return(p, TRUE) /\ UNCHANGED off
     \/ off' = TRUE /\ Return(p, FALSE) /\ UNCHANGED <<disk, uncounted, fresh>>
  /\ said' = Silence
  /\ UNCHANGED <<now, mem, orphans, written, sweep, resets, puts, crashes>>

BadNoteWritten == written' = written + 1 /\ UNCHANGED sweep  \* a burst waits for the hourly sweep
NoteWritten ==
  IF written + 1 < Budget
    THEN written' = written + 1 /\ UNCHANGED sweep
    ELSE /\ written' = 0
         /\ \E b \in Bursts : sweep[b] = Asleep /\ sweep' = [sweep EXCEPT ![b] = Due]

\* A put's last step, under the lock: its value is in place, others go on.
Count(n) ==
  /\ uncounted' = uncounted \ {n}
  /\ NoteWritten
  /\ said' = Silence
  /\ UNCHANGED <<now, mem, off, disk, orphans, op, fresh, resets, history>>
-----------------------------------------------------------------------------
(* TieredCache.Sweep: at the start and every hour, and after a burst.      *)
Survivors == {k \in Files : ~Dead(disk[k])}

Look(s) ==
  /\ sweep[s] = Due \/ (s = Hourly /\ sweep[s] = Asleep)
  /\ sweep' = [sweep EXCEPT ![s] = [at |-> "expired", doomed |-> Files \ Survivors,
                                   live |-> [k \in Survivors |-> disk[k].ver]]]
  /\ orphans' = {t \in orphans : now - t < Grace}
  /\ fresh' = {} /\ resets' = {}
  /\ said' = Silence
  /\ UNCHANGED <<now, mem, off, disk, written, uncounted, op, history>>

Sweeping(s) == sweep[s] \notin {Asleep, Due}

\* Oldest first, until the budget is met.
OverBudget(live) ==
  {k \in DOMAIN live : Cardinality({j \in DOMAIN live : live[j] > live[k]}) >= Budget}

\* A file that is gone already gave no room: the next oldest goes in its place.
Oldest(live) == {k \in DOMAIN live : \A j \in DOMAIN live : live[k] <= live[j]}
Instead(s, k) == IF sweep[s].at = "over" /\ disk[k] = NoFile THEN Oldest(sweep[s].live) ELSE {}
Less(live, gone) == [k \in DOMAIN live \ gone |-> live[k]]

RemoveFile(s, k) ==
  /\ Sweeping(s) /\ k \in sweep[s].doomed
  /\ disk' = [disk EXCEPT ![k] = NoFile]
  /\ sweep' = [sweep EXCEPT ![s] = [at |-> @.at, doomed |-> (@.doomed \ {k}) \union Instead(s, k),
                                   live |-> Less(@.live, Instead(s, k))]]
  /\ said' = Silence
  /\ UNCHANGED <<now, mem, off, orphans, written, uncounted, op, fresh, resets, history>>

ResetWritten(s) ==
  /\ sweep[s].at = "expired" /\ sweep[s].doomed = {}
  /\ sweep' = [sweep EXCEPT ![s] = [at |-> "over", doomed |-> OverBudget(@.live),
                                   live |-> Less(@.live, OverBudget(@.live))]]
  /\ written' = 0
  /\ resets' = resets \union {s}
  /\ said' = Silence
  /\ UNCHANGED <<now, mem, off, disk, orphans, uncounted, op, fresh, history>>

Swept(s) ==
  /\ sweep[s].at = "over" /\ sweep[s].doomed = {}
  /\ sweep' = [sweep EXCEPT ![s] = Asleep]
  /\ said' = Silence
  /\ UNCHANGED <<now, mem, off, disk, orphans, written, uncounted, op, fresh, resets, history>>
-----------------------------------------------------------------------------
Tick ==
  /\ now < MaxNow
  /\ now' = now + 1
  /\ said' = Silence
  /\ UNCHANGED <<mem, off, disk, orphans, written, uncounted, op, sweep, fresh, resets, history>>

(* The process ends, and NewTieredCache starts over what it left, with     *)
(* SweepEvery's first sweep to come.                                       *)
Restart ==
  /\ crashes < MaxCrashes
  /\ crashes' = crashes + 1
  /\ mem' = <<>> /\ written' = 0 /\ uncounted' = {}
  /\ sweep' = [s \in Sweepers |-> IF s = Hourly THEN Due ELSE Asleep]
  /\ op' = [p \in Procs |-> Idle]
  /\ off' \in BOOLEAN
  /\ orphans' = orphans \union {now : p \in {q \in Procs : op[q] # Idle /\ op[q].at \in {"temp", "rename"}}}
  /\ floor' = kept
  /\ said' = Silence
  /\ UNCHANGED <<now, disk, fresh, resets, puts, kept>>

Init ==
  /\ now = 0 /\ mem = <<>> /\ off \in BOOLEAN
  /\ disk = [k \in Keys |-> NoFile] /\ orphans = {}
  /\ written = 0 /\ uncounted = {} /\ op = [p \in Procs |-> Idle]
  /\ sweep = [s \in Sweepers |-> IF s = Hourly THEN Due ELSE Asleep]
  /\ fresh = {} /\ resets = {}
  /\ puts = 0 /\ crashes = 0 /\ said = Silence
  /\ floor = [k \in Keys |-> 0] /\ kept = [k \in Keys |-> 0]

Next ==
  \/ \E k \in Keys : GetHit(k)
  \/ \E p \in Procs, k \in Keys : GetRead(p, k)
  \/ \E p \in Procs, k \in Keys, life \in Lives, class \in {"durable", "volatile"} : Put(p, k, life, class)
  \/ \E p \in Procs : op[p] # Idle /\ (GetDone(p) \/ Retire(p) \/ Write(p) \/ Rename(p))
  \/ \E n \in uncounted : Count(n)
  \/ \E s \in Sweepers : Look(s) \/ ResetWritten(s) \/ Swept(s) \/ \E k \in Keys : RemoveFile(s, k)
  \/ Tick \/ Restart

Spec == Init /\ [][Next]_vars
-----------------------------------------------------------------------------
(* Every variable has its type. *)
TypeOK ==
  /\ now \in 0..MaxNow /\ puts \in 0..MaxPuts /\ off \in BOOLEAN
  /\ Len(mem) <= MemBudget /\ \A i, j \in DOMAIN mem : mem[i].key = mem[j].key => i = j
  /\ disk \in [Keys -> [ver : 0..MaxPuts, expires : Nat]]
  /\ written \in 0..Budget /\ uncounted \subseteq [key : Keys, ver : 1..MaxPuts]
  /\ orphans \subseteq 0..MaxNow
  /\ \A p \in Procs : op[p] # Idle => op[p].key \in Keys /\ op[p].alone \in BOOLEAN
  /\ {floor[k] : k \in Keys} \union {kept[k] : k \in Keys} \subseteq 0..MaxPuts

(* "A burst is what the hourly sweep cannot answer on its own, so it       *)
(* brings the sweep forward": with no sweep due or running, of the files   *)
(* the last listing saw a budget is left at most; and of those written     *)
(* since, less than a budget, and less than another for every sweep that   *)
(* reset the counter in that time: its own, and any that overlapped it.    *)
(* A file renamed into place is counted a moment later, and until then it  *)
(* is one more.                                                            *)
Quiet == \A s \in Sweepers : sweep[s] = Asleep

DiskBounded ==
  Quiet => /\ Cardinality(Files \ fresh) <= Budget
           /\ Cardinality((Files \intersect fresh) \ {n.key : n \in uncounted})
                <= (Cardinality(resets) + 1) * (Budget - 1)

(* What Get may still answer of a key, and what a restart may bring back:  *)
(* the tiers, and what a goroutine out on the key still has to put there.  *)
Live(k) == {[ver |-> mem[i].ver, expires |-> mem[i].expires] : i \in InMemory(k)}
OnDisk(k) == {disk[k]} \ {NoFile}
Held(k, classes) == {op[p].v : p \in {q \in Out(k) : op[q].class \in classes}}

Visible(k) == Live(k) \union Held(k, {"get"}) \union (IF off THEN {} ELSE OnDisk(k) \union Held(k, {"durable"}))

Promise == INSTANCE CachePromise
  WITH may <- [k \in Keys |-> Visible(k)],
       stored <- [k \in Keys |-> OnDisk(k) \union Held(k, {"durable"})]

(* The two tiers keep what the one cache promises: whatever interleaves,   *)
(* fails or is cut off, nothing is answered that was not put, or after its *)
(* life; and once a put has returned that no other goroutine's Get or Put  *)
(* of its key overlapped, durable or volatile, nothing it replaced, nor    *)
(* past a restart if the disk took the change.                             *)
(* Of a put that was overlapped the tiers promise no such thing, though    *)
(* "a volatile value supersedes every older value for this key": a Get     *)
(* that read the file before such a put removed it has yet to put the old  *)
(* value into memory, and a durable put a rename yet to do.                *)
PromiseKept == Promise!PSpec
=============================================================================
