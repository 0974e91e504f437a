---------------------------- MODULE CachePromise ----------------------------
(***************************************************************************)
(* What a caller of src/internal/scout/cache.go's Cache is promised by a   *)
(* cache that survives a restart of the process.  A value put under a key  *)
(* may be answered until its life ends, or be lost at any time; nothing    *)
(* else is ever answered.  A put that nothing overlapped takes every older *)
(* value with it when it returns: in this process for good, and past a     *)
(* restart if the disk took the change.  A put that a Get or a Put of the  *)
(* same key overlapped promises nothing of the older values: the code does *)
(* not take them all with it.                                              *)
(*                                                                         *)
(* Values are told apart by the number of the put that brought them.       *)
(***************************************************************************)
EXTENDS Integers

CONSTANTS Keys,
          Lives  \* how long a value may be put for, in ticks

VARIABLES
  now,
  puts,    \* number of the last put
  may,     \* per key, the values this process may still answer
  stored,  \* per key, the values a restart may bring back
  floor,   \* per key, the last put that returned alone in this process
  kept,    \* per key, the last one whose change is on the disk
  said     \* the answer the last step gave: a key and a put's number, or none

promise == <<now, puts, may, stored, floor, kept, said>>

Silence == <<>>
Value(life) == [ver |-> puts + 1, expires |-> now + life]
NoMoreThan(new, old, k, added) ==
  \A j \in Keys : new[j] \subseteq old[j] \union (IF j = k THEN added ELSE {})

PInit ==
  /\ now = 0 /\ puts = 0 /\ said = Silence
  /\ may = [k \in Keys |-> {}] /\ stored = [k \in Keys |-> {}]
  /\ floor = [k \in Keys |-> 0] /\ kept = [k \in Keys |-> 0]

\* A put may return at once; a volatile value is never stored.
PPut(k, life, durable) ==
  /\ puts' = puts + 1
  /\ NoMoreThan(may', may, k, {Value(life)})
  /\ NoMoreThan(stored', stored, k, IF durable THEN {Value(life)} ELSE {})
  /\ floor' \in {floor, [floor EXCEPT ![k] = puts + 1]}
  /\ said' = Silence
  /\ UNCHANGED <<now, kept>>

\* What returns alone is at least as new as everything that is left.
PReturn(k, v) ==
  /\ v \in 1..puts
  /\ floor' = [floor EXCEPT ![k] = v]
  /\ kept' \in {kept, [kept EXCEPT ![k] = v]}
  /\ NoMoreThan(may', may, k, {}) /\ NoMoreThan(stored', stored, k, {})
  /\ said' = Silence
  /\ UNCHANGED <<now, puts>>

PLose ==
  /\ \A k \in Keys : may'[k] \subseteq may[k] /\ stored'[k] \subseteq stored[k]
  /\ said' = Silence
  /\ UNCHANGED <<now, puts, floor, kept>>

PAnswer(k) ==
  /\ \E e \in may[k] : now <= e.expires /\ said' = <<k, e.ver>>
  /\ NoMoreThan(may', may, k, {}) /\ NoMoreThan(stored', stored, k, {})
  /\ UNCHANGED <<now, puts, floor, kept>>

PRestart ==
  /\ \A k \in Keys : may'[k] \subseteq stored[k] /\ stored'[k] \subseteq stored[k]
  /\ floor' = kept
  /\ said' = Silence
  /\ UNCHANGED <<now, puts, kept>>

PTick ==
  /\ now' = now + 1
  /\ said' = Silence
  /\ UNCHANGED <<puts, may, stored, floor, kept>>

\* Nothing older than what returned alone is left.
Retired ==
  \A k \in Keys : /\ \A e \in may[k] : e.ver >= floor[k]
                  /\ \A e \in stored[k] : e.ver >= kept[k]

PNext ==
  /\ \/ \E k \in Keys, life \in Lives, durable \in BOOLEAN : PPut(k, life, durable)
     \/ \E k \in Keys, v \in 1..puts : PReturn(k, v)
     \/ \E k \in Keys : PAnswer(k)
     \/ PLose \/ PRestart \/ PTick
  /\ Retired'

PSpec == PInit /\ [][PNext]_promise
=============================================================================
