---------------------------- MODULE MCTieredCache ----------------------------
(* TieredCache for TLC, in two corners of the instance.  Where they race,  *)
(* two goroutines get and put two keys, three puts or two and a restart,   *)
(* SweepEvery sweeps alone, once in a life of the process and beside one   *)
(* goroutine at a time, and a write is counted at once.                    *)
(* Where they fill the volume, the puts are durable and come one at a time *)
(* of all the keys, one write at most is yet to be counted, nothing is     *)
(* got, the process goes on, no moment passes, and the sweeps of bursts    *)
(* and SweepEvery's overlap as often as they may.                          *)
EXTENDS TieredCache, TLC
CONSTANT Third
VARIABLE corner

Symmetry == Permutations(Keys \ {Third}) \union Permutations(Procs)

Races ==
  /\ disk'[Third] = NoFile /\ \A i \in DOMAIN mem' : mem'[i].key # Third
  /\ \A p \in Procs : op'[p] # Idle => op'[p].key # Third
  /\ \A b \in Bursts : sweep'[b] \in {Asleep, Due}
  /\ sweep[Hourly] = Asleep /\ crashes' = crashes => sweep'[Hourly] = Asleep
  /\ Sweeping(Hourly)' => Cardinality({p \in Procs : op'[p] # Idle}) <= 1
  /\ puts' + crashes' <= 3
  /\ uncounted # {} => uncounted' = {}

Volume ==
  /\ \A p, q \in Procs : op'[p] # Idle /\ op'[q] # Idle => p = q /\ op'[p].class = "durable"
  /\ crashes' = 0 /\ now' = 0 /\ ~off' /\ said' = Silence
  /\ Cardinality(uncounted') <= 1

MCInit == Init /\ corner \in {"races", "volume"}
MCNext == Next /\ (corner = "races" => Races) /\ (corner = "volume" => Volume) /\ UNCHANGED corner
MCSpec == MCInit /\ [][MCNext]_<<vars, corner>>
=============================================================================
