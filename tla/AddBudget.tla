----------------------------- MODULE AddBudget -----------------------------
(***************************************************************************)
(* The hourly add budget of src/internal/scout/addbudget.go: a rolling     *)
(* window of charges per debrid account, taken immediately before a        *)
(* request that may add a torrent and handed back when that request turns  *)
(* out not to have been one.  Every operation holds the budget's mutex, so *)
(* each is one action; what interleaves is the charge of one caller with   *)
(* the refund of another, because a caller holds its charge across a       *)
(* network round trip.                                                     *)
(*                                                                         *)
(* A definition whose name starts with Bad is a plausible bug in the       *)
(* definition after it; no behaviour of Spec uses it.                      *)
(***************************************************************************)
EXTENDS Integers, Sequences, FiniteSets

CONSTANTS Accounts,     \* service+token accounts that make adds
          Callers,      \* requests that may be in the middle of an add
          Window,       \* addBudgetWindow, in ticks
          Limit,        \* addBudgetLimit
          Reserve,      \* PLAY_RESERVE_ADDS: what a prefetch may not spend
          MaxTime       \* bound: the clock stops here

ASSUME LimitAssumption   == Limit \in Nat \ {0}
ASSUME WindowAssumption  == Window \in Nat \ {0}
ASSUME ReserveAssumption == Reserve \in 0..(Limit - 1)  \* parsePlayReserve
ASSUME BoundAssumption   == MaxTime \in Nat

VARIABLES
  now,      \* the budget's clock
  known,    \* the keys of b.spent
  spent,    \* b.spent: each account's charges, oldest first (<<>> when not a key)
  held,     \* the charges of callers still waiting for their service's answer
  \* history, read by no action:
  made,     \* made[a][t]: adds charged to a at t or later and not handed back
  misfits   \* misfits[a]: refunds that removed a charge of another moment

vars == <<now, known, spent, held, made, misfits>>

\* A charge in the budget's list.  The code keeps the time alone; the intent
\* is history.
Stamp == [at: Nat, prefetch: BOOLEAN]
Held  == [by: Callers, acct: Accounts, at: 0..MaxTime]

Cutoff == now - Window

(* The charges of s still inside the window that ends at the present.  The *)
(* list is in time order, so what take filters out is a prefix.            *)
DrainedCount(s, cutoff) == Cardinality({i \in DOMAIN s : s[i].at <= cutoff})
Live(s, cutoff) == SubSeq(s, DrainedCount(s, cutoff) + 1, Len(s))

\* off by one: a prefetch may go one below the reserve
BadCeiling(prefetch) == IF prefetch THEN Limit - Reserve + 1 ELSE Limit

Ceiling(prefetch) == IF prefetch THEN Limit - Reserve ELSE Limit

(* dropDrainedLocked: an account whose newest charge has left the window,  *)
(* or that has none, is forgotten.                                         *)
Drained(a) == spent[a] = <<>> \/ spent[a][Len(spent[a])].at <= Cutoff
Surviving  == {a \in known : ~Drained(a)}
\* drops the keys and leaves the charges
BadAfterDrain == spent

AfterDrain == [a \in Accounts |-> IF Drained(a) THEN <<>> ELSE spent[a]]

(* remaining and freesIn, for one account's list read at the moment t. *)
Remaining(s, t) == IF Limit > Len(Live(s, t - Window))
                     THEN Limit - Len(Live(s, t - Window)) ELSE 0
\* waits for the oldest charge, not for the one that holds the ceiling
BadFreesIn(s, prefetch, t) ==
  LET live == Live(s, t - Window)
      c    == Ceiling(prefetch)
  IN IF c <= 0 THEN Window
     ELSE IF Len(live) < c THEN 0
     ELSE live[1].at + Window - t

FreesIn(s, prefetch, t) ==
  LET live == Live(s, t - Window)
      c    == Ceiling(prefetch)
  IN IF c <= 0 THEN Window
     ELSE IF Len(live) < c THEN 0
     ELSE live[Len(live) - c + 1].at + Window - t
-----------------------------------------------------------------------------
Init ==
  /\ now = 0
  /\ known = {}
  /\ spent = [a \in Accounts |-> <<>>]
  /\ held = {}
  /\ made = [a \in Accounts |-> [t \in 0..MaxTime |-> 0]]
  /\ misfits = [a \in Accounts |-> 0]

Waiting(c) == \E h \in held : h.by = c

\* one charge more, or one less, of the moment at
Counted(adds, at, more) == [t \in 0..MaxTime |-> IF t <= at THEN adds[t] + more ELSE adds[t]]

\* off by one: grants at the ceiling
BadGrantAtCeiling(c, a, prefetch) ==
  LET kept == Live(AfterDrain[a], Cutoff) IN
  /\ ~Waiting(c)
  /\ Len(kept) <= Ceiling(prefetch)
  /\ known' = Surviving \cup {a}
  /\ spent' = [AfterDrain EXCEPT ![a] = Append(kept, [at |-> now, prefetch |-> prefetch])]
  /\ held' = held \cup {[by |-> c, acct |-> a, at |-> now]}
  /\ made' = [made EXCEPT ![a] = Counted(@, now, 1)]
  /\ UNCHANGED <<now, misfits>>

(* take, granted: the drained accounts are dropped, the account keeps its  *)
(* live charges and one more, and the caller goes on to its request.       *)
Grant(c, a, prefetch) ==
  LET kept == Live(AfterDrain[a], Cutoff) IN
  /\ ~Waiting(c)
  /\ Len(kept) < Ceiling(prefetch)
  /\ known' = Surviving \cup {a}
  /\ spent' = [AfterDrain EXCEPT ![a] = Append(kept, [at |-> now, prefetch |-> prefetch])]
  /\ held' = held \cup {[by |-> c, acct |-> a, at |-> now]}
  /\ made' = [made EXCEPT ![a] = Counted(@, now, 1)]
  /\ UNCHANGED <<now, misfits>>

(* take, refused: the drained part is still dropped and the key written. *)
Refuse(c, a, prefetch) ==
  LET kept == Live(AfterDrain[a], Cutoff) IN
  /\ ~Waiting(c)
  /\ Len(kept) >= Ceiling(prefetch)
  /\ known' = Surviving \cup {a}
  /\ spent' = [AfterDrain EXCEPT ![a] = kept]
  /\ UNCHANGED <<now, held, made, misfits>>

\* hands the charge back when the answer was lost, as refundAdd once did
BadKeep(h) ==
  /\ held' = held \ {h}
  /\ spent' = [spent EXCEPT ![h.acct] = IF @ = <<>> THEN @ ELSE SubSeq(@, 1, Len(@) - 1)]
  /\ UNCHANGED <<now, known, made, misfits>>

(* The request was an add, or may have been: the charge stands. *)
Keep(h) ==
  /\ held' = held \ {h}
  /\ UNCHANGED <<now, known, spent, made, misfits>>

(* refund, for a request that was never sent or was no add: the account's  *)
(* most recent charge is removed, whoever made it.                         *)
Popped(s) == IF s = <<>> THEN s ELSE SubSeq(s, 1, Len(s) - 1)
Misfit(s, h) == s # <<>> /\ s[Len(s)].at # h.at

Refund(h) ==
  /\ held' = held \ {h}
  /\ spent' = [spent EXCEPT ![h.acct] = Popped(@)]
  /\ misfits' = [misfits EXCEPT ![h.acct] = IF Misfit(spent[h.acct], h) THEN @ + 1 ELSE @]
  /\ made' = [made EXCEPT ![h.acct] = Counted(@, h.at, -1)]
  /\ UNCHANGED <<now, known>>

Tick ==
  /\ now < MaxTime
  /\ now' = now + 1
  /\ UNCHANGED <<known, spent, held, made, misfits>>

(* The count is in memory: a restart forgets it and every request in       *)
(* progress, while the service goes on counting.  The history begins anew, *)
(* so it speaks of one life of the process.                                *)
Restart ==
  /\ known' = {}
  /\ spent' = [a \in Accounts |-> <<>>]
  /\ held' = {}
  /\ made' = [a \in Accounts |-> [t \in 0..MaxTime |-> 0]]
  /\ misfits' = [a \in Accounts |-> 0]
  /\ UNCHANGED now

Next ==
  \/ \E c \in Callers, a \in Accounts, prefetch \in BOOLEAN :
       Grant(c, a, prefetch) \/ Refuse(c, a, prefetch)
  \/ \E h \in held : Keep(h) \/ Refund(h)
  \/ Tick
  \/ Restart

Spec == Init /\ [][Next]_vars
-----------------------------------------------------------------------------
(* Every variable has its type, and an account with a charge is a key. *)
TypeOK ==
  /\ now \in 0..MaxTime
  /\ known \subseteq Accounts
  /\ spent \in [Accounts -> Seq(Stamp)]
  /\ \A a \in Accounts : spent[a] # <<>> => a \in known
  /\ held \subseteq Held
  /\ made \in [Accounts -> [0..MaxTime -> Int]]
  /\ misfits \in [Accounts -> Nat]

(* The budget's own count of an account never exceeds the limit, however   *)
(* takes and refunds of several callers interleave.                        *)
WithinLimit == \A a \in Accounts : Len(spent[a]) <= Limit

(* The play reserve: whenever an account is at its limit, the last Reserve *)
(* adds of the window went to viewers waiting; prefetches can never take   *)
(* them, so a viewer is refused only because viewers spent the reserve.    *)
ReserveKept ==
  \A a \in Accounts :
    LET live == Live(spent[a], Cutoff)
    IN Len(live) >= Limit =>
         \A i \in (Limit - Reserve + 1)..Limit : ~live[i].prefetch

(* Retry-After is exact: while freesIn says d > 0, an add asked for d      *)
(* ticks from now is granted and one asked for any earlier is refused,     *)
(* unless another caller charges or refunds in between.                    *)
RetryAfterIsExact ==
  \A a \in Accounts, prefetch \in BOOLEAN :
    LET d == FreesIn(spent[a], prefetch, now)
        allowed(t) == Len(Live(spent[a], t - Window)) < Ceiling(prefetch)
    IN /\ d \in 0..Window
       /\ allowed(now + d)
       /\ \A e \in 0..(d - 1) : ~allowed(now + e)
       /\ ~prefetch => (d = 0 <=> Remaining(spent[a], now) > 0)

(* Adds charged to an account and not handed back, in the window that ends *)
(* at the present: what the service's own rolling ceiling counts.          *)
AddsInWindow(a) == made[a][IF Cutoff < 0 THEN 0 ELSE Cutoff + 1]

(* In one life of the process the adds of a rolling window exceed the      *)
(* limit by at most one for each refund that removed another caller's      *)
(* newer charge in place of its own.                                       *)
OvershootBounded ==
  \A a \in Accounts : AddsInWindow(a) <= Limit + misfits[a]
=============================================================================
