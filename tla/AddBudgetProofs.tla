-------------------------- MODULE AddBudgetProofs --------------------------
(***************************************************************************)
(* Theorems about AddBudget for every set of accounts and callers, every   *)
(* window, limit, reserve and clock bound: its types, that an account's    *)
(* list never exceeds the limit, that prefetches never take the play       *)
(* reserve, that the wait a refused caller is told is exact, and how far   *)
(* the adds of a window can pass the limit.                                *)
(*                                                                         *)
(* WithinLimit is inductive once the types are known.  ReserveKept is not: *)
(* it looks at the live charges only, and a later drain or refund moves    *)
(* charges towards the front.  The strengthening says that a prefetch's    *)
(* charge sits among the first Limit - Reserve of its list; taking a       *)
(* suffix or removing the last charge only moves a charge forward, and     *)
(* take appends one for a prefetch only below that position.               *)
(*                                                                         *)
(* The other two rest on the list being in time order (TimeInv).  The wait *)
(* is then the time until one position of the list leaves the window.  The *)
(* adds since a moment are bounded by the charges the list still has from  *)
(* that moment on (Later) and the refunds that took another's (OverInv).   *)
(***************************************************************************)
EXTENDS AddBudget, TLAPS, FiniteSetTheorems, SequenceTheorems

(* The number of drained charges is a number of positions of the list. *)
LEMMA DrainedCountBound ==
  ASSUME NEW s \in Seq(Stamp), NEW cutoff \in Int
  PROVE  DrainedCount(s, cutoff) \in 0..Len(s)
PROOF
  <1> DEFINE D == {i \in DOMAIN s : s[i].at <= cutoff}
  <1>1. DOMAIN s = 1..Len(s) /\ Len(s) \in Nat
    OBVIOUS
  <1>2. IsFiniteSet(1..Len(s)) /\ Cardinality(1..Len(s)) = Len(s)
    <2>1. PICK n \in Nat : n = Len(s)
      BY <1>1
    <2>2. IsFiniteSet(1..n) /\ Cardinality(1..n) = IF 1 > n THEN 0 ELSE n - 1 + 1
      BY FS_Interval
    <2>3. (IF 1 > n THEN 0 ELSE n - 1 + 1) = n
      OBVIOUS
    <2> QED BY <2>1, <2>2, <2>3
  <1>3. D \subseteq 1..Len(s)
    BY <1>1
  <1>4. IsFiniteSet(D) /\ Cardinality(D) <= Len(s)
    BY <1>2, <1>3, FS_Subset
  <1>5. Cardinality(D) \in Nat
    BY <1>4, FS_CardinalityType
  <1> QED BY <1>1, <1>4, <1>5 DEF DrainedCount

(* The live part of a list is one of its suffixes. *)
LEMMA LiveIsSuffix ==
  ASSUME NEW s \in Seq(Stamp), NEW cutoff \in Int
  PROVE  /\ Live(s, cutoff) \in Seq(Stamp)
         /\ Len(Live(s, cutoff)) <= Len(s)
         /\ \A i \in 1..Len(Live(s, cutoff)) :
              \E j \in 1..Len(s) : i <= j /\ Live(s, cutoff)[i] = s[j]
PROOF
  <1> DEFINE k == DrainedCount(s, cutoff)
  <1>1. k \in 0..Len(s) /\ Len(s) \in Nat
    BY DrainedCountBound
  <1>2. Live(s, cutoff) = SubSeq(s, k + 1, Len(s))
    BY DEF Live
  <1> HIDE DEF k
  <1>3. /\ SubSeq(s, k + 1, Len(s)) \in Seq(Stamp)
        /\ Len(SubSeq(s, k + 1, Len(s))) = Len(s) - k
        /\ \A i \in 1..(Len(s) - k) : SubSeq(s, k + 1, Len(s))[i] = s[k + i]
    BY <1>1
  <1>4. ASSUME NEW i \in 1..(Len(s) - k)
        PROVE  \E j \in 1..Len(s) : i <= j /\ SubSeq(s, k + 1, Len(s))[i] = s[j]
    <2>1. k + i \in 1..Len(s) /\ i <= k + i
      BY <1>1
    <2> QED BY <1>3, <2>1
  <1>5. Len(s) - k <= Len(s)
    BY <1>1
  <1> QED BY <1>2, <1>3, <1>4, <1>5

(* A list without its newest charges keeps the others in place. *)
LEMMA PrefixProperties ==
  ASSUME NEW s \in Seq(Stamp), NEW n \in 0..Len(s)
  PROVE  /\ Len(SubSeq(s, 1, n)) = n
         /\ \A i \in 1..n : SubSeq(s, 1, n)[i] = s[i]
PROOF
  <1>1. n \in Nat /\ Len(s) \in Nat /\ n <= Len(s)
    OBVIOUS
  <1>2. Len(SubSeq(s, 1, n)) = n
    BY <1>1
  <1>3. ASSUME NEW i \in 1..n
        PROVE  SubSeq(s, 1, n)[i] = s[i]
    BY <1>1
  <1> QED BY <1>2, <1>3

(* Positions of prefetch charges: the inductive form of ReserveKept. *)
ReserveInv(s) ==
  \A i \in 1..Len(s) : s[i].prefetch => i <= Limit - Reserve

BudgetInv ==
  /\ WithinLimit
  /\ \A a \in Accounts : ReserveInv(spent[a])

(* An account's list after its drained charges went is a list of the same  *)
(* type, no longer than before, whose prefetch charges keep in front.      *)
LEMMA KeptIsGood ==
  ASSUME TypeOK, BudgetInv, NEW a \in Accounts
  PROVE  /\ AfterDrain[a] \in Seq(Stamp)
         /\ Len(AfterDrain[a]) <= Limit
         /\ ReserveInv(AfterDrain[a])
         /\ Live(AfterDrain[a], Cutoff) \in Seq(Stamp)
         /\ Len(Live(AfterDrain[a], Cutoff)) <= Limit
         /\ ReserveInv(Live(AfterDrain[a], Cutoff))
PROOF
  <1>1. Cutoff \in Int
    BY WindowAssumption, BoundAssumption DEF Cutoff, TypeOK
  <1>2. AfterDrain[a] = <<>> \/ AfterDrain[a] = spent[a]
    BY DEF AfterDrain
  <1>3. spent[a] \in Seq(Stamp) /\ Len(spent[a]) <= Limit /\ ReserveInv(spent[a])
    BY DEF TypeOK, BudgetInv, WithinLimit
  <1>4. <<>> \in Seq(Stamp) /\ Len(<<>>) <= Limit /\ ReserveInv(<<>>)
    BY LimitAssumption DEF ReserveInv
  <1>5. /\ AfterDrain[a] \in Seq(Stamp)
        /\ Len(AfterDrain[a]) <= Limit
        /\ ReserveInv(AfterDrain[a])
    BY <1>2, <1>3, <1>4
  <1> DEFINE s == AfterDrain[a]
             l == Live(s, Cutoff)
  <1>6. /\ l \in Seq(Stamp)
        /\ Len(l) <= Len(s)
        /\ \A i \in 1..Len(l) : \E j \in 1..Len(s) : i <= j /\ l[i] = s[j]
    BY <1>1, <1>5, LiveIsSuffix
  <1> HIDE DEF l, s
  <1>7. Len(l) \in Nat /\ Len(s) \in Nat
    BY <1>5, <1>6 DEF s
  <1>8. Len(l) <= Limit
    BY <1>5, <1>6, <1>7, LimitAssumption DEF s
  <1>9. ReserveInv(l)
    BY <1>5, <1>6, <1>7, LimitAssumption, ReserveAssumption DEF s, ReserveInv
  <1> QED BY <1>5, <1>6, <1>8, <1>9 DEF l, s
-----------------------------------------------------------------------------
(* Every take, refund, tick and restart keeps the types. *)
LEMMA TypeStep ==
  ASSUME TypeOK, [Next]_vars
  PROVE  TypeOK'
PROOF
  <1> USE BoundAssumption DEF TypeOK
  <1>0. Cutoff \in Int
    BY WindowAssumption DEF Cutoff
  <1>1. \A a \in Accounts : AfterDrain[a] \in Seq(Stamp) /\ (AfterDrain[a] # <<>> => a \in Surviving)
    BY DEF AfterDrain, Surviving
  <1>2. \A a \in Accounts : Live(AfterDrain[a], Cutoff) \in Seq(Stamp)
    BY <1>0, <1>1, LiveIsSuffix
  <1>3. AfterDrain \in [Accounts -> Seq(Stamp)] /\ Surviving \subseteq Accounts
    BY <1>1 DEF AfterDrain, Surviving
  <1>4. ASSUME NEW c \in Callers, NEW a \in Accounts, NEW prefetch \in BOOLEAN,
               Grant(c, a, prefetch)
        PROVE  TypeOK'
    <2> DEFINE st == [at |-> now, prefetch |-> prefetch]
    <2>1. st \in Stamp
      BY DEF Stamp
    <2> HIDE DEF st
    <2>2. Append(Live(AfterDrain[a], Cutoff), st) \in Seq(Stamp)
      BY <1>2, <2>1
    <2>3. spent' = [AfterDrain EXCEPT ![a] = Append(Live(AfterDrain[a], Cutoff), st)]
      BY <1>4 DEF Grant, st
    <2>4. spent' \in [Accounts -> Seq(Stamp)] /\ \A b \in Accounts \ {a} : spent'[b] = AfterDrain[b]
      BY <1>3, <2>2, <2>3
    <2>5. known' = Surviving \cup {a} /\ \A b \in Accounts : spent'[b] # <<>> => b \in known'
      BY <1>1, <1>4, <2>4 DEF Grant
    <2>6. held' \subseteq Held
      BY <1>4 DEF Grant, Held
    <2>7. made' \in [Accounts -> [0..MaxTime -> Int]] /\ misfits' = misfits /\ now' = now
      <3>1. made' = [made EXCEPT ![a] = Counted(made[a], now, 1)]
        BY <1>4 DEF Grant
      <3>2. Counted(made[a], now, 1) \in [0..MaxTime -> Int]
        BY DEF Counted
      <3> QED BY <3>1, <3>2, <1>4 DEF Grant
    <2> QED BY <1>3, <2>4, <2>5, <2>6, <2>7
  <1>5. ASSUME NEW c \in Callers, NEW a \in Accounts, NEW prefetch \in BOOLEAN,
               Refuse(c, a, prefetch)
        PROVE  TypeOK'
    <2>1. spent' = [AfterDrain EXCEPT ![a] = Live(AfterDrain[a], Cutoff)]
      BY <1>5 DEF Refuse
    <2>2. spent' \in [Accounts -> Seq(Stamp)] /\ \A b \in Accounts \ {a} : spent'[b] = AfterDrain[b]
      BY <1>2, <1>3, <2>1
    <2>3. known' = Surviving \cup {a} /\ \A b \in Accounts : spent'[b] # <<>> => b \in known'
      BY <1>1, <1>5, <2>2 DEF Refuse
    <2> QED BY <1>3, <1>5, <2>2, <2>3 DEF Refuse
  <1>6. ASSUME NEW h \in held, Keep(h)
        PROVE  TypeOK'
    BY <1>6 DEF Keep
  <1>7. ASSUME NEW h \in held, Refund(h)
        PROVE  TypeOK'
    <2>1. h \in Held /\ h.acct \in Accounts /\ h.at \in 0..MaxTime
      BY DEF Held
    <2> DEFINE a == h.acct
    <2>2. Popped(spent[a]) \in Seq(Stamp) /\ (Popped(spent[a]) # <<>> => spent[a] # <<>>)
      BY <2>1 DEF Popped
    <2>3. spent' = [spent EXCEPT ![a] = Popped(spent[a])]
      BY <1>7 DEF Refund
    <2> HIDE DEF a
    <2>4. a \in Accounts
      BY <2>1 DEF a
    <2>5. /\ spent' \in [Accounts -> Seq(Stamp)]
          /\ \A b \in Accounts : spent'[b] # <<>> => spent[b] # <<>>
      BY <2>2, <2>3, <2>4
    <2>6. misfits' \in [Accounts -> Nat]
      BY <1>7, <2>1 DEF Refund
    <2>7. made' \in [Accounts -> [0..MaxTime -> Int]]
      <3>1. made' = [made EXCEPT ![a] = Counted(made[a], h.at, -1)]
        BY <1>7 DEF Refund, a
      <3>2. Counted(made[a], h.at, -1) \in [0..MaxTime -> Int]
        BY <2>4 DEF Counted
      <3> QED BY <3>1, <3>2, <2>4
    <2> QED BY <1>7, <2>5, <2>6, <2>7 DEF Refund
  <1>8. ASSUME Tick
        PROVE  TypeOK'
    BY <1>8 DEF Tick
  <1>9. ASSUME Restart
        PROVE  TypeOK'
    BY <1>9 DEF Restart
  <1>10. ASSUME UNCHANGED vars
         PROVE  TypeOK'
    BY <1>10 DEF vars
  <1> QED BY <1>4, <1>5, <1>6, <1>7, <1>8, <1>9, <1>10 DEF Next

(* Type correctness, whatever the accounts, callers, limits and bounds. *)
THEOREM TypeCorrect == Spec => []TypeOK
PROOF
  <1>1. Init => TypeOK
    BY BoundAssumption DEF Init, TypeOK
  <1>2. TypeOK /\ [Next]_vars => TypeOK'
    BY TypeStep
  <1> QED BY <1>1, <1>2, PTL DEF Spec
-----------------------------------------------------------------------------
(* Every take, refund, tick and restart keeps the limit and the reserve. *)
LEMMA BudgetStep ==
  ASSUME TypeOK, BudgetInv, [Next]_vars
  PROVE  BudgetInv'
PROOF
  <1> USE LimitAssumption, ReserveAssumption
  <1>1. ASSUME NEW c \in Callers, NEW a \in Accounts, NEW prefetch \in BOOLEAN,
               Grant(c, a, prefetch)
        PROVE  BudgetInv'
    <2> DEFINE kept == Live(AfterDrain[a], Cutoff)
               st == [at |-> now, prefetch |-> prefetch]
    <2>1. st \in Stamp /\ st.prefetch = prefetch
      BY BoundAssumption DEF Stamp, TypeOK
    <2>2. kept \in Seq(Stamp) /\ Len(kept) \in Nat /\ ReserveInv(kept)
      BY KeptIsGood
    <2>3. Len(kept) < Ceiling(prefetch) /\ spent' = [AfterDrain EXCEPT ![a] = Append(kept, st)]
      BY <1>1 DEF Grant
    <2> HIDE DEF kept, st
    <2>4. Len(Append(kept, st)) = Len(kept) + 1 /\ Len(kept) + 1 <= Limit
      BY <2>1, <2>2, <2>3 DEF Ceiling
    <2>5. ASSUME NEW i \in 1..Len(Append(kept, st)), Append(kept, st)[i].prefetch
          PROVE  i <= Limit - Reserve
      <3>1. CASE i <= Len(kept)
        <4>1. Append(kept, st)[i] = kept[i]
          BY <2>1, <2>2, <2>4, <3>1
        <4> QED BY <2>2, <2>5, <3>1, <4>1, <2>4 DEF ReserveInv
      <3>2. CASE i = Len(kept) + 1
        <4>1. Append(kept, st)[i] = st
          BY <2>1, <2>2, <3>2
        <4>2. prefetch
          BY <2>1, <2>5, <4>1
        <4> QED BY <2>2, <2>3, <3>2, <4>2 DEF Ceiling
      <3> QED BY <2>2, <2>4, <3>1, <3>2
    <2>6. ReserveInv(Append(kept, st))
      BY <2>5 DEF ReserveInv
    <2>7. \A b \in Accounts : spent'[b] = IF b = a THEN Append(kept, st) ELSE AfterDrain[b]
      BY <2>3 DEF AfterDrain
    <2> QED BY <2>4, <2>6, <2>7, KeptIsGood DEF BudgetInv, WithinLimit, ReserveInv
  <1>2. ASSUME NEW c \in Callers, NEW a \in Accounts, NEW prefetch \in BOOLEAN,
               Refuse(c, a, prefetch)
        PROVE  BudgetInv'
    <2> DEFINE kept == Live(AfterDrain[a], Cutoff)
    <2>1. kept \in Seq(Stamp) /\ Len(kept) <= Limit /\ ReserveInv(kept)
      BY KeptIsGood
    <2>2. spent' = [AfterDrain EXCEPT ![a] = kept]
      BY <1>2 DEF Refuse
    <2> HIDE DEF kept
    <2>3. \A b \in Accounts : spent'[b] = IF b = a THEN kept ELSE AfterDrain[b]
      BY <2>2 DEF AfterDrain
    <2> QED BY <2>1, <2>3, KeptIsGood DEF BudgetInv, WithinLimit, ReserveInv
  <1>3. ASSUME NEW h \in held, Refund(h)
        PROVE  BudgetInv'
    <2>1. h.acct \in Accounts
      BY DEF TypeOK, Held
    <2> DEFINE s == spent[h.acct]
    <2>2. s \in Seq(Stamp) /\ Len(s) \in Nat /\ Len(s) <= Limit /\ ReserveInv(s)
      BY <2>1 DEF TypeOK, BudgetInv, WithinLimit
    <2>3. \A b \in Accounts : spent'[b] = IF b = h.acct THEN Popped(s) ELSE spent[b]
      BY <1>3, <2>1 DEF Refund, TypeOK
    <2> HIDE DEF s
    <2>4. Len(Popped(s)) <= Limit /\ ReserveInv(Popped(s))
      <3>1. CASE s = <<>>
        BY <2>2, <3>1 DEF Popped
      <3>2. CASE s # <<>>
        <4>1. Len(s) - 1 \in 0..Len(s)
          BY <2>2, <3>2
        <4>2. /\ Len(Popped(s)) = Len(s) - 1
              /\ \A i \in 1..(Len(s) - 1) : Popped(s)[i] = s[i]
          BY <2>2, <3>2, <4>1, PrefixProperties DEF Popped
        <4> QED BY <2>2, <4>1, <4>2 DEF ReserveInv
      <3> QED BY <3>1, <3>2
    <2> QED BY <2>3, <2>4 DEF BudgetInv, WithinLimit, ReserveInv
  <1>4. ASSUME Restart
        PROVE  BudgetInv'
    BY <1>4 DEF Restart, BudgetInv, WithinLimit, ReserveInv
  <1>5. ASSUME spent' = spent
        PROVE  BudgetInv'
    BY <1>5 DEF BudgetInv, WithinLimit, ReserveInv
  <1>6. ASSUME NEW h \in held, Keep(h)
        PROVE  BudgetInv'
    BY <1>5, <1>6 DEF Keep
  <1>7. ASSUME Tick
        PROVE  BudgetInv'
    BY <1>5, <1>7 DEF Tick
  <1>8. ASSUME UNCHANGED vars
        PROVE  BudgetInv'
    BY <1>5, <1>8 DEF vars
  <1> QED BY <1>1, <1>2, <1>3, <1>4, <1>6, <1>7, <1>8 DEF Next

(* The two invariants together, inductively. *)
THEOREM BudgetInvariant == Spec => []BudgetInv
PROOF
  <1>1. Init => BudgetInv
    BY LimitAssumption DEF Init, BudgetInv, WithinLimit, ReserveInv
  <1>2. TypeOK /\ BudgetInv /\ [Next]_vars => BudgetInv'
    BY BudgetStep
  <1> QED BY <1>1, <1>2, TypeCorrect, PTL DEF Spec

(* The budget's own count of an account never exceeds the limit, for any   *)
(* number of accounts and callers (take and refund, addbudget.go).         *)
THEOREM LimitHolds == Spec => []WithinLimit
PROOF
  <1>1. BudgetInv => WithinLimit
    BY DEF BudgetInv
  <1> QED BY <1>1, BudgetInvariant, PTL

(* Prefetches never take the last Reserve adds of a window, whatever the   *)
(* order of takes and refunds (take and ceiling, addbudget.go).            *)
THEOREM ReserveHolds == Spec => []ReserveKept
PROOF
  <1>1. TypeOK /\ BudgetInv => ReserveKept
    <2> SUFFICES ASSUME TypeOK, BudgetInv, NEW a \in Accounts,
                        Len(Live(spent[a], Cutoff)) >= Limit,
                        NEW i \in (Limit - Reserve + 1)..Limit
                 PROVE  ~Live(spent[a], Cutoff)[i].prefetch
      BY DEF ReserveKept
    <2> DEFINE s == spent[a]
               l == Live(s, Cutoff)
    <2>1. s \in Seq(Stamp) /\ ReserveInv(s) /\ Cutoff \in Int
      BY WindowAssumption, BoundAssumption DEF TypeOK, BudgetInv, Cutoff
    <2>2. /\ l \in Seq(Stamp)
          /\ Len(l) <= Len(s)
          /\ \A n \in 1..Len(l) : \E j \in 1..Len(s) : n <= j /\ l[n] = s[j]
      BY <2>1, LiveIsSuffix
    <2>3. Len(l) >= Limit
      OBVIOUS
    <2> HIDE DEF l, s
    <2>4. i \in 1..Len(l)
      BY <2>2, <2>3, LimitAssumption, ReserveAssumption
    <2>5. PICK j \in 1..Len(s) : i <= j /\ l[i] = s[j]
      BY <2>2, <2>4
    <2>6. ~s[j].prefetch
      BY <2>1, <2>5, LimitAssumption, ReserveAssumption DEF ReserveInv
    <2> QED BY <2>5, <2>6 DEF l, s
  <1> QED BY <1>1, TypeCorrect, BudgetInvariant, PTL
-----------------------------------------------------------------------------
(* The list is in time order, and none of its charges is of the future.    *)
InOrder(s) ==
  \A i, j \in 1..Len(s) : i <= j => s[i].at <= s[j].at
UpTo(s, t) == \A i \in 1..Len(s) : s[i].at <= t

TimeInv == \A a \in Accounts : InOrder(spent[a]) /\ UpTo(spent[a], now)

LEMMA StampTimes ==
  ASSUME NEW s \in Seq(Stamp)
  PROVE  \A i \in 1..Len(s) : s[i].at \in Nat
PROOF
  <1>1. \A i \in 1..Len(s) : s[i] \in Stamp
    OBVIOUS
  <1> QED BY <1>1 DEF Stamp

LEMMA EmptyInOrder ==
  ASSUME NEW t
  PROVE  <<>> \in Seq(Stamp) /\ Len(<<>>) = 0 /\ InOrder(<<>>) /\ UpTo(<<>>, t)
  BY DEF InOrder, UpTo

(* Of a list in time order, the charges up to a moment are the first ones, *)
(* as many as DrainedCount says.                                           *)
LEMMA DrainedAreFirst ==
  ASSUME NEW s \in Seq(Stamp), NEW cutoff \in Int, InOrder(s)
  PROVE  \A i \in 1..Len(s) : s[i].at <= cutoff <=> i <= DrainedCount(s, cutoff)
PROOF
  <1> DEFINE D == {i \in DOMAIN s : s[i].at <= cutoff}
  <1> SUFFICES ASSUME NEW i \in 1..Len(s)
               PROVE  i \in D <=> i <= Cardinality(D)
    BY DEF DrainedCount
  <1>1. DOMAIN s = 1..Len(s) /\ Len(s) \in Nat /\ \A j \in 1..Len(s) : s[j].at \in Nat
    BY StampTimes
  <1>2. \A j \in 1..Len(s), n \in 1..Len(s) : j <= n /\ n \in D => j \in D
    BY <1>1 DEF InOrder
  <1>3. D \subseteq 1..Len(s)
    BY <1>1
  <1> HIDE DEF D
  <1>4. \A m \in 0..Len(s) : IsFiniteSet(1..m) /\ Cardinality(1..m) = m
    <2> SUFFICES ASSUME NEW m \in 0..Len(s)
                 PROVE  IsFiniteSet(1..m) /\ Cardinality(1..m) = m
      OBVIOUS
    <2>1. 1 \in Int /\ m \in Int /\ (1 > m => m = 0) /\ (1 <= m => m - 1 + 1 = m)
      BY <1>1
    <2> QED BY <2>1, FS_Interval
  <1>5. IsFiniteSet(D) /\ Cardinality(D) \in Nat
    <2>1. Len(s) \in 0..Len(s)
      BY <1>1
    <2>2. IsFiniteSet(1..Len(s))
      BY <1>4, <2>1
    <2>3. IsFiniteSet(D)
      BY <1>3, <2>2, FS_Subset
    <2> QED BY <2>3, FS_CardinalityType
  <1>6. CASE i \in D
    <2>1. 1..i \subseteq D
      BY <1>1, <1>2, <1>6
    <2>2. Cardinality(1..i) <= Cardinality(D)
      BY <1>5, <2>1, FS_Subset
    <2> QED BY <1>1, <1>4, <1>6, <2>2
  <1>7. CASE i \notin D
    <2>1. D \subseteq 1..(i - 1)
      BY <1>1, <1>2, <1>3, <1>7
    <2>2. i - 1 \in 0..Len(s)
      BY <1>1
    <2>3. Cardinality(D) <= i - 1
      <3>1. IsFiniteSet(1..(i - 1)) /\ Cardinality(1..(i - 1)) = i - 1
        BY <1>4, <2>2
      <3>2. Cardinality(D) <= Cardinality(1..(i - 1))
        BY <2>1, <3>1, FS_Subset
      <3> QED BY <3>1, <3>2
    <2>4. ~(i <= Cardinality(D))
      BY <1>5, <2>2, <2>3
    <2> QED BY <1>7, <2>4
  <1> QED BY <1>6, <1>7

(* The count is the only number with that property. *)
LEMMA DrainedIs ==
  ASSUME NEW s \in Seq(Stamp), NEW cutoff \in Int, InOrder(s), NEW k \in 0..Len(s),
         \A i \in 1..Len(s) : s[i].at <= cutoff <=> i <= k
  PROVE  DrainedCount(s, cutoff) = k
PROOF
  <1> DEFINE n == DrainedCount(s, cutoff)
  <1>1. n \in 0..Len(s) /\ \A i \in 1..Len(s) : i <= n <=> i <= k
    BY DrainedCountBound, DrainedAreFirst
  <1> HIDE DEF n
  <1>2. k \in 0..Len(s) /\ Len(s) \in Nat
    OBVIOUS
  <1>3. ~(n < k)
    <2> SUFFICES ASSUME n < k PROVE FALSE
      OBVIOUS
    <2>1. k \in 1..Len(s) /\ ~(k <= n)
      BY <1>1, <1>2
    <2> QED BY <1>1, <2>1
  <1>4. ~(k < n)
    <2> SUFFICES ASSUME k < n PROVE FALSE
      OBVIOUS
    <2>1. n \in 1..Len(s) /\ ~(n <= k)
      BY <1>1, <1>2
    <2> QED BY <1>1, <2>1
  <1> QED BY <1>1, <1>2, <1>3, <1>4 DEF n

(* What the live part of a list is, charge by charge. *)
LEMMA LiveIs ==
  ASSUME NEW s \in Seq(Stamp), NEW cutoff \in Int
  PROVE  /\ Live(s, cutoff) \in Seq(Stamp)
         /\ Len(Live(s, cutoff)) = Len(s) - DrainedCount(s, cutoff)
         /\ \A i \in 1..(Len(s) - DrainedCount(s, cutoff)) :
              /\ DrainedCount(s, cutoff) + i \in 1..Len(s)
              /\ Live(s, cutoff)[i] = s[DrainedCount(s, cutoff) + i]
PROOF
  <1> DEFINE k == DrainedCount(s, cutoff)
  <1>1. k \in 0..Len(s) /\ Len(s) \in Nat
    BY DrainedCountBound
  <1>2. Live(s, cutoff) = SubSeq(s, k + 1, Len(s))
    BY DEF Live
  <1> HIDE DEF k
  <1>3. /\ SubSeq(s, k + 1, Len(s)) \in Seq(Stamp)
        /\ Len(SubSeq(s, k + 1, Len(s))) = Len(s) - k
        /\ \A i \in 1..(Len(s) - k) : SubSeq(s, k + 1, Len(s))[i] = s[k + i]
    BY <1>1
  <1>4. \A i \in 1..(Len(s) - k) : k + i \in 1..Len(s)
    BY <1>1
  <1> QED BY <1>2, <1>3, <1>4 DEF k

(* Taking a suffix, removing the last charge and adding one of the present *)
(* leave the order as it is.                                               *)
LEMMA LiveInOrder ==
  ASSUME NEW s \in Seq(Stamp), NEW cutoff \in Int, NEW t, InOrder(s), UpTo(s, t)
  PROVE  InOrder(Live(s, cutoff)) /\ UpTo(Live(s, cutoff), t)
PROOF
  <1> DEFINE k == DrainedCount(s, cutoff)
             l == Live(s, cutoff)
  <1>1. k \in 0..Len(s) /\ Len(s) \in Nat
    BY DrainedCountBound
  <1>2. Len(l) = Len(s) - k /\ \A i \in 1..(Len(s) - k) : k + i \in 1..Len(s) /\ l[i] = s[k + i]
    BY LiveIs
  <1> HIDE DEF k, l
  <1>3. \A i, j \in 1..(Len(s) - k) : i <= j => k + i <= k + j
    BY <1>1
  <1> QED BY <1>2, <1>3 DEF InOrder, UpTo, k, l

LEMMA AppendInOrder ==
  ASSUME NEW s \in Seq(Stamp), NEW st \in Stamp, InOrder(s), UpTo(s, st.at)
  PROVE  InOrder(Append(s, st)) /\ UpTo(Append(s, st), st.at)
PROOF
  <1> DEFINE u == Append(s, st)
  <1>1. /\ Len(u) = Len(s) + 1 /\ Len(s) \in Nat
        /\ \A i \in 1..(Len(s) + 1) : u[i] = IF i <= Len(s) THEN s[i] ELSE st
    OBVIOUS
  <1>2. st.at \in Nat
    BY DEF Stamp
  <1> HIDE DEF u
  <1>3. UpTo(u, st.at)
    BY <1>1, <1>2 DEF UpTo
  <1>4. ASSUME NEW i \in 1..Len(u), NEW j \in 1..Len(u), i <= j
        PROVE  u[i].at <= u[j].at
    <2>1. CASE j <= Len(s)
      BY <1>1, <1>4, <2>1 DEF InOrder
    <2>2. CASE ~(j <= Len(s))
      BY <1>1, <1>3, <2>2 DEF UpTo
    <2> QED BY <2>1, <2>2
  <1> QED BY <1>3, <1>4 DEF InOrder, u

LEMMA PoppedIs ==
  ASSUME NEW s \in Seq(Stamp), s # <<>>
  PROVE  /\ Popped(s) \in Seq(Stamp) /\ Len(Popped(s)) = Len(s) - 1 /\ Len(s) \in Nat \ {0}
         /\ \A i \in 1..(Len(s) - 1) : Popped(s)[i] = s[i]
PROOF
  <1>1. Len(s) \in Nat \ {0} /\ Len(s) - 1 \in 0..Len(s)
    OBVIOUS
  <1>2. Popped(s) = SubSeq(s, 1, Len(s) - 1)
    BY DEF Popped
  <1>3. SubSeq(s, 1, Len(s) - 1) \in Seq(Stamp)
    BY <1>1
  <1>4. PICK m \in 0..Len(s) : m = Len(s) - 1
    BY <1>1
  <1>5. /\ Len(SubSeq(s, 1, m)) = m
        /\ \A i \in 1..m : SubSeq(s, 1, m)[i] = s[i]
    BY PrefixProperties
  <1> QED BY <1>1, <1>2, <1>3, <1>4, <1>5

LEMMA PoppedInOrder ==
  ASSUME NEW s \in Seq(Stamp), NEW t, InOrder(s), UpTo(s, t)
  PROVE  InOrder(Popped(s)) /\ UpTo(Popped(s), t)
PROOF
  <1>1. CASE s = <<>>
    BY <1>1 DEF Popped
  <1>2. CASE s # <<>>
    <2>1. \A i \in 1..(Len(s) - 1) : i \in 1..Len(s)
      BY PoppedIs, <1>2
    <2> QED BY <1>2, <2>1, PoppedIs DEF InOrder, UpTo
  <1> QED BY <1>1, <1>2

(* An account's list after its drained charges went. *)
LEMMA KeptInOrder ==
  ASSUME TypeOK, TimeInv, NEW a \in Accounts
  PROVE  /\ AfterDrain[a] \in Seq(Stamp) /\ Cutoff \in Int /\ now \in Nat
         /\ InOrder(AfterDrain[a]) /\ UpTo(AfterDrain[a], now)
         /\ Live(AfterDrain[a], Cutoff) \in Seq(Stamp)
         /\ InOrder(Live(AfterDrain[a], Cutoff)) /\ UpTo(Live(AfterDrain[a], Cutoff), now)
PROOF
  <1>1. Cutoff \in Int /\ now \in Nat
    BY WindowAssumption, BoundAssumption DEF Cutoff, TypeOK
  <1>2. AfterDrain[a] = <<>> \/ AfterDrain[a] = spent[a]
    BY DEF AfterDrain
  <1>3. AfterDrain[a] \in Seq(Stamp) /\ InOrder(AfterDrain[a]) /\ UpTo(AfterDrain[a], now)
    BY <1>2, EmptyInOrder DEF TypeOK, TimeInv
  <1> QED BY <1>1, <1>3, LiveIs, LiveInOrder

(* What a step leaves of each account's list. *)
LEMMA GrantedIs ==
  ASSUME TypeOK, NEW c \in Callers, NEW a \in Accounts, NEW prefetch \in BOOLEAN,
         Grant(c, a, prefetch), NEW b \in Accounts
  PROVE  spent'[b] = IF b = a THEN Append(Live(AfterDrain[a], Cutoff), [at |-> now, prefetch |-> prefetch])
                              ELSE AfterDrain[b]
  BY DEF Grant, AfterDrain

LEMMA RefusedIs ==
  ASSUME TypeOK, NEW c \in Callers, NEW a \in Accounts, NEW prefetch \in BOOLEAN,
         Refuse(c, a, prefetch), NEW b \in Accounts
  PROVE  spent'[b] = IF b = a THEN Live(AfterDrain[a], Cutoff) ELSE AfterDrain[b]
  BY DEF Refuse, AfterDrain

LEMMA RefundedIs ==
  ASSUME TypeOK, NEW h \in held, Refund(h), NEW b \in Accounts
  PROVE  h.acct \in Accounts /\ spent'[b] = IF b = h.acct THEN Popped(spent[b]) ELSE spent[b]
  BY DEF Refund, TypeOK, Held

LEMMA TimeStep ==
  ASSUME TypeOK, TimeInv, [Next]_vars
  PROVE  TimeInv'
PROOF
  <1>0. \A a \in Accounts : spent[a] \in Seq(Stamp) /\ InOrder(spent[a]) /\ UpTo(spent[a], now)
    BY DEF TypeOK, TimeInv
  <1>1. ASSUME NEW c \in Callers, NEW a \in Accounts, NEW prefetch \in BOOLEAN,
               Grant(c, a, prefetch)
        PROVE  TimeInv'
    <2> DEFINE st == [at |-> now, prefetch |-> prefetch]
    <2>1. st \in Stamp /\ st.at = now /\ now' = now
      BY <1>1, BoundAssumption DEF Stamp, TypeOK, Grant
    <2>2. \A b \in Accounts :
            spent'[b] = IF b = a THEN Append(Live(AfterDrain[a], Cutoff), st) ELSE AfterDrain[b]
      BY <1>1, GrantedIs
    <2> HIDE DEF st
    <2>3. /\ InOrder(Append(Live(AfterDrain[a], Cutoff), st))
          /\ UpTo(Append(Live(AfterDrain[a], Cutoff), st), now)
      BY <2>1, KeptInOrder, AppendInOrder
    <2>4. \A b \in Accounts : InOrder(spent'[b]) /\ UpTo(spent'[b], now)
      BY <2>2, <2>3, KeptInOrder
    <2> QED BY <2>1, <2>4 DEF TimeInv, InOrder, UpTo
  <1>2. ASSUME NEW c \in Callers, NEW a \in Accounts, NEW prefetch \in BOOLEAN,
               Refuse(c, a, prefetch)
        PROVE  TimeInv'
    <2>1. \A b \in Accounts : InOrder(spent'[b]) /\ UpTo(spent'[b], now)
      BY <1>2, RefusedIs, KeptInOrder
    <2> QED BY <1>2, <2>1 DEF Refuse, TimeInv, InOrder, UpTo
  <1>3. ASSUME NEW h \in held, Refund(h)
        PROVE  TimeInv'
    <2>1. \A b \in Accounts : InOrder(spent'[b]) /\ UpTo(spent'[b], now)
      BY <1>0, <1>3, RefundedIs, PoppedInOrder
    <2> QED BY <1>3, <2>1 DEF Refund, TimeInv, InOrder, UpTo
  <1>4. ASSUME Tick
        PROVE  TimeInv'
    <2>1. spent' = spent /\ now' = now + 1 /\ now \in Nat
      BY <1>4, BoundAssumption DEF Tick, TypeOK
    <2>2. \A a \in Accounts : \A i \in 1..Len(spent[a]) : spent[a][i].at \in Nat
      BY <1>0, StampTimes
    <2> QED BY <1>0, <2>1, <2>2 DEF TimeInv, InOrder, UpTo
  <1>5. ASSUME Restart
        PROVE  TimeInv'
    BY <1>5 DEF Restart, TimeInv, InOrder, UpTo
  <1>6. ASSUME UNCHANGED <<spent, now>>
        PROVE  TimeInv'
    BY <1>6 DEF TimeInv, InOrder, UpTo
  <1>7. ASSUME NEW h \in held, Keep(h)
        PROVE  TimeInv'
    BY <1>6, <1>7 DEF Keep
  <1>8. ASSUME UNCHANGED vars
        PROVE  TimeInv'
    BY <1>6, <1>8 DEF vars
  <1> QED BY <1>1, <1>2, <1>3, <1>4, <1>5, <1>7, <1>8 DEF Next

LEMMA TimeInvariant == Spec => []TimeInv
PROOF
  <1>1. Init => TimeInv
    BY DEF Init, TimeInv, InOrder, UpTo
  <1>2. TypeOK /\ TimeInv /\ [Next]_vars => TimeInv'
    BY TimeStep
  <1> QED BY <1>1, <1>2, TypeCorrect, PTL DEF Spec
-----------------------------------------------------------------------------
(* Whether an add asked for at a moment finds room below the ceiling is    *)
(* decided by one charge: the one that is c-th from the end.               *)
LEMMA RoomAt ==
  ASSUME NEW s \in Seq(Stamp), NEW cutoff \in Int, InOrder(s), NEW c \in 1..Len(s)
  PROVE  /\ Len(s) - c + 1 \in 1..Len(s)
         /\ Len(Live(s, cutoff)) < c <=> s[Len(s) - c + 1].at <= cutoff
PROOF
  <1>1. Len(s) \in Nat /\ Len(s) - c + 1 \in 1..Len(s)
    OBVIOUS
  <1>2. /\ DrainedCount(s, cutoff) \in 0..Len(s)
        /\ Len(Live(s, cutoff)) = Len(s) - DrainedCount(s, cutoff)
    BY DrainedCountBound, LiveIs
  <1>3. s[Len(s) - c + 1].at <= cutoff <=> Len(s) - c + 1 <= DrainedCount(s, cutoff)
    BY <1>1, DrainedAreFirst
  <1> QED BY <1>1, <1>2, <1>3

LEMMA LiveShort ==
  ASSUME NEW s \in Seq(Stamp), NEW cutoff \in Int
  PROVE  Len(Live(s, cutoff)) \in Nat /\ Len(Live(s, cutoff)) <= Len(s)
PROOF
  <1> DEFINE k == DrainedCount(s, cutoff)
  <1>1. k \in 0..Len(s)
    BY DrainedCountBound
  <1>2. Len(Live(s, cutoff)) = Len(s) - k
    BY LiveIs
  <1>3. Len(s) \in Nat
    OBVIOUS
  <1> HIDE DEF k
  <1> QED BY <1>1, <1>2, <1>3

LEMMA FreesInIsExact ==
  ASSUME NEW s \in Seq(Stamp), NEW t \in Nat, InOrder(s), UpTo(s, t), NEW prefetch \in BOOLEAN
  PROVE  LET d == FreesIn(s, prefetch, t)
             allowed(m) == Len(Live(s, m - Window)) < Ceiling(prefetch)
         IN /\ d \in 0..Window
            /\ allowed(t + d)
            /\ \A e \in 0..(d - 1) : ~allowed(t + e)
            /\ d = 0 <=> Len(Live(s, t - Window)) < Ceiling(prefetch)
PROOF
  <1> DEFINE c == Ceiling(prefetch)
             d == FreesIn(s, prefetch, t)
             allowed(m) == Len(Live(s, m - Window)) < c
             live == Live(s, t - Window)
             n == Len(s)
  <1>1. c \in Nat /\ c > 0 /\ Window \in Nat /\ Window > 0
    BY LimitAssumption, ReserveAssumption, WindowAssumption DEF Ceiling
  <1>2. \A m \in Nat : m - Window \in Int
    BY <1>1
  <1>3. n \in Nat /\ \A m \in Nat : /\ Len(Live(s, m - Window)) \in Nat
                                    /\ Len(Live(s, m - Window)) <= n
    BY <1>2, LiveShort
  <1>4. d = IF Len(live) < c THEN 0 ELSE live[Len(live) - c + 1].at + Window - t
    BY <1>1 DEF FreesIn
  <1>5. CASE Len(live) < c
    <2>1. d = 0
      BY <1>4, <1>5
    <2> HIDE DEF d
    <2>2. t + d = t /\ 0..(d - 1) = {} /\ d \in 0..Window
      BY <1>1, <2>1
    <2> QED BY <1>5, <2>1, <2>2 DEF d
  <1>6. CASE ~(Len(live) < c)
    <2> DEFINE x == n - c + 1
               at == s[x].at
    <2>1. c \in 1..n /\ x \in 1..n
      BY <1>1, <1>3, <1>6
    <2>2. at \in Nat /\ at <= t
      BY <2>1, StampTimes DEF UpTo
    <2>3. \A m \in Nat : allowed(m) <=> at <= m - Window
      BY <1>2, <2>1, RoomAt
    <2>4. ~(at <= t - Window)
      BY <1>6, <2>3
    <2>5. live[Len(live) - c + 1] = s[x]
      <3> DEFINE k == DrainedCount(s, t - Window)
      <3>1. /\ k \in 0..n /\ Len(live) = n - k
            /\ \A i \in 1..(n - k) : live[i] = s[k + i]
        BY <1>2, LiveIs, DrainedCountBound
      <3> HIDE DEF k, live, c
      <3>2. Len(live) - c + 1 \in 1..(n - k) /\ k + (Len(live) - c + 1) = x
        BY <1>1, <1>3, <1>6, <3>1
      <3> QED BY <3>1, <3>2
    <2>6. d = at + Window - t
      BY <1>4, <1>6, <2>5
    <2> HIDE DEF d, allowed, at, c
    <2>7. d \in 1..Window
      BY <1>1, <2>2, <2>4, <2>6
    <2>8. allowed(t + d)
      <3>1. t + d \in Nat /\ at <= (t + d) - Window
        BY <1>1, <2>2, <2>6, <2>7
      <3> QED BY <2>3, <3>1
    <2>9. ASSUME NEW e \in 0..(d - 1)
          PROVE  ~allowed(t + e)
      <3>1. t + e \in Nat /\ ~(at <= (t + e) - Window)
        BY <1>1, <2>2, <2>6, <2>7
      <3> QED BY <2>3, <3>1
    <2> QED BY <1>6, <2>7, <2>8, <2>9 DEF d, allowed, c
  <1> QED BY <1>5, <1>6

(* Retry-After is exact: freesIn names the first moment at which the list  *)
(* as it is leaves room for the caller (freesIn, remaining).               *)
THEOREM RetryAfterHolds == Spec => []RetryAfterIsExact
PROOF
  <1>1. TypeOK /\ TimeInv => RetryAfterIsExact
    <2> SUFFICES ASSUME TypeOK, TimeInv, NEW a \in Accounts, NEW prefetch \in BOOLEAN
                 PROVE  LET d == FreesIn(spent[a], prefetch, now)
                            allowed(t) == Len(Live(spent[a], t - Window)) < Ceiling(prefetch)
                        IN /\ d \in 0..Window
                           /\ allowed(now + d)
                           /\ \A e \in 0..(d - 1) : ~allowed(now + e)
                           /\ ~prefetch => (d = 0 <=> Remaining(spent[a], now) > 0)
      BY DEF RetryAfterIsExact
    <2> DEFINE s == spent[a]
    <2>1. s \in Seq(Stamp) /\ InOrder(s) /\ UpTo(s, now) /\ now \in Nat
      BY BoundAssumption DEF TypeOK, TimeInv
    <2>2. ~prefetch => (Len(Live(s, now - Window)) < Ceiling(prefetch) <=> Remaining(s, now) > 0)
      <3>1. Len(Live(s, now - Window)) \in Nat /\ Limit \in Nat
        BY <2>1, LiveShort, WindowAssumption, LimitAssumption
      <3> HIDE DEF s
      <3> QED BY <3>1 DEF Ceiling, Remaining
    <2> HIDE DEF s
    <2>3. LET d == FreesIn(s, prefetch, now)
              allowed(m) == Len(Live(s, m - Window)) < Ceiling(prefetch)
          IN /\ d \in 0..Window
             /\ allowed(now + d)
             /\ \A e \in 0..(d - 1) : ~allowed(now + e)
             /\ d = 0 <=> Len(Live(s, now - Window)) < Ceiling(prefetch)
      BY <2>1, FreesInIsExact
    <2> QED BY <2>2, <2>3 DEF s
  <1> QED BY <1>1, TypeCorrect, TimeInvariant, PTL
-----------------------------------------------------------------------------
(* The charges of a list from the moment t on.                             *)
Later(s, t) == Len(s) - DrainedCount(s, t - 1)

LEMMA LaterIsCount ==
  ASSUME NEW s \in Seq(Stamp), NEW t \in Int, InOrder(s), NEW k \in 0..Len(s),
         \A i \in 1..Len(s) : s[i].at < t <=> i <= k
  PROVE  Later(s, t) = Len(s) - k
PROOF
  <1>1. t - 1 \in Int
    OBVIOUS
  <1>2. \A i \in 1..Len(s) : s[i].at <= t - 1 <=> i <= k
    <2>1. \A i \in 1..Len(s) : s[i].at \in Nat
      BY StampTimes
    <2>2. \A i \in 1..Len(s) : s[i].at <= t - 1 <=> s[i].at < t
      BY <2>1
    <2> QED BY <2>2
  <1>3. DrainedCount(s, t - 1) = k
    BY <1>1, <1>2, DrainedIs
  <1> QED BY <1>3 DEF Later

LEMMA CountOf ==
  ASSUME NEW s \in Seq(Stamp), NEW t \in Int, InOrder(s)
  PROVE  \E k \in 0..Len(s) : /\ \A i \in 1..Len(s) : s[i].at < t <=> i <= k
                              /\ Later(s, t) = Len(s) - k
PROOF
  <1> DEFINE k == DrainedCount(s, t - 1)
  <1>1. t - 1 \in Int
    OBVIOUS
  <1>2. k \in 0..Len(s) /\ \A i \in 1..Len(s) : s[i].at <= t - 1 <=> i <= k
    BY <1>1, DrainedCountBound, DrainedAreFirst
  <1>3. \A i \in 1..Len(s) : s[i].at <= t - 1 <=> s[i].at < t
    <2>1. \A i \in 1..Len(s) : s[i].at \in Nat
      BY StampTimes
    <2> QED BY <2>1
  <1> HIDE DEF k
  <1>4. \A i \in 1..Len(s) : s[i].at < t <=> i <= k
    BY <1>2, <1>3
  <1> QED BY <1>2, <1>4, LaterIsCount

LEMMA LaterEmpty ==
  ASSUME NEW t \in Int
  PROVE  Later(<<>>, t) = 0
PROOF
  <1> DEFINE e == <<>>
  <1>1. e \in Seq(Stamp) /\ Len(e) = 0
    OBVIOUS
  <1>2. InOrder(e)
    BY EmptyInOrder
  <1> HIDE DEF e
  <1>3. 0 \in 0..Len(e) /\ \A i \in 1..Len(e) : e[i].at < t <=> i <= 0
    BY <1>1
  <1>4. Later(e, t) = Len(e) - 0
    BY <1>1, <1>2, <1>3, LaterIsCount
  <1>5. Later(e, t) = 0
    BY <1>1, <1>4
  <1> QED BY <1>5 DEF e

(* Dropping what has left the window changes nothing inside it. *)
LEMMA LaterLive ==
  ASSUME NEW s \in Seq(Stamp), NEW cutoff \in Int, NEW t \in Int, cutoff < t, InOrder(s)
  PROVE  Later(Live(s, cutoff), t) = Later(s, t)
PROOF
  <1> DEFINE d == DrainedCount(s, cutoff)
             l == Live(s, cutoff)
  <1>1. PICK k \in 0..Len(s) : /\ \A i \in 1..Len(s) : s[i].at < t <=> i <= k
                               /\ Later(s, t) = Len(s) - k
    BY CountOf
  <1>2. d \in 0..Len(s) /\ \A i \in 1..Len(s) : s[i].at <= cutoff <=> i <= d
    BY DrainedCountBound, DrainedAreFirst
  <1>3. /\ l \in Seq(Stamp) /\ Len(l) = Len(s) - d
        /\ \A i \in 1..(Len(s) - d) : d + i \in 1..Len(s) /\ l[i] = s[d + i]
    BY LiveIs
  <1>4. InOrder(l)
    <2>1. \E m \in Nat : UpTo(s, m)
      <3>1. CASE Len(s) = 0
        <4>1. UpTo(s, 0) /\ 0 \in Nat
          BY <3>1 DEF UpTo
        <4> QED BY <4>1
      <3>2. CASE Len(s) # 0
        <4>1. Len(s) \in 1..Len(s)
          BY <3>2
        <4>2. s[Len(s)].at \in Nat /\ \A i \in 1..Len(s) : s[i].at <= s[Len(s)].at
          BY <4>1, StampTimes DEF InOrder
        <4>3. UpTo(s, s[Len(s)].at)
          BY <4>2 DEF UpTo
        <4> QED BY <4>2, <4>3
      <3> QED BY <3>1, <3>2
    <2> QED BY <2>1, LiveInOrder
  <1>5. \A i \in 1..Len(s) : s[i].at \in Nat
    BY StampTimes
  <1> HIDE DEF d, l
  <1>6. Len(s) \in Nat
    OBVIOUS
  <1>7. d <= k
    <2> SUFFICES ASSUME ~(d <= k) PROVE FALSE
      OBVIOUS
    <2>1. d \in 1..Len(s)
      BY <1>1, <1>2, <1>6
    <2>2. s[d].at <= cutoff /\ ~(s[d].at < t)
      BY <1>1, <1>2, <2>1
    <2> QED BY <1>5, <2>1, <2>2
  <1>8. k - d \in 0..Len(l) /\ \A i \in 1..Len(l) : l[i].at < t <=> i <= k - d
    <2>1. k - d \in 0..Len(l)
      BY <1>1, <1>2, <1>3, <1>6, <1>7
    <2>2. ASSUME NEW i \in 1..Len(l)
          PROVE  l[i].at < t <=> i <= k - d
      <3>1. d + i \in 1..Len(s) /\ l[i] = s[d + i]
        BY <1>3
      <3>2. d + i <= k <=> i <= k - d
        BY <1>2, <1>6
      <3> QED BY <1>1, <3>1, <3>2
    <2> QED BY <2>1, <2>2
  <1>9. Later(l, t) = Len(l) - (k - d)
    BY <1>3, <1>4, <1>8, LaterIsCount
  <1>10. Later(l, t) = Later(s, t)
    BY <1>1, <1>2, <1>3, <1>6, <1>9
  <1> QED BY <1>10 DEF l

LEMMA LaterAppend ==
  ASSUME NEW s \in Seq(Stamp), NEW st \in Stamp, NEW t \in Int, InOrder(s), UpTo(s, st.at)
  PROVE  Later(Append(s, st), t) = IF t <= st.at THEN Later(s, t) + 1 ELSE Later(s, t)
PROOF
  <1> DEFINE u == Append(s, st)
  <1>1. PICK k \in 0..Len(s) : /\ \A i \in 1..Len(s) : s[i].at < t <=> i <= k
                               /\ Later(s, t) = Len(s) - k
    BY CountOf
  <1>2. /\ Len(u) = Len(s) + 1 /\ Len(s) \in Nat /\ u \in Seq(Stamp)
        /\ \A i \in 1..(Len(s) + 1) : u[i] = IF i <= Len(s) THEN s[i] ELSE st
    OBVIOUS
  <1>3. InOrder(u)
    BY AppendInOrder
  <1>4. st.at \in Nat /\ \A i \in 1..Len(s) : s[i].at \in Nat
    BY StampTimes DEF Stamp
  <1> HIDE DEF u
  <1>5. CASE t <= st.at
    <2>1. k \in 0..Len(u) /\ \A i \in 1..Len(u) : u[i].at < t <=> i <= k
      BY <1>1, <1>2, <1>4, <1>5
    <2>2. Later(u, t) = Len(u) - k
      BY <1>2, <1>3, <2>1, LaterIsCount
    <2> QED BY <1>1, <1>2, <1>5, <2>2 DEF u
  <1>6. CASE ~(t <= st.at)
    <2>1. Len(u) \in 0..Len(u) /\ \A i \in 1..Len(u) : u[i].at < t <=> i <= Len(u)
      BY <1>2, <1>4, <1>6 DEF UpTo
    <2>2. Later(u, t) = 0
      BY <1>2, <1>3, <2>1, LaterIsCount
    <2>3. \A i \in 1..Len(s) : s[i].at < t
      BY <1>4, <1>6 DEF UpTo
    <2>4. Len(s) \in 0..Len(s) /\ \A i \in 1..Len(s) : s[i].at < t <=> i <= Len(s)
      BY <1>2, <2>3
    <2>5. Later(s, t) = 0
      BY <1>2, <2>4, LaterIsCount
    <2> QED BY <1>6, <2>2, <2>5 DEF u
  <1> QED BY <1>5, <1>6

LEMMA LaterPopped ==
  ASSUME NEW s \in Seq(Stamp), s # <<>>, NEW t \in Int, InOrder(s)
  PROVE  Later(Popped(s), t) = IF t <= s[Len(s)].at THEN Later(s, t) - 1 ELSE Later(s, t)
PROOF
  <1> DEFINE u == Popped(s)
             n == Len(s)
  <1>1. PICK k \in 0..n : /\ \A i \in 1..n : s[i].at < t <=> i <= k
                          /\ Later(s, t) = n - k
    BY CountOf
  <1>2. /\ u \in Seq(Stamp) /\ Len(u) = n - 1 /\ n \in Nat \ {0}
        /\ \A i \in 1..(n - 1) : u[i] = s[i]
    BY PoppedIs
  <1>3. \A i \in 1..n : s[i].at \in Nat
    BY StampTimes
  <1>4. UpTo(s, s[n].at)
    <2>1. n \in 1..n
      BY <1>2
    <2> QED BY <2>1 DEF InOrder, UpTo
  <1>5. InOrder(u)
    BY <1>4, PoppedInOrder
  <1> HIDE DEF u, n
  <1>6. n \in 1..n
    BY <1>2
  <1>7. CASE t <= s[n].at
    <2>1. k \in 0..(n - 1)
      BY <1>1, <1>2, <1>3, <1>6, <1>7
    <2>2. \A i \in 1..(n - 1) : i \in 1..n
      BY <1>2
    <2>3. Later(u, t) = (n - 1) - k
      BY <1>1, <1>2, <1>5, <2>1, <2>2, LaterIsCount
    <2>4. Later(u, t) = Later(s, t) - 1
      BY <1>1, <1>2, <2>3
    <2> QED BY <1>7, <2>4 DEF u, n
  <1>8. CASE ~(t <= s[n].at)
    <2>1. k = n
      BY <1>1, <1>2, <1>3, <1>6, <1>8
    <2>2. n - 1 \in 0..Len(u)
      BY <1>2
    <2>3. \A i \in 1..Len(u) : u[i].at < t <=> i <= n - 1
      <3>1. ASSUME NEW i \in 1..Len(u)
            PROVE  u[i].at < t /\ i <= n - 1
        <4>1. i \in 1..n /\ i <= n - 1 /\ u[i] = s[i] /\ i <= k
          BY <1>2, <2>1
        <4> QED BY <1>1, <4>1
      <3> QED BY <3>1
    <2>4. Later(u, t) = Len(u) - (n - 1)
      BY <1>2, <1>5, <2>2, <2>3, LaterIsCount
    <2>5. Later(u, t) = Later(s, t)
      BY <1>1, <1>2, <2>1, <2>4
    <2> QED BY <1>8, <2>5 DEF u, n
  <1> QED BY <1>7, <1>8

(* An account whose newest charge has left the window has none inside it.  *)
LEMMA LaterAfterDrain ==
  ASSUME TypeOK, TimeInv, NEW a \in Accounts, NEW t \in Int, Cutoff < t
  PROVE  Later(AfterDrain[a], t) = Later(spent[a], t)
PROOF
  <1> DEFINE s == spent[a]
  <1>1. s \in Seq(Stamp) /\ InOrder(s) /\ Cutoff \in Int
    BY KeptInOrder DEF TypeOK, TimeInv
  <1>2. AfterDrain[a] = IF s = <<>> \/ s[Len(s)].at <= Cutoff THEN <<>> ELSE s
    BY DEF AfterDrain, Drained
  <1> HIDE DEF s
  <1>3. ASSUME s # <<>>, s[Len(s)].at <= Cutoff
        PROVE  Later(s, t) = 0
    <2>1. Len(s) \in Nat /\ Len(s) \in 1..Len(s) /\ Len(s) \in 0..Len(s)
      BY <1>1, <1>3
    <2>2. \A i \in 1..Len(s) : s[i].at \in Nat /\ s[i].at <= s[Len(s)].at
      BY <1>1, <2>1, StampTimes DEF InOrder
    <2>3. \A i \in 1..Len(s) : s[i].at < t <=> i <= Len(s)
      BY <1>1, <1>3, <2>1, <2>2
    <2>4. Later(s, t) = Len(s) - Len(s)
      BY <1>1, <2>1, <2>3, LaterIsCount
    <2> QED BY <2>1, <2>4
  <1> QED BY <1>2, <1>3, LaterEmpty DEF s

LEMMA LaterKept ==
  ASSUME TypeOK, TimeInv, NEW a \in Accounts, NEW t \in Int, Cutoff < t
  PROVE  Later(Live(AfterDrain[a], Cutoff), t) = Later(spent[a], t)
PROOF
  <1>1. /\ AfterDrain[a] \in Seq(Stamp)
        /\ InOrder(AfterDrain[a])
        /\ Cutoff \in Int
    BY KeptInOrder
  <1>2. Later(Live(AfterDrain[a], Cutoff), t) = Later(AfterDrain[a], t)
    BY <1>1, LaterLive
  <1> QED BY <1>2, LaterAfterDrain

LEMMA LaterBound ==
  ASSUME NEW s \in Seq(Stamp), NEW t \in Int
  PROVE  Later(s, t) \in Int /\ Later(s, t) <= Len(s)
PROOF
  <1>1. t - 1 \in Int
    OBVIOUS
  <1>2. DrainedCount(s, t - 1) \in 0..Len(s)
    BY <1>1, DrainedCountBound
  <1> QED BY <1>2 DEF Later

(* What the service counts from a moment of the window on is what the list *)
(* holds from it on, and the refunds that took a charge of another moment. *)
OverInv ==
  \A a \in Accounts : \A t \in 0..MaxTime :
    Cutoff < t => made[a][t] <= Later(spent[a], t) + misfits[a]

LEMMA OverStep ==
  ASSUME TypeOK, TimeInv, OverInv, [Next]_vars
  PROVE  OverInv'
PROOF
  <1>0. /\ \A a \in Accounts : spent[a] \in Seq(Stamp) /\ InOrder(spent[a]) /\ UpTo(spent[a], now)
        /\ now \in Nat /\ Window \in Nat /\ MaxTime \in Nat
        /\ Cutoff \in Int
        /\ made \in [Accounts -> [0..MaxTime -> Int]]
        /\ misfits \in [Accounts -> Nat]
    BY BoundAssumption, WindowAssumption DEF TypeOK, TimeInv, Cutoff
  <1>1. \A t \in 0..MaxTime : t \in Int
    OBVIOUS
  <1>2. \A a \in Accounts : \A t \in 0..MaxTime :
          Later(spent[a], t) \in Int /\ made[a][t] \in Int /\ misfits[a] \in Nat
    BY <1>0, <1>1, LaterBound
  <1>3. ASSUME NEW c \in Callers, NEW a \in Accounts, NEW prefetch \in BOOLEAN,
               Grant(c, a, prefetch)
        PROVE  OverInv'
    <2> DEFINE st == [at |-> now, prefetch |-> prefetch]
               kept == Live(AfterDrain[a], Cutoff)
    <2>1. st \in Stamp /\ st.at = now
      BY <1>0, <1>3 DEF Stamp
    <2>2. \A b \in Accounts : spent'[b] = IF b = a THEN Append(kept, st) ELSE AfterDrain[b]
      BY <1>3, GrantedIs
    <2>3. kept \in Seq(Stamp) /\ InOrder(kept) /\ UpTo(kept, now)
      BY KeptInOrder
    <2>4. /\ misfits' = misfits /\ now' = now
          /\ \A b \in Accounts : \A t \in 0..MaxTime :
               made'[b][t] = IF b = a /\ t <= now THEN made[b][t] + 1 ELSE made[b][t]
      BY <1>0, <1>3 DEF Grant, Counted
    <2>5. \A t \in 0..MaxTime : Cutoff < t => Later(kept, t) = Later(spent[a], t)
      BY <1>1, LaterKept
    <2> HIDE DEF st, kept
    <2>6. \A t \in 0..MaxTime :
            Later(Append(kept, st), t) = IF t <= now THEN Later(kept, t) + 1 ELSE Later(kept, t)
      BY <1>1, <2>1, <2>3, LaterAppend
    <2>7. Cutoff' = Cutoff
      BY <2>4 DEF Cutoff
    <2>8. ASSUME NEW b \in Accounts, NEW t \in 0..MaxTime, Cutoff < t
          PROVE  made'[b][t] <= Later(spent'[b], t) + misfits'[b]
      <3>1. made[b][t] <= Later(spent[b], t) + misfits[b]
        BY <2>8 DEF OverInv
      <3>2. CASE b = a
        <4>1. Later(spent'[b], t) = IF t <= now THEN Later(spent[b], t) + 1 ELSE Later(spent[b], t)
          BY <2>2, <2>5, <2>6, <2>8, <3>2
        <4>2. made'[b][t] = (IF t <= now THEN made[b][t] + 1 ELSE made[b][t]) /\ misfits'[b] = misfits[b]
          BY <2>4, <3>2
        <4>3. Later(spent[b], t) \in Int /\ made[b][t] \in Int /\ misfits[b] \in Nat
          BY <1>2
        <4>4. CASE t <= now
          BY <3>1, <4>1, <4>2, <4>3, <4>4
        <4>5. CASE ~(t <= now)
          BY <3>1, <4>1, <4>2, <4>3, <4>5
        <4> QED BY <4>4, <4>5
      <3>3. CASE b # a
        <4>1. Later(spent'[b], t) = Later(spent[b], t)
          BY <1>1, <2>2, <2>8, <3>3, LaterAfterDrain
        <4> QED BY <2>4, <3>1, <3>3, <4>1
      <3> QED BY <3>2, <3>3
    <2> QED BY <2>7, <2>8 DEF OverInv, Later, DrainedCount
  <1>4. ASSUME NEW c \in Callers, NEW a \in Accounts, NEW prefetch \in BOOLEAN,
               Refuse(c, a, prefetch)
        PROVE  OverInv'
    <2>1. \A b \in Accounts :
            spent'[b] = IF b = a THEN Live(AfterDrain[a], Cutoff) ELSE AfterDrain[b]
      BY <1>4, RefusedIs
    <2>2. misfits' = misfits /\ made' = made /\ Cutoff' = Cutoff
      BY <1>4 DEF Refuse, Cutoff
    <2>3. ASSUME NEW b \in Accounts, NEW t \in 0..MaxTime, Cutoff < t
          PROVE  Later(spent'[b], t) = Later(spent[b], t)
      <3>1. Later(AfterDrain[b], t) = Later(spent[b], t)
        BY <1>1, <2>3, LaterAfterDrain
      <3>2. Later(Live(AfterDrain[b], Cutoff), t) = Later(spent[b], t)
        BY <1>1, <2>3, LaterKept
      <3> QED BY <2>1, <3>1, <3>2
    <2> QED BY <2>2, <2>3 DEF OverInv, Later, DrainedCount
  <1>5. ASSUME NEW h \in held, Refund(h)
        PROVE  OverInv'
    <2>1. h.acct \in Accounts /\ h.at \in 0..MaxTime
      BY DEF TypeOK, Held
    <2>2. \A b \in Accounts : spent'[b] = IF b = h.acct THEN Popped(spent[b]) ELSE spent[b]
      BY <1>0, <1>5, RefundedIs
    <2>3. /\ Cutoff' = Cutoff
          /\ \A b \in Accounts :
               misfits'[b] = IF b = h.acct /\ Misfit(spent[b], h) THEN misfits[b] + 1 ELSE misfits[b]
          /\ \A b \in Accounts : \A t \in 0..MaxTime :
               made'[b][t] = IF b = h.acct /\ t <= h.at THEN made[b][t] - 1 ELSE made[b][t]
      BY <1>0, <1>2, <1>5, <2>1 DEF Refund, Counted, Cutoff
    <2>4. ASSUME NEW b \in Accounts, NEW t \in 0..MaxTime, Cutoff < t
          PROVE  made'[b][t] <= Later(spent'[b], t) + misfits'[b]
      <3>1. made[b][t] <= Later(spent[b], t) + misfits[b]
        BY <2>4 DEF OverInv
      <3>2. CASE b # h.acct
        BY <2>2, <2>3, <3>1, <3>2
      <3>3. CASE b = h.acct /\ spent[b] = <<>>
        <4>1. Later(spent'[b], t) = Later(spent[b], t)
          BY <2>2, <3>3 DEF Popped
        <4>2. made'[b][t] <= made[b][t] /\ misfits'[b] = misfits[b] /\ made'[b][t] \in Int
          BY <1>2, <2>3, <3>3 DEF Misfit
        <4> QED BY <1>2, <3>1, <4>1, <4>2
      <3>4. CASE b = h.acct /\ spent[b] # <<>>
        <4> DEFINE last == spent[b][Len(spent[b])].at
        <4>1. Later(spent'[b], t) = IF t <= last THEN Later(spent[b], t) - 1 ELSE Later(spent[b], t)
          BY <1>0, <1>1, <2>2, <3>4, LaterPopped
        <4>2. misfits'[b] = IF last # h.at THEN misfits[b] + 1 ELSE misfits[b]
          BY <2>3, <3>4 DEF Misfit
        <4>3. made'[b][t] = IF t <= h.at THEN made[b][t] - 1 ELSE made[b][t]
          BY <2>3, <3>4
        <4>4. last \in Nat
          <5>1. Len(spent[b]) \in 1..Len(spent[b])
            BY <1>0, <3>4
          <5> QED BY <1>0, <5>1, StampTimes
        <4> HIDE DEF last
        <4> QED BY <1>2, <2>1, <3>1, <4>1, <4>2, <4>3, <4>4
      <3> QED BY <3>2, <3>3, <3>4
    <2> QED BY <2>3, <2>4 DEF OverInv, Later, DrainedCount
  <1>6. ASSUME Tick
        PROVE  OverInv'
    <2>1. UNCHANGED <<spent, made, misfits>> /\ Cutoff < Cutoff'
      BY <1>0, <1>6 DEF Tick, Cutoff
    <2>2. Cutoff' \in Int
      BY <1>0, <1>6 DEF Tick, Cutoff
    <2>3. \A t \in 0..MaxTime : Cutoff' < t => Cutoff < t
      BY <1>0, <2>1, <2>2
    <2> QED BY <2>1, <2>3 DEF OverInv, Later, DrainedCount
  <1>7. ASSUME Restart
        PROVE  OverInv'
    <2>1. \A a \in Accounts : \A t \in 0..MaxTime :
            made'[a][t] = 0 /\ misfits'[a] = 0 /\ spent'[a] = <<>>
      BY <1>7 DEF Restart
    <2>2. \A t \in 0..MaxTime : Later(<<>>, t) = 0
      BY <1>1, LaterEmpty
    <2>3. \A a \in Accounts : \A t \in 0..MaxTime :
            made'[a][t] <= Later(spent'[a], t) + misfits'[a]
      BY <2>1, <2>2
    <2> QED BY <2>3 DEF OverInv, Later, DrainedCount
  <1>8. ASSUME UNCHANGED <<spent, now, made, misfits>>
        PROVE  OverInv'
    BY <1>8 DEF OverInv, Later, DrainedCount, Cutoff
  <1>9. ASSUME NEW h \in held, Keep(h)
        PROVE  OverInv'
    BY <1>8, <1>9 DEF Keep
  <1>10. ASSUME UNCHANGED vars
         PROVE  OverInv'
    BY <1>8, <1>10 DEF vars
  <1> QED BY <1>3, <1>4, <1>5, <1>6, <1>7, <1>9, <1>10 DEF Next

(* In one life of the process the adds a rolling window holds exceed the   *)
(* limit by no more than the refunds that removed a charge of another      *)
(* moment, however the takes and refunds of several callers interleave     *)
(* (take and refund of addbudget.go).                                      *)
THEOREM OvershootHolds == Spec => []OvershootBounded
PROOF
  <1>1. Init => OverInv
    <2> SUFFICES ASSUME Init PROVE OverInv
      OBVIOUS
    <2>1. \A a \in Accounts : \A t \in 0..MaxTime :
            made[a][t] = 0 /\ misfits[a] = 0 /\ spent[a] = <<>>
      BY DEF Init
    <2>2. \A t \in 0..MaxTime : Later(<<>>, t) = 0
      BY LaterEmpty
    <2> QED BY <2>1, <2>2 DEF OverInv
  <1>2. TypeOK /\ TimeInv /\ OverInv /\ [Next]_vars => OverInv'
    BY OverStep
  <1>3. TypeOK /\ WithinLimit /\ OverInv => OvershootBounded
    <2> SUFFICES ASSUME TypeOK, WithinLimit, OverInv, NEW a \in Accounts
                 PROVE  AddsInWindow(a) <= Limit + misfits[a]
      BY DEF OvershootBounded
    <2> DEFINE t == IF Cutoff < 0 THEN 0 ELSE Cutoff + 1
    <2>1. now \in 0..MaxTime /\ MaxTime \in Nat /\ Window \in Nat \ {0} /\ Limit \in Nat
      BY BoundAssumption, WindowAssumption, LimitAssumption DEF TypeOK
    <2>2. t \in 0..MaxTime /\ t \in Int /\ Cutoff < t
      BY <2>1 DEF Cutoff
    <2>3. AddsInWindow(a) = made[a][t]
      BY DEF AddsInWindow
    <2> HIDE DEF t
    <2>4. spent[a] \in Seq(Stamp) /\ misfits[a] \in Nat /\ made[a][t] \in Int
      BY <2>2 DEF TypeOK
    <2>5. made[a][t] <= Later(spent[a], t) + misfits[a]
      BY <2>2 DEF OverInv
    <2>6. Later(spent[a], t) \in Int /\ Later(spent[a], t) <= Len(spent[a])
      BY <2>2, <2>4, LaterBound
    <2>7. Len(spent[a]) <= Limit /\ Len(spent[a]) \in Nat
      BY <2>4 DEF WithinLimit
    <2> QED BY <2>1, <2>3, <2>4, <2>5, <2>6, <2>7
  <1> QED BY <1>1, <1>2, <1>3, TypeCorrect, TimeInvariant, LimitHolds, PTL DEF Spec
=============================================================================
