------------------------- MODULE TieredCacheProofs -------------------------
(***************************************************************************)
(* The refinement, for every set of keys and goroutines, every budget and  *)
(* every bound: TieredCache keeps what CachePromise promises.              *)
(*                                                                         *)
(* A step of the tiers is one step of the promise because what Get may     *)
(* still answer of a key, and what a restart may bring back, only shrink,  *)
(* but for the value of a put.  What remains is Retired: that nothing      *)
(* older than a put that returned alone is left.  Three facts carry it.    *)
(* A goroutine marked alone is the only one out on its key (Alone), so at  *)
(* its return nobody else holds a value of the key.  While it is out, the  *)
(* memory has nothing of the key older than its put (Newest).  And its     *)
(* return either has dealt with the file or has disabled persistence,      *)
(* after which the file is not read again in this process.                 *)
(*                                                                         *)
(* The types and the size of the volume stand on the same invariant.  A    *)
(* file's number belongs to no other file (Numbered), so of the files a    *)
(* sweep lists it leaves a budget at most, whatever other sweeps remove    *)
(* (Left).  Those the last listing did not see were written since, and     *)
(* written counted them but for those yet to be counted: until a sweep is  *)
(* due, less what sweeps reset, each once since that listing (Late).       *)
(***************************************************************************)
EXTENDS TieredCache, TLAPS, SequenceTheorems, FiniteSetTheorems

Cell == [key: Keys, ver: Nat, expires: Nat]
Val == [ver: Nat, expires: Nat]
Op == [at: {"have", "retire", "temp", "rename"}, key: Keys, v: Val,
       class: {"get", "volatile", "durable"}, alone: BOOLEAN]

Unique(s) == \A i, j \in DOMAIN s : s[i].key = s[j].key => i = j

Shape ==
  /\ now \in Nat /\ puts \in Nat
  /\ mem \in Seq(Cell) /\ Unique(mem)
  /\ disk \in [Keys -> Val]
  /\ op \in [Procs -> {Idle} \cup Op]
  /\ floor \in [Keys -> 0..puts] /\ kept \in [Keys -> 0..puts]

\* A put carries a number that was given out, and its class fits its place
Carries ==
  \A p \in Procs : op[p] # Idle =>
    /\ op[p].at = "have" => op[p].class = "get"
    /\ op[p].at \in {"temp", "rename"} => op[p].class = "durable"
    /\ op[p].at # "have" => op[p].v.ver \in 1..puts

Alone ==
  \A p, q \in Procs :
    op[p] # Idle /\ op[q] # Idle /\ op[p].key = op[q].key /\ op[p].alone => p = q

Newest ==
  \A p \in Procs, i \in DOMAIN mem :
    op[p] # Idle /\ op[p].alone /\ op[p].at # "have" /\ mem[i].key = op[p].key
      => mem[i].ver >= op[p].v.ver

(* What may be answered and what is stored, member by member. *)
InMem(k, e) ==
  \E i \in DOMAIN mem : mem[i].key = k /\ e = [ver |-> mem[i].ver, expires |-> mem[i].expires]
Carried(k, e, class) ==
  \E p \in Procs : op[p] # Idle /\ op[p].key = k /\ op[p].class = class /\ e = op[p].v
InFile(k, e) == disk[k] # NoFile /\ e = disk[k]

StoredIs(k, e) == InFile(k, e) \/ Carried(k, e, "durable")
VisibleIs(k, e) == InMem(k, e) \/ Carried(k, e, "get") \/ (~off /\ StoredIs(k, e))

Retired ==
  \A k \in Keys : \A e : /\ VisibleIs(k, e) => e.ver >= floor[k]
                         /\ StoredIs(k, e) => e.ver >= kept[k]

IInv == Shape /\ Carries /\ Alone /\ Newest /\ Retired

LEMMA VisibleMembers ==
  \A k, e : /\ e \in Visible(k) <=> VisibleIs(k, e)
            /\ e \in OnDisk(k) \union Held(k, {"durable"}) <=> StoredIs(k, e)
  BY DEF Visible, Live, InMemory, OnDisk, Held, Out, VisibleIs, StoredIs, InMem, Carried, InFile

LEMMA VisibleMembersNext ==
  \A k, e : /\ e \in Visible(k)' <=> VisibleIs(k, e)'
            /\ e \in (OnDisk(k) \union Held(k, {"durable"}))' <=> StoredIs(k, e)'
  BY DEF Visible, Live, InMemory, OnDisk, Held, Out, VisibleIs, StoredIs, InMem, Carried, InFile
-----------------------------------------------------------------------------
(* The memory tier's list. *)
LEMMA WithoutKey ==
  ASSUME mem \in Seq(Cell), Unique(mem), NEW k
  PROVE  /\ Without(k) \in Seq(Cell) /\ Unique(Without(k))
         /\ \A i \in DOMAIN Without(k) : Without(k)[i].key # k
         /\ \A i \in DOMAIN Without(k) : \E j \in DOMAIN mem : Without(k)[i] = mem[j]
PROOF
  <1>1. CASE InMemory(k) = {}
    <2>1. Without(k) = mem /\ \A i \in DOMAIN mem : mem[i].key # k
      BY <1>1 DEF Without, InMemory
    <2> QED BY <2>1
  <1>2. CASE InMemory(k) # {}
    <2> DEFINE n == CHOOSE i \in InMemory(k) : TRUE
               front == SubSeq(mem, 1, n - 1)
               back == SubSeq(mem, n + 1, Len(mem))
    <2>1. n \in 1..Len(mem) /\ mem[n].key = k /\ Len(mem) \in Nat
      BY <1>2 DEF InMemory
    <2>2. Without(k) = front \o back
      BY <1>2 DEF Without
    <2> HIDE DEF n
    <2>3. /\ front \in Seq(Cell) /\ Len(front) = n - 1
          /\ \A i \in 1..(n - 1) : front[i] = mem[i]
      BY <2>1
    <2>4. /\ back \in Seq(Cell) /\ Len(back) = Len(mem) - n
          /\ \A i \in 1..(Len(mem) - n) : back[i] = mem[n + i]
      BY <2>1
    <2> HIDE DEF front, back
    <2>5. /\ front \o back \in Seq(Cell) /\ Len(front \o back) = Len(mem) - 1
          /\ \A i \in 1..(Len(mem) - 1) :
               (front \o back)[i] = IF i <= n - 1 THEN front[i] ELSE back[i - (n - 1)]
      <3>1. /\ front \o back \in Seq(Cell) /\ Len(front \o back) = Len(front) + Len(back)
            /\ \A i \in 1..(Len(front) + Len(back)) :
                 (front \o back)[i] = IF i <= Len(front) THEN front[i] ELSE back[i - Len(front)]
        <4>1. front \in Seq(Cell) /\ back \in Seq(Cell)
          BY <2>3, <2>4
        <4> QED BY <4>1, ConcatProperties
      <3>2. Len(front) + Len(back) = Len(mem) - 1
        BY <2>1, <2>3, <2>4
      <3>3. Len(front) = n - 1
        BY <2>3
      <3> QED BY <3>1, <3>2, <3>3
    <2>6. \A i \in 1..(Len(mem) - 1) :
            (front \o back)[i] = mem[IF i < n THEN i ELSE i + 1]
      <3> SUFFICES ASSUME NEW i \in 1..(Len(mem) - 1)
                   PROVE  (front \o back)[i] = mem[IF i < n THEN i ELSE i + 1]
        OBVIOUS
      <3>1. CASE i < n
        <4>1. i \in 1..(n - 1) /\ i <= n - 1
          BY <2>1, <3>1
        <4> QED BY <2>3, <2>5, <3>1, <4>1
      <3>2. CASE ~(i < n)
        <4>1. ~(i <= n - 1) /\ i - (n - 1) \in 1..(Len(mem) - n) /\ n + (i - (n - 1)) = i + 1
          BY <2>1, <3>2
        <4> QED BY <2>4, <2>5, <3>2, <4>1
      <3> QED BY <3>1, <3>2
    <2>7. DOMAIN (front \o back) = 1..(Len(mem) - 1) /\ DOMAIN mem = 1..Len(mem)
      BY <2>5
    <2>8. \A i \in 1..(Len(mem) - 1) : \E j \in 1..Len(mem) :
            (front \o back)[i] = mem[j] /\ j # n /\ j = IF i < n THEN i ELSE i + 1
      <3> SUFFICES ASSUME NEW i \in 1..(Len(mem) - 1)
                   PROVE  LET j == IF i < n THEN i ELSE i + 1 IN j \in 1..Len(mem) /\ j # n
        BY <2>6
      <3> QED BY <2>1
    <2>9. Unique(front \o back)
      <3> SUFFICES ASSUME NEW i \in 1..(Len(mem) - 1), NEW j \in 1..(Len(mem) - 1),
                          (front \o back)[i].key = (front \o back)[j].key
                   PROVE  i = j
        BY <2>7 DEF Unique
      <3>1. PICK a \in 1..Len(mem) : (front \o back)[i] = mem[a] /\ a = IF i < n THEN i ELSE i + 1
        BY <2>8
      <3>2. PICK b \in 1..Len(mem) : (front \o back)[j] = mem[b] /\ b = IF j < n THEN j ELSE j + 1
        BY <2>8
      <3>3. a = b
        BY <2>7, <3>1, <3>2 DEF Unique
      <3> QED BY <2>1, <3>1, <3>2, <3>3
    <2>10. \A i \in DOMAIN (front \o back) :
             /\ (front \o back)[i].key # k
             /\ \E j \in DOMAIN mem : (front \o back)[i] = mem[j]
      <3> SUFFICES ASSUME NEW i \in 1..(Len(mem) - 1)
                   PROVE  /\ (front \o back)[i].key # k
                          /\ \E j \in DOMAIN mem : (front \o back)[i] = mem[j]
        BY <2>7
      <3>1. PICK j \in 1..Len(mem) : (front \o back)[i] = mem[j] /\ j # n
        BY <2>8
      <3>2. mem[j].key # mem[n].key
        BY <2>1, <2>7, <3>1 DEF Unique
      <3> QED BY <2>1, <2>7, <3>1, <3>2
    <2> QED BY <2>2, <2>5, <2>9, <2>10
  <1> QED BY <1>1, <1>2

LEMMA InFront ==
  ASSUME mem \in Seq(Cell), Unique(mem), NEW k, NEW c \in Cell, c.key = k
  PROVE  LET s == <<c>> \o Without(k) IN
         /\ s \in Seq(Cell) /\ Unique(s)
         /\ \A i \in DOMAIN s : s[i] = c \/ (s[i].key # k /\ \E j \in DOMAIN mem : s[i] = mem[j])
PROOF
  <1> DEFINE w == Without(k)
             s == <<c>> \o w
  <1>1. /\ w \in Seq(Cell) /\ Unique(w)
        /\ \A i \in DOMAIN w : w[i].key # k /\ \E j \in DOMAIN mem : w[i] = mem[j]
    BY WithoutKey
  <1> HIDE DEF w
  <1>2. /\ s \in Seq(Cell) /\ DOMAIN s = 1..(Len(w) + 1) /\ DOMAIN w = 1..Len(w) /\ Len(w) \in Nat
        /\ s[1] = c /\ \A i \in 2..(Len(w) + 1) : s[i] = w[i - 1] /\ i - 1 \in DOMAIN w
    BY <1>1
  <1> HIDE DEF s
  <1>3. Unique(s)
    <2> SUFFICES ASSUME NEW i \in DOMAIN s, NEW j \in DOMAIN s, s[i].key = s[j].key PROVE i = j
      BY DEF Unique
    <2>1. i = 1 \/ i \in 2..(Len(w) + 1)
      BY <1>2
    <2>2. j = 1 \/ j \in 2..(Len(w) + 1)
      BY <1>2
    <2>3. CASE i = 1 \/ j = 1
      <3>1. s[i].key = k /\ s[j].key = k
        BY <1>2, <2>3
      <3>2. ASSUME NEW l \in 2..(Len(w) + 1)
            PROVE  s[l].key # k
        <4>1. s[l] = w[l - 1] /\ l - 1 \in DOMAIN w
          BY <1>2
        <4> QED BY <1>1, <4>1
      <3> QED BY <2>1, <2>2, <3>1, <3>2
    <2>4. CASE i \in 2..(Len(w) + 1) /\ j \in 2..(Len(w) + 1)
      <3>1. /\ i - 1 \in DOMAIN w /\ s[i] = w[i - 1]
            /\ j - 1 \in DOMAIN w /\ s[j] = w[j - 1]
        BY <1>2, <2>4
      <3>2. w[i - 1].key = w[j - 1].key
        BY <3>1
      <3>3. i - 1 = j - 1
        BY <1>1, <3>1, <3>2 DEF Unique
      <3> QED BY <2>4, <3>3
    <2> QED BY <2>1, <2>2, <2>3, <2>4
  <1>4. \A i \in DOMAIN s : s[i] = c \/ (s[i].key # k /\ \E j \in DOMAIN mem : s[i] = mem[j])
    <2> SUFFICES ASSUME NEW i \in DOMAIN s
                 PROVE  s[i] = c \/ (s[i].key # k /\ \E j \in DOMAIN mem : s[i] = mem[j])
      OBVIOUS
    <2>1. i = 1 \/ i \in 2..(Len(w) + 1)
      BY <1>2
    <2>2. ASSUME i \in 2..(Len(w) + 1)
          PROVE  s[i].key # k /\ \E j \in DOMAIN mem : s[i] = mem[j]
      <3>1. i - 1 \in DOMAIN w /\ s[i] = w[i - 1]
        BY <1>2, <2>2
      <3> QED BY <1>1, <3>1
    <2> QED BY <1>2, <2>1, <2>2
  <1> QED BY <1>2, <1>3, <1>4 DEF s, w

LEMMA AfterMemPut ==
  ASSUME mem \in Seq(Cell), Unique(mem), NEW k \in Keys, NEW v \in Val, MemPut(k, v)
  PROVE  /\ mem' \in Seq(Cell) /\ Unique(mem')
         /\ \A i \in DOMAIN mem' : \/ mem'[i] = [key |-> k, ver |-> v.ver, expires |-> v.expires]
                                   \/ mem'[i].key # k /\ \E j \in DOMAIN mem : mem'[i] = mem[j]
PROOF
  <1> DEFINE c == [key |-> k, ver |-> v.ver, expires |-> v.expires]
             s == <<c>> \o Without(k)
  <1>1. c \in Cell /\ c.key = k
    BY DEF Cell, Val
  <1>2. mem' = Trimmed(s)
    BY DEF MemPut
  <1> HIDE DEF c
  <1>3. /\ s \in Seq(Cell) /\ Unique(s)
        /\ \A i \in DOMAIN s : s[i] = c \/ (s[i].key # k /\ \E j \in DOMAIN mem : s[i] = mem[j])
    BY <1>1, InFront
  <1> HIDE DEF s
  <1>4. PICK n \in 0..Len(s) : mem' = SubSeq(s, 1, n)
    <2>1. Len(s) \in Nat /\ MemBudget \in Nat
      BY <1>3, TieredAssumption
    <2> QED BY <1>2, <2>1 DEF Trimmed
  <1>5. /\ mem' \in Seq(Cell) /\ DOMAIN mem' = 1..n /\ \A i \in 1..n : mem'[i] = s[i]
        /\ 1..n \subseteq DOMAIN s
    BY <1>3, <1>4
  <1>6. Unique(mem')
    BY <1>3, <1>5 DEF Unique
  <1> QED BY <1>3, <1>5, <1>6 DEF c
-----------------------------------------------------------------------------
(* From members to the steps of the promise. *)
Shrinks ==
  \A j \in Keys : \A e : /\ VisibleIs(j, e)' => VisibleIs(j, e)
                         /\ StoredIs(j, e)' => StoredIs(j, e)

LEMMA ShrinkingSets ==
  ASSUME Shrinks, NEW j \in Keys
  PROVE  /\ Visible(j)' \subseteq Visible(j)
         /\ (OnDisk(j) \union Held(j, {"durable"}))' \subseteq OnDisk(j) \union Held(j, {"durable"})
  BY VisibleMembers, VisibleMembersNext DEF Shrinks

LEMMA Loses ==
  ASSUME Shrinks, said' = Silence, UNCHANGED <<now, puts, floor, kept>>
  PROVE  Promise!PLose
  BY ShrinkingSets DEF Promise!PLose, Promise!Silence, Silence

LEMMA Answers ==
  ASSUME Shrinks, NEW k \in Keys, NEW e, VisibleIs(k, e), now <= e.expires, said' = <<k, e.ver>>,
         UNCHANGED <<now, puts, floor, kept>>
  PROVE  Promise!PAnswer(k)
PROOF
  <1>1. e \in Visible(k)
    BY VisibleMembers
  <1> QED BY <1>1, ShrinkingSets DEF Promise!PAnswer, Promise!NoMoreThan

LEMMA Returns ==
  ASSUME Shrinks, NEW k \in Keys, NEW v \in 1..puts, said' = Silence, UNCHANGED <<now, puts>>,
         floor' = [floor EXCEPT ![k] = v], kept' \in {kept, [kept EXCEPT ![k] = v]}
  PROVE  Promise!PReturn(k, v)
  BY ShrinkingSets DEF Promise!PReturn, Promise!NoMoreThan, Promise!Silence, Silence

LEMMA Puts ==
  ASSUME NEW k \in Keys, NEW life \in Lives, NEW durable \in BOOLEAN,
         puts' = puts + 1, said' = Silence, UNCHANGED <<now, kept>>,
         floor' \in {floor, [floor EXCEPT ![k] = puts + 1]},
         \A j \in Keys : \A e :
           LET new == j = k /\ e = [ver |-> puts + 1, expires |-> now + life] IN
           /\ VisibleIs(j, e)' => VisibleIs(j, e) \/ new
           /\ StoredIs(j, e)' => StoredIs(j, e) \/ (new /\ durable)
  PROVE  Promise!PPut(k, life, durable)
PROOF
  <1> DEFINE v == [ver |-> puts + 1, expires |-> now + life]
  <1>1. \A j \in Keys :
          /\ Visible(j)' \subseteq Visible(j) \union (IF j = k THEN {v} ELSE {})
          /\ (OnDisk(j) \union Held(j, {"durable"}))'
               \subseteq (OnDisk(j) \union Held(j, {"durable"}))
                         \union (IF j = k THEN (IF durable THEN {v} ELSE {}) ELSE {})
    BY VisibleMembers, VisibleMembersNext
  <1> QED BY <1>1 DEF Promise!PPut, Promise!NoMoreThan, Promise!Value, Promise!Silence, Silence

LEMMA RetiredStays ==
  ASSUME IInv, Shrinks, UNCHANGED <<floor, kept>>
  PROVE  Retired'
  BY DEF IInv, Retired, Shrinks

LEMMA RetiredIsPromised ==
  ASSUME Retired'
  PROVE  Promise!Retired'
  BY VisibleMembersNext DEF Retired, Promise!Retired
-----------------------------------------------------------------------------
(* The steps that leave every goroutine's work as it is. *)
LEMMA OpIdle == \A o \in {Idle} \cup Op : o # Idle <=> o \in Op
  BY DEF Idle, Op

LEMMA OutOfTheWay ==
  ASSUME IInv, UNCHANGED <<puts, op, floor, kept>>, now' \in Nat, said' = Silence,
         mem' = mem, disk' \in [Keys -> Val],
         \A k \in Keys : disk'[k] \in {disk[k], NoFile}, off' = off
  PROVE  IInv' /\ Shrinks
PROOF
  <1>1. Shape' /\ Carries' /\ Alone' /\ Newest'
    BY DEF IInv, Shape, Carries, Alone, Newest
  <1>2. Shrinks
    BY DEF Shrinks, VisibleIs, StoredIs, InMem, Carried, InFile
  <1> QED BY <1>1, <1>2, RetiredStays DEF IInv

LEMMA SweepStep ==
  ASSUME IInv, NEW s \in Sweepers,
         Look(s) \/ ResetWritten(s) \/ Swept(s) \/ \E k \in Keys : RemoveFile(s, k)
  PROVE  IInv' /\ Promise!PLose
PROOF
  <1>1. /\ UNCHANGED <<now, puts, op, floor, kept, mem, off>> /\ said' = Silence
    BY DEF Look, RemoveFile, ResetWritten, Swept, history
  <1>2. disk' \in [Keys -> Val] /\ \A k \in Keys : disk'[k] \in {disk[k], NoFile}
    <2>1. disk \in [Keys -> Val] /\ NoFile \in Val
      BY DEF IInv, Shape, Val, NoFile
    <2>2. disk' = disk \/ \E k \in Keys : disk' = [disk EXCEPT ![k] = NoFile]
      BY DEF Look, RemoveFile, ResetWritten, Swept
    <2> QED BY <2>1, <2>2
  <1>3. now' \in Nat
    BY <1>1 DEF IInv, Shape
  <1> QED BY <1>1, <1>2, <1>3, OutOfTheWay, Loses

LEMMA CountStep ==
  ASSUME IInv, NEW n \in uncounted, Count(n)
  PROVE  IInv' /\ Promise!PLose
PROOF
  <1>1. /\ UNCHANGED <<now, puts, op, floor, kept, mem, off, disk>> /\ said' = Silence
    BY DEF Count, history
  <1>2. disk' \in [Keys -> Val] /\ (\A k \in Keys : disk'[k] \in {disk[k], NoFile}) /\ now' \in Nat
    BY <1>1 DEF IInv, Shape
  <1> QED BY <1>1, <1>2, OutOfTheWay, Loses

LEMMA TickStep ==
  ASSUME IInv, Tick
  PROVE  IInv' /\ Promise!PTick
PROOF
  <1>1. /\ UNCHANGED <<puts, op, floor, kept, mem, off, disk>> /\ said' = Silence /\ now' = now + 1
    BY DEF Tick, history
  <1>2. now' \in Nat /\ disk' \in [Keys -> Val]
    BY <1>1 DEF IInv, Shape
  <1>3. IInv'
    BY <1>1, <1>2, OutOfTheWay
  <1>4. \A k \in Keys : /\ Visible(k)' = Visible(k)
                        /\ (OnDisk(k) \union Held(k, {"durable"}))' = OnDisk(k) \union Held(k, {"durable"})
    BY <1>1 DEF Visible, Live, InMemory, OnDisk, Held, Out
  <1> QED BY <1>1, <1>3, <1>4 DEF Promise!PTick, Promise!Silence, Silence

(* Get from the memory, and a Get that finds its file or none. *)
LEMMA GetHitStep ==
  ASSUME IInv, NEW k \in Keys, GetHit(k)
  PROVE  IInv' /\ Promise!PAnswer(k)
PROOF
  <1>1. PICK i \in InMemory(k) :
          /\ ~Lapsed(mem[i]) /\ mem' = <<mem[i]>> \o Without(k) /\ said' = <<k, mem[i].ver>>
          /\ UNCHANGED <<now, off, disk, op, puts, floor, kept>>
    BY DEF GetHit, history
  <1>2. i \in DOMAIN mem /\ mem[i].key = k /\ mem[i] \in Cell /\ mem \in Seq(Cell) /\ Unique(mem)
        /\ now \in Nat
    BY <1>1 DEF IInv, Shape, InMemory
  <1>3. /\ mem' \in Seq(Cell) /\ Unique(mem')
        /\ \A n \in DOMAIN mem' : mem'[n] = mem[i]
                                  \/ (mem'[n].key # k /\ \E j \in DOMAIN mem : mem'[n] = mem[j])
    <2>1. PICK c \in Cell : c = mem[i] /\ c.key = k
      BY <1>2
    <2>2. mem' = <<c>> \o Without(k)
      BY <1>1, <2>1
    <2> DEFINE s == <<c>> \o Without(k)
    <2>3. /\ s \in Seq(Cell) /\ Unique(s)
          /\ \A n \in DOMAIN s : s[n] = c \/ (s[n].key # k /\ \E j \in DOMAIN mem : s[n] = mem[j])
      BY <1>2, <2>1, InFront
    <2> HIDE DEF s
    <2>4. mem' = s
      BY <2>2 DEF s
    <2> QED BY <2>1, <2>3, <2>4 DEF Unique
  <1>4. \A n \in DOMAIN mem' : \E j \in DOMAIN mem : mem'[n] = mem[j]
    BY <1>2, <1>3
  <1>5. Shape' /\ Carries' /\ Alone' /\ Newest'
    <2>1. Shape'
      BY <1>1, <1>3 DEF IInv, Shape
    <2>2. Carries' /\ Alone'
      BY <1>1 DEF IInv, Carries, Alone
    <2>3. Newest'
      BY <1>1, <1>4 DEF IInv, Newest
    <2> QED BY <2>1, <2>2, <2>3
  <1>6. Shrinks
    BY <1>1, <1>4 DEF Shrinks, VisibleIs, StoredIs, InMem, Carried, InFile
  <1> DEFINE e == [ver |-> mem[i].ver, expires |-> mem[i].expires]
  <1>7. VisibleIs(k, e) /\ now <= e.expires /\ said' = <<k, e.ver>>
    <2>1. now <= mem[i].expires
      BY <1>1, <1>2 DEF Lapsed, Cell
    <2>2. InMem(k, e)
      BY <1>2 DEF InMem
    <2> QED BY <1>1, <2>1, <2>2 DEF VisibleIs
  <1>8. UNCHANGED <<now, puts, floor, kept>>
    BY <1>1
  <1>9. Promise!PAnswer(k)
    <2> HIDE DEF e
    <2> QED BY <1>6, <1>7, <1>8, Answers
  <1> QED BY <1>1, <1>5, <1>6, <1>9, RetiredStays DEF IInv

(* A goroutine starts on a key: it joins the others there, none of them    *)
(* alone any more.                                                         *)
LEMMA Started ==
  ASSUME IInv, NEW p \in Procs, NEW k \in Keys, NEW o \in Op, op[p] = Idle, o.key = k,
         Start(p, k, o)
  PROVE  /\ op' \in [Procs -> {Idle} \cup Op] /\ Alone'
         /\ op'[p] \in Op /\ op'[p].at = o.at /\ op'[p].key = k /\ op'[p].v = o.v
         /\ op'[p].class = o.class /\ (op'[p].alone => Out(k) = {})
         /\ \A q \in Procs \ {p} :
              \/ op'[q] = op[q] /\ (op[q] = Idle \/ op[q].key # k)
              \/ /\ op[q] \in Op /\ op[q].key = k /\ op'[q] \in Op /\ ~op'[q].alone
                 /\ op'[q].at = op[q].at /\ op'[q].key = k /\ op'[q].v = op[q].v
                 /\ op'[q].class = op[q].class
PROOF
  <1> DEFINE alone == (Out(k) = {})
             new == [o EXCEPT !.alone = alone]
  <1>1. op \in [Procs -> {Idle} \cup Op]
    BY DEF IInv, Shape
  <1>2. op' = [q \in Procs |-> IF q = p THEN new
                               ELSE IF q \in Out(k) THEN [op[q] EXCEPT !.alone = FALSE] ELSE op[q]]
    BY DEF Start
  <1>3. /\ new \in Op /\ new.at = o.at /\ new.key = k /\ new.v = o.v /\ new.class = o.class
        /\ (new.alone => Out(k) = {})
    <2>1. alone \in BOOLEAN
      OBVIOUS
    <2>2. new.alone = alone
      BY DEF Op
    <2>3. new.alone => Out(k) = {}
      BY <2>2
    <2> HIDE DEF alone
    <2> QED BY <2>1, <2>3 DEF Op
  <1> HIDE DEF new
  <1>4. ASSUME NEW q \in Procs, q \in Out(k)
        PROVE  LET r == [op[q] EXCEPT !.alone = FALSE] IN
               /\ op[q] \in Op /\ op[q].key = k /\ r \in Op /\ ~r.alone /\ r.at = op[q].at
               /\ r.key = k /\ r.v = op[q].v /\ r.class = op[q].class
    <2>1. op[q] \in Op /\ op[q].key = k
      BY <1>1, <1>4, OpIdle DEF Out
    <2> QED BY <2>1 DEF Op
  <1>5. \A q \in Procs : q \notin Out(k) <=> (op[q] = Idle \/ op[q].key # k)
    BY DEF Out
  <1>6. op'[p] = new
    BY <1>2
  <1>7. \A q \in Procs \ {p} :
          op'[q] = IF q \in Out(k) THEN [op[q] EXCEPT !.alone = FALSE] ELSE op[q]
    BY <1>2
  <1>8. \A q \in Procs \ {p} :
          \/ op'[q] = op[q] /\ (op[q] = Idle \/ op[q].key # k)
          \/ /\ op[q] \in Op /\ op[q].key = k /\ op'[q] \in Op /\ ~op'[q].alone
             /\ op'[q].at = op[q].at /\ op'[q].key = k /\ op'[q].v = op[q].v
             /\ op'[q].class = op[q].class
    <2> SUFFICES ASSUME NEW q \in Procs \ {p}
                 PROVE  \/ op'[q] = op[q] /\ (op[q] = Idle \/ op[q].key # k)
                        \/ /\ op[q] \in Op /\ op[q].key = k /\ op'[q] \in Op /\ ~op'[q].alone
                           /\ op'[q].at = op[q].at /\ op'[q].key = k /\ op'[q].v = op[q].v
                           /\ op'[q].class = op[q].class
      OBVIOUS
    <2>1. CASE q \in Out(k)
      <3>1. op'[q] = [op[q] EXCEPT !.alone = FALSE]
        BY <1>7, <2>1
      <3> QED BY <1>4, <2>1, <3>1
    <2>2. CASE q \notin Out(k)
      BY <1>5, <1>7, <2>2
    <2> QED BY <2>1, <2>2
  <1>9. op' \in [Procs -> {Idle} \cup Op]
    <2>1. \A q \in Procs : op'[q] \in {Idle} \cup Op
      BY <1>1, <1>3, <1>6, <1>8
    <2> QED BY <1>2, <2>1
  <1>10. Alone'
    <2> SUFFICES ASSUME NEW a \in Procs, NEW b \in Procs, op'[a] # Idle, op'[b] # Idle,
                        op'[a].key = op'[b].key, op'[a].alone, a # b
                 PROVE  FALSE
      BY DEF Alone
    <2>1. CASE a = p
      <3>1. Out(k) = {} /\ op'[b].key = k
        BY <1>3, <1>6, <2>1
      <3>2. op[b] = Idle \/ op[b].key # k
        BY <1>5, <3>1
      <3>3. op'[b] = op[b]
        BY <1>8, <2>1, <3>2, OpIdle
      <3> QED BY <3>1, <3>2, <3>3
    <2>2. CASE a # p
      <3>1. op'[a] = op[a] /\ op[a].key # k
        BY <1>8, <2>2
      <3>2. b # p
        BY <1>3, <1>6, <3>1
      <3>3. op'[b] = op[b]
        BY <1>8, <3>1, <3>2
      <3> QED BY <3>1, <3>3 DEF IInv, Alone
    <2> QED BY <2>1, <2>2
  <1> QED BY <1>3, <1>6, <1>8, <1>9, <1>10

LEMMA StartedCarries ==
  ASSUME IInv, NEW p \in Procs, NEW k \in Keys, NEW o \in Op, op[p] = Idle, o.key = k,
         Start(p, k, o)
  PROVE  \A j, e, class : Carried(j, e, class)' =>
           Carried(j, e, class) \/ (j = k /\ e = o.v /\ class = o.class)
PROOF
  <1>1. /\ op'[p].key = k /\ op'[p].v = o.v /\ op'[p].class = o.class
        /\ \A q \in Procs \ {p} :
             \/ op'[q] = op[q] /\ (op[q] = Idle \/ op[q].key # k)
             \/ /\ op[q] \in Op /\ op[q].key = k /\ op'[q] \in Op /\ ~op'[q].alone
                /\ op'[q].at = op[q].at /\ op'[q].key = k /\ op'[q].v = op[q].v
                /\ op'[q].class = op[q].class
    BY Started
  <1> SUFFICES ASSUME NEW j, NEW e, NEW class, NEW q \in Procs,
                      op'[q] # Idle, op'[q].key = j, op'[q].class = class, e = op'[q].v
               PROVE  Carried(j, e, class) \/ (j = k /\ e = o.v /\ class = o.class)
    BY DEF Carried
  <1>2. CASE q = p
    BY <1>1, <1>2
  <1>3. CASE q # p
    <2>1. op[q] # Idle /\ op[q].key = j /\ op[q].class = class /\ e = op[q].v
      BY <1>1, <1>3, OpIdle
    <2> QED BY <2>1 DEF Carried
  <1> QED BY <1>2, <1>3

(* A goroutine returns. *)
LEMMA Stopped ==
  ASSUME IInv, NEW p \in Procs, op[p] # Idle, op' = [op EXCEPT ![p] = Idle]
  PROVE  /\ op' \in [Procs -> {Idle} \cup Op] /\ Alone'
         /\ \A q \in Procs : op'[q] # Idle => q # p /\ op'[q] = op[q]
         /\ \A j, e, class : Carried(j, e, class)' => Carried(j, e, class)
PROOF
  <1>1. op \in [Procs -> {Idle} \cup Op]
    BY DEF IInv, Shape
  <1>2. \A q \in Procs : op'[q] # Idle => q # p /\ op'[q] = op[q]
    BY <1>1
  <1>3. op' \in [Procs -> {Idle} \cup Op]
    BY <1>1
  <1>4. Alone'
    BY <1>2 DEF IInv, Alone
  <1>5. \A j, e, class : Carried(j, e, class)' => Carried(j, e, class)
    BY <1>2 DEF Carried
  <1> QED BY <1>2, <1>3, <1>4, <1>5

LEMMA GetReadStep ==
  ASSUME IInv, NEW p \in Procs, NEW k \in Keys, GetRead(p, k)
  PROVE  IInv' /\ Promise!PLose
PROOF
  <1>1. /\ op[p] = Idle /\ mem' = Without(k) /\ said' = Silence
        /\ UNCHANGED <<now, puts, floor, kept, off, disk>>
    BY DEF GetRead, history
  <1>2. /\ mem' \in Seq(Cell) /\ Unique(mem')
        /\ \A i \in DOMAIN mem' : \E j \in DOMAIN mem : mem'[i] = mem[j]
    BY <1>1, WithoutKey DEF IInv, Shape
  <1>3. \A j, e : InMem(j, e)' => InMem(j, e)
    BY <1>2 DEF InMem
  <1>4. CASE UNCHANGED op
    <2>1. Shape'
      BY <1>1, <1>2, <1>4 DEF IInv, Shape
    <2>2. Carries' /\ Alone'
      BY <1>1, <1>4 DEF IInv, Carries, Alone
    <2>3. Newest'
      BY <1>2, <1>4 DEF IInv, Newest
    <2>4. Shrinks
      BY <1>1, <1>3, <1>4 DEF Shrinks, VisibleIs, StoredIs, Carried, InFile
    <2> QED BY <1>1, <2>1, <2>2, <2>3, <2>4, RetiredStays, Loses DEF IInv
  <1>5. CASE ~UNCHANGED op
    <2> DEFINE o == [at |-> "have", key |-> k, v |-> disk[k], class |-> "get", alone |-> TRUE]
    <2>1. ~off /\ disk[k] # NoFile /\ Start(p, k, o)
      BY <1>5 DEF GetRead
    <2>2. disk[k] \in Val
      BY DEF IInv, Shape
    <2>3. o \in Op /\ o.at = "have" /\ o.key = k /\ o.v = disk[k] /\ o.class = "get"
      BY <2>2 DEF Op
    <2> HIDE DEF o
    <2>4. /\ op' \in [Procs -> {Idle} \cup Op] /\ Alone'
          /\ op'[p] \in Op /\ op'[p].at = "have" /\ op'[p].class = "get"
          /\ \A q \in Procs \ {p} :
               \/ op'[q] = op[q] /\ (op[q] = Idle \/ op[q].key # k)
               \/ /\ op[q] \in Op /\ op[q].key = k /\ op'[q] \in Op /\ ~op'[q].alone
                  /\ op'[q].at = op[q].at /\ op'[q].key = k /\ op'[q].v = op[q].v
                  /\ op'[q].class = op[q].class
      BY <1>1, <2>1, <2>3, Started
    <2>5. Shape'
      BY <1>1, <1>2, <2>4 DEF IInv, Shape
    <2>6. Carries'
      BY <1>1, <2>4, OpIdle DEF IInv, Carries
    <2>7. Newest'
      <3> SUFFICES ASSUME NEW q \in Procs, NEW i \in DOMAIN mem', op'[q] # Idle, op'[q].alone,
                          op'[q].at # "have", mem'[i].key = op'[q].key
                   PROVE  mem'[i].ver >= op'[q].v.ver
        BY DEF Newest
      <3>1. op'[q] = op[q]
        BY <2>4
      <3>2. PICK j \in DOMAIN mem : mem'[i] = mem[j]
        BY <1>2
      <3> QED BY <3>1, <3>2 DEF IInv, Newest
    <2>8. Shrinks
      <3>1. \A j, e, class : Carried(j, e, class)' =>
              Carried(j, e, class) \/ (j = k /\ e = disk[k] /\ class = "get")
        BY <1>1, <2>1, <2>3, StartedCarries
      <3>2. \A j, e : StoredIs(j, e)' => StoredIs(j, e)
        BY <1>1, <3>1 DEF StoredIs, InFile
      <3>3. \A e : e = disk[k] => VisibleIs(k, e)
        BY <2>1 DEF VisibleIs, StoredIs, InFile
      <3>4. \A j, e : VisibleIs(j, e)' => VisibleIs(j, e)
        BY <1>1, <1>3, <3>1, <3>2, <3>3 DEF VisibleIs
      <3> QED BY <3>2, <3>4 DEF Shrinks
    <2> QED BY <1>1, <2>4, <2>5, <2>6, <2>7, <2>8, RetiredStays, Loses DEF IInv
  <1> QED BY <1>4, <1>5

LEMMA GetDoneStep ==
  ASSUME IInv, NEW p \in Procs, op[p] # Idle, GetDone(p)
  PROVE  IInv' /\ (Promise!PLose \/ \E k \in Keys : Promise!PAnswer(k))
PROOF
  <1> DEFINE k == op[p].key
             f == op[p].v
  <1>1. op[p] \in Op /\ k \in Keys /\ f \in Val
    BY OpIdle DEF IInv, Shape, Op
  <1>2. /\ op[p].at = "have" /\ op' = [op EXCEPT ![p] = Idle]
        /\ UNCHANGED <<now, off, puts, floor, kept>>
    BY DEF GetDone, history
  <1>3. /\ op' \in [Procs -> {Idle} \cup Op] /\ Alone'
        /\ \A q \in Procs : op'[q] # Idle => q # p /\ op'[q] = op[q]
        /\ \A j, e, class : Carried(j, e, class)' => Carried(j, e, class)
    BY <1>2, Stopped
  <1>4. Carries'
    BY <1>2, <1>3 DEF IInv, Carries
  <1>5. Carried(k, f, "get")
    BY <1>2 DEF IInv, Carries, Carried
  <1>6. CASE Dead(f)
    <2>1. disk' = [disk EXCEPT ![k] = NoFile] /\ said' = Silence /\ mem' = mem
      BY <1>6 DEF GetDone
    <2>2. disk' \in [Keys -> Val] /\ \A j \in Keys : disk'[j] \in {disk[j], NoFile}
      BY <2>1 DEF IInv, Shape, Val, NoFile
    <2>3. Shape'
      BY <1>2, <1>3, <2>1, <2>2 DEF IInv, Shape
    <2>4. Newest'
      BY <1>3, <2>1 DEF IInv, Newest
    <2>5. \A j, e : InMem(j, e)' => InMem(j, e)
      BY <2>1 DEF InMem
    <2>6. \A j \in Keys : \A e : InFile(j, e)' => InFile(j, e)
      BY <2>2 DEF InFile
    <2>7. Shrinks
      BY <1>2, <1>3, <2>5, <2>6 DEF Shrinks, VisibleIs, StoredIs
    <2> QED BY <1>2, <1>3, <1>4, <2>1, <2>3, <2>4, <2>7, RetiredStays, Loses DEF IInv
  <1>7. CASE ~Dead(f)
    <2>1. MemPut(k, f) /\ said' = <<k, f.ver>> /\ disk' = disk
      BY <1>7 DEF GetDone
    <2> HIDE DEF k, f
    <2>2. /\ mem' \in Seq(Cell) /\ Unique(mem')
          /\ \A i \in DOMAIN mem' : \/ mem'[i] = [key |-> k, ver |-> f.ver, expires |-> f.expires]
                                    \/ mem'[i].key # k /\ \E j \in DOMAIN mem : mem'[i] = mem[j]
      BY <1>1, <2>1, AfterMemPut DEF IInv, Shape
    <2>3. Shape'
      BY <1>2, <1>3, <2>1, <2>2 DEF IInv, Shape
    <2>4. Newest'
      <3> SUFFICES ASSUME NEW q \in Procs, NEW i \in DOMAIN mem', op'[q] # Idle, op'[q].alone,
                          op'[q].at # "have", mem'[i].key = op'[q].key
                   PROVE  mem'[i].ver >= op'[q].v.ver
        BY DEF Newest
      <3>1. q # p /\ op'[q] = op[q]
        BY <1>3
      <3>2. op[q].key # k
        BY <3>1 DEF IInv, Alone, k
      <3>3. PICK j \in DOMAIN mem : mem'[i] = mem[j]
        BY <2>2, <3>1, <3>2
      <3> QED BY <3>1, <3>3 DEF IInv, Newest
    <2>5. \A j, e : InMem(j, e)' => InMem(j, e) \/ (j = k /\ e = f)
      <3>1. [ver |-> f.ver, expires |-> f.expires] = f
        BY <1>1 DEF Val
      <3> QED BY <2>2, <3>1 DEF InMem
    <2>6. \A j \in Keys : \A e : InFile(j, e)' => InFile(j, e)
      BY <2>1 DEF InFile
    <2>7. Shrinks
      BY <1>2, <1>3, <1>5, <2>5, <2>6 DEF Shrinks, VisibleIs, StoredIs
    <2>8. VisibleIs(k, f) /\ now <= f.expires
      BY <1>1, <1>5, <1>7 DEF VisibleIs, Dead, Val, IInv, Shape
    <2>9. Promise!PAnswer(k)
      BY <1>1, <1>2, <2>1, <2>7, <2>8, Answers
    <2> QED BY <1>1, <1>2, <1>3, <1>4, <2>3, <2>4, <2>7, <2>9, RetiredStays DEF IInv
  <1> QED BY <1>6, <1>7
-----------------------------------------------------------------------------
(* A put writes the memory: what that leaves of the key is its own value.  *)
LEMMA PutInMemory ==
  ASSUME IInv, NEW k \in Keys, NEW v \in Val, v.ver = puts + 1, MemPut(k, v)
  PROVE  /\ mem' \in Seq(Cell) /\ Unique(mem')
         /\ \A i \in DOMAIN mem' : \/ mem'[i].key = k /\ mem'[i].ver = puts + 1
                                   \/ mem'[i].key # k /\ \E j \in DOMAIN mem : mem'[i] = mem[j]
         /\ \A j, e : InMem(j, e)' => (InMem(j, e) /\ j # k) \/ (j = k /\ e = v)
PROOF
  <1>1. /\ mem' \in Seq(Cell) /\ Unique(mem')
        /\ \A i \in DOMAIN mem' : \/ mem'[i] = [key |-> k, ver |-> v.ver, expires |-> v.expires]
                                  \/ mem'[i].key # k /\ \E j \in DOMAIN mem : mem'[i] = mem[j]
    BY AfterMemPut DEF IInv, Shape
  <1>2. v = [ver |-> v.ver, expires |-> v.expires]
    BY DEF Val
  <1>3. \A j, e : InMem(j, e)' => (InMem(j, e) /\ j # k) \/ (j = k /\ e = v)
    BY <1>1, <1>2 DEF InMem
  <1> QED BY <1>1, <1>3

LEMMA PutStep ==
  ASSUME IInv, NEW p \in Procs, NEW k \in Keys, NEW life \in Lives,
         NEW class \in {"durable", "volatile"}, Put(p, k, life, class)
  PROVE  IInv' /\ Promise!PPut(k, life, class = "durable")
PROOF
  <1> DEFINE v == [ver |-> puts + 1, expires |-> now + life]
  <1>1. /\ op[p] = Idle /\ puts' = puts + 1 /\ MemPut(k, v) /\ said' = Silence
        /\ UNCHANGED <<now, off, disk>>
    BY DEF Put
  <1>2. /\ puts \in Nat /\ now \in Nat /\ v \in Val /\ v.ver = puts + 1
    BY TieredAssumption DEF IInv, Shape, Val
  <1>3. floor \in [Keys -> 0..puts] /\ kept \in [Keys -> 0..puts]
    BY DEF IInv, Shape
  <1>4. \A q \in Procs : op[q] # Idle => op[q] \in Op
    BY OpIdle DEF IInv, Shape
  <1> HIDE DEF v
  <1>5. /\ mem' \in Seq(Cell) /\ Unique(mem')
        /\ \A i \in DOMAIN mem' : \/ mem'[i].key = k /\ mem'[i].ver = puts + 1
                                  \/ mem'[i].key # k /\ \E j \in DOMAIN mem : mem'[i] = mem[j]
        /\ \A j, e : InMem(j, e)' => (InMem(j, e) /\ j # k) \/ (j = k /\ e = v)
    BY <1>1, <1>2, PutInMemory
  <1>6. \A j, e : InFile(j, e)' => InFile(j, e)
    BY <1>1 DEF InFile
  <1>7. CASE class = "durable" /\ off
    <2>1. /\ op' = [q \in Procs |-> IF q \in Out(k) THEN [op[q] EXCEPT !.alone = FALSE] ELSE op[q]]
          /\ floor' = (IF Out(k) = {} THEN [floor EXCEPT ![k] = puts + 1] ELSE floor)
          /\ kept' = kept
      BY <1>2, <1>7 DEF Put, Returned, v
    <2>2. \A q \in Procs :
            \/ op'[q] = op[q] /\ (op[q] = Idle \/ op[q].key # k)
            \/ /\ op[q] \in Op /\ op[q].key = k /\ op'[q] \in Op /\ ~op'[q].alone
               /\ op'[q].at = op[q].at /\ op'[q].key = k /\ op'[q].v = op[q].v
               /\ op'[q].class = op[q].class
      <3> SUFFICES ASSUME NEW q \in Procs
                   PROVE  \/ op'[q] = op[q] /\ (op[q] = Idle \/ op[q].key # k)
                          \/ /\ op[q] \in Op /\ op[q].key = k /\ op'[q] \in Op /\ ~op'[q].alone
                             /\ op'[q].at = op[q].at /\ op'[q].key = k /\ op'[q].v = op[q].v
                             /\ op'[q].class = op[q].class
        OBVIOUS
      <3>1. CASE q \in Out(k)
        <4>1. op[q] \in Op /\ op[q].key = k /\ op'[q] = [op[q] EXCEPT !.alone = FALSE]
          BY <1>4, <2>1, <3>1 DEF Out
        <4> QED BY <4>1 DEF Op
      <3>2. CASE q \notin Out(k)
        BY <2>1, <3>2 DEF Out
      <3> QED BY <3>1, <3>2
    <2>3. op' \in [Procs -> {Idle} \cup Op]
      <3>1. \A q \in Procs : op'[q] \in {Idle} \cup Op
        BY <1>4, <2>2
      <3> QED BY <2>1, <3>1
    <2>4. floor' \in [Keys -> 0..puts']
      BY <1>1, <1>2, <1>3, <2>1
    <2>5. Shape'
      BY <1>1, <1>2, <1>3, <1>5, <2>1, <2>3, <2>4 DEF IInv, Shape
    <2>6. Carries'
      BY <1>1, <1>2, <2>2, OpIdle DEF IInv, Carries
    <2>7. Alone'
      BY <2>2, OpIdle DEF IInv, Alone
    <2>8. Newest'
      BY <1>5, <2>2 DEF IInv, Newest
    <2>9. \A j, e, c : Carried(j, e, c)' => Carried(j, e, c)
      BY <2>2, OpIdle DEF Carried
    <2>10. \A j, e : /\ StoredIs(j, e)' => StoredIs(j, e)
                     /\ VisibleIs(j, e)' => VisibleIs(j, e) \/ (j = k /\ e = v)
      BY <1>1, <1>5, <1>6, <2>9 DEF StoredIs, VisibleIs
    <2>11. Retired'
      <3> SUFFICES ASSUME NEW j \in Keys, NEW e
                   PROVE  /\ VisibleIs(j, e)' => e.ver >= floor'[j]
                          /\ StoredIs(j, e)' => e.ver >= kept'[j]
        BY DEF Retired
      <3>1. StoredIs(j, e)' => e.ver >= kept'[j]
        BY <2>1, <2>10 DEF IInv, Retired
      <3>2. ASSUME VisibleIs(j, e)' PROVE e.ver >= floor'[j]
        <4>1. CASE j = k /\ Out(k) = {}
          <5>1. \A q \in Procs : op[q] # Idle => op[q].key # k
            BY <4>1 DEF Out
          <5>2. ~Carried(j, e, "get")'
            <6>1. ~Carried(j, e, "get")
              BY <4>1, <5>1 DEF Carried
            <6> QED BY <2>9, <6>1
          <5>3. InMem(j, e)'
            BY <1>1, <1>7, <3>2, <5>2 DEF VisibleIs
          <5>4. e = v
            BY <1>5, <4>1, <5>3
          <5> QED BY <1>2, <1>3, <2>1, <4>1, <5>4
        <4>2. CASE ~(j = k /\ Out(k) = {})
          <5>1. floor'[j] = floor[j] /\ floor[j] \in 0..puts
            BY <1>3, <2>1, <4>2
          <5>2. VisibleIs(j, e) \/ e = v
            BY <2>10, <3>2
          <5> QED BY <1>2, <5>1, <5>2 DEF IInv, Retired
        <4> QED BY <4>1, <4>2
      <3> QED BY <3>1, <3>2
    <2>12. Promise!PPut(k, life, TRUE)
      BY <1>1, <2>1, <2>10, Puts DEF v
    <2> QED BY <1>7, <2>5, <2>6, <2>7, <2>8, <2>11, <2>12 DEF IInv
  <1>8. CASE ~(class = "durable" /\ off)
    <2> DEFINE at == IF class = "volatile" THEN "retire" ELSE "temp"
               o == [at |-> at, key |-> k, v |-> v, class |-> class, alone |-> TRUE]
    <2>1. Start(p, k, o) /\ UNCHANGED <<floor, kept>>
      BY <1>8 DEF Put, v
    <2>2. /\ o \in Op /\ o.at = at /\ o.key = k /\ o.v = v /\ o.class = class
          /\ at \in {"retire", "temp"} /\ (at = "temp" => class = "durable")
      BY <1>2 DEF Op
    <2> HIDE DEF o, at
    <2>3. /\ op' \in [Procs -> {Idle} \cup Op] /\ Alone'
          /\ op'[p] \in Op /\ op'[p].at = at /\ op'[p].key = k /\ op'[p].v = v
          /\ op'[p].class = class
          /\ \A q \in Procs \ {p} :
               \/ op'[q] = op[q] /\ (op[q] = Idle \/ op[q].key # k)
               \/ /\ op[q] \in Op /\ op[q].key = k /\ op'[q] \in Op /\ ~op'[q].alone
                  /\ op'[q].at = op[q].at /\ op'[q].key = k /\ op'[q].v = op[q].v
                  /\ op'[q].class = op[q].class
      BY <1>1, <2>1, <2>2, Started
    <2>4. Shape'
      BY <1>1, <1>2, <1>3, <1>5, <2>1, <2>3 DEF IInv, Shape
    <2>5. Carries'
      <3> SUFFICES ASSUME NEW q \in Procs, op'[q] # Idle
                   PROVE  /\ op'[q].at = "have" => op'[q].class = "get"
                          /\ op'[q].at \in {"temp", "rename"} => op'[q].class = "durable"
                          /\ op'[q].at # "have" => op'[q].v.ver \in 1..puts'
        BY DEF Carries
      <3>1. CASE q = p
        BY <1>1, <1>2, <2>2, <2>3, <3>1
      <3>2. CASE q # p
        <4>1. op[q] # Idle /\ op'[q].at = op[q].at /\ op'[q].class = op[q].class
              /\ op'[q].v = op[q].v
          BY <2>3, <3>2, OpIdle
        <4> QED BY <1>1, <1>2, <4>1 DEF IInv, Carries
      <3> QED BY <3>1, <3>2
    <2>6. Newest'
      <3> SUFFICES ASSUME NEW q \in Procs, NEW i \in DOMAIN mem', op'[q] # Idle, op'[q].alone,
                          op'[q].at # "have", mem'[i].key = op'[q].key
                   PROVE  mem'[i].ver >= op'[q].v.ver
        BY DEF Newest
      <3>1. CASE q = p
        BY <1>2, <1>5, <2>3, <3>1
      <3>2. CASE q # p
        <4>1. op'[q] = op[q] /\ op[q].key # k
          BY <2>3, <3>2
        <4>2. PICK j \in DOMAIN mem : mem'[i] = mem[j]
          BY <1>5, <4>1
        <4> QED BY <4>1, <4>2 DEF IInv, Newest
      <3> QED BY <3>1, <3>2
    <2>7. \A j, e, c : Carried(j, e, c)' => Carried(j, e, c) \/ (j = k /\ e = v /\ c = class)
      BY <1>1, <2>1, <2>2, StartedCarries
    <2>8. \A j, e : /\ StoredIs(j, e)' => StoredIs(j, e) \/ (j = k /\ e = v /\ class = "durable")
                    /\ VisibleIs(j, e)' => VisibleIs(j, e) \/ (j = k /\ e = v)
      BY <1>1, <1>5, <1>6, <2>7 DEF StoredIs, VisibleIs
    <2>9. Retired'
      <3> SUFFICES ASSUME NEW j \in Keys, NEW e
                   PROVE  /\ VisibleIs(j, e)' => e.ver >= floor'[j]
                          /\ StoredIs(j, e)' => e.ver >= kept'[j]
        BY DEF Retired
      <3>1. floor'[j] = floor[j] /\ kept'[j] = kept[j] /\ floor[j] \in 0..puts /\ kept[j] \in 0..puts
        BY <1>3, <2>1
      <3> QED BY <1>2, <2>8, <3>1 DEF IInv, Retired
    <2>10. PICK durable \in BOOLEAN : durable = (class = "durable")
      OBVIOUS
    <2>11. Promise!PPut(k, life, class = "durable")
      <3>1. \A j, e : /\ StoredIs(j, e)' => StoredIs(j, e) \/ (j = k /\ e = v /\ durable)
                      /\ VisibleIs(j, e)' => VisibleIs(j, e) \/ (j = k /\ e = v)
        BY <2>8, <2>10
      <3>2. Promise!PPut(k, life, durable)
        BY <1>1, <2>1, <3>1, Puts DEF v
      <3> QED BY <2>10, <3>2
    <2> QED BY <2>3, <2>4, <2>5, <2>6, <2>9, <2>11 DEF IInv
  <1> QED BY <1>7, <1>8
-----------------------------------------------------------------------------
(* A put returns.  If it was alone it has left nothing older of its key    *)
(* behind: not in the memory, and in the file only if that is not read any *)
(* more.                                                                   *)
LEMMA ReturnStep ==
  ASSUME IInv, NEW p \in Procs, op[p] # Idle, op[p].at # "have", NEW k, k = op[p].key,
         NEW persisted \in BOOLEAN, Return(p, persisted),
         UNCHANGED <<now, puts, mem>>, said' = Silence, disk' \in [Keys -> Val],
         off => off',
         \A j \in Keys : \A e : InFile(j, e)' => InFile(j, e) \/ Carried(j, e, "durable"),
         op[p].alone /\ (persisted \/ ~off') => \A e : InFile(k, e)' => e.ver >= op[p].v.ver
  PROVE  IInv' /\ (Promise!PLose \/ \E v \in 1..puts : Promise!PReturn(k, v))
PROOF
  <1> DEFINE v == op[p].v.ver
  <1>1. op[p] \in Op /\ k \in Keys /\ v \in 1..puts /\ puts \in Nat
    BY OpIdle DEF IInv, Shape, Carries, Op
  <1>2. /\ op' = [op EXCEPT ![p] = Idle]
        /\ floor' = (IF op[p].alone THEN [floor EXCEPT ![k] = v] ELSE floor)
        /\ kept' = (IF op[p].alone /\ persisted THEN [kept EXCEPT ![k] = v] ELSE kept)
    BY DEF Return, Returned
  <1>3. /\ op' \in [Procs -> {Idle} \cup Op] /\ Alone'
        /\ \A q \in Procs : op'[q] # Idle => q # p /\ op'[q] = op[q]
        /\ \A j, e, class : Carried(j, e, class)' => Carried(j, e, class)
    BY <1>2, Stopped
  <1>4. floor \in [Keys -> 0..puts] /\ kept \in [Keys -> 0..puts]
    BY DEF IInv, Shape
  <1>5. floor' \in [Keys -> 0..puts] /\ kept' \in [Keys -> 0..puts]
    BY <1>1, <1>2, <1>4
  <1>6. Shape'
    BY <1>3, <1>5 DEF IInv, Shape
  <1>7. Carries' /\ Newest'
    BY <1>3 DEF IInv, Carries, Newest
  <1>8. \A j, e : InMem(j, e)' => InMem(j, e)
    BY DEF InMem
  <1>9. Shrinks
    <2>1. \A j \in Keys : \A e : StoredIs(j, e)' => StoredIs(j, e)
      BY <1>3 DEF StoredIs
    <2>2. \A j \in Keys : \A e : VisibleIs(j, e)' => VisibleIs(j, e)
      BY <1>3, <1>8, <2>1 DEF VisibleIs
    <2> QED BY <2>1, <2>2 DEF Shrinks
  <1>10. CASE ~op[p].alone
    BY <1>2, <1>3, <1>6, <1>7, <1>9, <1>10, RetiredStays, Loses DEF IInv
  <1>11. CASE op[p].alone
    <2>1. \A e, class : ~Carried(k, e, class)'
      <3>1. \A q \in Procs : op'[q] # Idle => op'[q].key # k
        BY <1>3, <1>11 DEF IInv, Alone
      <3> QED BY <3>1 DEF Carried
    <2>2. \A e : InMem(k, e)' => e.ver >= v
      <3>1. \A i \in DOMAIN mem : mem[i].key = k => mem[i].ver >= v
        BY <1>11 DEF IInv, Newest
      <3> QED BY <1>8, <3>1 DEF InMem
    <2>3. \A e : VisibleIs(k, e)' => e.ver >= v
      <3>1. ~off' => \A e : InFile(k, e)' => e.ver >= v
        BY <1>11
      <3> QED BY <2>1, <2>2, <3>1 DEF VisibleIs, StoredIs
    <2>4. persisted => \A e : StoredIs(k, e)' => e.ver >= v
      <3>1. persisted => \A e : InFile(k, e)' => e.ver >= v
        BY <1>11
      <3> QED BY <2>1, <3>1 DEF StoredIs
    <2>5. Retired'
      <3> SUFFICES ASSUME NEW j \in Keys, NEW e
                   PROVE  /\ VisibleIs(j, e)' => e.ver >= floor'[j]
                          /\ StoredIs(j, e)' => e.ver >= kept'[j]
        BY DEF Retired
      <3>1. VisibleIs(j, e)' => e.ver >= floor'[j]
        <4>1. CASE j = k
          BY <1>1, <1>2, <1>4, <1>11, <2>3, <4>1
        <4>2. CASE j # k
          <5>1. floor'[j] = floor[j]
            BY <1>2, <1>4, <4>2
          <5> QED BY <1>9, <5>1 DEF IInv, Retired, Shrinks
        <4> QED BY <4>1, <4>2
      <3>2. StoredIs(j, e)' => e.ver >= kept'[j]
        <4>1. CASE j = k /\ persisted
          BY <1>1, <1>2, <1>4, <1>11, <2>4, <4>1
        <4>2. CASE ~(j = k /\ persisted)
          <5>1. kept'[j] = kept[j]
            BY <1>2, <1>4, <4>2
          <5> QED BY <1>9, <5>1 DEF IInv, Retired, Shrinks
        <4> QED BY <4>1, <4>2
      <3> QED BY <3>1, <3>2
    <2>6. Promise!PReturn(k, v)
      <3>1. floor' = [floor EXCEPT ![k] = v] /\ kept' \in {kept, [kept EXCEPT ![k] = v]}
        BY <1>2, <1>11
      <3> HIDE DEF v
      <3> QED BY <1>1, <1>9, <3>1, Returns
    <2> QED BY <1>1, <1>3, <1>6, <1>7, <2>5, <2>6 DEF IInv
  <1> QED BY <1>10, <1>11

LEMMA RetireStep ==
  ASSUME IInv, NEW p \in Procs, op[p] # Idle, Retire(p)
  PROVE  IInv' /\ (Promise!PLose \/ \E k \in Keys, v \in 1..puts : Promise!PReturn(k, v))
PROOF
  <1>1. PICK k \in Keys : k = op[p].key
    BY OpIdle DEF IInv, Shape, Op
  <1>2. /\ op[p].at = "retire" /\ said' = Silence /\ UNCHANGED <<now, puts, mem>>
    BY DEF Retire
  <1>3. disk \in [Keys -> Val] /\ NoFile \in Val
    BY DEF IInv, Shape, Val, NoFile
  <1>4. CASE disk' = [disk EXCEPT ![k] = NoFile] /\ Return(p, TRUE) /\ UNCHANGED off
    <2>1. disk' \in [Keys -> Val]
      BY <1>3, <1>4
    <2>2. \A j \in Keys : \A e : InFile(j, e)' => InFile(j, e)
      BY <1>3, <1>4 DEF InFile
    <2>3. \A e : ~InFile(k, e)'
      BY <1>3, <1>4 DEF InFile
    <2> QED BY <1>1, <1>2, <1>4, <2>1, <2>2, <2>3, ReturnStep
  <1>5. CASE off' = TRUE /\ Return(p, FALSE) /\ UNCHANGED disk
    <2>1. off' /\ \A j \in Keys : \A e : InFile(j, e)' => InFile(j, e)
      BY <1>5 DEF InFile
    <2> QED BY <1>1, <1>2, <1>3, <1>5, <2>1, ReturnStep
  <1> QED BY <1>1, <1>4, <1>5 DEF Retire

LEMMA WriteStep ==
  ASSUME IInv, NEW p \in Procs, op[p] # Idle, Write(p)
  PROVE  IInv' /\ (Promise!PLose \/ \E k \in Keys, v \in 1..puts : Promise!PReturn(k, v))
PROOF
  <1>1. PICK k \in Keys : k = op[p].key
    BY OpIdle DEF IInv, Shape, Op
  <1>2. /\ op[p].at = "temp" /\ said' = Silence /\ UNCHANGED <<now, puts, mem, disk>>
    BY DEF Write
  <1>3. disk \in [Keys -> Val] /\ op[p] \in Op /\ op \in [Procs -> {Idle} \cup Op]
    BY OpIdle DEF IInv, Shape
  <1>4. \A j, e : InFile(j, e)' => InFile(j, e)
    BY <1>2 DEF InFile
  <1>5. CASE off' = TRUE /\ Return(p, FALSE)
    BY <1>1, <1>2, <1>3, <1>4, <1>5, ReturnStep
  <1>6. CASE op' = [op EXCEPT ![p].at = "rename"] /\ UNCHANGED <<off, floor, kept>>
    <2> DEFINE new == [op[p] EXCEPT !.at = "rename"]
    <2>1. /\ new \in Op /\ new.at = "rename" /\ new.key = op[p].key /\ new.v = op[p].v
          /\ new.class = op[p].class /\ new.alone = op[p].alone
      BY <1>3 DEF Op
    <2>2. op' = [op EXCEPT ![p] = new]
      BY <1>6
    <2> HIDE DEF new
    <2>3. op'[p] = new /\ \A q \in Procs \ {p} : op'[q] = op[q]
      BY <1>3, <2>2
    <2>4. op' \in [Procs -> {Idle} \cup Op]
      BY <1>3, <2>1, <2>2
    <2>5. Shape'
      BY <1>2, <1>6, <2>4 DEF IInv, Shape
    <2>6. \A q \in Procs : op'[q] # Idle =>
            /\ op[q] # Idle /\ op'[q].key = op[q].key /\ op'[q].v = op[q].v
            /\ op'[q].class = op[q].class /\ op'[q].alone = op[q].alone
            /\ op'[q].at = op[q].at \/ (op[q].at = "temp" /\ op'[q].at = "rename")
      BY <1>2, <2>1, <2>3
    <2>7. Carries'
      BY <1>2, <2>6 DEF IInv, Carries
    <2>8. Alone'
      BY <2>6 DEF IInv, Alone
    <2>9. Newest'
      BY <1>2, <2>6 DEF IInv, Newest
    <2>10. \A j, e, class : Carried(j, e, class)' => Carried(j, e, class)
      BY <2>6 DEF Carried
    <2>11. \A j, e : InMem(j, e)' => InMem(j, e)
      BY <1>2 DEF InMem
    <2>12. Shrinks
      BY <1>4, <1>6, <2>10, <2>11 DEF Shrinks, VisibleIs, StoredIs
    <2> QED BY <1>2, <1>6, <2>5, <2>7, <2>8, <2>9, <2>12, RetiredStays, Loses DEF IInv
  <1> QED BY <1>5, <1>6 DEF Write

LEMMA RenameStep ==
  ASSUME IInv, NEW p \in Procs, op[p] # Idle, Rename(p)
  PROVE  IInv' /\ (Promise!PLose \/ \E k \in Keys, v \in 1..puts : Promise!PReturn(k, v))
PROOF
  <1>1. PICK k \in Keys : k = op[p].key
    BY OpIdle DEF IInv, Shape, Op
  <1>2. /\ op[p].at = "rename" /\ said' = Silence /\ UNCHANGED <<now, puts, mem>>
    BY DEF Rename
  <1>3. disk \in [Keys -> Val] /\ op[p].v \in Val /\ op[p].class = "durable"
    BY <1>2, OpIdle DEF IInv, Shape, Op, Carries
  <1>4. CASE disk' = [disk EXCEPT ![k] = op[p].v] /\ Return(p, TRUE) /\ UNCHANGED off
    <2>1. disk' \in [Keys -> Val]
      BY <1>3, <1>4
    <2>2. Carried(k, op[p].v, "durable")
      BY <1>1, <1>3 DEF Carried
    <2>3. \A j \in Keys : \A e : InFile(j, e)' => InFile(j, e) \/ (j = k /\ e = op[p].v)
      BY <1>3, <1>4 DEF InFile
    <2>4. \A e : InFile(k, e)' => e = op[p].v
      BY <1>3, <1>4 DEF InFile
    <2>5. \A e : InFile(k, e)' => e.ver >= op[p].v.ver
      BY <1>3, <2>4 DEF Val
    <2> QED BY <1>1, <1>2, <1>4, <2>1, <2>2, <2>3, <2>5, ReturnStep
  <1>5. CASE off' = TRUE /\ Return(p, FALSE) /\ UNCHANGED disk
    <2>1. off' /\ \A j \in Keys : \A e : InFile(j, e)' => InFile(j, e)
      BY <1>5 DEF InFile
    <2> QED BY <1>1, <1>2, <1>3, <1>5, <2>1, ReturnStep
  <1> QED BY <1>1, <1>4, <1>5 DEF Rename

(* The process ends: what is left is the files, and they are no older than *)
(* what is known to have reached the disk.                                 *)
LEMMA RestartStep ==
  ASSUME IInv, Restart
  PROVE  IInv' /\ Promise!PRestart
PROOF
  <1>1. /\ mem' = <<>> /\ op' = [p \in Procs |-> Idle] /\ floor' = kept /\ said' = Silence
        /\ UNCHANGED <<now, disk, puts, kept>>
    BY DEF Restart
  <1>2. Shape'
    BY <1>1 DEF IInv, Shape, Unique
  <1>3. Carries' /\ Alone' /\ Newest'
    BY <1>1 DEF Carries, Alone, Newest
  <1>4. \A j, e : ~InMem(j, e)' /\ \A class : ~Carried(j, e, class)'
    BY <1>1 DEF InMem, Carried
  <1>5. \A j, e : InFile(j, e)' => InFile(j, e)
    BY <1>1 DEF InFile
  <1>6. \A j, e : /\ StoredIs(j, e)' => StoredIs(j, e)
                  /\ VisibleIs(j, e)' => StoredIs(j, e)
    BY <1>4, <1>5 DEF StoredIs, VisibleIs
  <1>7. Retired'
    BY <1>1, <1>6 DEF IInv, Retired
  <1>8. \A j \in Keys :
          /\ Visible(j)' \subseteq OnDisk(j) \union Held(j, {"durable"})
          /\ (OnDisk(j) \union Held(j, {"durable"}))' \subseteq OnDisk(j) \union Held(j, {"durable"})
    BY <1>6, VisibleMembers, VisibleMembersNext
  <1>9. Promise!PRestart
    BY <1>1, <1>8 DEF Promise!PRestart, Promise!Silence, Silence
  <1> QED BY <1>2, <1>3, <1>7, <1>9 DEF IInv
-----------------------------------------------------------------------------
LEMMA InitStep == Init => IInv /\ Promise!PInit
PROOF
  <1> SUFFICES ASSUME Init PROVE IInv /\ Promise!PInit
    OBVIOUS
  <1>1. /\ now = 0 /\ puts = 0 /\ said = Silence /\ mem = <<>> /\ disk = [k \in Keys |-> NoFile]
        /\ op = [p \in Procs |-> Idle]
        /\ floor = [k \in Keys |-> 0] /\ kept = [k \in Keys |-> 0]
    BY DEF Init
  <1>2. Shape
    BY <1>1 DEF Shape, Unique, Val, NoFile
  <1>3. Carries /\ Alone /\ Newest
    BY <1>1 DEF Carries, Alone, Newest
  <1>4. \A j, e : ~InMem(j, e) /\ \A class : ~Carried(j, e, class)
    BY <1>1 DEF InMem, Carried
  <1>5. \A j \in Keys : \A e : ~VisibleIs(j, e) /\ ~StoredIs(j, e)
    BY <1>1, <1>4 DEF InFile, StoredIs, VisibleIs
  <1>6. Retired
    BY <1>5 DEF Retired
  <1>7. \A j \in Keys : Visible(j) = {} /\ OnDisk(j) \union Held(j, {"durable"}) = {}
    BY <1>5, VisibleMembers
  <1>8. Promise!PInit
    BY <1>1, <1>7 DEF Promise!PInit, Promise!Silence, Silence
  <1> QED BY <1>2, <1>3, <1>6, <1>8 DEF IInv

LEMMA NextStep ==
  IInv /\ [Next]_vars => IInv' /\ [Promise!PNext]_(Promise!promise)
PROOF
  <1> SUFFICES ASSUME IInv, [Next]_vars PROVE IInv' /\ [Promise!PNext]_(Promise!promise)
    OBVIOUS
  <1> DEFINE Steps ==
        \/ \E k \in Keys, life \in Lives, durable \in BOOLEAN : Promise!PPut(k, life, durable)
        \/ \E k \in Keys, v \in 1..puts : Promise!PReturn(k, v)
        \/ \E k \in Keys : Promise!PAnswer(k)
        \/ Promise!PLose \/ Promise!PRestart \/ Promise!PTick
  <1>1. ASSUME IInv', Steps PROVE Promise!PNext
    <2>1. Promise!Retired'
      BY <1>1, RetiredIsPromised DEF IInv
    <2> QED BY <1>1, <2>1 DEF Promise!PNext
  <1>2. ASSUME NEW k \in Keys, GetHit(k) PROVE IInv' /\ Steps
    BY <1>2, GetHitStep
  <1>3. ASSUME NEW s \in Sweepers,
               Look(s) \/ ResetWritten(s) \/ Swept(s) \/ \E k \in Keys : RemoveFile(s, k)
        PROVE  IInv' /\ Steps
    BY <1>3, SweepStep
  <1>4. ASSUME NEW p \in Procs, NEW k \in Keys, GetRead(p, k) PROVE IInv' /\ Steps
    BY <1>4, GetReadStep
  <1>5. ASSUME NEW p \in Procs, NEW k \in Keys, NEW life \in Lives,
               NEW class \in {"durable", "volatile"}, Put(p, k, life, class)
        PROVE  IInv' /\ Steps
    <2>1. IInv' /\ Promise!PPut(k, life, class = "durable")
      BY <1>5, PutStep
    <2>2. PICK durable \in BOOLEAN : durable = (class = "durable")
      OBVIOUS
    <2> QED BY <2>1, <2>2
  <1>6. ASSUME NEW p \in Procs, op[p] # Idle, GetDone(p) \/ Retire(p) \/ Write(p) \/ Rename(p)
        PROVE  IInv' /\ Steps
    BY <1>6, GetDoneStep, RetireStep, WriteStep, RenameStep
  <1>7. CASE Tick \/ \E n \in uncounted : Count(n)
    BY <1>1, <1>7, TickStep, CountStep
  <1>8. CASE Restart
    BY <1>1, <1>8, RestartStep
  <1>9. CASE UNCHANGED vars
    <2>1. UNCHANGED <<now, puts, mem, off, disk, op, floor, kept, said>>
      BY <1>9 DEF vars, history
    <2>2. Shape' /\ Carries' /\ Alone' /\ Newest'
      BY <2>1 DEF IInv, Shape, Carries, Alone, Newest
    <2>3. \A k : /\ Visible(k)' = Visible(k)
                 /\ (OnDisk(k) \union Held(k, {"durable"}))' = OnDisk(k) \union Held(k, {"durable"})
      BY <2>1 DEF Visible, Live, InMemory, OnDisk, Held, Out
    <2>4. Retired'
      BY <2>1, <2>3, VisibleMembers, VisibleMembersNext DEF IInv, Retired
    <2>5. UNCHANGED Promise!promise
      BY <2>1, <2>3 DEF Promise!promise
    <2> QED BY <2>2, <2>4, <2>5 DEF IInv
  <1> HIDE DEF Steps
  <1> QED BY <1>1, <1>2, <1>3, <1>4, <1>5, <1>6, <1>7, <1>8, <1>9 DEF Next

(* The two tiers keep what the one cache promises: whatever interleaves,   *)
(* fails or is cut off, nothing is answered that was not put, or after its *)
(* life, or that a put replaced which returned with no other Get or Put of *)
(* its key out since it began: in this process, and after a restart if the *)
(* disk took the change (TieredCache.Get, PutClass, Sweep over             *)
(* MemoryCache).  Puts that were overlapped are left out, as in the code.  *)
THEOREM Refines == Spec => PromiseKept
PROOF
  <1> QED BY InitStep, NextStep, PTL DEF Spec, PromiseKept, Promise!PSpec
-----------------------------------------------------------------------------
LEMMA Invariant == Spec => []IInv
PROOF
  <1>1. Init => IInv
    BY InitStep
  <1>2. IInv /\ [Next]_vars => IInv'
    BY NextStep
  <1> QED BY <1>1, <1>2, PTL DEF Spec

(* The memory tier's list without a key is no longer than it was, and is   *)
(* shorter when the key was there.                                         *)
LEMMA WithoutLength ==
  ASSUME mem \in Seq(Cell), NEW k
  PROVE  /\ Len(Without(k)) \in Nat /\ Len(Without(k)) <= Len(mem)
         /\ InMemory(k) # {} => Len(Without(k)) = Len(mem) - 1
PROOF
  <1>1. CASE InMemory(k) = {}
    BY <1>1 DEF Without
  <1>2. CASE InMemory(k) # {}
    <2> DEFINE n == CHOOSE i \in InMemory(k) : TRUE
               front == SubSeq(mem, 1, n - 1)
               back == SubSeq(mem, n + 1, Len(mem))
    <2>1. n \in 1..Len(mem) /\ Len(mem) \in Nat
      BY <1>2 DEF InMemory
    <2>2. Without(k) = front \o back
      BY <1>2 DEF Without
    <2> HIDE DEF n
    <2>3. front \in Seq(Cell) /\ Len(front) = n - 1
      BY <2>1
    <2>4. back \in Seq(Cell) /\ Len(back) = Len(mem) - n
      BY <2>1
    <2> HIDE DEF front, back
    <2>5. Len(front \o back) = Len(front) + Len(back)
      BY <2>3, <2>4, ConcatProperties
    <2> QED BY <2>1, <2>2, <2>3, <2>4, <2>5
  <1> QED BY <1>1, <1>2

(* The memory tier stays within its budget. *)
LEMMA MemoryFits ==
  ASSUME IInv, Len(mem) <= MemBudget, [Next]_vars
  PROVE  Len(mem') <= MemBudget
PROOF
  <1>1. mem \in Seq(Cell) /\ MemBudget \in Nat \ {0} /\ Len(mem) \in Nat
    BY TieredAssumption DEF IInv, Shape
  <1>2. ASSUME NEW k \in Keys, NEW v \in Val, MemPut(k, v)
        PROVE  Len(mem') <= MemBudget
    <2> DEFINE c == [key |-> k, ver |-> v.ver, expires |-> v.expires]
               s == <<c>> \o Without(k)
    <2>1. c \in Cell /\ c.key = k
      BY DEF Cell, Val
    <2>2. mem' = Trimmed(s)
      BY <1>2 DEF MemPut
    <2> HIDE DEF c
    <2>3. s \in Seq(Cell)
      BY <2>1, InFront DEF IInv, Shape
    <2> HIDE DEF s
    <2>4. PICK n \in Nat : n <= MemBudget /\ n <= Len(s) /\ mem' = SubSeq(s, 1, n)
      <3>1. Len(s) \in Nat
        BY <2>3
      <3> QED BY <1>1, <2>2, <3>1 DEF Trimmed
    <2>5. Len(mem') = n
      BY <2>3, <2>4
    <2> QED BY <2>4, <2>5
  <1>3. ASSUME NEW k \in Keys, GetHit(k)
        PROVE  Len(mem') <= MemBudget
    <2>1. PICK i \in InMemory(k) : mem' = <<mem[i]>> \o Without(k)
      BY <1>3 DEF GetHit
    <2>2. mem[i] \in Cell
      BY <1>1, <2>1 DEF InMemory
    <2>3. PICK c \in Cell : c = mem[i]
      BY <2>2
    <2>4. Without(k) \in Seq(Cell)
      BY <1>1, WithoutKey DEF IInv, Shape
    <2>5. Len(Without(k)) = Len(mem) - 1
      BY <1>1, <2>1, WithoutLength
    <2> DEFINE w == Without(k)
    <2> HIDE DEF w
    <2>6. Len(<<c>> \o w) = 1 + Len(w)
      BY <2>4 DEF w
    <2> QED BY <1>1, <2>1, <2>3, <2>5, <2>6 DEF w
  <1>4. ASSUME NEW p \in Procs, NEW k \in Keys, GetRead(p, k)
        PROVE  Len(mem') <= MemBudget
    <2>1. Len(Without(k)) \in Nat /\ Len(Without(k)) <= Len(mem) /\ mem' = Without(k)
      BY <1>1, <1>4, WithoutLength DEF GetRead
    <2> QED BY <1>1, <2>1
  <1>5. ASSUME NEW p \in Procs, op[p] # Idle, GetDone(p)
        PROVE  Len(mem') <= MemBudget
    <2>1. op[p].key \in Keys /\ op[p].v \in Val
      BY <1>5, OpIdle DEF IInv, Shape, Op
    <2>2. mem' = mem \/ MemPut(op[p].key, op[p].v)
      BY <1>5 DEF GetDone
    <2> QED BY <1>2, <2>1, <2>2
  <1>6. ASSUME NEW p \in Procs, NEW k \in Keys, NEW life \in Lives,
               NEW class \in {"durable", "volatile"}, Put(p, k, life, class)
        PROVE  Len(mem') <= MemBudget
    <2> DEFINE v == [ver |-> puts + 1, expires |-> now + life]
    <2>1. v \in Val
      BY TieredAssumption DEF IInv, Shape, Val
    <2>2. MemPut(k, v)
      BY <1>6 DEF Put
    <2> HIDE DEF v
    <2> QED BY <1>2, <2>1, <2>2
  <1>7. ASSUME Restart
        PROVE  Len(mem') <= MemBudget
    BY <1>1, <1>7 DEF Restart
  <1>8. ASSUME UNCHANGED mem
        PROVE  Len(mem') <= MemBudget
    BY <1>8
  <1>9. ASSUME NEW s \in Sweepers,
               Look(s) \/ ResetWritten(s) \/ Swept(s) \/ \E k \in Keys : RemoveFile(s, k)
        PROVE  Len(mem') <= MemBudget
    BY <1>8, <1>9 DEF RemoveFile, Look, ResetWritten, Swept
  <1>10. ASSUME NEW p \in Procs, Retire(p) \/ Write(p) \/ Rename(p)
         PROVE  Len(mem') <= MemBudget
    BY <1>8, <1>10 DEF Retire, Write, Rename
  <1>11. CASE Tick \/ (\E n \in uncounted : Count(n)) \/ UNCHANGED vars
    BY <1>8, <1>11 DEF Tick, Count, vars
  <1> QED BY <1>3, <1>4, <1>5, <1>6, <1>7, <1>9, <1>10, <1>11 DEF Next
-----------------------------------------------------------------------------
(* What is on the disk after a step: each file as it was, or gone, or one  *)
(* renamed into its place.                                                 *)
Renamed(p) ==
  /\ op[p] # Idle /\ op[p].at = "rename"
  /\ disk' = [disk EXCEPT ![op[p].key] = op[p].v]
  /\ uncounted' = uncounted \union {[key |-> op[p].key, ver |-> op[p].v.ver]}
  /\ fresh' = fresh \union {op[p].key} /\ UNCHANGED <<written, sweep, resets>>

LEMMA DiskAfter ==
  ASSUME IInv, [Next]_vars
  PROVE  \/ \A k \in Keys : disk'[k] \in {disk[k], NoFile}
         \/ \E p \in Procs : Renamed(p)
PROOF
  <1>1. disk \in [Keys -> Val] /\ NoFile \in Val
    BY DEF IInv, Shape, Val, NoFile
  <1>2. ASSUME NEW k \in Keys, disk' = disk \/ disk' = [disk EXCEPT ![k] = NoFile]
        PROVE  \A j \in Keys : disk'[j] \in {disk[j], NoFile}
    BY <1>1, <1>2
  <1>3. ASSUME NEW k \in Keys, GetHit(k) \/ \E s \in Sweepers : RemoveFile(s, k)
        PROVE  \A j \in Keys : disk'[j] \in {disk[j], NoFile}
    BY <1>2, <1>3 DEF GetHit, RemoveFile
  <1>4. ASSUME NEW p \in Procs, op[p] # Idle, GetDone(p) \/ Retire(p)
        PROVE  \A j \in Keys : disk'[j] \in {disk[j], NoFile}
    <2>1. op[p].key \in Keys
      BY <1>4, OpIdle DEF IInv, Shape, Op
    <2>2. disk' = disk \/ disk' = [disk EXCEPT ![op[p].key] = NoFile]
      BY <1>4 DEF GetDone, Retire
    <2> QED BY <1>2, <2>1, <2>2
  <1>5. ASSUME UNCHANGED disk
        PROVE  \A j \in Keys : disk'[j] \in {disk[j], NoFile}
    BY <1>5
  <1>6. ASSUME NEW p \in Procs, op[p] # Idle, Rename(p)
        PROVE  UNCHANGED disk \/ Renamed(p)
    BY <1>6 DEF Rename, Renamed
  <1>7. ASSUME NEW p \in Procs, NEW k \in Keys, GetRead(p, k)
        PROVE  UNCHANGED disk
    BY <1>7 DEF GetRead
  <1>8. ASSUME NEW p \in Procs, NEW k \in Keys, NEW life \in Lives,
               NEW class \in {"durable", "volatile"}, Put(p, k, life, class)
        PROVE  UNCHANGED disk
    BY <1>8 DEF Put
  <1>9. ASSUME \/ \E s \in Sweepers : Look(s) \/ ResetWritten(s) \/ Swept(s)
               \/ (\E n \in uncounted : Count(n)) \/ Tick \/ Restart
        PROVE  UNCHANGED disk
    BY <1>9 DEF Look, ResetWritten, Swept, Count, Tick, Restart
  <1>10. ASSUME NEW p \in Procs, Write(p)
         PROVE  UNCHANGED disk
    BY <1>10 DEF Write
  <1>11. CASE UNCHANGED vars
    BY <1>5, <1>11 DEF vars
  <1> QED BY <1>3, <1>4, <1>5, <1>6, <1>7, <1>8, <1>9, <1>10, <1>11 DEF Next

Bounds ==
  /\ now <= MaxNow /\ puts <= MaxPuts /\ off \in BOOLEAN
  /\ Len(mem) <= MemBudget
  /\ written \in 0..(Budget - 1) /\ orphans \subseteq 0..MaxNow
  /\ uncounted \subseteq [key: Keys, ver: 1..MaxPuts]
  /\ \A k \in Keys : disk[k].ver <= puts

LEMMA CountsStep ==
  ASSUME IInv, Bounds, [Next]_vars
  PROVE  /\ now' <= MaxNow /\ puts' <= MaxPuts /\ puts' >= puts
         /\ off' \in BOOLEAN
         /\ written' \in 0..(Budget - 1) /\ orphans' \subseteq 0..MaxNow
PROOF
  <1> DEFINE Counts == /\ now' <= MaxNow /\ puts' <= MaxPuts /\ puts' >= puts
                       /\ off' \in BOOLEAN
                       /\ written' \in 0..(Budget - 1) /\ orphans' \subseteq 0..MaxNow
  <1>0. /\ now \in Nat /\ puts \in Nat /\ now <= MaxNow /\ puts <= MaxPuts /\ puts >= puts
        /\ MaxNow \in Nat /\ MaxPuts \in Nat /\ Budget \in Nat \ {0}
        /\ off \in BOOLEAN
        /\ written \in 0..(Budget - 1) /\ 0 \in 0..(Budget - 1) /\ orphans \subseteq 0..MaxNow
    BY TieredAssumption DEF IInv, Shape, Bounds
  <1>1. ASSUME UNCHANGED <<now, puts, off, written, orphans>> PROVE Counts
    BY <1>0, <1>1
  <1>2. ASSUME NEW k \in Keys, GetHit(k) \/ (\E s \in Sweepers : RemoveFile(s, k)) PROVE Counts
    BY <1>1, <1>2 DEF GetHit, RemoveFile, history
  <1>3. ASSUME NEW p \in Procs, NEW k \in Keys, GetRead(p, k) PROVE Counts
    BY <1>1, <1>3 DEF GetRead, history
  <1>4. ASSUME NEW p \in Procs, NEW k \in Keys, NEW life \in Lives,
               NEW class \in {"durable", "volatile"}, Put(p, k, life, class)
        PROVE  Counts
    <2>1. puts' = puts + 1 /\ puts < MaxPuts /\ UNCHANGED <<now, off, written, orphans>>
      BY <1>4 DEF Put
    <2>2. puts' <= MaxPuts /\ puts' >= puts
      BY <1>0, <2>1
    <2> QED BY <1>0, <2>1, <2>2
  <1>5. ASSUME NEW p \in Procs, GetDone(p) PROVE Counts
    BY <1>1, <1>5 DEF GetDone, history
  <1>6. ASSUME NEW p \in Procs, Retire(p) \/ Write(p) PROVE Counts
    <2>1. off' \in BOOLEAN /\ UNCHANGED <<now, puts, written, orphans>>
      BY <1>0, <1>6 DEF Retire, Write
    <2> QED BY <1>0, <2>1
  <1>7. ASSUME NEW p \in Procs, Rename(p) PROVE Counts
    <2>1. UNCHANGED <<now, puts, orphans, written>> /\ off' \in BOOLEAN
      BY <1>0, <1>7 DEF Rename
    <2> QED BY <1>0, <2>1
  <1>14. ASSUME NEW n \in uncounted, Count(n) PROVE Counts
    <2>1. /\ UNCHANGED <<now, puts, off, orphans>>
          /\ written' = IF written + 1 < Budget THEN written + 1 ELSE 0
      BY <1>14 DEF Count, NoteWritten, history
    <2>2. written' \in 0..(Budget - 1)
      BY <1>0, <2>1
    <2> QED BY <1>0, <2>1, <2>2
  <1>8. ASSUME NEW s \in Sweepers, Look(s) PROVE Counts
    <2>1. UNCHANGED <<now, puts, off, written>> /\ orphans' \subseteq orphans
      BY <1>8 DEF Look, history
    <2> QED BY <1>0, <2>1
  <1>9. ASSUME NEW s \in Sweepers, ResetWritten(s) \/ Swept(s) PROVE Counts
    <2>1. UNCHANGED <<now, puts, off, orphans>> /\ written' \in {0, written}
      BY <1>9 DEF ResetWritten, Swept, history
    <2> QED BY <1>0, <2>1
  <1>10. ASSUME Tick PROVE Counts
    <2>1. now' = now + 1 /\ now < MaxNow /\ UNCHANGED <<puts, off, written, orphans>>
      BY <1>10 DEF Tick, history
    <2>2. now' <= MaxNow
      BY <1>0, <2>1
    <2> QED BY <1>0, <2>1, <2>2
  <1>11. ASSUME Restart PROVE Counts
    <2>1. /\ UNCHANGED <<now, puts>> /\ written' = 0 /\ off' \in BOOLEAN
          /\ orphans' \subseteq orphans \union {now}
      BY <1>11 DEF Restart
    <2>2. now \in 0..MaxNow
      BY <1>0
    <2> QED BY <1>0, <2>1, <2>2
  <1>12. ASSUME UNCHANGED vars PROVE Counts
    BY <1>1, <1>12 DEF vars, history
  <1> HIDE DEF Counts
  <1>13. Counts
    BY <1>2, <1>3, <1>4, <1>5, <1>6, <1>7, <1>8, <1>9, <1>10, <1>11, <1>12, <1>14 DEF Next
  <1> QED BY <1>13 DEF Counts

LEMMA UncountedAfter ==
  ASSUME [Next]_vars
  PROVE  uncounted' \subseteq uncounted \/ \E p \in Procs : Renamed(p)
PROOF
  <1>1. ASSUME NEW p \in Procs, op[p] # Idle, Rename(p) PROVE UNCHANGED uncounted \/ Renamed(p)
    BY <1>1 DEF Rename, Renamed
  <1>2. ASSUME NEW k \in Keys, GetHit(k) PROVE UNCHANGED uncounted
    BY <1>2 DEF GetHit
  <1>3. ASSUME NEW p \in Procs, NEW k \in Keys, GetRead(p, k) PROVE UNCHANGED uncounted
    BY <1>3 DEF GetRead
  <1>4. ASSUME NEW p \in Procs, NEW k \in Keys, NEW life \in Lives,
               NEW class \in {"durable", "volatile"}, Put(p, k, life, class)
        PROVE  UNCHANGED uncounted
    BY <1>4 DEF Put
  <1>5. ASSUME NEW p \in Procs, GetDone(p) \/ Retire(p) \/ Write(p) PROVE UNCHANGED uncounted
    BY <1>5 DEF GetDone, Retire, Write
  <1>6. ASSUME NEW s \in Sweepers,
               Look(s) \/ ResetWritten(s) \/ Swept(s) \/ \E k \in Keys : RemoveFile(s, k)
        PROVE  UNCHANGED uncounted
    BY <1>6 DEF Look, ResetWritten, Swept, RemoveFile
  <1>7. ASSUME (\E n \in uncounted : Count(n)) \/ Tick \/ Restart \/ UNCHANGED vars
        PROVE  uncounted' \subseteq uncounted
    BY <1>7 DEF Count, Tick, Restart, vars
  <1> QED BY <1>1, <1>2, <1>3, <1>4, <1>5, <1>6, <1>7 DEF Next

LEMMA BoundsStep ==
  ASSUME IInv, IInv', Bounds, [Next]_vars
  PROVE  Bounds'
PROOF
  <1>1. /\ now' <= MaxNow /\ puts' <= MaxPuts /\ puts' >= puts
        /\ off' \in BOOLEAN
        /\ written' \in 0..(Budget - 1) /\ orphans' \subseteq 0..MaxNow
    BY CountsStep
  <1>2. Len(mem') <= MemBudget
    BY MemoryFits DEF Bounds
  <1>3. puts \in Nat /\ puts' \in Nat /\ disk \in [Keys -> Val]
    BY DEF IInv, Shape
  <1>4. ASSUME NEW k \in Keys
        PROVE  disk'[k].ver <= puts'
    <2>1. disk[k].ver \in Nat /\ disk[k].ver <= puts
      BY <1>3 DEF Bounds, Val
    <2>2. CASE disk'[k] \in {disk[k], NoFile}
      BY <1>1, <1>3, <2>1, <2>2 DEF NoFile
    <2>3. ASSUME NEW p \in Procs, Renamed(p)
          PROVE  disk'[k].ver <= puts'
      <3>1. op[p].v.ver \in 1..puts
        BY <2>3 DEF Renamed, IInv, Carries
      <3>2. disk'[k] = disk[k] \/ disk'[k] = op[p].v
        BY <1>3, <2>3 DEF Renamed
      <3> QED BY <1>1, <1>3, <2>1, <3>1, <3>2
    <2> QED BY <2>2, <2>3, DiskAfter
  <1>5. uncounted' \subseteq [key: Keys, ver: 1..MaxPuts]
    <2>1. ASSUME NEW p \in Procs, Renamed(p) PROVE uncounted' \subseteq [key: Keys, ver: 1..MaxPuts]
      <3>1. op[p].v.ver \in 1..puts /\ op[p].key \in Keys
        BY <2>1, OpIdle DEF Renamed, IInv, Carries, Shape, Op
      <3>2. puts \in Nat /\ MaxPuts \in Nat /\ puts <= MaxPuts
        BY <1>3, TieredAssumption DEF Bounds
      <3>3. op[p].v.ver \in 1..MaxPuts
        BY <3>1, <3>2
      <3> QED BY <2>1, <3>1, <3>3 DEF Renamed, Bounds
    <2> QED BY <2>1, UncountedAfter DEF Bounds
  <1> QED BY <1>1, <1>2, <1>4, <1>5 DEF Bounds

LEMMA BoundsInvariant == Spec => []Bounds
PROOF
  <1>1. Init => Bounds
    <2> SUFFICES ASSUME Init PROVE Bounds
      OBVIOUS
    <2>1. /\ now = 0 /\ puts = 0 /\ off \in BOOLEAN /\ mem = <<>>
          /\ written = 0 /\ uncounted = {} /\ orphans = {} /\ disk = [k \in Keys |-> NoFile]
      BY DEF Init
    <2>2. Len(mem) = 0 /\ \A k \in Keys : disk[k].ver = 0
      BY <2>1 DEF NoFile
    <2> QED BY <2>1, <2>2, TieredAssumption DEF Bounds
  <1>2. IInv /\ IInv' /\ Bounds /\ [Next]_vars => Bounds'
    BY BoundsStep
  <1> QED BY <1>1, <1>2, Invariant, PTL DEF Spec

(* Every variable has its type: the memory tier is within its budget and   *)
(* has a key once (MemoryCache), and no number, file or temp file is one   *)
(* the process never gave out.                                             *)
THEOREM TypeCorrect == Spec => []TypeOK
PROOF
  <1>1. IInv /\ Bounds => TypeOK
    <2> SUFFICES ASSUME IInv, Bounds PROVE TypeOK
      OBVIOUS
    <2>1. /\ MaxNow \in Nat /\ MaxPuts \in Nat /\ Budget \in Nat
          /\ now \in Nat /\ puts \in Nat /\ now <= MaxNow /\ puts <= MaxPuts
          /\ written \in 0..(Budget - 1)
      BY TieredAssumption DEF IInv, Shape, Bounds
    <2>2. now \in 0..MaxNow /\ puts \in 0..MaxPuts /\ written \in 0..Budget
      BY <2>1
    <2>3. disk \in [Keys -> [ver : 0..MaxPuts, expires : Nat]]
      <3>1. \A k \in Keys : disk[k] \in Val /\ disk[k].ver <= puts
        BY DEF IInv, Shape, Bounds
      <3>2. \A k \in Keys : disk[k] \in [ver : 0..MaxPuts, expires : Nat]
        BY <2>1, <3>1 DEF Val
      <3> QED BY <3>2 DEF IInv, Shape
    <2>4. \A p \in Procs : op[p] # Idle => op[p].key \in Keys /\ op[p].alone \in BOOLEAN
      BY OpIdle DEF IInv, Shape, Op
    <2>5. \A k \in Keys : floor[k] \in 0..MaxPuts /\ kept[k] \in 0..MaxPuts
      <3>1. \A k \in Keys : floor[k] \in 0..puts /\ kept[k] \in 0..puts
        BY DEF IInv, Shape
      <3> QED BY <2>1, <3>1
    <2> QED BY <2>2, <2>3, <2>4, <2>5 DEF TypeOK, Bounds, IInv, Shape, Unique
  <1> QED BY <1>1, Invariant, BoundsInvariant, PTL
-----------------------------------------------------------------------------
(* Each put has a number of its own, so no two files, and no file and put  *)
(* on its way to another file, have the same one.                          *)
Writing(p) == op[p] # Idle /\ op[p].at \in {"temp", "rename"}

Numbered ==
  /\ \A j, k \in Files : disk[j].ver = disk[k].ver => j = k
  /\ \A p \in Procs, k \in Files : Writing(p) /\ disk[k].ver = op[p].v.ver => k = op[p].key
  /\ \A p, q \in Procs : Writing(p) /\ Writing(q) /\ op[p].v.ver = op[q].v.ver => op[p].key = op[q].key

(* A goroutine that writes a file was writing it before, or has just put.  *)
Still(q) == Writing(q) /\ op'[q].key = op[q].key /\ op'[q].v = op[q].v

LEMMA StartStill ==
  ASSUME IInv, NEW p \in Procs, NEW k \in Keys, NEW o \in Op, op[p] = Idle, o.key = k,
         Start(p, k, o)
  PROVE  /\ op'[p].v = o.v /\ (Writing(p)' => o.at \in {"temp", "rename"})
         /\ \A q \in Procs \ {p} : Writing(q)' => Still(q)
PROOF
  <1>1. /\ op'[p].at = o.at /\ op'[p].v = o.v
        /\ \A q \in Procs \ {p} :
             \/ op'[q] = op[q] /\ (op[q] = Idle \/ op[q].key # k)
             \/ /\ op[q] \in Op /\ op[q].key = k /\ op'[q] \in Op /\ ~op'[q].alone
                /\ op'[q].at = op[q].at /\ op'[q].key = k /\ op'[q].v = op[q].v
                /\ op'[q].class = op[q].class
    BY Started
  <1>2. \A q \in Procs \ {p} : Writing(q)' => Still(q)
    BY <1>1, OpIdle DEF Writing, Still
  <1> QED BY <1>1, <1>2 DEF Writing

LEMMA WritersAfter ==
  ASSUME IInv, [Next]_vars
  PROVE  \/ \A q \in Procs : Writing(q)' => Still(q)
         \/ /\ UNCHANGED disk
            /\ \E p \in Procs : /\ op'[p].v.ver = puts + 1
                                /\ \A q \in Procs \ {p} : Writing(q)' => Still(q)
PROOF
  <1> DEFINE AllStill == \A q \in Procs : Writing(q)' => Still(q)
             OneNew == /\ UNCHANGED disk
                       /\ \E p \in Procs : /\ op'[p].v.ver = puts + 1
                                           /\ \A q \in Procs \ {p} : Writing(q)' => Still(q)
  <1>0. op \in [Procs -> {Idle} \cup Op]
    BY DEF IInv, Shape
  <1>1. ASSUME UNCHANGED op PROVE AllStill
    BY <1>1 DEF Writing, Still
  <1>2. ASSUME NEW k \in Keys, GetHit(k) \/ (\E s \in Sweepers : RemoveFile(s, k)) PROVE AllStill
    BY <1>1, <1>2 DEF GetHit, RemoveFile
  <1>3. ASSUME NEW p \in Procs, NEW k \in Keys, GetRead(p, k) PROVE AllStill
    <2> DEFINE o == [at |-> "have", key |-> k, v |-> disk[k], class |-> "get", alone |-> TRUE]
    <2>1. UNCHANGED op \/ Start(p, k, o)
      BY <1>3 DEF GetRead
    <2>2. o \in Op /\ o.key = k /\ o.at = "have" /\ op[p] = Idle
      BY <1>3 DEF Op, GetRead, IInv, Shape
    <2> HIDE DEF o
    <2>3. ASSUME Start(p, k, o) PROVE AllStill
      BY <2>2, <2>3, StartStill
    <2> QED BY <1>1, <2>1, <2>3
  <1>4. ASSUME NEW p \in Procs, op' = [op EXCEPT ![p] = Idle] PROVE AllStill
    BY <1>0, <1>4 DEF Writing, Still
  <1>5. ASSUME NEW p \in Procs, GetDone(p) \/ Retire(p) \/ Rename(p) PROVE AllStill
    <2>1. op' = [op EXCEPT ![p] = Idle]
      BY <1>5 DEF GetDone, Retire, Rename, Return
    <2> QED BY <1>4, <2>1
  <1>6. ASSUME NEW p \in Procs, op[p] # Idle, Write(p) PROVE AllStill
    <2>1. op[p] \in Op /\ op[p].at = "temp"
      BY <1>0, <1>6, OpIdle DEF Write
    <2>2. op' = [op EXCEPT ![p] = Idle] \/ op' = [op EXCEPT ![p].at = "rename"]
      BY <1>6 DEF Write, Return
    <2>3. ASSUME op' = [op EXCEPT ![p].at = "rename"] PROVE AllStill
      <3> DEFINE r == [op[p] EXCEPT !.at = "rename"]
      <3>1. r.key = op[p].key /\ r.v = op[p].v
        BY <2>1 DEF Op
      <3>2. op'[p] = r /\ \A q \in Procs \ {p} : op'[q] = op[q]
        BY <1>0, <2>3
      <3> HIDE DEF r
      <3> QED BY <1>6, <2>1, <3>1, <3>2 DEF Writing, Still
    <2> QED BY <1>4, <2>2, <2>3
  <1>7. ASSUME NEW p \in Procs, NEW k \in Keys, NEW life \in Lives,
               NEW class \in {"durable", "volatile"}, Put(p, k, life, class)
        PROVE  AllStill \/ OneNew
    <2> DEFINE v == [ver |-> puts + 1, expires |-> now + life]
               o == [at |-> IF class = "volatile" THEN "retire" ELSE "temp",
                     key |-> k, v |-> v, class |-> class, alone |-> TRUE]
    <2>1. op[p] = Idle /\ UNCHANGED disk
      BY <1>7 DEF Put
    <2>2. v \in Val /\ v.ver = puts + 1
      BY TieredAssumption DEF IInv, Shape, Val
    <2>3. CASE class = "durable" /\ off
      <3>1. op' = [q \in Procs |-> IF q \in Out(k) THEN [op[q] EXCEPT !.alone = FALSE] ELSE op[q]]
        BY <1>7, <2>3 DEF Put
      <3>2. ASSUME NEW q \in Procs
            PROVE  Writing(q)' => Still(q)
        <4>1. CASE q \in Out(k)
          <5>1. op[q] \in Op /\ op'[q] = [op[q] EXCEPT !.alone = FALSE]
            BY <1>0, <3>1, <4>1, OpIdle DEF Out
          <5>2. op'[q].at = op[q].at /\ op'[q].key = op[q].key /\ op'[q].v = op[q].v
            BY <5>1 DEF Op
          <5> QED BY <5>1, <5>2, OpIdle DEF Writing, Still
        <4>2. CASE q \notin Out(k)
          <5>1. op'[q] = op[q]
            BY <3>1, <4>2
          <5> QED BY <5>1 DEF Writing, Still
        <4> QED BY <4>1, <4>2
      <3> QED BY <3>2
    <2>4. CASE ~(class = "durable" /\ off)
      <3>1. Start(p, k, o)
        BY <1>7, <2>4 DEF Put
      <3> HIDE DEF v
      <3>2. o \in Op /\ o.key = k /\ o.v = v
        BY <2>2 DEF Op
      <3> HIDE DEF o
      <3>3. op'[p].v.ver = puts + 1 /\ \A q \in Procs \ {p} : Writing(q)' => Still(q)
        BY <2>1, <2>2, <3>1, <3>2, StartStill
      <3> QED BY <2>1, <3>3
    <2> QED BY <2>3, <2>4
  <1>8. ASSUME Restart PROVE AllStill
    BY <1>8 DEF Restart, Writing
  <1>9. ASSUME \/ Tick \/ \E n \in uncounted : Count(n)
               \/ \E s \in Sweepers : Look(s) \/ ResetWritten(s) \/ Swept(s)
        PROVE  AllStill
    BY <1>1, <1>9 DEF Look, ResetWritten, Swept, Count, Tick
  <1>10. ASSUME UNCHANGED vars PROVE AllStill
    BY <1>1, <1>10 DEF vars
  <1> HIDE DEF AllStill, OneNew
  <1>11. AllStill \/ OneNew
    BY <1>2, <1>3, <1>5, <1>6, <1>7, <1>8, <1>9, <1>10 DEF Next
  <1> QED BY <1>11 DEF AllStill, OneNew

LEMMA NumberedStep ==
  ASSUME IInv, Bounds, Numbered, [Next]_vars
  PROVE  Numbered'
PROOF
  <1>1. /\ puts \in Nat /\ disk \in [Keys -> Val]
        /\ \A k \in Keys : disk[k].ver \in Nat /\ disk[k].ver <= puts
    BY DEF IInv, Shape, Bounds, Val
  <1>2. \A p \in Procs : Writing(p) => /\ op[p].v.ver \in Nat /\ op[p].v.ver <= puts
                                       /\ op[p].key \in Keys
    <2>1. \A p \in Procs : Writing(p) => op[p].v.ver \in 1..puts /\ op[p].key \in Keys
      BY OpIdle DEF Writing, IInv, Shape, Carries, Op
    <2> QED BY <1>1, <2>1
  <1>3. CASE UNCHANGED disk
    <2>1. Files' = Files
      BY <1>3 DEF Files
    <2>2. CASE \A q \in Procs : Writing(q)' => Still(q)
      BY <1>3, <2>1, <2>2 DEF Numbered, Still
    <2>3. ASSUME NEW p \in Procs, op'[p].v.ver = puts + 1,
                 \A q \in Procs \ {p} : Writing(q)' => Still(q)
          PROVE  Numbered'
      <3>1. \A k \in Files : disk[k].ver # puts + 1
        BY <1>1 DEF Files
      <3>2. \A q \in Procs \ {p} : Writing(q)' => op'[q].v.ver # puts + 1
        BY <1>1, <1>2, <2>3 DEF Still
      <3>3. \A j, k \in Files' : disk'[j].ver = disk'[k].ver => j = k
        BY <1>3, <2>1 DEF Numbered
      <3>4. \A q \in Procs, k \in Files' :
              Writing(q)' /\ disk'[k].ver = op'[q].v.ver => k = op'[q].key
        BY <1>3, <2>1, <2>3, <3>1 DEF Numbered, Still
      <3>5. \A q, r \in Procs :
              Writing(q)' /\ Writing(r)' /\ op'[q].v.ver = op'[r].v.ver => op'[q].key = op'[r].key
        BY <2>3, <3>2 DEF Numbered, Still
      <3> QED BY <3>3, <3>4, <3>5 DEF Numbered
    <2> QED BY <2>2, <2>3, WritersAfter
  <1>4. CASE ~UNCHANGED disk
    <2>1. \A q \in Procs : Writing(q)' => Still(q)
      BY <1>4, WritersAfter
    <2>2. \A p, q \in Procs :
            Writing(p)' /\ Writing(q)' /\ op'[p].v.ver = op'[q].v.ver => op'[p].key = op'[q].key
      BY <2>1 DEF Numbered, Still
    <2>3. CASE \A k \in Keys : disk'[k] \in {disk[k], NoFile}
      <3>1. \A k \in Files' : k \in Files /\ disk'[k] = disk[k]
        BY <2>3 DEF Files
      <3> QED BY <2>1, <2>2, <3>1 DEF Numbered, Still
    <2>4. ASSUME NEW p \in Procs, Renamed(p)
          PROVE  Numbered'
      <3> DEFINE key == op[p].key
      <3>1. Writing(p) /\ key \in Keys
        BY <1>2, <2>4 DEF Renamed, Writing
      <3>2. disk'[key] = op[p].v /\ \A k \in Keys \ {key} : disk'[k] = disk[k]
        BY <1>1, <2>4, <3>1 DEF Renamed
      <3>3. \A k \in Files' : k = key \/ (k \in Files /\ k # key /\ disk'[k] = disk[k])
        BY <3>2 DEF Files
      <3> HIDE DEF key
      <3>4. \A k \in Files : disk[k].ver = op[p].v.ver => k = key
        BY <3>1 DEF Numbered, key
      <3>5. \A q \in Procs : Writing(q) /\ op[q].v.ver = op[p].v.ver => op[q].key = key
        BY <3>1 DEF Numbered, key
      <3>6. \A j, k \in Files' : disk'[j].ver = disk'[k].ver => j = k
        BY <3>2, <3>3, <3>4 DEF Numbered
      <3>7. \A q \in Procs, k \in Files' :
              Writing(q)' /\ disk'[k].ver = op'[q].v.ver => k = op'[q].key
        BY <2>1, <3>2, <3>3, <3>5 DEF Numbered, Still
      <3> QED BY <2>2, <3>6, <3>7 DEF Numbered
    <2> QED BY <2>3, <2>4, DiskAfter
  <1> QED BY <1>3, <1>4
-----------------------------------------------------------------------------
(* What a sweep leaves of the files it listed is a budget at most: a file  *)
(* is left when fewer than Budget files are newer, and no two are newer    *)
(* than equally many.                                                      *)
LEMMA LeftIsABudget ==
  ASSUME NEW D, IsFiniteSet(D), NEW live \in [D -> Nat],
         \A j, k \in D : live[j] = live[k] => j = k
  PROVE  /\ IsFiniteSet(D \ OverBudget(live))
         /\ Cardinality(D \ OverBudget(live)) <= Budget
PROOF
  <1> DEFINE newer(k) == {j \in D : live[j] > live[k]}
             left == D \ OverBudget(live)
             f == [k \in left |-> Cardinality(newer(k))]
  <1>1. Budget \in Nat \ {0} /\ DOMAIN live = D
    BY TieredAssumption
  <1>2. \A k \in D : IsFiniteSet(newer(k)) /\ Cardinality(newer(k)) \in Nat
    <2> SUFFICES ASSUME NEW k \in D PROVE IsFiniteSet(newer(k)) /\ Cardinality(newer(k)) \in Nat
      OBVIOUS
    <2>1. newer(k) \in SUBSET D
      OBVIOUS
    <2>2. IsFiniteSet(newer(k))
      BY <2>1, FS_Subset
    <2> HIDE DEF newer
    <2> QED BY <2>2, FS_CardinalityType
  <1>3. \A k \in left : k \in D /\ Cardinality(newer(k)) < Budget
    <2>1. \A k \in D : k \notin OverBudget(live) => ~(Cardinality(newer(k)) >= Budget)
      BY <1>1 DEF OverBudget
    <2> HIDE DEF newer
    <2>2. \A k \in left : k \in D /\ ~(Cardinality(newer(k)) >= Budget)
      BY <2>1
    <2> QED BY <1>1, <1>2, <2>2
  <1>4. ASSUME NEW j \in D, NEW k \in D, live[j] < live[k]
        PROVE  Cardinality(newer(k)) < Cardinality(newer(j))
    <2>1. newer(k) \in SUBSET newer(j) /\ k \in newer(j) /\ k \notin newer(k)
      <3>1. \A i \in D : live[i] \in Nat
        OBVIOUS
      <3> QED BY <1>4, <3>1
    <2> HIDE DEF newer
    <2>2. /\ IsFiniteSet(newer(j)) /\ Cardinality(newer(j)) \in Nat /\ Cardinality(newer(k)) \in Nat
      BY <1>2
    <2>3. Cardinality(newer(k)) <= Cardinality(newer(j)) /\ Cardinality(newer(k)) # Cardinality(newer(j))
      BY <2>1, <2>2, FS_Subset
    <2> QED BY <2>2, <2>3
  <1> HIDE DEF newer, left
  <1>5. f \in [left -> 0..(Budget - 1)]
    <2>1. \A k \in left : Cardinality(newer(k)) \in 0..(Budget - 1)
      BY <1>1, <1>2, <1>3
    <2> QED BY <2>1
  <1>6. \A j, k \in left : f[j] = f[k] => j = k
    <2> SUFFICES ASSUME NEW j \in left, NEW k \in left, f[j] = f[k] PROVE j = k
      OBVIOUS
    <2>1. j \in D /\ k \in D /\ Cardinality(newer(j)) = Cardinality(newer(k))
      BY <1>3
    <2>2. live[j] \in Nat /\ live[k] \in Nat /\ Cardinality(newer(j)) \in Nat
      BY <1>2, <2>1
    <2>3. ~(live[j] < live[k]) /\ ~(live[k] < live[j])
      BY <1>4, <2>1, <2>2
    <2> QED BY <2>1, <2>2, <2>3
  <1> HIDE DEF f
  <1>7. f \in Injection(left, 0..(Budget - 1))
    BY <1>5, <1>6 DEF Injection, IsInjective
  <1>8. IsFiniteSet(0..(Budget - 1)) /\ Cardinality(0..(Budget - 1)) = Budget
    <2>1. 0 \in Int /\ Budget - 1 \in Int /\ ~(0 > Budget - 1) /\ (Budget - 1) - 0 + 1 = Budget
      BY <1>1
    <2> QED BY <2>1, FS_Interval
  <1>9. IsFiniteSet(left) /\ Cardinality(left) <= Budget
    BY <1>7, <1>8, FS_Injection
  <1> QED BY <1>9 DEF left
-----------------------------------------------------------------------------
(* What the last listing saw and what was written since.  The sweep that   *)
(* made that listing, once it has reset written, is to remove of the       *)
(* former all but a budget.                                                *)
Listed == [at: {"expired", "over"}, doomed: SUBSET Keys, live: UNION {[D -> Nat] : D \in SUBSET Keys}]

Older == Files \ fresh
Younger == Files \cap fresh
NoneDue == \A s \in Sweepers : sweep[s] # Due

DoomedBy(s) == IF Sweeping(s) THEN sweep[s].doomed ELSE {}
Settles(s) ==
  IF sweep[s].at = "expired" THEN Older \subseteq DOMAIN sweep[s].live \cup sweep[s].doomed
  ELSE Cardinality(Older \ DoomedBy(s)) <= Budget

Sound ==
  /\ IsFiniteSet(Files) /\ resets \subseteq Sweepers
  /\ sweep \in [Sweepers -> {Asleep, Due} \cup Listed]
  /\ \A s \in Sweepers : sweep[s].at = "expired" =>
       /\ s \notin resets /\ IsFiniteSet(DOMAIN sweep[s].live)
       /\ \A j, k \in DOMAIN sweep[s].live : sweep[s].live[j] = sweep[s].live[k] => j = k
Left == NoneDue => \E s \in Sweepers : Settles(s)
Counted == Younger \ {n.key : n \in uncounted}
Late == NoneDue => Cardinality(Counted) <= Cardinality(resets) * (Budget - 1) + written

(* The steps, by what they do to the files and the sweeps.                 *)
Calm ==
  /\ UNCHANGED <<sweep, written, uncounted, fresh, resets>>
  /\ \A k \in Keys : disk'[k] \in {disk[k], NoFile}

LEMMA SweepsAfter ==
  ASSUME IInv, [Next]_vars
  PROVE  \/ Calm
         \/ \E p \in Procs : Renamed(p)
         \/ \E s \in Sweepers : Look(s) \/ ResetWritten(s) \/ Swept(s) \/ \E k \in Keys : RemoveFile(s, k)
         \/ (\E n \in uncounted : Count(n)) \/ Restart
PROOF
  <1>1. ASSUME UNCHANGED <<sweep, written, uncounted, fresh, resets>>
        PROVE  Calm \/ \E p \in Procs : Renamed(p)
    BY <1>1, DiskAfter DEF Calm
  <1>2. ASSUME NEW k \in Keys, GetHit(k) PROVE UNCHANGED <<sweep, written, uncounted, fresh, resets>>
    BY <1>2 DEF GetHit
  <1>3. ASSUME NEW p \in Procs, NEW k \in Keys, GetRead(p, k)
        PROVE  UNCHANGED <<sweep, written, uncounted, fresh, resets>>
    BY <1>3 DEF GetRead
  <1>4. ASSUME NEW p \in Procs, NEW k \in Keys, NEW life \in Lives,
               NEW class \in {"durable", "volatile"}, Put(p, k, life, class)
        PROVE  UNCHANGED <<sweep, written, uncounted, fresh, resets>>
    BY <1>4 DEF Put
  <1>5. ASSUME NEW p \in Procs, GetDone(p) \/ Retire(p) \/ Write(p)
        PROVE  UNCHANGED <<sweep, written, uncounted, fresh, resets>>
    BY <1>5 DEF GetDone, Retire, Write
  <1>6. ASSUME NEW p \in Procs, op[p] # Idle, Rename(p)
        PROVE  Renamed(p) \/ UNCHANGED <<sweep, written, uncounted, fresh, resets>>
    BY <1>6 DEF Rename, Renamed
  <1>7. ASSUME Tick \/ UNCHANGED vars PROVE UNCHANGED <<sweep, written, uncounted, fresh, resets>>
    BY <1>7 DEF Tick, vars
  <1> QED BY <1>1, <1>2, <1>3, <1>4, <1>5, <1>6, <1>7 DEF Next

LEMMA Fewer ==
  ASSUME NEW S, IsFiniteSet(S), NEW T, T \subseteq S
  PROVE  /\ IsFiniteSet(T) /\ Cardinality(T) \in Nat /\ Cardinality(S) \in Nat
         /\ Cardinality(T) <= Cardinality(S)
PROOF
  <1>1. T \in SUBSET S
    OBVIOUS
  <1>2. IsFiniteSet(T) /\ Cardinality(T) <= Cardinality(S)
    BY <1>1, FS_Subset
  <1> QED BY <1>2, FS_CardinalityType

LEMMA Cases ==
  \A e \in {Asleep, Due} \cup Listed :
    /\ e \in Listed <=> e.at \in {"expired", "over"}
    /\ e \in Listed <=> e \notin {Asleep, Due}
    /\ e = Due <=> e.at = "due"
  BY DEF Asleep, Due, Listed

LEMMA FilesAfter ==
  ASSUME IInv, Calm \/ (\E s \in Sweepers, k \in Keys : RemoveFile(s, k))
  PROVE  Files' \subseteq Files
PROOF
  <1>1. disk \in [Keys -> Val]
    BY DEF IInv, Shape
  <1>2. ASSUME NEW s \in Sweepers, NEW k \in Keys, RemoveFile(s, k) PROVE Files' \subseteq Files
    BY <1>1, <1>2 DEF RemoveFile, Files
  <1> QED BY <1>2 DEF Calm, Files
-----------------------------------------------------------------------------
(* The sweeps keep their form, and a sweep that lists resets written once. *)
LEMMA RenamedFiles ==
  ASSUME IInv, NEW p \in Procs, Renamed(p)
  PROVE  op[p].key \in Keys /\ Files' \subseteq Files \cup {op[p].key}
PROOF
  <1>1. op[p].key \in Keys /\ disk \in [Keys -> Val]
    BY OpIdle DEF Renamed, IInv, Shape, Op
  <1> QED BY <1>1 DEF Renamed, Files

LEMMA FilesFinite ==
  ASSUME IInv, IsFiniteSet(Files), [Next]_vars
  PROVE  IsFiniteSet(Files')
PROOF
  <1>1. ASSUME Files' \subseteq Files PROVE IsFiniteSet(Files')
    BY <1>1, Fewer
  <1>2. ASSUME NEW p \in Procs, Renamed(p) PROVE IsFiniteSet(Files')
    <2>1. IsFiniteSet(Files \cup {op[p].key})
      BY FS_AddElement
    <2> QED BY <1>2, <2>1, RenamedFiles, Fewer
  <1>3. ASSUME UNCHANGED disk PROVE Files' \subseteq Files
    BY <1>3 DEF Files
  <1>4. ASSUME NEW s \in Sweepers, Look(s) \/ ResetWritten(s) \/ Swept(s) PROVE UNCHANGED disk
    BY <1>4 DEF Look, ResetWritten, Swept
  <1>5. ASSUME Restart \/ \E n \in uncounted : Count(n) PROVE UNCHANGED disk
    BY <1>5 DEF Restart, Count
  <1> QED BY <1>1, <1>2, <1>3, <1>4, <1>5, SweepsAfter, FilesAfter

LEMMA Lists ==
  ASSUME IInv, Numbered, IsFiniteSet(Files)
  PROVE  LET l == [k \in Survivors |-> disk[k].ver] IN
         /\ [at |-> "expired", doomed |-> Files \ Survivors, live |-> l] \in Listed
         /\ IsFiniteSet(DOMAIN l) /\ DOMAIN l = Survivors
         /\ \A j, k \in DOMAIN l : l[j] = l[k] => j = k
PROOF
  <1> DEFINE l == [k \in Survivors |-> disk[k].ver]
  <1>1. /\ Survivors \subseteq Files /\ Files \subseteq Keys /\ disk \in [Keys -> Val]
    BY DEF Survivors, Files, IInv, Shape
  <1>2. /\ l \in [Survivors -> Nat] /\ Survivors \in SUBSET Keys /\ DOMAIN l = Survivors
        /\ \A j, k \in Survivors : l[j] = l[k] => j = k
    <2>1. \A k \in Survivors : disk[k].ver \in Nat /\ k \in Files
      BY <1>1 DEF Val
    <2>2. \A j, k \in Survivors : disk[j].ver = disk[k].ver => j = k
      BY <2>1 DEF Numbered
    <2> QED BY <1>1, <2>1, <2>2
  <1>3. IsFiniteSet(Survivors)
    BY <1>1, Fewer
  <1> HIDE DEF l
  <1>4. l \in UNION {[D -> Nat] : D \in SUBSET Keys}
    BY <1>2
  <1>5. [at |-> "expired", doomed |-> Files \ Survivors, live |-> l] \in Listed
    BY <1>1, <1>4 DEF Listed
  <1> QED BY <1>2, <1>3, <1>5 DEF l

(* One sweep of s moves and the others stay.                               *)
LEMMA SoundMoves ==
  ASSUME Sound, IsFiniteSet(Files'), NEW s \in Sweepers,
         NEW e \in {Asleep, Due} \cup Listed, sweep' = [sweep EXCEPT ![s] = e],
         resets' \subseteq Sweepers,
         \A t \in Sweepers \ {s} : t \in resets' => t \in resets,
         e.at = "expired" =>
           /\ s \notin resets' /\ IsFiniteSet(DOMAIN e.live)
           /\ \A j, k \in DOMAIN e.live : e.live[j] = e.live[k] => j = k
  PROVE  Sound' /\ sweep'[s] = e /\ \A t \in Sweepers \ {s} : sweep'[t] = sweep[t]
PROOF
  <1>1. sweep'[s] = e /\ \A t \in Sweepers \ {s} : sweep'[t] = sweep[t]
    BY DEF Sound
  <1>2. sweep' \in [Sweepers -> {Asleep, Due} \cup Listed]
    BY DEF Sound
  <1>3. \A t \in Sweepers : sweep'[t].at = "expired" =>
          /\ t \notin resets' /\ IsFiniteSet(DOMAIN sweep'[t].live)
          /\ \A j, k \in DOMAIN sweep'[t].live : sweep'[t].live[j] = sweep'[t].live[k] => j = k
    <2> SUFFICES ASSUME NEW t \in Sweepers, sweep'[t].at = "expired"
                 PROVE  /\ t \notin resets' /\ IsFiniteSet(DOMAIN sweep'[t].live)
                        /\ \A j, k \in DOMAIN sweep'[t].live :
                             sweep'[t].live[j] = sweep'[t].live[k] => j = k
      OBVIOUS
    <2>1. CASE t = s
      BY <1>1, <2>1
    <2>2. CASE t # s
      <3>1. sweep'[t] = sweep[t] /\ sweep[t].at = "expired"
        BY <1>1, <2>2
      <3> QED BY <2>2, <3>1 DEF Sound
    <2> QED BY <2>1, <2>2
  <1> QED BY <1>1, <1>2, <1>3 DEF Sound

LEMMA LookMoves ==
  ASSUME IInv, Numbered, Sound, NEW s \in Sweepers, Look(s)
  PROVE  /\ Sound' /\ fresh' = {} /\ resets' = {} /\ UNCHANGED disk
         /\ sweep'[s].at = "expired" /\ Files \subseteq DOMAIN sweep'[s].live \cup sweep'[s].doomed
PROOF
  <1> DEFINE l == [k \in Survivors |-> disk[k].ver]
             e == [at |-> "expired", doomed |-> Files \ Survivors, live |-> l]
  <1>1. sweep' = [sweep EXCEPT ![s] = e] /\ fresh' = {} /\ resets' = {} /\ UNCHANGED disk
    BY DEF Look
  <1>2. IsFiniteSet(Files) /\ IsFiniteSet(Files')
    BY <1>1 DEF Sound, Files
  <1>3. /\ e \in Listed /\ IsFiniteSet(DOMAIN l) /\ DOMAIN l = Survivors
        /\ \A j, k \in DOMAIN l : l[j] = l[k] => j = k
    BY <1>2, Lists
  <1>4. e.at = "expired" /\ e.doomed = Files \ Survivors /\ e.live = l
    OBVIOUS
  <1> HIDE DEF e, l
  <1>5. Sound' /\ sweep'[s] = e
    <2>1. e.at = "expired" =>
            /\ s \notin resets' /\ IsFiniteSet(DOMAIN e.live)
            /\ \A j, k \in DOMAIN e.live : e.live[j] = e.live[k] => j = k
      BY <1>1, <1>3, <1>4
    <2>2. resets' \subseteq Sweepers /\ \A t \in Sweepers \ {s} : t \in resets' => t \in resets
      BY <1>1
    <2>3. e \in {Asleep, Due} \cup Listed
      BY <1>3
    <2> QED BY <1>1, <1>2, <2>1, <2>2, <2>3, SoundMoves
  <1> QED BY <1>1, <1>3, <1>4, <1>5

LEMMA LessTyped ==
  ASSUME NEW live \in UNION {[D -> Nat] : D \in SUBSET Keys}, NEW gone
  PROVE  Less(live, gone) \in UNION {[D -> Nat] : D \in SUBSET Keys} /\ DOMAIN live \subseteq Keys
PROOF
  <1>1. PICK D \in SUBSET Keys : live \in [D -> Nat]
    OBVIOUS
  <1>2. Less(live, gone) \in [D \ gone -> Nat] /\ D \ gone \in SUBSET Keys
    BY <1>1 DEF Less
  <1> QED BY <1>1, <1>2

LEMMA RemoveMoves ==
  ASSUME IInv, Sound, NEW s \in Sweepers, NEW k \in Keys, RemoveFile(s, k)
  PROVE  /\ Sound' /\ UNCHANGED <<written, uncounted, fresh, resets>>
         /\ sweep[s] \in Listed /\ sweep'[s] \in Listed /\ sweep'[s].at = sweep[s].at
         /\ sweep[s].at = "expired" => DOMAIN sweep'[s].live = DOMAIN sweep[s].live
         /\ sweep[s].doomed \ {k} \subseteq sweep'[s].doomed
         /\ \A t \in Sweepers \ {s} : sweep'[t] = sweep[t]
         /\ Files' = Files \ {k}
PROOF
  <1> DEFINE more == Instead(s, k)
             e == [at |-> sweep[s].at, doomed |-> (sweep[s].doomed \ {k}) \union more,
                   live |-> Less(sweep[s].live, more)]
  <1>1. /\ sweep[s] \in Listed /\ sweep' = [sweep EXCEPT ![s] = e]
        /\ disk' = [disk EXCEPT ![k] = NoFile] /\ UNCHANGED <<written, uncounted, fresh, resets>>
    BY Cases DEF RemoveFile, Sweeping, Sound
  <1>2. /\ Less(sweep[s].live, more) \in UNION {[D -> Nat] : D \in SUBSET Keys}
        /\ DOMAIN sweep[s].live \subseteq Keys
    BY <1>1, LessTyped DEF Listed
  <1>3. more \subseteq Keys /\ (sweep[s].at = "expired" => more = {})
    BY <1>2 DEF Instead, Oldest
  <1> HIDE DEF more
  <1>4. /\ e \in Listed /\ e.at = sweep[s].at /\ e.live = Less(sweep[s].live, more)
        /\ e.doomed = (sweep[s].doomed \ {k}) \union more
    BY <1>1, <1>2, <1>3 DEF Listed
  <1> HIDE DEF e
  <1>5. Files' = Files \ {k}
    BY <1>1 DEF Files, IInv, Shape
  <1>6. IsFiniteSet(Files')
    BY <1>5, Fewer DEF Sound
  <1>7. resets' \subseteq Sweepers /\ \A t \in Sweepers \ {s} : t \in resets' => t \in resets
    BY <1>1 DEF Sound
  <1>8. ASSUME sweep[s].at = "expired"
        PROVE  /\ DOMAIN e.live = DOMAIN sweep[s].live
               /\ \A i \in DOMAIN e.live : e.live[i] = sweep[s].live[i]
    BY <1>3, <1>4, <1>8 DEF Less
  <1>9. e.at = "expired" =>
          /\ s \notin resets' /\ IsFiniteSet(DOMAIN e.live)
          /\ \A i, j \in DOMAIN e.live : e.live[i] = e.live[j] => i = j
    <2>1. sweep[s].at = "expired" =>
            /\ s \notin resets /\ IsFiniteSet(DOMAIN sweep[s].live)
            /\ \A i, j \in DOMAIN sweep[s].live : sweep[s].live[i] = sweep[s].live[j] => i = j
      BY DEF Sound
    <2> QED BY <1>1, <1>4, <1>8, <2>1
  <1>10. Sound' /\ sweep'[s] = e /\ \A t \in Sweepers \ {s} : sweep'[t] = sweep[t]
    BY <1>1, <1>4, <1>6, <1>7, <1>9, SoundMoves
  <1>11. sweep[s].at = "expired" => DOMAIN sweep'[s].live = DOMAIN sweep[s].live
    BY <1>8, <1>10
  <1> QED BY <1>1, <1>4, <1>5, <1>10, <1>11

LEMMA ResetMoves ==
  ASSUME IInv, Sound, NEW s \in Sweepers, ResetWritten(s)
  PROVE  /\ Sound' /\ UNCHANGED <<disk, uncounted, fresh>> /\ written' = 0
         /\ s \notin resets /\ resets' = resets \cup {s}
         /\ sweep[s] \in Listed /\ sweep[s].at = "expired" /\ sweep[s].doomed = {}
         /\ sweep'[s] \in Listed /\ sweep'[s].at = "over"
         /\ sweep'[s].doomed = OverBudget(sweep[s].live)
         /\ \A t \in Sweepers \ {s} : sweep'[t] = sweep[t]
PROOF
  <1> DEFINE over == OverBudget(sweep[s].live)
             e == [at |-> "over", doomed |-> over, live |-> Less(sweep[s].live, over)]
  <1>1. /\ sweep[s].at = "expired" /\ sweep[s].doomed = {} /\ sweep' = [sweep EXCEPT ![s] = e]
        /\ written' = 0 /\ resets' = resets \cup {s} /\ UNCHANGED <<disk, uncounted, fresh>>
    BY DEF ResetWritten, Sound
  <1>2. sweep[s] \in Listed
    BY <1>1, Cases DEF Sound
  <1>3. over \subseteq Keys
    BY <1>2, LessTyped DEF Listed, OverBudget
  <1>4. Less(sweep[s].live, over) \in UNION {[D -> Nat] : D \in SUBSET Keys}
    BY <1>2, LessTyped DEF Listed
  <1>5. e.at = "over" /\ e.doomed = over
    OBVIOUS
  <1> HIDE DEF over
  <1>6. e \in Listed
    BY <1>3, <1>4 DEF Listed
  <1> HIDE DEF e
  <1>7. IsFiniteSet(Files')
    BY <1>1 DEF Sound, Files
  <1>8. Sound' /\ sweep'[s] = e /\ \A t \in Sweepers \ {s} : sweep'[t] = sweep[t]
    BY <1>1, <1>5, <1>6, <1>7, SoundMoves DEF Sound
  <1>9. s \notin resets
    BY <1>1 DEF Sound
  <1> QED BY <1>1, <1>2, <1>5, <1>6, <1>8, <1>9 DEF over

LEMMA SweptMoves ==
  ASSUME Sound, NEW s \in Sweepers, Swept(s)
  PROVE  /\ Sound' /\ UNCHANGED <<disk, written, uncounted, fresh, resets>>
         /\ sweep[s] \in Listed /\ sweep[s].at = "over" /\ sweep[s].doomed = {}
         /\ sweep'[s] = Asleep /\ \A t \in Sweepers \ {s} : sweep'[t] = sweep[t]
PROOF
  <1>1. /\ sweep[s].at = "over" /\ sweep[s].doomed = {} /\ sweep' = [sweep EXCEPT ![s] = Asleep]
        /\ UNCHANGED <<disk, written, uncounted, fresh, resets>>
    BY DEF Swept
  <1>2. sweep[s] \in Listed /\ Asleep.at # "expired"
    BY <1>1, Cases DEF Sound, Asleep
  <1>3. IsFiniteSet(Files')
    BY <1>1 DEF Sound, Files
  <1>4. Sound' /\ sweep'[s] = Asleep /\ \A t \in Sweepers \ {s} : sweep'[t] = sweep[t]
    BY <1>1, <1>2, <1>3, SoundMoves DEF Sound
  <1> QED BY <1>1, <1>2, <1>4

LEMMA RenameMoves ==
  ASSUME IInv, Sound, NEW p \in Procs, Renamed(p)
  PROVE  /\ Sound' /\ fresh' = fresh \cup {op[p].key} /\ UNCHANGED <<sweep, written, resets>>
         /\ uncounted' = uncounted \cup {[key |-> op[p].key, ver |-> op[p].v.ver]}
PROOF
  <1>1. /\ fresh' = fresh \cup {op[p].key} /\ UNCHANGED <<sweep, written, resets>>
        /\ uncounted' = uncounted \cup {[key |-> op[p].key, ver |-> op[p].v.ver]}
    BY DEF Renamed
  <1>2. IsFiniteSet(Files \cup {op[p].key})
    BY FS_AddElement DEF Sound
  <1>3. IsFiniteSet(Files')
    BY <1>2, RenamedFiles, Fewer
  <1> QED BY <1>1, <1>3 DEF Sound

LEMMA CountMoves ==
  ASSUME IInv, Sound, NEW n \in uncounted, Count(n)
  PROVE  /\ Sound' /\ UNCHANGED <<disk, fresh, resets>> /\ uncounted' = uncounted \ {n}
         /\ NoneDue' => sweep' = sweep /\ written' = written + 1
PROOF
  <1>1. NoteWritten /\ UNCHANGED <<disk, fresh, resets>> /\ uncounted' = uncounted \ {n}
    BY DEF Count
  <1>2. IsFiniteSet(Files')
    BY <1>1 DEF Sound, Files
  <1>3. CASE UNCHANGED sweep /\ written' = written + 1
    BY <1>1, <1>2, <1>3 DEF Sound
  <1>4. ASSUME NEW b \in Bursts, sweep' = [sweep EXCEPT ![b] = Due]
        PROVE  Sound' /\ ~NoneDue'
    <2>1. b \in Sweepers /\ Due.at # "expired"
      BY DEF Sweepers, Due
    <2>2. Sound' /\ sweep'[b] = Due
      BY <1>1, <1>2, <1>4, <2>1, SoundMoves DEF Sound
    <2> QED BY <2>1, <2>2 DEF NoneDue
  <1>5. (UNCHANGED sweep /\ written' = written + 1) \/ \E b \in Bursts : sweep' = [sweep EXCEPT ![b] = Due]
    BY <1>1 DEF NoteWritten
  <1> QED BY <1>1, <1>3, <1>4, <1>5

LEMMA RestartMoves ==
  ASSUME Sound, Restart
  PROVE  Sound' /\ ~NoneDue'
PROOF
  <1>1. /\ sweep' = [s \in Sweepers |-> IF s = Hourly THEN Due ELSE Asleep]
        /\ UNCHANGED <<disk, resets>>
    BY DEF Restart
  <1>2. Files' = Files /\ Hourly \in Sweepers
    BY <1>1 DEF Files, Sweepers
  <1>3. sweep' \in [Sweepers -> {Asleep, Due} \cup Listed] /\ \A s \in Sweepers : sweep'[s].at # "expired"
    BY <1>1 DEF Asleep, Due
  <1> QED BY <1>1, <1>2, <1>3 DEF Sound, NoneDue

LEMMA SoundStep ==
  ASSUME IInv, Numbered, Sound, [Next]_vars
  PROVE  Sound'
PROOF
  <1>1. ASSUME Calm PROVE Sound'
    <2>1. IsFiniteSet(Files')
      BY FilesFinite DEF Sound
    <2> QED BY <1>1, <2>1 DEF Calm, Sound
  <1> QED BY <1>1, SweepsAfter, LookMoves, RemoveMoves, ResetMoves, SweptMoves, RenameMoves,
    CountMoves, RestartMoves
-----------------------------------------------------------------------------
(* Of what the last listing saw a budget is left at most.                  *)
LEMMA LeftStep ==
  ASSUME IInv, Numbered, Sound, Left, [Next]_vars
  PROVE  Left'
PROOF
  <1>0. IsFiniteSet(Files) /\ Sound' /\ Budget \in Nat
    BY SoundStep, TieredAssumption DEF Sound
  <1>1. ASSUME NEW s \in Sweepers, Settles(s), UNCHANGED <<fresh>>, Files' \subseteq Files,
               sweep'[s] = sweep[s]
        PROVE  Settles(s)'
    <2>1. Older' \subseteq Older /\ DoomedBy(s)' = DoomedBy(s)
      BY <1>1 DEF Older, DoomedBy, Sweeping
    <2>2. Older' \ DoomedBy(s) \subseteq Older \ DoomedBy(s) /\ Older \ DoomedBy(s) \subseteq Files
      BY <2>1 DEF Older
    <2>3. /\ Cardinality(Older' \ DoomedBy(s)) <= Cardinality(Older \ DoomedBy(s))
          /\ Cardinality(Older' \ DoomedBy(s)) \in Nat /\ Cardinality(Older \ DoomedBy(s)) \in Nat
      BY <1>0, <2>2, Fewer
    <2>4. CASE sweep[s].at = "expired"
      BY <1>1, <2>1, <2>4 DEF Settles
    <2>5. CASE sweep[s].at # "expired"
      <3>1. Cardinality(Older \ DoomedBy(s)) <= Budget
        BY <1>1, <2>5 DEF Settles
      <3>2. Cardinality(Older' \ DoomedBy(s)') <= Budget
        BY <1>0, <2>1, <2>3, <3>1
      <3> QED BY <1>1, <2>5, <3>2 DEF Settles
    <2> QED BY <2>4, <2>5
  <1>2. ASSUME Calm PROVE Left'
    <2>1. /\ UNCHANGED <<sweep, fresh>> /\ Files' \subseteq Files /\ NoneDue' = NoneDue
      BY <1>2, FilesAfter DEF Calm, NoneDue
    <2> QED BY <1>1, <2>1 DEF Left
  <1>3. ASSUME NEW p \in Procs, Renamed(p) PROVE Left'
    <2> SUFFICES ASSUME NoneDue' PROVE \E s \in Sweepers : Settles(s)'
      BY DEF Left
    <2>1. sweep' = sweep /\ fresh' = fresh \cup {op[p].key} /\ Files' \subseteq Files \cup {op[p].key}
      BY <1>3, RenameMoves, RenamedFiles
    <2>2. PICK s \in Sweepers : Settles(s)
      BY <2>1 DEF Left, NoneDue
    <2>3. Older' \subseteq Older /\ DoomedBy(s)' = DoomedBy(s)
      BY <2>1 DEF Older, DoomedBy, Sweeping
    <2>4. Older' \ DoomedBy(s) \subseteq Older \ DoomedBy(s) /\ Older \ DoomedBy(s) \subseteq Files
      BY <2>3 DEF Older
    <2>5. /\ Cardinality(Older' \ DoomedBy(s)) <= Cardinality(Older \ DoomedBy(s))
          /\ Cardinality(Older' \ DoomedBy(s)) \in Nat /\ Cardinality(Older \ DoomedBy(s)) \in Nat
      BY <1>0, <2>4, Fewer
    <2>6. CASE sweep[s].at = "expired"
      BY <2>1, <2>2, <2>3, <2>6 DEF Settles
    <2>7. CASE sweep[s].at # "expired"
      <3>1. Cardinality(Older \ DoomedBy(s)) <= Budget
        BY <2>2, <2>7 DEF Settles
      <3>2. Cardinality(Older' \ DoomedBy(s)') <= Budget
        BY <1>0, <2>3, <2>5, <3>1
      <3> QED BY <2>1, <2>7, <3>2 DEF Settles
    <2> QED BY <2>6, <2>7
  <1>4. ASSUME NEW s \in Sweepers, Look(s) PROVE Left'
    <2>1. /\ sweep'[s].at = "expired" /\ UNCHANGED disk
          /\ Files \subseteq DOMAIN sweep'[s].live \cup sweep'[s].doomed
      BY <1>4, LookMoves
    <2>2. Older' \subseteq Files
      BY <2>1 DEF Older, Files
    <2> QED BY <2>1, <2>2 DEF Left, Settles
  <1>5. ASSUME NEW s \in Sweepers, NEW k \in Keys, RemoveFile(s, k) PROVE Left'
    <2>1. /\ UNCHANGED fresh /\ sweep[s] \in Listed /\ sweep'[s] \in Listed /\ sweep'[s].at = sweep[s].at
          /\ sweep[s].at = "expired" => DOMAIN sweep'[s].live = DOMAIN sweep[s].live
          /\ sweep[s].doomed \ {k} \subseteq sweep'[s].doomed
          /\ \A t \in Sweepers \ {s} : sweep'[t] = sweep[t]
          /\ Files' = Files \ {k}
      BY <1>5, RemoveMoves
    <2> SUFFICES ASSUME NoneDue' PROVE \E t \in Sweepers : Settles(t)'
      BY DEF Left
    <2>2. NoneDue
      <3>1. sweep[s] # Due
        BY <2>1, Cases DEF Sound
      <3> QED BY <2>1, <3>1 DEF NoneDue
    <2>3. PICK t \in Sweepers : Settles(t)
      BY <2>2 DEF Left
    <2>4. CASE t # s
      BY <1>1, <2>1, <2>3, <2>4
    <2>5. CASE t = s
      <3>1. DoomedBy(s) = sweep[s].doomed /\ sweep[s].doomed \ {k} \subseteq DoomedBy(s)'
        <4>1. Sweeping(s) /\ Sweeping(s)'
          BY <2>1, Cases DEF Sweeping, Sound
        <4> QED BY <2>1, <4>1 DEF DoomedBy
      <3>2. Older' = Older \ {k}
        BY <2>1 DEF Older
      <3>3. CASE sweep[s].at = "expired"
        <4>1. Older \subseteq DOMAIN sweep[s].live \cup sweep[s].doomed
          BY <2>3, <2>5, <3>3 DEF Settles
        <4>2. Older' \subseteq DOMAIN sweep'[s].live \cup sweep'[s].doomed
          BY <2>1, <3>2, <3>3, <4>1
        <4> QED BY <2>1, <3>3, <4>2 DEF Settles
      <3>4. CASE sweep[s].at # "expired"
        <4>1. Cardinality(Older \ DoomedBy(s)) <= Budget
          BY <2>3, <2>5, <3>4 DEF Settles
        <4>2. Older' \ DoomedBy(s)' \subseteq Older \ DoomedBy(s) /\ Older \ DoomedBy(s) \subseteq Files
          BY <3>1, <3>2 DEF Older
        <4>3. /\ Cardinality(Older' \ DoomedBy(s)') <= Cardinality(Older \ DoomedBy(s))
              /\ Cardinality(Older' \ DoomedBy(s)') \in Nat /\ Cardinality(Older \ DoomedBy(s)) \in Nat
          BY <1>0, <4>2, Fewer
        <4>4. Cardinality(Older' \ DoomedBy(s)') <= Budget
          BY <1>0, <4>1, <4>3
        <4> QED BY <2>1, <3>4, <4>4 DEF Settles
      <3> QED BY <3>3, <3>4
    <2> QED BY <2>4, <2>5
  <1>6. ASSUME NEW s \in Sweepers, ResetWritten(s) PROVE Left'
    <2>1. /\ UNCHANGED <<disk, fresh>>
          /\ sweep[s] \in Listed /\ sweep[s].at = "expired" /\ sweep[s].doomed = {}
          /\ sweep'[s] \in Listed /\ sweep'[s].at = "over" /\ sweep'[s].doomed = OverBudget(sweep[s].live)
          /\ \A t \in Sweepers \ {s} : sweep'[t] = sweep[t]
      BY <1>6, ResetMoves
    <2> SUFFICES ASSUME NoneDue' PROVE \E t \in Sweepers : Settles(t)'
      BY DEF Left
    <2>2. NoneDue
      <3>1. sweep[s] # Due
        BY <2>1, Cases DEF Sound
      <3> QED BY <2>1, <3>1 DEF NoneDue
    <2>3. PICK t \in Sweepers : Settles(t)
      BY <2>2 DEF Left
    <2>4. Files' = Files /\ Older' = Older
      BY <2>1 DEF Files, Older
    <2>5. CASE t # s
      BY <1>1, <2>1, <2>3, <2>4, <2>5
    <2>6. CASE t = s
      <3> DEFINE live == sweep[s].live
                 D == DOMAIN live
      <3>1. DoomedBy(s)' = OverBudget(live)
        <4>1. Sweeping(s)'
          BY <1>0, <2>1, Cases DEF Sweeping, Sound
        <4> QED BY <2>1, <4>1 DEF DoomedBy
      <3>2. Older \subseteq D
        BY <2>1, <2>3, <2>6 DEF Settles
      <3>3. live \in [D -> Nat] /\ IsFiniteSet(D) /\ \A j, k \in D : live[j] = live[k] => j = k
        <4>1. PICK E \in SUBSET Keys : live \in [E -> Nat]
          BY <2>1 DEF Listed
        <4> QED BY <2>1, <4>1 DEF Sound
      <3> HIDE DEF live, D
      <3>4. IsFiniteSet(D \ OverBudget(live)) /\ Cardinality(D \ OverBudget(live)) <= Budget
        BY <3>3, LeftIsABudget
      <3>5. Older' \ DoomedBy(s)' \subseteq D \ OverBudget(live)
        BY <2>4, <3>1, <3>2
      <3>6. /\ Cardinality(Older' \ DoomedBy(s)') <= Cardinality(D \ OverBudget(live))
            /\ Cardinality(Older' \ DoomedBy(s)') \in Nat /\ Cardinality(D \ OverBudget(live)) \in Nat
        BY <3>4, <3>5, Fewer
      <3>7. Cardinality(Older' \ DoomedBy(s)') <= Budget
        BY <1>0, <3>4, <3>6
      <3> QED BY <2>1, <3>7 DEF Settles
    <2> QED BY <2>5, <2>6
  <1>7. ASSUME NEW s \in Sweepers, Swept(s) PROVE Left'
    <2>1. /\ UNCHANGED <<disk, fresh>>
          /\ sweep[s] \in Listed /\ sweep[s].at = "over" /\ sweep[s].doomed = {}
          /\ sweep'[s] = Asleep /\ \A t \in Sweepers \ {s} : sweep'[t] = sweep[t]
      BY <1>7, SweptMoves
    <2> SUFFICES ASSUME NoneDue' PROVE \E t \in Sweepers : Settles(t)'
      BY DEF Left
    <2>2. NoneDue
      <3>1. sweep[s] # Due
        BY <2>1, Cases DEF Sound
      <3> QED BY <2>1, <3>1 DEF NoneDue
    <2>3. PICK t \in Sweepers : Settles(t)
      BY <2>2 DEF Left
    <2>4. Files' = Files /\ Older' = Older
      BY <2>1 DEF Files, Older
    <2>5. CASE t # s
      BY <1>1, <2>1, <2>3, <2>4, <2>5
    <2>6. CASE t = s
      <3>1. DoomedBy(s) = {} /\ DoomedBy(s)' = {}
        BY <2>1 DEF DoomedBy, Sweeping
      <3>2. Cardinality(Older \ DoomedBy(s)) <= Budget
        BY <2>1, <2>3, <2>6 DEF Settles
      <3>3. sweep'[s].at # "expired"
        BY <2>1 DEF Asleep
      <3> QED BY <2>4, <3>1, <3>2, <3>3 DEF Settles
    <2> QED BY <2>5, <2>6
  <1>8. ASSUME NEW n \in uncounted, Count(n) PROVE Left'
    <2> SUFFICES ASSUME NoneDue' PROVE \E s \in Sweepers : Settles(s)'
      BY DEF Left
    <2>1. UNCHANGED <<sweep, disk, fresh>>
      BY <1>8, CountMoves
    <2>2. Files' \subseteq Files /\ NoneDue
      BY <2>1 DEF Files, NoneDue
    <2> QED BY <1>1, <2>1, <2>2 DEF Left
  <1>9. ASSUME Restart PROVE Left'
    BY <1>9, RestartMoves DEF Left
  <1> QED BY <1>2, <1>3, <1>4, <1>5, <1>6, <1>7, <1>8, <1>9, SweepsAfter
-----------------------------------------------------------------------------
(* What was written since the last listing is in written, or was when a    *)
(* sweep under way reset it.                                               *)
LEMMA LateStep ==
  ASSUME IInv, Bounds, Numbered, Sound, Late, [Next]_vars
  PROVE  Late'
PROOF
  <1>0. /\ IsFiniteSet(Files) /\ IsFiniteSet(resets) /\ Cardinality(resets) \in Nat
        /\ Budget \in Nat \ {0} /\ written \in 0..(Budget - 1) /\ Cardinality(resets) * (Budget - 1) \in Nat
    <2>1. IsFiniteSet(Sweepers)
      BY TieredAssumption, FS_AddElement, FS_Union, FS_Singleton DEF Sweepers
    <2>2. IsFiniteSet(resets) /\ Cardinality(resets) \in Nat
      BY <2>1, Fewer DEF Sound
    <2>3. PICK b \in Nat : b = Budget - 1
      BY TieredAssumption
    <2>4. Cardinality(resets) * b \in Nat
      BY <2>2, <2>3
    <2> QED BY <2>2, <2>3, <2>4, TieredAssumption DEF Sound, Bounds
  <1>1. ASSUME UNCHANGED <<written, uncounted, fresh, resets>>, Files' \subseteq Files, NoneDue' => NoneDue
        PROVE  Late'
    <2>1. Counted' \subseteq Counted /\ Counted \subseteq Files
      BY <1>1 DEF Counted, Younger
    <2>2. /\ Cardinality(Counted') <= Cardinality(Counted)
          /\ Cardinality(Counted') \in Nat /\ Cardinality(Counted) \in Nat
      BY <1>0, <2>1, Fewer
    <2>3. ASSUME NoneDue PROVE Cardinality(Counted') <= Cardinality(resets) * (Budget - 1) + written
      <3>1. Cardinality(Counted) <= Cardinality(resets) * (Budget - 1) + written
        BY <2>3 DEF Late
      <3> QED BY <1>0, <2>2, <3>1
    <2> QED BY <1>1, <2>3 DEF Late
  <1>2. ASSUME Calm PROVE Late'
    <2>1. UNCHANGED <<sweep, written, uncounted, fresh, resets>> /\ Files' \subseteq Files
      BY <1>2, FilesAfter DEF Calm
    <2> QED BY <1>1, <2>1 DEF NoneDue
  <1>3. ASSUME NEW p \in Procs, Renamed(p) PROVE Late'
    <2> DEFINE k == op[p].key
               n == [key |-> k, ver |-> op[p].v.ver]
    <2>1. /\ UNCHANGED <<sweep, written, resets>> /\ uncounted' = uncounted \cup {n} /\ n.key = k
          /\ fresh' = fresh \cup {k} /\ Files' \subseteq Files \cup {k}
      BY <1>3, RenameMoves, RenamedFiles
    <2> HIDE DEF k, n
    <2>2. Counted' \subseteq Counted /\ Counted \subseteq Files
      BY <2>1 DEF Counted, Younger
    <2>3. /\ Cardinality(Counted') <= Cardinality(Counted)
          /\ Cardinality(Counted') \in Nat /\ Cardinality(Counted) \in Nat
      BY <1>0, <2>2, Fewer
    <2>4. ASSUME NoneDue PROVE Cardinality(Counted') <= Cardinality(resets) * (Budget - 1) + written
      <3>1. Cardinality(Counted) <= Cardinality(resets) * (Budget - 1) + written
        BY <2>4 DEF Late
      <3> QED BY <1>0, <2>3, <3>1
    <2> QED BY <2>1, <2>4 DEF Late, NoneDue
  <1>4. ASSUME NEW s \in Sweepers, Look(s) PROVE Late'
    <2>1. fresh' = {} /\ resets' = {} /\ UNCHANGED written
      BY <1>4 DEF Look
    <2>2. Counted' = {}
      BY <2>1 DEF Counted, Younger
    <2>3. Cardinality(Counted') = 0 /\ Cardinality(resets') = 0
      BY <2>1, <2>2, FS_EmptySet
    <2>4. Cardinality(Counted') <= Cardinality(resets') * (Budget - 1) + written'
      BY <1>0, <2>1, <2>3
    <2> QED BY <2>4 DEF Late
  <1>5. ASSUME NEW s \in Sweepers, NEW k \in Keys, RemoveFile(s, k) PROVE Late'
    <2>1. /\ UNCHANGED <<written, uncounted, fresh, resets>> /\ sweep[s] \in Listed
          /\ \A t \in Sweepers \ {s} : sweep'[t] = sweep[t] /\ Files' = Files \ {k}
      BY <1>5, RemoveMoves
    <2>2. NoneDue' => NoneDue
      BY <2>1, Cases DEF Sound, NoneDue
    <2>3. Files' \subseteq Files
      BY <1>5, FilesAfter
    <2> QED BY <1>1, <2>1, <2>2, <2>3
  <1>6. ASSUME NEW s \in Sweepers, ResetWritten(s) PROVE Late'
    <2>1. /\ UNCHANGED <<disk, uncounted, fresh>> /\ written' = 0 /\ s \notin resets /\ resets' = resets \cup {s}
          /\ sweep[s] \in Listed /\ \A t \in Sweepers \ {s} : sweep'[t] = sweep[t]
      BY <1>6, ResetMoves
    <2>2. NoneDue' => NoneDue
      BY <2>1, Cases DEF Sound, NoneDue
    <2>3. Counted' = Counted /\ Cardinality(Counted) \in Nat
      <3>1. Counted' = Counted /\ Counted \subseteq Files
        BY <2>1 DEF Counted, Younger, Files
      <3> QED BY <1>0, <3>1, Fewer
    <2>4. Cardinality(resets') = Cardinality(resets) + 1
      BY <1>0, <2>1, FS_AddElement
    <2>5. ASSUME NoneDue PROVE Cardinality(Counted') <= Cardinality(resets') * (Budget - 1) + written'
      <3>1. Cardinality(Counted) <= Cardinality(resets) * (Budget - 1) + written
        BY <2>5 DEF Late
      <3>2. PICK c \in Nat, b \in Nat : c = Cardinality(resets) /\ b = Budget - 1
        BY <1>0
      <3>3. (c + 1) * b = c * b + b /\ c * b \in Nat
        BY <3>2
      <3>4. Cardinality(resets') * (Budget - 1) = c * b + b
        BY <2>4, <3>2, <3>3
      <3>5. Cardinality(Counted) <= c * b + b
        BY <1>0, <2>3, <3>1, <3>2, <3>3
      <3> QED BY <2>1, <2>3, <3>3, <3>4, <3>5
    <2> QED BY <2>2, <2>5 DEF Late
  <1>7. ASSUME NEW s \in Sweepers, Swept(s) PROVE Late'
    <2>1. /\ UNCHANGED <<disk, written, uncounted, fresh, resets>> /\ sweep[s] \in Listed
          /\ \A t \in Sweepers \ {s} : sweep'[t] = sweep[t]
      BY <1>7, SweptMoves
    <2>2. NoneDue' => NoneDue
      BY <2>1, Cases DEF Sound, NoneDue
    <2>3. Files' \subseteq Files
      BY <2>1 DEF Files
    <2> QED BY <1>1, <2>1, <2>2, <2>3
  <1>8. ASSUME NEW n \in uncounted, Count(n) PROVE Late'
    <2> DEFINE k == n.key
    <2> SUFFICES ASSUME NoneDue'
                 PROVE  Cardinality(Counted') <= Cardinality(resets') * (Budget - 1) + written'
      BY DEF Late
    <2>1. /\ sweep' = sweep /\ written' = written + 1 /\ UNCHANGED <<disk, fresh, resets>>
          /\ uncounted' = uncounted \ {n}
      BY <1>8, CountMoves
    <2>2. Cardinality(Counted) <= Cardinality(resets) * (Budget - 1) + written
      BY <2>1 DEF Late, NoneDue
    <2>3. Counted' \subseteq Counted \cup {k} /\ Counted \subseteq Files
      BY <2>1 DEF Counted, Younger, Files
    <2> HIDE DEF k
    <2>4. /\ IsFiniteSet(Counted \cup {k}) /\ Cardinality(Counted) \in Nat
          /\ Cardinality(Counted \cup {k}) <= Cardinality(Counted) + 1
      <3>1. IsFiniteSet(Counted) /\ Cardinality(Counted) \in Nat
        BY <1>0, <2>3, Fewer
      <3>2. Cardinality(Counted \cup {k}) = IF k \in Counted THEN Cardinality(Counted) ELSE Cardinality(Counted) + 1
        BY <3>1, FS_AddElement
      <3>3. IsFiniteSet(Counted \cup {k})
        BY <3>1, FS_AddElement
      <3> QED BY <3>1, <3>2, <3>3
    <2>5. /\ Cardinality(Counted') <= Cardinality(Counted \cup {k}) /\ Cardinality(Counted') \in Nat
          /\ Cardinality(Counted \cup {k}) \in Nat
      BY <2>3, <2>4, Fewer
    <2> QED BY <1>0, <2>1, <2>2, <2>4, <2>5
  <1>9. ASSUME Restart PROVE Late'
    BY <1>9, RestartMoves DEF Late
  <1> QED BY <1>2, <1>3, <1>4, <1>5, <1>6, <1>7, <1>8, <1>9, SweepsAfter

(* With no sweep due or running the volume holds, of what the last listing *)
(* saw, a budget at most; and of what was written since, less than a       *)
(* budget, and less than another for every sweep that reset the counter in *)
(* that time (Sweep and noteWritten of diskcache.go), whatever Gets, Puts  *)
(* and other sweeps interleave.                                            *)
THEOREM DiskStaysBounded == Spec => []DiskBounded
PROOF
  <1>1. Init => Numbered /\ Sound /\ Left /\ Late
    <2> SUFFICES ASSUME Init PROVE Numbered /\ Sound /\ Left /\ Late
      OBVIOUS
    <2>1. /\ disk = [k \in Keys |-> NoFile] /\ op = [p \in Procs |-> Idle] /\ resets = {}
          /\ sweep = [s \in Sweepers |-> IF s = Hourly THEN Due ELSE Asleep] /\ Hourly \in Sweepers
      BY DEF Init, Sweepers
    <2>2. Files = {} /\ \A p \in Procs : ~Writing(p)
      BY <2>1 DEF Files, Writing
    <2>3. IsFiniteSet(Files)
      BY <2>2, FS_EmptySet
    <2>4. /\ sweep \in [Sweepers -> {Asleep, Due} \cup Listed]
          /\ \A s \in Sweepers : sweep[s].at # "expired"
      BY <2>1 DEF Asleep, Due
    <2>5. ~NoneDue
      BY <2>1 DEF NoneDue
    <2> QED BY <2>1, <2>2, <2>3, <2>4, <2>5 DEF Numbered, Sound, Left, Late
  <1>2. IInv /\ Bounds /\ Numbered /\ Sound /\ Left /\ Late /\ [Next]_vars
          => Numbered' /\ Sound' /\ Left' /\ Late'
    BY NumberedStep, SoundStep, LeftStep, LateStep
  <1>3. Bounds /\ Sound /\ Left /\ Late => DiskBounded
    <2> SUFFICES ASSUME Bounds, Sound, Left, Late, Quiet
                 PROVE  /\ Cardinality(Older) <= Budget
                        /\ Cardinality(Counted) <= (Cardinality(resets) + 1) * (Budget - 1)
      BY DEF DiskBounded, Older, Counted, Younger
    <2>1. NoneDue
      BY DEF Quiet, NoneDue, Asleep, Due
    <2>2. PICK s \in Sweepers : Settles(s)
      BY <2>1 DEF Left
    <2>3. sweep[s].at # "expired" /\ DoomedBy(s) = {}
      BY DEF Quiet, Asleep, DoomedBy, Sweeping
    <2>4. Cardinality(Older) <= Budget
      BY <2>2, <2>3 DEF Settles
    <2>5. Cardinality(Counted) <= Cardinality(resets) * (Budget - 1) + written
      BY <2>1 DEF Late
    <2>6. Budget \in Nat \ {0} /\ written \in 0..(Budget - 1) /\ IsFiniteSet(Files)
      BY TieredAssumption DEF Bounds, Sound
    <2>7. Cardinality(resets) \in Nat /\ Cardinality(Counted) \in Nat
      <3>1. IsFiniteSet(Sweepers)
        BY TieredAssumption, FS_AddElement, FS_Union, FS_Singleton DEF Sweepers
      <3>2. Counted \subseteq Files
        BY DEF Counted, Younger
      <3> QED BY <2>6, <3>1, <3>2, Fewer DEF Sound
    <2>8. PICK c \in Nat, b \in Nat : c = Cardinality(resets) /\ b = Budget - 1
      BY <2>6, <2>7
    <2>9. (c + 1) * b = c * b + b /\ c * b \in Nat
      OBVIOUS
    <2>10. Cardinality(Counted) <= (c + 1) * b
      BY <2>5, <2>6, <2>7, <2>8, <2>9
    <2> QED BY <2>4, <2>8, <2>10
  <1> QED BY <1>1, <1>2, <1>3, Invariant, BoundsInvariant, PTL DEF Spec
=============================================================================
