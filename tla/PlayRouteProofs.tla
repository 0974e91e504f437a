-------------------------- MODULE PlayRouteProofs --------------------------
(* Theorems about PlayRoute, with their proofs.                            *)
(*                                                                         *)
(* What a play or a probe answers is a claim about accounts it read some   *)
(* steps before, so the invariant says what a request has established by   *)
(* each of its stages, of the stores that did not change since and that    *)
(* answered with what is (Told): that a store whose status was read is not *)
(* fetching the release (StatusRead), that a probe keeps whom it could not *)
(* hear (UnheardKept) and has asked every store that holds it (Enquiring), *)
(* and that a walk that may add asks the stores it knows an id at first    *)
(* and has made a link of what it found ready there (Resolving).  The two  *)
(* routes agree because what the last answer said of the release is so     *)
(* while nothing changes (Agreeing).                                       *)
(*                                                                         *)
(* The queues of stores a request works through are sequences that a       *)
(* finite set is put in order into; the first section is about those.      *)
EXTENDS PlayRoute, TLAPS, FiniteSetTheorems, SequenceTheorems
-----------------------------------------------------------------------------
(***************************************************************************)
(* The order stores are asked in                                           *)
(***************************************************************************)

(* What is left of a queue after its head.                                 *)
LEMMA TailFacts ==
  ASSUME NEW S, NEW q \in Seq(S), q # <<>>
  PROVE  /\ Head(q) \in Range(q) /\ Tail(q) \in Seq(S)
         /\ Range(Tail(q)) \subseteq Range(q)
         /\ Range(q) \subseteq {Head(q)} \cup Range(Tail(q))
         /\ Len(Tail(q)) = Len(q) - 1 /\ \A i \in 1..Len(Tail(q)) : Tail(q)[i] = q[i + 1]
         /\ IsInjective(q) => IsInjective(Tail(q))
PROOF
  <1>1. /\ Tail(q) \in Seq(S) /\ Len(Tail(q)) = Len(q) - 1
        /\ \A i \in 1..Len(Tail(q)) : Tail(q)[i] = q[i + 1]
    BY HeadTailProperties
  <1>2. Len(q) \in Nat \ {0} /\ DOMAIN q = 1..Len(q) /\ DOMAIN Tail(q) = 1..Len(Tail(q))
    BY <1>1, EmptySeq, LenProperties
  <1>3. Head(q) = q[1] /\ 1 \in DOMAIN q
    BY <1>2
  <1>4. ASSUME NEW i \in DOMAIN q, i # 1
        PROVE  i - 1 \in DOMAIN Tail(q) /\ Tail(q)[i - 1] = q[i]
    BY <1>1, <1>2, <1>4
  <1>5. ASSUME NEW i \in DOMAIN Tail(q) PROVE i + 1 \in DOMAIN q /\ Tail(q)[i] = q[i + 1]
    BY <1>1, <1>2
  <1>6. Range(Tail(q)) \subseteq Range(q)
    BY <1>5 DEF Range
  <1>7. Range(q) \subseteq {Head(q)} \cup Range(Tail(q))
    BY <1>3, <1>4 DEF Range
  <1>8. IsInjective(q) => IsInjective(Tail(q))
    <2> SUFFICES ASSUME IsInjective(q), NEW a \in DOMAIN Tail(q), NEW b \in DOMAIN Tail(q),
                        Tail(q)[a] = Tail(q)[b]
                 PROVE  a = b
      BY DEF IsInjective
    <2>1. a + 1 = b + 1
      BY <1>5 DEF IsInjective
    <2> QED BY <1>2, <2>1
  <1> QED BY <1>1, <1>3, <1>6, <1>7, <1>8 DEF Range

(* Two queues with nothing in common, one after the other.                 *)
LEMMA ConcatFacts ==
  ASSUME NEW S, NEW p \in Seq(S), NEW q \in Seq(S)
  PROVE  /\ p \o q \in Seq(S) /\ Range(p \o q) = Range(p) \cup Range(q)
         /\ IsInjective(p) /\ IsInjective(q) /\ Range(p) \cap Range(q) = {} => IsInjective(p \o q)
PROOF
  <1>1. /\ p \o q \in Seq(S) /\ Len(p \o q) = Len(p) + Len(q)
        /\ \A i \in 1..(Len(p) + Len(q)) :
             (p \o q)[i] = IF i <= Len(p) THEN p[i] ELSE q[i - Len(p)]
    BY ConcatProperties
  <1>2. /\ Len(p) \in Nat /\ Len(q) \in Nat
        /\ DOMAIN p = 1..Len(p) /\ DOMAIN q = 1..Len(q) /\ DOMAIN (p \o q) = 1..(Len(p) + Len(q))
    BY <1>1, LenProperties
  <1>3. ASSUME NEW i \in DOMAIN p PROVE i \in DOMAIN (p \o q) /\ (p \o q)[i] = p[i]
    BY <1>1, <1>2
  <1>4. ASSUME NEW i \in DOMAIN q
        PROVE  i + Len(p) \in DOMAIN (p \o q) /\ (p \o q)[i + Len(p)] = q[i]
    <2>1. i + Len(p) \in 1..(Len(p) + Len(q)) /\ ~(i + Len(p) <= Len(p)) /\ (i + Len(p)) - Len(p) = i
      BY <1>2
    <2> QED BY <1>1, <1>2, <2>1
  <1>5. ASSUME NEW i \in DOMAIN (p \o q)
        PROVE  \/ i \in DOMAIN p /\ (p \o q)[i] = p[i]
               \/ i - Len(p) \in DOMAIN q /\ (p \o q)[i] = q[i - Len(p)]
    BY <1>1, <1>2
  <1>6. Range(p \o q) = Range(p) \cup Range(q)
    <2>1. Range(p \o q) \subseteq Range(p) \cup Range(q)
      BY <1>5 DEF Range
    <2>2. Range(p) \subseteq Range(p \o q)
      BY <1>3 DEF Range
    <2>3. Range(q) \subseteq Range(p \o q)
      BY <1>4 DEF Range
    <2> QED BY <2>1, <2>2, <2>3
  <1>7. ASSUME IsInjective(p), IsInjective(q), Range(p) \cap Range(q) = {},
               NEW a \in DOMAIN (p \o q), NEW b \in DOMAIN (p \o q), (p \o q)[a] = (p \o q)[b]
        PROVE  a = b
    <2>1. CASE a \in DOMAIN p /\ b \in DOMAIN p
      BY <1>3, <1>7, <2>1 DEF IsInjective
    <2>2. CASE a - Len(p) \in DOMAIN q /\ b - Len(p) \in DOMAIN q /\ ~(a \in DOMAIN p) /\ ~(b \in DOMAIN p)
      <3>1. (p \o q)[a] = q[a - Len(p)] /\ (p \o q)[b] = q[b - Len(p)]
        BY <1>5, <2>2
      <3>2. a - Len(p) = b - Len(p)
        BY <1>7, <2>2, <3>1 DEF IsInjective
      <3> QED BY <1>2, <3>2
    <2>3. CASE a \in DOMAIN p /\ ~(b \in DOMAIN p)
      <3>1. (p \o q)[a] \in Range(p)
        BY <1>3, <2>3 DEF Range
      <3>2. (p \o q)[b] \in Range(q)
        BY <1>5, <2>3 DEF Range
      <3> QED BY <1>7, <3>1, <3>2
    <2>4. CASE b \in DOMAIN p /\ ~(a \in DOMAIN p)
      <3>1. (p \o q)[b] \in Range(p)
        BY <1>3, <2>4 DEF Range
      <3>2. (p \o q)[a] \in Range(q)
        BY <1>5, <2>4 DEF Range
      <3> QED BY <1>7, <3>1, <3>2
    <2> QED BY <1>5, <2>1, <2>2, <2>3, <2>4
  <1> QED BY <1>1, <1>6, <1>7 DEF IsInjective

(* The n-th place of a finite set of numbers is one of them, and every one *)
(* of them is the n-th for one n.                                          *)
LEMMA Places ==
  ASSUME NEW P \in SUBSET Nat, IsFiniteSet(P)
  PROVE  LET nth(n) == CHOOSE i \in P : Cardinality({j \in P : j <= i}) = n IN
         /\ Cardinality(P) \in Nat
         /\ \A n \in 1..Cardinality(P) :
              nth(n) \in P /\ Cardinality({j \in P : j <= nth(n)}) = n
         /\ \A i \in P : \E n \in 1..Cardinality(P) : nth(n) = i
PROOF
  <1> DEFINE upto(i) == {j \in P : j <= i}
             rank == [i \in P |-> Cardinality(upto(i))]
             N == Cardinality(P)
             nth(n) == CHOOSE i \in P : Cardinality({j \in P : j <= i}) = n
  <1>1. N \in Nat
    BY FS_CardinalityType
  <1>2. ASSUME NEW i \in P PROVE IsFiniteSet(upto(i)) /\ Cardinality(upto(i)) \in 1..N
    <2>1. upto(i) \in SUBSET P /\ i \in upto(i)
      OBVIOUS
    <2>2. IsFiniteSet(upto(i)) /\ Cardinality(upto(i)) <= N
      BY <2>1, FS_Subset
    <2>3. Cardinality(upto(i)) \in Nat /\ Cardinality(upto(i)) # 0
      BY <2>1, <2>2, FS_CardinalityType, FS_EmptySet
    <2> QED BY <1>1, <2>2, <2>3
  <1>3. ASSUME NEW a \in P, NEW b \in P, Cardinality(upto(a)) = Cardinality(upto(b))
        PROVE  a = b
    <2>1. upto(a) \in SUBSET upto(b) \/ upto(b) \in SUBSET upto(a)
      <3>1. a \in Nat /\ b \in Nat /\ \A j \in P : j \in Nat
        OBVIOUS
      <3>2. CASE a <= b
        <4>1. \A j \in P : j <= a => j <= b
          BY <3>1, <3>2
        <4> QED BY <4>1
      <3>3. CASE b <= a
        <4>1. \A j \in P : j <= b => j <= a
          BY <3>1, <3>3
        <4> QED BY <4>1
      <3> QED BY <3>1, <3>2, <3>3
    <2>2. IsFiniteSet(upto(a)) /\ IsFiniteSet(upto(b))
      BY <1>2
    <2>3. upto(a) = upto(b)
      <3>1. CASE upto(a) \in SUBSET upto(b)
        BY <1>3, <2>2, <3>1, FS_Subset
      <3>2. CASE upto(b) \in SUBSET upto(a)
        BY <1>3, <2>2, <3>2, FS_Subset
      <3> QED BY <2>1, <3>1, <3>2
    <2>4. a \in upto(b) /\ b \in upto(a)
      BY <2>3
    <2> QED BY <2>4
  <1>4. rank \in Injection(P, 1..N)
    BY <1>2, <1>3 DEF Injection, IsInjective
  <1>5. IsFiniteSet(1..N) /\ Cardinality(1..N) = N
    BY <1>1, FS_Interval
  <1>6. rank \in Surjection(P, 1..N)
    BY <1>4, <1>5, FS_Injection
  <1>7. ASSUME NEW n \in 1..N PROVE nth(n) \in P /\ Cardinality({j \in P : j <= nth(n)}) = n
    <2>1. \E i \in P : Cardinality({j \in P : j <= i}) = n
      BY <1>6 DEF Surjection
    <2> QED BY <2>1
  <1>8. ASSUME NEW i \in P PROVE \E n \in 1..N : nth(n) = i
    <2>1. PICK n \in 1..N : n = Cardinality(upto(i))
      BY <1>2
    <2>2. nth(n) \in P /\ Cardinality(upto(nth(n))) = n
      BY <1>7
    <2> HIDE DEF nth, upto
    <2>3. nth(n) = i
      BY <1>3, <2>1, <2>2
    <2> QED BY <2>3
  <1> QED BY <1>1, <1>7, <1>8

(* The services of a set, each once (debridServices).                      *)
LEMMA ConfiguredFacts ==
  ASSUME NEW S
  PROVE  /\ Configured(S) \in Seq(Services) /\ Range(Configured(S)) = S \cap Services
         /\ IsInjective(Configured(S))
PROOF
  <1> DEFINE P == {i \in DOMAIN Order : Order[i] \in S}
             nth(n) == CHOOSE i \in P : Cardinality({j \in P : j <= i}) = n
             N == Cardinality(P)
  <1>1. Order \in Seq(Services) /\ IsInjective(Order)
    BY OrderAssumption
  <1>2. Len(Order) \in Nat /\ DOMAIN Order = 1..Len(Order)
    BY <1>1, LenProperties
  <1>3. IsFiniteSet(P) /\ P \in SUBSET Nat
    <2>1. IsFiniteSet(1..Len(Order))
      BY <1>2, FS_Interval
    <2> QED BY <1>2, <2>1, FS_Subset
  <1> HIDE DEF P
  <1>4. /\ N \in Nat
        /\ \A n \in 1..N : nth(n) \in P /\ Cardinality({j \in P : j <= nth(n)}) = n
        /\ \A i \in P : \E n \in 1..N : nth(n) = i
    BY <1>3, Places
  <1>5. Configured(S) = [n \in 1..N |-> Order[nth(n)]]
    BY DEF Configured, P
  <1> HIDE DEF nth, N
  <1>6. \A n \in 1..N : Order[nth(n)] \in S \cap Services
    BY <1>4 DEF P, Services, Range
  <1>7. Configured(S) \in Seq(Services)
    BY <1>4, <1>5, <1>6
  <1>8. Range(Configured(S)) = S \cap Services
    <2>1. Range(Configured(S)) \subseteq S \cap Services
      BY <1>5, <1>6 DEF Range
    <2>2. ASSUME NEW s \in S \cap Services PROVE s \in Range(Configured(S))
      <3>1. PICK i \in DOMAIN Order : Order[i] = s
        BY DEF Services, Range
      <3>2. i \in P
        BY <3>1 DEF P
      <3>3. PICK n \in 1..N : nth(n) = i
        BY <1>4, <3>2
      <3> QED BY <1>5, <3>1, <3>3 DEF Range
    <2> QED BY <2>1, <2>2
  <1>9. IsInjective(Configured(S))
    <2> SUFFICES ASSUME NEW a \in 1..N, NEW b \in 1..N, Order[nth(a)] = Order[nth(b)] PROVE a = b
      BY <1>5 DEF IsInjective
    <2>1. nth(a) \in DOMAIN Order /\ nth(b) \in DOMAIN Order
      BY <1>4 DEF P
    <2>2. nth(a) = nth(b)
      BY <1>1, <2>1 DEF IsInjective
    <2> QED BY <1>4, <2>2
  <1> QED BY <1>7, <1>8, <1>9

\* A queue nobody is left in.
LEMMA EmptyQueue ==
  <<>> \in Seq(Services) /\ IsInjective(<<>>) /\ Range(<<>>) = {}
BY EmptySeq DEF IsInjective, Range
-----------------------------------------------------------------------------
(***************************************************************************)
(* The types                                                               *)
(***************************************************************************)

Stages == {"idle", "memo", "recheck", "held", "status", "escalated", "cache check", "enquire",
            "resolve", "after", "check", "relist", "relist check", "cancel"}
Said == {"none", "coming", "ready", "link", "refused", "not found", "dead", "finished or not ours", "cancelled"}
Req == [at : Stages, route : {"none", "play", "probe", "cancel"}, todo : Seq(Services),
        unknown : SUBSET Services, err : {"dead", "refused", "coming"}, truth : BOOLEAN,
        link : Links \cup {NoLink}, spare : Links \cup {NoLink}, answer : Said]

\* The places a play alone comes to; those before a resolve has failed
PlayOnly == {"memo", "recheck", "held", "escalated", "resolve", "after", "check", "relist",
             "relist check"}
Unresolved == {"idle", "memo", "recheck", "held", "status", "escalated", "cache check", "cancel"}

Types ==
  /\ TypeOK
  /\ req \in Req
  /\ req.at \in PlayOnly => req.route = "play"
  /\ req.at \in {"status", "cache check"} => req.route \in {"play", "probe"}
  /\ req.at = "enquire" => req.route = "probe" /\ req.err # "coming"
  /\ req.at = "cancel" <=> req.route = "cancel"
  /\ req.at \in Unresolved => req.err = "dead"
  /\ steady \subseteq Services /\ failed \subseteq Services /\ unheard \subseteq Services
  /\ req.at = "idle" => steady = Services /\ failed = {} /\ unheard = {}
  /\ before \in {"none", "alive", "not found"}

\* What an answer leaves: nobody is served, and what it said of the release is kept.
LEMMA AnswerTypes ==
  ASSUME NEW answer \in Said, Answer(answer), Types
  PROVE  /\ req' \in Req /\ req'.at = "idle" /\ req' = Idle(req'.answer) /\ req'.answer = answer
         /\ req'.todo = <<>> /\ req'.unknown = {} /\ req'.err = "dead" /\ req'.spare = NoLink
         /\ req'.route = "none"
         /\ IsInjective(req'.todo) /\ Range(req'.todo) = {}
         /\ pending' \in BOOLEAN
         /\ steady' = Services /\ failed' = {} /\ unheard' = {}
         /\ before' \in {"none", "alive", "not found"}
         /\ before' = "alive" => Tells(answer) /\ answer \in Alive
         /\ before' = "not found" => Tells(answer) /\ answer = "not found"
PROOF
  <1>1. req' = Idle(answer) /\ Idle(answer) \in Req
    <2>1. <<>> \in Seq(Services)
      BY EmptySeq
    <2> QED BY <2>1 DEF Answer, Idle, Req, Stages
  <1>2. IsInjective(<<>>) /\ Range(<<>>) = {}
    BY DEF IsInjective, Range
  <1>3. pending' \in BOOLEAN
    BY DEF Answer, Types, TypeOK
  <1>4. /\ before' \in {"none", "alive", "not found"}
        /\ before' = "alive" => Tells(answer) /\ answer \in Alive
        /\ before' = "not found" => Tells(answer) /\ answer = "not found"
    BY DEF Answer
  <1>5. steady' = Services /\ failed' = {} /\ unheard' = {}
    BY DEF Answer
  <1>6. /\ Idle(answer).at = "idle" /\ Idle(answer).answer = answer /\ Idle(answer).todo = <<>>
        /\ Idle(answer).unknown = {} /\ Idle(answer).err = "dead" /\ Idle(answer).spare = NoLink
        /\ Idle(answer).route = "none"
    BY DEF Idle
  <1> HIDE DEF Said
  <1> QED BY <1>1, <1>2, <1>3, <1>4, <1>5, <1>6

\* The part of the types that an answer changes.
LEMMA TypesAfterAnswer ==
  ASSUME NEW answer \in Said, Answer(answer), Types,
         has' \in [Services -> {"none", "fetching", "ready"}],
         knows' \in [Services -> BOOLEAN], marks' \in [Services -> MarkSets],
         memo' \in [link : Links \cup {NoLink}, checked : BOOLEAN],
         memo'.link = NoLink => memo' = NoMemo
  PROVE  Types'
PROOF
  <1>1. TypeOK'
    BY AnswerTypes DEF TypeOK
  <1> QED BY <1>1, AnswerTypes DEF Types, PlayOnly, Unresolved

\* An account's state after an answer of its store keeps its type.
LEMMA AnswersTypes ==
  ASSUME Types, NEW s \in Services, NEW noAdd \in BOOLEAN, NEW says \in Says,
         Answers(s, noAdd, says)
  PROVE  /\ has' = has /\ marks' = marks
         /\ knows' = knows \/ knows' = [knows EXCEPT ![s] = FALSE]
         /\ knows' \in [Services -> BOOLEAN]
BY DEF Answers, store, Types, TypeOK

\* An add leaves every account's state in its type, and that of the others alone.
LEMMA AddsTypes ==
  ASSUME Types, NEW s \in Services, NEW says \in Says, Adds(s, says)
  PROVE  /\ has' \in [Services -> {"none", "fetching", "ready"}]
         /\ knows' \in [Services -> BOOLEAN] /\ marks' \in [Services -> MarkSets]
         /\ \A t \in Services \ {s} : has'[t] = has[t] /\ knows'[t] = knows[t] /\ marks'[t] = marks[t]
PROOF
  <1>1. \A now \in {"none", "fetching", "ready"} :
          [has EXCEPT ![s] = now] \in [Services -> {"none", "fetching", "ready"}]
    BY DEF Types, TypeOK
  <1>2. \A b \in BOOLEAN : [knows EXCEPT ![s] = b] \in [Services -> BOOLEAN]
    BY DEF Types, TypeOK
  <1>3. \A m \in MarkSets : [marks EXCEPT ![s] = m] \in [Services -> MarkSets]
    BY DEF Types, TypeOK
  <1>4. \A bar \in {"refused", "rejected", "out"} : {bar} \in MarkSets
    BY DEF MarkSets
  <1>5. has[s] \in {"none", "fetching", "ready"}
    BY DEF Types, TypeOK
  <1>6. /\ has' = has \/ \E now \in {"none", "fetching", "ready"} : has' = [has EXCEPT ![s] = now]
        /\ \E b \in BOOLEAN : knows' = [knows EXCEPT ![s] = b]
        /\ marks' = marks \/ \E bar \in {"refused", "rejected", "out"} : marks' = [marks EXCEPT ![s] = {bar}]
    BY <1>5 DEF Adds
  <1>7. /\ has' \in [Services -> {"none", "fetching", "ready"}]
        /\ knows' \in [Services -> BOOLEAN] /\ marks' \in [Services -> MarkSets]
    <2>1. has' \in [Services -> {"none", "fetching", "ready"}]
      BY <1>1, <1>6 DEF Types, TypeOK
    <2>2. knows' \in [Services -> BOOLEAN]
      BY <1>2, <1>6
    <2>3. marks' \in [Services -> MarkSets]
      <3>1. CASE marks' = marks
        BY <3>1 DEF Types, TypeOK
      <3>2. ASSUME NEW bar \in {"refused", "rejected", "out"}, marks' = [marks EXCEPT ![s] = {bar}]
            PROVE  marks' \in [Services -> MarkSets]
        BY <1>3, <1>4, <3>2
      <3> QED BY <1>6, <3>1, <3>2
    <2> QED BY <2>1, <2>2, <2>3
  <1> QED BY <1>6, <1>7 DEF Types, TypeOK

\* What a walk makes of an answer: a link to check, or on to the next store.
LEMMA MintedTypes ==
  ASSUME Types, Minted, req.at \in {"held", "resolve", "relist"}
  PROVE  /\ req' \in Req /\ req'.route = req.route
         /\ req'.at = IF req.at = "relist" THEN "relist check" ELSE "check"
         /\ req'.todo = <<>> /\ req'.unknown = req.unknown /\ req'.link \in Links
         /\ req'.spare = req.spare /\ req'.err = req.err
         /\ IsInjective(req'.todo) /\ Range(req'.todo) = {}
PROOF
  <1>1. PICK link \in Links :
          req' = [req EXCEPT !.at = IF @ = "relist" THEN "relist check" ELSE "check",
                             !.todo = <<>>, !.link = link]
    BY DEF Minted
  <1>2. <<>> \in Seq(Services) /\ IsInjective(<<>>) /\ Range(<<>>) = {}
    BY EmptySeq DEF IsInjective, Range
  <1>3. req \in Req
    BY DEF Types
  <1> QED BY <1>1, <1>2, <1>3 DEF Req, Stages

\* No link: the walk goes on to the next store.
LEMMA HeardTypes ==
  ASSUME Types, NEW says \in {"coming", "refused", "dead"}, Heard(says), req.todo # <<>>
  PROVE  /\ req' \in Req /\ req'.route = req.route /\ req'.at = req.at
         /\ req'.todo = Tail(req.todo) /\ req'.unknown = req.unknown
         /\ req'.link = req.link /\ req'.spare = req.spare /\ req'.answer = req.answer
         /\ req'.err = IF req.at \in {"resolve", "enquire"} THEN Worse(req.err, says) ELSE req.err
         /\ IsInjective(req'.todo) /\ Range(req'.todo) \subseteq Range(req.todo)
PROOF
  <1>1. req \in Req /\ IsInjective(req.todo)
    BY DEF Types, TypeOK
  <1>2. /\ Tail(req.todo) \in Seq(Services) /\ IsInjective(Tail(req.todo))
        /\ Range(Tail(req.todo)) \subseteq Range(req.todo)
    BY <1>1, TailFacts DEF Req
  <1>3. Worse(req.err, says) \in {"dead", "refused", "coming"}
    BY DEF Worse
  <1> QED BY <1>1, <1>2, <1>3 DEF Heard, Req

\* A move within the request that keeps its store and link.
LEMMA TypesAfterMove ==
  ASSUME Types, UNCHANGED pending,
         has' \in [Services -> {"none", "fetching", "ready"}],
         knows' \in [Services -> BOOLEAN], marks' \in [Services -> MarkSets],
         memo' \in [link : Links \cup {NoLink}, checked : BOOLEAN],
         memo'.link = NoLink => memo' = NoMemo,
         req' \in Req, req'.at # "idle", req'.route = req.route,
         IsInjective(req'.todo),
         req'.at \in {"check", "recheck", "relist", "relist check"} => req'.link \in Links,
         req'.spare # NoLink <=> req'.at \in {"relist", "relist check"},
         req'.at \in PlayOnly => req.route = "play",
         req'.at \in {"status", "cache check"} => req.route \in {"play", "probe"},
         req'.at = "enquire" => req.route = "probe" /\ req'.err # "coming",
         req'.at = "cancel" <=> req.route = "cancel",
         req'.at \in Unresolved => req'.err = "dead",
         steady' \subseteq Services, failed' \subseteq Services, unheard' \subseteq Services,
         before' = before
  PROVE  Types'
PROOF
  <1>1. Range(req'.todo) \cup req'.unknown \subseteq Services
    <2>1. req'.todo \in Seq(Services) /\ req'.unknown \subseteq Services
      BY DEF Req
    <2>2. Range(req'.todo) \subseteq Services
      BY <2>1, RangeOfSeq
    <2> QED BY <2>1, <2>2
  <1>2. TypeOK'
    BY <1>1 DEF Types, TypeOK
  <1> QED BY <1>2 DEF Types

\* The services of a set as a queue (debridServices, Configured).
LEMMA QueueOf ==
  ASSUME NEW S
  PROVE  Configured(S) \in Seq(Services) /\ IsInjective(Configured(S))
BY ConfiguredFacts

\* A walk asks each store once: those it prefers, in order, then the others.
LEMMA OrderedFacts ==
  ASSUME Types, NEW heldBy \in SUBSET Services
  PROVE  /\ Ordered(Preferred(heldBy)) \in Seq(Services) /\ IsInjective(Ordered(Preferred(heldBy)))
         /\ Range(Ordered(Preferred(heldBy))) = Services
         /\ \A i, j \in DOMAIN Ordered(Preferred(heldBy)) :
              i < j /\ Ordered(Preferred(heldBy))[j] \in Holding =>
                Ordered(Preferred(heldBy))[i] \in Holding
PROOF
  <1> DEFINE p == Configured(Holding)
             q == Configured(heldBy \ Holding)
             r == Configured(Services \ Range(p \o q))
  <1>0. Holding \subseteq Services
    BY DEF Holding
  <1>1. /\ p \in Seq(Services) /\ q \in Seq(Services) /\ r \in Seq(Services)
        /\ Range(p) = Holding /\ Range(q) = heldBy \ Holding /\ Range(r) = Services \ Range(p \o q)
        /\ IsInjective(p) /\ IsInjective(q) /\ IsInjective(r)
    BY <1>0, ConfiguredFacts
  <1> HIDE DEF p, q, r
  <1>2. p \o q \in Seq(Services) /\ Range(p \o q) = Range(p) \cup Range(q) /\ IsInjective(p \o q)
    BY <1>1, ConcatFacts
  <1>3. /\ (p \o q) \o r \in Seq(Services) /\ Range((p \o q) \o r) = Range(p \o q) \cup Range(r)
        /\ IsInjective((p \o q) \o r)
    <2>1. PICK u \in Seq(Services) : u = p \o q
      BY <1>2
    <2>2. IsInjective(u) /\ IsInjective(r) /\ Range(u) \cap Range(r) = {}
      BY <1>1, <1>2, <2>1
    <2>3. u \o r \in Seq(Services) /\ Range(u \o r) = Range(u) \cup Range(r) /\ IsInjective(u \o r)
      BY <1>1, <2>2, ConcatFacts
    <2> QED BY <2>1, <2>3
  <1>4. Ordered(Preferred(heldBy)) = (p \o q) \o r
    BY DEF Ordered, Preferred, p, q, r
  <1>5. q \o r \in Seq(Services) /\ Range(q \o r) = Range(q) \cup Range(r)
    BY <1>1, ConcatFacts
  <1>6. (p \o q) \o r = p \o (q \o r)
    BY <1>1, ConcatAssociative
  <1>7. Range(q \o r) \cap Holding = {}
    BY <1>1, <1>2, <1>5
  <1>8. ASSUME NEW i \in DOMAIN (p \o (q \o r)), NEW j \in DOMAIN (p \o (q \o r)),
               i < j, (p \o (q \o r))[j] \in Holding
        PROVE  (p \o (q \o r))[i] \in Holding
    <2> DEFINE z == q \o r
    <2>1. /\ Len(p \o z) = Len(p) + Len(z) /\ Len(p) \in Nat /\ Len(z) \in Nat
          /\ \A n \in 1..(Len(p) + Len(z)) : (p \o z)[n] = IF n <= Len(p) THEN p[n] ELSE z[n - Len(p)]
      BY <1>1, <1>5, ConcatProperties, LenProperties
    <2>2. /\ DOMAIN (p \o z) = 1..(Len(p) + Len(z)) /\ DOMAIN p = 1..Len(p) /\ DOMAIN z = 1..Len(z)
      BY <1>1, <1>5, <2>1, LenProperties, ConcatProperties
    <2> HIDE DEF z
    <2>3. j <= Len(p)
      <3>1. SUFFICES ASSUME ~(j <= Len(p)) PROVE FALSE
        OBVIOUS
      <3>2. j - Len(p) \in DOMAIN z /\ (p \o z)[j] = z[j - Len(p)]
        BY <1>8, <2>1, <2>2, <3>1 DEF z
      <3>3. z[j - Len(p)] \in Range(z)
        BY <3>2 DEF Range
      <3>4. (p \o z)[j] \in Holding
        BY <1>8 DEF z
      <3> QED BY <1>7, <3>2, <3>3, <3>4 DEF z
    <2>4. i \in DOMAIN p /\ (p \o z)[i] = p[i]
      BY <1>8, <2>1, <2>2, <2>3 DEF z
    <2>5. p[i] \in Range(p)
      BY <2>4 DEF Range
    <2> QED BY <1>1, <2>4, <2>5 DEF z
  <1>9. Range((p \o q) \o r) = Services
    <2>1. Range(p \o q) \subseteq Services
      BY <1>2, RangeOfSeq
    <2> QED BY <1>1, <1>3, <2>1
  <1> QED BY <1>3, <1>4, <1>6, <1>8, <1>9

\* Every step of a request, and of the world around it, keeps the types.  One comes in.
LEMMA BeginTypes ==
  ASSUME Types, NEW route \in {"play", "fresh", "probe", "cancel"}, Begin(route)
  PROVE  Types'
PROOF
  <1>1. req' \in {Serving("probe", "status", Order), Serving("cancel", "cancel", Configured(Lists)),
                  Serving("play", "memo", <<>>)}
    BY DEF Begin
  <1>2. /\ Order \in Seq(Services) /\ IsInjective(Order)
        /\ Configured(Lists) \in Seq(Services) /\ IsInjective(Configured(Lists))
        /\ <<>> \in Seq(Services) /\ IsInjective(<<>>)
    BY OrderAssumption, QueueOf, EmptySeq DEF IsInjective
  <1>3. ASSUME NEW route2 \in {"play", "probe", "cancel"}, NEW at \in Stages, NEW todo \in Seq(Services)
        PROVE  /\ Serving(route2, at, todo) \in Req
               /\ Serving(route2, at, todo).at = at /\ Serving(route2, at, todo).route = route2
               /\ Serving(route2, at, todo).todo = todo /\ Serving(route2, at, todo).err = "dead"
               /\ Serving(route2, at, todo).spare = NoLink /\ Serving(route2, at, todo).unknown = {}
    BY DEF Serving, Idle, Req, Said
  <1>4. /\ req' \in Req /\ IsInjective(req'.todo) /\ Range(req'.todo) \subseteq Services
        /\ \/ req'.route = "probe" /\ req'.at = "status"
           \/ req'.route = "cancel" /\ req'.at = "cancel"
           \/ req'.route = "play" /\ req'.at = "memo"
        /\ req'.err = "dead" /\ req'.spare = NoLink /\ req'.unknown = {}
    <2> DEFINE Fits(q) == IsInjective(q) /\ q \in Seq(Services)
    <2>1. Fits(Order) /\ Fits(Configured(Lists)) /\ Fits(<<>>)
      BY <1>2
    <2>2. PICK todo \in Seq(Services) :
            /\ IsInjective(todo)
            /\ \/ req' = Serving("probe", "status", todo)
               \/ req' = Serving("cancel", "cancel", todo)
               \/ req' = Serving("play", "memo", todo)
      BY <1>1, <2>1
    <2>3. Range(todo) \subseteq Services
      BY RangeOfSeq
    <2>4. "status" \in Stages /\ "cancel" \in Stages /\ "memo" \in Stages
      BY DEF Stages
    <2>5. CASE req' = Serving("probe", "status", todo)
      BY <1>3, <2>2, <2>3, <2>4, <2>5
    <2>6. CASE req' = Serving("cancel", "cancel", todo)
      BY <1>3, <2>2, <2>3, <2>4, <2>6
    <2>7. CASE req' = Serving("play", "memo", todo)
      BY <1>3, <2>2, <2>3, <2>4, <2>7
    <2> QED BY <2>2, <2>5, <2>6, <2>7
  <1>5. /\ memo' \in [link : Links \cup {NoLink}, checked : BOOLEAN]
        /\ memo'.link = NoLink => memo' = NoMemo
    BY DEF Begin, Types, TypeOK, NoMemo
  <1>6. TypeOK'
    BY <1>4, <1>5 DEF Begin, store, Types, TypeOK
  <1> QED BY <1>4, <1>6 DEF Begin, Types, PlayOnly, Unresolved

\* The memo is missed or served, and what it has is checked.
LEMMA MemoTypes ==
  ASSUME Types, MemoMiss \/ MemoHit
  PROVE  Types'
PROOF
  <1>1. req \in Req /\ req.at = "memo" /\ req.route = "play" /\ req.err = "dead"
    BY DEF MemoMiss, MemoHit, Types, PlayOnly, Unresolved
  <1>2. CASE MemoMiss
    <2>1. /\ Order \in Seq(Services) /\ IsInjective(Order)
          /\ Configured(Holding) \in Seq(Services) /\ IsInjective(Configured(Holding))
      BY OrderAssumption, QueueOf
    <2>2. \/ req' = [req EXCEPT !.at = "held", !.todo = Configured(Holding)]
          \/ req' = [req EXCEPT !.at = "status", !.todo = Order]
      BY <1>2 DEF MemoMiss, PastTheMemo, Goes
    <2>3. /\ req' \in Req /\ req'.at \in {"held", "status"} /\ req'.route = "play"
          /\ IsInjective(req'.todo) /\ req'.spare = req.spare /\ req'.err = "dead"
      BY <1>1, <2>1, <2>2 DEF Req, Stages
    <2>4. req'.spare = NoLink
      BY <1>1, <2>3 DEF Types, TypeOK
    <2>5. /\ UNCHANGED <<has, knows, marks, pending, memo, steady, failed, unheard, before>>
      BY <1>2 DEF MemoMiss, store, history
    <2> QED BY <1>1, <2>3, <2>4, <2>5, TypesAfterMove DEF PlayOnly, Unresolved, Types, TypeOK
  <1>3. CASE MemoHit
    <2>1. CASE Answer("link")
      BY <1>3, <2>1, TypesAfterAnswer DEF MemoHit, store, Types, TypeOK, Said
    <2>2. CASE /\ req' = [req EXCEPT !.at = "recheck", !.link = memo.link]
               /\ UNCHANGED <<pending, steady, failed, unheard, before>>
      <3>1. memo.link \in Links
        BY <1>3 DEF MemoHit, Types, TypeOK
      <3>2. /\ req' \in Req /\ req'.at = "recheck" /\ req'.route = "play" /\ req'.link \in Links
            /\ req'.todo = req.todo /\ req'.spare = req.spare /\ req'.err = "dead"
        BY <1>1, <2>2, <3>1 DEF Req, Stages
      <3>3. req'.spare = NoLink
        BY <1>1, <3>2 DEF Types, TypeOK
      <3> QED BY <1>1, <1>3, <2>2, <3>2, <3>3, TypesAfterMove
              DEF MemoHit, store, PlayOnly, Unresolved, Types, TypeOK
    <2> QED BY <1>3, <2>1, <2>2 DEF MemoHit
  <1> QED BY <1>2, <1>3

LEMMA RecheckTypes ==
  ASSUME Types, NEW verdict \in Verdicts, Recheck(verdict)
  PROVE  Types'
PROOF
  <1>1. req \in Req /\ req.at = "recheck" /\ req.route = "play" /\ req.err = "dead" /\ req.spare = NoLink
    BY DEF Recheck, Types, TypeOK, PlayOnly, Unresolved
  <1>2. CASE verdict \in {"playable", "unverified"}
    <2>1. Answer("link") /\ UNCHANGED store
      BY <1>2 DEF Recheck
    <2>2. /\ memo' \in [link : Links \cup {NoLink}, checked : BOOLEAN]
          /\ memo'.link = NoLink => memo' = NoMemo
      <3>1. CASE UNCHANGED memo
        BY <3>1 DEF Types, TypeOK
      <3>2. CASE MarkChecked(req.link)
        <4>1. req.link \in Links
          BY <1>1 DEF Types, TypeOK
        <4> QED BY <3>2, <4>1, LinksAssumption DEF MarkChecked, Types, TypeOK
      <3> QED BY <1>2, <3>1, <3>2 DEF Recheck
    <2> QED BY <2>1, <2>2, TypesAfterAnswer DEF store, Types, TypeOK, Said
  <1>3. CASE verdict \in {"broken", "wrong file"}
    <2>1. /\ memo' = NoMemo /\ req' = [req EXCEPT !.at = "memo", !.link = NoLink]
          /\ UNCHANGED <<has, knows, marks, pending, steady, failed, unheard, before>>
      BY <1>3 DEF Recheck, store
    <2>2. /\ req' \in Req /\ req'.at = "memo" /\ req'.route = "play" /\ req'.todo = req.todo
          /\ req'.spare = NoLink /\ req'.err = "dead"
      BY <1>1, <2>1 DEF Req, Stages
    <2>3. memo' \in [link : Links \cup {NoLink}, checked : BOOLEAN]
      BY <2>1 DEF NoMemo
    <2> QED BY <1>1, <2>1, <2>2, <2>3, TypesAfterMove DEF PlayOnly, Unresolved, Types, TypeOK
  <1> QED BY <1>2, <1>3 DEF Verdicts

\* The head of the queue is asked: what is left is a queue.
LEMMA NextTypes ==
  ASSUME Types, req.todo # <<>>
  PROVE  /\ Tail(req.todo) \in Seq(Services) /\ IsInjective(Tail(req.todo))
         /\ Range(Tail(req.todo)) \subseteq Range(req.todo) /\ Range(req.todo) \subseteq Services
         /\ Head(req.todo) \in Range(req.todo)
PROOF
  <1>1. req.todo \in Seq(Services) /\ IsInjective(req.todo) /\ Range(req.todo) \subseteq Services
    BY DEF Types, TypeOK, Req
  <1> QED BY <1>1, TailFacts

\* A store tells its status, or fails to.
LEMMA StatusTypes ==
  ASSUME Types, NEW s \in Services, StatusAnswered(s) \/ StatusFailed(s)
  PROVE  Types'
PROOF
  <1>1. req \in Req /\ req.at \in Asking /\ req.todo # <<>> /\ s = Head(req.todo)
    BY DEF StatusAnswered, StatusFailed, Types
  <1>2. Tail(req.todo) \in Seq(Services) /\ IsInjective(Tail(req.todo))
    BY <1>1, NextTypes
  <1>3. req.spare = NoLink
    BY <1>1 DEF Asking, Types, TypeOK
  <1>4. CASE StatusAnswered(s)
    <2>1. /\ has' = has /\ memo' = memo
          /\ knows' \in [Services -> BOOLEAN]
      BY <1>4 DEF StatusAnswered, Discovers, Types, TypeOK
    <2>2. marks' \in [Services -> MarkSets]
      <3>1. \A m \in MarkSets : m \ {"out"} \in MarkSets
        BY DEF MarkSets
      <3>2. marks \in [Services -> MarkSets]
        BY DEF Types, TypeOK
      <3>3. marks[s] \in MarkSets /\ marks[s] \ {"out"} \in MarkSets
        BY <3>1, <3>2
      <3>4. \E m \in MarkSets : marks' = [marks EXCEPT ![s] = m]
        BY <1>4, <3>3 DEF StatusAnswered
      <3> QED BY <3>2, <3>4
    <2>3. CASE Answer("coming")
      BY <2>1, <2>2, <2>3, TypesAfterAnswer DEF Types, TypeOK, Said
    <2>4. CASE NextStore /\ UNCHANGED <<pending, steady, failed, unheard, before>>
      <3>1. /\ req' \in Req /\ req'.at = req.at /\ req'.route = req.route
            /\ req'.todo = Tail(req.todo) /\ req'.spare = req.spare /\ req'.err = req.err
        BY <1>1, <1>2, <2>4 DEF NextStore, Req
      <3> QED BY <1>1, <1>2, <1>3, <2>1, <2>2, <2>4, <3>1, TypesAfterMove
              DEF Asking, PlayOnly, Unresolved, Types, TypeOK
    <2> QED BY <1>4, <2>3, <2>4 DEF StatusAnswered
  <1>5. CASE StatusFailed(s)
    <2>1. /\ \E S \in {{}, {s}} :
               /\ req' = [req EXCEPT !.todo = Tail(@), !.unknown = StillUnknown(S)]
               /\ unheard' = IF req.route = "probe" THEN unheard \cup S ELSE {}
          /\ failed' = failed \cup {s}
          /\ UNCHANGED <<has, knows, marks, pending, memo, passed, steady, before>>
      BY <1>5 DEF StatusFailed, store
    <2>2. \A S \in {{}, {s}} : StillUnknown(S) \in SUBSET Services
      BY <1>1 DEF StillUnknown, Req
    <2>3. /\ req' \in Req /\ req'.at = req.at /\ req'.route = req.route
          /\ req'.todo = Tail(req.todo) /\ req'.spare = req.spare /\ req'.err = req.err
      <3>1. PICK U \in SUBSET Services : req' = [req EXCEPT !.todo = Tail(@), !.unknown = U]
        BY <2>1, <2>2
      <3> QED BY <1>1, <1>2, <3>1 DEF Req
    <2>4. failed' \subseteq Services /\ unheard' \subseteq Services /\ steady' \subseteq Services
      BY <2>1 DEF Types
    <2> QED BY <1>1, <1>2, <1>3, <2>1, <2>3, <2>4, TypesAfterMove
            DEF Asking, PlayOnly, Unresolved, Types, TypeOK
  <1> QED BY <1>4, <1>5

\* The clock runs out on a status read, or every store was asked.
LEMMA StatusEndTypes ==
  ASSUME Types, OutOfTime \/ StatusOver
  PROVE  Types'
PROOF
  <1>1. req \in Req /\ req.at \in Asking
    BY DEF OutOfTime, StatusOver, Asking, Types
  <1>2. req.spare = NoLink
    BY <1>1 DEF Asking, Types, TypeOK
  <1>3. <<>> \in Seq(Services) /\ IsInjective(<<>>) /\ Range(req.todo) \subseteq Services
    <2>1. <<>> \in Seq(Services) /\ IsInjective(<<>>)
      BY EmptySeq DEF IsInjective
    <2>2. Range(req.todo) \cup req.unknown \subseteq Services
      BY DEF Types, TypeOK
    <2> QED BY <2>1, <2>2
  <1>4. UNCHANGED <<has, knows, marks, pending, memo, steady, before>>
    BY DEF OutOfTime, StatusOver, store, history
  <1>5. CASE OutOfTime
    <2>1. /\ req' = [req EXCEPT !.todo = <<>>, !.unknown = StillUnknown(Range(req.todo))]
          /\ failed' = failed \cup Range(req.todo)
          /\ unheard' = IF req.route = "probe" THEN unheard \cup Range(req.todo) ELSE {}
      BY <1>5 DEF OutOfTime
    <2>2. StillUnknown(Range(req.todo)) \in SUBSET Services
      BY <1>1, <1>3 DEF StillUnknown, Req
    <2>3. /\ req' \in Req /\ req'.at = req.at /\ req'.route = req.route
          /\ req'.todo = <<>> /\ req'.spare = req.spare /\ req'.err = req.err
      BY <1>1, <1>3, <2>1, <2>2 DEF Req
    <2>4. failed' \subseteq Services /\ unheard' \subseteq Services
      BY <1>3, <2>1 DEF Types
    <2> QED BY <1>1, <1>2, <1>3, <1>4, <2>3, <2>4, TypesAfterMove
            DEF Asking, PlayOnly, Unresolved, Types, TypeOK
  <1>6. CASE StatusOver
    <2>1. failed' = failed /\ unheard' = unheard /\ req.at \in {"status", "escalated"}
      BY <1>6 DEF StatusOver, history
    <2>2. /\ Configured(req.unknown) \in Seq(Services) /\ IsInjective(Configured(req.unknown))
          /\ req.todo \in Seq(Services) /\ IsInjective(req.todo)
      BY QueueOf DEF Types, TypeOK, Req
    <2>3. \/ req.route = "probe" /\ req' = [req EXCEPT !.at = "cache check", !.todo = <<>>]
          \/ /\ req.route = "play"
             /\ \/ req' = [req EXCEPT !.at = "escalated", !.todo = Configured(req.unknown), !.unknown = {}]
                \/ req' = [req EXCEPT !.at = "cache check", !.unknown = {}]
      BY <1>6 DEF StatusOver, Goes
    <2>4. /\ req' \in Req /\ req'.route = req.route /\ req'.spare = req.spare /\ req'.err = req.err
          /\ IsInjective(req'.todo)
          /\ \/ req'.at = "cache check" /\ req.route \in {"play", "probe"}
             \/ req'.at = "escalated" /\ req.route = "play"
      <3>1. CASE req.route = "probe" /\ req' = [req EXCEPT !.at = "cache check", !.todo = <<>>]
        BY <1>1, <1>3, <3>1 DEF Req, Stages
      <3>2. CASE /\ req.route = "play"
                 /\ req' = [req EXCEPT !.at = "escalated", !.todo = Configured(req.unknown), !.unknown = {}]
        BY <1>1, <2>2, <3>2 DEF Req, Stages
      <3>3. CASE req.route = "play" /\ req' = [req EXCEPT !.at = "cache check", !.unknown = {}]
        BY <1>1, <2>2, <3>3 DEF Req, Stages
      <3> QED BY <2>3, <3>1, <3>2, <3>3
    <2>5. req.err = "dead"
      BY <2>1 DEF Types, Unresolved
    <2> QED BY <1>1, <1>2, <1>4, <2>1, <2>4, <2>5, TypesAfterMove
            DEF Asking, PlayOnly, Unresolved, Types, TypeOK
  <1> QED BY <1>5, <1>6

\* The stores say what they hold, and the walk is put in order.
LEMMA CacheCheckTypes ==
  ASSUME Types, NEW answered \in SUBSET Truth, NEW heldBy \in SUBSET answered,
         CacheCheck(answered, heldBy)
  PROVE  Types'
PROOF
  <1>1. req \in Req /\ req.at = "cache check" /\ req.route \in {"play", "probe"} /\ req.err = "dead"
        /\ req.spare = NoLink
    BY DEF CacheCheck, Types, TypeOK, Unresolved
  <1>2. heldBy \in SUBSET Services /\ Truth \subseteq Services
    BY ServicesAssumption
  <1>3. /\ Ordered(Preferred(heldBy)) \in Seq(Services) /\ IsInjective(Ordered(Preferred(heldBy)))
        /\ Enquired(heldBy) \in Seq(Services) /\ IsInjective(Enquired(heldBy))
    BY <1>2, OrderedFacts, QueueOf DEF Enquired
  <1>4. UNCHANGED <<has, knows, marks, pending, memo, steady, unheard, before>> /\ failed' \subseteq Services
    BY <1>2 DEF CacheCheck, store, Types
  <1>5. CASE req.route = "play"
    <2>1. req' = [req EXCEPT !.at = "resolve", !.todo = Ordered(Preferred(heldBy))]
      BY <1>5 DEF CacheCheck, Goes
    <2>2. /\ req' \in Req /\ req'.at = "resolve" /\ req'.route = req.route
          /\ IsInjective(req'.todo) /\ req'.spare = req.spare
      BY <1>1, <1>3, <2>1 DEF Req, Stages
    <2> QED BY <1>1, <1>4, <1>5, <2>2, TypesAfterMove DEF PlayOnly, Unresolved, Types, TypeOK
  <1>6. CASE req.route # "play"
    <2>1. req' = [req EXCEPT !.at = "enquire", !.todo = Enquired(heldBy), !.truth = answered # {}]
      BY <1>6 DEF CacheCheck
    <2>2. /\ req' \in Req /\ req'.at = "enquire" /\ req'.route = req.route
          /\ IsInjective(req'.todo) /\ req'.spare = req.spare /\ req'.err = "dead"
      BY <1>1, <1>3, <2>1 DEF Req, Stages
    <2> QED BY <1>1, <1>4, <1>6, <2>2, TypesAfterMove DEF PlayOnly, Unresolved, Types, TypeOK
  <1> QED BY <1>5, <1>6

\* A store answers the walk, adds, or fails.
LEMMA ResolveTypes ==
  ASSUME Types, NEW s \in Services, NEW says \in Says,
         ResolveAnswered(s, says) \/ ResolveAdded(s, says) \/ ResolveFailed(s, says)
  PROVE  Types'
PROOF
  <1>1. /\ req \in Req /\ req.at \in {"held", "enquire", "relist", "resolve"}
        /\ req.todo # <<>> /\ s = Head(req.todo) /\ req.unknown \subseteq Services
        /\ memo' = memo
    BY DEF ResolveAnswered, ResolveAdded, ResolveFailed, Asks, ReadOnly, Types, TypeOK
  <1>2. /\ has' \in [Services -> {"none", "fetching", "ready"}]
        /\ knows' \in [Services -> BOOLEAN] /\ marks' \in [Services -> MarkSets]
    <2>1. CASE ResolveAnswered(s, says)
      <3>1. NoAdd \in BOOLEAN /\ Answers(s, NoAdd, says)
        BY <2>1 DEF ResolveAnswered, NoAdd
      <3>2. has' = has /\ marks' = marks /\ knows' \in [Services -> BOOLEAN]
        BY <3>1, AnswersTypes
      <3> QED BY <3>2 DEF Types, TypeOK
    <2>2. CASE ResolveAdded(s, says)
      BY <2>2, AddsTypes DEF ResolveAdded
    <2>3. CASE ResolveFailed(s, says)
      BY <2>3 DEF ResolveFailed, store, Types, TypeOK
    <2> QED BY <2>1, <2>2, <2>3
  <1>3. CASE Answer("ready")
    BY <1>1, <1>2, <1>3, TypesAfterAnswer DEF Types, TypeOK, Said
  <1>4. ASSUME ~Answer("ready")
        PROVE  /\ \/ Minted /\ req.at \in {"held", "resolve", "relist"}
                  \/ says # "link" /\ Heard(says)
               /\ req.at = "enquire" => says # "coming"
               /\ UNCHANGED <<pending, unheard, before>>
               /\ steady' \subseteq Services /\ failed' \subseteq Services
    <2>1. CASE ResolveAnswered(s, says)
      <3>1. /\ IF says = "link" THEN Minted ELSE Heard(says)
            /\ says = "link" => req.at # "enquire"
            /\ steady' = {t \in steady : knows[t] => knows'[t]}
            /\ UNCHANGED <<pending, failed, unheard, before>>
        BY <1>4, <2>1 DEF ResolveAnswered, Takes
      <3>2. req.at = "enquire" => says # "coming"
        BY <2>1 DEF ResolveAnswered, Answers, NoAdd, ReadOnly
      <3> QED BY <1>1, <3>1, <3>2 DEF Types
    <2>2. CASE ResolveAdded(s, says)
      BY <1>1, <2>2 DEF ResolveAdded, NoAdd, ReadOnly, Types
    <2>3. CASE ResolveFailed(s, says)
      BY <1>1, <2>3 DEF ResolveFailed, Types
    <2> QED BY <2>1, <2>2, <2>3
  <1>5. CASE ~Answer("ready") /\ Minted /\ req.at \in {"held", "resolve", "relist"}
    <2>1. /\ req' \in Req /\ req'.route = req.route /\ IsInjective(req'.todo) /\ req'.link \in Links
          /\ req'.at = IF req.at = "relist" THEN "relist check" ELSE "check"
          /\ req'.spare = req.spare
      BY <1>5, MintedTypes
    <2>2. req.spare # NoLink <=> req.at = "relist"
      BY <1>5 DEF Types, TypeOK
    <2>3. req.route = "play"
      BY <1>5 DEF Types, PlayOnly
    <2> QED BY <1>1, <1>2, <1>4, <1>5, <2>1, <2>2, <2>3, TypesAfterMove DEF PlayOnly, Unresolved, Types, TypeOK
  <1>6. CASE ~Answer("ready") /\ says # "link" /\ Heard(says)
    <2>1. /\ req' \in Req /\ req'.route = req.route /\ req'.at = req.at /\ IsInjective(req'.todo)
          /\ req'.link = req.link /\ req'.spare = req.spare
          /\ req'.err = IF req.at \in {"resolve", "enquire"} THEN Worse(req.err, says) ELSE req.err
      BY <1>1, <1>6, HeardTypes DEF Says
    <2>2. req.at = "enquire" => req'.err # "coming"
      BY <1>4, <1>6, <2>1 DEF Worse, Types
    <2> QED BY <1>1, <1>2, <1>4, <1>6, <2>1, <2>2, TypesAfterMove DEF PlayOnly, Unresolved, Types, TypeOK
  <1> QED BY <1>3, <1>4, <1>5, <1>6

\* A walk made no link.
LEMMA OverTypes ==
  ASSUME Types, HeldOver \/ ResolveOver \/ PlayVerdict \/ ProbeVerdict
  PROVE  Types'
PROOF
  <1>1. req \in Req /\ UNCHANGED <<has, knows, marks, memo>>
    BY DEF HeldOver, ResolveOver, PlayVerdict, ProbeVerdict, store, Types
  <1>2. Order \in Seq(Services) /\ IsInjective(Order)
    BY OrderAssumption
  <1>3. CASE HeldOver \/ ResolveOver
    <2>1. UNCHANGED <<pending, steady, failed, unheard, before>> /\ req.spare = NoLink /\ req.route = "play"
      BY <1>3 DEF HeldOver, ResolveOver, history, Types, TypeOK, PlayOnly
    <2>2. Worse(req.err, "refused") \in {"dead", "refused", "coming"}
      BY DEF Worse
    <2>3. CASE HeldOver
      <3>1. /\ req' \in Req /\ req'.at = "status" /\ req'.todo = Order /\ req'.err = req.err
            /\ req'.route = req.route /\ req'.spare = req.spare /\ req.at = "held"
        BY <1>1, <1>2, <2>3 DEF HeldOver, Goes, Req, Stages
      <3> QED BY <1>1, <1>2, <2>1, <3>1, TypesAfterMove DEF PlayOnly, Unresolved, Types, TypeOK
    <2>4. CASE ResolveOver
      <3>1. /\ req' \in Req /\ req'.at = "after" /\ req'.todo = Order
            /\ req'.route = req.route /\ req'.spare = req.spare
        BY <1>1, <1>2, <2>2, <2>4 DEF ResolveOver, Goes, Req, Stages
      <3> QED BY <1>1, <1>2, <2>1, <3>1, TypesAfterMove DEF PlayOnly, Unresolved, Types, TypeOK
    <2> QED BY <1>3, <2>3, <2>4
  <1>4. CASE PlayVerdict \/ ProbeVerdict
    <2>1. \E answer \in Said : Answer(answer)
      <3>1. req.err \in {"dead", "refused", "coming"}
        BY <1>1 DEF Req
      <3>2. CASE PlayVerdict
        BY <3>1, <3>2 DEF PlayVerdict, Said
      <3>3. CASE ProbeVerdict
        <4> DEFINE answer == IF AddInFlight THEN "coming"
                             ELSE IF \/ AccountRefusal \/ EveryAddRefusedByScout \/ req.err = "refused"
                                     \/ RecentRefusal \/ CannotTell
                                    THEN "refused"
                                    ELSE "not found"
        <4>1. Answer(answer)
          BY <3>3 DEF ProbeVerdict
        <4>2. answer \in Said
          BY DEF Said
        <4> QED BY <4>1, <4>2
      <3> QED BY <1>4, <3>2, <3>3
    <2> QED BY <1>1, <2>1, TypesAfterAnswer DEF Types, TypeOK
  <1> QED BY <1>3, <1>4

\* A link was checked.
LEMMA LinkTypes ==
  ASSUME Types, \/ \E verdict \in Verdicts : Checked(verdict) \/ RelistChecked(verdict)
                \/ RelistOver
  PROVE  Types'
PROOF
  <1>1. /\ req \in Req /\ req.at \in {"check", "relist", "relist check"} /\ req.link \in Links
        /\ req.route = "play" /\ UNCHANGED <<has, knows, marks>>
    BY DEF Checked, RelistChecked, RelistOver, store, Types, TypeOK, PlayOnly
  <1>2. req.at # "check" => req.spare \in Links
    BY <1>1 DEF Types, TypeOK, Req
  <1>3. NoMemo \in [link : Links \cup {NoLink}, checked : BOOLEAN]
    BY DEF NoMemo
  <1>4. \/ \E link \in Links, checked \in BOOLEAN : Serve(link, checked)
        \/ memo' = NoMemo /\ Answer("not found")
        \/ /\ memo' = NoMemo /\ req.at = "check"
           /\ req' = [req EXCEPT !.at = "relist", !.spare = req.link, !.todo = Configured(Holding)]
           /\ UNCHANGED <<pending, steady, failed, unheard, before>>
    <2>1. ASSUME NEW verdict \in Verdicts, Checked(verdict)
          PROVE  \/ \E link \in Links, checked \in BOOLEAN : Serve(link, checked)
                 \/ memo' = NoMemo /\ Answer("not found")
                 \/ /\ memo' = NoMemo /\ req.at = "check"
                    /\ req' = [req EXCEPT !.at = "relist", !.spare = req.link, !.todo = Configured(Holding)]
                    /\ UNCHANGED <<pending, steady, failed, unheard, before>>
      <3>1. CASE verdict \in {"playable", "unverified"}
        <4>1. Serve(req.link, verdict = "playable")
          BY <2>1, <3>1 DEF Checked
        <4>2. (verdict = "playable") \in BOOLEAN
          OBVIOUS
        <4> QED BY <1>1, <4>1, <4>2
      <3>2. CASE verdict = "broken"
        BY <2>1, <3>2 DEF Checked
      <3>3. CASE verdict = "wrong file"
        BY <2>1, <3>3 DEF Checked
      <3> QED BY <3>1, <3>2, <3>3 DEF Verdicts
    <2>2. ASSUME NEW verdict \in Verdicts, RelistChecked(verdict)
          PROVE  \E link \in Links, checked \in BOOLEAN : Serve(link, checked)
      <3>1. req.spare \in Links
        BY <1>2, <2>2 DEF RelistChecked
      <3>2. Serve(req.link, verdict = "playable") \/ Serve(req.spare, FALSE)
        BY <2>2 DEF RelistChecked
      <3>3. (verdict = "playable") \in BOOLEAN /\ FALSE \in BOOLEAN
        OBVIOUS
      <3> QED BY <1>1, <3>1, <3>2, <3>3
    <2>3. CASE RelistOver
      <3>1. req.spare \in Links
        BY <1>2, <2>3 DEF RelistOver
      <3>2. Serve(req.spare, FALSE) /\ FALSE \in BOOLEAN
        BY <2>3 DEF RelistOver
      <3> QED BY <3>1, <3>2
    <2> QED BY <2>1, <2>2, <2>3
  <1>5. ASSUME NEW link \in Links, NEW checked \in BOOLEAN, Serve(link, checked) PROVE Types'
    <2>1. memo' = [link |-> link, checked |-> checked] /\ Answer("link")
      BY <1>5 DEF Serve, Put
    <2>2. memo' \in [link : Links \cup {NoLink}, checked : BOOLEAN] /\ memo'.link # NoLink
      BY <2>1, LinksAssumption
    <2> QED BY <1>1, <2>1, <2>2, TypesAfterAnswer DEF Types, TypeOK, Said
  <1>6. CASE memo' = NoMemo /\ Answer("not found")
    BY <1>1, <1>3, <1>6, TypesAfterAnswer DEF Types, TypeOK, Said
  <1>7. CASE /\ memo' = NoMemo /\ req.at = "check"
             /\ req' = [req EXCEPT !.at = "relist", !.spare = req.link, !.todo = Configured(Holding)]
             /\ UNCHANGED <<pending, steady, failed, unheard, before>>
    <2>1. Configured(Holding) \in Seq(Services) /\ IsInjective(Configured(Holding))
      BY QueueOf
    <2>2. /\ req' \in Req /\ req'.at = "relist" /\ req'.route = req.route /\ IsInjective(req'.todo)
          /\ req'.spare \in Links /\ req'.link \in Links
      BY <1>1, <1>7, <2>1 DEF Req, Stages
    <2>3. req'.spare # NoLink
      BY <2>2, LinksAssumption
    <2> QED BY <1>1, <1>3, <1>7, <2>2, <2>3, TypesAfterMove DEF PlayOnly, Unresolved, Types, TypeOK
  <1> QED BY <1>4, <1>5, <1>6, <1>7

\* A store has an opinion of the cancel, or none has.
LEMMA CancelTypes ==
  ASSUME Types, CancelOver \/ \E s \in Services : Cancel(s)
  PROVE  Types'
PROOF
  <1>1. req \in Req /\ req.at = "cancel" /\ req.route = "cancel" /\ memo' = memo
    BY DEF CancelOver, Cancel, Types
  <1>2. /\ has' \in [Services -> {"none", "fetching", "ready"}]
        /\ knows' \in [Services -> BOOLEAN] /\ marks' \in [Services -> MarkSets]
    BY DEF CancelOver, Cancel, store, Types, TypeOK
  <1>3. \/ \E answer \in Said : Answer(answer)
        \/ NextStore /\ req.todo # <<>> /\ UNCHANGED <<pending, steady, failed, unheard, before>>
    BY DEF CancelOver, Cancel, Said
  <1>4. CASE \E answer \in Said : Answer(answer)
    BY <1>1, <1>2, <1>4, TypesAfterAnswer DEF Types, TypeOK
  <1>5. CASE NextStore /\ req.todo # <<>> /\ UNCHANGED <<pending, steady, failed, unheard, before>>
    <2>1. Tail(req.todo) \in Seq(Services) /\ IsInjective(Tail(req.todo))
      BY <1>5, NextTypes
    <2>2. /\ req' \in Req /\ req'.at = req.at /\ req'.route = req.route
          /\ req'.todo = Tail(req.todo) /\ req'.spare = req.spare /\ req'.err = req.err
      BY <1>1, <1>5, <2>1 DEF NextStore, Req
    <2> QED BY <1>1, <1>2, <1>5, <2>1, <2>2, TypesAfterMove DEF PlayOnly, Unresolved, Types, TypeOK
  <1> QED BY <1>3, <1>4, <1>5

\* The rest of the world.
LEMMA OtherTypes ==
  ASSUME Types, \/ \E s \in Services : Elsewhere(s) \/ OtherMemory(s)
                \/ PendingLapses \/ OtherLink \/ UNCHANGED vars
  PROVE  Types'
PROOF
  <1>1. req' = req /\ pending' \in BOOLEAN
    BY DEF Elsewhere, OtherMemory, Changed, PendingLapses, OtherLink, vars, Types, TypeOK
  <1>2. /\ has' \in [Services -> {"none", "fetching", "ready"}]
        /\ knows' \in [Services -> BOOLEAN] /\ marks' \in [Services -> MarkSets]
    <2>1. ASSUME NEW s \in Services, Elsewhere(s)
          PROVE  /\ has' \in [Services -> {"none", "fetching", "ready"}]
                 /\ UNCHANGED <<knows, marks>>
      <3>1. PICK now \in {"none", "fetching", "ready"} : has' = [has EXCEPT ![s] = now]
        BY <2>1 DEF Elsewhere
      <3>2. has \in [Services -> {"none", "fetching", "ready"}]
        BY DEF Types, TypeOK
      <3>3. has' \in [Services -> {"none", "fetching", "ready"}]
        BY <3>1, <3>2
      <3> QED BY <2>1, <3>3 DEF Elsewhere
    <2>2. ASSUME NEW s \in Services, OtherMemory(s)
          PROVE  /\ knows' \in [Services -> BOOLEAN] /\ marks' \in [Services -> MarkSets]
                 /\ UNCHANGED has
      <3>1. knows \in [Services -> BOOLEAN] /\ marks \in [Services -> MarkSets]
        BY DEF Types, TypeOK
      <3>2. knows' = knows \/ knows' = [knows EXCEPT ![s] = ~@]
        BY <2>2 DEF OtherMemory
      <3>3. marks' = marks \/ \E m \in MarkSets : marks' = [marks EXCEPT ![s] = m]
        BY <2>2 DEF OtherMemory
      <3>4. knows' \in [Services -> BOOLEAN]
        BY <3>1, <3>2
      <3>5. marks' \in [Services -> MarkSets]
        BY <3>1, <3>3
      <3> QED BY <2>2, <3>4, <3>5 DEF OtherMemory
    <2>3. CASE PendingLapses \/ OtherLink \/ UNCHANGED vars
      BY <2>3 DEF PendingLapses, OtherLink, store, vars, Types, TypeOK
    <2> QED BY <2>1, <2>2, <2>3 DEF Types, TypeOK
  <1>3. /\ memo' \in [link : Links \cup {NoLink}, checked : BOOLEAN]
        /\ memo'.link = NoLink => memo' = NoMemo
    <2>1. CASE OtherLink
      <3>1. NoMemo \in [link : Links \cup {NoLink}, checked : BOOLEAN]
        BY DEF NoMemo
      <3>2. \/ memo' = NoMemo
            \/ \E link \in Links, checked \in BOOLEAN : memo' = [link |-> link, checked |-> checked]
            \/ memo # NoMemo /\ memo' = [link |-> memo.link, checked |-> TRUE]
        BY <2>1 DEF OtherLink, Put
      <3>3. memo # NoMemo => memo.link \in Links
        BY DEF Types, TypeOK
      <3>4. memo' = NoMemo \/ \E link \in Links, checked \in BOOLEAN : memo' = [link |-> link, checked |-> checked]
        BY <3>2, <3>3
      <3> QED BY <3>1, <3>4, LinksAssumption
    <2>2. CASE memo' = memo
      BY <2>2 DEF Types, TypeOK
    <2> QED BY <2>1, <2>2 DEF Elsewhere, OtherMemory, Changed, PendingLapses, vars
  <1>4. /\ steady' \subseteq Services /\ UNCHANGED <<failed, unheard>>
        /\ req.at = "idle" => steady' = Services
        /\ before' \in {"none", "alive", "not found"}
    BY DEF Elsewhere, OtherMemory, Changed, PendingLapses, OtherLink, history, vars, Types
  <1>5. TypeOK'
    BY <1>1, <1>2, <1>3 DEF Types, TypeOK
  <1> QED BY <1>1, <1>4, <1>5 DEF Types

\* The types hold at the start, after every step, and so always.
LEMMA TypesInit == Init => Types
PROOF
  <1> SUFFICES ASSUME Init PROVE Types
    OBVIOUS
  <1>1. <<>> \in Seq(Services) /\ IsInjective(<<>>) /\ Range(<<>>) = {}
    BY EmptySeq DEF IsInjective, Range
  <1>2. req = Idle("none") /\ Idle("none") \in Req
    BY <1>1 DEF Init, Idle, Req, Stages, Said
  <1>3. /\ req.at = "idle" /\ req.answer = "none" /\ req.todo = <<>> /\ req.unknown = {}
        /\ req.err = "dead" /\ req.spare = NoLink /\ req.route = "none"
    BY <1>2 DEF Idle
  <1>4. {} \in MarkSets
    BY DEF MarkSets
  <1>5. TypeOK
    BY <1>1, <1>2, <1>3, <1>4 DEF Init, NoMemo, TypeOK
  <1> QED BY <1>2, <1>3, <1>5 DEF Init, Types, PlayOnly, Unresolved

LEMMA TypesStep == Types /\ [Next]_vars => Types'
BY BeginTypes, MemoTypes, RecheckTypes, StatusTypes, StatusEndTypes, CacheCheckTypes, ResolveTypes,
   OverTypes, LinkTypes, CancelTypes, OtherTypes DEF Next, Step

LEMMA TypesHold == Spec => []Types
BY TypesInit, TypesStep, PTL DEF Spec

(* Every variable has its type, whatever requests, other requests and the  *)
(* services do.                                                            *)
THEOREM TypeCorrect == Spec => []TypeOK
<1>1. Types => TypeOK
  BY DEF Types
<1> QED BY <1>1, TypesHold, PTL
-----------------------------------------------------------------------------
(***************************************************************************)
(* What a request has established                                          *)
(***************************************************************************)

(* What a status answer that is true leaves of a store: it is not fetching *)
(* the release, and if it can find it, it has.                             *)
ReadTrue(s) ==
  /\ ~Fetches(s)
  /\ s \in Lists /\ has[s] # "none" => knows[s] /\ "out" \notin marks[s]

StatusRead ==
  /\ req.at = "status" => \A s \in Told \ Range(req.todo) : ReadTrue(s)
  /\ req.at \in {"escalated", "cache check", "enquire", "resolve", "after"} =>
       \A s \in Told : ReadTrue(s)

\* A probe keeps whom it could not hear.
UnheardKept == unheard = IF req.route = "probe" THEN req.unknown ELSE {}

\* A probe has asked every store that holds it ready, but where it was refused.
Enquiring ==
  req.at = "enquire" =>
    \A s \in Told : has[s] = "ready" /\ knows[s] => s \in Range(req.todo) \/ req.err = "refused"

\* A walk still to ask the stores that hold it asks them first; one that was asked had a say.
HoldersFirst ==
  \A i, j \in DOMAIN req.todo :
    /\ i < j /\ req.todo[i] \in steady /\ req.todo[j] \in steady
    /\ knows[req.todo[j]]
    => knows[req.todo[i]]
Resolving ==
  /\ req.at = "resolve" =>
       /\ \A s \in Told \ Range(req.todo) : req.err # "dead"
       /\ \A s \in Told : HoldsReady(s) => s \in Range(req.todo)
       /\ HoldersFirst
  /\ req.at = "after" /\ req.err = "dead" => Told = {}

\* The release is to be had, or on its way, from a store; nothing of it is.
Lives(s) == Fetches(s) \/ marks[s] = {"out"} \/ (has[s] = "ready" /\ knows[s])
Gone(s) == ~Lives(s) /\ (s \in Lists => has[s] = "none")

Agreeing ==
  steady = Services /\ failed = {} =>
    /\ before = "alive" => \E s \in Services : ~Gone(s)
    /\ before = "not found" => \A s \in Services : Gone(s)
    /\ \/ req.at \in {"check", "relist", "relist check"}
       \/ req.at \in {"resolve", "after"} /\ req.err = "coming"
       => \E s \in Services : Lives(s)

Established == StatusRead /\ UnheardKept /\ Enquiring /\ Resolving /\ Agreeing
IInv == Types /\ Established

\* What an answer leaves the invariant to show: that what it says of the release is so.
LEMMA AnswerHolds ==
  ASSUME Types, NEW answer \in Said, Answer(answer),
         /\ req.route # "cancel" /\ steady = Services /\ failed = {}
         /\ req.at \in {"memo", "recheck"} => HeldReady
         /\ req.at # "check" \/ answer # "not found"
         =>
           /\ answer \in Alive => \E s \in Services : Lives(s)' \/ ~Gone(s)'
           /\ answer = "not found" => \A s \in Services : Gone(s)'
  PROVE  Established'
PROOF
  <1>1. /\ req'.at = "idle" /\ req'.route = "none" /\ unheard' = {}
        /\ before' = "alive" => Tells(answer) /\ answer \in Alive
        /\ before' = "not found" => Tells(answer) /\ answer = "not found"
    BY AnswerTypes
  <1>2. StatusRead' /\ UnheardKept' /\ Enquiring' /\ Resolving'
    BY <1>1 DEF StatusRead, UnheardKept, Enquiring, Resolving
  <1>3. before' = "alive" => \E s \in Services : ~Gone(s)'
    BY <1>1 DEF Gone, Tells
  <1>4. before' = "not found" => \A s \in Services : Gone(s)'
    BY <1>1 DEF Tells
  <1>5. Agreeing'
    BY <1>1, <1>3, <1>4 DEF Agreeing
  <1> QED BY <1>2, <1>5 DEF Established

\* What the accounts' states and the clients of an answer have in common.
LEMMA SameState ==
  ASSUME NEW s \in Services, has'[s] = has[s], knows'[s] = knows[s], marks'[s] = marks[s]
  PROVE  /\ Fetches(s)' <=> Fetches(s)
         /\ ReadTrue(s)' <=> ReadTrue(s)
         /\ HoldsReady(s)' <=> HoldsReady(s)
         /\ Lives(s)' <=> Lives(s)
         /\ Gone(s)' <=> Gone(s)
PROOF
  <1>1. Fetches(s)' <=> Fetches(s)
    BY DEF Fetches
  <1>2. ReadTrue(s)' <=> ReadTrue(s)
    BY <1>1 DEF ReadTrue
  <1>3. HoldsReady(s)' <=> HoldsReady(s)
    BY DEF HoldsReady
  <1>4. Lives(s)' <=> Lives(s)
    BY <1>1 DEF Lives
  <1> QED BY <1>1, <1>2, <1>3, <1>4 DEF Gone

\* Other requests, other clients and the services: what they change is not steady.
LEMMA WorldFacts ==
  ASSUME Types, \/ \E s \in Services : Elsewhere(s) \/ OtherMemory(s)
                \/ PendingLapses \/ OtherLink \/ UNCHANGED vars
  PROVE  /\ UNCHANGED <<req, failed, unheard>>
         /\ \/ UNCHANGED <<has, knows, marks, steady, before>>
            \/ before' = "none" /\ req.at = "idle"
            \/ /\ before' = "none" /\ req.at # "idle" /\ steady' # Services /\ steady' \subseteq steady
               /\ \A t \in steady' : has'[t] = has[t] /\ knows'[t] = knows[t] /\ marks'[t] = marks[t]
PROOF
  <1>1. UNCHANGED <<req, failed, unheard>>
    BY DEF Elsewhere, OtherMemory, Changed, PendingLapses, OtherLink, history, vars
  <1>2. ASSUME NEW s \in Services, Elsewhere(s) \/ OtherMemory(s), req.at # "idle"
        PROVE  /\ before' = "none" /\ steady' # Services /\ steady' \subseteq steady
               /\ \A t \in steady' : has'[t] = has[t] /\ knows'[t] = knows[t] /\ marks'[t] = marks[t]
    <2>1. steady' = steady \ {s} /\ before' = "none"
      BY <1>2 DEF Elsewhere, OtherMemory, Changed
    <2>2. steady \subseteq Services
      BY DEF Types
    <2>3. ASSUME NEW t \in steady'
          PROVE  has'[t] = has[t] /\ knows'[t] = knows[t] /\ marks'[t] = marks[t]
      <3>1. t \in Services /\ t # s
        BY <2>1, <2>2
      <3>2. CASE Elsewhere(s)
        BY <3>1, <3>2 DEF Elsewhere, Types, TypeOK
      <3>3. CASE OtherMemory(s)
        BY <3>1, <3>3 DEF OtherMemory, Types, TypeOK
      <3> QED BY <1>2, <3>2, <3>3
    <2> QED BY <2>1, <2>3
  <1>3. ASSUME NEW s \in Services, Elsewhere(s) \/ OtherMemory(s)
        PROVE  before' = "none"
    BY <1>3 DEF Elsewhere, OtherMemory, Changed
  <1>4. ASSUME PendingLapses \/ OtherLink \/ UNCHANGED vars
        PROVE  UNCHANGED <<has, knows, marks, steady, before>>
    BY <1>4 DEF PendingLapses, OtherLink, store, history, vars
  <1> QED BY <1>1, <1>2, <1>3, <1>4

\* So what a request has established stands, of the stores that stayed.
LEMMA WorldHolds ==
  ASSUME IInv, \/ \E s \in Services : Elsewhere(s) \/ OtherMemory(s)
               \/ PendingLapses \/ OtherLink \/ UNCHANGED vars
  PROVE  Established'
PROOF
  <1>1. UNCHANGED <<req, failed, unheard>>
    BY WorldFacts DEF IInv, Established
  <1>2. UnheardKept'
    BY <1>1 DEF IInv, Established, UnheardKept
  <1>3. CASE UNCHANGED <<has, knows, marks, steady, before>>
    <2>1. Told' = Told
      BY <1>1, <1>3 DEF Told
    <2>2. StatusRead' /\ Enquiring' /\ Resolving'
      BY <1>1, <1>3, <2>1 DEF IInv, Established, StatusRead, ReadTrue, Fetches, Enquiring, Resolving, HoldersFirst, HoldsReady
    <2>3. Agreeing'
      BY <1>1, <1>3 DEF IInv, Established, Agreeing, Lives, Gone, Fetches
    <2> QED BY <1>2, <2>2, <2>3 DEF Established
  <1>4. CASE before' = "none" /\ req.at = "idle"
    <2>1. StatusRead' /\ Enquiring' /\ Resolving' /\ Agreeing'
      BY <1>1, <1>4 DEF StatusRead, Enquiring, Resolving, Agreeing
    <2> QED BY <1>2, <2>1 DEF Established
  <1>5. CASE /\ before' = "none" /\ req.at # "idle" /\ steady' # Services /\ steady' \subseteq steady
             /\ \A t \in steady' : has'[t] = has[t] /\ knows'[t] = knows[t] /\ marks'[t] = marks[t]
    <2>1. Told' \subseteq Told /\ Told' \subseteq steady' /\ steady' \subseteq Services
      BY <1>1, <1>5 DEF Told, IInv, Types
    <2>2. ASSUME NEW t \in steady'
          PROVE  (ReadTrue(t)' <=> ReadTrue(t)) /\ (HoldsReady(t)' <=> HoldsReady(t))
      BY <1>5, <2>1, SameState
    <2>3. StatusRead'
      BY <1>1, <2>1, <2>2 DEF IInv, Established, StatusRead
    <2>4. Enquiring'
      BY <1>1, <1>5, <2>1 DEF IInv, Established, Enquiring
    <2>5. HoldersFirst => HoldersFirst'
      BY <1>1, <1>5 DEF HoldersFirst
    <2>6. Resolving'
      BY <1>1, <2>1, <2>2, <2>5 DEF IInv, Established, Resolving
    <2>7. Agreeing'
      BY <1>5 DEF Agreeing
    <2> QED BY <1>2, <2>3, <2>4, <2>6, <2>7 DEF Established
  <1> QED BY <1>3, <1>4, <1>5, WorldFacts DEF IInv, Established

\* Only what was asked failed: what is known of the accounts stays.
LEMMA StoreKept ==
  ASSUME Types, UNCHANGED <<has, knows, marks, steady>>, failed \subseteq failed'
  PROVE  /\ Told' \subseteq Told /\ Told \subseteq Services
         /\ \A t \in Services : /\ ReadTrue(t)' <=> ReadTrue(t)
                                /\ HoldsReady(t)' <=> HoldsReady(t)
                                /\ Lives(t)' <=> Lives(t)
                                /\ Gone(t)' <=> Gone(t)
PROOF
  <1>1. \A t \in Services : /\ ReadTrue(t)' <=> ReadTrue(t)
                            /\ HoldsReady(t)' <=> HoldsReady(t)
                            /\ Lives(t)' <=> Lives(t)
                            /\ Gone(t)' <=> Gone(t)
    BY SameState
  <1> QED BY <1>1 DEF Told, Types

\* Nor does what the last answer said cease to be so.
LEMMA AgreeingKept ==
  ASSUME IInv, UNCHANGED <<has, knows, marks, steady, before>>, failed \subseteq failed',
         req'.at \in {"check", "relist", "relist check"} => req.at \in {"check", "relist", "relist check"},
         req'.at \in {"resolve", "after"} /\ req'.err = "coming" =>
           req.at \in {"resolve", "after"} /\ req.err = "coming"
  PROVE  Agreeing'
PROOF
  <1>1. \A t \in Services : (Lives(t)' <=> Lives(t)) /\ (Gone(t)' <=> Gone(t))
    BY StoreKept DEF IInv
  <1>2. steady' = Services /\ failed' = {} => steady = Services /\ failed = {}
    OBVIOUS
  <1> QED BY <1>1, <1>2 DEF IInv, Established, Agreeing

\* Every step of a request keeps what it has established.
LEMMA BeginHolds ==
  ASSUME IInv, NEW route \in {"play", "fresh", "probe", "cancel"}, Begin(route)
  PROVE  Established'
PROOF
  <1>1. /\ UNCHANGED <<has, knows, marks, steady, failed, unheard, before>>
        /\ req.at = "idle" /\ unheard = {}
    BY DEF Begin, store, IInv, Types
  <1>2. /\ req'.unknown = {} /\ req'.at \in {"memo", "status", "cancel"}
        /\ req'.at = "status" => req'.todo = Order
    BY DEF Begin, Serving, Idle
  <1>3. Told' \subseteq Range(Order)
    BY <1>1 DEF Told, IInv, Types, Services
  <1>4. StatusRead' /\ UnheardKept' /\ Enquiring' /\ Resolving'
    BY <1>1, <1>2, <1>3 DEF StatusRead, UnheardKept, Enquiring, Resolving
  <1>5. Agreeing'
    BY <1>1, <1>2, AgreeingKept
  <1> QED BY <1>4, <1>5 DEF Established

LEMMA MemoHolds ==
  ASSUME IInv, MemoMiss \/ MemoHit \/ \E verdict \in Verdicts : Recheck(verdict)
  PROVE  Established'
PROOF
  <1>1. /\ req \in Req /\ req.route = "play" /\ UNCHANGED <<has, knows, marks>>
    BY DEF MemoMiss, MemoHit, Recheck, store, IInv, Types, PlayOnly
  <1>2. \/ Answer("link")
        \/ /\ UNCHANGED <<steady, failed, unheard, before>>
           /\ req'.route = req.route /\ req'.at \in {"held", "status", "recheck", "memo"}
           /\ req'.at = "status" => req'.todo = Order
    BY <1>1 DEF MemoMiss, MemoHit, Recheck, PastTheMemo, Goes, Verdicts, history, Req
  <1>3. CASE Answer("link")
    <2>1. HeldReady => \E t \in Services : ~Gone(t)'
      <3>1. \A t \in Services : Gone(t)' <=> Gone(t)
        BY <1>1, SameState
      <3>2. HeldReady => \E t \in Services : ~Gone(t)
        BY DEF HeldReady, Gone, Lives
      <3> QED BY <3>1, <3>2
    <2>2. req.at \in {"memo", "recheck"}
      BY DEF MemoMiss, MemoHit, Recheck
    <2> QED BY <1>3, <2>1, <2>2, AnswerHolds DEF IInv, Said
  <1>4. CASE /\ UNCHANGED <<steady, failed, unheard, before>>
             /\ req'.route = req.route /\ req'.at \in {"held", "status", "recheck", "memo"}
             /\ req'.at = "status" => req'.todo = Order
    <2>1. Told' \subseteq Range(Order)
      BY <1>4 DEF Told, IInv, Types, Services
    <2>2. UnheardKept'
      BY <1>1, <1>4 DEF UnheardKept, IInv, Established
    <2>3. StatusRead' /\ Enquiring' /\ Resolving'
      BY <1>4, <2>1 DEF StatusRead, Enquiring, Resolving
    <2>4. Agreeing'
      BY <1>1, <1>4, AgreeingKept
    <2> QED BY <2>2, <2>3, <2>4 DEF Established
  <1> QED BY <1>2, <1>3, <1>4

\* A store's status settles what it says of it.
LEMMA StatusSettles ==
  ASSUME Types, NEW s \in Services, StatusAnswered(s)
  PROVE  /\ req \in Req /\ req.at \in Asking /\ req.todo # <<>> /\ s = Head(req.todo) /\ has' = has
         /\ ~Discovers(s) => knows'[s] = knows[s] /\ marks'[s] = marks[s]
         /\ Discovers(s) => knows'[s] = TRUE /\ marks'[s] = marks[s] \ {"out"}
         /\ \A t \in Services \ {s} : knows'[t] = knows[t] /\ marks'[t] = marks[t]
         /\ \A t \in Services : (Gone(t)' <=> Gone(t)) /\ (Lives(t) => Lives(t)')
PROOF
  <1>1. /\ req \in Req /\ req.at \in Asking /\ req.todo # <<>> /\ s = Head(req.todo) /\ has' = has
        /\ knows' = [knows EXCEPT ![s] = @ \/ Discovers(s)]
        /\ marks' = [marks EXCEPT ![s] = IF Discovers(s) THEN @ \ {"out"} ELSE @]
    BY DEF StatusAnswered, Types
  <1>2. /\ ~Discovers(s) => knows'[s] = knows[s] /\ marks'[s] = marks[s]
        /\ Discovers(s) => knows'[s] = TRUE /\ marks'[s] = marks[s] \ {"out"}
        /\ \A t \in Services \ {s} : knows'[t] = knows[t] /\ marks'[t] = marks[t]
    <2>1. knows \in [Services -> BOOLEAN] /\ marks \in [Services -> MarkSets]
      BY DEF Types, TypeOK
    <2>2. knows[s] \in BOOLEAN
      BY <2>1
    <2>3. knows'[s] = (knows[s] \/ Discovers(s))
      BY <1>1, <2>1
    <2>4. ~Discovers(s) => knows'[s] = knows[s]
      BY <2>2, <2>3
    <2>5. Discovers(s) => knows'[s] = TRUE
      BY <2>3
    <2>6. marks'[s] = IF Discovers(s) THEN marks[s] \ {"out"} ELSE marks[s]
      BY <1>1, <2>1
    <2>7. \A t \in Services \ {s} : knows'[t] = knows[t] /\ marks'[t] = marks[t]
      BY <1>1, <2>1
    <2> QED BY <2>4, <2>5, <2>6, <2>7
  <1>3. \A t \in Services : Gone(t)' <=> Gone(t)
    <2>1. ASSUME NEW t \in Services \ {s} PROVE Gone(t)' <=> Gone(t)
      BY <1>1, <1>2, SameState
    <2>2. Gone(s)' <=> Gone(s)
      <3>1. CASE Discovers(s)
        BY <1>1, <3>1 DEF Gone, Discovers
      <3>2. CASE ~Discovers(s)
        BY <1>1, <1>2, <3>2, SameState
      <3> QED BY <3>1, <3>2
    <2> QED BY <2>1, <2>2
  <1>4. \A t \in Services : Lives(t) => Lives(t)'
    <2>1. ASSUME NEW t \in Services \ {s} PROVE Lives(t) => Lives(t)'
      BY <1>1, <1>2, SameState
    <2>2. Lives(s) => Lives(s)'
      <3>1. CASE ~Discovers(s)
        BY <1>1, <1>2, <3>1, SameState
      <3>2. CASE Discovers(s)
        <4>1. knows'[s] /\ has'[s] = has[s] /\ has[s] \in {"fetching", "ready"}
          <5>1. knows'[s] /\ has' = has /\ has[s] # "none"
            BY <1>1, <1>2, <3>2 DEF Discovers
          <5>2. has[s] \in {"none", "fetching", "ready"}
            BY DEF Types, TypeOK
          <5> QED BY <5>1, <5>2
        <4> QED BY <4>1 DEF Lives, Fetches
      <3> QED BY <3>1, <3>2
    <2> QED BY <2>1, <2>2
  <1> QED BY <1>1, <1>2, <1>3, <1>4

LEMMA StatusAnsweredHolds ==
  ASSUME IInv, NEW s \in Services, StatusAnswered(s)
  PROVE  Established'
PROOF
  <1>1. /\ req \in Req /\ req.at \in Asking /\ req.todo # <<>> /\ s = Head(req.todo) /\ has' = has
    BY StatusSettles DEF IInv
  <1>2. /\ ~Discovers(s) => knows'[s] = knows[s] /\ marks'[s] = marks[s]
        /\ Discovers(s) => knows'[s] = TRUE /\ marks'[s] = marks[s] \ {"out"}
        /\ \A t \in Services \ {s} : knows'[t] = knows[t] /\ marks'[t] = marks[t]
    BY StatusSettles DEF IInv
  <1>3. \A t \in Services : Gone(t)' <=> Gone(t)
    BY StatusSettles DEF IInv
  <1>4. \A t \in Services : Lives(t) => Lives(t)'
    BY StatusSettles DEF IInv
  <1>5. CASE Fetches(s)
    <2>1. Answer("coming")
      BY <1>5 DEF StatusAnswered
    <2>2. Lives(s)'
      BY <1>4, <1>5 DEF Lives
    <2> QED BY <2>1, <2>2, AnswerHolds DEF IInv, Said
  <1>6. CASE ~Fetches(s)
    <2>1. NextStore /\ UNCHANGED <<pending, steady, failed, unheard, before>>
      BY <1>6 DEF StatusAnswered
    <2>2. /\ req'.todo = Tail(req.todo) /\ req'.at = req.at /\ req'.route = req.route
          /\ req'.err = req.err /\ req'.unknown = req.unknown
      BY <1>1, <2>1 DEF NextStore, Req
    <2>3. Told' = Told /\ Told \subseteq Services
      BY <2>1 DEF Told, IInv, Types
    <2>4. Range(req.todo) \subseteq {s} \cup Range(req'.todo)
      BY <1>1, <2>2, TailFacts DEF Req
    <2>5. ReadTrue(s)'
      <3>1. ~Fetches(s)'
        BY <1>1, <1>2, <1>6 DEF Fetches, Discovers
      <3>2. s \in Lists /\ has'[s] # "none" => Discovers(s)
        BY <1>1 DEF Discovers
      <3> QED BY <1>2, <3>1, <3>2 DEF ReadTrue
    <2>6. \A t \in Services \ {s} : ReadTrue(t)' <=> ReadTrue(t)
      BY <1>1, <1>2, SameState
    <2>7. StatusRead'
      BY <2>2, <2>3, <2>4, <2>5, <2>6 DEF StatusRead, IInv, Established
    <2>8. UnheardKept'
      BY <2>1, <2>2 DEF UnheardKept, IInv, Established
    <2>9. Enquiring' /\ Resolving'
      BY <1>1, <2>2, <2>3 DEF Asking, Enquiring, Resolving, IInv, Established
    <2>10. Agreeing'
      BY <1>3, <1>4, <2>1, <2>2 DEF Agreeing, IInv, Established
    <2> QED BY <2>7, <2>8, <2>9, <2>10 DEF Established
  <1> QED BY <1>5, <1>6

LEMMA StatusFailedHolds ==
  ASSUME IInv, (\E s \in Services : StatusFailed(s)) \/ OutOfTime
  PROVE  Established'
PROOF
  <1>1. /\ req \in Req /\ req.at \in Asking /\ req.todo # <<>>
        /\ UNCHANGED <<has, knows, marks, steady, before>>
    BY DEF StatusFailed, OutOfTime, store, IInv, Types
  <1>2. \E S \in SUBSET Range(req.todo) :
          /\ req' = [req EXCEPT !.todo = req'.todo, !.unknown = StillUnknown(S)]
          /\ unheard' = IF req.route = "probe" THEN unheard \cup S ELSE {}
    <2>1. ASSUME NEW s \in Services, StatusFailed(s)
          PROVE  \E S \in SUBSET Range(req.todo) :
                   /\ req' = [req EXCEPT !.todo = req'.todo, !.unknown = StillUnknown(S)]
                   /\ unheard' = IF req.route = "probe" THEN unheard \cup S ELSE {}
      <3>1. {} \subseteq Range(req.todo) /\ {s} \subseteq Range(req.todo)
        BY <2>1, NextTypes DEF StatusFailed, IInv
      <3>2. PICK S \in {{}, {s}} :
              /\ req' = [req EXCEPT !.todo = Tail(@), !.unknown = StillUnknown(S)]
              /\ unheard' = IF req.route = "probe" THEN unheard \cup S ELSE {}
        BY <2>1 DEF StatusFailed
      <3>3. req'.todo = Tail(req.todo)
        BY <1>1, <3>2 DEF Req
      <3> QED BY <3>1, <3>2, <3>3
    <2>2. CASE OutOfTime
      <3>1. /\ req' = [req EXCEPT !.todo = <<>>, !.unknown = StillUnknown(Range(req.todo))]
            /\ unheard' = IF req.route = "probe" THEN unheard \cup Range(req.todo) ELSE {}
        BY <2>2 DEF OutOfTime
      <3>2. req'.todo = <<>>
        BY <1>1, <3>1 DEF Req
      <3> QED BY <3>1, <3>2
    <2> QED BY <2>1, <2>2
  <1>3. PICK S \in SUBSET Range(req.todo) :
          /\ req' = [req EXCEPT !.todo = req'.todo, !.unknown = StillUnknown(S)]
          /\ unheard' = IF req.route = "probe" THEN unheard \cup S ELSE {}
    BY <1>2
  <1>4. /\ req'.at = req.at /\ req'.route = req.route /\ req'.err = req.err
        /\ req'.unknown = StillUnknown(S)
    BY <1>1, <1>3 DEF Req
  <1>5. failed \subseteq failed' /\ Range(req.todo) \subseteq failed' \cup Range(req'.todo)
    <2>1. ASSUME NEW s \in Services, StatusFailed(s)
          PROVE  failed \subseteq failed' /\ Range(req.todo) \subseteq failed' \cup Range(req'.todo)
      <3>1. failed' = failed \cup {s} /\ s = Head(req.todo)
        BY <2>1 DEF StatusFailed
      <3>2. req'.todo = Tail(req.todo)
        BY <1>1, <2>1 DEF StatusFailed, Req
      <3>3. Range(req.todo) \subseteq {s} \cup Range(req'.todo)
        BY <1>1, <3>1, <3>2, TailFacts DEF Req
      <3> QED BY <3>1, <3>3
    <2>2. CASE OutOfTime
      BY <2>2 DEF OutOfTime
    <2> QED BY <2>1, <2>2
  <1>6. /\ Told' \subseteq Told /\ Told \subseteq Services
        /\ \A t \in Services : ReadTrue(t)' <=> ReadTrue(t)
    BY <1>1, <1>5, StoreKept DEF IInv
  <1>7. StatusRead'
    <2>1. Told' \ Range(req'.todo) \subseteq Told \ Range(req.todo)
      BY <1>5, <1>6 DEF Told
    <2> QED BY <1>4, <1>6, <2>1 DEF StatusRead, IInv, Established
  <1>8. UnheardKept'
    <2>1. CASE req.route = "probe"
      <3>1. req.at = "status"
        BY <1>1, <2>1 DEF Asking, IInv, Types, PlayOnly
      <3> QED BY <1>3, <1>4, <2>1, <3>1 DEF StillUnknown, UnheardKept, IInv, Established
    <2>2. CASE req.route # "probe"
      BY <1>3, <1>4, <2>2 DEF UnheardKept
    <2> QED BY <2>1, <2>2
  <1>9. Enquiring' /\ Resolving'
    BY <1>1, <1>4, <1>6 DEF Asking, Enquiring, Resolving, IInv, Established
  <1>10. Agreeing'
    BY <1>1, <1>4, <1>5, AgreeingKept
  <1> QED BY <1>7, <1>8, <1>9, <1>10 DEF Established

LEMMA StatusOverHolds ==
  ASSUME IInv, StatusOver
  PROVE  Established'
PROOF
  <1>1. /\ req \in Req /\ req.at \in {"status", "escalated"} /\ req.todo = <<>>
        /\ UNCHANGED <<has, knows, marks, steady, failed, unheard, before>>
    BY DEF StatusOver, store, history, IInv, Types
  <1>2. /\ req'.at \in {"cache check", "escalated"} /\ req'.route = req.route
        /\ req.route = "probe" => req'.unknown = req.unknown
    BY <1>1 DEF StatusOver, Goes, Req
  <1>3. /\ Told' \subseteq Told /\ Told \subseteq Services
        /\ \A t \in Services : ReadTrue(t)' <=> ReadTrue(t)
    BY <1>1, StoreKept DEF IInv
  <1>4. Range(<<>>) = {}
    BY EmptyQueue
  <1>5. StatusRead'
    BY <1>1, <1>2, <1>3, <1>4 DEF StatusRead, IInv, Established
  <1>6. UnheardKept'
    BY <1>1, <1>2 DEF UnheardKept, IInv, Established
  <1>7. Enquiring' /\ Resolving'
    BY <1>2 DEF Enquiring, Resolving
  <1>8. Agreeing'
    BY <1>1, <1>2, AgreeingKept
  <1> QED BY <1>5, <1>6, <1>7, <1>8 DEF Established

LEMMA CacheCheckHolds ==
  ASSUME IInv, NEW answered \in SUBSET Truth, NEW heldBy \in SUBSET answered,
         CacheCheck(answered, heldBy)
  PROVE  Established'
PROOF
  <1>1. /\ req \in Req /\ req.at = "cache check" /\ req.err = "dead"
        /\ UNCHANGED <<has, knows, marks, steady, unheard, before>> /\ failed \subseteq failed'
    BY DEF CacheCheck, store, IInv, Types, Unresolved
  <1>2. /\ Told' \subseteq Told /\ Told \subseteq Services
        /\ \A t \in Services : ReadTrue(t)' <=> ReadTrue(t)
    BY <1>1, StoreKept DEF IInv
  <1>3. heldBy \in SUBSET Services
    BY ServicesAssumption
  <1>4. /\ req' = [req EXCEPT !.at = req'.at, !.todo = req'.todo, !.truth = req'.truth]
        /\ \/ req.route = "play" /\ req'.at = "resolve" /\ req'.todo = Ordered(Preferred(heldBy))
           \/ req.route # "play" /\ req'.at = "enquire" /\ req'.todo = Enquired(heldBy)
    BY <1>1 DEF CacheCheck, Goes, Req
  <1>5. req'.unknown = req.unknown /\ req'.route = req.route /\ req'.err = "dead"
    BY <1>1, <1>4 DEF Req
  <1>6. StatusRead'
    BY <1>1, <1>2, <1>4 DEF StatusRead, IInv, Established
  <1>7. UnheardKept'
    BY <1>1, <1>5 DEF UnheardKept, IInv, Established
  <1>8. Enquiring'
    <2>1. Range(Enquired(heldBy)) = (heldBy \cup Holding) \cap Services
      BY ConfiguredFacts DEF Enquired
    <2>2. \A s \in Services : knows'[s] => s \in Holding
      BY <1>1 DEF Holding
    <2> QED BY <1>2, <1>4, <2>1, <2>2 DEF Enquiring
  <1>9. Resolving'
    <2>1. CASE req.route = "play"
      <3>1. Range(req'.todo) = Services
        BY <1>3, <1>4, <2>1, OrderedFacts DEF IInv
      <3>2. req'.todo \in Seq(Services)
        BY <1>3, <1>4, <2>1, OrderedFacts DEF IInv
      <3>3. \A i, j \in DOMAIN req'.todo :
              i < j /\ req'.todo[j] \in Holding => req'.todo[i] \in Holding
        BY <1>3, <1>4, <2>1, OrderedFacts DEF IInv
      <3>4. \A j \in DOMAIN req'.todo : req'.todo[j] \in Services
        BY <3>1 DEF Range
      <3>5. \A s \in Services : s \in Holding <=> knows'[s]
        BY <1>1 DEF Holding
      <3>6. HoldersFirst'
        BY <3>3, <3>4, <3>5 DEF HoldersFirst
      <3> QED BY <1>2, <1>4, <2>1, <3>1, <3>6 DEF Resolving
    <2>2. CASE req.route # "play"
      BY <1>4, <2>2 DEF Resolving
    <2> QED BY <2>1, <2>2
  <1>10. Agreeing'
    BY <1>1, <1>4, <1>5, AgreeingKept
  <1> QED BY <1>6, <1>7, <1>8, <1>9, <1>10 DEF Established

\* What a play or a probe says it could not find is not there, as far as it was told.
LEMMA SaidNotFound ==
  ASSUME IInv, \/ PlayVerdict /\ req.err = "dead"
               \/ ProbeVerdict /\ req'.answer = "not found"
  PROVE  /\ unheard = {}
         /\ \A s \in Told : ~Lives(s) /\ Gone(s)
PROOF
  <1>1. Told \subseteq Services
    BY DEF Told, IInv, Types
  <1>2. CASE PlayVerdict /\ req.err = "dead"
    <2>1. req.at = "after" /\ req.route = "play"
      BY <1>2 DEF PlayVerdict, IInv, Types, PlayOnly
    <2>2. Told = {} /\ unheard = {}
      BY <1>2, <2>1 DEF IInv, Established, Resolving, UnheardKept
    <2> QED BY <2>2
  <1>3. CASE ProbeVerdict /\ req'.answer = "not found"
    <2>1. req.at = "enquire" /\ req.todo = <<>> /\ req.route = "probe"
      BY <1>3 DEF ProbeVerdict, IInv, Types
    <2>2. ~AddInFlight /\ req.err # "refused" /\ ~CannotTell
      <3> DEFINE answer == IF AddInFlight THEN "coming"
                           ELSE IF \/ AccountRefusal \/ EveryAddRefusedByScout \/ req.err = "refused"
                                   \/ RecentRefusal \/ CannotTell
                                  THEN "refused"
                                  ELSE "not found"
      <3>1. Answer(answer)
        BY <1>3 DEF ProbeVerdict
      <3>2. req'.answer = answer
        BY <3>1 DEF Answer, Idle
      <3> QED BY <1>3, <3>2
    <2>3. unheard = {}
      BY <2>1, <2>2 DEF CannotTell, IInv, Established, UnheardKept
    <2>4. Range(<<>>) = {}
      BY EmptyQueue
    <2>5. ASSUME NEW s \in Told PROVE ~Lives(s) /\ Gone(s)
      <3>1. ReadTrue(s)
        BY <2>1 DEF IInv, Established, StatusRead
      <3>2. ~(has[s] = "ready" /\ knows[s])
        BY <2>1, <2>2, <2>4 DEF IInv, Established, Enquiring
      <3>3. marks[s] # {"out"}
        BY <1>1, <2>2 DEF AddInFlight
      <3>4. ~Lives(s)
        BY <3>1, <3>2, <3>3 DEF Lives, ReadTrue
      <3>5. has[s] \in {"none", "fetching", "ready"}
        BY <1>1 DEF IInv, Types, TypeOK
      <3>6. s \in Lists => has[s] = "none"
        BY <3>1, <3>2, <3>5 DEF ReadTrue, Fetches
      <3> QED BY <3>4, <3>6 DEF Gone
    <2> QED BY <2>3, <2>5
  <1> QED BY <1>2, <1>3

LEMMA OverHolds ==
  ASSUME IInv, HeldOver \/ ResolveOver \/ PlayVerdict \/ ProbeVerdict
  PROVE  Established'
PROOF
  <1>1. req \in Req /\ UNCHANGED <<has, knows, marks>>
    BY DEF HeldOver, ResolveOver, PlayVerdict, ProbeVerdict, store, IInv, Types
  <1>2. \A t \in Services : (Lives(t)' <=> Lives(t)) /\ (Gone(t)' <=> Gone(t))
    BY <1>1, SameState
  <1>3. CASE HeldOver \/ ResolveOver
    <2>1. UNCHANGED <<steady, failed, unheard, before>> /\ req.route = "play"
      BY <1>3 DEF HeldOver, ResolveOver, history, IInv, Types, PlayOnly
    <2>2. /\ req'.route = req.route /\ req'.todo = Order
          /\ \/ req'.at = "status"
             \/ /\ req.at = "resolve" /\ req.todo = <<>> /\ req'.at = "after"
                /\ req'.err \in {req.err, Worse(req.err, "refused")}
      BY <1>1, <1>3 DEF HeldOver, ResolveOver, Goes, Req
    <2>3. /\ Told' = Told /\ Told \subseteq Services /\ Told \subseteq Range(Order)
          /\ \A t \in Services : ReadTrue(t)' <=> ReadTrue(t)
      BY <1>1, <2>1, StoreKept DEF Told, IInv, Types, Services
    <2>4. StatusRead'
      BY <2>2, <2>3 DEF StatusRead, IInv, Established
    <2>5. UnheardKept' /\ Enquiring'
      BY <2>1, <2>2 DEF UnheardKept, Enquiring, IInv, Established
    <2>6. Resolving'
      <3>1. Range(<<>>) = {}
        BY EmptyQueue
      <3>2. req'.at = "after" /\ req'.err = "dead" => req.err = "dead"
        BY <2>2 DEF Worse
      <3> QED BY <2>2, <2>3, <3>1, <3>2 DEF Resolving, IInv, Established
    <2>7. Agreeing'
      <3>1. req'.at = "after" /\ req'.err = "coming" => req.at = "resolve" /\ req.err = "coming"
        BY <2>2 DEF Worse
      <3> QED BY <1>1, <2>1, <2>2, <3>1, AgreeingKept
    <2> QED BY <2>4, <2>5, <2>6, <2>7 DEF Established
  <1>4. CASE PlayVerdict
    <2> DEFINE answer == IF req.err = "dead" THEN "not found" ELSE req.err
    <2>1. Answer(answer) /\ req.at = "after"
      BY <1>4 DEF PlayVerdict
    <2>2. answer \in Said
      BY <1>1 DEF Req, Said
    <2>3. steady = Services /\ failed = {} /\ answer \in Alive => \E s \in Services : Lives(s)'
      <3>1. answer \in Alive => req.err = "coming"
        BY <1>1 DEF Alive, Req
      <3> QED BY <1>2, <2>1, <3>1 DEF IInv, Established, Agreeing
    <2>4. steady = Services /\ failed = {} /\ answer = "not found" => \A s \in Services : Gone(s)'
      <3>1. answer = "not found" => req.err = "dead"
        BY <1>1 DEF Req
      <3>2. steady = Services /\ failed = {} => Told = Services
        BY DEF Told
      <3> QED BY <1>2, <1>4, <3>1, <3>2, SaidNotFound
    <2> HIDE DEF answer
    <2> QED BY <2>1, <2>2, <2>3, <2>4, AnswerHolds DEF IInv
  <1>5. CASE ProbeVerdict
    <2> DEFINE answer == IF AddInFlight THEN "coming"
                         ELSE IF \/ AccountRefusal \/ EveryAddRefusedByScout \/ req.err = "refused"
                                 \/ RecentRefusal \/ CannotTell
                                THEN "refused"
                                ELSE "not found"
    <2>1. Answer(answer)
      BY <1>5 DEF ProbeVerdict
    <2>2. answer \in Said /\ req'.answer = answer
      BY <2>1 DEF Said, Answer, Idle
    <2>3. answer \in Alive => \E s \in Services : Lives(s)'
      <3>1. answer \in Alive => AddInFlight
        BY DEF Alive
      <3> QED BY <1>2, <3>1 DEF AddInFlight, Lives
    <2> HIDE DEF answer
    <2>4. steady = Services /\ failed = {} /\ answer = "not found" => \A s \in Services : Gone(s)'
      <3>1. steady = Services /\ failed = {} => Told = Services
        BY DEF Told
      <3> QED BY <1>2, <1>5, <2>2, <3>1, SaidNotFound
    <2> QED BY <2>1, <2>2, <2>3, <2>4, AnswerHolds DEF IInv
  <1> QED BY <1>3, <1>4, <1>5

\* A store that holds the release ready makes a link of it, unless an add is barred there.
LEMMA HolderAnswers ==
  ASSUME Types, NEW s \in Services, NEW noAdd \in BOOLEAN, NEW says \in Says,
         Answers(s, noAdd, says), knows[s], has[s] = "ready", says # "link"
  PROVE  Barred(s, noAdd) /\ says = "refused"
BY DEF Answers, ToBeAdded

\* A link comes of a torrent that is held and ready.
LEMMA LinkOfAHolder ==
  ASSUME NEW s \in Services, NEW noAdd \in BOOLEAN, Answers(s, noAdd, "link")
  PROVE  knows[s] /\ has[s] = "ready" /\ UNCHANGED store
BY DEF Answers

\* A walk that may add hears that it is coming from an account where it is.
LEMMA ComingFromALiveOne ==
  ASSUME Types, NEW s \in Services, Answers(s, FALSE, "coming")
  PROVE  Lives(s)
PROOF
  <1>1. /\ ToBeAdded(s, FALSE)
        /\ (s \in Lists /\ has[s] = "fetching") \/ "out" \in marks[s]
    BY DEF Answers
  <1>2. "rejected" \notin marks[s]
    BY <1>1 DEF ToBeAdded, Barred
  <1>3. marks[s] \in MarkSets
    BY DEF Types, TypeOK
  <1>4. "out" \in marks[s] => marks[s] = {"out"}
    BY <1>2, <1>3 DEF MarkSets
  <1> QED BY <1>1, <1>4 DEF Lives, Fetches

\* A step of a walk over the stores, but for a probe's last.
LEMMA WalkFacts ==
  ASSUME Types, NEW s \in Services, NEW says \in Says, ~Answer("ready"),
         ResolveAnswered(s, says) \/ ResolveAdded(s, says) \/ ResolveFailed(s, says)
  PROVE  /\ req.at \in {"held", "enquire", "relist", "resolve"} /\ req.todo # <<>> /\ s = Head(req.todo)
         /\ UNCHANGED <<unheard, before>> /\ steady' \subseteq steady /\ failed \subseteq failed'
         /\ \A t \in steady' : has'[t] = has[t] /\ knows'[t] = knows[t] /\ marks'[t] = marks[t]
         /\ Told' \subseteq Told /\ Told \subseteq Services
         /\ \/ says = "link" /\ Minted /\ req.at \in {"held", "resolve", "relist"}
            \/ says # "link" /\ Heard(says)
         /\ ResolveAdded(s, says) => s \notin steady' /\ req.at = "resolve"
         /\ ResolveFailed(s, says) => s \in failed' /\ says # "link"
PROOF
  <1>1. /\ req.at \in {"held", "enquire", "relist", "resolve"} /\ req.todo # <<>> /\ s = Head(req.todo)
        /\ steady \subseteq Services
    BY DEF ResolveAnswered, ResolveAdded, ResolveFailed, Asks, ReadOnly, Types
  <1>2. CASE ResolveAnswered(s, says)
    <2>1. /\ IF says = "link" THEN Minted ELSE Heard(says)
          /\ says = "link" => req.at # "enquire"
          /\ steady' = {t \in steady : knows[t] => knows'[t]}
          /\ UNCHANGED <<failed, unheard, before>>
      BY <1>2 DEF ResolveAnswered, Takes
    <2>2. NoAdd \in BOOLEAN /\ Answers(s, NoAdd, says)
      BY <1>2 DEF ResolveAnswered, NoAdd
    <2>3. /\ has' = has /\ marks' = marks
          /\ knows' = knows \/ knows' = [knows EXCEPT ![s] = FALSE]
          /\ knows \in [Services -> BOOLEAN] /\ knows' \in [Services -> BOOLEAN]
      <3>1. /\ has' = has /\ marks' = marks
            /\ knows' = knows \/ knows' = [knows EXCEPT ![s] = FALSE]
            /\ knows' \in [Services -> BOOLEAN]
        BY <2>2, AnswersTypes
      <3>2. knows \in [Services -> BOOLEAN]
        BY DEF Types, TypeOK
      <3> QED BY <3>1, <3>2
    <2>4. ASSUME NEW t \in steady' PROVE knows'[t] = knows[t]
      <3>1. t \in Services /\ (knows[t] => knows'[t]) /\ knows[t] \in BOOLEAN /\ knows'[t] \in BOOLEAN
        BY <1>1, <2>1, <2>3
      <3>2. knows'[t] => knows[t]
        BY <2>3, <3>1
      <3> QED BY <3>1, <3>2
    <2>5. ResolveAdded(s, says) => s \notin steady' /\ req.at = "resolve"
      BY <1>1 DEF ResolveAdded, NoAdd, ReadOnly
    <2>6. ResolveFailed(s, says) => s \in failed' /\ says # "link"
      BY DEF ResolveFailed
    <2> QED BY <1>1, <2>1, <2>3, <2>4, <2>5, <2>6 DEF Told
  <1>3. CASE ResolveAdded(s, says)
    <2>1. /\ IF says = "link" THEN Minted ELSE Heard(says)
          /\ req.at = "resolve" /\ Adds(s, says) /\ steady' = steady \ {s}
          /\ UNCHANGED <<failed, unheard, before>>
      BY <1>1, <1>3 DEF ResolveAdded, NoAdd, ReadOnly
    <2>2. \A t \in steady' : has'[t] = has[t] /\ knows'[t] = knows[t] /\ marks'[t] = marks[t]
      BY <1>1, <2>1, AddsTypes
    <2>3. ResolveFailed(s, says) => s \in failed' /\ says # "link"
      BY DEF ResolveFailed
    <2> QED BY <1>1, <2>1, <2>2, <2>3 DEF Told
  <1>4. CASE ResolveFailed(s, says)
    <2>1. /\ says # "link" /\ Heard(says) /\ failed' = failed \cup {s}
          /\ UNCHANGED <<has, knows, marks, steady, unheard, before>>
      BY <1>4 DEF ResolveFailed, store
    <2>2. ResolveAdded(s, says) => s \notin steady' /\ req.at = "resolve"
      BY <1>1 DEF ResolveAdded, NoAdd, ReadOnly
    <2> QED BY <1>1, <2>1, <2>2 DEF Told
  <1> QED BY <1>2, <1>3, <1>4

\* Where nothing changed and no call failed, an answer is the store's own.
LEMMA WalkWasHeard ==
  ASSUME Types, NEW s \in Services, NEW says \in Says, ~Answer("ready"),
         ResolveAnswered(s, says) \/ ResolveAdded(s, says) \/ ResolveFailed(s, says),
         s \in Told'
  PROVE  ResolveAnswered(s, says) /\ Answers(s, NoAdd, says) /\ NoAdd \in BOOLEAN
BY WalkFacts DEF Told, ResolveAnswered, NoAdd

\* A walk ends with an answer where a probe has a link.
LEMMA WalkEndsReady ==
  ASSUME Types, NEW s \in Services, NEW says \in Says,
         ResolveAnswered(s, says) \/ ResolveAdded(s, says) \/ ResolveFailed(s, says),
         req'.at = "idle"
  PROVE  Answer("ready") /\ knows[s] /\ has[s] = "ready" /\ UNCHANGED <<has, knows, marks>>
PROOF
  <1>1. req.at # "idle" /\ req \in Req
    BY DEF ResolveAnswered, ResolveAdded, ResolveFailed, Asks, ReadOnly, Types
  <1>2. ~Minted /\ ~Heard(says)
    BY <1>1 DEF Minted, Heard, Req
  <1>3. ResolveAnswered(s, says) /\ says = "link" /\ Answer("ready")
    BY <1>2 DEF ResolveAnswered, Takes, ResolveAdded, ResolveFailed
  <1>4. NoAdd \in BOOLEAN /\ Answers(s, NoAdd, "link")
    BY <1>3 DEF ResolveAnswered, NoAdd
  <1> QED BY <1>3, <1>4, LinkOfAHolder DEF store

LEMMA ResolveHolds ==
  ASSUME IInv, NEW s \in Services, NEW says \in Says,
         ResolveAnswered(s, says) \/ ResolveAdded(s, says) \/ ResolveFailed(s, says)
  PROVE  Established'
PROOF
  <1>1. CASE Answer("ready")
    <2>1. req'.at = "idle"
      BY <1>1 DEF Answer, Idle
    <2>2. knows[s] /\ has[s] = "ready" /\ UNCHANGED <<has, knows, marks>>
      BY <2>1, WalkEndsReady DEF IInv
    <2>3. Lives(s)'
      BY <2>2 DEF Lives
    <2> QED BY <1>1, <2>3, AnswerHolds DEF IInv, Said
  <1>2. CASE ~Answer("ready")
    <2>1. /\ req.at \in {"held", "enquire", "relist", "resolve"} /\ req.todo # <<>> /\ s = Head(req.todo)
          /\ UNCHANGED <<unheard, before>> /\ steady' \subseteq steady /\ failed \subseteq failed'
          /\ \A t \in steady' : has'[t] = has[t] /\ knows'[t] = knows[t] /\ marks'[t] = marks[t]
          /\ Told' \subseteq Told /\ Told \subseteq Services
          /\ \/ says = "link" /\ Minted /\ req.at \in {"held", "resolve", "relist"}
             \/ says # "link" /\ Heard(says)
      BY <1>2, WalkFacts DEF IInv
    <2>2. /\ req \in Req /\ steady \subseteq Services /\ Told' \subseteq steady'
      BY DEF Told, IInv, Types
    <2>3. \A t \in steady' : /\ ReadTrue(t)' <=> ReadTrue(t)
                             /\ HoldsReady(t)' <=> HoldsReady(t)
                             /\ Lives(t)' <=> Lives(t)
                             /\ Gone(t)' <=> Gone(t)
      BY <2>1, <2>2, SameState
    <2>4. steady' = Services /\ failed' = {} =>
            /\ steady = Services /\ failed = {} /\ s \in Told' /\ ResolveAnswered(s, says)
            /\ Answers(s, NoAdd, says) /\ NoAdd \in BOOLEAN
      BY <1>2, <2>1, <2>2, WalkWasHeard DEF Told, IInv
    <2>5. CASE says = "link" /\ Minted /\ req.at \in {"held", "resolve", "relist"}
      <3>1. /\ req'.at \in {"check", "relist check"} /\ req'.unknown = req.unknown /\ req'.route = req.route
        BY <2>5, MintedTypes DEF IInv
      <3>2. StatusRead' /\ Enquiring' /\ Resolving' /\ UnheardKept'
        BY <2>1, <3>1 DEF StatusRead, Enquiring, Resolving, UnheardKept, IInv, Established
      <3>3. steady' = Services /\ failed' = {} => Lives(s)'
        <4>1. SUFFICES ASSUME steady' = Services, failed' = {} PROVE Lives(s)'
          OBVIOUS
        <4>2. Answers(s, NoAdd, "link") /\ NoAdd \in BOOLEAN
          BY <2>4, <2>5, <4>1
        <4>3. knows[s] /\ has[s] = "ready" /\ UNCHANGED <<has, knows, marks>>
          BY <4>2, LinkOfAHolder DEF store
        <4> QED BY <4>3 DEF Lives
      <3>4. Agreeing'
        BY <2>1, <2>3, <2>4, <3>3 DEF Agreeing, IInv, Established
      <3> QED BY <3>2, <3>4 DEF Established
    <2>6. CASE says # "link" /\ Heard(says)
      <3>1. /\ req'.at = req.at /\ req'.route = req.route /\ req'.unknown = req.unknown
            /\ req'.todo = Tail(req.todo)
            /\ req'.err = IF req.at \in {"resolve", "enquire"} THEN Worse(req.err, says) ELSE req.err
        BY <2>1, <2>6, HeardTypes DEF Says, IInv
      <3>2. /\ req.todo \in Seq(Services) /\ Tail(req.todo) \in Seq(Services)
            /\ Range(req.todo) \subseteq {s} \cup Range(req'.todo)
            /\ Len(req'.todo) = Len(req.todo) - 1
            /\ \A i \in 1..Len(req'.todo) : req'.todo[i] = req.todo[i + 1]
        BY <2>1, <2>2, <3>1, TailFacts DEF Req
      <3>3. StatusRead'
        BY <2>1, <2>2, <2>3, <3>1 DEF StatusRead, IInv, Established
      <3>4. UnheardKept'
        BY <2>1, <3>1 DEF UnheardKept, IInv, Established
      <3>5. Enquiring'
        <4>1. SUFFICES ASSUME req.at = "enquire", NEW t \in Told', has'[t] = "ready", knows'[t]
                       PROVE  t \in Range(req'.todo) \/ req'.err = "refused"
          BY <3>1 DEF Enquiring
        <4>2. has[t] = "ready" /\ knows[t] /\ t \in Told
          BY <2>1, <2>2, <4>1
        <4>3. says # "coming" /\ req.err # "coming"
          <5>1. CASE ResolveAnswered(s, says)
            BY <4>1, <5>1 DEF ResolveAnswered, Answers, NoAdd, ReadOnly, IInv, Types
          <5>2. CASE ResolveAdded(s, says)
            BY <4>1, <5>2 DEF ResolveAdded, NoAdd, ReadOnly
          <5>3. CASE ResolveFailed(s, says)
            BY <4>1, <5>3 DEF ResolveFailed, IInv, Types
          <5> QED BY <5>1, <5>2, <5>3
        <4>4. CASE req.err = "refused"
          BY <3>1, <4>1, <4>3, <4>4 DEF Worse
        <4>5. CASE req.err # "refused"
          <5>1. t \in Range(req.todo)
            BY <4>1, <4>2, <4>5 DEF Enquiring, IInv, Established
          <5>2. CASE t = s
            <6>1. says = "refused"
              <7>1. s \in Told'
                BY <4>1, <5>2
              <7>2. Answers(s, NoAdd, says) /\ NoAdd \in BOOLEAN
                BY <1>2, <7>1, WalkWasHeard DEF IInv
              <7> QED BY <2>6, <4>2, <5>2, <7>2, HolderAnswers DEF IInv
            <6> QED BY <3>1, <4>1, <4>3, <6>1 DEF Worse
          <5> QED BY <3>2, <5>1, <5>2
        <4> QED BY <4>4, <4>5
      <3>6. Resolving'
        <4>1. SUFFICES ASSUME req.at = "resolve"
                       PROVE  /\ \A t \in Told' \ Range(req'.todo) : req'.err # "dead"
                              /\ \A t \in Told' : HoldsReady(t)' => t \in Range(req'.todo)
                              /\ HoldersFirst'
          BY <2>1, <3>1 DEF Resolving
        <4>2. /\ \A t \in Told \ Range(req.todo) : req.err # "dead"
              /\ \A t \in Told : HoldsReady(t) => t \in Range(req.todo)
              /\ HoldersFirst /\ \A t \in Told : ReadTrue(t)
          BY <4>1 DEF Resolving, StatusRead, IInv, Established
        <4>3. ~NoAdd /\ FALSE \in BOOLEAN
          BY <4>1 DEF NoAdd, ReadOnly
        <4>4. s \in Told' => Answers(s, FALSE, says)
          <5>1. s \in Told' => Answers(s, NoAdd, says)
            BY <1>2, WalkWasHeard DEF IInv
          <5> QED BY <4>3, <5>1 DEF Answers, Barred, ToBeAdded
        <4>5. ASSUME NEW t \in Told' \ Range(req'.todo) PROVE req'.err # "dead"
          <5>1. CASE t \notin Range(req.todo)
            <6>1. req.err # "dead" /\ req.err \in {"dead", "refused", "coming"}
              BY <2>1, <2>2, <4>2, <4>5, <5>1 DEF Req
            <6> QED BY <3>1, <4>1, <6>1 DEF Worse
          <5>2. CASE t = s
            <6>1. s \in Told' /\ s \in steady' /\ knows'[s] = knows[s] /\ s \in Told
              BY <2>1, <2>2, <4>5, <5>2
            <6>2. Answers(s, FALSE, says) /\ ReadTrue(s)
              BY <4>2, <4>4, <6>1
            <6>3. says # "dead"
              <7>1. SUFFICES ASSUME says = "dead" PROVE FALSE
                OBVIOUS
              <7>2. \/ knows[s] /\ has[s] # "none" /\ has[s] # "ready"
                    \/ knows[s] /\ knows' = [knows EXCEPT ![s] = FALSE]
                BY <6>2, <7>1 DEF Answers
              <7>3. has[s] \in {"none", "fetching", "ready"} /\ knows \in [Services -> BOOLEAN]
                BY DEF IInv, Types, TypeOK
              <7>4. CASE knows[s] /\ has[s] # "none" /\ has[s] # "ready"
                BY <6>2, <7>3, <7>4 DEF ReadTrue, Fetches
              <7>5. CASE knows[s] /\ knows' = [knows EXCEPT ![s] = FALSE]
                BY <6>1, <7>3, <7>5
              <7> QED BY <7>2, <7>4, <7>5
            <6>4. says \in {"coming", "refused"}
              BY <2>6, <6>3 DEF Says
            <6> QED BY <3>1, <4>1, <6>4 DEF Worse
          <5> QED BY <3>2, <4>5, <5>1, <5>2
        <4>6. ASSUME NEW t \in Told', HoldsReady(t)' PROVE t \in Range(req'.todo)
          <5>1. t \in Told /\ HoldsReady(t) /\ t \in Range(req.todo)
            BY <2>1, <2>2, <2>3, <4>2, <4>6
          <5>2. t # s
            <6>1. SUFFICES ASSUME t = s PROVE FALSE
              OBVIOUS
            <6>2. Answers(s, FALSE, says) /\ ReadTrue(s) /\ HoldsReady(s)
              BY <4>2, <4>4, <4>6, <5>1, <6>1
            <6>3. knows[s] /\ has[s] = "ready" /\ marks[s] \cap {"refused", "rejected"} = {}
              BY <6>2 DEF HoldsReady, ReadTrue
            <6>4. Barred(s, FALSE)
              BY <2>6, <4>3, <6>2, <6>3, HolderAnswers DEF IInv
            <6> QED BY <6>3, <6>4 DEF Barred
          <5> QED BY <3>2, <5>1, <5>2
        <4>7. HoldersFirst'
          <5>1. SUFFICES ASSUME NEW i \in DOMAIN req'.todo, NEW j \in DOMAIN req'.todo, i < j,
                                req'.todo[i] \in steady', req'.todo[j] \in steady', knows'[req'.todo[j]]
                         PROVE  knows'[req'.todo[i]]
            BY DEF HoldersFirst
          <5>2. DOMAIN req'.todo = 1..Len(req'.todo) /\ Len(req.todo) \in Nat /\ DOMAIN req.todo = 1..Len(req.todo)
            BY <3>1, <3>2, LenProperties
          <5>3. i + 1 \in DOMAIN req.todo /\ j + 1 \in DOMAIN req.todo /\ i + 1 < j + 1
            BY <3>2, <5>1, <5>2
          <5>4. req'.todo[i] = req.todo[i + 1] /\ req'.todo[j] = req.todo[j + 1]
            BY <3>2, <5>2
          <5>5. req.todo[i + 1] \in steady /\ req.todo[j + 1] \in steady /\ knows[req.todo[j + 1]]
            BY <2>1, <5>1, <5>4
          <5>6. knows[req.todo[i + 1]]
            BY <4>2, <5>3, <5>5 DEF HoldersFirst
          <5> QED BY <2>1, <5>1, <5>4, <5>6
        <4> QED BY <4>5, <4>6, <4>7
      <3>7. Agreeing'
        <4>1. SUFFICES ASSUME steady' = Services, failed' = {} PROVE Agreeing'
          BY DEF Agreeing
        <4>2. /\ steady = Services /\ failed = {} /\ Answers(s, NoAdd, says)
          BY <2>4, <4>1
        <4>3. req'.at \in {"resolve", "after"} /\ req'.err = "coming" => \E t \in Services : Lives(t)
          <5>1. SUFFICES ASSUME req.at = "resolve", Worse(req.err, says) = "coming"
                         PROVE  \E t \in Services : Lives(t)
            BY <2>1, <3>1
          <5>2. CASE req.err = "coming"
            BY <4>2, <5>1, <5>2 DEF Agreeing, IInv, Established
          <5>3. CASE says = "coming"
            <6>1. ~NoAdd
              BY <5>1 DEF NoAdd, ReadOnly
            <6>2. Answers(s, FALSE, "coming")
              BY <4>2, <5>3, <6>1 DEF Answers, Barred, ToBeAdded
            <6> QED BY <6>2, ComingFromALiveOne DEF IInv
          <5> QED BY <5>1, <5>2, <5>3 DEF Worse
        <4> QED BY <2>1, <2>3, <3>1, <4>1, <4>2, <4>3 DEF Agreeing, IInv, Established
      <3> QED BY <3>3, <3>4, <3>5, <3>6, <3>7 DEF Established
    <2> QED BY <2>1, <2>5, <2>6
  <1> QED BY <1>1, <1>2

LEMMA LinkHolds ==
  ASSUME IInv, \/ \E verdict \in Verdicts : Checked(verdict) \/ RelistChecked(verdict)
               \/ RelistOver
  PROVE  Established'
PROOF
  <1>1. /\ req \in Req /\ req.at \in {"check", "relist", "relist check"} /\ UNCHANGED <<has, knows, marks>>
    BY DEF Checked, RelistChecked, RelistOver, store, IInv, Types
  <1>2. \/ Answer("link")
        \/ Answer("not found") /\ req.at = "check"
        \/ /\ req' = [req EXCEPT !.at = "relist", !.spare = req.link, !.todo = Configured(Holding)]
           /\ UNCHANGED <<steady, failed, unheard, before>>
    BY DEF Checked, RelistChecked, RelistOver, Serve, Verdicts
  <1>3. CASE Answer("link")
    <2>1. \A t \in Services : Lives(t)' <=> Lives(t)
      BY <1>1, SameState
    <2>2. steady = Services /\ failed = {} => \E t \in Services : Lives(t)'
      BY <1>1, <2>1 DEF IInv, Established, Agreeing
    <2> QED BY <1>3, <2>2, AnswerHolds DEF IInv, Said
  <1>4. CASE Answer("not found") /\ req.at = "check"
    BY <1>4, AnswerHolds DEF IInv, Said, Alive
  <1>5. CASE /\ req' = [req EXCEPT !.at = "relist", !.spare = req.link, !.todo = Configured(Holding)]
             /\ UNCHANGED <<steady, failed, unheard, before>>
    <2>1. req'.at = "relist" /\ req'.route = req.route /\ req'.unknown = req.unknown
      BY <1>1, <1>5 DEF Req
    <2>2. StatusRead' /\ Enquiring' /\ Resolving' /\ UnheardKept'
      BY <1>5, <2>1 DEF StatusRead, Enquiring, Resolving, UnheardKept, IInv, Established
    <2>3. Agreeing'
      BY <1>1, <1>5, <2>1, AgreeingKept
    <2> QED BY <2>2, <2>3 DEF Established
  <1> QED BY <1>2, <1>3, <1>4, <1>5

LEMMA CancelHolds ==
  ASSUME IInv, CancelOver \/ \E s \in Services : Cancel(s)
  PROVE  Established'
PROOF
  <1>1. req \in Req /\ req.at = "cancel" /\ req.route = "cancel"
    BY DEF CancelOver, Cancel, IInv, Types
  <1>2. \/ \E answer \in Said : Answer(answer)
        \/ NextStore /\ UNCHANGED <<has, knows, marks, steady, failed, unheard, before>>
    BY DEF CancelOver, Cancel, Said, store
  <1>3. CASE \E answer \in Said : Answer(answer)
    BY <1>1, <1>3, AnswerHolds DEF IInv
  <1>4. CASE NextStore /\ UNCHANGED <<has, knows, marks, steady, failed, unheard, before>>
    <2>1. req'.at = "cancel" /\ req'.route = "cancel"
      BY <1>1, <1>4 DEF NextStore, Req
    <2>2. StatusRead' /\ Enquiring' /\ Resolving' /\ UnheardKept'
      BY <1>1, <1>4, <2>1 DEF StatusRead, Enquiring, Resolving, UnheardKept, IInv, Established
    <2>3. Agreeing'
      BY <1>4, <2>1, AgreeingKept
    <2> QED BY <2>2, <2>3 DEF Established
  <1> QED BY <1>2, <1>3, <1>4

\* The invariant: at the start, after every step, and so always.
LEMMA IInvInit == Init => IInv
PROOF
  <1> SUFFICES ASSUME Init PROVE IInv
    OBVIOUS
  <1>1. Types
    BY TypesInit
  <1>2. req.at = "idle" /\ req.route = "none" /\ unheard = {} /\ before = "none"
    BY DEF Init, Idle
  <1> QED BY <1>1, <1>2
          DEF IInv, Established, StatusRead, UnheardKept, Enquiring, Resolving, Agreeing

LEMMA IInvStep == IInv /\ [Next]_vars => IInv'
PROOF
  <1> SUFFICES ASSUME IInv, [Next]_vars PROVE IInv'
    OBVIOUS
  <1>1. Types'
    BY TypesStep DEF IInv
  <1>2. Established'
    BY BeginHolds, MemoHolds, StatusAnsweredHolds, StatusFailedHolds, StatusOverHolds, CacheCheckHolds,
       ResolveHolds, OverHolds, LinkHolds, CancelHolds, WorldHolds DEF Next, Step
  <1> QED BY <1>1, <1>2 DEF IInv

LEMMA IInvHolds == Spec => []IInv
BY IInvInit, IInvStep, PTL DEF Spec
-----------------------------------------------------------------------------
(***************************************************************************)
(* The claims                                                              *)
(***************************************************************************)

(* The memo skips the check of a link only if that very link passed one,   *)
(* whatever other requests do to the memo while this one is out.           *)
THEOREM CheckedLinksPassed == Spec => []CheckedLinkPassed
<1>1. Init => CheckedLinkPassed
  BY DEF Init, NoMemo, CheckedLinkPassed
<1>2. Types /\ CheckedLinkPassed /\ [Next]_vars => CheckedLinkPassed'
  <2> SUFFICES ASSUME Types, CheckedLinkPassed, [Next]_vars PROVE CheckedLinkPassed'
    OBVIOUS
  <2> USE DEF CheckedLinkPassed
  <2>0. ~NoMemo.checked
    BY DEF NoMemo
  <2>1. ASSUME NEW route \in {"play", "fresh", "probe", "cancel"}, Begin(route) PROVE CheckedLinkPassed'
    BY <2>0, <2>1 DEF Begin
  <2>2. ASSUME NEW verdict \in Verdicts, Recheck(verdict) PROVE CheckedLinkPassed'
    <3>1. CASE verdict = "playable"
      <4>1. MarkChecked(req.link) /\ passed' = (passed \cup {req.link}) \cap {memo'.link}
        BY <2>2, <3>1 DEF Recheck
      <4>2. memo.link = req.link => memo'.link = req.link
        BY <4>1 DEF MarkChecked, Types, TypeOK
      <4> QED BY <4>1, <4>2 DEF MarkChecked
    <3>2. CASE verdict # "playable"
      <4>1. UNCHANGED <<memo, passed>> \/ memo' = NoMemo
        BY <2>2, <3>2 DEF Recheck
      <4> QED BY <2>0, <4>1
    <3> QED BY <3>1, <3>2
  <2>3. ASSUME NEW link, NEW checked \in BOOLEAN, Put(link, checked) PROVE CheckedLinkPassed'
    BY <2>3 DEF Put
  <2>4. ASSUME NEW verdict \in Verdicts, Checked(verdict) \/ RelistChecked(verdict) PROVE CheckedLinkPassed'
    <3>1. \/ memo' = NoMemo
          \/ \E link \in {req.link, req.spare}, checked \in BOOLEAN : Put(link, checked)
      BY <2>4 DEF Checked, RelistChecked, Serve, Verdicts
    <3> QED BY <2>0, <2>3, <3>1
  <2>5. CASE RelistOver
    BY <2>3, <2>5 DEF RelistOver, Serve
  <2>6. CASE OtherLink
    <3>1. \/ memo' = NoMemo
          \/ \E link, checked : checked \in BOOLEAN /\ Put(link, checked)
      BY <2>6 DEF OtherLink
    <3> QED BY <2>0, <2>3, <3>1
  <2>7. CASE UNCHANGED <<memo, passed>>
    BY <2>7
  <2>8. \/ \E route \in {"play", "fresh", "probe", "cancel"} : Begin(route)
        \/ \E verdict \in Verdicts : Recheck(verdict) \/ Checked(verdict) \/ RelistChecked(verdict)
        \/ RelistOver \/ OtherLink \/ UNCHANGED <<memo, passed>>
    BY DEF Next, Step, MemoMiss, MemoHit, OutOfTime, StatusOver, CacheCheck, HeldOver, ResolveOver,
           PlayVerdict, ProbeVerdict, CancelOver, StatusAnswered, StatusFailed, Cancel, ResolveAnswered,
           ResolveAdded, ResolveFailed, Elsewhere, OtherMemory, Changed, PendingLapses, history, vars
  <2> QED BY <2>1, <2>2, <2>4, <2>5, <2>6, <2>7, <2>8
<1> QED BY <1>1, <1>2, TypesHold, PTL DEF Spec

(* Who answers "not found", and that nothing else does.                    *)
LEMMA WhoSaysNotFound ==
  ASSUME IInv, [Next]_vars, Answered("not found"), req.route # "cancel", req.at # "check"
  PROVE  \/ PlayVerdict /\ req.err = "dead"
         \/ ProbeVerdict /\ req'.answer = "not found"
PROOF
  <1>1. req \in Req /\ req.at # "idle" /\ req'.at = "idle" /\ req'.answer = "not found"
    BY DEF Answered, IInv, Types
  <1>2. ASSUME NEW answer, Answer(answer) PROVE answer = "not found"
    BY <1>1, <1>2 DEF Answer, Idle
  <1>3. "coming" # "not found" /\ "link" # "not found" /\ "ready" # "not found"
    OBVIOUS
  <1>4. ~MemoMiss /\ ~MemoHit /\ \A verdict \in Verdicts : ~Recheck(verdict)
    BY <1>1, <1>2 DEF MemoMiss, MemoHit, PastTheMemo, Goes, Recheck, Req
  <1>5. ~RelistOver /\ \A verdict \in Verdicts : ~Checked(verdict) /\ ~RelistChecked(verdict)
    BY <1>1, <1>2 DEF Checked, RelistChecked, RelistOver, Serve, Verdicts, Req
  <1>6. ~OutOfTime /\ ~StatusOver /\ \A s \in Services : ~StatusAnswered(s) /\ ~StatusFailed(s)
    BY <1>1, <1>2 DEF OutOfTime, StatusOver, Goes, StatusAnswered, StatusFailed, NextStore, Req
  <1>7. \A answered \in SUBSET Truth : \A heldBy \in SUBSET answered : ~CacheCheck(answered, heldBy)
    BY <1>1 DEF CacheCheck, Goes, Req
  <1>8. ~HeldOver /\ ~ResolveOver
    BY <1>1 DEF HeldOver, ResolveOver, Goes, Req
  <1>9. \A s \in Services, says \in Says :
          ~ResolveAnswered(s, says) /\ ~ResolveAdded(s, says) /\ ~ResolveFailed(s, says)
    BY <1>1, <1>2, WalkEndsReady DEF IInv
  <1>10. ~CancelOver /\ \A s \in Services : ~Cancel(s)
    BY DEF CancelOver, Cancel, IInv, Types
  <1>11. \A route \in {"play", "fresh", "probe", "cancel"} : ~Begin(route)
    BY <1>1 DEF Begin
  <1>12. /\ ~OtherLink /\ ~PendingLapses /\ \A s \in Services : ~Elsewhere(s) /\ ~OtherMemory(s)
         /\ ~UNCHANGED vars
    BY <1>1 DEF OtherLink, PendingLapses, Elsewhere, OtherMemory, Changed, vars
  <1>13. PlayVerdict \/ ProbeVerdict
    BY <1>4, <1>5, <1>6, <1>7, <1>8, <1>9, <1>10, <1>11, <1>12 DEF Next, Step
  <1>14. PlayVerdict => req.err = "dead"
    BY <1>1, <1>2 DEF PlayVerdict, Req
  <1> QED BY <1>1, <1>13, <1>14

(* A play or a probe says "not found" only if no account that told it the  *)
(* truth has the release coming or ready, and a probe only if all spoke.   *)
THEOREM NotFoundClaims == Spec => NotFoundIsAClaim
<1>1. IInv /\ [Next]_vars =>
        [Answered("not found") /\ req.route # "cancel" /\ req.at # "check" =>
           /\ \A s \in Told : /\ ~Fetches(s) /\ marks[s] # {"out"}
                              /\ ~(has[s] = "ready" /\ knows[s])
           /\ unheard = {}]_vars
  BY WhoSaysNotFound, SaidNotFound DEF Lives
<1> QED BY <1>1, IInvHolds, PTL DEF Spec, NotFoundIsAClaim

(* A play sends an add to a store it knows nothing at only if no account   *)
(* that told it the truth is fetching the release or holds it ready.       *)
THEOREM AddsOnlyWhenNeeded == Spec => BoughtOnlyWhenNeeded
<1>1. ASSUME IInv, req.at = "resolve", NEW s \in Services, NEW says \in Says, ResolveAdded(s, says),
             s \in steady, ~knows[s], NEW t \in Told
      PROVE  ~Fetches(t) /\ ~HoldsReady(t)
  <2>1. /\ req.todo \in Seq(Services) /\ req.todo # <<>> /\ s = Head(req.todo) /\ t \in steady
    BY <1>1 DEF ResolveAdded, Asks, Told, IInv, Types, Req
  <2>2. ReadTrue(t) /\ (HoldsReady(t) => t \in Range(req.todo)) /\ HoldersFirst
    BY <1>1 DEF IInv, Established, StatusRead, Resolving
  <2>3. ~Fetches(t)
    BY <2>2 DEF ReadTrue
  <2>4. ~HoldsReady(t)
    <3> SUFFICES ASSUME HoldsReady(t) PROVE FALSE
      OBVIOUS
    <3>1. knows[t]
      BY <2>2 DEF HoldsReady, ReadTrue
    <3>2. PICK j \in DOMAIN req.todo : req.todo[j] = t
      BY <2>2 DEF Range
    <3>3. /\ DOMAIN req.todo = 1..Len(req.todo) /\ Len(req.todo) \in Nat
          /\ 1 \in DOMAIN req.todo /\ req.todo[1] = s
      BY <2>1, <3>2, LenProperties, EmptySeq
    <3>4. j # 1
      BY <1>1, <3>1, <3>2, <3>3
    <3>5. 1 < j
      BY <3>2, <3>3, <3>4
    <3>6. knows[s]
      BY <1>1, <2>1, <2>2, <3>1, <3>2, <3>3, <3>5 DEF HoldersFirst
    <3> QED BY <1>1, <3>6
  <2> QED BY <2>3, <2>4
<1>2. IInv /\ [Next]_vars =>
        [req.at = "resolve" =>
           \A s \in Services, says \in Says :
             ResolveAdded(s, says) /\ s \in steady /\ ~knows[s] => \A t \in Told : ~Fetches(t) /\ ~HoldsReady(t)]_vars
  BY <1>1
<1> QED BY <1>2, IInvHolds, PTL DEF Spec, BoughtOnlyWhenNeeded

\* What of the accounts is as it was when an answer says something of them.
LEMMA AnswerKeeps ==
  ASSUME IInv, [Next]_vars, req.at # "idle", req'.at = "idle", before' # "none"
  PROVE  /\ steady = Services /\ failed = {}
         /\ UNCHANGED <<has, knows, marks>> \/ \E s \in Services : StatusAnswered(s) /\ Answer("coming")
PROOF
  <1>1. req \in Req
    BY DEF IInv, Types
  <1>2. ASSUME NEW answer, Answer(answer) PROVE steady = Services /\ failed = {} /\ req.route # "cancel"
    <2>1. Tells(answer)
      BY <1>2 DEF Answer
    <2> QED BY <2>1 DEF Tells
  <1>3. CASE MemoMiss \/ MemoHit \/ \E verdict \in Verdicts : Recheck(verdict) \/ Checked(verdict) \/ RelistChecked(verdict)
    BY <1>1, <1>2, <1>3 DEF MemoMiss, MemoHit, PastTheMemo, Goes, Recheck, Checked, RelistChecked, Serve,
       Verdicts, store, Req
  <1>4. CASE OutOfTime \/ StatusOver \/ HeldOver \/ ResolveOver \/ PlayVerdict \/ ProbeVerdict \/ RelistOver
    BY <1>1, <1>2, <1>4 DEF OutOfTime, StatusOver, HeldOver, ResolveOver, PlayVerdict, ProbeVerdict,
       RelistOver, Serve, Goes, store, Req
  <1>5. ASSUME NEW answered \in SUBSET Truth, NEW heldBy \in SUBSET answered PROVE ~CacheCheck(answered, heldBy)
    BY <1>1 DEF CacheCheck, Goes, Req
  <1>6. CASE CancelOver \/ \E s \in Services : Cancel(s)
    <2>1. ~NextStore /\ req.route = "cancel"
      BY <1>1, <1>6 DEF NextStore, CancelOver, Cancel, IInv, Types, Req
    <2>2. \E answer : Answer(answer)
      BY <1>6, <2>1 DEF CancelOver, Cancel
    <2> QED BY <1>2, <2>1, <2>2
  <1>7. ASSUME NEW s \in Services, StatusAnswered(s) \/ StatusFailed(s)
        PROVE  StatusAnswered(s) /\ Answer("coming")
    BY <1>1, <1>7 DEF StatusAnswered, StatusFailed, NextStore, Req
  <1>8. ASSUME NEW s \in Services, NEW says \in Says,
               ResolveAnswered(s, says) \/ ResolveAdded(s, says) \/ ResolveFailed(s, says)
        PROVE  Answer("ready") /\ UNCHANGED <<has, knows, marks>>
    BY <1>8, WalkEndsReady DEF IInv
  <1>9. \A route \in {"play", "fresh", "probe", "cancel"} : ~Begin(route)
    BY DEF Begin
  <1>10. /\ ~OtherLink /\ ~PendingLapses /\ \A s \in Services : ~Elsewhere(s) /\ ~OtherMemory(s)
         /\ ~UNCHANGED vars
    BY DEF OtherLink, PendingLapses, Elsewhere, OtherMemory, Changed, vars
  <1> QED BY <1>2, <1>3, <1>4, <1>5, <1>6, <1>7, <1>8, <1>9, <1>10 DEF Next, Step

(* Of two answers about a release nothing happened to in between, with no  *)
(* call failed, one does not say it is to be had and the other that it is  *)
(* not to be found, whichever routes gave them; but for a memo's link to   *)
(* what no account holds, and the 404 of a link that failed its check.     *)
THEOREM TheRoutesAgree == Spec => RoutesAgree
<1>1. ASSUME IInv, IInv', [Next]_vars, req.at # "idle", req'.at = "idle"
      PROVE  {before, before'} # {"alive", "not found"}
  <2>1. SUFFICES ASSUME before' # "none" PROVE {before, before'} # {"alive", "not found"}
    OBVIOUS
  <2>2. steady = Services /\ failed = {} /\ steady' = Services /\ failed' = {}
    BY <1>1, <2>1, AnswerKeeps DEF IInv, Types
  <2>3. /\ before = "alive" => \E t \in Services : ~Gone(t)
        /\ before = "not found" => \A t \in Services : Gone(t)
        /\ before' = "alive" => \E t \in Services : ~Gone(t)'
        /\ before' = "not found" => \A t \in Services : Gone(t)'
    BY <1>1, <2>2 DEF IInv, Established, Agreeing
  <2>4. \A t \in Services : Gone(t)' <=> Gone(t)
    <3>1. CASE UNCHANGED <<has, knows, marks>>
      BY <3>1, SameState
    <3>2. CASE \E s \in Services : StatusAnswered(s)
      BY <1>1, <3>2, StatusSettles DEF IInv
    <3> QED BY <1>1, <2>1, <3>1, <3>2, AnswerKeeps
  <2>5. ~(before = "alive" /\ before' = "not found")
    BY <2>3, <2>4
  <2>6. ~(before = "not found" /\ before' = "alive")
    BY <2>3, <2>4
  <2> QED BY <2>5, <2>6
<1>2. IInv /\ IInv' /\ [Next]_vars =>
        [req.at # "idle" /\ req'.at = "idle" => {before, before'} # {"alive", "not found"}]_vars
  BY <1>1
<1> QED BY <1>2, IInvHolds, PTL DEF Spec, RoutesAgree
============================================================================
