------------------------- MODULE ConversationProofs -------------------------
(***************************************************************************)
(* Proofs about Conversation, for every set of sessions and slots, every   *)
(* page size and all bounds: the pane shows one history, whatever requests *)
(* overlap.                                                                *)
(***************************************************************************)
EXTENDS Conversation, FiniteSetTheorems, TLAPS

-----------------------------------------------------------------------------
(* Finite sets of numbers, in order.                                       *)

Increasing(q) == \A i, j \in DOMAIN q : i < j => q[i] < q[j]

\* The well-ordering of the naturals, for a set instead of a predicate.
LEMMA Least ==
  ASSUME NEW T, T \subseteq Nat, T # {}
  PROVE  \E n \in T : \A m \in T : n <= m
  <1> DEFINE R == OpToRel(<, Nat)
  <1>1. IsWellFoundedOn(R, Nat)
    BY NatLessThanWellFounded
  <1> HIDE DEF R
  <1>2. \E x \in T : \A y \in T : ~(<<y, x>> \in R)
    BY <1>1, WFMin
  <1>3. PICK x \in T : \A y \in T : ~(<<y, x>> \in R)
    BY <1>2
  <1>4. ASSUME NEW y \in T PROVE x <= y
    <2>1. y < x => <<y, x>> \in R
      BY DEF R, OpToRel
    <2> QED BY <1>3, <2>1
  <1> QED BY <1>4

LEMMA SetInduction ==
  ASSUME NEW G, G \subseteq Nat, 0 \in G, \A n \in G : n + 1 \in G
  PROVE  G = Nat
  <1> SUFFICES ASSUME G # Nat PROVE FALSE
    OBVIOUS
  <1>1. PICK n \in Nat \ G : \A m \in Nat \ G : n <= m
    BY Least
  <1>2. n # 0
    OBVIOUS
  <1>3. n - 1 \in Nat /\ n - 1 \in G
    BY <1>1, <1>2
  <1> QED BY <1>3

LEMMA IntervalFinite ==
  ASSUME NEW n \in Nat, NEW S \in SUBSET (1..n)
  PROVE  IsFiniteSet(S) /\ Cardinality(S) \in Nat
  <1>1. IsFiniteSet(1..n)
    BY FS_Interval
  <1>2. IsFiniteSet(S)
    BY <1>1, FS_Subset
  <1> QED BY <1>2, FS_CardinalityType

\* Every set of numbers up to n can be put in order.
LEMMA Ordered ==
  ASSUME NEW n \in Nat, NEW S \in SUBSET (1..n)
  PROVE  \E q \in [1..Cardinality(S) -> S] : Increasing(q)
  <1> DEFINE Has(m) == \A T \in SUBSET (1..m) : \E q \in [1..Cardinality(T) -> T] : Increasing(q)
             G == {m \in Nat : Has(m)}
  <1>1. 0 \in G
    <2> SUFFICES ASSUME NEW T \in SUBSET (1..0)
                 PROVE  \E q \in [1..Cardinality(T) -> T] : Increasing(q)
      OBVIOUS
    <2> DEFINE q == [i \in 1..0 |-> i]
    <2>1. T = {}
      OBVIOUS
    <2>2. Cardinality(T) = 0
      BY <2>1, FS_EmptySet
    <2>3. q \in [1..Cardinality(T) -> T]
      BY <2>1, <2>2
    <2>4. Increasing(q)
      BY DEF Increasing
    <2> QED BY <2>3, <2>4
  <1>2. ASSUME NEW m \in G PROVE m + 1 \in G
    <2> SUFFICES ASSUME NEW T \in SUBSET (1..(m + 1))
                 PROVE  \E q \in [1..Cardinality(T) -> T] : Increasing(q)
      OBVIOUS
    <2>1. CASE m + 1 \notin T
      <3>1. T \in SUBSET (1..m)
        BY <2>1
      <3> QED BY <3>1
    <2>2. CASE m + 1 \in T
      <3> DEFINE U == T \ {m + 1}
                 c == Cardinality(U)
      <3>1. U \in SUBSET (1..m)
        OBVIOUS
      <3>2. PICK p \in [1..c -> U] : Increasing(p)
        BY <3>1
      <3>3. IsFiniteSet(T) /\ Cardinality(T) \in Nat /\ c \in Nat /\ c = Cardinality(T) - 1
        <4>0. m + 1 \in Nat
          OBVIOUS
        <4>1. IsFiniteSet(T) /\ Cardinality(T) \in Nat
          BY <4>0, IntervalFinite
        <4>2. U = T \ {m + 1} /\ m + 1 \in T
          BY <2>2
        <4>3. IsFiniteSet(U) /\ Cardinality(U) = Cardinality(T) - 1
          BY <4>1, <4>2, FS_RemoveElement
        <4>4. Cardinality(U) \in Nat
          BY <4>3, FS_CardinalityType
        <4> QED BY <4>1, <4>3, <4>4
      <3> HIDE DEF c
      <3> DEFINE q == [i \in 1..(c + 1) |-> IF i <= c THEN p[i] ELSE m + 1]
      <3>4. q \in [1..Cardinality(T) -> T]
        <4>1. Cardinality(T) = c + 1
          BY <3>3
        <4>2. ASSUME NEW i \in 1..(c + 1) PROVE q[i] \in T
          <5>1. CASE i <= c
            <6>1. i \in 1..c
              BY <3>3, <5>1
            <6> QED BY <3>2, <5>1, <6>1
          <5>2. CASE ~(i <= c)
            BY <2>2, <5>2
          <5> QED BY <5>1, <5>2
        <4> QED BY <4>1, <4>2
      <3>5. Increasing(q)
        <4> SUFFICES ASSUME NEW i \in 1..(c + 1), NEW j \in 1..(c + 1), i < j
                     PROVE  q[i] < q[j]
          BY DEF Increasing
        <4>0. i \in 1..c
          BY <3>3
        <4>1. i \in 1..c /\ q[i] = p[i] /\ p[i] \in 1..m
          <5>1. p[i] \in U
            BY <3>2, <4>0
          <5>2. q[i] = p[i]
            BY <3>3, <4>0
          <5> QED BY <3>1, <4>0, <5>1, <5>2
        <4>2. CASE j <= c
          BY <3>2, <4>1, <4>2 DEF Increasing
        <4>3. CASE j = c + 1
          <5>1. q[j] = m + 1
            BY <3>3, <4>3
          <5> QED BY <4>1, <5>1
        <4> QED BY <3>3, <4>2, <4>3
      <3> QED BY <3>4, <3>5
    <2> QED BY <2>1, <2>2
  <1>3. G = Nat
    <2> HIDE DEF G
    <2>1. G \subseteq Nat
      BY DEF G
    <2> QED BY <1>1, <1>2, <2>1, SetInduction
  <1> QED BY <1>3

LEMMA Largest ==
  ASSUME NEW n \in Nat, NEW S \in SUBSET (1..n), S # {}
  PROVE  \E m \in S : \A x \in S : x <= m
  <1> DEFINE T == {b \in Nat : \A x \in S : x <= b}
  <1>1. n \in T
    OBVIOUS
  <1>2. PICK b \in T : \A c \in T : b <= c
    BY <1>1, Least
  <1>3. ASSUME b \notin S PROVE FALSE
    <2>1. \A x \in S : x <= b - 1
      BY <1>3
    <2>2. b # 0
      <3>1. PICK x \in S : x <= b
        BY <1>2
      <3> QED BY <3>1
    <2>3. b - 1 \in Nat
      BY <2>2
    <2> QED BY <1>2, <2>1, <2>3
  <1> QED BY <1>3

\* InOrder lists the whole set, from its least number to its largest.
LEMMA InOrderFacts ==
  ASSUME NEW n \in Nat, NEW S \in SUBSET (1..n)
  PROVE  /\ InOrder(S) \in Seq(S) /\ Increasing(InOrder(S))
         /\ {InOrder(S)[k] : k \in DOMAIN InOrder(S)} = S
  <1> DEFINE q == InOrder(S)
             c == Cardinality(S)
  <1>1. q \in [1..c -> S] /\ Increasing(q)
    BY Ordered DEF InOrder, Increasing
  <1>2. IsFiniteSet(S) /\ c \in Nat
    BY IntervalFinite
  <1>3. q \in Injection(1..c, S)
    <2>1. \A i, j \in 1..c : q[i] = q[j] => i = j
      <3> SUFFICES ASSUME NEW i \in 1..c, NEW j \in 1..c, i # j
                   PROVE  q[i] # q[j]
        OBVIOUS
      <3>1. q[i] \in Nat /\ q[j] \in Nat
        <4>1. q[i] \in S /\ q[j] \in S
          BY <1>1
        <4>2. \A x \in S : x \in Nat
          OBVIOUS
        <4> HIDE DEF q
        <4> QED BY <4>1, <4>2
      <3>2. i < j => q[i] < q[j]
        BY <1>1 DEF Increasing
      <3>3. j < i => q[j] < q[i]
        BY <1>1 DEF Increasing
      <3>4. i < j \/ j < i
        BY <1>2
      <3> HIDE DEF q
      <3> QED BY <3>1, <3>2, <3>3, <3>4
    <2> QED BY <1>1, <2>1 DEF Injection, IsInjective
  <1>4. Cardinality(1..c) = c
    BY <1>2, FS_Interval
  <1>5. q \in Surjection(1..c, S)
    BY <1>2, <1>3, <1>4, FS_Injection
  <1>6. {q[k] : k \in 1..c} = S
    BY <1>1, <1>5 DEF Surjection
  <1> QED BY <1>1, <1>2, <1>6

-----------------------------------------------------------------------------
(* The inductive invariant.                                                *)

\* The messages of a session in a log, from an id on and below another.
Between(lg, s, from, end) == {m \in DOMAIN lg : lg[m] = s /\ from <= m /\ m < end}

\* A page of messages of s below an id: consecutive ones, up to that id, with whether
\* there are older ones.
Consecutive(lg, ids, s, end, more) ==
  /\ Increasing(ids)
  /\ ids # << >> =>
       /\ {ids[k] : k \in DOMAIN ids} = Between(lg, s, ids[1], end)
       /\ more = (Between(lg, s, 0, ids[1]) # {})
  /\ ids = << >> => ~more /\ Between(lg, s, 0, end) = {}

\* A stored message is one of the log.
ItemsOk(lg, items) ==
  \A k \in DOMAIN items :
    IF items[k].kind = "stored" THEN items[k].id \in DOMAIN lg ELSE items[k].id = 0

\* OneHistory, of a log.
History(lg, items, s, more) ==
  \E n \in DOMAIN items :
    /\ StoredAt(items) = 1..n
    /\ \A j, k \in 1..n : j < k => items[j].id < items[k].id
    /\ {items[k].id : k \in 1..n} = Between(lg, s, items[1].id, items[n].id + 1)
    /\ more = (Between(lg, s, 0, items[1].id) # {})

PaneOk == ~late /\ StoredAt(pane) # {} => active # None /\ History(log, pane, active, hasOlder)

\* The sessions the page knows of have been created: what Open creates is new.
Known == {s \in Sessions : status[s] # "unborn"}
Referenced ==
  /\ chats \subseteq Known /\ listing.chats \subseteq Known
  /\ {active, notice.session, deletion.session, stream.session} \subseteq Known \cup {None}
  /\ \A i \in Slots : selects[i].session \in Known \cup {None}

SelectOk(i) ==
  /\ selects[i].step # "none" => selects[i].session \in Sessions
  /\ selects[i].step = "read" =>
       \E end \in 1..Top : Consecutive(log, selects[i].ids, selects[i].session, end, selects[i].more)

OlderOk(i) ==
  /\ olders[i].step # "none" => olders[i].before \in DOMAIN log
  /\ olders[i].step = "read" =>
       Consecutive(log, olders[i].ids, olders[i].session, olders[i].before, olders[i].more)

\* While an answer is generated the page is in its conversation or in none, and one that
\* began without a conversation has no history and nobody loads its session.
StreamOk ==
  /\ Generating => active \in {None, stream.session}
  /\ stream.original # None => stream.session = stream.original
  /\ stream.step = "asked" => stream.session = stream.original
  /\ stream.step \in {"opened", "streaming", "done"} => stream.session \in Sessions
  /\ Generating /\ stream.original = None =>
       /\ \A i \in Slots : selects[i].step # "none" => selects[i].session # stream.session
       /\ ~late => StoredAt(pane) = {}

IInv ==
  /\ TypeOK /\ ItemsOk(log, pane) /\ ItemsOk(log, stream.messages)
  /\ Referenced
  /\ \A i \in Slots : SelectOk(i) /\ OlderOk(i)
  /\ StreamOk /\ PaneOk

-----------------------------------------------------------------------------
(* Pages of messages.                                                      *)

LEMMA SeqWidens == \A S, T : S \subseteq T => Seq(S) \subseteq Seq(T)
  <1> SUFFICES ASSUME NEW S, NEW T, S \subseteq T, NEW q \in Seq(S)
               PROVE  q \in Seq(T)
    OBVIOUS
  <1>1. Len(q) \in Nat /\ q \in [1..Len(q) -> T]
    OBVIOUS
  <1> QED BY <1>1

\* The newest ids are a final part of them, all of them exactly when they fit a page.
LEMMA NewestFacts ==
  ASSUME NEW n \in Nat, NEW B \in SUBSET (1..n)
  PROVE  /\ Newest(B) \subseteq B
         /\ \A x \in Newest(B), y \in B : x < y => y \in Newest(B)
         /\ B # {} => Newest(B) # {}
         /\ Cardinality(B) \in Nat
         /\ Cardinality(B) > PageSize <=> B \ Newest(B) # {}
  <1> DEFINE Above(x) == {j \in B : j > x}
  <1>1. PageSize \in Nat /\ PageSize > 0
    BY ConversationAssumption
  <1>2. IsFiniteSet(B) /\ Cardinality(B) \in Nat
    BY IntervalFinite
  <1>0. \A x \in B : x \in Nat
    OBVIOUS
  <1>3. ASSUME NEW x \in B
        PROVE  IsFiniteSet(Above(x)) /\ Cardinality(Above(x)) \in Nat
    <2>1. Above(x) \in SUBSET (1..n)
      OBVIOUS
    <2> QED BY <2>1, IntervalFinite
  <1>4. Newest(B) = {x \in B : Cardinality(Above(x)) < PageSize}
    BY DEF Newest
  <1>5. ASSUME NEW x \in Newest(B), NEW y \in B, x < y
        PROVE  y \in Newest(B)
    <2>1. x \in B
      BY <1>4
    <2>2. Above(y) \subseteq Above(x)
      <3> SUFFICES ASSUME NEW j \in B, j > y PROVE j > x
        OBVIOUS
      <3>1. j \in Nat /\ x \in Nat /\ y \in Nat
        BY <1>0, <2>1
      <3> QED BY <1>5, <3>1
    <2>3. Cardinality(Above(y)) <= Cardinality(Above(x))
      BY <1>3, <2>1, <2>2, FS_Subset
    <2>4. Cardinality(Above(x)) < PageSize
      BY <1>4
    <2> HIDE DEF Above
    <2>5. Cardinality(Above(y)) < PageSize
      BY <1>1, <1>3, <2>1, <2>3, <2>4
    <2> QED BY <1>4, <2>5
  <1>6. ASSUME B # {} PROVE Newest(B) # {}
    <2>1. PICK m \in B : \A x \in B : x <= m
      BY <1>6, Largest
    <2>2. Above(m) = {}
      <3> SUFFICES ASSUME NEW j \in B PROVE ~(j > m)
        OBVIOUS
      <3>1. j \in Nat /\ m \in Nat /\ j <= m
        BY <1>0, <2>1
      <3> QED BY <3>1
    <2>3. Cardinality(Above(m)) = 0
      BY <2>2, FS_EmptySet
    <2> QED BY <1>1, <1>4, <2>3
  <1>7. ASSUME NEW x \in B \ Newest(B) PROVE Cardinality(B) > PageSize
    <2>1. ~(Cardinality(Above(x)) < PageSize)
      BY <1>4
    <2>2. x \notin Above(x)
      OBVIOUS
    <2>3. Cardinality(Above(x) \cup {x}) = Cardinality(Above(x)) + 1
      BY <1>3, <2>2, FS_AddElement
    <2>4. Above(x) \cup {x} \subseteq B
      OBVIOUS
    <2>5. Cardinality(Above(x) \cup {x}) <= Cardinality(B)
      BY <1>2, <2>4, FS_Subset
    <2>6. Cardinality(Above(x)) \in Nat
      BY <1>3
    <2> HIDE DEF Above
    <2> QED BY <1>1, <1>2, <2>1, <2>3, <2>5, <2>6
  <1>8. ASSUME Cardinality(B) > PageSize, B \subseteq Newest(B) PROVE FALSE
    <2>1. B # {}
      BY <1>1, <1>8, FS_EmptySet
    <2>2. PICK b \in B : \A x \in B : b <= x
      <3>1. B \subseteq Nat
        BY <1>0
      <3> QED BY <2>1, <3>1, Least
    <2>3. Above(b) = B \ {b}
      <3> SUFFICES ASSUME NEW j \in B PROVE j > b <=> j # b
        OBVIOUS
      <3>1. j \in Nat /\ b \in Nat /\ b <= j
        BY <1>0, <2>2
      <3> QED BY <3>1
    <2>4. Cardinality(B \ {b}) = Cardinality(B) - 1
      BY <1>2, FS_RemoveElement
    <2>5. Cardinality(Above(b)) < PageSize
      BY <1>4, <1>8
    <2> HIDE DEF Above
    <2> QED BY <1>1, <1>2, <1>8, <2>3, <2>4, <2>5
  <1> QED BY <1>2, <1>4, <1>5, <1>6, <1>7, <1>8

LEMMA PageFacts ==
  ASSUME log \in Seq(Sessions), NEW s, NEW id \in 1..Top
  PROVE  /\ PageBefore(s, id) \in Seq(DOMAIN log)
         /\ Consecutive(log, PageBefore(s, id), s, id, MoreBefore(s, id))
  <1> DEFINE n == Len(log)
             B == Before(s, id)
             N == Newest(B)
             q == InOrder(N)
             more == MoreBefore(s, id)
  <1>1. n \in Nat /\ DOMAIN log = 1..n
    OBVIOUS
  <1>2. B \in SUBSET (1..n) /\ B = {i \in MessagesOf(s) : i < id} /\ MessagesOf(s) \subseteq 1..n
    BY <1>1 DEF Before, MessagesOf
  <1>3. /\ N \subseteq B
        /\ \A x \in N, y \in B : x < y => y \in N
        /\ B # {} => N # {}
        /\ more <=> B \ N # {}
    BY <1>1, <1>2, NewestFacts DEF MoreBefore
  <1>4. N \in SUBSET (1..n)
    BY <1>2, <1>3
  <1>5. q \in Seq(N) /\ Increasing(q) /\ {q[k] : k \in DOMAIN q} = N
    BY <1>1, <1>4, InOrderFacts
  <1>6. id \in Nat
    BY <1>1 DEF Top
  <1>7. \A w : Before(s, w) = {i \in MessagesOf(s) : i < w}
    BY DEF Before
  <1>8. more \in BOOLEAN
    BY DEF MoreBefore
  <1>9. PageBefore(s, id) = q
    BY DEF PageBefore
  <1> HIDE DEF n, B, N, q, more
  <1>10. q \in Seq(1..n)
    <2>1. N \subseteq 1..n
      BY <1>4
    <2>2. q \in Seq(N)
      BY <1>5
    <2> QED BY <2>1, <2>2, SeqWidens
  <1>11. ASSUME q # << >>
         PROVE  /\ {q[k] : k \in DOMAIN q} = {m \in MessagesOf(s) : q[1] <= m /\ m < id}
                /\ more = (Before(s, q[1]) # {})
    <2>1. 1 \in DOMAIN q /\ q[1] \in N /\ q[1] \in 1..n
      <3>1. 1 \in DOMAIN q
        BY <1>10, <1>11
      <3> QED BY <1>4, <1>5, <3>1
    <2>2. \A m \in N : q[1] <= m
      <3> SUFFICES ASSUME NEW m \in N PROVE q[1] <= m
        OBVIOUS
      <3>1. PICK k \in DOMAIN q : q[k] = m
        BY <1>5
      <3>2. k \in Nat /\ (k = 1 \/ 1 < k)
        BY <1>5
      <3>3. 1 < k => q[1] < q[k]
        BY <1>5, <2>1 DEF Increasing
      <3>4. m \in 1..n
        BY <1>4
      <3> QED BY <1>1, <2>1, <3>1, <3>2, <3>3, <3>4
    <2>3. \A m \in 1..n : m \in B /\ q[1] <= m => m \in N
      BY <1>1, <1>3, <2>1
    <2>4. N = {m \in MessagesOf(s) : q[1] <= m /\ m < id}
      BY <1>2, <1>3, <1>4, <2>2, <2>3
    <2>5. Before(s, q[1]) = B \ N
      <3>1. q[1] < id
        BY <1>2, <1>3, <2>1
      <3>2. ASSUME NEW m \in 1..n PROVE m \in Before(s, q[1]) <=> m \in B \ N
        BY <1>1, <1>2, <1>6, <1>7, <2>1, <2>2, <2>3, <3>1
      <3>3. Before(s, q[1]) \subseteq 1..n /\ B \subseteq 1..n
        BY <1>2, <1>7
      <3> QED BY <3>2, <3>3
    <2> QED BY <1>3, <1>5, <1>8, <2>4, <2>5
  <1>12. ASSUME q = << >> PROVE ~more /\ B = {}
    <2>1. DOMAIN q = {}
      BY <1>12
    <2>2. N = {}
      BY <1>5, <2>1
    <2> QED BY <1>3, <2>2
  <1>13. Consecutive(log, q, s, id, more)
    <2>1. \A from \in 1..n : {m \in MessagesOf(s) : from <= m /\ m < id} = Between(log, s, from, id)
      BY DEF MessagesOf, Between
    <2>2. \A w \in 1..n : Before(s, w) = Between(log, s, 0, w)
      BY <1>1 DEF Before, MessagesOf, Between
    <2>3. B = Between(log, s, 0, id)
      BY <1>1 DEF Before, MessagesOf, Between, B
    <2>4. q # << >> => q[1] \in 1..n
      <3> SUFFICES ASSUME q # << >> PROVE q[1] \in 1..n
        OBVIOUS
      <3>1. 1 \in DOMAIN q
        BY <1>10
      <3> QED BY <1>4, <1>5, <3>1
    <2> QED BY <1>5, <1>11, <1>12, <2>1, <2>2, <2>3, <2>4 DEF Consecutive
  <1>14. q \in Seq(DOMAIN log)
    BY <1>1, <1>10
  <1> QED BY <1>9, <1>13, <1>14 DEF more

LEMMA BetweenGrows ==
  ASSUME NEW lg \in Seq(Sessions), NEW lg2 \in Seq(Sessions), Len(lg) <= Len(lg2),
         \A i \in 1..Len(lg) : lg2[i] = lg[i],
         NEW s, NEW from \in Nat, NEW w \in Nat, w <= Len(lg) + 1
  PROVE  Between(lg2, s, from, w) = Between(lg, s, from, w)
  <1>1. Len(lg) \in Nat /\ Len(lg2) \in Nat
    OBVIOUS
  <1>2. DOMAIN lg = 1..Len(lg) /\ DOMAIN lg2 = 1..Len(lg2)
    OBVIOUS
  <1>3. ASSUME NEW m \in Between(lg2, s, from, w) PROVE m \in Between(lg, s, from, w)
    <2>1. m \in 1..Len(lg2) /\ lg2[m] = s /\ from <= m /\ m < w
      BY <1>2 DEF Between
    <2>2. m \in 1..Len(lg)
      BY <1>1, <2>1
    <2> QED BY <1>2, <2>1, <2>2 DEF Between
  <1>4. ASSUME NEW m \in Between(lg, s, from, w) PROVE m \in Between(lg2, s, from, w)
    <2>1. m \in 1..Len(lg) /\ lg[m] = s /\ from <= m /\ m < w
      BY <1>2 DEF Between
    <2>2. m \in 1..Len(lg2)
      BY <1>1, <2>1
    <2> QED BY <1>2, <2>1, <2>2 DEF Between
  <1> QED BY <1>3, <1>4

\* What a longer log adds is above every message of a page and of a pane.
LEMMA ConsecutiveGrows ==
  ASSUME NEW lg \in Seq(Sessions), NEW lg2 \in Seq(Sessions), Len(lg) <= Len(lg2),
         \A i \in 1..Len(lg) : lg2[i] = lg[i],
         NEW ids \in Seq(Nat), NEW s, NEW end \in 1..(Len(lg) + 1), NEW more,
         Consecutive(lg, ids, s, end, more)
  PROVE  Consecutive(lg2, ids, s, end, more)
  <1>1. ASSUME NEW from \in Nat, NEW w \in Nat, w <= Len(lg) + 1
        PROVE  Between(lg2, s, from, w) = Between(lg, s, from, w)
    BY <1>1, BetweenGrows
  <1>2. ids # << >> => ids[1] \in Nat /\ ids[1] <= Len(lg) + 1
    <2> SUFFICES ASSUME ids # << >> PROVE ids[1] \in Nat /\ ids[1] <= Len(lg) + 1
      OBVIOUS
    <2>1. 1 \in DOMAIN ids /\ ids[1] \in Nat
      OBVIOUS
    <2>2. ids[1] \in Between(lg, s, ids[1], end)
      BY <2>1 DEF Consecutive
    <2> QED BY <2>1, <2>2 DEF Between
  <1> QED BY <1>1, <1>2 DEF Consecutive

LEMMA HistoryGrows ==
  ASSUME NEW lg \in Seq(Sessions), NEW lg2 \in Seq(Sessions), Len(lg) <= Len(lg2),
         \A i \in 1..Len(lg) : lg2[i] = lg[i],
         NEW items \in Seq(Item), ItemsOk(lg, items), NEW s, NEW more,
         History(lg, items, s, more)
  PROVE  History(lg2, items, s, more)
  <1>1. ASSUME NEW from \in Nat, NEW w \in Nat, w <= Len(lg) + 1
        PROVE  Between(lg2, s, from, w) = Between(lg, s, from, w)
    BY <1>1, BetweenGrows
  <1>2. PICK n \in DOMAIN items :
          /\ StoredAt(items) = 1..n
          /\ \A j, k \in 1..n : j < k => items[j].id < items[k].id
          /\ {items[k].id : k \in 1..n} = Between(lg, s, items[1].id, items[n].id + 1)
          /\ more = (Between(lg, s, 0, items[1].id) # {})
    BY DEF History
  <1>3. n \in Nat /\ n >= 1 /\ 1 \in 1..n /\ n \in 1..n
    OBVIOUS
  <1>4. items[1].id \in 1..Len(lg) /\ items[n].id \in 1..Len(lg)
    BY <1>2, <1>3 DEF StoredAt, ItemsOk
  <1>5. /\ Between(lg2, s, items[1].id, items[n].id + 1) = Between(lg, s, items[1].id, items[n].id + 1)
        /\ Between(lg2, s, 0, items[1].id) = Between(lg, s, 0, items[1].id)
    BY <1>1, <1>4
  <1> QED BY <1>2, <1>5 DEF History

-----------------------------------------------------------------------------
(* Panes.                                                                  *)

LEMMA PageItems ==
  ASSUME NEW ids \in Seq(Nat)
  PROVE  /\ Page(ids) \in Seq(Item) /\ Len(Page(ids)) = Len(ids)
         /\ \A k \in 1..Len(ids) : Page(ids)[k].kind = "stored" /\ Page(ids)[k].id = ids[k]
  <1>1. Len(ids) \in Nat /\ DOMAIN ids = 1..Len(ids)
    OBVIOUS
  <1>2. \A k \in 1..Len(ids) : [kind |-> "stored", id |-> ids[k]] \in Item
    BY <1>1 DEF Item
  <1>3. Page(ids) \in [1..Len(ids) -> Item]
    BY <1>1, <1>2 DEF Page
  <1>4. Page(ids) \in Seq(Item) /\ Len(Page(ids)) = Len(ids)
    BY <1>1, <1>3
  <1>5. \A k \in 1..Len(ids) : Page(ids)[k] = [kind |-> "stored", id |-> ids[k]]
    BY <1>1 DEF Page
  <1>6. ASSUME NEW k \in 1..Len(ids)
        PROVE  Page(ids)[k].kind = "stored" /\ Page(ids)[k].id = ids[k]
    <2>1. Page(ids)[k] = [kind |-> "stored", id |-> ids[k]]
      BY <1>5
    <2> QED BY <2>1
  <1> QED BY <1>4, <1>6

LEMMA RemoveFacts ==
  ASSUME NEW items \in Seq(Item), NEW k \in DOMAIN items
  PROVE  /\ RemoveAt(items, k) \in Seq(Item) /\ Len(RemoveAt(items, k)) = Len(items) - 1
         /\ \A j \in 1..(Len(items) - 1) :
              RemoveAt(items, k)[j] = IF j < k THEN items[j] ELSE items[j + 1]
  <1> DEFINE front == SubSeq(items, 1, k - 1)
             back == SubSeq(items, k + 1, Len(items))
  <1>1. k \in Nat /\ 1 <= k /\ k <= Len(items) /\ Len(items) \in Nat
    OBVIOUS
  <1>2. front \in Seq(Item) /\ Len(front) = k - 1 /\ \A j \in 1..(k - 1) : front[j] = items[j]
    BY <1>1
  <1>3. /\ back \in Seq(Item) /\ Len(back) = Len(items) - k
        /\ \A j \in 1..(Len(items) - k) : back[j] = items[k + j]
    BY <1>1
  <1>4. RemoveAt(items, k) = front \o back
    BY DEF RemoveAt
  <1> HIDE DEF front, back
  <1>5. front \o back \in Seq(Item) /\ Len(front \o back) = Len(items) - 1
    BY <1>1, <1>2, <1>3
  <1>6. ASSUME NEW j \in 1..(Len(items) - 1)
        PROVE  (front \o back)[j] = IF j < k THEN items[j] ELSE items[j + 1]
    <2>1. CASE j < k
      BY <1>1, <1>2, <1>3, <2>1
    <2>2. CASE ~(j < k)
      <3>1. (front \o back)[j] = back[j - (k - 1)]
        BY <1>1, <1>2, <1>3, <2>2
      <3>2. j - (k - 1) \in 1..(Len(items) - k) /\ k + (j - (k - 1)) = j + 1
        BY <1>1, <2>2
      <3> QED BY <1>3, <2>2, <3>1, <3>2
    <2> QED BY <2>1, <2>2
  <1> QED BY <1>4, <1>5, <1>6

-----------------------------------------------------------------------------
(* Types.                                                                  *)

LEMMA PageTyped ==
  ASSUME log \in Seq(Sessions), NEW s, NEW id \in 1..Top
  PROVE  PageBefore(s, id) \in Seq(Nat) /\ MoreBefore(s, id) \in BOOLEAN
  <1>1. PageBefore(s, id) \in Seq(DOMAIN log)
    BY PageFacts
  <1>2. DOMAIN log \subseteq Nat
    OBVIOUS
  <1>3. PageBefore(s, id) \in Seq(Nat)
    BY <1>1, <1>2, SeqWidens
  <1> QED BY <1>3 DEF MoreBefore

LEMMA LogGrows ==
  ASSUME log \in Seq(Sessions), NEW s \in Sessions
  PROVE  /\ log \o <<s, s>> \in Seq(Sessions) /\ Len(log \o <<s, s>>) = Len(log) + 2
         /\ \A i \in 1..Len(log) : (log \o <<s, s>>)[i] = log[i]
  OBVIOUS

\* The records of the requests, and those that a step replaces them by.
LEMMA NoRequests ==
  /\ NoSelect \in SelectState /\ NoOlder \in OlderState /\ NoStream \in Stream
  /\ NoNotice \in Notice /\ None \in Session
  /\ NoSelect.step = "none" /\ NoOlder.step = "none" /\ NoStream.step = "none"
  /\ NoSelect.session = None /\ NoStream.session = None /\ NoStream.original = None
  /\ NoStream.messages = << >> /\ NoNotice.session = None
  <1>1. None \in Session
    BY DEF Session
  <1>2. NoSelect \in SelectState /\ NoOlder \in OlderState
    BY <1>1 DEF NoSelect, NoOlder, SelectState, OlderState
  <1>3. NoStream \in Stream /\ NoNotice \in Notice
    BY <1>1 DEF NoStream, NoNotice, Stream, Notice
  <1> QED BY <1>1, <1>2, <1>3 DEF NoSelect, NoOlder, NoStream, NoNotice

LEMMA NewSelect ==
  ASSUME NEW s \in Session, NEW outer \in {"user", "list", "delete"}
  PROVE  LET x == [NoSelect EXCEPT !.step = "asked", !.session = s, !.outer = outer] IN
         x \in SelectState /\ x.step = "asked" /\ x.session = s
  BY NoRequests DEF SelectState

LEMMA NewOlder ==
  ASSUME NEW s \in Session, NEW id \in Nat
  PROVE  LET x == [NoOlder EXCEPT !.step = "asked", !.session = s, !.before = id] IN
         x \in OlderState /\ x.step = "asked" /\ x.session = s /\ x.before = id
  BY NoRequests DEF OlderState

LEMMA SelectAnswers ==
  ASSUME NEW x \in SelectState, NEW ids \in Seq(Nat), NEW more \in BOOLEAN
  PROVE  /\ [x EXCEPT !.step = "read", !.ids = ids, !.more = more] \in SelectState
         /\ [x EXCEPT !.step = "missing"] \in SelectState
         /\ [x EXCEPT !.step = "failed"] \in SelectState
  BY DEF SelectState

LEMMA OlderAnswers ==
  ASSUME NEW x \in OlderState, NEW ids \in Seq(Nat), NEW more \in BOOLEAN
  PROVE  /\ [x EXCEPT !.step = "read", !.ids = ids, !.more = more] \in OlderState
         /\ [x EXCEPT !.step = "failed"] \in OlderState
  BY DEF OlderState

LEMMA BusyFlags ==
  ASSUME NEW b \in [conversation: BOOLEAN, older: BOOLEAN], NEW flag \in BOOLEAN
  PROVE  /\ [b EXCEPT !.conversation = flag] \in [conversation: BOOLEAN, older: BOOLEAN]
         /\ [b EXCEPT !.older = flag] \in [conversation: BOOLEAN, older: BOOLEAN]
  OBVIOUS

LEMMA StreamSteps ==
  ASSUME NEW x \in Stream, NEW step \in {"asked", "opened", "streaming", "done", "failed"},
         NEW s \in Session
  PROVE  /\ [x EXCEPT !.step = step] \in Stream
         /\ [x EXCEPT !.step = step, !.session = s] \in Stream
  BY DEF Stream

LEMMA DeletionSteps ==
  ASSUME NEW d \in Deletion, NEW step \in {"asked", "done", "failed", "selecting"}
  PROVE  [d EXCEPT !.step = step] \in Deletion
  BY DEF Deletion

LEMMA InitTypes ==
  ASSUME Init PROVE TypeOK
  <1>1. log \in Seq(Sessions) /\ Len(log) <= MaxMessages
    BY ConversationAssumption DEF Init
  <1>2. /\ selects \in [Slots -> SelectState] /\ olders \in [Slots -> OlderState]
        /\ stream \in Stream /\ notice \in Notice
    BY NoRequests DEF Init
  <1>3. listing \in Listing /\ deletion \in Deletion
    BY NoRequests DEF Init, Listing, Deletion
  <1>4. /\ status \in [Sessions -> {"unborn", "live", "gone"}] /\ pane \in Seq(Item)
        /\ uses \in 0..MaxUses /\ active \in Session /\ awaited \in Session
        /\ chats \subseteq Sessions /\ hasOlder \in BOOLEAN /\ scope \in BOOLEAN
        /\ busy \in [conversation: BOOLEAN, older: BOOLEAN] /\ late \in BOOLEAN
    <2>1. pane \in Seq(Item)
      BY DEF Init
    <2>2. uses \in 0..MaxUses
      BY ConversationAssumption DEF Init
    <2>3. status \in [Sessions -> {"unborn", "live", "gone"}]
      BY DEF Init
    <2> QED BY <2>1, <2>2, <2>3, NoRequests DEF Init
  <1> QED BY <1>1, <1>2, <1>3, <1>4 DEF TypeOK

LEMMA StepTypes ==
  ASSUME IInv, [Next]_vars PROVE TypeOK'
  <1> USE DEF TypeOK, server, page, requests
  <1>0. TypeOK
    BY DEF IInv
  <1>1. MaxUses \in Nat /\ None \notin Sessions /\ uses \in Nat
    BY <1>0, ConversationAssumption
  <1>2. Len(log) \in Nat /\ Top \in 1..Top
    BY <1>0 DEF Top
  <1>3. ASSUME Use PROVE uses' \in 0..MaxUses
    BY <1>0, <1>1, <1>3 DEF Use
  <1>4. Live \subseteq Sessions /\ Sessions \subseteq Session /\ None \in Session
    BY DEF Live, Session
  <1>5. ASSUME NEW op, Clicks(op) PROVE notice' \in Notice
    BY <1>5, NoRequests DEF Clicks
  <1>6. ASSUME NEW s \in Session, Empties(s)
        PROVE  active' \in Session /\ pane' \in Seq(Item) /\ hasOlder' \in BOOLEAN /\ late' \in BOOLEAN
    <2>1. << >> \in Seq(Item)
      OBVIOUS
    <2> QED BY <1>6, <2>1 DEF Empties
  <1>7. ASSUME NEW flag \in BOOLEAN
        PROVE  /\ [busy EXCEPT !.conversation = flag] \in [conversation: BOOLEAN, older: BOOLEAN]
               /\ [busy EXCEPT !.older = flag] \in [conversation: BOOLEAN, older: BOOLEAN]
    BY <1>0, BusyFlags
  <1>8. ASSUME NEW i \in Slots, NEW s \in Sessions, NEW outer \in {"user", "list", "delete"},
               BeginSelect(i, s, outer)
        PROVE  /\ active' \in Session /\ pane' \in Seq(Item) /\ hasOlder' \in BOOLEAN
               /\ late' \in BOOLEAN /\ awaited' \in Session
               /\ busy' \in [conversation: BOOLEAN, older: BOOLEAN]
               /\ selects' \in [Slots -> SelectState]
    <2>1. busy' \in [conversation: BOOLEAN, older: BOOLEAN] /\ awaited' \in Session /\ Empties(s)
      BY <1>4, <1>8 DEF BeginSelect
    <2>2. selects' \in [Slots -> SelectState]
      BY <1>0, <1>4, <1>8, NewSelect DEF BeginSelect
    <2> QED BY <1>4, <1>6, <2>1, <2>2
  <1>9. ASSUME NEW i \in Slots, EndSelect(i)
        PROVE  /\ busy' \in [conversation: BOOLEAN, older: BOOLEAN]
               /\ selects' \in [Slots -> SelectState]
               /\ listing' \in Listing /\ deletion' \in Deletion
               /\ UNCHANGED <<server, olders, stream, uses>>
    <2>1. [step |-> "none", chats |-> {}] \in Listing
      BY DEF Listing
    <2>2. [step |-> "none", session |-> None] \in Deletion
      BY <1>4 DEF Deletion
    <2> QED BY <1>0, <1>7, <1>9, <2>1, <2>2, NoRequests DEF EndSelect
  <1>10. ASSUME NEW i \in Slots, NEW s \in Sessions, Select(i, s) PROVE TypeOK'
    <2>1. notice' \in Notice
      BY <1>0, <1>5, <1>10 DEF Select
    <2>2. BeginSelect(i, s, "user")
      BY <1>10 DEF Select
    <2> QED BY <1>0, <1>3, <1>8, <1>10, <2>1, <2>2 DEF Select
  <1>11. ASSUME NEW i \in Slots, ReadSelected(i) PROVE TypeOK'
    <2>1. /\ PageBefore(selects[i].session, Top) \in Seq(Nat)
          /\ MoreBefore(selects[i].session, Top) \in BOOLEAN
      BY <1>0, <1>2, PageTyped
    <2>2. selects' \in [Slots -> SelectState]
      BY <1>0, <1>11, <2>1, SelectAnswers DEF ReadSelected
    <2> QED BY <1>0, <1>11, <2>2 DEF ReadSelected
  <1>12. ASSUME NEW i \in Slots, SelectLost(i) PROVE TypeOK'
    <2>1. << >> \in Seq(Nat) /\ TRUE \in BOOLEAN
      OBVIOUS
    <2>2. [selects[i] EXCEPT !.step = "failed"] \in SelectState
      BY <1>0, <2>1, SelectAnswers
    <2>3. selects' \in [Slots -> SelectState]
      BY <1>0, <1>12, <2>2 DEF SelectLost
    <2> QED BY <1>0, <1>12, <2>3 DEF SelectLost
  <1>13. ASSUME NEW i \in Slots, SelectedArrives(i) PROVE TypeOK'
    <2>1. selects[i] \in SelectState
      BY <1>0
    <2>2. selects[i].session \in Session /\ selects[i].ids \in Seq(Nat) /\ selects[i].more \in BOOLEAN
      BY <2>1 DEF SelectState
    <2>3. Page(selects[i].ids) \in Seq(Item)
      BY <2>2, PageItems
    <2>4. EndSelect(i)
      BY <1>13 DEF SelectedArrives
    <2>5. selects[i].session \in Sessions
      BY <1>13 DEF SelectedArrives, IInv, SelectOk
    <2>6. /\ chats' \subseteq Sessions /\ active' \in Session /\ pane' \in Seq(Item)
          /\ hasOlder' \in BOOLEAN /\ scope' \in BOOLEAN /\ late' \in BOOLEAN
          /\ awaited' \in Session
      <3>1. CASE Superseded(selects[i].session)
        BY <1>0, <1>13, <3>1 DEF SelectedArrives
      <3>2. CASE ~Superseded(selects[i].session)
        <4>1. /\ chats' = chats \cup {selects[i].session}
              /\ scope' = (selects[i].session \in Scoped)
              /\ pane' = Page(selects[i].ids) /\ hasOlder' = selects[i].more
              /\ late' = FALSE /\ awaited' = None /\ UNCHANGED active
          BY <1>13, <3>2 DEF SelectedArrives
        <4>2. chats' \subseteq Sessions /\ active' \in Session /\ awaited' \in Session
          BY <1>0, <1>4, <2>5, <4>1
        <4>3. scope' \in BOOLEAN /\ late' \in BOOLEAN
          <5>1. scope' = (selects[i].session \in Scoped) /\ late' = FALSE
            BY <4>1
          <5>2. (selects[i].session \in Scoped) \in BOOLEAN
            OBVIOUS
          <5> QED BY <5>1, <5>2, Zenon
        <4>4. pane' \in Seq(Item) /\ hasOlder' \in BOOLEAN
          BY <2>2, <2>3, <4>1
        <4> QED BY <4>2, <4>3, <4>4
      <3> QED BY <3>1, <3>2
    <2>7. UNCHANGED notice
      BY <1>13 DEF SelectedArrives
    <2> QED BY <1>0, <1>9, <2>4, <2>6, <2>7
  <1>14. ASSUME NEW i \in Slots, SelectedMissing(i) PROVE TypeOK'
    <2>1. EndSelect(i)
      BY <1>14 DEF SelectedMissing
    <2>2. notice' \in Notice
      BY <1>4, <1>14 DEF SelectedMissing, Notice
    <2> QED BY <1>0, <1>4, <1>9, <1>14, <2>1, <2>2 DEF SelectedMissing
  <1>15. ASSUME NEW i \in Slots, SelectedFails(i) PROVE TypeOK'
    <2>1. EndSelect(i)
      BY <1>15 DEF SelectedFails
    <2>2. selects[i].session \in Session
      BY <1>0 DEF SelectState
    <2>3. notice' \in Notice
      BY <1>15, <2>2 DEF SelectedFails, Notice
    <2> QED BY <1>0, <1>4, <1>9, <1>15, <2>1, <2>3 DEF SelectedFails
  <1>16. ASSUME StartNew PROVE TypeOK'
    <2>1. /\ Use /\ scope' \in BOOLEAN /\ Empties(None) /\ awaited' = None
          /\ busy' = [busy EXCEPT !.conversation = FALSE]
          /\ UNCHANGED <<server, chats, requests, notice>>
      BY <1>0, <1>16 DEF StartNew
    <2> QED BY <1>0, <1>3, <1>4, <1>6, <1>7, <2>1
  <1>17. ASSUME ChooseScope PROVE TypeOK'
    BY <1>0, <1>3, <1>17 DEF ChooseScope
  <1>18. ASSUME NEW i \in Slots, LoadOlder(i) PROVE TypeOK'
    <2>1. pane[1] \in Item
      BY <1>0, <1>18 DEF LoadOlder
    <2>2. pane[1].id \in Nat
      BY <2>1 DEF Item
    <2>3. olders' \in [Slots -> OlderState]
      BY <1>0, <1>18, <2>2, NewOlder DEF LoadOlder
    <2>4. notice' \in Notice
      BY <1>0, <1>5, <1>18 DEF LoadOlder
    <2> QED BY <1>0, <1>3, <1>7, <1>18, <2>3, <2>4 DEF LoadOlder
  <1>19. ASSUME NEW i \in Slots, ReadOlder(i) PROVE TypeOK'
    <2>1. olders[i].step = "asked"
      BY <1>19 DEF ReadOlder
    <2>2. olders[i].before \in 1..Top
      BY <1>0, <1>2, <2>1 DEF IInv, OlderOk, Top
    <2>3. /\ PageBefore(olders[i].session, olders[i].before) \in Seq(Nat)
          /\ MoreBefore(olders[i].session, olders[i].before) \in BOOLEAN
      BY <1>0, <2>2, PageTyped
    <2>4. /\ [olders[i] EXCEPT !.step = "read",
                               !.ids = PageBefore(olders[i].session, olders[i].before),
                               !.more = MoreBefore(olders[i].session, olders[i].before)]
               \in OlderState
          /\ [olders[i] EXCEPT !.step = "failed"] \in OlderState
      BY <1>0, <2>3, OlderAnswers
    <2>5. olders' \in [Slots -> OlderState]
      BY <1>0, <1>19, <2>4 DEF ReadOlder
    <2> QED BY <1>0, <1>19, <2>5 DEF ReadOlder
  <1>20. ASSUME NEW i \in Slots, OlderArrives(i) PROVE TypeOK'
    <2>1. olders[i].ids \in Seq(Nat) /\ olders[i].more \in BOOLEAN
      BY <1>0 DEF OlderState
    <2>2. Page(olders[i].ids) \in Seq(Item)
      BY <2>1, PageItems
    <2>3. Page(olders[i].ids) \o pane \in Seq(Item)
      BY <1>0, <2>2
    <2> QED BY <1>0, <1>7, <1>20, <2>1, <2>3, NoRequests DEF OlderArrives
  <1>21. ASSUME NEW i \in Slots, OlderFails(i) PROVE TypeOK'
    <2>1. notice' \in Notice
      BY <1>4, <1>21 DEF OlderFails, Notice
    <2> QED BY <1>0, <1>7, <1>21, <2>1, NoRequests DEF OlderFails
  <1>22. ASSUME ListChats PROVE TypeOK'
    <2>1. listing' \in Listing
      BY <1>22 DEF ListChats, Listing
    <2> QED BY <1>0, <1>3, <1>5, <1>22, <2>1 DEF ListChats
  <1>23. ASSUME ReadChats PROVE TypeOK'
    <2>1. listing' \in Listing
      BY <1>4, <1>23 DEF ReadChats, Listing
    <2> QED BY <1>0, <1>23, <2>1 DEF ReadChats
  <1>24. ASSUME NEW i \in Slots, ChatsArrive(i) PROVE TypeOK'
    <2>0. listing.chats \subseteq Sessions /\ [step |-> "none", chats |-> {}] \in Listing
      BY <1>0 DEF Listing
    <2>1. CASE Generating
      BY <1>0, <1>24, <2>0, <2>1 DEF ChatsArrive
    <2>2. CASE ~Generating /\ listing.chats = {}
      <3>1. /\ chats' = listing.chats /\ Empties(None) /\ awaited' = None
            /\ busy' = [busy EXCEPT !.conversation = FALSE]
            /\ listing' = [step |-> "none", chats |-> {}]
            /\ UNCHANGED <<server, selects, scope, olders, deletion, stream, notice, uses>>
        BY <1>24, <2>2 DEF ChatsArrive
      <3> QED BY <1>0, <1>4, <1>6, <1>7, <2>0, <3>1
    <2>3. CASE ~Generating /\ listing.chats # {}
      <3> DEFINE target == IF active \in listing.chats THEN active ELSE CHOOSE s \in listing.chats : TRUE
      <3>1. target \in Sessions
        BY <2>0, <2>3
      <3>2. /\ BeginSelect(i, target, "list") /\ chats' = listing.chats
            /\ listing' = [step |-> "selecting", chats |-> {}]
            /\ UNCHANGED <<server, scope, olders, deletion, stream, notice, uses>>
        BY <1>24, <2>3 DEF ChatsArrive
      <3>3. listing' \in Listing
        BY <3>2 DEF Listing
      <3> HIDE DEF target
      <3> QED BY <1>0, <1>8, <2>0, <3>1, <3>2, <3>3
    <2> QED BY <2>1, <2>2, <2>3
  <1>25. ASSUME ChatsFail PROVE TypeOK'
    <2>1. listing' \in Listing /\ notice' \in Notice
      BY <1>4, <1>25 DEF ChatsFail, Listing, Notice
    <2> QED BY <1>0, <1>25, <2>1 DEF ChatsFail
  <1>26. ASSUME NEW s \in Sessions, DeleteChat(s) PROVE TypeOK'
    <2>1. deletion' \in Deletion
      BY <1>4, <1>26 DEF DeleteChat, Deletion
    <2>2. notice' \in Notice
      BY <1>0, <1>5, <1>26 DEF DeleteChat
    <2> QED BY <1>0, <1>3, <1>26, <2>1, <2>2 DEF DeleteChat
  <1>27. ASSUME RemoveChat PROVE TypeOK'
    <2>1. deletion' \in Deletion
      <3>1. PICK step \in {"done", "failed"} : deletion' = [deletion EXCEPT !.step = step]
        BY <1>27 DEF RemoveChat
      <3> QED BY <1>0, <3>1, DeletionSteps
    <2>2. status' \in [Sessions -> {"unborn", "live", "gone"}]
      BY <1>0, <1>4, <1>27 DEF RemoveChat
    <2> QED BY <1>0, <1>27, <2>1, <2>2 DEF RemoveChat
  <1>28. ASSUME NEW i \in Slots, DeletionArrives(i) PROVE TypeOK'
    <2> DEFINE left == chats \ {deletion.session}
    <2>1. CASE left = {} \/ Generating
      <3>1. /\ chats' = left /\ Empties(None) /\ awaited' = None
            /\ deletion' = [step |-> "none", session |-> None]
            /\ UNCHANGED <<server, busy, selects, scope, listing, olders, stream, notice, uses>>
        BY <1>28, <2>1 DEF DeletionArrives
      <3>2. deletion' \in Deletion
        BY <1>4, <3>1 DEF Deletion
      <3> QED BY <1>0, <1>4, <1>6, <3>1, <3>2
    <2>2. CASE ~(left = {} \/ Generating)
      <3> DEFINE target == CHOOSE s \in left : TRUE
      <3>1. target \in Sessions
        BY <1>0, <2>2
      <3>2. /\ BeginSelect(i, target, "delete") /\ chats' = left
            /\ deletion' = [deletion EXCEPT !.step = "selecting"]
            /\ UNCHANGED <<server, scope, listing, olders, stream, notice, uses>>
        BY <1>28, <2>2 DEF DeletionArrives
      <3>3. deletion' \in Deletion
        BY <1>0, <3>2, DeletionSteps
      <3>4. left \subseteq Sessions
        BY <1>0
      <3> HIDE DEF target, left
      <3> QED BY <1>0, <1>8, <3>1, <3>2, <3>3, <3>4
    <2> QED BY <2>1, <2>2
  <1>29. ASSUME DeletionFails PROVE TypeOK'
    <2>1. deletion.session \in Session
      BY <1>0 DEF Deletion
    <2>2. deletion' \in Deletion /\ notice' \in Notice
      BY <1>4, <1>29, <2>1 DEF DeletionFails, Deletion, Notice
    <2> QED BY <1>0, <1>29, <2>2 DEF DeletionFails
  <1>30. ASSUME NEW messages \in Seq(Item), Ask(messages), Use PROVE TypeOK'
    <2>1. Own("streaming") \in Item
      BY DEF Own, Item
    <2>2. Append(messages, Own("streaming")) \in Seq(Item)
      BY <2>1
    <2>3. stream' \in Stream
      BY <1>0, <1>30 DEF Ask, Stream
    <2> QED BY <1>0, <1>3, <1>30, <2>2, <2>3 DEF Ask
  <1>31. ASSUME Submit PROVE TypeOK'
    <2>1. Own("local") \in Item
      BY DEF Own, Item
    <2>2. Append(pane, Own("local")) \in Seq(Item)
      BY <1>0, <2>1
    <2> QED BY <1>30, <1>31, <2>2 DEF Submit
  <1>32. ASSUME NEW k \in DOMAIN pane, RetryQuestion(k) PROVE TypeOK'
    <2>1. RemoveAt(pane, k) \in Seq(Item)
      BY <1>0, RemoveFacts
    <2> QED BY <1>30, <1>32, <2>1 DEF RetryQuestion
  <1>33. ASSUME Open PROVE TypeOK'
    <2>1. stream' \in Stream
      <3>1. CASE stream' = [stream EXCEPT !.step = "opened"]
        BY <1>0, <1>4, <3>1, StreamSteps
      <3>2. CASE \E s \in Sessions : stream' = [stream EXCEPT !.step = "opened", !.session = s]
        <4>1. PICK s \in Sessions : stream' = [stream EXCEPT !.step = "opened", !.session = s]
          BY <3>2
        <4>2. s \in Session
          BY <1>4
        <4> QED BY <1>0, <4>1, <4>2, StreamSteps
      <3>3. CASE stream' = [stream EXCEPT !.step = "failed"]
        BY <1>0, <1>4, <3>3, StreamSteps
      <3> QED BY <1>33, <3>1, <3>2, <3>3 DEF Open
    <2>2. status' \in [Sessions -> {"unborn", "live", "gone"}]
      BY <1>0, <1>33 DEF Open
    <2> QED BY <1>0, <1>33, <2>1, <2>2 DEF Open
  <1>34. ASSUME Opened PROVE TypeOK'
    <2>1. stream.session \in Sessions
      BY <1>34 DEF IInv, StreamOk, Opened
    <2>2. stream' \in Stream
      BY <1>0, <1>4, <1>34, StreamSteps DEF Opened
    <2> QED BY <1>0, <1>4, <1>34, <2>1, <2>2 DEF Opened
  <1>35. ASSUME Answer PROVE TypeOK'
    <2>1. stream' \in Stream
      BY <1>0, <1>4, <1>35, StreamSteps DEF Answer
    <2>2. status' \in [Sessions -> {"unborn", "live", "gone"}]
      BY <1>0, <1>35 DEF Answer
    <2>3. log' \in Seq(Sessions) /\ Len(log') <= MaxMessages
      <3>1. CASE /\ stream.session \in Live /\ Len(log) + 2 <= MaxMessages
                 /\ log' = log \o <<stream.session, stream.session>>
        BY <1>0, <1>4, <3>1, LogGrows
      <3>2. CASE UNCHANGED log
        BY <1>0, <3>2
      <3> QED BY <1>35, <3>1, <3>2 DEF Answer
    <2> QED BY <1>0, <1>35, <2>1, <2>2, <2>3 DEF Answer
  <1>36. ASSUME Done PROVE TypeOK'
    <2>1. stream.session \in Sessions
      BY <1>36 DEF IInv, StreamOk, Done
    <2>2. pane' \in Seq(Item)
      <3>1. Own("local") \in Item
        BY DEF Own, Item
      <3>2. Len(pane) \in Nat /\ pane' \in [1..Len(pane) -> Item]
        BY <1>0, <1>36, <3>1 DEF Done
      <3> QED BY <3>2
    <2> QED BY <1>0, <1>4, <1>36, <2>1, <2>2, NoRequests DEF Done
  <1>37. ASSUME Failed PROVE TypeOK'
    <2>1. Own("error") \in Item /\ stream.messages \in Seq(Item)
      BY <1>0 DEF Own, Item, Stream
    <2>2. Append(stream.messages, Own("error")) \in Seq(Item)
      BY <2>1
    <2> QED BY <1>0, <1>4, <1>37, <2>2, NoRequests DEF Failed
  <1>38. ASSUME DeleteDocument PROVE TypeOK'
    BY <1>0, <1>3, <1>38 DEF DeleteDocument
  <1>39. ASSUME ForgetDocument PROVE TypeOK'
    <2>1. CASE Empties(None) /\ awaited' = None
      BY <1>0, <1>4, <1>6, <1>39, <2>1 DEF ForgetDocument
    <2>2. CASE UNCHANGED <<active, pane, hasOlder, late, awaited>>
      BY <1>0, <1>39, <2>2 DEF ForgetDocument
    <2> QED BY <1>39, <2>1, <2>2 DEF ForgetDocument
  <1>40. ASSUME MissDocument PROVE TypeOK'
    BY <1>0, <1>4, <1>6, <1>40 DEF MissDocument
  <1>41. ASSUME UNCHANGED vars PROVE TypeOK'
    BY <1>0, <1>41 DEF vars
  <1> QED BY <1>10, <1>11, <1>12, <1>13, <1>14, <1>15, <1>16, <1>17, <1>18, <1>19, <1>20,
             <1>21, <1>22, <1>23, <1>24, <1>25, <1>26, <1>27, <1>28, <1>29, <1>31, <1>32,
             <1>33, <1>34, <1>35, <1>36, <1>37, <1>38, <1>39, <1>40, <1>41
          DEF Next, Loading, Network, Users

-----------------------------------------------------------------------------
(* What a step may change.                                                 *)

\* Messages are only added to the log, and what was created stays so.
LEMMA ServerMoves ==
  ASSUME IInv, [Next]_vars
  PROVE  /\ Len(log) <= Len(log') /\ \A i \in 1..Len(log) : log'[i] = log[i]
         /\ Known \subseteq Known'
  <1>0. TypeOK
    BY DEF IInv
  <1>1. log \in Seq(Sessions) /\ Len(log) \in Nat /\ Live \subseteq Sessions
    BY <1>0 DEF TypeOK, Live
  <1>2. CASE Answer
    <2>1. CASE log' = log \o <<stream.session, stream.session>> /\ stream.session \in Live
               /\ UNCHANGED status
      <3>1. /\ Len(log') = Len(log) + 2
            /\ \A i \in 1..Len(log) : log'[i] = log[i]
        BY <1>1, <2>1, LogGrows
      <3>2. Len(log) <= Len(log')
        BY <1>1, <3>1
      <3> QED BY <2>1, <3>1, <3>2 DEF Known
    <2>2. CASE /\ UNCHANGED log
               /\ status' = IF stream.original = None
                              THEN [status EXCEPT ![stream.session] = "gone"] ELSE status
      BY <1>0, <1>1, <2>2 DEF Known, TypeOK
    <2> QED BY <1>2, <2>1, <2>2 DEF Answer
  <1>3. CASE UNCHANGED <<log, status>>
    BY <1>1, <1>3 DEF Known
  <1>4. CASE RemoveChat
    BY <1>0, <1>1, <1>4 DEF RemoveChat, Known, TypeOK
  <1>5. CASE Open
    <2>1. status \in [Sessions -> {"unborn", "live", "gone"}]
      BY <1>0 DEF TypeOK
    <2>2. CASE UNCHANGED status
      BY <1>3, <1>5, <2>2 DEF Open
    <2>3. CASE \E s \in Sessions : status' = [status EXCEPT ![s] = "live"]
      <3>1. PICK s \in Sessions : status' = [status EXCEPT ![s] = "live"]
        BY <2>3
      <3>2. \A x \in Sessions : status'[x] = IF x = s THEN "live" ELSE status[x]
        BY <2>1, <3>1
      <3>3. Known \subseteq Known'
        BY <3>2 DEF Known
      <3>4. UNCHANGED log
        BY <1>5 DEF Open
      <3> QED BY <1>1, <3>3, <3>4
    <2> QED BY <1>5, <2>2, <2>3 DEF Open
  <1>6. CASE DeleteDocument
    BY <1>0, <1>1, <1>6 DEF DeleteDocument, Known, TypeOK
  <1>7. CASE \E i \in Slots : Loading(i)
    BY <1>3, <1>7 DEF Loading, ReadSelected, SelectLost, SelectedArrives, SelectedMissing,
       SelectedFails, EndSelect, server
  <1>8. CASE \E i \in Slots : ReadOlder(i) \/ OlderArrives(i) \/ OlderFails(i)
    BY <1>3, <1>8 DEF ReadOlder, OlderArrives, OlderFails, server
  <1>9. CASE ReadChats \/ ChatsFail \/ DeletionFails \/ Opened \/ Done \/ Failed
    BY <1>3, <1>9 DEF ReadChats, ChatsFail, DeletionFails, Opened, Done, Failed, server
  <1>10. CASE \E i \in Slots : ChatsArrive(i) \/ DeletionArrives(i)
    BY <1>3, <1>10 DEF ChatsArrive, DeletionArrives, server
  <1>11. CASE \E i \in Slots : LoadOlder(i) \/ \E s \in Sessions : Select(i, s)
    BY <1>3, <1>11 DEF LoadOlder, Select, server
  <1>12. CASE StartNew \/ ChooseScope \/ ListChats \/ \E s \in Sessions : DeleteChat(s)
    BY <1>3, <1>12 DEF StartNew, ChooseScope, ListChats, DeleteChat, server
  <1>13. CASE Submit \/ \E k \in DOMAIN pane : RetryQuestion(k)
    BY <1>3, <1>13 DEF Submit, RetryQuestion, Ask, server
  <1>14. CASE ForgetDocument \/ MissDocument \/ UNCHANGED vars
    BY <1>3, <1>14 DEF ForgetDocument, MissDocument, vars, server
  <1> QED BY <1>2, <1>4, <1>5, <1>6, <1>7, <1>8, <1>9, <1>10, <1>11, <1>12, <1>13, <1>14
          DEF Next, Network, Users

\* A request of selectChatSession stays, ends, is asked for a session that has been
\* created while no answer is generated, or is answered.
SelectMoves(j) ==
  \/ selects'[j] = selects[j]
  \/ selects'[j].step = "none" /\ selects'[j].session = None
  \/ ~Generating /\ selects'[j].step = "asked" /\ selects'[j].session \in Known
  \/ /\ selects[j].step = "asked" /\ selects'[j].session = selects[j].session
     /\ UNCHANGED log
     /\ \/ selects'[j].step \in {"missing", "failed"}
        \/ /\ selects'[j].step = "read"
           /\ selects'[j].ids = PageBefore(selects[j].session, Top)
           /\ selects'[j].more = MoreBefore(selects[j].session, Top)

LEMMA SelectsMove ==
  ASSUME IInv, [Next]_vars, NEW j \in Slots
  PROVE  SelectMoves(j)
  <1>0. TypeOK /\ Referenced
    BY DEF IInv
  <1>1. selects \in [Slots -> SelectState] /\ None \notin Sessions /\ Sessions \subseteq Session
    BY <1>0, ConversationAssumption DEF TypeOK, Session
  <1>2. CASE UNCHANGED selects
    BY <1>2 DEF SelectMoves
  <1>3. ASSUME NEW i \in Slots, NEW s \in Known, NEW outer \in {"user", "list", "delete"},
               BeginSelect(i, s, outer), ~Generating
        PROVE  SelectMoves(j)
    <2>1. s \in Session
      BY <1>1 DEF Known
    <2>2. CASE i = j
      <3> DEFINE x == [NoSelect EXCEPT !.step = "asked", !.session = s, !.outer = outer]
      <3>1. x.step = "asked" /\ x.session = s
        BY <2>1, NewSelect
      <3>2. selects'[j] = x
        BY <1>1, <1>3, <2>2 DEF BeginSelect
      <3> HIDE DEF x
      <3> QED BY <1>3, <3>1, <3>2 DEF SelectMoves
    <2>3. CASE i # j
      BY <1>1, <1>3, <2>3 DEF BeginSelect, SelectMoves
    <2> QED BY <2>2, <2>3
  <1>4. ASSUME NEW i \in Slots, EndSelect(i) PROVE SelectMoves(j)
    BY <1>1, <1>4, NoRequests DEF EndSelect, SelectMoves
  <1>5. CASE \E i \in Slots : ReadSelected(i)
    <2>1. PICK i \in Slots : ReadSelected(i)
      BY <1>5
    <2>2. CASE i # j
      BY <1>1, <2>1, <2>2 DEF ReadSelected, SelectMoves
    <2>3. CASE i = j
      <3> DEFINE s == selects[j].session
      <3>1. /\ selects[j].step = "asked" /\ UNCHANGED log
            /\ selects'[j] = IF s \notin Live THEN [selects[j] EXCEPT !.step = "missing"]
                             ELSE [selects[j] EXCEPT !.step = "read", !.ids = PageBefore(s, Top),
                                                     !.more = MoreBefore(s, Top)]
        BY <1>1, <2>1, <2>3 DEF ReadSelected, server
      <3>2. selects[j] \in SelectState
        BY <1>1
      <3> QED BY <3>1, <3>2 DEF SelectState, SelectMoves
    <2> QED BY <2>2, <2>3
  <1>6. CASE \E i \in Slots : SelectLost(i)
    BY <1>1, <1>6 DEF SelectLost, SelectMoves, SelectState, server
  <1>7. CASE \E i \in Slots : SelectedArrives(i) \/ SelectedMissing(i) \/ SelectedFails(i)
    BY <1>4, <1>7 DEF SelectedArrives, SelectedMissing, SelectedFails
  <1>8. CASE \E i \in Slots, s \in Sessions : Select(i, s)
    <2>1. PICK i \in Slots, s \in Sessions : Select(i, s)
      BY <1>8
    <2>2. s \in Known
      BY <1>0, <1>1, <2>1 DEF Select, Clicks, Referenced
    <2> QED BY <1>3, <2>1, <2>2 DEF Select
  <1>9. CASE \E i \in Slots : ChatsArrive(i)
    <2>1. PICK i \in Slots : ChatsArrive(i)
      BY <1>9
    <2> DEFINE target == IF active \in listing.chats THEN active
                         ELSE CHOOSE s \in listing.chats : TRUE
    <2>2. CASE ~Generating /\ listing.chats # {}
      <3>1. target \in Known
        BY <1>0, <2>2 DEF Referenced
      <3>2. BeginSelect(i, target, "list")
        BY <2>1, <2>2 DEF ChatsArrive
      <3> HIDE DEF target
      <3> QED BY <1>3, <2>2, <3>1, <3>2
    <2>3. CASE Generating \/ listing.chats = {}
      BY <1>2, <2>1, <2>3 DEF ChatsArrive
    <2> QED BY <2>2, <2>3
  <1>10. CASE \E i \in Slots : DeletionArrives(i)
    <2>1. PICK i \in Slots : DeletionArrives(i)
      BY <1>10
    <2> DEFINE left == chats \ {deletion.session}
               target == CHOOSE s \in left : TRUE
    <2>2. CASE ~(left = {} \/ Generating)
      <3>1. target \in Known
        BY <1>0, <2>2 DEF Referenced
      <3>2. BeginSelect(i, target, "delete")
        BY <2>1, <2>2 DEF DeletionArrives
      <3> HIDE DEF target, left
      <3> QED BY <1>3, <2>2, <3>1, <3>2
    <2>3. CASE left = {} \/ Generating
      BY <1>2, <2>1, <2>3 DEF DeletionArrives
    <2> QED BY <2>2, <2>3
  <1>11. CASE \E i \in Slots : ReadOlder(i) \/ OlderArrives(i) \/ OlderFails(i) \/ LoadOlder(i)
    BY <1>2, <1>11 DEF ReadOlder, OlderArrives, OlderFails, LoadOlder
  <1>12. CASE ReadChats \/ ChatsFail \/ DeletionFails \/ RemoveChat
    BY <1>2, <1>12 DEF ReadChats, ChatsFail, DeletionFails, RemoveChat
  <1>13. CASE Open \/ Opened \/ Answer \/ Done \/ Failed
    BY <1>2, <1>13 DEF Open, Opened, Answer, Done, Failed
  <1>14. CASE StartNew \/ ChooseScope \/ ListChats \/ \E s \in Sessions : DeleteChat(s)
    BY <1>2, <1>14 DEF StartNew, ChooseScope, ListChats, DeleteChat, requests
  <1>15. CASE Submit \/ DeleteDocument \/ \E k \in DOMAIN pane : RetryQuestion(k)
    BY <1>2, <1>15 DEF Submit, DeleteDocument, RetryQuestion, Ask, requests
  <1>16. CASE ForgetDocument \/ MissDocument \/ UNCHANGED vars
    BY <1>2, <1>16 DEF ForgetDocument, MissDocument, vars, requests
  <1> QED BY <1>5, <1>6, <1>7, <1>8, <1>9, <1>10, <1>11, <1>12, <1>13, <1>14, <1>15, <1>16
          DEF Next, Loading, Network, Users

\* A request of loadOlderMessages stays, ends, is asked for what is below the first
\* message of the pane, or is answered.
OlderMoves(j) ==
  \/ olders'[j] = olders[j]
  \/ olders'[j].step = "none"
  \/ /\ olders'[j].step = "asked" /\ UNCHANGED log
     /\ pane # << >> /\ pane[1].kind = "stored" /\ olders'[j].before = pane[1].id
  \/ /\ olders[j].step = "asked" /\ olders'[j].session = olders[j].session
     /\ olders'[j].before = olders[j].before /\ UNCHANGED log
     /\ \/ olders'[j].step = "failed"
        \/ /\ olders'[j].step = "read"
           /\ olders'[j].ids = PageBefore(olders[j].session, olders[j].before)
           /\ olders'[j].more = MoreBefore(olders[j].session, olders[j].before)

LEMMA OldersMove ==
  ASSUME IInv, [Next]_vars, NEW j \in Slots
  PROVE  OlderMoves(j)
  <1>0. TypeOK
    BY DEF IInv
  <1>1. olders \in [Slots -> OlderState] /\ pane \in Seq(Item) /\ active \in Session
    BY <1>0 DEF TypeOK
  <1>2. CASE UNCHANGED olders
    BY <1>2 DEF OlderMoves
  <1>3. CASE \E i \in Slots : LoadOlder(i)
    <2>1. PICK i \in Slots : LoadOlder(i)
      BY <1>3
    <2>2. CASE i # j
      BY <1>1, <2>1, <2>2 DEF LoadOlder, OlderMoves
    <2>3. CASE i = j
      <3> DEFINE id == pane[1].id
                 x == [NoOlder EXCEPT !.step = "asked", !.session = active, !.before = id]
      <3>1. /\ pane # << >> /\ pane[1].kind = "stored" /\ UNCHANGED log /\ olders'[j] = x
        BY <1>1, <2>1, <2>3 DEF LoadOlder, server
      <3>2. pane[1] \in Item
        BY <1>1, <3>1
      <3>3. pane[1].id \in Nat
        BY <3>2 DEF Item
      <3>4. x.step = "asked" /\ x.before = pane[1].id
        <4>1. active \in Session /\ id \in Nat
          BY <1>1, <3>3
        <4> HIDE DEF id
        <4>2. x.step = "asked" /\ x.before = id
          BY <4>1, NewOlder
        <4> QED BY <4>2 DEF id
      <3> HIDE DEF x
      <3> QED BY <3>1, <3>4 DEF OlderMoves
    <2> QED BY <2>2, <2>3
  <1>4. CASE \E i \in Slots : ReadOlder(i)
    <2>1. PICK i \in Slots : ReadOlder(i)
      BY <1>4
    <2>2. CASE i # j
      BY <1>1, <2>1, <2>2 DEF ReadOlder, OlderMoves
    <2>3. CASE i = j
      <3> DEFINE s == olders[j].session
                 id == olders[j].before
      <3>1. /\ olders[j].step = "asked" /\ UNCHANGED log
            /\ \/ olders'[j] = [olders[j] EXCEPT !.step = "read", !.ids = PageBefore(s, id),
                                                 !.more = MoreBefore(s, id)]
               \/ olders'[j] = [olders[j] EXCEPT !.step = "failed"]
        BY <1>1, <2>1, <2>3 DEF ReadOlder, server
      <3>2. olders[j] \in OlderState
        BY <1>1
      <3> QED BY <3>1, <3>2 DEF OlderState, OlderMoves
    <2> QED BY <2>2, <2>3
  <1>5. CASE \E i \in Slots : OlderArrives(i) \/ OlderFails(i)
    BY <1>1, <1>5, NoRequests DEF OlderArrives, OlderFails, OlderMoves
  <1>6. CASE \E i \in Slots : Loading(i)
    BY <1>2, <1>6 DEF Loading, ReadSelected, SelectLost, SelectedArrives, SelectedMissing,
       SelectedFails, EndSelect
  <1>7. CASE \E i \in Slots : ChatsArrive(i) \/ DeletionArrives(i) \/ \E s \in Sessions : Select(i, s)
    BY <1>2, <1>7 DEF ChatsArrive, DeletionArrives, Select
  <1>8. CASE ReadChats \/ ChatsFail \/ DeletionFails \/ RemoveChat
    BY <1>2, <1>8 DEF ReadChats, ChatsFail, DeletionFails, RemoveChat
  <1>9. CASE Open \/ Opened \/ Answer \/ Done \/ Failed
    BY <1>2, <1>9 DEF Open, Opened, Answer, Done, Failed
  <1>10. CASE StartNew \/ ChooseScope \/ ListChats \/ \E s \in Sessions : DeleteChat(s)
    BY <1>2, <1>10 DEF StartNew, ChooseScope, ListChats, DeleteChat, requests
  <1>11. CASE Submit \/ DeleteDocument \/ \E k \in DOMAIN pane : RetryQuestion(k)
    BY <1>2, <1>11 DEF Submit, DeleteDocument, RetryQuestion, Ask, requests
  <1>12. CASE ForgetDocument \/ MissDocument \/ UNCHANGED vars
    BY <1>2, <1>12 DEF ForgetDocument, MissDocument, vars, requests
  <1> QED BY <1>3, <1>4, <1>5, <1>6, <1>7, <1>8, <1>9, <1>10, <1>11, <1>12
          DEF Next, Network, Users

-----------------------------------------------------------------------------
(* Requests.                                                               *)

\* A page that has been read stays a page of its session.
LEMMA StepRequests ==
  ASSUME IInv, [Next]_vars, NEW j \in Slots
  PROVE  SelectOk(j)' /\ OlderOk(j)'
  <1>0. TypeOK /\ SelectOk(j) /\ OlderOk(j) /\ ItemsOk(log, pane) /\ TypeOK'
    BY StepTypes DEF IInv
  <1>1. /\ log \in Seq(Sessions) /\ log' \in Seq(Sessions) /\ Len(log) \in Nat /\ Len(log') \in Nat
        /\ selects[j] \in SelectState /\ olders[j] \in OlderState /\ pane \in Seq(Item)
    BY <1>0 DEF TypeOK
  <1>2. Len(log) <= Len(log') /\ \A i \in 1..Len(log) : log'[i] = log[i]
    BY ServerMoves
  <1>3. Top = Len(log) + 1 /\ Top' = Len(log') + 1 /\ Top \in 1..Top /\ 1..Top \subseteq 1..Top'
    BY <1>1, <1>2 DEF Top
  <1>4. DOMAIN log = 1..Len(log) /\ DOMAIN log' = 1..Len(log') /\ DOMAIN log \subseteq DOMAIN log'
    BY <1>1, <1>2
  <1>5. SelectOk(j)'
    <2>1. CASE selects'[j] = selects[j]
      <3>1. ASSUME selects[j].step = "read"
            PROVE  \E end \in 1..Top' :
                     Consecutive(log', selects[j].ids, selects[j].session, end, selects[j].more)
        <4>1. PICK end \in 1..Top :
                Consecutive(log, selects[j].ids, selects[j].session, end, selects[j].more)
          BY <1>0, <3>1 DEF SelectOk
        <4>2. selects[j].ids \in Seq(Nat)
          BY <1>1 DEF SelectState
        <4>3. Consecutive(log', selects[j].ids, selects[j].session, end, selects[j].more)
          BY <1>1, <1>2, <1>3, <4>1, <4>2, ConsecutiveGrows
        <4> QED BY <1>3, <4>3
      <3> QED BY <1>0, <2>1, <3>1 DEF SelectOk
    <2>2. CASE selects'[j].step = "none"
      BY <2>2 DEF SelectOk
    <2>3. CASE selects'[j].step = "asked" /\ selects'[j].session \in Known
      BY <2>3 DEF SelectOk, Known
    <2>4. CASE /\ selects[j].step = "asked" /\ selects'[j].session = selects[j].session
               /\ selects'[j].step \in {"missing", "failed"}
      BY <1>0, <2>4 DEF SelectOk
    <2>5. CASE /\ selects[j].step = "asked" /\ selects'[j].session = selects[j].session
               /\ UNCHANGED log /\ selects'[j].step = "read"
               /\ selects'[j].ids = PageBefore(selects[j].session, Top)
               /\ selects'[j].more = MoreBefore(selects[j].session, Top)
      <3>1. Consecutive(log, PageBefore(selects[j].session, Top), selects[j].session, Top,
                        MoreBefore(selects[j].session, Top))
        BY <1>1, <1>3, PageFacts
      <3>2. Top \in 1..Top'
        BY <1>3
      <3> QED BY <1>0, <2>5, <3>1, <3>2 DEF SelectOk
    <2> QED BY <2>1, <2>2, <2>3, <2>4, <2>5, SelectsMove DEF SelectMoves
  <1>6. OlderOk(j)'
    <2>1. CASE olders'[j] = olders[j]
      <3>1. ASSUME olders[j].step = "read"
            PROVE  Consecutive(log', olders[j].ids, olders[j].session, olders[j].before, olders[j].more)
        <4>1. /\ Consecutive(log, olders[j].ids, olders[j].session, olders[j].before, olders[j].more)
              /\ olders[j].before \in DOMAIN log
          BY <1>0, <3>1 DEF OlderOk
        <4>2. olders[j].ids \in Seq(Nat) /\ olders[j].before \in 1..(Len(log) + 1)
          BY <1>1, <1>4, <4>1 DEF OlderState
        <4> QED BY <1>1, <1>2, <4>1, <4>2, ConsecutiveGrows
      <3> QED BY <1>0, <1>4, <2>1, <3>1 DEF OlderOk
    <2>2. CASE olders'[j].step = "none"
      BY <2>2 DEF OlderOk
    <2>3. CASE /\ olders'[j].step = "asked" /\ UNCHANGED log
               /\ pane # << >> /\ pane[1].kind = "stored" /\ olders'[j].before = pane[1].id
      <3>1. 1 \in DOMAIN pane
        BY <1>1, <2>3
      <3> QED BY <1>0, <2>3, <3>1 DEF OlderOk, ItemsOk
    <2>4. CASE /\ olders[j].step = "asked" /\ olders'[j].session = olders[j].session
               /\ olders'[j].before = olders[j].before /\ UNCHANGED log
               /\ olders'[j].step = "failed"
      BY <1>0, <2>4 DEF OlderOk
    <2>5. CASE /\ olders[j].step = "asked" /\ olders'[j].session = olders[j].session
               /\ olders'[j].before = olders[j].before /\ UNCHANGED log
               /\ olders'[j].step = "read"
               /\ olders'[j].ids = PageBefore(olders[j].session, olders[j].before)
               /\ olders'[j].more = MoreBefore(olders[j].session, olders[j].before)
      <3>1. olders[j].before \in DOMAIN log
        BY <1>0, <2>5 DEF OlderOk
      <3>2. olders[j].before \in 1..Top
        BY <1>1, <1>3, <1>4, <3>1
      <3>3. Consecutive(log, PageBefore(olders[j].session, olders[j].before), olders[j].session,
                        olders[j].before, MoreBefore(olders[j].session, olders[j].before))
        BY <1>1, <3>2, PageFacts
      <3> QED BY <2>5, <3>1, <3>3 DEF OlderOk
    <2> QED BY <2>1, <2>2, <2>3, <2>4, <2>5, OldersMove DEF OlderMoves
  <1> QED BY <1>5, <1>6

\* The page refers to created sessions only.
LEMMA StepReferenced ==
  ASSUME IInv, [Next]_vars
  PROVE  Referenced'
  <1> DEFINE Ok(s) == s \in Known' \cup {None}
             Rest == /\ chats' \subseteq Known' /\ listing'.chats \subseteq Known'
                     /\ Ok(active') /\ Ok(notice'.session) /\ Ok(deletion'.session)
                     /\ Ok(stream'.session)
  <1>0. /\ TypeOK /\ Known \subseteq Known' /\ \A i \in Slots : SelectOk(i)
    BY ServerMoves DEF IInv
  <1>1. /\ chats \subseteq Known' /\ listing.chats \subseteq Known'
        /\ Ok(active) /\ Ok(notice.session) /\ Ok(deletion.session) /\ Ok(stream.session) /\ Ok(None)
        /\ \A i \in Slots : Ok(selects[i].session)
    BY <1>0 DEF IInv, Referenced
  <1>2. \A j \in Slots : Ok(selects'[j].session)
    BY <1>0, <1>1, SelectsMove DEF SelectMoves
  <1>3. \A s \in Sessions : Ok(s) => s \in Known'
    BY ConversationAssumption
  <1>4. /\ selects \in [Slots -> SelectState] /\ stream \in Stream /\ deletion \in Deletion
    BY <1>0 DEF TypeOK
  <1>5. Live \subseteq Known
    BY DEF Live, Known
  <1>6. \A i \in Slots : selects[i].step # "none" => selects[i].session \in Known'
    BY <1>0, <1>1, <1>3 DEF SelectOk
  <1>7. stream.step \in {"opened", "streaming", "done"} => stream.session \in Known'
    BY <1>1, <1>3 DEF IInv, StreamOk
  <1>8. NoNotice.session = None /\ NoStream.session = None
    BY NoRequests
  <1> SUFFICES Rest
    BY <1>2 DEF Referenced
  <1> HIDE DEF Ok
  <1> USE <1>0, <1>1, <1>3, <1>4, <1>8 DEF server, page, requests
  <1>10. ASSUME NEW i \in Slots, NEW s, NEW outer, BeginSelect(i, s, outer) PROVE active' = s
    BY <1>10 DEF BeginSelect, Empties
  <1>11. ASSUME NEW i \in Slots, EndSelect(i)
         PROVE  /\ listing'.chats \subseteq Known' /\ Ok(deletion'.session) /\ Ok(stream'.session)
    BY <1>11 DEF EndSelect
  <1>12. CASE \E i \in Slots, s \in Sessions : Select(i, s)
    <2>1. PICK i \in Slots, s \in Sessions : Select(i, s)
      BY <1>12
    <2>2. active' = s /\ Ok(notice'.session) /\ Ok(s)
      BY <2>1, <1>10 DEF Select, Clicks, Ok
    <2> QED BY <2>1, <2>2 DEF Select
  <1>13. CASE \E i \in Slots : ReadSelected(i) \/ SelectLost(i)
    BY <1>13 DEF ReadSelected, SelectLost
  <1>14. CASE \E i \in Slots : SelectedArrives(i)
    <2>1. PICK i \in Slots : SelectedArrives(i)
      BY <1>14
    <2>2. EndSelect(i) /\ UNCHANGED notice /\ UNCHANGED active
      BY <2>1 DEF SelectedArrives
    <2>3. chats' = chats \/ chats' = chats \cup {selects[i].session}
      BY <2>1 DEF SelectedArrives
    <2>4. selects[i].session \in Known'
      BY <1>6, <2>1 DEF SelectedArrives
    <2> QED BY <1>11, <2>2, <2>3, <2>4
  <1>15. CASE \E i \in Slots : SelectedMissing(i)
    <2>1. PICK i \in Slots : SelectedMissing(i)
      BY <1>15
    <2>2. /\ EndSelect(i) /\ notice'.session = None /\ active' = None
          /\ chats' = chats \ {selects[i].session}
      BY <2>1 DEF SelectedMissing
    <2> QED BY <1>11, <2>2
  <1>16. CASE \E i \in Slots : SelectedFails(i)
    <2>1. PICK i \in Slots : SelectedFails(i)
      BY <1>16
    <2>2. /\ EndSelect(i) /\ notice'.session = selects[i].session /\ UNCHANGED <<active, chats>>
      BY <2>1 DEF SelectedFails
    <2> QED BY <1>11, <2>2
  <1>17. CASE StartNew \/ ChooseScope \/ MissDocument
    BY <1>17 DEF StartNew, ChooseScope, MissDocument, Empties
  <1>18. CASE \E i \in Slots : LoadOlder(i)
    BY <1>18 DEF LoadOlder, Clicks
  <1>19. CASE \E i \in Slots : ReadOlder(i) \/ OlderArrives(i) \/ OlderFails(i)
    BY <1>19 DEF ReadOlder, OlderArrives, OlderFails
  <1>20. CASE ListChats \/ ReadChats \/ ChatsFail
    BY <1>5, <1>20 DEF ListChats, ReadChats, ChatsFail, Clicks
  <1>21. CASE \E i \in Slots : ChatsArrive(i)
    <2>1. PICK i \in Slots : ChatsArrive(i)
      BY <1>21
    <2> DEFINE target == IF active \in listing.chats THEN active
                         ELSE CHOOSE s \in listing.chats : TRUE
    <2>2. /\ chats' = listing.chats /\ listing'.chats = {}
          /\ UNCHANGED <<deletion, stream, notice>>
      BY <2>1 DEF ChatsArrive
    <2>3. Ok(active')
      <3>1. CASE ~Generating /\ listing.chats # {}
        <4>1. target \in Known'
          BY <3>1
        <4>2. BeginSelect(i, target, "list")
          BY <2>1, <3>1 DEF ChatsArrive
        <4> HIDE DEF target
        <4> QED BY <1>10, <4>1, <4>2 DEF Ok
      <3>2. CASE Generating \/ listing.chats = {}
        BY <2>1, <3>2 DEF ChatsArrive, Empties
      <3> QED BY <3>1, <3>2
    <2> QED BY <2>2, <2>3
  <1>22. CASE (\E s \in Sessions : DeleteChat(s)) \/ RemoveChat \/ DeletionFails
    <2>1. CASE \E s \in Sessions : DeleteChat(s)
      <3>1. PICK s \in Sessions : DeleteChat(s)
        BY <2>1
      <3>2. Ok(s) /\ deletion'.session = s /\ Ok(notice'.session)
        BY <3>1 DEF DeleteChat, Clicks
      <3> QED BY <3>1, <3>2 DEF DeleteChat
    <2>2. CASE RemoveChat
      <3>1. deletion'.session = deletion.session
        BY <2>2 DEF RemoveChat, Deletion
      <3> QED BY <2>2, <3>1 DEF RemoveChat
    <2>3. CASE DeletionFails
      BY <2>3 DEF DeletionFails
    <2> QED BY <1>22, <2>1, <2>2, <2>3
  <1>23. CASE \E i \in Slots : DeletionArrives(i)
    <2>1. PICK i \in Slots : DeletionArrives(i)
      BY <1>23
    <2> DEFINE left == chats \ {deletion.session}
               target == CHOOSE s \in left : TRUE
    <2>2. /\ chats' \subseteq Known' /\ UNCHANGED <<listing, stream, notice>>
      BY <2>1 DEF DeletionArrives
    <2>3. CASE ~(left = {} \/ Generating)
      <3>1. target \in Known'
        BY <2>3
      <3>2. BeginSelect(i, target, "delete") /\ deletion'.session = deletion.session
        BY <2>1, <2>3 DEF DeletionArrives, Deletion
      <3> HIDE DEF target, left
      <3> QED BY <1>10, <2>2, <3>1, <3>2 DEF Ok
    <2>4. CASE left = {} \/ Generating
      BY <2>1, <2>2, <2>4 DEF DeletionArrives, Empties
    <2> QED BY <2>3, <2>4
  <1>24. CASE Submit \/ \E k \in DOMAIN pane : RetryQuestion(k)
    BY <1>24 DEF Submit, RetryQuestion, Ask
  <1>25. CASE Open
    <2>1. Ok(stream'.session)
      <3>1. CASE \/ stream' = [stream EXCEPT !.step = "opened"]
                 \/ stream' = [stream EXCEPT !.step = "failed"]
        BY <3>1 DEF Stream
      <3>2. CASE \E s \in Sessions : /\ status' = [status EXCEPT ![s] = "live"]
                                     /\ stream' = [stream EXCEPT !.step = "opened", !.session = s]
        <4>1. PICK s \in Sessions : /\ status' = [status EXCEPT ![s] = "live"]
                                    /\ stream' = [stream EXCEPT !.step = "opened", !.session = s]
          BY <3>2
        <4>2. s \in Known'
          BY <4>1 DEF Known, TypeOK
        <4>3. stream'.session = s
          BY <4>1 DEF Stream
        <4> QED BY <4>2, <4>3 DEF Ok
      <3> QED BY <1>25, <3>1, <3>2 DEF Open
    <2> QED BY <1>25, <2>1 DEF Open
  <1>26. CASE Opened
    <2>1. stream'.session = stream.session /\ stream.session \in Known'
      BY <1>7, <1>26 DEF Opened, Stream
    <2> QED BY <1>26, <2>1 DEF Opened, Ok
  <1>27. CASE Answer
    <2>1. stream'.session = stream.session
      BY <1>27 DEF Answer, Stream
    <2> QED BY <1>27, <2>1 DEF Answer
  <1>28. CASE Done
    <2>1. stream.session \in Known'
      BY <1>7, <1>28 DEF Done
    <2> QED BY <1>28, <2>1 DEF Done, Ok
  <1>29. CASE Failed
    BY <1>29 DEF Failed
  <1>30. CASE DeleteDocument \/ UNCHANGED vars
    BY <1>30 DEF DeleteDocument, vars
  <1>31. CASE ForgetDocument
    BY <1>31 DEF ForgetDocument, Empties
  <1> QED
    BY <1>12, <1>13, <1>14, <1>15, <1>16, <1>17, <1>18, <1>19, <1>20, <1>21, <1>22, <1>23,
       <1>24, <1>25, <1>26, <1>27, <1>28, <1>29, <1>30, <1>31 DEF Next, Loading, Network, Users

-----------------------------------------------------------------------------
(* Histories.                                                              *)

LEMMA AppendOwn ==
  ASSUME NEW items \in Seq(Item), NEW kind \in {"local", "streaming", "error"}, NEW lg,
         ItemsOk(lg, items)
  PROVE  LET all == Append(items, Own(kind)) IN
         /\ all \in Seq(Item) /\ ItemsOk(lg, all)
         /\ StoredAt(all) = StoredAt(items) /\ \A k \in StoredAt(items) : all[k].id = items[k].id
  <1> DEFINE all == Append(items, Own(kind))
  <1>1. Own(kind) \in Item /\ Own(kind).kind = kind /\ Own(kind).id = 0
    BY DEF Own, Item
  <1>2. Len(items) \in Nat /\ DOMAIN items = 1..Len(items)
    OBVIOUS
  <1>3. /\ all \in Seq(Item) /\ DOMAIN all = 1..(Len(items) + 1)
        /\ all[Len(items) + 1] = Own(kind) /\ \A k \in 1..Len(items) : all[k] = items[k]
    BY <1>1
  <1> HIDE DEF all
  <1>4. ASSUME NEW k \in 1..(Len(items) + 1) PROVE k \in 1..Len(items) \/ k = Len(items) + 1
    BY <1>2
  <1>5. ItemsOk(lg, all)
    BY <1>1, <1>2, <1>3, <1>4 DEF ItemsOk
  <1>6. StoredAt(all) = StoredAt(items)
    BY <1>1, <1>2, <1>3, <1>4 DEF StoredAt
  <1>7. \A k \in StoredAt(items) : all[k].id = items[k].id
    BY <1>2, <1>3 DEF StoredAt
  <1> QED BY <1>3, <1>5, <1>6, <1>7 DEF all

\* What stored messages a pane holds, and where, decides whether it is a history.
LEMMA SameHistory ==
  ASSUME NEW items \in Seq(Item), NEW other \in Seq(Item), NEW lg, NEW s, NEW more,
         StoredAt(other) = StoredAt(items), \A k \in StoredAt(items) : other[k].id = items[k].id,
         History(lg, items, s, more)
  PROVE  History(lg, other, s, more)
  <1>1. PICK n \in DOMAIN items :
          /\ StoredAt(items) = 1..n
          /\ \A j, k \in 1..n : j < k => items[j].id < items[k].id
          /\ {items[k].id : k \in 1..n} = Between(lg, s, items[1].id, items[n].id + 1)
          /\ more = (Between(lg, s, 0, items[1].id) # {})
    BY DEF History
  <1>2. n \in Nat /\ n >= 1 /\ 1 \in 1..n /\ n \in 1..n
    OBVIOUS
  <1>3. n \in DOMAIN other
    BY <1>1, <1>2 DEF StoredAt
  <1>4. \A k \in 1..n : other[k].id = items[k].id
    BY <1>1
  <1>5. {other[k].id : k \in 1..n} = {items[k].id : k \in 1..n}
    BY <1>4
  <1> QED BY <1>1, <1>2, <1>3, <1>4, <1>5 DEF History

LEMMA StoredPartSays ==
  ASSUME NEW items, NEW other, StoredPart(other) = StoredPart(items)
  PROVE  StoredAt(other) = StoredAt(items) /\ \A k \in StoredAt(items) : other[k].id = items[k].id
  <1>1. ASSUME NEW k \in StoredAt(items) PROVE k \in StoredAt(other) /\ other[k].id = items[k].id
    <2>1. <<k, items[k].id>> \in StoredPart(other)
      BY DEF StoredPart
    <2>2. PICK j \in StoredAt(other) : <<k, items[k].id>> = <<j, other[j].id>>
      BY <2>1 DEF StoredPart
    <2> QED BY <2>2
  <1>2. ASSUME NEW k \in StoredAt(other) PROVE k \in StoredAt(items)
    <2>1. <<k, other[k].id>> \in StoredPart(items)
      BY DEF StoredPart
    <2>2. PICK j \in StoredAt(items) : <<k, other[k].id>> = <<j, items[j].id>>
      BY <2>1 DEF StoredPart
    <2> QED BY <2>2
  <1> QED BY <1>1, <1>2

\* A page that is shown alone is a history.
LEMMA PageHistory ==
  ASSUME NEW lg \in Seq(Sessions), NEW ids \in Seq(Nat), NEW s, NEW end \in 1..(Len(lg) + 1),
         NEW more, Consecutive(lg, ids, s, end, more)
  PROVE  /\ ItemsOk(lg, Page(ids))
         /\ StoredAt(Page(ids)) # {} => History(lg, Page(ids), s, more)
  <1> DEFINE items == Page(ids)
             n == Len(ids)
  <1>1. /\ items \in Seq(Item) /\ Len(items) = n /\ n \in Nat /\ DOMAIN items = 1..n
        /\ DOMAIN ids = 1..n /\ \A k \in 1..n : ids[k] \in Nat
        /\ \A k \in 1..n : items[k].kind = "stored" /\ items[k].id = ids[k]
    BY PageItems
  <1>2. Len(lg) \in Nat /\ end \in Nat
    OBVIOUS
  <1> HIDE DEF items, n
  <1>3. StoredAt(items) = 1..n
    BY <1>1 DEF StoredAt
  <1>4. ASSUME NEW k \in 1..n PROVE ids # << >> /\ ids[k] \in Between(lg, s, ids[1], end)
    <2>1. ids # << >>
      BY <1>1
    <2>2. {ids[m] : m \in DOMAIN ids} = Between(lg, s, ids[1], end)
      BY <2>1 DEF Consecutive
    <2> QED BY <1>1, <2>1, <2>2
  <1>5. ItemsOk(lg, items)
    BY <1>1, <1>4 DEF ItemsOk, Between
  <1>6. ASSUME n # 0 PROVE History(lg, items, s, more)
    <2>1. ids # << >> /\ 1 \in 1..n /\ n \in 1..n
      BY <1>1, <1>6 DEF n
    <2>2. \A j, k \in 1..n : j < k => items[j].id < items[k].id
      BY <1>1 DEF Consecutive, Increasing
    <2>3. \A k \in 1..n : ids[k] <= ids[n]
      <3> SUFFICES ASSUME NEW k \in 1..n PROVE ids[k] <= ids[n]
        OBVIOUS
      <3>1. k < n => ids[k] < ids[n]
        BY <1>1, <2>1 DEF Consecutive, Increasing
      <3>2. k < n \/ k = n
        BY <1>1
      <3> QED BY <1>1, <2>1, <3>1, <3>2
    <2>4. {items[k].id : k \in 1..n} = Between(lg, s, ids[1], end)
      <3>1. {items[k].id : k \in 1..n} = {ids[k] : k \in DOMAIN ids}
        BY <1>1
      <3> QED BY <2>1, <3>1 DEF Consecutive
    <2>5. Between(lg, s, ids[1], end) = Between(lg, s, ids[1], ids[n] + 1)
      <3>1. ASSUME NEW m \in Between(lg, s, ids[1], end)
            PROVE  m \in Between(lg, s, ids[1], ids[n] + 1)
        <4>1. PICK k \in 1..n : m = ids[k]
          BY <1>1, <2>1, <3>1 DEF Consecutive
        <4>2. m < ids[n] + 1
          BY <1>1, <2>1, <2>3, <4>1
        <4> QED BY <4>2 DEF Between
      <3>2. ASSUME NEW m \in Between(lg, s, ids[1], ids[n] + 1)
            PROVE  m \in Between(lg, s, ids[1], end)
        <4>1. m \in Nat /\ m < ids[n] + 1 /\ ids[n] \in Nat
          BY <1>1, <2>1 DEF Between
        <4>2. ids[n] < end
          BY <1>4, <2>1 DEF Between
        <4>3. m < end
          BY <1>2, <4>1, <4>2
        <4> QED BY <4>3 DEF Between
      <3> QED BY <3>1, <3>2
    <2>6. more = (Between(lg, s, 0, ids[1]) # {})
      BY <2>1 DEF Consecutive
    <2>7. items[1].id = ids[1] /\ items[n].id = ids[n] /\ n \in DOMAIN items
      BY <1>1, <2>1
    <2> QED BY <1>3, <2>2, <2>4, <2>5, <2>6, <2>7 DEF History
  <1>7. StoredAt(items) # {} => n # 0
    BY <1>1, <1>3
  <1> QED BY <1>5, <1>6, <1>7 DEF items

\* The page below the first message of a history makes a longer history with it.
LEMMA JoinHistory ==
  ASSUME NEW lg \in Seq(Sessions), NEW items \in Seq(Item), ItemsOk(lg, items), NEW ids \in Seq(Nat),
         NEW s, NEW more \in BOOLEAN, NEW old, History(lg, items, s, old), items[1].id \in Nat,
         Consecutive(lg, ids, s, items[1].id, more)
  PROVE  History(lg, Page(ids) \o items, s, more)
  <1>1. PICK n \in DOMAIN items :
          /\ StoredAt(items) = 1..n
          /\ \A j, k \in 1..n : j < k => items[j].id < items[k].id
          /\ {items[k].id : k \in 1..n} = Between(lg, s, items[1].id, items[n].id + 1)
          /\ old = (Between(lg, s, 0, items[1].id) # {})
    BY DEF History
  <1> DEFINE l == Len(ids)
             front == Page(ids)
             all == front \o items
             first == items[1].id
             last == items[n].id
  <1>2. /\ front \in Seq(Item) /\ Len(front) = l /\ l \in Nat /\ DOMAIN ids = 1..l
        /\ \A k \in 1..l : front[k].kind = "stored" /\ front[k].id = ids[k] /\ ids[k] \in Nat
    BY PageItems
  <1>3. n \in Nat /\ n >= 1 /\ 1 \in 1..n /\ n \in 1..n /\ Len(items) \in Nat /\ n <= Len(items)
    OBVIOUS
  <1>4. \A k \in 1..n : items[k] \in Item /\ items[k].id \in Nat /\ items[k].kind = "stored"
    <2> SUFFICES ASSUME NEW k \in 1..n
                 PROVE  items[k] \in Item /\ items[k].id \in Nat /\ items[k].kind = "stored"
      OBVIOUS
    <2>1. k \in DOMAIN items /\ items[k].kind = "stored"
      BY <1>1 DEF StoredAt
    <2>2. items[k] \in Item
      BY <2>1
    <2> QED BY <2>1, <2>2 DEF Item
  <1>5. first \in Nat /\ last \in Nat /\ first <= last
    <2>1. n = 1 \/ 1 < n
      BY <1>3
    <2> QED BY <1>1, <1>3, <1>4, <2>1
  <1> HIDE DEF front, l
  <1>6. /\ DOMAIN all = 1..(l + Len(items)) /\ all \in Seq(Item)
        /\ \A k \in 1..l : all[k] = front[k]
        /\ \A k \in 1..Len(items) : all[l + k] = items[k]
    <2>1. all \in Seq(Item) /\ Len(all) = l + Len(items) /\ DOMAIN all = 1..Len(all)
      <3>1. all \in Seq(Item)
        BY <1>2
      <3>2. Len(all) = Len(front) + Len(items)
        <4>1. front \in Seq(Item)
          BY <1>2
        <4> QED BY <4>1
      <3> HIDE DEF all
      <3> QED BY <1>2, <3>1, <3>2
    <2>2. \A k \in 1..l : all[k] = front[k]
      BY <1>2, <1>3
    <2>3. ASSUME NEW k \in 1..Len(items) PROVE all[l + k] = items[k]
      <3>1. l + k \in 1..(l + Len(items)) /\ ~(l + k <= l) /\ (l + k) - l = k
        BY <1>2, <1>3
      <3> QED BY <1>2, <1>3, <3>1
    <2> QED BY <2>1, <2>2, <2>3
  <1> HIDE DEF all, first, last
  <1>7. \A k \in 1..(l + Len(items)) : k \in 1..l \/ \E j \in 1..Len(items) : k = l + j
    <2> SUFFICES ASSUME NEW k \in 1..(l + Len(items)), k \notin 1..l
                 PROVE  \E j \in 1..Len(items) : k = l + j
      OBVIOUS
    <2>1. k - l \in 1..Len(items) /\ k = l + (k - l)
      BY <1>2, <1>3
    <2> QED BY <2>1
  <1>8. StoredAt(all) = 1..(l + n)
    <2>1. ASSUME NEW k \in 1..(l + Len(items)) PROVE k \in StoredAt(all) <=> k \in 1..(l + n)
      <3>1. CASE k \in 1..l
        BY <1>2, <1>3, <1>6, <3>1 DEF StoredAt
      <3>2. ASSUME NEW j \in 1..Len(items), k = l + j
            PROVE  k \in StoredAt(all) <=> k \in 1..(l + n)
        <4>1. k \in StoredAt(all) <=> j \in StoredAt(items)
          <5>1. k \in DOMAIN all /\ j \in DOMAIN items /\ all[k] = items[j]
            BY <1>6, <3>2
          <5> QED BY <5>1 DEF StoredAt
        <4>2. k \in 1..(l + n) <=> j \in 1..n
          BY <1>2, <1>3, <3>2
        <4> QED BY <1>1, <4>1, <4>2
      <3> QED BY <1>7, <3>1, <3>2
    <2>2. StoredAt(all) \subseteq 1..(l + Len(items)) /\ 1..(l + n) \subseteq 1..(l + Len(items))
      BY <1>2, <1>3, <1>6 DEF StoredAt
    <2> QED BY <2>1, <2>2
  <1>9. \A k \in 1..l : all[k].id = ids[k] /\ ids[k] \in Nat
    BY <1>2, <1>6
  <1>10. \A k \in 1..n : all[l + k].id = items[k].id
    <2> SUFFICES ASSUME NEW k \in 1..n PROVE all[l + k].id = items[k].id
      OBVIOUS
    <2>1. k \in 1..Len(items)
      BY <1>3
    <2>2. all[l + k] = items[k]
      BY <1>6, <2>1
    <2> QED BY <2>2
  <1>11. \A k \in 1..(l + n) : k \in 1..l \/ \E j \in 1..n : k = l + j
    <2> SUFFICES ASSUME NEW k \in 1..(l + n), k \notin 1..l PROVE \E j \in 1..n : k = l + j
      OBVIOUS
    <2>1. k - l \in 1..n /\ k = l + (k - l)
      BY <1>2, <1>3
    <2> QED BY <2>1
  <1>12. \A k \in 1..n : first <= items[k].id
    <2> SUFFICES ASSUME NEW k \in 1..n PROVE first <= items[k].id
      OBVIOUS
    <2>1. k = 1 \/ 1 < k
      OBVIOUS
    <2> QED BY <1>1, <1>3, <1>4, <2>1 DEF first
  <1>13. ASSUME NEW k \in 1..l
         PROVE  ids # << >> /\ ids[k] \in Between(lg, s, ids[1], first) /\ ids[k] < first
    <2>1. ids # << >>
      BY <1>2 DEF l
    <2>2. ids[k] \in Between(lg, s, ids[1], first)
      BY <1>2, <2>1 DEF Consecutive, first
    <2> QED BY <2>1, <2>2 DEF Between
  <1>14. ASSUME NEW j \in 1..(l + n), NEW k \in 1..(l + n), j < k PROVE all[j].id < all[k].id
    <2>1. CASE j \in 1..l /\ k \in 1..l
      BY <1>2, <1>9, <1>14, <2>1 DEF Consecutive, Increasing
    <2>2. ASSUME j \in 1..l, NEW m \in 1..n, k = l + m PROVE all[j].id < all[k].id
      <3>1. all[j].id = ids[j] /\ ids[j] \in Nat /\ ids[j] < first
        BY <1>9, <1>13, <2>2
      <3>2. all[k].id = items[m].id /\ items[m].id \in Nat /\ first <= items[m].id
        BY <1>4, <1>10, <1>12, <2>2
      <3> QED BY <1>5, <3>1, <3>2
    <2>3. ASSUME NEW p \in 1..n, j = l + p, NEW m \in 1..n, k = l + m PROVE all[j].id < all[k].id
      <3>1. p < m
        BY <1>2, <1>14, <2>3
      <3> QED BY <1>1, <1>10, <2>3, <3>1
    <2>4. ~(k \in 1..l /\ j \notin 1..l)
      BY <1>2, <1>14
    <2> QED BY <1>11, <2>1, <2>2, <2>3, <2>4
  <1>15. {all[k].id : k \in 1..(l + n)} = Between(lg, s, all[1].id, last + 1)
         /\ more = (Between(lg, s, 0, all[1].id) # {})
    <2>0. /\ all[l + n].id = last
          /\ {items[k].id : k \in 1..n} = Between(lg, s, first, last + 1)
      BY <1>1, <1>3, <1>10 DEF first, last
    <2>1. CASE l = 0
      <3>1. ids = << >> /\ all[1].id = first
        BY <1>3, <1>10, <2>1 DEF l, first
      <3>2. {all[k].id : k \in 1..(l + n)} = {items[k].id : k \in 1..n}
        <4>1. l + n = n /\ \A k \in 1..n : l + k = k
          BY <1>3, <2>1
        <4>2. \A k \in 1..n : all[k].id = items[k].id
          BY <1>10, <4>1
        <4> QED BY <4>1, <4>2
      <3>3. ~more /\ Between(lg, s, 0, first) = {}
        BY <3>1 DEF Consecutive, first
      <3>4. more = (Between(lg, s, 0, first) # {})
        BY <3>3
      <3> QED BY <2>0, <3>1, <3>2, <3>4
    <2>2. CASE l # 0
      <3>1. 1 \in 1..l /\ ids # << >> /\ all[1].id = ids[1]
        <4>1. 1 \in 1..l
          BY <1>2, <2>2
        <4> QED BY <1>9, <1>13, <4>1
      <3>2. /\ {ids[k] : k \in 1..l} = Between(lg, s, ids[1], first)
            /\ more = (Between(lg, s, 0, ids[1]) # {})
        BY <1>2, <3>1 DEF Consecutive, first
      <3>3. ids[1] \in Nat /\ ids[1] < first
        BY <1>9, <1>13, <3>1
      <3>4. ASSUME NEW m \in {all[k].id : k \in 1..(l + n)}
            PROVE  m \in Between(lg, s, ids[1], last + 1)
        <4>1. PICK k \in 1..(l + n) : m = all[k].id
          OBVIOUS
        <4>2. CASE k \in 1..l
          <5>1. m \in Between(lg, s, ids[1], first)
            BY <1>9, <1>13, <4>1, <4>2
          <5>2. m \in Nat /\ m < first
            BY <1>9, <4>1, <4>2, <1>13
          <5>3. m < last + 1
            BY <1>5, <5>2
          <5> QED BY <5>1, <5>3 DEF Between
        <4>3. ASSUME NEW j \in 1..n, k = l + j PROVE m \in Between(lg, s, ids[1], last + 1)
          <5>1. m \in Between(lg, s, first, last + 1)
            BY <1>10, <2>0, <4>1, <4>3
          <5>2. m \in Nat /\ first <= m
            BY <5>1 DEF Between
          <5>3. ids[1] <= m
            BY <1>5, <3>3, <5>2
          <5> QED BY <5>1, <5>3 DEF Between
        <4> QED BY <1>11, <4>2, <4>3
      <3>5. ASSUME NEW m \in Between(lg, s, ids[1], last + 1)
            PROVE  m \in {all[k].id : k \in 1..(l + n)}
        <4>1. m \in Nat /\ m \in DOMAIN lg /\ lg[m] = s /\ ids[1] <= m /\ m < last + 1
          BY DEF Between
        <4>2. CASE m < first
          <5>1. m \in Between(lg, s, ids[1], first)
            BY <4>1, <4>2 DEF Between
          <5>2. PICK k \in 1..l : m = ids[k]
            BY <3>2, <5>1
          <5>3. k \in 1..(l + n) /\ m = all[k].id
            BY <1>2, <1>3, <1>9, <5>2
          <5> QED BY <5>3
        <4>3. CASE ~(m < first)
          <5>1. first <= m
            BY <1>5, <4>1, <4>3
          <5>2. m \in Between(lg, s, first, last + 1)
            BY <4>1, <5>1 DEF Between
          <5>3. PICK k \in 1..n : m = items[k].id
            BY <2>0, <5>2
          <5>4. l + k \in 1..(l + n) /\ m = all[l + k].id
            BY <1>2, <1>3, <1>10, <5>3
          <5> QED BY <5>4
        <4> QED BY <4>2, <4>3
      <3> QED BY <3>1, <3>2, <3>4, <3>5
    <2> QED BY <2>1, <2>2
  <1>16. l + n \in DOMAIN all /\ all[l + n].id = last
    BY <1>2, <1>3, <1>6, <1>10 DEF last
  <1>17. History(lg, all, s, more)
    BY <1>8, <1>14, <1>15, <1>16 DEF History
  <1> QED BY <1>17 DEF all, front

\* An error is never in front of a stored message of a history.
LEMMA RemoveOwn ==
  ASSUME NEW items \in Seq(Item), NEW k \in DOMAIN items, items[k].kind = "error", NEW lg,
         ItemsOk(lg, items)
  PROVE  LET rest == RemoveAt(items, k) IN
         /\ rest \in Seq(Item) /\ ItemsOk(lg, rest)
         /\ \A n \in Nat : StoredAt(items) = 1..n =>
              /\ StoredAt(rest) = StoredAt(items)
              /\ \A j \in StoredAt(items) : rest[j].id = items[j].id
  <1> DEFINE rest == RemoveAt(items, k)
             m == Len(items) - 1
  <1>1. /\ rest \in Seq(Item) /\ Len(rest) = m /\ k \in 1..(m + 1) /\ m \in Nat
        /\ \A j \in 1..m : rest[j] = IF j < k THEN items[j] ELSE items[j + 1]
        /\ DOMAIN items = 1..(m + 1) /\ DOMAIN rest = 1..m
    <2>1. Len(items) \in Nat /\ k \in 1..Len(items) /\ DOMAIN items = 1..Len(items)
      OBVIOUS
    <2>2. m \in Nat /\ m + 1 = Len(items)
      BY <2>1
    <2>3. /\ rest \in Seq(Item) /\ Len(rest) = m
          /\ \A j \in 1..m : rest[j] = IF j < k THEN items[j] ELSE items[j + 1]
      BY RemoveFacts
    <2> HIDE DEF rest, m
    <2>4. DOMAIN rest = 1..m
      BY <2>3
    <2> QED BY <2>1, <2>2, <2>3, <2>4
  <1> HIDE DEF rest, m
  <1>2. \A j \in 1..m : j \in DOMAIN items /\ j + 1 \in DOMAIN items
    BY <1>1
  <1>3. ItemsOk(lg, rest)
    BY <1>1, <1>2 DEF ItemsOk
  <1>4. ASSUME NEW n \in Nat, StoredAt(items) = 1..n
        PROVE  /\ StoredAt(rest) = StoredAt(items)
               /\ \A j \in StoredAt(items) : rest[j].id = items[j].id
    <2>1. k \notin 1..n
      BY <1>4 DEF StoredAt
    <2>2. n < k /\ n <= m
      BY <1>1, <2>1
    <2>3. \A j \in 1..n : j \in 1..m /\ rest[j] = items[j]
      <3> SUFFICES ASSUME NEW j \in 1..n PROVE j \in 1..m /\ rest[j] = items[j]
        OBVIOUS
      <3>1. j \in 1..m /\ j < k
        BY <1>1, <2>2
      <3> QED BY <1>1, <3>1
    <2>4. ASSUME NEW j \in 1..m, j \notin 1..n PROVE j \notin StoredAt(rest)
      <3>1. n < j
        BY <2>4
      <3>2. CASE j < k
        <4>1. rest[j] = items[j] /\ j \in DOMAIN items
          BY <1>1, <1>2, <3>2
        <4> QED BY <1>4, <2>4, <4>1 DEF StoredAt
      <3>3. CASE ~(j < k)
        <4>1. rest[j] = items[j + 1] /\ j + 1 \in DOMAIN items /\ j + 1 \notin 1..n
          BY <1>1, <1>2, <3>1, <3>3
        <4> QED BY <1>4, <4>1 DEF StoredAt
      <3> QED BY <3>2, <3>3
    <2>5. StoredAt(rest) = 1..n
      <3>1. StoredAt(rest) \subseteq 1..m /\ 1..n \subseteq 1..m
        BY <1>1, <2>3 DEF StoredAt
      <3>2. \A j \in 1..n : j \in StoredAt(rest)
        BY <1>1, <1>4, <2>3 DEF StoredAt
      <3> QED BY <2>4, <3>1, <3>2
    <2> QED BY <1>4, <2>3, <2>5
  <1> QED BY <1>1, <1>3, <1>4 DEF rest

-----------------------------------------------------------------------------
(* The pane.                                                               *)

\* What a step does to the pane and to the choice.
PaneMoves ==
  \/ \E s \in Session : Empties(s) /\ (Generating => s = None) /\ UNCHANGED <<log, stream>>
  \/ UNCHANGED <<active, pane, hasOlder, late, log>> /\ (UNCHANGED stream \/ Open)
  \/ \E i \in Slots : SelectedArrives(i) /\ ~Superseded(selects[i].session)
  \/ \E i \in Slots : SelectedMissing(i) \/ OlderArrives(i)
  \/ Submit \/ \E k \in DOMAIN pane : RetryQuestion(k)
  \/ Opened \/ Answer \/ Done \/ Failed

LEMMA PaneMove ==
  ASSUME IInv, [Next]_vars
  PROVE  PaneMoves
  <1> USE DEF server, page, requests
  <1>0. TypeOK
    BY DEF IInv
  <1>1. None \in Session /\ Sessions \subseteq Session /\ listing.chats \subseteq Sessions
    BY <1>0 DEF Session, TypeOK, Listing
  <1>2. CASE UNCHANGED <<active, pane, hasOlder, late, log, stream>>
    BY <1>2 DEF PaneMoves
  <1>3. ASSUME NEW i \in Slots, EndSelect(i) PROVE UNCHANGED <<log, stream>>
    BY <1>3 DEF EndSelect
  <1>4. ASSUME NEW i \in Slots, NEW s \in Sessions, NEW outer, BeginSelect(i, s, outer),
               ~Generating, UNCHANGED <<log, stream>>
        PROVE  PaneMoves
    BY <1>1, <1>4 DEF BeginSelect, PaneMoves
  <1>5. CASE \E i \in Slots, s \in Sessions : Select(i, s)
    BY <1>4, <1>5 DEF Select
  <1>6. CASE \E i \in Slots : ReadSelected(i) \/ SelectLost(i)
    BY <1>2, <1>6 DEF ReadSelected, SelectLost
  <1>7. CASE \E i \in Slots : SelectedArrives(i) \/ SelectedMissing(i) \/ SelectedFails(i)
    <2>1. PICK i \in Slots : SelectedArrives(i) \/ SelectedMissing(i) \/ SelectedFails(i)
      BY <1>7
    <2>2. CASE SelectedArrives(i) /\ Superseded(selects[i].session)
      <3>1. EndSelect(i) /\ UNCHANGED <<chats, active, pane, hasOlder, scope, late, awaited>>
        BY <2>2 DEF SelectedArrives
      <3> QED BY <1>2, <1>3, <3>1
    <2>3. CASE SelectedFails(i)
      BY <1>2, <1>3, <2>3 DEF SelectedFails
    <2>4. CASE SelectedArrives(i) /\ ~Superseded(selects[i].session)
      BY <2>4 DEF PaneMoves
    <2>5. CASE SelectedMissing(i)
      BY <2>5 DEF PaneMoves
    <2> QED BY <2>1, <2>2, <2>3, <2>4, <2>5
  <1>8. CASE StartNew \/ MissDocument
    BY <1>1, <1>8 DEF StartNew, MissDocument, PaneMoves
  <1>9. CASE \E i \in Slots : ReadOlder(i) \/ OlderFails(i) \/ LoadOlder(i)
    BY <1>2, <1>9 DEF ReadOlder, OlderFails, LoadOlder
  <1>10. CASE \E i \in Slots : ChatsArrive(i)
    <2>1. PICK i \in Slots : ChatsArrive(i)
      BY <1>10
    <2> DEFINE target == IF active \in listing.chats THEN active
                         ELSE CHOOSE s \in listing.chats : TRUE
    <2>2. UNCHANGED <<log, stream>>
      BY <2>1 DEF ChatsArrive
    <2>3. CASE ~Generating /\ listing.chats # {}
      <3>1. target \in Sessions
        BY <1>1, <2>3
      <3>2. BeginSelect(i, target, "list")
        BY <2>1, <2>3 DEF ChatsArrive
      <3> HIDE DEF target
      <3> QED BY <1>4, <2>2, <2>3, <3>1, <3>2
    <2>4. CASE Generating
      BY <1>2, <2>1, <2>2, <2>4 DEF ChatsArrive
    <2>5. CASE ~Generating /\ listing.chats = {}
      BY <1>1, <2>1, <2>2, <2>5 DEF ChatsArrive, PaneMoves
    <2> QED BY <2>3, <2>4, <2>5
  <1>11. CASE \E i \in Slots : DeletionArrives(i)
    <2>1. PICK i \in Slots : DeletionArrives(i)
      BY <1>11
    <2> DEFINE left == chats \ {deletion.session}
               target == CHOOSE s \in left : TRUE
    <2>2. UNCHANGED <<log, stream>>
      BY <2>1 DEF DeletionArrives
    <2>3. CASE ~(left = {} \/ Generating)
      <3>1. target \in Sessions
        BY <1>0, <2>3 DEF TypeOK
      <3>2. BeginSelect(i, target, "delete")
        BY <2>1, <2>3 DEF DeletionArrives
      <3> HIDE DEF target, left
      <3> QED BY <1>4, <2>2, <2>3, <3>1, <3>2
    <2>4. CASE left = {} \/ Generating
      BY <1>1, <2>1, <2>2, <2>4 DEF DeletionArrives, PaneMoves
    <2> QED BY <2>3, <2>4
  <1>12. CASE ReadChats \/ ChatsFail \/ DeletionFails \/ RemoveChat
    BY <1>2, <1>12 DEF ReadChats, ChatsFail, DeletionFails, RemoveChat
  <1>13. CASE Open
    BY <1>13 DEF Open, PaneMoves
  <1>14. CASE Opened \/ Answer \/ Done \/ Failed \/ Submit \/ \E k \in DOMAIN pane : RetryQuestion(k)
    BY <1>14 DEF PaneMoves
  <1>15. CASE ChooseScope \/ ListChats \/ DeleteDocument \/ \E s \in Sessions : DeleteChat(s)
    BY <1>2, <1>15 DEF ChooseScope, ListChats, DeleteDocument, DeleteChat
  <1>16. CASE ForgetDocument
    BY <1>1, <1>2, <1>16 DEF ForgetDocument, PaneMoves
  <1>17. CASE UNCHANGED vars
    BY <1>2, <1>17 DEF vars
  <1>18. CASE \E i \in Slots : OlderArrives(i)
    BY <1>18 DEF PaneMoves
  <1> QED BY <1>5, <1>6, <1>7, <1>8, <1>9, <1>10, <1>11, <1>12, <1>13, <1>14, <1>15, <1>16,
             <1>17, <1>18 DEF Next, Loading, Network, Users

LEMMA JoinItems ==
  ASSUME NEW front \in Seq(Item), NEW back \in Seq(Item), NEW lg,
         ItemsOk(lg, front), ItemsOk(lg, back)
  PROVE  ItemsOk(lg, front \o back)
  <1>1. Len(front) \in Nat /\ Len(back) \in Nat
    OBVIOUS
  <1>2. ASSUME NEW k \in 1..(Len(front) + Len(back))
        PROVE  IF (front \o back)[k].kind = "stored" THEN (front \o back)[k].id \in DOMAIN lg
               ELSE (front \o back)[k].id = 0
    <2>1. CASE k <= Len(front)
      <3>1. k \in DOMAIN front /\ (front \o back)[k] = front[k]
        BY <1>1, <2>1
      <3> QED BY <3>1 DEF ItemsOk
    <2>2. CASE ~(k <= Len(front))
      <3>1. k - Len(front) \in DOMAIN back /\ (front \o back)[k] = back[k - Len(front)]
        BY <1>1, <2>2
      <3> QED BY <3>1 DEF ItemsOk
    <2> QED BY <2>1, <2>2
  <1>3. DOMAIN (front \o back) = 1..(Len(front) + Len(back))
    OBVIOUS
  <1> QED BY <1>2, <1>3 DEF ItemsOk

\* What the invariant says of the messages that a question starts from.
LEMMA Questions ==
  ASSUME IInv, Submit \/ \E k \in DOMAIN pane : RetryQuestion(k)
  PROVE  /\ UNCHANGED <<log, active, hasOlder, late>> /\ ~Generating
         /\ stream'.original = active /\ stream'.session = active /\ stream'.step = "asked"
         /\ ItemsOk(log, stream'.messages) /\ ItemsOk(log, pane')
         /\ \A n \in Nat : StoredAt(pane) = 1..n =>
              /\ StoredAt(pane') = StoredAt(pane)
              /\ \A j \in StoredAt(pane) : pane'[j].id = pane[j].id
  <1>1. pane \in Seq(Item) /\ ItemsOk(log, pane)
    BY DEF IInv, TypeOK
  <1>2. ASSUME NEW messages \in Seq(Item), Ask(messages), ItemsOk(log, messages), ~Generating,
               \A n \in Nat : StoredAt(pane) = 1..n =>
                 /\ StoredAt(messages) = StoredAt(pane)
                 /\ \A j \in StoredAt(pane) : messages[j].id = pane[j].id
        PROVE  /\ UNCHANGED <<log, active, hasOlder, late>> /\ ~Generating
               /\ stream'.original = active /\ stream'.session = active /\ stream'.step = "asked"
               /\ ItemsOk(log, stream'.messages) /\ ItemsOk(log, pane')
               /\ \A n \in Nat : StoredAt(pane) = 1..n =>
                    /\ StoredAt(pane') = StoredAt(pane)
                    /\ \A j \in StoredAt(pane) : pane'[j].id = pane[j].id
    <2>1. /\ UNCHANGED <<log, active, hasOlder, late>> /\ stream'.messages = messages
          /\ stream'.original = active /\ stream'.session = active /\ stream'.step = "asked"
          /\ pane' = Append(messages, Own("streaming"))
      BY <1>2 DEF Ask, server
    <2>2. /\ ItemsOk(log, Append(messages, Own("streaming")))
          /\ StoredAt(Append(messages, Own("streaming"))) = StoredAt(messages)
          /\ \A k \in StoredAt(messages) :
               Append(messages, Own("streaming"))[k].id = messages[k].id
      BY <1>2, AppendOwn
    <2> QED BY <1>2, <2>1, <2>2
  <1>3. CASE Submit
    <2>1. /\ Append(pane, Own("local")) \in Seq(Item) /\ ItemsOk(log, Append(pane, Own("local")))
          /\ StoredAt(Append(pane, Own("local"))) = StoredAt(pane)
          /\ \A k \in StoredAt(pane) : Append(pane, Own("local"))[k].id = pane[k].id
      BY <1>1, AppendOwn
    <2>2. Ask(Append(pane, Own("local"))) /\ ~Generating
      BY <1>3 DEF Submit
    <2> HIDE DEF IInv
    <2> QED BY <1>2, <2>1, <2>2
  <1>4. CASE \E k \in DOMAIN pane : RetryQuestion(k)
    <2>1. PICK k \in DOMAIN pane : RetryQuestion(k)
      BY <1>4
    <2>2. pane[k].kind = "error" /\ Ask(RemoveAt(pane, k)) /\ ~Generating
      BY <2>1 DEF RetryQuestion
    <2>3. /\ RemoveAt(pane, k) \in Seq(Item) /\ ItemsOk(log, RemoveAt(pane, k))
          /\ \A n \in Nat : StoredAt(pane) = 1..n =>
               /\ StoredAt(RemoveAt(pane, k)) = StoredAt(pane)
               /\ \A j \in StoredAt(pane) : RemoveAt(pane, k)[j].id = pane[j].id
      BY <1>1, <2>2, RemoveOwn
    <2> QED BY <1>2, <2>2, <2>3
  <1> QED BY <1>3, <1>4

\* Every stored message on the page is one of the log.
LEMMA StepItems ==
  ASSUME IInv, [Next]_vars
  PROVE  ItemsOk(log, pane)' /\ ItemsOk(log, stream.messages)'
  <1>0. /\ TypeOK /\ ItemsOk(log, pane) /\ ItemsOk(log, stream.messages)
        /\ Len(log) <= Len(log') /\ TypeOK'
    BY ServerMoves, StepTypes DEF IInv
  <1>1. /\ log \in Seq(Sessions) /\ log' \in Seq(Sessions) /\ pane \in Seq(Item)
        /\ stream \in Stream /\ stream.messages \in Seq(Item)
    BY <1>0 DEF TypeOK, Stream
  <1>2. DOMAIN log \subseteq DOMAIN log'
    BY <1>0, <1>1
  <1>3. \A items : ItemsOk(log, items) => ItemsOk(log', items)
    BY <1>2 DEF ItemsOk
  <1>4. ItemsOk(log', << >>)
    BY DEF ItemsOk
  <1> DEFINE Kept == stream'.messages = stream.messages
  <1>5. CASE \E s \in Session : Empties(s) /\ UNCHANGED stream
    BY <1>0, <1>3, <1>4, <1>5 DEF Empties
  <1>6. CASE UNCHANGED pane /\ (UNCHANGED stream \/ Open)
    <2>1. Kept
      BY <1>1, <1>6 DEF Open, Stream
    <2> QED BY <1>0, <1>3, <1>6, <2>1
  <1>7. CASE \E i \in Slots : SelectedArrives(i) /\ ~Superseded(selects[i].session)
    <2>1. PICK i \in Slots : SelectedArrives(i) /\ ~Superseded(selects[i].session)
      BY <1>7
    <2>2. /\ selects[i].step = "read" /\ pane' = Page(selects[i].ids)
          /\ UNCHANGED <<log, stream>>
      BY <2>1 DEF SelectedArrives, EndSelect, server
    <2>3. PICK end \in 1..Top :
            Consecutive(log, selects[i].ids, selects[i].session, end, selects[i].more)
      BY <2>2 DEF IInv, SelectOk
    <2>4. selects[i].ids \in Seq(Nat)
      BY <1>0 DEF TypeOK, SelectState
    <2>5. ItemsOk(log, Page(selects[i].ids))
      BY <1>1, <2>3, <2>4, PageHistory DEF Top
    <2> QED BY <1>0, <2>2, <2>5
  <1>8. CASE \E i \in Slots : SelectedMissing(i)
    BY <1>0, <1>3, <1>8 DEF SelectedMissing, EndSelect
  <1>9. CASE \E i \in Slots : OlderArrives(i)
    <2>1. PICK i \in Slots : OlderArrives(i)
      BY <1>9
    <2>2. /\ olders[i].step = "read" /\ pane' = Page(olders[i].ids) \o pane
          /\ UNCHANGED <<log, stream>>
      BY <2>1 DEF OlderArrives, server
    <2>3. /\ Consecutive(log, olders[i].ids, olders[i].session, olders[i].before, olders[i].more)
          /\ olders[i].before \in 1..(Len(log) + 1)
      BY <1>1, <2>2 DEF IInv, OlderOk
    <2>4. olders[i].ids \in Seq(Nat)
      BY <1>0 DEF TypeOK, OlderState
    <2>5. ItemsOk(log, Page(olders[i].ids)) /\ Page(olders[i].ids) \in Seq(Item)
      BY <1>1, <2>3, <2>4, PageHistory, PageItems
    <2>6. ItemsOk(log, Page(olders[i].ids) \o pane)
      BY <1>0, <1>1, <2>5, JoinItems
    <2> QED BY <1>0, <2>2, <2>6
  <1>10. CASE Submit \/ \E k \in DOMAIN pane : RetryQuestion(k)
    BY <1>3, <1>10, Questions
  <1>11. CASE Opened \/ Answer
    <2>1. Kept /\ UNCHANGED pane
      BY <1>1, <1>11 DEF Opened, Answer, Stream, page
    <2> QED BY <1>0, <1>3, <2>1
  <1>12. CASE Done
    <2>1. stream'.messages = << >> /\ UNCHANGED log
      BY <1>12, NoRequests DEF Done, server
    <2>2. /\ DOMAIN pane' = DOMAIN pane
          /\ \A k \in DOMAIN pane : pane'[k] = Own("local") \/ pane'[k] = pane[k]
      BY <1>12 DEF Done
    <2>3. Own("local").kind # "stored" /\ Own("local").id = 0
      BY DEF Own
    <2>4. ItemsOk(log', pane')
      BY <1>0, <2>1, <2>2, <2>3 DEF ItemsOk
    <2> QED BY <1>4, <2>1, <2>4
  <1>13. CASE Failed
    <2>1. stream'.messages = << >> /\ pane' = Append(stream.messages, Own("error"))
      BY <1>13, NoRequests DEF Failed
    <2>2. ItemsOk(log, Append(stream.messages, Own("error")))
      BY <1>0, <1>1, AppendOwn
    <2> QED BY <1>3, <1>4, <2>1, <2>2
  <1> QED BY <1>5, <1>6, <1>7, <1>8, <1>9, <1>10, <1>11, <1>12, <1>13, PaneMove DEF PaneMoves

\* The pane stays one history of the active conversation.
LEMMA StepPane ==
  ASSUME IInv, [Next]_vars
  PROVE  PaneOk'
  <1>0. /\ TypeOK /\ TypeOK' /\ ItemsOk(log, pane) /\ PaneOk /\ StreamOk
        /\ Len(log) <= Len(log') /\ \A i \in 1..Len(log) : log'[i] = log[i]
    BY ServerMoves, StepTypes DEF IInv
  <1>1. /\ log \in Seq(Sessions) /\ log' \in Seq(Sessions) /\ pane \in Seq(Item) /\ pane' \in Seq(Item)
        /\ stream \in Stream /\ stream.messages \in Seq(Item) /\ hasOlder \in BOOLEAN
        /\ None \notin Sessions /\ late \in BOOLEAN
    BY <1>0, ConversationAssumption DEF TypeOK, Stream
  \* The same stored messages at the same places, of the same conversation.
  <1>2. ASSUME StoredAt(pane') = StoredAt(pane), \A k \in StoredAt(pane) : pane'[k].id = pane[k].id,
               UNCHANGED <<log, hasOlder>>, ~late' => ~late,
               ~late /\ StoredAt(pane) # {} => active' = active
        PROVE  PaneOk'
    <2> SUFFICES ASSUME ~late', StoredAt(pane') # {}
                 PROVE  active' # None /\ History(log', pane', active', hasOlder')
      BY DEF PaneOk
    <2>1. active # None /\ History(log, pane, active, hasOlder) /\ active' = active
      BY <1>0, <1>2 DEF PaneOk
    <2>2. History(log, pane', active, hasOlder)
      BY <1>1, <1>2, <2>1, SameHistory
    <2> QED BY <1>2, <2>1, <2>2
  <1>3. ASSUME StoredAt(pane') = {} PROVE PaneOk'
    BY <1>3 DEF PaneOk
  <1>4. CASE \E s \in Session : Empties(s)
    <2>1. pane' = << >>
      BY <1>4 DEF Empties
    <2>2. StoredAt(pane') = {}
      BY <2>1 DEF StoredAt
    <2> QED BY <1>3, <2>2
  <1>5. CASE UNCHANGED <<active, pane, hasOlder, late, log>>
    BY <1>2, <1>5
  <1>6. CASE \E i \in Slots : SelectedArrives(i) /\ ~Superseded(selects[i].session)
    <2>1. PICK i \in Slots : SelectedArrives(i) /\ ~Superseded(selects[i].session)
      BY <1>6
    <2>2. /\ selects[i].step = "read" /\ pane' = Page(selects[i].ids)
          /\ hasOlder' = selects[i].more /\ active' = active /\ active = selects[i].session
          /\ UNCHANGED log
      BY <2>1 DEF SelectedArrives, EndSelect, Superseded, server
    <2>3. PICK end \in 1..Top :
            Consecutive(log, selects[i].ids, selects[i].session, end, selects[i].more)
      BY <2>2 DEF IInv, SelectOk
    <2>4. selects[i].ids \in Seq(Nat) /\ selects[i].session \in Sessions
      BY <1>0, <2>2 DEF TypeOK, SelectState, IInv, SelectOk
    <2>5. StoredAt(Page(selects[i].ids)) # {} =>
            History(log, Page(selects[i].ids), selects[i].session, selects[i].more)
      BY <1>1, <2>3, <2>4, PageHistory DEF Top
    <2> QED BY <1>1, <2>2, <2>4, <2>5 DEF PaneOk
  <1>7. CASE \E i \in Slots : SelectedMissing(i)
    <2>1. /\ late' = (late \/ StoredAt(pane) # {}) /\ UNCHANGED <<pane, hasOlder>>
      BY <1>7 DEF SelectedMissing
    <2> QED BY <2>1 DEF PaneOk
  <1>8. CASE \E i \in Slots : OlderArrives(i)
    <2>1. PICK i \in Slots : OlderArrives(i)
      BY <1>8
    <2> DEFINE asked == olders[i]
    <2>2. /\ asked.step = "read" /\ pane' = Page(asked.ids) \o pane /\ hasOlder' = asked.more
          /\ late' = (late \/ active # asked.session \/ pane = << >> \/ pane[1].id # asked.before)
          /\ UNCHANGED <<log, active>>
      BY <2>1 DEF OlderArrives, server
    <2>3. /\ Consecutive(log, asked.ids, asked.session, asked.before, asked.more)
          /\ asked.before \in DOMAIN log
      BY <2>2 DEF IInv, OlderOk
    <2>4. asked.ids \in Seq(Nat) /\ asked.more \in BOOLEAN
      BY <1>0 DEF TypeOK, OlderState
    <2> HIDE DEF asked
    <2> SUFFICES ASSUME ~late' PROVE active' # None /\ History(log', pane', active', hasOlder')
      BY DEF PaneOk
    <2>5. ~late /\ active = asked.session /\ pane # << >> /\ pane[1].id = asked.before
      BY <2>2
    <2>6. 1 \in StoredAt(pane)
      <3>1. 1 \in DOMAIN pane
        BY <1>1, <2>5
      <3>2. pane[1].id # 0
        BY <1>1, <2>3, <2>5
      <3> QED BY <1>0, <3>1, <3>2 DEF StoredAt, ItemsOk
    <2>7. active # None /\ History(log, pane, active, hasOlder)
      BY <1>0, <2>5, <2>6 DEF PaneOk
    <2>8. Consecutive(log, asked.ids, active, pane[1].id, asked.more) /\ pane[1].id \in Nat
      BY <1>1, <2>3, <2>5
    <2>9. History(log, Page(asked.ids) \o pane, active, asked.more)
      BY <1>0, <1>1, <2>4, <2>7, <2>8, JoinHistory
    <2> QED BY <2>2, <2>7, <2>9
  <1>9. CASE Submit \/ \E k \in DOMAIN pane : RetryQuestion(k)
    <2>1. /\ UNCHANGED <<log, active, hasOlder, late>>
          /\ \A n \in Nat : StoredAt(pane) = 1..n =>
               /\ StoredAt(pane') = StoredAt(pane)
               /\ \A j \in StoredAt(pane) : pane'[j].id = pane[j].id
      BY <1>9, Questions
    <2>2. CASE StoredAt(pane) = {}
      <3>1. StoredAt(pane) = 1..0
        BY <2>2
      <3> QED BY <1>3, <2>1, <2>2, <3>1
    <2>3. CASE ~late /\ StoredAt(pane) # {}
      <3>1. PICK n \in DOMAIN pane : StoredAt(pane) = 1..n
        BY <1>0, <2>3 DEF PaneOk, History
      <3>2. n \in Nat
        BY <1>1
      <3> QED BY <1>2, <2>1, <3>1, <3>2
    <2>4. CASE late
      BY <2>1, <2>4 DEF PaneOk
    <2> QED BY <2>2, <2>3, <2>4
  <1>10. CASE Opened
    <2>1. UNCHANGED <<log, pane, hasOlder, late>> /\ active' = stream.session /\ Generating
      BY <1>10 DEF Opened, server, Generating
    <2>2. ~late /\ StoredAt(pane) # {} => active' = active
      BY <1>0, <2>1 DEF StreamOk, PaneOk
    <2> QED BY <1>2, <2>1, <2>2
  <1>11. CASE Answer
    <2>1. UNCHANGED <<active, pane, hasOlder, late>>
      BY <1>11 DEF Answer, page
    <2> SUFFICES ASSUME ~late, StoredAt(pane) # {}
                 PROVE  active # None /\ History(log', pane, active, hasOlder)
      BY <2>1 DEF PaneOk
    <2>2. active # None /\ History(log, pane, active, hasOlder)
      BY <1>0 DEF PaneOk
    <2> QED BY <1>0, <1>1, <2>2, HistoryGrows
  <1>12. CASE Done
    <2>1. UNCHANGED <<log, hasOlder, late>> /\ active' = stream.session /\ Generating
      BY <1>12 DEF Done, server, Generating
    <2>2. /\ DOMAIN pane' = DOMAIN pane
          /\ \A k \in DOMAIN pane : \/ pane[k].kind = "streaming" /\ pane'[k] = Own("local")
                                    \/ pane'[k] = pane[k]
      BY <1>12 DEF Done
    <2>3. Own("local").kind # "stored"
      BY DEF Own
    <2>4. StoredAt(pane') = StoredAt(pane) /\ \A k \in StoredAt(pane) : pane'[k].id = pane[k].id
      BY <2>2, <2>3 DEF StoredAt
    <2>5. ~late /\ StoredAt(pane) # {} => active' = active
      BY <1>0, <2>1 DEF StreamOk, PaneOk
    <2> QED BY <1>2, <2>1, <2>4, <2>5
  <1>13. CASE Failed
    <2>1. /\ pane' = Append(stream.messages, Own("error"))
          /\ late' = (late \/ StoredPart(pane) # StoredPart(stream.messages))
          /\ UNCHANGED <<log, hasOlder>> /\ Generating
          /\ active' = IF stream.original = None /\ active # None THEN None ELSE active
      BY <1>13 DEF Failed, server, Generating
    <2>2. /\ StoredAt(pane') = StoredAt(stream.messages)
          /\ \A k \in StoredAt(stream.messages) : pane'[k].id = stream.messages[k].id
      BY <1>1, <2>1, AppendOwn DEF IInv
    <2>3. CASE StoredPart(pane) = StoredPart(stream.messages)
      <3>1. /\ StoredAt(stream.messages) = StoredAt(pane)
            /\ \A k \in StoredAt(pane) : stream.messages[k].id = pane[k].id
        BY <2>3, StoredPartSays
      <3>2. ~late /\ StoredAt(pane) # {} => active' = active
        BY <1>0, <2>1 DEF StreamOk
      <3> QED BY <1>2, <2>1, <2>2, <3>1, <3>2
    <2>4. CASE StoredPart(pane) # StoredPart(stream.messages)
      BY <2>1, <2>4 DEF PaneOk
    <2> QED BY <2>3, <2>4
  <1> QED BY <1>4, <1>5, <1>6, <1>7, <1>8, <1>9, <1>10, <1>11, <1>12, <1>13, PaneMove
          DEF PaneMoves

\* While an answer is generated the page stays in its conversation or in none.
LEMMA StepStream ==
  ASSUME IInv, [Next]_vars
  PROVE  StreamOk'
  <1>0. TypeOK /\ StreamOk /\ PaneOk /\ Referenced /\ \A i \in Slots : SelectOk(i)
    BY DEF IInv
  <1>1. stream \in Stream /\ None \notin Sessions /\ pane \in Seq(Item)
    BY <1>0, ConversationAssumption DEF TypeOK
  <1>2. ASSUME stream' = NoStream PROVE StreamOk'
    BY <1>2, NoRequests DEF StreamOk, Generating
  \* A stream that goes on, or opens, or is answered.
  <1>3. ASSUME Generating, stream'.original = stream.original,
               stream'.step # "asked" \/ stream' = stream,
               stream.original # None => stream'.session = stream.session,
               active' \in {None, stream'.session},
               stream'.step \in {"opened", "streaming", "done"} => stream'.session \in Sessions,
               stream.original = None =>
                 \A i \in Slots : selects[i].step # "none" => selects[i].session # stream'.session,
               stream.original = None /\ ~late' => StoredAt(pane') = {}
        PROVE  StreamOk'
    <2>1. ASSUME stream.original = None, NEW i \in Slots, selects'[i].step # "none"
          PROVE  selects'[i].session # stream'.session
      <3>1. \/ selects'[i] = selects[i]
            \/ selects[i].step = "asked" /\ selects'[i].session = selects[i].session
        BY <1>3, <2>1, SelectsMove DEF SelectMoves
      <3> QED BY <1>3, <2>1, <3>1
    <2>2. stream'.original # None => stream'.session = stream'.original
      BY <1>0, <1>3 DEF StreamOk
    <2>3. stream'.step = "asked" => stream'.session = stream'.original
      BY <1>0, <1>3 DEF StreamOk
    <2> QED BY <1>3, <2>1, <2>2, <2>3 DEF StreamOk
  \* The stream is left alone.
  <1>4. ASSUME UNCHANGED stream, Generating => active' \in {None, active},
               Generating /\ stream.original = None /\ ~late' => StoredAt(pane') = {}
        PROVE  StreamOk'
    <2>1. CASE Generating
      BY <1>0, <1>3, <1>4, <2>1 DEF StreamOk
    <2>2. CASE ~Generating
      BY <1>0, <1>4, <2>2 DEF StreamOk, Generating
    <2> QED BY <2>1, <2>2
  <1>5. CASE \E s \in Session : Empties(s) /\ (Generating => s = None) /\ UNCHANGED <<log, stream>>
    <2>1. pane' = << >> /\ UNCHANGED stream
      BY <1>5 DEF Empties
    <2>2. Generating => active' = None
      BY <1>5 DEF Empties
    <2>3. StoredAt(pane') = {}
      BY <2>1 DEF StoredAt
    <2> QED BY <1>4, <2>1, <2>2, <2>3
  <1>6. CASE UNCHANGED <<active, pane, hasOlder, late, log, stream>>
    BY <1>0, <1>4, <1>6 DEF StreamOk
  <1>7. CASE \E i \in Slots : SelectedArrives(i) /\ ~Superseded(selects[i].session)
    <2>1. PICK i \in Slots : SelectedArrives(i) /\ ~Superseded(selects[i].session)
      BY <1>7
    <2>2. /\ selects[i].step = "read" /\ active' = active /\ active = selects[i].session
          /\ UNCHANGED stream
      BY <2>1 DEF SelectedArrives, EndSelect, Superseded
    <2>3. selects[i].session \in Sessions
      BY <1>0, <2>2 DEF SelectOk
    <2>4. ~(Generating /\ stream.original = None)
      BY <1>0, <1>1, <2>2, <2>3 DEF StreamOk
    <2> QED BY <1>4, <2>2, <2>4
  <1>8. CASE \E i \in Slots : SelectedMissing(i)
    <2>1. /\ late' = (late \/ StoredAt(pane) # {}) /\ UNCHANGED <<pane, stream>> /\ active' = None
      BY <1>8 DEF SelectedMissing, EndSelect
    <2> QED BY <1>4, <2>1
  <1>9. CASE \E i \in Slots : OlderArrives(i)
    <2>1. PICK i \in Slots : OlderArrives(i)
      BY <1>9
    <2>2. /\ olders[i].step = "read" /\ UNCHANGED <<active, stream>>
          /\ late' = (late \/ active # olders[i].session \/ pane = << >>
                           \/ pane[1].id # olders[i].before)
      BY <2>1 DEF OlderArrives
    <2>3. ASSUME ~late' PROVE ~late /\ StoredAt(pane) # {}
      <3>1. olders[i].before \in DOMAIN log /\ log \in Seq(Sessions)
        BY <2>2 DEF IInv, OlderOk, TypeOK
      <3>2. ~late /\ pane # << >> /\ pane[1].id = olders[i].before
        BY <2>2, <2>3
      <3>3. 1 \in DOMAIN pane
        BY <1>1, <3>2
      <3>4. pane[1].id # 0
        BY <3>1, <3>2
      <3>5. 1 \in StoredAt(pane)
        BY <3>3, <3>4 DEF IInv, ItemsOk, StoredAt
      <3> QED BY <3>2, <3>5
    <2>4. ~(Generating /\ stream.original = None /\ ~late')
      BY <1>0, <2>3 DEF StreamOk
    <2> QED BY <1>4, <2>2, <2>4
  <1>10. CASE Submit \/ \E k \in DOMAIN pane : RetryQuestion(k)
    <2>1. /\ UNCHANGED <<active, late>> /\ ~Generating
          /\ stream'.original = active /\ stream'.session = active /\ stream'.step = "asked"
          /\ \A n \in Nat : StoredAt(pane) = 1..n => StoredAt(pane') = StoredAt(pane)
      BY <1>10, Questions
    <2>2. ASSUME active = None, ~late PROVE StoredAt(pane') = {}
      <3>1. StoredAt(pane) = {}
        BY <1>0, <2>2 DEF PaneOk
      <3>2. StoredAt(pane) = 1..0
        BY <3>1
      <3> QED BY <2>1, <3>1, <3>2
    <2>3. ASSUME active = None, NEW i \in Slots, selects'[i].step # "none"
          PROVE  selects'[i].session # None
      <3>1. SelectOk(i)'
        BY StepRequests
      <3>2. selects'[i].session \in Sessions
        BY <2>3, <3>1 DEF SelectOk
      <3> QED BY <1>1, <3>2
    <2> QED BY <2>1, <2>2, <2>3 DEF StreamOk
  <1>11. CASE Open
    <2>1. /\ stream.step = "asked" /\ UNCHANGED <<active, late, pane>> /\ Generating
      BY <1>11 DEF Open, page, Generating
    <2>2. stream.original = None /\ ~late' => StoredAt(pane') = {}
      BY <1>0, <2>1 DEF StreamOk
    <2>3. active \in {None, stream.session} /\ stream.session = stream.original
      BY <1>0, <2>1 DEF StreamOk
    <2>4. CASE stream' = [stream EXCEPT !.step = "failed"]
      <3>1. /\ stream'.step = "failed" /\ stream'.original = stream.original
            /\ stream'.session = stream.session
        BY <1>1, <2>4 DEF Stream
      <3>2. stream.original = None =>
              \A i \in Slots : selects[i].step # "none" => selects[i].session # stream'.session
        BY <1>0, <2>1, <3>1 DEF StreamOk
      <3> QED BY <1>3, <2>1, <2>2, <2>3, <3>1, <3>2
    <2>5. CASE stream.original \in Live /\ stream' = [stream EXCEPT !.step = "opened"]
      <3>1. /\ stream'.step = "opened" /\ stream'.original = stream.original
            /\ stream'.session = stream.session
        BY <1>1, <2>5 DEF Stream
      <3>2. stream'.session \in Sessions /\ stream.original # None
        BY <1>1, <2>3, <2>5, <3>1 DEF Live
      <3> QED BY <1>3, <2>1, <2>3, <3>1, <3>2
    <2>6. CASE \E s \in Sessions :
                 /\ stream.original = None /\ status[s] = "unborn"
                 /\ stream' = [stream EXCEPT !.step = "opened", !.session = s]
      <3>1. PICK s \in Sessions :
              /\ stream.original = None /\ status[s] = "unborn"
              /\ stream' = [stream EXCEPT !.step = "opened", !.session = s]
        BY <2>6
      <3>2. /\ stream'.step = "opened" /\ stream'.original = stream.original
            /\ stream'.session = s
        BY <1>1, <3>1 DEF Stream
      <3>3. \A i \in Slots : selects[i].session # s
        BY <1>0, <1>1, <3>1 DEF Referenced, Known
      <3>4. active' = None
        BY <2>1, <2>3, <3>1
      <3> QED BY <1>3, <2>1, <2>2, <3>1, <3>2, <3>3, <3>4
    <2> QED BY <1>11, <2>4, <2>5, <2>6 DEF Open
  <1>12. CASE Opened \/ Answer
    <2>1. /\ stream.step \in {"opened", "streaming"} /\ Generating /\ UNCHANGED <<late, pane>>
          /\ active' \in {active, stream.session}
      BY <1>12 DEF Opened, Answer, page, Generating
    <2>2. /\ stream'.step \in {"streaming", "done", "failed"}
          /\ stream'.original = stream.original /\ stream'.session = stream.session
      BY <1>1, <1>12 DEF Opened, Answer, Stream
    <2>3. /\ stream.session \in Sessions /\ active' \in {None, stream.session}
      BY <1>0, <2>1 DEF StreamOk
    <2>4. stream.original = None =>
            /\ \A i \in Slots : selects[i].step # "none" => selects[i].session # stream.session
            /\ ~late' => StoredAt(pane') = {}
      BY <1>0, <2>1 DEF StreamOk
    <2> QED BY <1>3, <2>1, <2>2, <2>3, <2>4
  <1>13. CASE Done \/ Failed
    BY <1>2, <1>13 DEF Done, Failed
  <1> QED BY <1>5, <1>6, <1>7, <1>8, <1>9, <1>10, <1>11, <1>12, <1>13, PaneMove DEF PaneMoves

-----------------------------------------------------------------------------
(* The theorems.                                                           *)

LEMMA HistoryIsOneHistory ==
  ASSUME log \in Seq(Sessions), NEW items \in Seq(Item), ItemsOk(log, items), NEW s, NEW more,
         History(log, items, s, more)
  PROVE  OneHistory(items, s, more)
  <1>1. PICK n \in DOMAIN items :
          /\ StoredAt(items) = 1..n
          /\ \A j, k \in 1..n : j < k => items[j].id < items[k].id
          /\ {items[k].id : k \in 1..n} = Between(log, s, items[1].id, items[n].id + 1)
          /\ more = (Between(log, s, 0, items[1].id) # {})
    BY DEF History
  <1>2. n \in Nat /\ n >= 1 /\ 1 \in 1..n /\ n \in 1..n
    OBVIOUS
  <1>3. items[1].id \in DOMAIN log /\ items[n].id \in DOMAIN log
    BY <1>1, <1>2 DEF StoredAt, ItemsOk
  <1>4. DOMAIN log \subseteq Nat
    OBVIOUS
  <1>5. \A b \in Nat, m \in Nat : m < b + 1 <=> m <= b
    OBVIOUS
  <1>6. \A a \in Nat, b \in Nat :
          Between(log, s, a, b + 1) = {m \in MessagesOf(s) : a <= m /\ m <= b}
    BY <1>4, <1>5 DEF Between, MessagesOf
  <1>7. \A m \in Nat : 0 <= m
    OBVIOUS
  <1>8. \A b \in Nat : Between(log, s, 0, b) = Before(s, b)
    BY <1>4, <1>7 DEF Between, Before, MessagesOf
  <1>9. /\ {items[k].id : k \in 1..n} = {m \in MessagesOf(s) : items[1].id <= m /\ m <= items[n].id}
        /\ more = (Before(s, items[1].id) # {})
    BY <1>1, <1>3, <1>4, <1>6, <1>8
  <1> QED BY <1>1, <1>9 DEF OneHistory

LEMMA InitInvariant ==
  ASSUME Init PROVE IInv
  <1>1. TypeOK
    BY InitTypes
  <1>2. pane = << >> /\ stream = NoStream /\ stream.messages = << >> /\ active = None
    BY NoRequests DEF Init
  <1>3. StoredAt(pane) = {}
    BY <1>2 DEF StoredAt
  <1>4. ItemsOk(log, pane) /\ ItemsOk(log, stream.messages)
    BY <1>2 DEF ItemsOk
  <1>5. /\ \A i \in Slots : selects[i] = NoSelect /\ olders[i] = NoOlder
        /\ chats = {} /\ listing.chats = {} /\ notice = NoNotice /\ deletion.session = None
    BY DEF Init
  <1>6. Referenced
    BY <1>2, <1>5, NoRequests DEF Referenced
  <1>7. \A i \in Slots : SelectOk(i) /\ OlderOk(i)
    BY <1>5, NoRequests DEF SelectOk, OlderOk
  <1>8. StreamOk
    BY <1>2, NoRequests DEF StreamOk, Generating
  <1> QED BY <1>1, <1>3, <1>4, <1>6, <1>7, <1>8 DEF IInv, PaneOk

LEMMA Invariant == Spec => []IInv
  <1>1. IInv /\ [Next]_vars => IInv'
    <2> SUFFICES ASSUME IInv, [Next]_vars PROVE IInv'
      OBVIOUS
    <2>1. \A j \in Slots : SelectOk(j)' /\ OlderOk(j)'
      BY StepRequests
    <2>2. ItemsOk(log, pane)' /\ ItemsOk(log, stream.messages)'
      BY StepItems
    <2> QED BY <2>1, <2>2, StepTypes, StepReferenced, StepPane, StepStream DEF IInv
  <1> QED BY <1>1, InitInvariant, PTL DEF Spec

\* Whatever requests, retries and answers overlap, every variable of the page and of the
\* server keeps its type.
THEOREM TypeCorrect == Spec => []TypeOK
  <1>1. IInv => TypeOK
    BY DEF IInv
  <1> QED BY <1>1, Invariant, PTL

\* The page shows consecutive messages of the active conversation, in order and each once,
\* and offers older ones exactly when there are any, whatever loads, deletions, answers
\* and lost documents overlap, unless one of the three unguarded continuations of
\* app-controller.js has written into a pane it was not asked for.
THEOREM PaneShowsOneHistory == Spec => []PaneIsOneHistory
  <1>1. IInv => PaneIsOneHistory
    BY HistoryIsOneHistory DEF IInv, PaneOk, PaneIsOneHistory, TypeOK
  <1> QED BY <1>1, Invariant, PTL

=============================================================================
