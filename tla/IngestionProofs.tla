-------------------------- MODULE IngestionProofs ---------------------------
(***************************************************************************)
(* Ingestion, for every set of addresses and of texts, every size of a     *)
(* paragraph and every budget.  Ids are given out in order and a batch is  *)
(* numbered past every id there was, so what stands in the session is in   *)
(* the order of its ids, and a page newly read is in no draft yet.         *)
(***************************************************************************)
EXTENDS Ingestion, FiniteSetTheorems, SequenceTheorems, WellFoundedInduction, TLAPS

Row == [batch : Nat, place : Nat, text : Pages \cup Typed, kept : [head : Nat, tail : Nat]]

Increasing(s) == \A i, j \in 1 .. Len(s) : i < j => s[i] < s[j]

(* No batch has the number of a later one, and in a batch the ids follow   *)
(* the places.                                                             *)
Table ==
  /\ articles \in Seq(Row)
  /\ \A id \in 1 .. Len(articles) :
       /\ articles[id].kept = Kept(articles[id].text)
       /\ articles[id].batch <= id
  /\ \A id, jd \in 1 .. Len(articles) :
       id < jd /\ articles[id].batch = articles[jd].batch => articles[id].place < articles[jd].place

(* A batch is asked for once each, and only what was asked for is read.    *)
Reading ==
  /\ batch \in Seq(Urls) /\ Len(batch) <= MaxBatch /\ IsInjective(batch)
  /\ fetch \in [Urls -> {"none", "reading", "read", "failed"}]
  /\ page \in [Urls -> Pages \cup {<<>>}]
  /\ arrived \in Seq(Urls)
  /\ \A u \in Urls :
       /\ fetch[u] # "none" => \E i \in 1 .. Len(batch) : batch[i] = u
       /\ fetch[u] = "read" => page[u] \in Pages

Session ==
  /\ phase \in {"idle", "reading", "saved", "drafting", "drafted"}
  /\ selected \in Seq(1 .. Len(articles)) /\ Increasing(selected)
  /\ phase = "drafting" => selected # <<>>

(* Ids stand in a draft that is not empty, and are those of articles.      *)
Drafted ==
  /\ unseen \in Nat /\ unseen <= Len(drafts)
  /\ drafts \in Seq(Seq(1 .. Len(articles)))
  /\ \A d \in 1 .. Len(drafts) : drafts[d] # <<>>
  /\ phase = "drafted" => unseen < Len(drafts)

(* The rows of the batch just saved: the last ones, in no draft and not    *)
(* selected.                                                               *)
SavedAfter(n) ==
  /\ Len(articles) = n + Len(Read)
  /\ \A id \in 1 .. Len(articles) :
       IF id <= n THEN articles[id].batch <= n
       ELSE articles[id].batch = n + 1 /\ articles[id].text = page[Read[id - n]]
  /\ \A i \in 1 .. Len(selected) : selected[i] <= n
  /\ \A d \in 1 .. Len(drafts) : \A i \in 1 .. Len(drafts[d]) : drafts[d][i] <= n

Saved == phase = "saved" /\ Read # <<>> => \E n \in 0 .. Len(articles) : SavedAfter(n)

In(id, s) == \E i \in 1 .. Len(s) : s[i] = id
Made(id) == {d \in 1 .. Len(drafts) : In(id, drafts[d])}

(* What is selected is made once more at most, when its page is told.      *)
Counted ==
  \A id \in 1 .. Len(articles) :
    /\ Cardinality(Made(id)) <= 1 + unseen
    /\ In(id, selected) /\ phase # "drafted" => Cardinality(Made(id)) <= unseen

IInv == Table /\ Reading /\ Session /\ Drafted /\ Saved /\ Counted

-----------------------------------------------------------------------------
LEMMA Least ==
  ASSUME NEW S \in SUBSET Nat, S # {}
  PROVE  \E m \in S : \A k \in S : m <= k
<1>1. IsWellFoundedOn(OpToRel(<, Nat), Nat)
  BY NatLessThanWellFounded
<1>2. PICK m \in S : \A k \in S : ~ (<<k, m>> \in OpToRel(<, Nat))
  BY <1>1, WFMin
<1>3. \A k \in S : ~ (k < m)
  BY <1>2 DEF OpToRel
<1> QED
  BY <1>3

LEMMA UpTo ==
  ASSUME NEW n \in Nat, NEW S, 0 \in S,
         \A k \in 1 .. n : k - 1 \in S => k \in S
  PROVE  \A k \in 0 .. n : k \in S
<1> DEFINE Missing == {k \in 0 .. n : k \notin S}
<1> SUFFICES ASSUME Missing # {} PROVE FALSE
  OBVIOUS
<1>1. Missing \in SUBSET Nat
  OBVIOUS
<1>2. PICK m \in Missing : \A k \in Missing : m <= k
  <2> HIDE DEF Missing
  <2> QED
    BY <1>1, Least
<1>3. m \in 1 .. n /\ m - 1 \in 0 .. n
  BY <1>2
<1>4. m - 1 \in S
  BY <1>2, <1>3
<1> QED
  BY <1>2, <1>3, <1>4

-----------------------------------------------------------------------------
(* The numbers of a set, in order.                                         *)

Ranks(s, S) == s \in [1 .. Cardinality(S) -> S] /\ \A i, j \in DOMAIN s : i < j => s[i] < s[j]

LEMMA RanksExist ==
  ASSUME NEW n \in Nat, NEW S \in SUBSET (1 .. n)
  PROVE  \E s : Ranks(s, S)
<1> DEFINE T(k) == S \cap (1 .. k)
           Ranked == {k \in 0 .. n : \E s : Ranks(s, T(k))}
<1>1. \A k \in 0 .. n : IsFiniteSet(T(k)) /\ Cardinality(T(k)) \in Nat
  <2> SUFFICES ASSUME NEW k \in 0 .. n PROVE IsFiniteSet(T(k)) /\ Cardinality(T(k)) \in Nat
    OBVIOUS
  <2>1. IsFiniteSet(1 .. k) /\ T(k) \in SUBSET (1 .. k)
    BY FS_Interval
  <2>2. IsFiniteSet(T(k))
    <3> HIDE DEF T
    <3> QED
      BY <2>1, FS_Subset
  <2> QED
    BY <2>2, FS_CardinalityType
<1>2. 0 \in Ranked
  <2>1. T(0) = {}
    OBVIOUS
  <2>2. Cardinality(T(0)) = 0
    BY <2>1, FS_EmptySet
  <2>3. Ranks(<<>>, T(0))
    BY <2>2 DEF Ranks
  <2> QED
    BY <2>3
<1>3. ASSUME NEW k \in 1 .. n, k - 1 \in Ranked PROVE k \in Ranked
  <2>1. PICK s : Ranks(s, T(k - 1))
    BY <1>3
  <2>2. CASE k \notin S
    <3>1. T(k) = T(k - 1)
      BY <2>2
    <3> QED
      BY <2>1, <3>1
  <2>3. CASE k \in S
    <3> DEFINE c == Cardinality(T(k - 1))
               t == [i \in 1 .. c + 1 |-> IF i = c + 1 THEN k ELSE s[i]]
    <3>1. T(k) = T(k - 1) \cup {k} /\ k \notin T(k - 1) /\ \A x \in T(k - 1) : x < k
      BY <2>3
    <3>2. c \in Nat /\ IsFiniteSet(T(k - 1))
      BY <1>1
    <3> HIDE DEF T
    <3>3. Cardinality(T(k)) = c + 1
      BY <3>1, <3>2, FS_AddElement
    <3>4. s \in [1 .. c -> T(k - 1)] /\ \A i, j \in 1 .. c : i < j => s[i] < s[j]
      BY <2>1 DEF Ranks
    <3> HIDE DEF c
    <3>5. t \in [1 .. c + 1 -> T(k)]
      BY <3>1, <3>2, <3>4
    <3>6. ASSUME NEW i \in 1 .. c + 1, NEW j \in 1 .. c + 1, i < j PROVE t[i] < t[j]
      <4>1. i \in 1 .. c /\ t[i] = s[i] /\ s[i] \in T(k - 1)
        BY <3>2, <3>4, <3>6
      <4>2. CASE j = c + 1
        BY <3>1, <4>1, <4>2
      <4>3. CASE j # c + 1
        BY <3>2, <3>4, <3>6, <4>1, <4>3
      <4> QED
        BY <4>2, <4>3
    <3>7. Ranks(t, T(k))
      <4>1. DOMAIN t = 1 .. c + 1
        OBVIOUS
      <4> HIDE DEF t
      <4> QED
        BY <3>3, <3>5, <3>6, <4>1 DEF Ranks
    <3> QED
      BY <3>7
  <2> QED
    BY <2>2, <2>3
<1>4. \A k \in 0 .. n : k \in Ranked
  <2> HIDE DEF Ranked
  <2>1. \A k \in 1 .. n : k - 1 \in Ranked => k \in Ranked
    BY <1>3
  <2> QED
    BY <1>2, <2>1, UpTo, Zenon
<1>5. T(n) = S
  <2>1. \A x \in S : x \in 1 .. n
    OBVIOUS
  <2> QED
    BY <2>1, Zenon
<1>6. n \in 0 .. n
  OBVIOUS
<1> HIDE DEF T
<1> QED
  BY <1>4, <1>5, <1>6

LEMMA InOrderRanks ==
  ASSUME NEW n \in Nat, NEW S \in SUBSET (1 .. n)
  PROVE  /\ InOrder(S) \in Seq(S) /\ Increasing(InOrder(S))
         /\ \A x \in S : In(x, InOrder(S))
<1> DEFINE c == Cardinality(S)
           s == InOrder(S)
<1>1. IsFiniteSet(S) /\ c \in Nat
  <2>1. IsFiniteSet(1 .. n)
    BY FS_Interval
  <2>2. IsFiniteSet(S)
    BY <2>1, FS_Subset
  <2> QED
    BY <2>2, FS_CardinalityType
<1>2. Ranks(s, S)
  <2>1. s = CHOOSE t \in [1 .. c -> S] : \A i, j \in DOMAIN t : i < j => t[i] < t[j]
    BY DEF InOrder
  <2>2. \E t \in [1 .. c -> S] : \A i, j \in DOMAIN t : i < j => t[i] < t[j]
    BY RanksExist DEF Ranks
  <2> QED
    BY <2>1, <2>2 DEF Ranks
<1> HIDE DEF s
<1>3. s \in [1 .. c -> S] /\ \A i, j \in 1 .. c : i < j => s[i] < s[j]
  BY <1>2 DEF Ranks
<1>4. s \in Seq(S) /\ Len(s) = c
  BY <1>1, <1>3
<1>5. Increasing(s)
  BY <1>3, <1>4 DEF Increasing
<1>6. ASSUME NEW x \in S, ~ In(x, s) PROVE FALSE
  <2> DEFINE others == S \ {x}
  <2>1. IsFiniteSet(others) /\ Cardinality(others) = c - 1
    BY <1>1, FS_RemoveElement
  <2>2. s \in [1 .. c -> others]
    BY <1>3, <1>4, <1>6 DEF In
  <2>3. IsFiniteSet(1 .. c) /\ Cardinality(1 .. c) = c
    BY <1>1, FS_Interval
  <2>4. Cardinality(others) < Cardinality(1 .. c)
    BY <1>1, <2>1, <2>3
  <2> HIDE DEF others
  <2>5. \E i, j \in 1 .. c : i # j /\ s[i] = s[j]
    BY <2>1, <2>2, <2>3, <2>4, FS_PigeonHole
  <2>6. PICK i \in 1 .. c, j \in 1 .. c : i # j /\ s[i] = s[j]
    BY <2>5
  <2>7. s[i] \in Int /\ s[j] \in Int /\ (i < j \/ j < i)
    <3>1. s[i] \in S /\ s[j] \in S
      BY <1>3, <2>6
    <3>2. \A y \in S : y \in Int
      OBVIOUS
    <3>3. s[i] \in Int /\ s[j] \in Int
      BY <3>1, <3>2, Zenon
    <3>4. i < j \/ j < i
      BY <1>1, <2>6
    <3> QED
      BY <3>3, <3>4
  <2> QED
    BY <1>3, <2>6, <2>7
<1> QED
  BY <1>4, <1>5, <1>6 DEF s

-----------------------------------------------------------------------------
(* What a number of paragraphs costs.                                      *)

Adds(c, p, n) ==
  /\ c \in [0 .. n -> Nat] /\ c[0] = 0
  /\ \A i \in 1 .. n : c[i] = c[i - 1] + Size[p[i]] + 2

LEMMA TotalsExist ==
  ASSUME NEW p \in Seq(Paragraphs)
  PROVE  \E c : Adds(c, p, Len(p))
<1> DEFINE n == Len(p)
           Reached == {k \in 0 .. n : \E c : Adds(c, p, k)}
<1>1. n \in Nat /\ \A i \in 1 .. n : Size[p[i]] \in Nat
  BY TruncationAssumption
<1>2. 0 \in Reached
  <2> DEFINE c == [i \in 0 .. 0 |-> 0]
  <2>1. Adds(c, p, 0)
    BY DEF Adds
  <2> QED
    BY <1>1, <2>1
<1>3. ASSUME NEW k \in 1 .. n, k - 1 \in Reached PROVE k \in Reached
  <2>1. PICK c : Adds(c, p, k - 1)
    BY <1>3
  <2> DEFINE d == [i \in 0 .. k |-> IF i = k THEN c[k - 1] + Size[p[k]] + 2 ELSE c[i]]
  <2>2. c[k - 1] \in Nat
    BY <2>1 DEF Adds
  <2>3. d \in [0 .. k -> Nat]
    BY <1>1, <2>1, <2>2 DEF Adds
  <2>4. d[0] = 0
    BY <2>1 DEF Adds
  <2>5. ASSUME NEW i \in 1 .. k PROVE d[i] = d[i - 1] + Size[p[i]] + 2
    <3>1. i - 1 \in 0 .. k /\ i - 1 # k /\ i \in 0 .. k
      OBVIOUS
    <3>2. d[i - 1] = c[i - 1]
      BY <3>1
    <3>3. CASE i = k
      BY <3>1, <3>2, <3>3
    <3>4. CASE i # k
      BY <2>1, <3>1, <3>2, <3>4 DEF Adds
    <3> QED
      BY <3>3, <3>4
  <2> HIDE DEF d
  <2>6. Adds(d, p, k)
    BY <2>3, <2>4, <2>5 DEF Adds
  <2> QED
    BY <1>1, <2>6
<1>4. \A k \in 0 .. n : k \in Reached
  <2> HIDE DEF Reached, n
  <2>1. \A k \in 1 .. n : k - 1 \in Reached => k \in Reached
    BY <1>3
  <2> QED
    BY <1>1, <1>2, <2>1, UpTo, Zenon
<1>5. n \in 0 .. n
  BY <1>1
<1> QED
  BY <1>4, <1>5

LEMMA CostAdds ==
  ASSUME NEW p \in Seq(Paragraphs)
  PROVE  /\ Cost(p, 0) = 0
         /\ \A n \in 0 .. Len(p) : Cost(p, n) \in Nat
         /\ \A n \in 1 .. Len(p) : Cost(p, n) = Cost(p, n - 1) + Size[p[n]] + 2
<1> DEFINE IsTotals(c) == c = [i \in 0 .. Len(p) |->
                                 IF i = 0 THEN 0 ELSE c[i - 1] + Size[p[i]] + Separator]
           c == CHOOSE f : IsTotals(f)
<1>1. \A n : Cost(p, n) = c[n]
  BY DEF Cost
<1>2. \E f : IsTotals(f)
  <2>1. PICK f : Adds(f, p, Len(p))
    BY TotalsExist
  <2> DEFINE body == [i \in 0 .. Len(p) |->
                        IF i = 0 THEN 0 ELSE f[i - 1] + Size[p[i]] + Separator]
  <2>2. f = body
    <3>1. f = [i \in 0 .. Len(p) |-> f[i]]
      BY <2>1 DEF Adds
    <3>2. ASSUME NEW i \in 0 .. Len(p) PROVE f[i] = body[i]
      <4>1. i # 0 => i \in 1 .. Len(p)
        OBVIOUS
      <4> QED
        BY <2>1, <4>1 DEF Adds, Separator
    <3> QED
      BY <3>1, <3>2
  <2> QED
    BY <2>2
<1>3. IsTotals(c)
  <2> HIDE DEF IsTotals
  <2> QED
    BY <1>2
<1> HIDE DEF c
<1>4. c[0] = 0 /\ \A n \in 1 .. Len(p) : c[n] = c[n - 1] + Size[p[n]] + 2
  <2>1. c[0] = 0
    BY <1>3
  <2>2. ASSUME NEW n \in 1 .. Len(p) PROVE c[n] = c[n - 1] + Size[p[n]] + 2
    <3>1. n \in 0 .. Len(p) /\ n # 0
      OBVIOUS
    <3> QED
      BY <1>3, <3>1 DEF Separator
  <2> QED
    BY <2>1, <2>2
<1>5. \A n \in 0 .. Len(p) : c[n] \in Nat
  <2> DEFINE Good == {n \in 0 .. Len(p) : c[n] \in Nat}
  <2>1. 0 \in Good
    BY <1>4
  <2>2. \A n \in 1 .. Len(p) : n - 1 \in Good => n \in Good
    BY <1>4, TruncationAssumption
  <2> HIDE DEF Good
  <2>3. Len(p) \in Nat
    OBVIOUS
  <2>4. \A n \in 0 .. Len(p) : n \in Good
    BY <2>1, <2>2, <2>3, UpTo, Zenon
  <2> QED
    BY <2>4 DEF Good
<1> QED
  BY <1>1, <1>4, <1>5

(* More paragraphs cost more.                                              *)
LEMMA CostGrows ==
  ASSUME NEW p \in Seq(Paragraphs), NEW m \in 0 .. Len(p), NEW n \in m .. Len(p)
  PROVE  Cost(p, m) <= Cost(p, n)
<1> DEFINE Good == {k \in 0 .. Len(p) : m <= k => Cost(p, m) <= Cost(p, k)}
<1>1. \A k \in 0 .. Len(p) : Cost(p, k) \in Nat
  BY CostAdds
<1>2. 0 \in Good
  BY <1>1
<1>3. ASSUME NEW k \in 1 .. Len(p), k - 1 \in Good PROVE k \in Good
  <2>1. Cost(p, k) = Cost(p, k - 1) + Size[p[k]] + 2 /\ Size[p[k]] \in Nat
    BY CostAdds, TruncationAssumption
  <2>2. Cost(p, k) \in Nat /\ Cost(p, k - 1) \in Nat /\ Cost(p, m) \in Nat
    BY <1>1
  <2>3. m <= k - 1 => Cost(p, m) <= Cost(p, k - 1)
    BY <1>3
  <2>4. CASE m <= k - 1
    BY <2>1, <2>2, <2>3, <2>4
  <2>5. CASE ~ (m <= k - 1)
    <3>1. m = k \/ m > k
      BY <2>5
    <3> QED
      BY <2>2, <3>1
  <2> QED
    BY <2>4, <2>5
<1>4. \A k \in 0 .. Len(p) : k \in Good
  <2> HIDE DEF Good
  <2>1. Len(p) \in Nat /\ \A k \in 1 .. Len(p) : k - 1 \in Good => k \in Good
    BY <1>3
  <2> QED
    BY <1>2, <2>1, UpTo, Zenon
<1> QED
  BY <1>4

LEMMA ReverseType ==
  ASSUME NEW p \in Seq(Paragraphs)
  PROVE  /\ Reverse(p) \in Seq(Paragraphs) /\ Len(Reverse(p)) = Len(p)
         /\ \A i \in 1 .. Len(p) : Reverse(p)[i] = p[Len(p) - i + 1]
  BY DEF Reverse

(* What the last n paragraphs cost is what the others leave of the whole.  *)
LEMMA CostOfTail ==
  ASSUME NEW p \in Seq(Paragraphs), NEW n \in 0 .. Len(p)
  PROVE  Cost(Reverse(p), n) = Cost(p, Len(p)) - Cost(p, Len(p) - n)
<1> DEFINE r == Reverse(p)
           Good == {k \in 0 .. Len(p) : Cost(r, k) = Cost(p, Len(p)) - Cost(p, Len(p) - k)}
<1>1. r \in Seq(Paragraphs) /\ Len(r) = Len(p)
  BY ReverseType
<1>2. 0 \in Good
  BY <1>1, CostAdds
<1>3. ASSUME NEW k \in 1 .. Len(p), k - 1 \in Good PROVE k \in Good
  <2> DEFINE i == Len(p) - k + 1
  <2>1. i \in 1 .. Len(p) /\ i - 1 = Len(p) - k /\ Len(p) - (k - 1) = i /\ k - 1 \in 0 .. Len(p)
    OBVIOUS
  <2>2. r[k] = p[i]
    BY ReverseType
  <2> HIDE DEF r, i
  <2>3. Cost(r, k) = Cost(r, k - 1) + Size[r[k]] + 2
    BY <1>1, CostAdds
  <2>4. Cost(p, i) = Cost(p, i - 1) + Size[p[i]] + 2 /\ Size[p[i]] \in Nat
    BY <2>1, CostAdds, TruncationAssumption
  <2>5. Cost(r, k - 1) = Cost(p, Len(p)) - Cost(p, i)
    BY <1>3, <2>1
  <2>6. Cost(p, Len(p)) \in Nat /\ Cost(p, i) \in Nat /\ Cost(p, i - 1) \in Nat
    BY <2>1, CostAdds
  <2>7. Cost(r, k) = Cost(p, Len(p)) - Cost(p, i - 1)
    <3>1. Size[r[k]] = Size[p[i]]
      BY <2>2
    <3>2. Cost(r, k) = (Cost(p, Len(p)) - Cost(p, i)) + Size[p[i]] + 2
      BY <2>3, <2>5, <3>1, Zenon
    <3> QED
      BY <2>4, <2>6, <3>2
  <2> QED
    BY <2>1, <2>7
<1>4. \A k \in 0 .. Len(p) : k \in Good
  <2> HIDE DEF Good
  <2>1. Len(p) \in Nat /\ \A k \in 1 .. Len(p) : k - 1 \in Good => k \in Good
    BY <1>3
  <2> QED
    BY <1>2, <2>1, UpTo, Zenon
<1> QED
  BY <1>4

-----------------------------------------------------------------------------
(* What is kept of a text.                                                 *)

(* There is a place where the budget is spent.                             *)
LEMMA FittingFits ==
  ASSUME NEW p \in Seq(Paragraphs), NEW budget \in Nat
  PROVE  /\ Fitting(p, budget) \in 0 .. Len(p)
         /\ Fitting(p, budget) = 0 \/ Cost(p, Fitting(p, budget)) <= budget
<1> DEFINE Ends(n) == /\ n = 0 \/ Cost(p, n) <= budget
                      /\ n = Len(p) \/ Cost(p, n + 1) > budget
           Stops == {n \in 0 .. Len(p) : n = Len(p) \/ Cost(p, n + 1) > budget}
<1>1. \A k \in 0 .. Len(p) : Cost(p, k) \in Nat
  BY CostAdds
<1>2. \E n \in 0 .. Len(p) : Ends(n)
  <2>1. Stops \in SUBSET Nat /\ Len(p) \in Stops
    OBVIOUS
  <2>2. PICK n \in Stops : \A k \in Stops : n <= k
    <3> HIDE DEF Stops
    <3> QED
      BY <2>1, Least
  <2>3. CASE n = 0
    BY <2>2, <2>3
  <2>4. CASE n # 0
    <3>1. n \in 1 .. Len(p) /\ n - 1 \in 0 .. Len(p) /\ n - 1 # Len(p) /\ (n - 1) + 1 = n
      BY <2>2, <2>4
    <3>2. n - 1 \notin Stops
      <4> HIDE DEF Stops
      <4>1. ~ (n <= n - 1)
        BY <3>1
      <4> QED
        BY <2>2, <4>1
    <3>3. ~ (Cost(p, (n - 1) + 1) > budget)
      BY <3>1, <3>2
    <3>4. Cost(p, n) <= budget
      BY <1>1, <3>1, <3>3
    <3> QED
      BY <2>2, <3>4
  <2> QED
    BY <2>3, <2>4
<1>3. Fitting(p, budget) = CHOOSE n \in 0 .. Len(p) : Ends(n)
  BY DEF Fitting
<1>4. Fitting(p, budget) \in 0 .. Len(p) /\ Ends(Fitting(p, budget))
  <2> HIDE DEF Ends
  <2> QED
    BY <1>2, <1>3
<1> QED
  BY <1>4

LEMMA Budgets ==
  ASSUME Budget > 0
  PROVE  /\ HeadBudget \in Nat /\ TailBudget \in Nat
         /\ HeadBudget + TailBudget + Marker = Limit
<1>1. Budget \in Nat /\ Budget + Marker = Limit
  BY TruncationAssumption DEF Budget
<1>2. HeadBudget \in Nat /\ HeadBudget <= Budget
  BY <1>1 DEF HeadBudget
<1> QED
  BY <1>1, <1>2, TruncationAssumption DEF TailBudget

(* What is read of an article fits, and is short of it only if all of it   *)
(* would not fit.                                                          *)
Fits(p, k) ==
  IF TooLong(p) THEN KeptLength(p, k) < Limit /\ k.head + k.tail < Len(p)
  ELSE k.head = Len(p)

LEMMA KeptFits ==
  ASSUME NEW p \in Seq(Paragraphs)
  PROVE  Fits(p, Kept(p))
<1> DEFINE head == Fitting(p, HeadBudget)
           tail == Fitting(Reverse(p), TailBudget)
           n    == Len(p)
<1>1. CASE ~ TooLong(p)
  BY <1>1 DEF Kept, Fits
<1>2. CASE TooLong(p)
  <2>1. n > 0 /\ Cost(p, n) \in Nat /\ Cost(p, n) >= Limit + 2
    BY <1>2, CostAdds, TruncationAssumption DEF TooLong, Joined, Separator
  <2>2. CASE Budget <= 0
    <3>1. Kept(p) = [head |-> 0, tail |-> 0]
      BY <1>2, <2>2 DEF Kept
    <3>2. KeptLength(p, Kept(p)) = 0
      BY <3>1 DEF KeptLength, Joined
    <3>3. Kept(p).head + Kept(p).tail < n /\ KeptLength(p, Kept(p)) < Limit
      BY <2>1, <3>1, <3>2, TruncationAssumption
    <3> QED
      BY <1>2, <3>3 DEF Fits
  <2>3. CASE ~ (Budget <= 0)
    <3>1. Budget > 0
      BY <2>3, TruncationAssumption DEF Budget
    <3>2. HeadBudget \in Nat /\ TailBudget \in Nat /\ HeadBudget + TailBudget + Marker = Limit
      BY <3>1, Budgets
    <3>3. head \in 0 .. n /\ (head = 0 \/ Cost(p, head) <= HeadBudget)
      BY <3>2, FittingFits
    <3>4. tail \in 0 .. n /\ (tail = 0 \/ Cost(Reverse(p), tail) <= TailBudget)
      BY <3>2, FittingFits, ReverseType
    <3>5. PICK kept \in Nat : /\ kept = tail \/ (tail > 0 /\ kept = tail - 1)
                              /\ Kept(p) = [head |-> head, tail |-> kept]
      <4>1. Kept(p) = [head |-> head, tail |-> IF Meet(p, head, tail) THEN tail - 1 ELSE tail]
        BY <1>2, <2>3 DEF Kept
      <4>2. Meet(p, head, tail) => tail > 0
        BY DEF Meet
      <4> HIDE DEF head, tail
      <4>3. CASE Meet(p, head, tail)
        <5>1. tail - 1 \in Nat /\ Kept(p) = [head |-> head, tail |-> tail - 1]
          BY <3>4, <4>1, <4>2, <4>3
        <5> QED
          BY <4>2, <4>3, <5>1
      <4>4. CASE ~ Meet(p, head, tail)
        <5>1. tail \in Nat /\ Kept(p) = [head |-> head, tail |-> tail]
          BY <3>4, <4>1, <4>4
        <5> QED
          BY <5>1, Zenon
      <4> QED
        BY <4>3, <4>4
    <3> HIDE DEF head, tail
    <3>6. Cost(p, head) \in Nat /\ Cost(p, head) <= HeadBudget
      BY <3>2, <3>3, CostAdds
    <3>7. Cost(Reverse(p), tail) \in Nat /\ Cost(Reverse(p), tail) <= TailBudget
      BY <3>2, <3>4, CostAdds, ReverseType
    <3>8. /\ Cost(Reverse(p), kept) \in Nat /\ kept \in 0 .. tail
          /\ Cost(Reverse(p), kept) <= Cost(Reverse(p), tail)
      BY <3>4, <3>5, CostAdds, CostGrows, ReverseType
    <3>9. head + kept < n
      <4> SUFFICES ASSUME head + kept >= n PROVE FALSE
        BY <3>3, <3>5
      <4>1. n - tail \in 0 .. n /\ n - tail <= head
        BY <3>3, <3>4, <3>8
      <4>2. Cost(p, n - tail) <= Cost(p, head) /\ Cost(p, n - tail) \in Nat
        BY <3>3, <4>1, CostGrows, CostAdds
      <4>3. Cost(Reverse(p), tail) = Cost(p, n) - Cost(p, n - tail)
        BY <3>4, CostOfTail
      <4> QED
        BY <2>1, <3>2, <3>6, <3>7, <4>2, <4>3, TruncationAssumption
    <3>10. Joined(p, head) \in Nat /\ Joined(p, head) <= HeadBudget
      <4>1. head # 0 => Cost(p, head) >= 2
        <5>1. ASSUME head # 0 PROVE Cost(p, head) >= 2
          <6>1. head \in 1 .. n /\ head - 1 \in 0 .. n
            BY <3>3, <5>1
          <6>2. Cost(p, head) = Cost(p, head - 1) + Size[p[head]] + 2
                /\ Cost(p, head - 1) \in Nat /\ Size[p[head]] \in Nat
            BY <6>1, CostAdds, TruncationAssumption
          <6> QED
            BY <6>2
        <5> QED
          BY <5>1
      <4> QED
        BY <3>2, <3>6, <4>1 DEF Joined, Separator
    <3>11. kept # 0 => Joined(Reverse(p), kept) \in Int /\ Joined(Reverse(p), kept) < TailBudget
      BY <3>2, <3>7, <3>8 DEF Joined, Separator
    <3>12. KeptLength(p, Kept(p)) < Limit
      <4>1. KeptLength(p, Kept(p)) =
              Joined(p, head) + (IF kept = 0 THEN 0 ELSE Marker + Joined(Reverse(p), kept))
        BY <3>5 DEF KeptLength
      <4>2. CASE kept # 0
        BY <3>2, <3>10, <3>11, <4>1, <4>2, TruncationAssumption
      <4>3. CASE kept = 0
        <5>1. Joined(p, head) < Limit
          <6>1. head = 0 => Joined(p, head) = 0
            BY DEF Joined
          <6>2. head # 0 => Joined(p, head) < HeadBudget
            BY <3>2, <3>6 DEF Joined, Separator
          <6> QED
            BY <3>2, <3>10, <6>1, <6>2, TruncationAssumption
        <5> QED
          BY <3>10, <4>1, <4>3, <5>1
      <4> QED
        BY <4>2, <4>3
    <3> QED
      BY <1>2, <3>5, <3>9, <3>12 DEF Fits
  <2> QED
    BY <2>2, <2>3
<1> QED
  BY <1>1, <1>2

LEMMA KeptType ==
  ASSUME NEW p \in Seq(Paragraphs)
  PROVE  Kept(p) \in [head : Nat, tail : Nat]
<1> DEFINE head == Fitting(p, HeadBudget)
           tail == Fitting(Reverse(p), TailBudget)
<1>1. CASE ~ TooLong(p)
  BY <1>1 DEF Kept
<1>2. CASE TooLong(p) /\ Budget <= 0
  BY <1>2 DEF Kept
<1>3. CASE TooLong(p) /\ ~ (Budget <= 0)
  <2>1. HeadBudget \in Nat /\ TailBudget \in Nat
    <3>1. Budget > 0
      BY <1>3, TruncationAssumption DEF Budget
    <3> QED
      BY <3>1, Budgets
  <2>2. head \in Nat /\ tail \in Nat
    <3>1. head \in 0 .. Len(p)
      BY <2>1, FittingFits
    <3>2. Reverse(p) \in Seq(Paragraphs) /\ Len(Reverse(p)) = Len(p)
      BY ReverseType
    <3>3. tail \in 0 .. Len(p)
      BY <2>1, <3>2, FittingFits
    <3> HIDE DEF head, tail
    <3> QED
      BY <3>1, <3>3
  <2>3. Kept(p) = [head |-> head, tail |-> IF Meet(p, head, tail) THEN tail - 1 ELSE tail]
    BY <1>3 DEF Kept
  <2>4. Meet(p, head, tail) => tail > 0
    BY DEF Meet
  <2> HIDE DEF head, tail
  <2> QED
    BY <2>2, <2>3, <2>4
<1> QED
  BY <1>1, <1>2, <1>3

LEMMA ArticleIsRow ==
  ASSUME NEW place \in Nat, NEW text \in Pages \cup Typed, Len(articles) \in Nat
  PROVE  /\ Article(place, text) \in Row
         /\ Article(place, text).kept = Kept(text) /\ Article(place, text).text = text
         /\ Article(place, text).batch = Len(articles) + 1 /\ Article(place, text).place = place
  BY KeptType, IngestionAssumption DEF Article, Row

-----------------------------------------------------------------------------
(* What is left of a list.                                                 *)

LEMMA EachOnce ==
  ASSUME NEW raw \in Raw
  PROVE  Deduplicate(raw) \in Seq(Urls) /\ IsInjective(Deduplicate(raw))
<1> DEFINE S == {i \in DOMAIN raw : \A k \in 1 .. (i - 1) : raw[k] # raw[i]}
           first == InOrder(S)
           d == [n \in DOMAIN first |-> raw[first[n]]]
<1>1. PICK n \in 1 .. MaxPasted : raw \in [1 .. n -> Urls]
  BY DEF Raw
<1>2. n \in Nat /\ S \in SUBSET (1 .. n)
  BY <1>1, IngestionAssumption
<1>3. first \in Seq(S) /\ Increasing(first)
  <2> HIDE DEF S
  <2> QED
    BY <1>2, InOrderRanks
<1>4. Deduplicate(raw) = d
  BY DEF Deduplicate
<1>5. \A i, j \in S : i < j => raw[i] # raw[j]
  <2> SUFFICES ASSUME NEW i \in S, NEW j \in S, i < j PROVE raw[i] # raw[j]
    OBVIOUS
  <2>1. i \in 1 .. (j - 1)
    BY <1>2
  <2> QED
    BY <2>1
<1>6. \A i \in S : raw[i] \in Urls /\ i \in Nat
  BY <1>1, <1>2
<1> HIDE DEF S, first
<1>7. first \in [1 .. Len(first) -> S] /\ Len(first) \in Nat
  BY <1>3
<1>8. d \in Seq(Urls) /\ Len(d) = Len(first)
  BY <1>6, <1>7
<1>9. ASSUME NEW i \in 1 .. Len(first), NEW j \in 1 .. Len(first), i < j PROVE d[i] # d[j]
  <2>1. first[i] < first[j]
    BY <1>3, <1>9 DEF Increasing
  <2> QED
    BY <1>5, <1>7, <2>1
<1>10. DOMAIN d = 1 .. Len(first)
  BY <1>7
<1> HIDE DEF d
<1>11. IsInjective(d)
  <2> SUFFICES ASSUME NEW i \in 1 .. Len(first), NEW j \in 1 .. Len(first), d[i] = d[j] PROVE i = j
    BY <1>10 DEF IsInjective
  <2>1. ~ (i < j) /\ ~ (j < i)
    BY <1>9
  <2> QED
    BY <1>7, <2>1
<1> QED
  BY <1>4, <1>8, <1>11

(* What was read, in the order of the places it was pasted at.             *)
LEMMA ReadInOrder ==
  ASSUME Reading
  PROVE  /\ Read \in Seq(Urls)
         /\ \A i \in 1 .. Len(Read) : /\ fetch[Read[i]] = "read" /\ page[Read[i]] \in Pages
                                      /\ Position(Read[i]) \in 1 .. Len(batch)
         /\ \A i, j \in 1 .. Len(Read) : i < j => Position(Read[i]) < Position(Read[j])
         /\ \A u \in Urls : fetch[u] = "read" => In(u, Read)
<1> DEFINE S == {i \in DOMAIN batch : fetch[batch[i]] = "read"}
           read == InOrder(S)
           r == [n \in DOMAIN read |-> batch[read[n]]]
<1>1. batch \in Seq(Urls) /\ DOMAIN batch = 1 .. Len(batch) /\ Len(batch) \in Nat
  BY DEF Reading
<1>2. S \in SUBSET (1 .. Len(batch))
  BY <1>1
<1>3. read \in Seq(S) /\ Increasing(read) /\ \A x \in S : In(x, read)
  <2> HIDE DEF S
  <2> QED
    BY <1>1, <1>2, InOrderRanks
<1>4. Read = r
  BY DEF Read
<1>5. \A i \in S : batch[i] \in Urls /\ fetch[batch[i]] = "read" /\ i \in 1 .. Len(batch)
  BY <1>1
<1>6. \A u \in Urls : fetch[u] = "read" => \E i \in S : batch[i] = u
  BY <1>1 DEF Reading
<1>7. ASSUME NEW i \in 1 .. Len(batch) PROVE Position(batch[i]) = i
  <2>1. \A j \in 1 .. Len(batch) : batch[j] = batch[i] => j = i
    BY <1>1 DEF Reading, IsInjective
  <2> QED
    BY <1>1, <2>1 DEF Position
<1> HIDE DEF S, read
<1>8. read \in [1 .. Len(read) -> S] /\ Len(read) \in Nat
  BY <1>3
<1>9. DOMAIN read = 1 .. Len(read)
  BY <1>8
<1>10. r \in Seq(Urls) /\ Len(r) = Len(read) /\ \A i \in 1 .. Len(read) : r[i] = batch[read[i]]
  BY <1>5, <1>8, <1>9
<1> HIDE DEF r
<1>11. ASSUME NEW i \in 1 .. Len(read)
       PROVE  /\ fetch[r[i]] = "read" /\ page[r[i]] \in Pages
              /\ Position(r[i]) = read[i] /\ read[i] \in 1 .. Len(batch)
  <2>1. read[i] \in S
    BY <1>8
  <2>2. r[i] = batch[read[i]] /\ batch[read[i]] \in Urls /\ read[i] \in 1 .. Len(batch)
    BY <1>5, <1>10, <2>1
  <2>3. fetch[r[i]] = "read"
    BY <1>5, <2>1, <2>2
  <2> QED
    BY <1>7, <2>2, <2>3 DEF Reading
<1>12. ASSUME NEW i \in 1 .. Len(read), NEW j \in 1 .. Len(read), i < j
       PROVE  Position(r[i]) < Position(r[j])
  <2>1. read[i] < read[j]
    BY <1>3, <1>12 DEF Increasing
  <2> QED
    BY <1>11, <2>1
<1>13. ASSUME NEW u \in Urls, fetch[u] = "read" PROVE In(u, r)
  <2>1. PICK x \in S : batch[x] = u
    BY <1>6, <1>13
  <2>2. PICK i \in 1 .. Len(read) : read[i] = x
    BY <1>3, <2>1 DEF In
  <2> QED
    BY <1>10, <2>1, <2>2 DEF In
<1> QED
  BY <1>4, <1>10, <1>11, <1>12, <1>13

(* The latest batch is what was just saved.                                *)
LEMMA LatestIsSaved ==
  ASSUME Table, NEW n \in 0 .. Len(articles), SavedAfter(n), Len(Read) \in Nat, Len(Read) > 0
  PROVE  /\ Latest \in Seq(n + 1 .. Len(articles)) /\ Increasing(Latest)
         /\ \A id \in n + 1 .. Len(articles) : In(id, Latest)
<1> DEFINE S == {id \in DOMAIN articles : articles[id].batch = articles[Len(articles)].batch}
<1>1. Len(articles) \in Nat /\ DOMAIN articles = 1 .. Len(articles)
      /\ \A id \in 1 .. Len(articles) : articles[id].batch \in Nat
  <2>1. articles \in Seq(Row)
    BY DEF Table
  <2>2. \A x \in Row : x.batch \in Nat
    BY DEF Row
  <2> HIDE DEF Row
  <2> QED
    BY <2>1, <2>2
<1>2. n < Len(articles)
  BY <1>1 DEF SavedAfter
<1>3. articles[Len(articles)].batch = n + 1
  BY <1>1, <1>2 DEF SavedAfter
<1>4. S = n + 1 .. Len(articles)
  <2>1. ASSUME NEW id \in 1 .. Len(articles) PROVE id \in S <=> id > n
    BY <1>1, <1>3 DEF SavedAfter
  <2>2. \A id \in S : id \in 1 .. Len(articles)
    BY <1>1
  <2>3. \A id : id \in n + 1 .. Len(articles) <=> id \in 1 .. Len(articles) /\ id > n
    BY <1>1
  <2> HIDE DEF S
  <2> QED
    BY <2>1, <2>2, <2>3
<1>5. Latest = InOrder(S)
  BY DEF Latest
<1>6. S \in SUBSET (1 .. Len(articles))
  BY <1>1
<1> HIDE DEF S
<1>7. InOrder(S) \in Seq(S) /\ Increasing(InOrder(S)) /\ \A x \in S : In(x, InOrder(S))
  BY <1>1, <1>6, InOrderRanks
<1> QED
  BY <1>4, <1>5, <1>7

-----------------------------------------------------------------------------
(* Every step keeps the invariant.                                         *)

(* The table after rows of one batch were added to it.                     *)
Grown(rows) ==
  /\ articles' \in Seq(Row) /\ Len(articles') = Len(articles) + Len(rows)
  /\ \A id \in 1 .. Len(articles) : articles'[id] = articles[id]
  /\ \A i \in 1 .. Len(rows) : articles'[Len(articles) + i] = rows[i]

OneBatch(rows) ==
  /\ rows \in Seq(Row)
  /\ \A i \in 1 .. Len(rows) :
       /\ rows[i].kept = Kept(rows[i].text) /\ rows[i].batch = Len(articles) + 1
  /\ \A i, j \in 1 .. Len(rows) : i < j => rows[i].place < rows[j].place

LEMMA TableGrows ==
  ASSUME Table, NEW rows, OneBatch(rows), Grown(rows)
  PROVE  Table'
<1>1. /\ Len(articles) \in Nat /\ Len(rows) \in Nat /\ Len(articles') \in Nat
      /\ \A id \in 1 .. Len(articles) : articles[id].batch \in Nat
  <2>1. articles \in Seq(Row) /\ rows \in Seq(Row) /\ articles' \in Seq(Row)
    BY DEF Table, OneBatch, Grown
  <2>2. \A x \in Row : x.batch \in Nat
    BY DEF Row
  <2> HIDE DEF Row
  <2> QED
    BY <2>1, <2>2
<1>2. ASSUME NEW id \in 1 .. Len(articles'), id \notin 1 .. Len(articles)
      PROVE  /\ id - Len(articles) \in 1 .. Len(rows)
             /\ articles'[id] = rows[id - Len(articles)]
             /\ articles'[id].batch = Len(articles) + 1
             /\ articles'[id].kept = Kept(articles'[id].text)
  <2> DEFINE i == id - Len(articles)
  <2>1. i \in 1 .. Len(rows) /\ Len(articles) + i = id
    BY <1>1, <1>2 DEF Grown
  <2> HIDE DEF i
  <2>2. articles'[id] = rows[i]
    BY <2>1 DEF Grown
  <2>3. rows[i].kept = Kept(rows[i].text) /\ rows[i].batch = Len(articles) + 1
    BY <2>1 DEF OneBatch
  <2> QED
    BY <2>1, <2>2, <2>3 DEF i
<1>3. ASSUME NEW id \in 1 .. Len(articles')
      PROVE  articles'[id].kept = Kept(articles'[id].text) /\ articles'[id].batch <= id
  <2>1. CASE id \in 1 .. Len(articles)
    <3>1. articles'[id] = articles[id]
      BY <2>1 DEF Grown
    <3>2. articles[id].kept = Kept(articles[id].text) /\ articles[id].batch <= id
      BY <2>1 DEF Table
    <3> QED
      BY <3>1, <3>2
  <2>2. CASE id \notin 1 .. Len(articles)
    BY <1>1, <1>2, <2>2
  <2> QED
    BY <2>1, <2>2
<1>4. ASSUME NEW id \in 1 .. Len(articles'), NEW jd \in 1 .. Len(articles'),
             id < jd, articles'[id].batch = articles'[jd].batch
      PROVE  articles'[id].place < articles'[jd].place
  <2>1. CASE jd \in 1 .. Len(articles)
    <3>1. id \in 1 .. Len(articles) /\ articles'[id] = articles[id] /\ articles'[jd] = articles[jd]
      <4>1. id \in 1 .. Len(articles)
        BY <1>1, <1>4, <2>1
      <4> QED
        BY <2>1, <4>1 DEF Grown
    <3> QED
      BY <1>4, <2>1, <3>1 DEF Table
  <2>2. CASE jd \notin 1 .. Len(articles) /\ id \in 1 .. Len(articles)
    <3>1. articles'[jd].batch = Len(articles) + 1
      BY <1>2, <2>2
    <3>2. articles'[id].batch = articles[id].batch /\ articles[id].batch <= id
      BY <2>2 DEF Grown, Table
    <3> QED
      BY <1>1, <1>4, <2>2, <3>1, <3>2
  <2>3. CASE jd \notin 1 .. Len(articles) /\ id \notin 1 .. Len(articles)
    <3>1. /\ id - Len(articles) \in 1 .. Len(rows) /\ articles'[id] = rows[id - Len(articles)]
          /\ jd - Len(articles) \in 1 .. Len(rows) /\ articles'[jd] = rows[jd - Len(articles)]
      BY <1>2, <2>3
    <3>2. id - Len(articles) < jd - Len(articles)
      BY <1>1, <1>4
    <3> QED
      BY <3>1, <3>2 DEF OneBatch
  <2> QED
    BY <2>1, <2>2, <2>3
<1>5. articles' \in Seq(Row)
  BY DEF Grown
<1> QED
  BY <1>3, <1>4, <1>5 DEF Table

(* The rows of the pages that were read.                                   *)
ReadRows == [i \in DOMAIN Read |-> Article(Position(Read[i]), page[Read[i]])]

LEMMA SaveGrows ==
  ASSUME Table, Reading, Save
  PROVE  /\ OneBatch(ReadRows) /\ Grown(ReadRows) /\ Len(ReadRows) = Len(Read)
         /\ \A i \in 1 .. Len(Read) : /\ ReadRows[i].text = page[Read[i]]
                                      /\ ReadRows[i].batch = Len(articles) + 1
<1> DEFINE n == Len(Read)
<1>1. n \in Nat /\ DOMAIN Read = 1 .. n /\ Len(batch) \in Nat
  BY ReadInOrder DEF Reading
<1>2. articles \in Seq(Row) /\ Len(articles) \in Nat
  BY DEF Table
<1>3. ASSUME NEW i \in 1 .. n
      PROVE  /\ ReadRows[i] = Article(Position(Read[i]), page[Read[i]])
             /\ ReadRows[i] \in Row /\ ReadRows[i].place = Position(Read[i])
             /\ ReadRows[i].kept = Kept(ReadRows[i].text) /\ ReadRows[i].text = page[Read[i]]
             /\ ReadRows[i].batch = Len(articles) + 1
  <2> DEFINE place == Position(Read[i])
             text == page[Read[i]]
  <2>1. ReadRows[i] = Article(place, text)
    BY <1>1 DEF ReadRows
  <2>2. place \in Nat /\ text \in Pages \cup Typed
    BY ReadInOrder
  <2> HIDE DEF place, text
  <2>3. Article(place, text) \in Row /\ Article(place, text).kept = Kept(text)
        /\ Article(place, text).text = text /\ Article(place, text).place = place
        /\ Article(place, text).batch = Len(articles) + 1
    BY <1>2, <2>2, ArticleIsRow
  <2> QED
    BY <2>1, <2>3 DEF place, text
<1>4. ReadRows \in Seq(Row) /\ Len(ReadRows) = n
  <2>1. ReadRows = [i \in 1 .. n |-> ReadRows[i]]
    BY <1>1 DEF ReadRows
  <2> HIDE DEF n
  <2>2. \A i \in 1 .. n : ReadRows[i] \in Row
    BY <1>3
  <2> QED
    BY <1>1, <2>1, <2>2
<1>5. \A i, j \in 1 .. n : i < j => ReadRows[i].place < ReadRows[j].place
  BY <1>3, ReadInOrder
<1>6. OneBatch(ReadRows)
  BY <1>3, <1>4, <1>5 DEF OneBatch
<1>7. articles' = articles \o ReadRows
  BY DEF Save, ReadRows
<1>8. Grown(ReadRows)
  <2> DEFINE rows == ReadRows
  <2>1. rows \in Seq(Row) /\ articles' = articles \o rows /\ Len(rows) \in Nat
    BY <1>1, <1>4, <1>7
  <2> HIDE DEF rows
  <2>2. articles' \in Seq(Row) /\ Len(articles') = Len(articles) + Len(rows)
    BY <1>2, <2>1, ConcatProperties
  <2>3. \A id \in 1 .. Len(articles) + Len(rows) :
          articles'[id] = IF id <= Len(articles) THEN articles[id] ELSE rows[id - Len(articles)]
    BY <1>2, <2>1, ConcatProperties
  <2>4. \A id \in 1 .. Len(articles) : articles'[id] = articles[id]
    BY <1>2, <2>1, <2>3
  <2>5. ASSUME NEW i \in 1 .. Len(rows) PROVE articles'[Len(articles) + i] = rows[i]
    <3>1. /\ Len(articles) + i \in 1 .. Len(articles) + Len(rows)
          /\ ~ (Len(articles) + i <= Len(articles)) /\ (Len(articles) + i) - Len(articles) = i
      BY <1>2, <2>1
    <3> QED
      BY <2>3, <3>1
  <2> QED
    BY <2>2, <2>4, <2>5 DEF Grown, rows
<1> QED
  BY <1>3, <1>4, <1>6, <1>8

LEMMA ManualGrows ==
  ASSUME Table, NEW text \in Typed, AddManual(text)
  PROVE  OneBatch(<<Article(1, text)>>) /\ Grown(<<Article(1, text)>>)
<1>1. articles \in Seq(Row) /\ Len(articles) \in Nat
  BY DEF Table
<1> DEFINE a == Article(1, text)
<1>2. a \in Row /\ a.kept = Kept(text) /\ a.text = text /\ a.batch = Len(articles) + 1
  BY <1>1, ArticleIsRow
<1>3. articles' = Append(articles, a)
  BY DEF AddManual
<1> HIDE DEF a
<1>4. OneBatch(<<a>>)
  BY <1>2 DEF OneBatch
<1>5. Grown(<<a>>)
  BY <1>1, <1>2, <1>3 DEF Grown
<1> QED
  BY <1>4, <1>5 DEF a

LEMMA TableStep == Table /\ Reading /\ Next => Table'
<1> SUFFICES ASSUME Table, Reading, Next PROVE Table'
  OBVIOUS
<1>1. CASE Save
  BY <1>1, SaveGrows, TableGrows
<1>2. CASE \E text \in Typed : AddManual(text)
  BY <1>2, ManualGrows, TableGrows
<1>3. CASE UNCHANGED articles
  BY <1>3 DEF Table
<1> QED
  BY <1>1, <1>2, <1>3 DEF Next, Paste, FetchOk, FetchFails, RemoveArticle, Select, Logout, Interrupt,
     ClickGenerate, DraftFails, DraftPersisted, ShowDraft

LEMMA ReadingStep == Reading /\ Next => Reading'
<1> SUFFICES ASSUME Reading, Next PROVE Reading'
  OBVIOUS
<1>1. CASE NothingRead
  <2>1. Len(<<>>) <= MaxBatch
    BY IngestionAssumption
  <2> QED
    BY <1>1, <2>1 DEF NothingRead, Reading, IsInjective
<1>2. ASSUME NEW raw \in Raw, Paste(raw) PROVE Reading'
  <2> DEFINE d == Deduplicate(raw)
  <2>1. d \in Seq(Urls) /\ IsInjective(d)
    BY EachOnce
  <2>2. /\ Len(d) \in 1 .. MaxBatch /\ batch' = d /\ arrived' = <<>>
        /\ fetch' = [u \in Urls |-> IF u \in ToSet(d) THEN "reading" ELSE "none"]
        /\ page' = [u \in Urls |-> <<>>]
    BY <1>2 DEF Paste
  <2> HIDE DEF d
  <2>3. \A u \in ToSet(d) : \E i \in 1 .. Len(d) : d[i] = u
    BY <2>1 DEF ToSet
  <2>4. Len(d) <= MaxBatch
    BY <2>1, <2>2, IngestionAssumption
  <2> QED
    BY <2>1, <2>2, <2>3, <2>4 DEF Reading
<1>3. ASSUME NEW u \in Urls, FetchFails(u) PROVE Reading'
  BY <1>3 DEF FetchFails, Reading
<1>4. ASSUME NEW u \in Urls, NEW p \in Pages, FetchOk(u, p) PROVE Reading'
  BY <1>4 DEF FetchOk, Reading
<1>5. CASE UNCHANGED reading
  BY <1>5 DEF reading, Reading
<1> QED
  BY <1>1, <1>2, <1>3, <1>4, <1>5 DEF Next, Save, AddManual, RemoveArticle, Select, Logout, Interrupt,
     ClickGenerate, DraftFails, DraftPersisted, ShowDraft

LEMMA TableOnlyGrows ==
  ASSUME Table, Reading, Next
  PROVE  /\ Len(articles) \in Nat /\ Len(articles') \in Nat /\ Len(articles) <= Len(articles')
         /\ articles' # articles => Save \/ \E text \in Typed : AddManual(text)
<1>1. articles \in Seq(Row) /\ Len(articles) \in Nat
  BY DEF Table
<1>2. CASE Save
  BY <1>1, <1>2, SaveGrows, ReadInOrder DEF Grown
<1>3. CASE \E text \in Typed : AddManual(text)
  <2>1. PICK text \in Typed : AddManual(text)
    BY <1>3
  <2>2. Len(articles') = Len(articles) + Len(<<Article(1, text)>>)
    BY <2>1, ManualGrows DEF Grown
  <2>3. Len(<<Article(1, text)>>) = 1
    OBVIOUS
  <2> QED
    BY <1>1, <1>3, <2>2, <2>3
<1>4. CASE UNCHANGED articles
  BY <1>1, <1>4
<1> QED
  BY <1>2, <1>3, <1>4 DEF Next, Paste, FetchOk, FetchFails, RemoveArticle, Select, Logout, Interrupt,
     ClickGenerate, DraftFails, DraftPersisted, ShowDraft

(* Later ids after earlier ones.                                           *)
LEMMA JoinIncreasing ==
  ASSUME NEW n \in Nat, NEW m \in Nat, n <= m, NEW s \in Seq(1 .. n), NEW t \in Seq(n + 1 .. m),
         Increasing(s), Increasing(t)
  PROVE  /\ s \o t \in Seq(1 .. m) /\ Increasing(s \o t)
         /\ \A id : In(id, s \o t) => In(id, s) \/ In(id, t)
<1> DEFINE j == s \o t
<1>1. s \in Seq(1 .. m) /\ t \in Seq(1 .. m) /\ Len(s) \in Nat /\ Len(t) \in Nat
      /\ (\A i \in 1 .. Len(s) : s[i] \in 1 .. n) /\ (\A i \in 1 .. Len(t) : t[i] \in n + 1 .. m)
  OBVIOUS
<1>2. j \in Seq(1 .. m) /\ Len(j) = Len(s) + Len(t)
  BY <1>1, ConcatProperties
<1>3. \A i \in 1 .. Len(s) + Len(t) : j[i] = IF i <= Len(s) THEN s[i] ELSE t[i - Len(s)]
  BY <1>1, ConcatProperties
<1> HIDE DEF j
<1>4. ASSUME NEW i \in 1 .. Len(j)
      PROVE  \/ i \in 1 .. Len(s) /\ j[i] = s[i]
             \/ i > Len(s) /\ i - Len(s) \in 1 .. Len(t) /\ j[i] = t[i - Len(s)]
  BY <1>1, <1>2, <1>3
<1>5. ASSUME NEW i \in 1 .. Len(j), NEW k \in 1 .. Len(j), i < k PROVE j[i] < j[k]
  <2>1. CASE k \in 1 .. Len(s)
    <3>1. i \in 1 .. Len(s) /\ j[i] = s[i] /\ j[k] = s[k]
      BY <1>1, <1>4, <1>5, <2>1
    <3> QED
      BY <1>5, <2>1, <3>1 DEF Increasing
  <2>2. CASE k > Len(s) /\ i \in 1 .. Len(s)
    <3>1. j[i] = s[i] /\ k - Len(s) \in 1 .. Len(t) /\ j[k] = t[k - Len(s)]
      BY <1>1, <1>4, <2>2
    <3>2. s[i] \in 1 .. n /\ t[k - Len(s)] \in n + 1 .. m
      BY <1>1, <2>2, <3>1
    <3> QED
      BY <3>1, <3>2
  <2>3. CASE k > Len(s) /\ i > Len(s)
    <3>1. /\ i - Len(s) \in 1 .. Len(t) /\ j[i] = t[i - Len(s)]
          /\ k - Len(s) \in 1 .. Len(t) /\ j[k] = t[k - Len(s)]
      BY <1>1, <1>4, <2>3
    <3>2. i - Len(s) < k - Len(s)
      BY <1>1, <1>2, <1>5
    <3> QED
      BY <3>1, <3>2 DEF Increasing
  <2> QED
    BY <1>4, <2>1, <2>2, <2>3
<1>6. ASSUME NEW id, In(id, j) PROVE In(id, s) \/ In(id, t)
  BY <1>4, <1>6 DEF In
<1> QED
  BY <1>2, <1>5, <1>6 DEF j, Increasing

LEMMA RemoveKeeps ==
  ASSUME NEW S \in SUBSET Nat, NEW s \in Seq(S), NEW i \in 1 .. Len(s), Increasing(s)
  PROVE  /\ RemoveAt(s, i) \in Seq(S) /\ Increasing(RemoveAt(s, i))
         /\ \A id : In(id, RemoveAt(s, i)) => In(id, s)
<1> DEFINE a == SubSeq(s, 1, i - 1)
           b == SubSeq(s, i + 1, Len(s))
           r == a \o b
           n == Len(s)
<1>1. n \in Nat /\ i \in 1 .. n /\ \A k \in 1 .. n : s[k] \in S
  OBVIOUS
<1>2. a \in Seq(S) /\ Len(a) = i - 1 /\ \A k \in 1 .. i - 1 : a[k] = s[k]
  BY <1>1
<1>3. b \in Seq(S) /\ Len(b) = n - i /\ \A k \in 1 .. n - i : b[k] = s[i + k]
  BY <1>1
<1>4. RemoveAt(s, i) = r
  BY DEF RemoveAt
<1> HIDE DEF a, b, n
<1>5. /\ r \in Seq(S) /\ Len(r) = n - 1
      /\ \A k \in 1 .. Len(a) + Len(b) : r[k] = IF k <= Len(a) THEN a[k] ELSE b[k - Len(a)]
  <2>1. /\ r \in Seq(S) /\ Len(r) = Len(a) + Len(b)
        /\ \A k \in 1 .. Len(a) + Len(b) : r[k] = IF k <= Len(a) THEN a[k] ELSE b[k - Len(a)]
    BY <1>2, <1>3, ConcatProperties
  <2> HIDE DEF r
  <2>2. Len(r) = n - 1
    BY <1>1, <1>2, <1>3, <2>1
  <2> QED
    BY <2>1, <2>2
<1> HIDE DEF r
<1>6. ASSUME NEW k \in 1 .. n - 1 PROVE r[k] = IF k < i THEN s[k] ELSE s[k + 1]
  <2>1. CASE k < i
    <3>1. k \in 1 .. Len(a) + Len(b) /\ k <= Len(a) /\ k \in 1 .. i - 1
      BY <1>1, <1>2, <1>3, <2>1
    <3> QED
      BY <1>2, <1>5, <2>1, <3>1
  <2>2. CASE ~ (k < i)
    <3>1. /\ k \in 1 .. Len(a) + Len(b) /\ ~ (k <= Len(a))
          /\ k - Len(a) \in 1 .. n - i /\ i + (k - Len(a)) = k + 1
      BY <1>1, <1>2, <1>3, <2>2
    <3> QED
      BY <1>3, <1>5, <2>2, <3>1
  <2> QED
    BY <2>1, <2>2
<1>7. ASSUME NEW k \in 1 .. n - 1, NEW l \in 1 .. n - 1, k < l PROVE r[k] < r[l]
  <2> DEFINE Was(x) == IF x < i THEN x ELSE x + 1
  <2>1. Was(k) \in 1 .. n /\ Was(l) \in 1 .. n /\ Was(k) < Was(l)
    BY <1>1, <1>7
  <2>2. r[k] = s[Was(k)] /\ r[l] = s[Was(l)]
    BY <1>6
  <2> HIDE DEF Was
  <2> QED
    BY <2>1, <2>2 DEF Increasing, n
<1>8. ASSUME NEW id, In(id, r) PROVE In(id, s)
  <2>1. PICK k \in 1 .. n - 1 : r[k] = id
    BY <1>5, <1>8 DEF In
  <2> DEFINE l == IF k < i THEN k ELSE k + 1
  <2>2. l \in 1 .. n /\ s[l] = id
    BY <1>1, <1>6, <2>1
  <2> HIDE DEF l
  <2> QED
    BY <2>2 DEF In, n
<1> QED
  BY <1>4, <1>5, <1>7, <1>8 DEF Increasing

(* What is newly selected comes after what was, and is in no draft.        *)
LEMMA SelectAppends ==
  ASSUME IInv, Select
  PROVE  /\ selected' \in Seq(1 .. Len(articles)) /\ Increasing(selected')
         /\ \A id : In(id, selected') => In(id, selected) \/ Made(id) = {}
<1>1. CASE Read = <<>>
  <2>1. selected' = selected
    BY <1>1 DEF Select
  <2> QED
    BY <2>1 DEF IInv, Session, In
<1>2. CASE Read # <<>>
  <2>1. phase = "saved" /\ selected' = selected \o Latest
    BY <1>2 DEF Select
  <2>2. PICK n \in 0 .. Len(articles) : SavedAfter(n)
    BY <1>2, <2>1 DEF IInv, Saved
  <2>3. Len(articles) \in Nat /\ n \in Nat /\ n <= Len(articles)
    BY DEF IInv, Table
  <2>4. Len(Read) \in Nat /\ Len(Read) > 0
    BY <1>2, ReadInOrder DEF IInv
  <2>5. /\ Latest \in Seq(n + 1 .. Len(articles)) /\ Increasing(Latest)
    BY <2>2, <2>4, LatestIsSaved DEF IInv
  <2>6. selected \in Seq(1 .. n) /\ Increasing(selected)
    <3>1. selected \in Seq(1 .. Len(articles)) /\ Increasing(selected)
      BY DEF IInv, Session
    <3>2. \A i \in 1 .. Len(selected) : selected[i] \in 1 .. n
      BY <2>2, <2>3, <3>1 DEF SavedAfter
    <3> QED
      BY <3>1, <3>2
  <2>7. /\ selected' \in Seq(1 .. Len(articles)) /\ Increasing(selected')
        /\ \A id : In(id, selected') => In(id, selected) \/ In(id, Latest)
    BY <2>1, <2>3, <2>5, <2>6, JoinIncreasing
  <2>8. ASSUME NEW id, In(id, Latest) PROVE Made(id) = {}
    <3>1. id \in n + 1 .. Len(articles)
      BY <2>5, <2>8 DEF In
    <3>2. \A d \in 1 .. Len(drafts) : \A i \in 1 .. Len(drafts[d]) : drafts[d][i] <= n
      BY <2>2 DEF SavedAfter
    <3> QED
      BY <2>3, <3>1, <3>2 DEF Made, In
  <2> QED
    BY <2>7, <2>8
<1> QED
  BY <1>1, <1>2

LEMMA SessionStep == IInv /\ Next => Session'
<1> SUFFICES ASSUME IInv, Next PROVE Session'
  OBVIOUS
<1>1. /\ Len(articles) \in Nat /\ Len(articles') \in Nat /\ Len(articles) <= Len(articles')
      /\ articles' # articles => Save \/ \E text \in Typed : AddManual(text)
  BY TableOnlyGrows DEF IInv
<1>2. selected \in Seq(1 .. Len(articles)) /\ Increasing(selected)
  BY DEF IInv, Session
<1>3. selected \in Seq(1 .. Len(articles'))
  BY <1>1, <1>2
<1>4. CASE UNCHANGED selected /\ (phase' = "drafting" => selected # <<>>)
           /\ phase' \in {"idle", "reading", "saved", "drafting", "drafted"}
  BY <1>2, <1>3, <1>4 DEF Session, Increasing
<1>5. ASSUME NEW text \in Typed, AddManual(text) PROVE Session'
  <2> DEFINE n == Len(articles)
  <2>1. Len(articles') = n + 1
    BY <1>1, <1>5, ManualGrows DEF IInv, Grown
  <2>2. selected' = selected \o <<n + 1>> /\ phase' = "idle"
    BY <1>2, <1>5 DEF AddManual
  <2>3. <<n + 1>> \in Seq(n + 1 .. n + 1) /\ Increasing(<<n + 1>>)
    BY <1>1 DEF Increasing
  <2> HIDE DEF n
  <2>4. selected \o <<n + 1>> \in Seq(1 .. n + 1) /\ Increasing(selected \o <<n + 1>>)
    <3>1. n \in Nat /\ n + 1 \in Nat /\ n <= n + 1 /\ selected \in Seq(1 .. n)
      BY <1>1, <1>2 DEF n
    <3> QED
      BY <1>2, <2>3, <3>1, JoinIncreasing
  <2> QED
    BY <2>1, <2>2, <2>4 DEF Session
<1>6. ASSUME NEW i \in DOMAIN selected, RemoveArticle(i) PROVE Session'
  <2>1. articles' = articles /\ selected' = RemoveAt(selected, i) /\ phase' = "idle"
    BY <1>6 DEF RemoveArticle
  <2>2. i \in 1 .. Len(selected)
    BY <1>2
  <2>3. 1 .. Len(articles) \in SUBSET Nat
    BY <1>1
  <2>4. RemoveAt(selected, i) \in Seq(1 .. Len(articles)) /\ Increasing(RemoveAt(selected, i))
    BY <1>2, <2>2, <2>3, RemoveKeeps
  <2> QED
    BY <2>1, <2>4 DEF Session
<1>7. CASE Select
  <2>1. articles' = articles /\ phase' = "idle"
    BY <1>7 DEF Select
  <2> QED
    BY <1>7, <2>1, SelectAppends DEF Session
<1>8. CASE selected' = <<>> /\ phase' = "idle"
  BY <1>8 DEF Session, Increasing
<1> QED
  BY <1>4, <1>5, <1>6, <1>7, <1>8 DEF Next, Paste, FetchOk, FetchFails, Save, Logout, Interrupt,
     ClickGenerate, DraftFails, DraftPersisted, ShowDraft, IInv, Session

LEMMA DraftedStep == IInv /\ Next => Drafted'
<1> SUFFICES ASSUME IInv, Next PROVE Drafted'
  OBVIOUS
<1>1. Len(articles) \in Nat /\ Len(articles') \in Nat /\ Len(articles) <= Len(articles')
  BY TableOnlyGrows DEF IInv
<1>2. /\ drafts \in Seq(Seq(1 .. Len(articles))) /\ Len(drafts) \in Nat /\ unseen \in Nat
      /\ \A d \in 1 .. Len(drafts) : drafts[d] # <<>>
  BY DEF IInv, Drafted
<1>3. drafts \in Seq(Seq(1 .. Len(articles')))
  <2>1. 1 .. Len(articles) \subseteq 1 .. Len(articles')
    BY <1>1
  <2>2. Seq(1 .. Len(articles)) \subseteq Seq(1 .. Len(articles'))
    BY <2>1, SeqMonotonic
  <2> QED
    BY <1>2, <2>2, SeqMonotonic
<1>4. CASE DraftPersisted
  <2>1. /\ phase = "drafting" /\ articles' = articles /\ unseen' = unseen
        /\ drafts' = Append(drafts, selected)
    BY <1>4 DEF DraftPersisted
  <2>2. selected \in Seq(1 .. Len(articles)) /\ selected # <<>>
    BY <2>1 DEF IInv, Session
  <2> DEFINE Ids == Seq(1 .. Len(articles))
  <2> HIDE DEF Ids
  <2>3. drafts \in Seq(Ids) /\ selected \in Ids
    BY <1>2, <2>2 DEF Ids
  <2>4. /\ drafts' \in Seq(Ids) /\ Len(drafts') = Len(drafts) + 1
        /\ \A d \in 1 .. Len(drafts) : drafts'[d] = drafts[d]
        /\ drafts'[Len(drafts) + 1] = selected
    BY <2>1, <2>3
  <2>5. \A d \in 1 .. Len(drafts') : drafts'[d] # <<>>
    <3> SUFFICES ASSUME NEW d \in 1 .. Len(drafts) + 1 PROVE drafts'[d] # <<>>
      BY <2>4
    <3>1. d \in 1 .. Len(drafts) \/ d = Len(drafts) + 1
      BY <1>2
    <3> QED
      BY <1>2, <2>2, <2>4, <3>1
  <2>6. unseen' \in Nat /\ unseen' < Len(drafts')
    BY <1>2, <2>1, <2>4 DEF IInv, Drafted
  <2> QED
    BY <1>2, <2>1, <2>4, <2>5, <2>6 DEF Drafted, Ids
<1>5. CASE Interrupt
  <2>1. unseen' \in Nat /\ unseen' <= Len(drafts) /\ drafts' = drafts /\ phase' = "idle"
    BY <1>2, <1>5 DEF Interrupt, IInv, Drafted
  <2> QED
    BY <1>2, <1>3, <2>1 DEF Drafted
<1>6. CASE UNCHANGED <<drafts, unseen>> /\ (phase' = "drafted" => phase = "drafted")
  BY <1>2, <1>3, <1>6 DEF IInv, Drafted
<1> QED
  BY <1>4, <1>5, <1>6 DEF Next, Paste, FetchOk, FetchFails, Save, AddManual, Select, RemoveArticle,
     Logout, ClickGenerate, DraftFails, ShowDraft

(* What a draft holds are ids of articles.                                 *)
LEMMA NewIsInNoDraft ==
  ASSUME Drafted, Table, NEW id, id \notin 1 .. Len(articles)
  PROVE  Made(id) = {}
<1>1. Len(drafts) \in Nat /\ \A d \in 1 .. Len(drafts) : drafts[d] \in Seq(1 .. Len(articles))
  BY DEF Drafted
<1>2. ASSUME NEW d \in 1 .. Len(drafts), In(id, drafts[d]) PROVE FALSE
  <2> DEFINE s == drafts[d]
  <2>1. s \in Seq(1 .. Len(articles))
    BY <1>1
  <2> HIDE DEF s
  <2>2. \A i \in 1 .. Len(s) : s[i] \in 1 .. Len(articles)
    BY <2>1
  <2> QED
    BY <1>2, <2>2 DEF In, s
<1> QED
  BY <1>2 DEF Made

LEMMA SavedStep == IInv /\ Next => Saved'
<1> SUFFICES ASSUME IInv, Next, phase' = "saved" PROVE \E n \in 0 .. Len(articles') : SavedAfter(n)'
  BY DEF Saved
<1>1. CASE Save
  <2>0. PICK n \in Nat : n = Len(articles)
    BY DEF IInv, Table
  <2>1. n \in Nat /\ Len(Read) \in Nat
    BY ReadInOrder DEF IInv
  <2>2. Read' = Read /\ page' = page /\ selected' = selected /\ drafts' = drafts
    BY <1>1 DEF Save, reading, Read
  <2>3. /\ Len(articles') = n + Len(Read) /\ \A id \in 1 .. n : articles'[id] = articles[id]
        /\ \A i \in 1 .. Len(Read) :
             articles'[n + i].text = page[Read[i]] /\ articles'[n + i].batch = n + 1
    BY <1>1, <2>0, SaveGrows DEF IInv, Grown
  <2>4. \A id \in 1 .. n : articles[id].batch \in Nat /\ articles[id].batch <= id
    <3>1. articles \in Seq(Row) /\ \A id \in 1 .. n : articles[id].batch <= id
      BY <2>0 DEF IInv, Table
    <3>2. \A x \in Row : x.batch \in Nat
      BY DEF Row
    <3> HIDE DEF Row
    <3> QED
      BY <2>0, <3>1, <3>2
  <2>5. \A i \in 1 .. Len(selected) : selected[i] <= n
    <3>1. selected \in Seq(1 .. n)
      BY <2>0 DEF IInv, Session
    <3> QED
      BY <2>1, <3>1
  <2>6. ASSUME NEW d \in 1 .. Len(drafts), NEW i \in 1 .. Len(drafts[d]) PROVE drafts[d][i] <= n
    <3> DEFINE s == drafts[d]
    <3>1. s \in Seq(1 .. n)
      BY <2>0 DEF IInv, Drafted
    <3> HIDE DEF s
    <3>2. i \in 1 .. Len(s)
      BY DEF s
    <3>3. s[i] <= n
      BY <2>1, <3>1, <3>2
    <3> QED
      BY <3>3 DEF s
  <2>7. ASSUME NEW id \in 1 .. Len(articles')
        PROVE  IF id <= n THEN articles'[id].batch <= n
               ELSE articles'[id].batch = n + 1 /\ articles'[id].text = page[Read[id - n]]
    <3>1. CASE id <= n
      <4>1. id \in 1 .. n
        BY <2>1, <2>3, <3>1
      <4>2. articles'[id] = articles[id] /\ articles[id].batch \in Nat /\ articles[id].batch <= id
        BY <2>3, <2>4, <4>1
      <4>3. articles'[id].batch <= n
        BY <2>1, <3>1, <4>1, <4>2
      <4> QED
        BY <3>1, <4>3
    <3>2. CASE ~ (id <= n)
      <4> DEFINE i == id - n
      <4>1. i \in 1 .. Len(Read) /\ n + i = id
        BY <2>1, <2>3, <3>2
      <4> HIDE DEF i
      <4>2. articles'[id].text = page[Read[i]] /\ articles'[id].batch = n + 1
        BY <2>3, <4>1
      <4> QED
        BY <3>2, <4>2 DEF i
    <3> QED
      BY <3>1, <3>2
  <2>8. SavedAfter(n)'
    BY <2>2, <2>3, <2>5, <2>6, <2>7 DEF SavedAfter
  <2>9. n \in 0 .. Len(articles')
    BY <2>1, <2>3
  <2> QED
    BY <2>8, <2>9
<1> QED
  BY <1>1 DEF Next, Paste, FetchOk, FetchFails, AddManual, RemoveArticle, Select, Logout, Interrupt,
     ClickGenerate, DraftFails, DraftPersisted, ShowDraft

LEMMA MadeIsFinite ==
  ASSUME Drafted, NEW id
  PROVE  IsFiniteSet(Made(id)) /\ Cardinality(Made(id)) \in Nat /\ Made(id) \subseteq 1 .. Len(drafts)
<1>1. IsFiniteSet(1 .. Len(drafts)) /\ Made(id) \in SUBSET (1 .. Len(drafts))
  BY FS_Interval DEF Drafted, Made
<1> HIDE DEF Made
<1>2. IsFiniteSet(Made(id))
  BY <1>1, FS_Subset
<1> QED
  BY <1>1, <1>2, FS_CardinalityType

LEMMA CountedStep == IInv /\ Next => Counted'
<1> SUFFICES ASSUME IInv, Next PROVE Counted'
  OBVIOUS
<1>1. /\ Len(articles) \in Nat /\ Len(articles') \in Nat /\ Len(articles) <= Len(articles')
      /\ unseen \in Nat
  BY TableOnlyGrows DEF IInv, Drafted
<1>2. \A id : Cardinality(Made(id)) \in Nat
  BY MadeIsFinite DEF IInv
<1>3. \A id : /\ Cardinality(Made(id)) <= 1 + unseen
              /\ In(id, selected) /\ phase # "drafted" => Cardinality(Made(id)) <= unseen
              /\ Made(id) = {} => Cardinality(Made(id)) <= unseen
  <2> TAKE id
  <2>1. CASE Made(id) = {}
    <3>1. Cardinality(Made(id)) = 0
      BY <2>1, FS_EmptySet
    <3> QED
      BY <1>1, <3>1
  <2>2. CASE Made(id) # {}
    <3>1. id \in 1 .. Len(articles)
      BY <2>2, NewIsInNoDraft DEF IInv
    <3> QED
      BY <2>2, <3>1 DEF IInv, Counted
  <2> QED
    BY <2>1, <2>2
<1>4. CASE DraftPersisted
  <2>1. /\ phase = "drafting" /\ phase' = "drafted" /\ unseen' = unseen
        /\ drafts' = Append(drafts, selected)
    BY <1>4 DEF DraftPersisted
  <2> DEFINE Ids == Seq(1 .. Len(articles))
             n == Len(drafts) + 1
  <2>2. drafts \in Seq(Ids) /\ selected \in Ids
    BY DEF IInv, Drafted, Session
  <2> HIDE DEF Ids
  <2>3. /\ Len(drafts) \in Nat /\ Len(drafts') = n /\ drafts'[n] = selected
        /\ \A d \in 1 .. Len(drafts) : drafts'[d] = drafts[d]
    BY <2>1, <2>2
  <2>4. ASSUME NEW id PROVE Cardinality(Made(id))' <= 1 + unseen
    <3>1. CASE In(id, selected)
      <4>1. Made(id)' = Made(id) \cup {n}
        <5>1. \A d : d \in 1 .. Len(drafts') <=> d \in 1 .. Len(drafts) \/ d = n
          BY <2>3
        <5>2. \A d \in 1 .. Len(drafts) : In(id, drafts'[d]) <=> In(id, drafts[d])
          BY <2>3
        <5>3. In(id, drafts'[n])
          BY <2>3, <3>1
        <5>4. Made(id)' = {d \in 1 .. Len(drafts') : In(id, drafts'[d])}
          BY DEF Made, In
        <5> HIDE DEF n
        <5> QED
          BY <5>1, <5>2, <5>3, <5>4, Zenon DEF Made
      <4>2. IsFiniteSet(Made(id))
        BY MadeIsFinite DEF IInv
      <4>3. Cardinality(Made(id) \cup {n}) <= Cardinality(Made(id)) + 1
        <5>1. Cardinality(Made(id) \cup {n}) =
                IF n \in Made(id) THEN Cardinality(Made(id)) ELSE Cardinality(Made(id)) + 1
          BY <4>2, FS_AddElement
        <5> HIDE DEF n
        <5>2. Cardinality(Made(id)) \in Nat
          BY <1>2
        <5> QED
          BY <5>1, <5>2
      <4>4. Cardinality(Made(id)) <= unseen
        BY <1>3, <2>1, <3>1
      <4>5. Cardinality(Made(id) \cup {n}) \in Nat
        BY <4>2, FS_AddElement, FS_CardinalityType
      <4> QED
        BY <1>1, <1>2, <4>1, <4>3, <4>4, <4>5
    <3>2. CASE ~ In(id, selected)
      <4>1. Made(id)' = Made(id)
        <5>1. \A d : d \in 1 .. Len(drafts') <=> d \in 1 .. Len(drafts) \/ d = n
          BY <2>3
        <5>2. \A d \in 1 .. Len(drafts) : In(id, drafts'[d]) <=> In(id, drafts[d])
          BY <2>3
        <5>3. ~ In(id, drafts'[n])
          BY <2>3, <3>2
        <5>4. Made(id)' = {d \in 1 .. Len(drafts') : In(id, drafts'[d])}
          BY DEF Made, In
        <5> HIDE DEF n
        <5> QED
          BY <5>1, <5>2, <5>3, <5>4, Zenon DEF Made
      <4> QED
        BY <1>3, <4>1
    <3> QED
      BY <3>1, <3>2
  <2> QED
    BY <2>1, <2>4 DEF Counted
<1>5. CASE drafts' = drafts /\ unseen' = unseen /\ phase # "drafted" /\ phase' # "drafted"
           /\ \A id : In(id, selected') => In(id, selected) \/ Made(id) = {}
  <2>1. \A id : Made(id)' = Made(id) /\ In(id, selected)' = In(id, selected')
    BY <1>5 DEF Made, In
  <2> QED
    BY <1>3, <1>5, <2>1 DEF Counted
<1>6. CASE ShowDraft
  <2>1. drafts' = drafts /\ unseen' = unseen /\ selected' = <<>>
    BY <1>6 DEF ShowDraft
  <2>2. \A id : Made(id)' = Made(id) /\ ~ In(id, selected)'
    BY <2>1 DEF Made, In
  <2> QED
    BY <1>3, <2>1, <2>2 DEF Counted
<1>7. CASE Interrupt
  <2>1. /\ drafts' = drafts /\ selected' = selected
        /\ unseen' = IF phase = "drafted" THEN unseen + 1 ELSE unseen
    BY <1>7 DEF Interrupt
  <2>2. \A id : Made(id)' = Made(id) /\ In(id, selected)' = In(id, selected)
    BY <2>1 DEF Made, In
  <2>3. CASE phase = "drafted"
    <3>1. unseen' = unseen + 1
      BY <2>1, <2>3
    <3>2. \A id : /\ Cardinality(Made(id)) <= unseen'
                  /\ Cardinality(Made(id)) <= 1 + unseen'
      BY <1>1, <1>2, <1>3, <3>1
    <3> QED
      BY <2>2, <3>2 DEF Counted
  <2>4. CASE phase # "drafted"
    BY <1>3, <2>1, <2>2, <2>4 DEF Counted
  <2> QED
    BY <2>3, <2>4
<1>8. CASE Save
  BY <1>5, <1>8 DEF Save
<1>9. ASSUME NEW text \in Typed, AddManual(text) PROVE Counted'
  <2>1. /\ phase' = phase /\ phase = "idle" /\ drafts' = drafts /\ unseen' = unseen
        /\ selected' = Append(selected, Len(articles) + 1)
    BY <1>9 DEF AddManual
  <2>2. selected \in Seq(1 .. Len(articles))
    BY DEF IInv, Session
  <2>3. ASSUME NEW id, In(id, selected') PROVE In(id, selected) \/ Made(id) = {}
    <3>1. In(id, selected) \/ id = Len(articles) + 1
      BY <1>1, <2>1, <2>2, <2>3 DEF In
    <3>2. Len(articles) + 1 \notin 1 .. Len(articles)
      BY <1>1
    <3> QED
      BY <3>1, <3>2, NewIsInNoDraft DEF IInv
  <2> QED
    BY <1>5, <2>1, <2>3
<1>10. ASSUME NEW i \in DOMAIN selected, RemoveArticle(i) PROVE Counted'
  <2>1. /\ phase' = phase /\ phase = "idle" /\ drafts' = drafts /\ unseen' = unseen
        /\ selected' = RemoveAt(selected, i)
    BY <1>10 DEF RemoveArticle
  <2>2. selected \in Seq(1 .. Len(articles)) /\ Increasing(selected) /\ i \in 1 .. Len(selected)
    BY DEF IInv, Session
  <2>3. 1 .. Len(articles) \in SUBSET Nat
    BY <1>1
  <2>4. \A id : In(id, selected') => In(id, selected)
    BY <2>1, <2>2, <2>3, RemoveKeeps
  <2> QED
    BY <1>5, <2>1, <2>4
<1>11. CASE Select
  <2>1. phase = "saved" /\ phase' = "idle" /\ drafts' = drafts /\ unseen' = unseen
    BY <1>11 DEF Select
  <2> QED
    BY <1>5, <1>11, <2>1, SelectAppends
<1>12. CASE Logout
  <2>1. /\ phase' = phase /\ phase = "idle" /\ drafts' = drafts /\ unseen' = unseen
        /\ selected' = <<>>
    BY <1>12 DEF Logout
  <2>2. \A id : ~ In(id, selected')
    BY <2>1 DEF In
  <2> QED
    BY <1>5, <2>1, <2>2
<1>13. CASE phase # "drafted" /\ phase' # "drafted" /\ UNCHANGED <<selected, drafts, unseen>>
  BY <1>5, <1>13
<1> QED
  BY <1>4, <1>6, <1>7, <1>8, <1>9, <1>10, <1>11, <1>12, <1>13
     DEF Next, Paste, FetchOk, FetchFails, ClickGenerate, DraftFails

LEMMA Invariance == Spec => []IInv
<1>1. Init => IInv
  <2> SUFFICES ASSUME Init PROVE IInv
    OBVIOUS
  <2>1. /\ phase = "idle" /\ batch = <<>> /\ arrived = <<>> /\ articles = <<>> /\ selected = <<>>
        /\ drafts = <<>> /\ unseen = 0
        /\ fetch = [u \in Urls |-> "none"] /\ page = [u \in Urls |-> <<>>]
    BY DEF Init
  <2>2. Table /\ Counted
    BY <2>1 DEF Table, Counted
  <2>3. Reading
    BY <2>1, IngestionAssumption DEF Reading, IsInjective
  <2>4. Session /\ Drafted /\ Saved
    BY <2>1 DEF Session, Drafted, Saved, Increasing
  <2> QED
    BY <2>2, <2>3, <2>4 DEF IInv
<1>2. IInv /\ Next => IInv'
  <2> SUFFICES ASSUME IInv, Next PROVE IInv'
    OBVIOUS
  <2> QED
    BY TableStep, ReadingStep, SessionStep, DraftedStep, SavedStep, CountedStep DEF IInv
<1>3. IInv /\ UNCHANGED vars => IInv'
  <2> SUFFICES ASSUME IInv, UNCHANGED vars PROVE IInv'
    OBVIOUS
  <2>1. UNCHANGED <<phase, batch, fetch, page, arrived, articles, selected, drafts, unseen>>
    BY DEF vars, reading
  <2>2. Table' /\ Reading' /\ Session' /\ Drafted'
    BY <2>1 DEF IInv, Table, Reading, Session, Drafted, Increasing
  <2>3. Read' = Read
    BY <2>1 DEF Read
  <2>4. Saved'
    BY <2>1, <2>3 DEF IInv, Saved, SavedAfter
  <2>5. Counted'
    BY <2>1 DEF IInv, Counted, Made, In
  <2> QED
    BY <2>2, <2>4, <2>5 DEF IInv
<1> QED
  BY <1>1, <1>2, <1>3, PTL DEF Spec

-----------------------------------------------------------------------------
(* Every variable has the type it is declared with (Ingestion!TypeOK).     *)
THEOREM TypeCorrect == Spec => []TypeOK
<1>1. IInv => TypeOK
  <2> SUFFICES ASSUME IInv PROVE TypeOK
    OBVIOUS
  <2>1. articles \in Seq(Row) /\ DOMAIN articles = 1 .. Len(articles)
    BY DEF IInv, Table
  <2>2. \A x \in Row : x.text \in Pages \cup Typed
    BY DEF Row
  <2>3. \A id \in DOMAIN articles : articles[id].text \in Pages \cup Typed
    <3> HIDE DEF Row
    <3> QED
      BY <2>1, <2>2
  <2>4. \A i \in DOMAIN selected : selected[i] \in DOMAIN articles
    BY <2>1 DEF IInv, Session
  <2>5. (\A d \in DOMAIN drafts : drafts[d] # <<>>) /\ unseen \in 0 .. Len(drafts)
    <3>1. DOMAIN drafts = 1 .. Len(drafts) /\ Len(drafts) \in Nat
      BY DEF IInv, Drafted
    <3> QED
      BY <3>1 DEF IInv, Drafted
  <2> QED
    BY <2>3, <2>4, <2>5 DEF IInv, Reading, Session, TypeOK
<1> QED
  BY <1>1, Invariance, PTL

(* Whatever the texts and the budget, what the model reads of an article   *)
(* fits, and an article that fits is read whole (tokenizer.py:48-86).      *)
THEOREM ArticlesFitTheirBudget == Spec => []TextFits
<1>1. IInv => TextFits
  <2> SUFFICES ASSUME IInv, NEW id \in DOMAIN articles
               PROVE  Fits(articles[id].text, articles[id].kept)
    BY DEF TextFits, Fits
  <2>1. articles \in Seq(Row) /\ id \in 1 .. Len(articles)
    BY DEF IInv, Table
  <2>2. articles[id].kept = Kept(articles[id].text)
    BY <2>1 DEF IInv, Table
  <2>3. articles[id].text \in Pages \cup Typed
    <3>1. articles[id] \in Row
      BY <2>1
    <3> QED
      BY <3>1 DEF Row
  <2> QED
    BY <2>2, <2>3, KeptFits, IngestionAssumption
<1> QED
  BY <1>1, Invariance, PTL

(* Pages stand in the session as they were pasted, whichever came first    *)
(* and whichever failed, and none that was read is missing                 *)
(* (ingestion_service.py:106-126, ui/pages/generate.py:93-111).            *)
THEOREM PagesKeepTheirOrder == Spec => []StoryOrder
<1>1. IInv => StoryOrder
  <2> SUFFICES ASSUME IInv PROVE StoryOrder
    OBVIOUS
  <2>1. ASSUME NEW i \in DOMAIN selected, NEW j \in DOMAIN selected,
               i < j, articles[selected[i]].batch = articles[selected[j]].batch
        PROVE  articles[selected[i]].place < articles[selected[j]].place
    <3>1. /\ selected \in Seq(1 .. Len(articles)) /\ i \in 1 .. Len(selected) /\ j \in 1 .. Len(selected)
          /\ selected[i] < selected[j]
      BY <2>1 DEF IInv, Session, Increasing
    <3>2. selected[i] \in 1 .. Len(articles) /\ selected[j] \in 1 .. Len(articles)
      BY <3>1
    <3> QED
      BY <2>1, <3>1, <3>2 DEF IInv, Table
  <2>2. ASSUME phase = "saved", NEW u \in Urls, fetch[u] = "read"
        PROVE  \E i \in DOMAIN Latest : articles[Latest[i]].text = page[u]
    <3>1. Read \in Seq(Urls)
      BY ReadInOrder DEF IInv
    <3>2. PICK k \in 1 .. Len(Read) : Read[k] = u
      BY <2>2, ReadInOrder DEF IInv, In
    <3>3. Len(Read) \in Nat /\ Len(Read) > 0 /\ Read # <<>>
      BY <3>1, <3>2
    <3>4. PICK n \in 0 .. Len(articles) : SavedAfter(n)
      BY <2>2, <3>3 DEF IInv, Saved
    <3>5. /\ Latest \in Seq(n + 1 .. Len(articles))
          /\ \A id \in n + 1 .. Len(articles) : In(id, Latest)
      BY <3>3, <3>4, LatestIsSaved DEF IInv
    <3>6. n \in Nat /\ Len(articles) \in Nat /\ Len(articles) = n + Len(Read)
      BY <3>4 DEF IInv, Table, SavedAfter
    <3> DEFINE id == n + k
    <3>7. id \in n + 1 .. Len(articles) /\ id \in 1 .. Len(articles) /\ ~ (id <= n) /\ id - n = k
      BY <3>3, <3>6
    <3> HIDE DEF id
    <3>8. articles[id].text = page[u]
      BY <3>2, <3>4, <3>7 DEF SavedAfter
    <3>9. PICK i \in 1 .. Len(Latest) : Latest[i] = id
      BY <3>5, <3>7 DEF In
    <3>10. i \in DOMAIN Latest
      BY <3>5
    <3> QED
      BY <3>8, <3>9, <3>10
  <2> QED
    BY <2>1, <2>2 DEF StoryOrder
<1> QED
  BY <1>1, Invariance, PTL

(* An article makes a second newsletter only after a run that broke off    *)
(* before the page was told (ui/pages/generate.py:225-244).                *)
THEOREM ArticlesMakeOneNewsletter == Spec => []DraftedOnce
<1>1. IInv => DraftedOnce
  <2> SUFFICES ASSUME IInv, NEW id \in DOMAIN articles
               PROVE  Cardinality({d \in DOMAIN drafts : id \in ToSet(drafts[d])}) <= 1 + unseen
    BY DEF DraftedOnce
  <2>1. DOMAIN articles = 1 .. Len(articles) /\ DOMAIN drafts = 1 .. Len(drafts)
    BY DEF IInv, Table, Drafted
  <2>2. ASSUME NEW d \in 1 .. Len(drafts) PROVE id \in ToSet(drafts[d]) <=> In(id, drafts[d])
    <3> DEFINE s == drafts[d]
    <3>1. s \in Seq(1 .. Len(articles))
      BY DEF IInv, Drafted
    <3> HIDE DEF s
    <3>2. id \in ToSet(s) <=> In(id, s)
      BY <3>1 DEF ToSet, In
    <3> QED
      BY <3>2 DEF s
  <2>3. {d \in DOMAIN drafts : id \in ToSet(drafts[d])} = Made(id)
    BY <2>1, <2>2, Zenon DEF Made
  <2> QED
    BY <2>1, <2>3 DEF IInv, Counted
<1> QED
  BY <1>1, Invariance, PTL
=============================================================================
