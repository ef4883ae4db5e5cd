--------------------------- MODULE DeliveryProofs ---------------------------
(***************************************************************************)
(* Delivery, for every set of addresses, of files and of senders.  A       *)
(* campaign has one run, ever: claiming it leaves the sendable states and  *)
(* nothing returns to them.  So what that run has done with its targets is *)
(* all that has happened to the campaign's addresses.                      *)
(***************************************************************************)
EXTENDS Delivery, FiniteSetTheorems, SequenceTheorems, WellFoundedInduction, TLAPS

Settled == {"SENT", "PARTIAL_FAILURE", "FAILED"}
Holds(p) == pc[p] \in {"claimed", "sending", "aborted"}

Mailed  == {a \in Addresses : acked[a] > 0}
Sent(p) == {k \in 1 .. Len(results[p]) : results[p][k] = "SENT"}

(* Neither an id nor an address stands twice among the targets of a run.   *)
GoodPlan(t) ==
  /\ t \in Seq([id : Nat, email : Addresses])
  /\ \A i, j \in 1 .. Len(t) : t[i].id = t[j].id \/ t[i].email = t[j].email => i = j

(* No address stands twice in the list, so none does among the targets.    *)
Lists ==
  /\ IsInjective(list)
  /\ \A p \in Senders : GoodPlan(plan[p])

(* Before the claim nothing has been mailed or recorded; after it there is *)
(* at most one run.                                                        *)
Sole ==
  /\ status \in SendableStates \cup {"SENDING"} \cup Settled
  /\ status \in SendableStates => records = {} /\ Mailed = {}
  /\ \A p \in Senders : InRun(p) => status = "SENDING"
  /\ \A p, q \in Senders : InRun(p) /\ InRun(q) => p = q

(* The run has mailed the targets it has an outcome SENT for, no others.   *)
Progressed(p) ==
  /\ pc[p] \notin {"sending", "aborted", "recorded"} =>
       results[p] = <<>> /\ got[p] = {}
  /\ Holds(p) =>
       /\ records = {} /\ Len(results[p]) <= Len(plan[p])
       /\ Mailed = {plan[p][k].email : k \in Sent(p)}
       /\ got[p] = {plan[p][k].id : k \in Sent(p)}

Progress == \A p \in Senders : Progressed(p)

Once == \A a \in Addresses : acked[a] <= 1

Counted ==
  \A p \in Senders : InRun(p) => IsFiniteSet(Mailed) /\ Cardinality(Mailed) = Oks(p)

IInv == TypeOK /\ Lists /\ Sole /\ Progress /\ Once /\ Counted /\ SettledCountsMail

-----------------------------------------------------------------------------
(* Induction on the natural numbers, from the minimal counterexample that  *)
(* a well-founded order has.                                               *)
LEMMA Least ==
  ASSUME NEW S \in SUBSET Nat, S # {}
  PROVE  \E m \in S : \A k \in S : m <= k
<1>1. IsWellFoundedOn(OpToRel(<, Nat), Nat)
  BY NatLessThanWellFounded
<1>2. PICK m \in S : \A k \in S : ~ (<<k, m>> \in OpToRel(<, Nat))
  BY <1>1, WFMin
<1>3. \A k \in S : ~ (k < m)
  BY <1>2 DEF OpToRel
<1> QED
  BY <1>3

LEMMA UpTo ==
  ASSUME NEW n \in Nat, NEW S, 0 \in S,
         \A k \in 1 .. n : k - 1 \in S => k \in S
  PROVE  \A k \in 0 .. n : k \in S
<1> DEFINE Missing == {k \in 0 .. n : k \notin S}
<1> SUFFICES ASSUME Missing # {} PROVE FALSE
  OBVIOUS
<1>1. Missing \in SUBSET Nat
  OBVIOUS
<1>2. PICK m \in Missing : \A k \in Missing : m <= k
  <2> HIDE DEF Missing
  <2> QED
    BY <1>1, Least
<1>3. m \in 1 .. n /\ m - 1 \in 0 .. n
  BY <1>2
<1>4. m - 1 \in S
  BY <1>2, <1>3
<1> QED
  BY <1>2, <1>3, <1>4

(* A function may be defined by recursion on the numbers up to n.          *)
Iterates(f, n, first, step) ==
  f[0] = first /\ \A k \in 1 .. n : f[k] = step[k][f[k - 1]]

LEMMA RecursiveFunctionExists ==
  ASSUME NEW n \in Nat, NEW S, NEW first \in S, NEW step \in [1 .. n -> [S -> S]]
  PROVE  \E f \in [0 .. n -> S] : Iterates(f, n, first, step)
<1> DEFINE Starts(f, k) == Iterates(f, k, first, step)
           Reached == {k \in 0 .. n : \E f \in [0 .. k -> S] : Starts(f, k)}
<1>1. 0 \in Reached
  <2> DEFINE g == [i \in 0 .. 0 |-> first]
  <2>1. g \in [0 .. 0 -> S] /\ Starts(g, 0)
    BY DEF Iterates
  <2> HIDE DEF g
  <2> QED
    BY <2>1
<1>2. ASSUME NEW k \in 1 .. n, k - 1 \in Reached
      PROVE  k \in Reached
  <2>1. PICK f \in [0 .. k - 1 -> S] : Starts(f, k - 1)
    BY <1>2
  <2> HIDE DEF Reached
  <2> DEFINE g == [i \in 0 .. k |-> IF i = k THEN step[k][f[k - 1]] ELSE f[i]]
  <2>2. f[k - 1] \in S
    OBVIOUS
  <2>3. step[k] \in [S -> S]
    OBVIOUS
  <2>4. step[k][f[k - 1]] \in S
    BY <2>2, <2>3
  <2>5. g \in [0 .. k -> S]
    BY <2>4
  <2>6. g[0] = first
    BY <2>1 DEF Iterates
  <2>7. ASSUME NEW i \in 1 .. k PROVE g[i] = step[i][g[i - 1]]
    <3>1. i - 1 \in 0 .. k /\ i - 1 # k /\ i \in 0 .. k
      OBVIOUS
    <3>2. g[i - 1] = f[i - 1]
      BY <3>1
    <3>3. CASE i = k
      BY <3>1, <3>2, <3>3
    <3>4. CASE i # k
      <4>1. i \in 1 .. k - 1
        BY <3>4
      <4> QED
        BY <2>1, <3>1, <3>2, <3>4, <4>1 DEF Iterates
    <3> QED
      BY <3>3, <3>4
  <2> HIDE DEF g
  <2>8. Starts(g, k)
    BY <2>6, <2>7 DEF Iterates
  <2>9. k \in 0 .. n
    OBVIOUS
  <2> HIDE DEF Starts
  <2> QED
    BY <2>5, <2>8, <2>9 DEF Reached
<1>3. n \in Reached
  <2> HIDE DEF Reached
  <2>1. \A k \in 1 .. n : k - 1 \in Reached => k \in Reached
    BY <1>2
  <2>2. \A k \in 0 .. n : k \in Reached
    BY <1>1, <2>1, UpTo, Zenon
  <2> QED
    BY <2>2
<1> QED
  BY <1>3

-----------------------------------------------------------------------------
(* What the two filters of the list return.                                *)

(* validate_recipients keeps no address twice.                             *)
LEMMA ValidKeepsEachOnce ==
  ASSUME NEW file \in Seq(Addresses)
  PROVE  Valid(file) \in Seq(Addresses) /\ IsInjective(Valid(file))
<1> DEFINE n == Len(file)
           S == Seq(Addresses)
           Add(s, k) == IF Contains(s, file[k]) \/ file[k] \in suppressed
                          THEN s ELSE Append(s, file[k])
           IsKeep(f) == f = [k \in 0 .. n |->
                               IF k = 0 THEN <<>>
                               ELSE IF Contains(f[k - 1], file[k]) \/ file[k] \in suppressed
                                      THEN f[k - 1] ELSE Append(f[k - 1], file[k])]
           keep == CHOOSE f : IsKeep(f)
           Good == {k \in 0 .. n : keep[k] \in S /\ IsInjective(keep[k])}
<1>1. n \in Nat /\ \A k \in 1 .. n : file[k] \in Addresses
  OBVIOUS
<1>2. \E f : IsKeep(f)
  <2> DEFINE step == [k \in 1 .. n |-> [s \in S |-> Add(s, k)]]
  <2>1. \A k \in 1 .. n, s \in S : Add(s, k) \in S
    BY <1>1
  <2>2. step \in [1 .. n -> [S -> S]]
    BY <2>1
  <2>3. <<>> \in S
    OBVIOUS
  <2>4. PICK f \in [0 .. n -> S] : Iterates(f, n, <<>>, step)
    <3> HIDE DEF step, S, n
    <3> QED
      BY <1>1, <2>2, <2>3, RecursiveFunctionExists
  <2>5. ASSUME NEW k \in 1 .. n PROVE f[k] = Add(f[k - 1], k)
    <3>1. k - 1 \in 0 .. n
      BY <1>1
    <3>2. f[k - 1] \in S
      BY <3>1
    <3> HIDE DEF Add
    <3> QED
      BY <2>4, <3>2 DEF Iterates
  <2> DEFINE body == [k \in 0 .. n |-> IF k = 0 THEN <<>> ELSE Add(f[k - 1], k)]
  <2>6. ASSUME NEW k \in 0 .. n PROVE f[k] = body[k]
    <3> HIDE DEF Add
    <3>1. body[k] = IF k = 0 THEN <<>> ELSE Add(f[k - 1], k)
      OBVIOUS
    <3>2. k # 0 => k \in 1 .. n
      BY <1>1
    <3> HIDE DEF body
    <3> QED
      BY <2>4, <2>5, <3>1, <3>2 DEF Iterates
  <2>7. f = body
    <3>1. body = [k \in 0 .. n |-> body[k]] /\ f = [k \in 0 .. n |-> f[k]]
      OBVIOUS
    <3> HIDE DEF body
    <3> QED
      BY <2>6, <3>1
  <2>8. IsKeep(f)
    BY <2>7
  <2> QED
    BY <2>8
<1>3. IsKeep(keep)
  <2> HIDE DEF IsKeep
  <2> QED
    BY <1>2
<1>4. Valid(file) = keep[n]
  BY DEF Valid
<1> HIDE DEF keep, n, S
<1>5. keep[0] = <<>> /\ \A k \in 1 .. n : keep[k] = Add(keep[k - 1], k)
  <2>1. keep[0] = <<>>
    BY <1>1, <1>3
  <2>2. ASSUME NEW k \in 1 .. n PROVE keep[k] = Add(keep[k - 1], k)
    <3>1. k \in 0 .. n /\ k # 0
      BY <1>1
    <3> QED
      BY <1>3, <3>1
  <2> QED
    BY <2>1, <2>2
<1>6. 0 \in Good
  <2>1. keep[0] = <<>>
    BY <1>5
  <2>2. <<>> \in S
    BY DEF S
  <2>3. IsInjective(<<>>)
    BY DEF IsInjective
  <2> QED
    BY <1>1, <2>1, <2>2, <2>3
<1>7. ASSUME NEW k \in 1 .. n, k - 1 \in Good
      PROVE  k \in Good
  <2> DEFINE s == keep[k - 1]
  <2>1. s \in S /\ IsInjective(s)
    BY <1>7
  <2>2. keep[k] = Add(s, k)
    BY <1>5
  <2>3. CASE Contains(s, file[k]) \/ file[k] \in suppressed
    BY <2>1, <2>2, <2>3, <1>1
  <2>4. CASE ~ Contains(s, file[k]) /\ file[k] \notin suppressed
    <3> DEFINE t == Append(s, file[k])
    <3> HIDE DEF s
    <3> USE DEF S
    <3>1. t \in S /\ Len(t) = Len(s) + 1 /\ t[Len(s) + 1] = file[k]
          /\ \A i \in 1 .. Len(s) : t[i] = s[i]
      BY <1>1, <2>1
    <3>2. \A i \in 1 .. Len(s) : s[i] # file[k]
      BY <2>4 DEF Contains
    <3>3. IsInjective(t)
      BY <2>1, <3>1, <3>2 DEF IsInjective
    <3>4. keep[k] = t
      BY <2>2, <2>4
    <3>5. k \in 0 .. n
      BY <1>1
    <3> HIDE DEF S, t
    <3> QED
      BY <3>1, <3>3, <3>4, <3>5
  <2> QED
    BY <2>3, <2>4
<1>8. n \in Good
  <2> HIDE DEF Good
  <2>1. \A k \in 1 .. n : k - 1 \in Good => k \in Good
    BY <1>7
  <2>2. \A k \in 0 .. n : k \in Good
    BY <1>1, <1>6, <2>1, UpTo, Zenon
  <2> QED
    BY <1>1, <2>2
<1> QED
  BY <1>4, <1>8 DEF S

(* The targets are the rows, so neither an id nor an address is repeated.  *)
LEMMA TargetsDiffer ==
  ASSUME base \in Nat, list \in Seq(Addresses), IsInjective(list)
  PROVE  GoodPlan(Targets)
<1> DEFINE n == Len(list)
<1>1. n \in Nat /\ \A k \in 1 .. n : list[k] \in Addresses
  OBVIOUS
<1>2. Targets = [k \in 1 .. n |-> [id |-> base + k, email |-> list[k]]]
  BY DEF Targets, Id
<1>3. Targets \in Seq([id : Nat, email : Addresses]) /\ Len(Targets) = n
  <2>1. \A k \in 1 .. n : [id |-> base + k, email |-> list[k]] \in [id : Nat, email : Addresses]
    BY <1>1
  <2> QED
    BY <1>1, <1>2, <2>1
<1>4. ASSUME NEW i \in 1 .. n, NEW j \in 1 .. n,
             Targets[i].id = Targets[j].id \/ Targets[i].email = Targets[j].email
      PROVE  i = j
  <2>1. base + i = base + j \/ list[i] = list[j]
    BY <1>2, <1>4
  <2> QED
    BY <1>1, <2>1 DEF IsInjective
<1> QED
  BY <1>3, <1>4 DEF GoodPlan

(* What is left of them for a retry is a selection, in their order.        *)
LEMMA UndeliveredDiffer ==
  ASSUME base \in Nat, list \in Seq(Addresses), IsInjective(list)
  PROVE  GoodPlan(Undelivered)
<1> DEFINE n == Len(list)
           Row == [id : Nat, email : Addresses]
           S == Seq(Row)
           T == Targets
           Add(s, k) == IF Id(k) \in SentIds THEN s ELSE Append(s, T[k])
           IsLeft(f) == f = [k \in 0 .. n |->
                               IF k = 0 THEN <<>>
                               ELSE IF Id(k) \in SentIds
                                      THEN f[k - 1] ELSE Append(f[k - 1], Targets[k])]
           left == CHOOSE f : IsLeft(f)
           From(s, k) == \A i \in 1 .. Len(s) : \E j \in 1 .. k : s[i] = T[j]
           Good == {k \in 0 .. n : GoodPlan(left[k]) /\ From(left[k], k)}
<1>1. n \in Nat /\ Len(T) = n
  BY DEF Targets
<1>2. GoodPlan(T)
  BY TargetsDiffer
<1>3. /\ \A k \in 1 .. n : T[k] \in Row
      /\ \A i, j \in 1 .. n : T[i].id = T[j].id \/ T[i].email = T[j].email => i = j
  <2>1. T \in S
    BY <1>2 DEF GoodPlan
  <2>2. \A i, j \in 1 .. Len(T) : T[i].id = T[j].id \/ T[i].email = T[j].email => i = j
    BY <1>2, Zenon DEF GoodPlan
  <2> HIDE DEF T, Row, n
  <2> QED
    BY <1>1, <2>1, <2>2
<1>4. Undelivered = left[n]
  BY DEF Undelivered
<1>5. \E f : IsLeft(f)
  <2> DEFINE step == [k \in 1 .. n |-> [s \in S |-> Add(s, k)]]
  <2>1. \A k \in 1 .. n, s \in S : Add(s, k) \in S
    <3> HIDE DEF T, Row
    <3> QED
      BY <1>1, <1>3
  <2>2. step \in [1 .. n -> [S -> S]]
    <3> HIDE DEF Add, S
    <3> QED
      BY <2>1
  <2>3. <<>> \in S
    OBVIOUS
  <2>4. PICK f \in [0 .. n -> S] : Iterates(f, n, <<>>, step)
    <3> HIDE DEF step, S, n
    <3> QED
      BY <1>1, <2>2, <2>3, RecursiveFunctionExists
  <2>5. ASSUME NEW k \in 1 .. n PROVE f[k] = Add(f[k - 1], k)
    <3>1. k - 1 \in 0 .. n
      BY <1>1
    <3>2. f[k - 1] \in S
      BY <3>1
    <3> HIDE DEF Add, S
    <3> QED
      BY <2>4, <3>2 DEF Iterates
  <2> DEFINE body == [k \in 0 .. n |-> IF k = 0 THEN <<>> ELSE Add(f[k - 1], k)]
  <2>6. ASSUME NEW k \in 0 .. n PROVE f[k] = body[k]
    <3> HIDE DEF Add
    <3>1. body[k] = IF k = 0 THEN <<>> ELSE Add(f[k - 1], k)
      OBVIOUS
    <3>2. k # 0 => k \in 1 .. n
      BY <1>1
    <3> HIDE DEF body
    <3> QED
      BY <2>4, <2>5, <3>1, <3>2 DEF Iterates
  <2>7. f = body
    <3>1. body = [k \in 0 .. n |-> body[k]] /\ f = [k \in 0 .. n |-> f[k]]
      OBVIOUS
    <3> HIDE DEF body
    <3> QED
      BY <2>6, <3>1
  <2>8. IsLeft(f)
    BY <2>7
  <2> QED
    BY <2>8
<1>6. IsLeft(left)
  <2> HIDE DEF IsLeft
  <2> QED
    BY <1>5
<1> HIDE DEF left, n, T
<1>7. left[0] = <<>> /\ \A k \in 1 .. n : left[k] = Add(left[k - 1], k)
  <2>1. left[0] = <<>>
    BY <1>1, <1>6
  <2>2. ASSUME NEW k \in 1 .. n PROVE left[k] = Add(left[k - 1], k)
    <3>1. k \in 0 .. n /\ k # 0
      BY <1>1
    <3> QED
      BY <1>6, <3>1 DEF T
  <2> QED
    BY <2>1, <2>2
<1>8. 0 \in Good
  <2>1. left[0] = <<>> /\ 0 \in 0 .. n
    BY <1>1, <1>7
  <2>2. GoodPlan(<<>>) /\ From(<<>>, 0)
    BY DEF GoodPlan
  <2> HIDE DEF From
  <2> QED
    BY <2>1, <2>2
<1>9. ASSUME NEW k \in 1 .. n, k - 1 \in Good
      PROVE  k \in Good
  <2> DEFINE s == left[k - 1]
  <2>1. GoodPlan(s) /\ From(s, k - 1)
    BY <1>9
  <2>2. left[k] = Add(s, k) /\ k \in 0 .. n
    BY <1>1, <1>7
  <2> HIDE DEF s
  <2>3. CASE Id(k) \in SentIds
    BY <1>1, <2>1, <2>2, <2>3
  <2>4. CASE Id(k) \notin SentIds
    <3> DEFINE t == Append(s, T[k])
    <3>1. s \in S
      BY <2>1 DEF GoodPlan
    <3>2. t \in S /\ Len(t) = Len(s) + 1 /\ t[Len(s) + 1] = T[k]
          /\ \A i \in 1 .. Len(s) : t[i] = s[i]
      <4> HIDE DEF Row
      <4> QED
        BY <1>3, <3>1
    <3> HIDE DEF t
    <3>3. Len(s) \in Nat
      BY <3>1
    <3>4. From(t, k)
      BY <1>1, <2>1, <3>2, <3>3
    <3>5. ASSUME NEW i \in 1 .. Len(s)
          PROVE  s[i].id # T[k].id /\ s[i].email # T[k].email
      <4>1. PICK j \in 1 .. k - 1 : s[i] = T[j]
        BY <2>1, <3>5
      <4>2. j \in 1 .. n /\ j # k
        BY <1>1
      <4> QED
        BY <1>3, <4>1, <4>2
    <3>6. ASSUME NEW i \in 1 .. Len(t), NEW j \in 1 .. Len(t),
                 t[i].id = t[j].id \/ t[i].email = t[j].email
          PROVE  i = j
      <4>1. \A x \in 1 .. Len(t) : x \in 1 .. Len(s) \/ x = Len(s) + 1
        BY <3>2, <3>3
      <4> QED
        BY <2>1, <3>2, <3>5, <3>6, <4>1 DEF GoodPlan
    <3>7. GoodPlan(t)
      BY <3>2, <3>6 DEF GoodPlan
    <3>8. left[k] = t
      BY <2>2, <2>4 DEF t
    <3> HIDE DEF From
    <3> QED
      BY <2>2, <3>4, <3>7, <3>8
  <2> QED
    BY <2>3, <2>4
<1>10. n \in Good
  <2> HIDE DEF Good
  <2>1. \A k \in 1 .. n : k - 1 \in Good => k \in Good
    BY <1>9
  <2>2. \A k \in 0 .. n : k \in Good
    BY <1>1, <1>8, <2>1, UpTo, Zenon
  <2> QED
    BY <1>1, <2>2
<1> QED
  BY <1>4, <1>10

-----------------------------------------------------------------------------
(* Types, and lists without repetition.                                    *)

LEMMA SendsAreCounted ==
  ASSUME TypeOK, NEW p \in Senders
  PROVE  /\ IsFiniteSet(Sent(p)) /\ Oks(p) = Cardinality(Sent(p))
         /\ Len(results[p]) \in Nat /\ Oks(p) \in 0 .. Len(results[p])
         /\ Oks(p) = Len(results[p]) => Sent(p) = 1 .. Len(results[p])
<1> DEFINE n == Len(results[p])
<1>1. n \in Nat
  BY DEF TypeOK
<1>2. IsFiniteSet(1 .. n) /\ Cardinality(1 .. n) = n
  BY <1>1, FS_Interval
<1>3. Sent(p) \subseteq 1 .. n
  BY DEF Sent
<1>4. /\ IsFiniteSet(Sent(p)) /\ Cardinality(Sent(p)) <= Cardinality(1 .. n)
      /\ Cardinality(Sent(p)) = Cardinality(1 .. n) => Sent(p) = 1 .. n
  BY <1>2, <1>3, FS_Subset
<1>5. Cardinality(Sent(p)) \in Nat
  BY <1>4, FS_CardinalityType
<1>6. Oks(p) = Cardinality(Sent(p))
  BY DEF Oks, Sent
<1> HIDE DEF n
<1>7. Oks(p) \in 0 .. n /\ (Oks(p) = n => Sent(p) = 1 .. n)
  BY <1>1, <1>2, <1>4, <1>5, <1>6
<1> QED
  BY <1>1, <1>4, <1>6, <1>7 DEF n

LEMMA IdleTyped ==
  ASSUME TypeOK, Lists, NEW p \in Senders, Idle(p)
  PROVE  /\ pc' \in [Senders -> {"idle", "sendread", "retryread"} \cup RunPC]
         /\ plan' \in [Senders -> Seq([id : Nat, email : Addresses])]
         /\ results' \in [Senders -> Seq(SendStatus)]
         /\ tries' \in [Senders -> 0 .. MaxRetries]
         /\ got' \in [Senders -> SUBSET Nat]
         /\ \A q \in Senders : GoodPlan(plan'[q])
<1>1. GoodPlan(<<>>)
  BY DEF GoodPlan
<1>2. 0 \in 0 .. MaxRetries
  BY DeliveryAssumption
<1>3. /\ pc' \in [Senders -> {"idle", "sendread", "retryread"} \cup RunPC]
      /\ plan' \in [Senders -> Seq([id : Nat, email : Addresses])]
      /\ results' \in [Senders -> Seq(SendStatus)]
  <2>1. pc' \in [Senders -> {"idle", "sendread", "retryread"} \cup RunPC]
    BY DEF TypeOK, Idle
  <2> DEFINE Row == [id : Nat, email : Addresses]
  <2>2. plan' \in [Senders -> Seq(Row)]
    <3>1. plan \in [Senders -> Seq(Row)] /\ plan' = [plan EXCEPT ![p] = <<>>]
      BY DEF TypeOK, Idle
    <3> HIDE DEF Row
    <3>2. <<>> \in Seq(Row)
      OBVIOUS
    <3> QED
      BY <3>1, <3>2
  <2>3. results' \in [Senders -> Seq(SendStatus)]
    BY DEF TypeOK, Idle
  <2> QED
    BY <2>1, <2>2, <2>3
<1>4. tries' \in [Senders -> 0 .. MaxRetries] /\ got' \in [Senders -> SUBSET Nat]
  BY <1>2 DEF TypeOK, Idle
<1>5. \A q \in Senders : plan'[q] \in {<<>>, plan[q]}
  BY DEF TypeOK, Idle
<1>6. \A q \in Senders : GoodPlan(plan'[q])
  BY <1>1, <1>5 DEF Lists
<1> QED
  BY <1>3, <1>4, <1>6

LEMMA StepKeepsLists == TypeOK /\ Lists /\ [Next]_vars => TypeOK' /\ Lists'
<1> SUFFICES ASSUME TypeOK, Lists, Next \/ UNCHANGED vars PROVE TypeOK' /\ Lists'
  OBVIOUS
<1> USE DeliveryAssumption
<1>1. ASSUME NEW f \in Files, NEW b \in {base, base + Len(list)}, Attach(f, b)
      PROVE  TypeOK' /\ Lists'
  <2>1. Valid(f) \in Seq(Addresses) /\ IsInjective(Valid(f))
    BY ValidKeepsEachOnce
  <2>2. b \in Nat /\ Len(Valid(f)) \in Nat
    BY <2>1 DEF TypeOK
  <2>3. base' = b /\ list' = Valid(f) /\ records' = {} /\ uploads' = uploads + 1
        /\ rollup' = [rollup EXCEPT !.recipients = Len(Valid(f))]
        /\ UNCHANGED <<status, suppressed, run, crashes, ghost>>
    BY <1>1 DEF Attach
  <2>4. rollup' \in [recipients : Nat, sent : Nat, failed : Nat]
    BY <2>2, <2>3 DEF TypeOK
  <2>5. TypeOK'
    <3>1. base' \in Nat /\ list' \in Seq(Addresses) /\ uploads' \in Nat
          /\ records' \subseteq [recipient : Nat, status : SendStatus]
      BY <2>1, <2>2, <2>3 DEF TypeOK
    <3> QED
      BY <2>3, <2>4, <3>1 DEF TypeOK, run, ghost
  <2>6. IsInjective(list)' /\ plan' = plan
    BY <2>1, <2>3, Zenon DEF run, IsInjective
  <2> QED
    BY <2>5, <2>6 DEF Lists
<1>2. ASSUME NEW a \in OptOuts, Suppress(a) PROVE TypeOK' /\ Lists'
  BY <1>2 DEF TypeOK, Lists, Suppress, rows, run, ghost
<1>3. ASSUME NEW p \in Senders, NEW at \in {"sendread", "retryread"}, NEW targets,
             GoodPlan(targets), Reads(p, at, targets)
      PROVE  TypeOK' /\ Lists'
  <2>1. targets \in Seq([id : Nat, email : Addresses])
    BY <1>3 DEF GoodPlan
  <2>2. TypeOK' /\ list' = list
    BY <1>3, <2>1 DEF TypeOK, Reads, rows, ghost
  <2>3. \A q \in Senders : plan'[q] = targets \/ plan'[q] = plan[q]
    BY <1>3 DEF TypeOK, Reads
  <2> QED
    BY <1>3, <2>2, <2>3 DEF Lists
<1>4. ASSUME NEW p \in Senders, Claim(p) \/ Begin(p) \/ AccountFails(p)
      PROVE  TypeOK' /\ Lists'
  BY <1>4 DEF TypeOK, Lists, Claim, Begin, AccountFails, CampaignStatus, RunPC,
              rows, ghost
<1>5. ASSUME NEW p \in Senders,
             Refuse(p) \/ RaiseBeforeMail(p) \/ PersistFails(p) \/ Crash(p)
      PROVE  TypeOK' /\ Lists'
  <2>1. Idle(p) /\ UNCHANGED <<status, rows, rollup, suppressed, uploads, acked, optedOut>>
        /\ crashes' \in Nat
    BY <1>5 DEF Refuse, RaiseBeforeMail, PersistFails, Crash, TypeOK
  <2> QED
    BY <2>1, IdleTyped DEF TypeOK, Lists, rows
<1>6. ASSUME NEW p \in Senders, Accept(p) PROVE TypeOK' /\ Lists'
  <2> DEFINE t == Current(p)
  <2>1. t \in [id : Nat, email : Addresses]
    <3>1. Len(results[p]) + 1 \in 1 .. Len(plan[p])
      BY <1>6 DEF Accept, Mailing, TypeOK
    <3> DEFINE Row == [id : Nat, email : Addresses]
    <3>2. plan[p] \in Seq(Row)
      BY DEF TypeOK
    <3> HIDE DEF Row
    <3>3. Current(p) \in Row
      BY <3>1, <3>2 DEF Current
    <3> QED
      BY <3>3 DEF Row
  <2>2. /\ results' = [results EXCEPT ![p] = Append(@, "SENT")]
        /\ tries' = [tries EXCEPT ![p] = 0]
        /\ acked' = [acked EXCEPT ![t.email] = @ + 1]
        /\ got' = [got EXCEPT ![p] = @ \cup {t.id}]
        /\ optedOut' = optedOut \cup ({t.email} \cap suppressed)
        /\ UNCHANGED <<status, rows, rollup, suppressed, pc, plan, uploads, crashes>>
    BY <1>6 DEF Accept, Done
  <2> HIDE DEF t
  <2>3. results' \in [Senders -> Seq(SendStatus)] /\ tries' \in [Senders -> 0 .. MaxRetries]
    BY <2>2 DEF TypeOK, SendStatus
  <2>4. acked' \in [Addresses -> Nat] /\ got' \in [Senders -> SUBSET Nat]
        /\ optedOut' \subseteq Addresses
    BY <2>1, <2>2 DEF TypeOK
  <2> QED
    BY <2>2, <2>3, <2>4 DEF TypeOK, Lists, rows
<1>7. ASSUME NEW p \in Senders, Reject(p) \/ Busy(p) PROVE TypeOK' /\ Lists'
  <2>1. UNCHANGED <<status, rows, rollup, suppressed, pc, plan, uploads, crashes, ghost>>
    BY <1>7 DEF Reject, Busy
  <2>2. results' \in [Senders -> Seq(SendStatus)] /\ tries' \in [Senders -> 0 .. MaxRetries]
    <3>1. CASE Done(p, "FAILED")
      BY <3>1 DEF Done, TypeOK, SendStatus
    <3>2. CASE tries[p] < MaxRetries /\ tries' = [tries EXCEPT ![p] = @ + 1]
               /\ UNCHANGED results
      BY <3>2 DEF TypeOK
    <3> QED
      BY <1>7, <3>1, <3>2 DEF Reject, Busy
  <2> QED
    BY <2>1, <2>2 DEF TypeOK, Lists, rows, ghost
<1>8. ASSUME NEW p \in Senders, Persist(p) PROVE TypeOK' /\ Lists'
  <2>1. UNCHANGED <<status, base, list, rollup, suppressed, plan, tries, uploads, crashes, ghost>>
        /\ pc' = [pc EXCEPT ![p] = "recorded"]
        /\ results' = [results EXCEPT ![p] = Outcomes(p)]
    BY <1>8 DEF Persist
  <2>2. Outcomes(p) \in Seq(SendStatus)
    <3>1. [k \in 1 .. Oks(p) |-> "SENT"] \in Seq(SendStatus)
      BY SendsAreCounted DEF SendStatus
    <3> QED
      BY <3>1 DEF Outcomes, TypeOK
  <2>3. records' \subseteq [recipient : Nat, status : SendStatus]
    <3> DEFINE n == Len(Outcomes(p))
    <3>1. \A k \in 1 .. n : Outcomes(p)[k] \in SendStatus
      BY <2>2
    <3>2. \A k \in 1 .. n : plan[p][k].id \in Nat
      <4>1. Ids \subseteq Nat
        BY DEF Ids, Id, TypeOK
      <4> QED
        BY <1>8, <4>1 DEF Persist, RowsRemain
    <3>3. records' = records \cup
            {[recipient |-> plan[p][k].id, status |-> Outcomes(p)[k]] : k \in 1 .. n}
      BY <1>8 DEF Persist
    <3> HIDE DEF n
    <3> QED
      BY <3>1, <3>2, <3>3 DEF TypeOK
  <2> QED
    BY <2>1, <2>2, <2>3 DEF TypeOK, Lists, ghost, RunPC
<1>9. ASSUME NEW p \in Senders, Settle(p) PROVE TypeOK' /\ Lists'
  <2> DEFINE sent == Oks(p)
             failed == Len(results[p]) - Oks(p)
  <2>1. sent \in Nat /\ failed \in Nat
    BY SendsAreCounted
  <2>2. rollup' \in [recipients : Nat, sent : Nat, failed : Nat]
    BY <1>9, <2>1 DEF Settle, TypeOK
  <2>3. status' \in CampaignStatus
    BY <1>9 DEF Settle, TypeOK, Transitioned, Outcome, CampaignStatus
  <2>4. Idle(p) /\ UNCHANGED <<rows, suppressed, uploads, crashes, acked, optedOut>>
    BY <1>9 DEF Settle
  <2> QED
    BY <2>2, <2>3, <2>4, IdleTyped DEF TypeOK, Lists, rows
<1>10. CASE UNCHANGED vars
  BY <1>10 DEF TypeOK, Lists, vars, rows, run, ghost
<1>11. CASE Next
  <2> USE <1>11
  <2>1. ASSUME NEW p \in Senders, ReadList(p) \/ ReadUndelivered(p)
        PROVE  TypeOK' /\ Lists'
    <3>1. base \in Nat /\ list \in Seq(Addresses) /\ IsInjective(list)
      BY DEF TypeOK, Lists
    <3>2. GoodPlan(Targets) /\ GoodPlan(Undelivered)
      BY <3>1, TargetsDiffer, UndeliveredDiffer
    <3> QED
      BY <1>3, <2>1, <3>2 DEF ReadList, ReadUndelivered
  <2> QED
    BY <1>1, <1>2, <1>4, <1>5, <1>6, <1>7, <1>8, <1>9, <2>1 DEF Next, RunStep
<1> QED
  BY <1>10, <1>11

-----------------------------------------------------------------------------
(* The kinds of step there are, for what follows.                          *)

Outside ==
  /\ UNCHANGED <<status, acked, pc, plan, results, got>>
  /\ records' \in {records, {}}
  /\ rollup'.sent = rollup.sent

Looks(p) ==
  /\ pc[p] = "idle"
  /\ \E at \in {"sendread", "retryread"} : pc' = [pc EXCEPT ![p] = at]
  /\ \E t : plan' = [plan EXCEPT ![p] = t]
  /\ UNCHANGED <<status, records, rollup, results, acked, got>>

Ends(p) == Idle(p) /\ UNCHANGED <<status, records, rollup, acked>>

Fails(p) ==
  /\ Mailing(p) /\ Done(p, "FAILED")
  /\ UNCHANGED <<status, records, rollup, pc, plan, acked, got>>

LEMMA KindsOfStep ==
  ASSUME TypeOK, Next \/ UNCHANGED vars
  PROVE  \/ Outside
         \/ \E p \in Senders :
              \/ Looks(p) \/ Ends(p) \/ Fails(p)
              \/ Claim(p) \/ Begin(p) \/ Accept(p) \/ AccountFails(p)
              \/ Persist(p) \/ Settle(p)
<1>1. ASSUME NEW f \in Files, NEW b \in {base, base + Len(list)}, Attach(f, b)
      PROVE  Outside
  BY <1>1 DEF Attach, Outside, run, ghost, TypeOK
<1>2. ASSUME NEW a \in OptOuts, Suppress(a) PROVE Outside
  BY <1>2 DEF Suppress, Outside, rows, run, ghost
<1>3. CASE UNCHANGED vars
  BY <1>3 DEF vars, Outside, rows, run, ghost
<1>4. ASSUME NEW p \in Senders, ReadList(p) \/ ReadUndelivered(p) PROVE Looks(p)
  BY <1>4 DEF ReadList, ReadUndelivered, Reads, Looks, rows, ghost
<1>5. ASSUME NEW p \in Senders,
             Refuse(p) \/ RaiseBeforeMail(p) \/ PersistFails(p) \/ Crash(p)
      PROVE  Ends(p)
  BY <1>5 DEF Refuse, RaiseBeforeMail, PersistFails, Crash, Ends, rows
<1>6. ASSUME NEW p \in Senders, Reject(p) \/ Busy(p) PROVE Outside \/ Fails(p)
  BY <1>6 DEF Reject, Busy, Fails, Outside, rows, ghost
<1> QED
  BY <1>1, <1>2, <1>3, <1>4, <1>5, <1>6 DEF Next, RunStep

(* Before the claim there was nothing, and after it there is no other.     *)
LEMMA StepKeepsSole ==
  ASSUME TypeOK, Sole, Next \/ UNCHANGED vars
  PROVE  Sole'
<1> USE DEF Sole, InRun, RunPC, SendableStates, Settled
<1>1. CASE Outside
  BY <1>1 DEF Outside, Mailed
<1>2. ASSUME NEW p \in Senders, Looks(p) PROVE Sole'
  BY <1>2 DEF Looks, Mailed, TypeOK
<1>3. ASSUME NEW p \in Senders, Ends(p) PROVE Sole'
  BY <1>3 DEF Ends, Idle, Mailed, TypeOK
<1>4. ASSUME NEW p \in Senders, Claim(p) PROVE Sole'
  BY <1>4 DEF Claim, TypeOK, rows, ghost
<1>5. ASSUME NEW p \in Senders, Begin(p) \/ AccountFails(p) PROVE Sole'
  BY <1>5 DEF Begin, AccountFails, Mailing, TypeOK, rows, ghost
<1>6. ASSUME NEW p \in Senders, Accept(p) \/ Fails(p) PROVE Sole'
  BY <1>6 DEF Accept, Fails, Mailing, TypeOK, rows
<1>7. ASSUME NEW p \in Senders, Persist(p) PROVE Sole'
  BY <1>7 DEF Persist, BatchOver, TypeOK
<1>8. ASSUME NEW p \in Senders, Settle(p) PROVE Sole'
  <2>1. status = "SENDING" /\ status' \in Settled
    BY <1>8 DEF Settle, Transitioned, SourcesOf, CanTransition, Transitions, Outcome,
                CampaignStatus
  <2> QED
    BY <1>8, <2>1 DEF Settle, Idle, TypeOK, rows
<1> QED
  BY <1>1, <1>2, <1>3, <1>4, <1>5, <1>6, <1>7, <1>8, KindsOfStep

-----------------------------------------------------------------------------
(* What the one run has done.                                              *)

(* A target that is mailed had no outcome before, and was not mailed.      *)
LEMMA AcceptExtends ==
  ASSUME TypeOK, NEW p \in Senders, Accept(p)
  PROVE  /\ Len(results[p]) + 1 \in 1 .. Len(plan[p])
         /\ Current(p).email \in Addresses
         /\ Len(results[p]') = Len(results[p]) + 1
         /\ Sent(p)' = Sent(p) \cup {Len(results[p]) + 1}
         /\ Len(results[p]) + 1 \notin Sent(p)
         /\ Mailed' = Mailed \cup {Current(p).email}
<1> DEFINE n == Len(results[p])
           a == Current(p).email
           r == results[p]
           Row == [id : Nat, email : Addresses]
<1>1. n \in Nat /\ r \in Seq(SendStatus)
  BY DEF TypeOK
<1>2. n + 1 \in 1 .. Len(plan[p])
  BY DEF Accept, Mailing, TypeOK
<1>3. a \in Addresses
  <2>1. plan[p] \in Seq(Row)
    BY DEF TypeOK
  <2> HIDE DEF Row
  <2>2. Current(p) \in Row
    BY <1>2, <2>1 DEF Current
  <2> QED
    BY <2>2 DEF Row
<1>4. results[p]' = Append(r, "SENT") /\ acked' = [acked EXCEPT ![a] = @ + 1]
  BY DEF Accept, Done, TypeOK
<1>5. Mailed' = Mailed \cup {a}
  <2> HIDE DEF a
  <2>1. acked \in [Addresses -> Nat]
    BY DEF TypeOK
  <2> QED
    BY <1>3, <1>4, <2>1 DEF Mailed
<1>6. /\ Len(results[p]') = n + 1
      /\ Sent(p)' = Sent(p) \cup {n + 1} /\ n + 1 \notin Sent(p)
  <2> DEFINE t == Append(r, "SENT")
  <2>1. Len(t) = n + 1 /\ t[n + 1] = "SENT" /\ \A k \in 1 .. n : t[k] = r[k]
    BY <1>1
  <2>2. 1 .. (n + 1) = 1 .. n \cup {n + 1} /\ n + 1 \notin 1 .. n
    BY <1>1
  <2>3. Sent(p)' = {k \in 1 .. Len(t) : t[k] = "SENT"}
    BY <1>4 DEF Sent
  <2>4. Sent(p) = {k \in 1 .. n : r[k] = "SENT"}
    BY DEF Sent
  <2>5. Len(results[p]') = Len(t)
    BY <1>4
  <2> HIDE DEF t, n, r
  <2> QED
    BY <2>1, <2>2, <2>3, <2>4, <2>5
<1> QED
  BY <1>2, <1>3, <1>5, <1>6

LEMMA FailExtends ==
  ASSUME TypeOK, NEW p \in Senders, Fails(p)
  PROVE  /\ Len(results[p]') = Len(results[p]) + 1
         /\ Len(results[p]) + 1 \in 1 .. Len(plan[p])
         /\ Sent(p)' = Sent(p)
<1> DEFINE n == Len(results[p])
           r == results[p]
           t == Append(r, "FAILED")
<1>1. n \in Nat /\ r \in Seq(SendStatus)
  BY DEF TypeOK
<1>2. n + 1 \in 1 .. Len(plan[p])
  BY DEF Fails, Mailing, TypeOK
<1>3. results[p]' = t
  BY DEF Fails, Done, TypeOK
<1>4. Len(t) = n + 1 /\ t[n + 1] = "FAILED" /\ \A k \in 1 .. n : t[k] = r[k]
  BY <1>1
<1>5. 1 .. (n + 1) = 1 .. n \cup {n + 1}
  BY <1>1
<1>6. Sent(p)' = {k \in 1 .. Len(t) : t[k] = "SENT"} /\ Len(results[p]') = Len(t)
  BY <1>3 DEF Sent
<1>7. Sent(p) = {k \in 1 .. n : r[k] = "SENT"}
  BY DEF Sent
<1> HIDE DEF t, n, r
<1>8. Sent(p)' = Sent(p) /\ Len(results[p]') = n + 1
  BY <1>4, <1>5, <1>6, <1>7
<1> QED
  BY <1>2, <1>8 DEF n

(* A step of another sender leaves q's progress alone; no sender that has  *)
(* not claimed the campaign disturbs what has been mailed or recorded.     *)
LEMMA ProgressOfOthers ==
  ASSUME TypeOK, Sole, Progress, NEW p \in Senders, NEW q \in Senders, q # p,
         UNCHANGED <<pc[q], plan[q], results[q], got[q]>>,
         InRun(p) \/ (status \in SendableStates) \/ UNCHANGED <<records, acked>>
  PROVE  Progressed(q)'
<1>1. Progressed(q)
  BY DEF Progress
<1>2. CASE ~ Holds(q)
  BY <1>1, <1>2 DEF Progressed, Holds
<1>3. CASE Holds(q)
  <2>1. InRun(q) /\ status = "SENDING"
    BY <1>3 DEF Sole, Holds, InRun, RunPC
  <2>2. UNCHANGED <<records, acked>>
    BY <2>1 DEF Sole, SendableStates
  <2>3. Sent(q)' = Sent(q) /\ Mailed' = Mailed
    BY <2>2 DEF Sent, Mailed
  <2> QED
    BY <1>1, <1>3, <2>2, <2>3 DEF Progressed, Holds
<1> QED
  BY <1>2, <1>3

LEMMA StepKeepsProgress ==
  ASSUME TypeOK, Lists, Sole, Progress, Next \/ UNCHANGED vars
  PROVE  Progress'
<1>1. CASE Outside
  <2>1. UNCHANGED <<pc, plan, results, got, acked>> /\ (records = {} => records' = {})
    BY <1>1 DEF Outside
  <2>2. Mailed' = Mailed /\ \A p \in Senders : Sent(p)' = Sent(p)
    BY <2>1 DEF Mailed, Sent
  <2> QED
    BY <2>1, <2>2 DEF Progress, Progressed, Holds
<1>2. ASSUME NEW p \in Senders, Looks(p) PROVE Progress'
  <2>1. Progressed(p)'
    BY <1>2 DEF Looks, Progress, Progressed, Holds, TypeOK
  <2>2. ASSUME NEW q \in Senders, q # p PROVE Progressed(q)'
    BY <1>2, <2>2, ProgressOfOthers DEF Looks, TypeOK
  <2> QED
    BY <2>1, <2>2 DEF Progress
<1>3. ASSUME NEW p \in Senders, Ends(p) \/ Settle(p) PROVE Progress'
  <2>1. Idle(p) /\ UNCHANGED <<records, acked>>
    BY <1>3 DEF Ends, Settle, rows
  <2>2. Progressed(p)'
    BY <2>1 DEF Idle, Progressed, Holds, TypeOK
  <2>3. ASSUME NEW q \in Senders, q # p PROVE Progressed(q)'
    BY <2>1, <2>3, ProgressOfOthers DEF Idle, TypeOK
  <2> QED
    BY <2>2, <2>3 DEF Progress
<1>4. ASSUME NEW p \in Senders, Claim(p) PROVE Progress'
  <2>1. /\ pc' = [pc EXCEPT ![p] = "claimed"] /\ status \in SendableStates
        /\ pc[p] \in {"sendread", "retryread"}
        /\ UNCHANGED <<records, acked, plan, results, got>>
    BY <1>4 DEF Claim, rows, ghost
  <2>2. results[p] = <<>> /\ got[p] = {} /\ records = {} /\ Mailed = {}
    BY <2>1 DEF Progress, Progressed, Sole
  <2>3. Mailed' = {} /\ Sent(p)' = {} /\ Len(results[p]') = 0
    BY <2>1, <2>2 DEF Mailed, Sent
  <2>4. Len(plan[p]) \in Nat
    BY DEF TypeOK
  <2>5. Progressed(p)'
    BY <2>1, <2>2, <2>3, <2>4 DEF Progressed, TypeOK
  <2>6. ASSUME NEW q \in Senders, q # p PROVE Progressed(q)'
    BY <2>1, <2>6, ProgressOfOthers DEF TypeOK
  <2> QED
    BY <2>5, <2>6 DEF Progress
<1>5. ASSUME NEW p \in Senders, Begin(p) \/ AccountFails(p) PROVE Progress'
  <2>1. /\ \E at \in {"sending", "aborted"} : pc' = [pc EXCEPT ![p] = at]
        /\ pc[p] \in {"claimed", "sending"}
        /\ UNCHANGED <<records, acked, plan, results, got>>
    BY <1>5 DEF Begin, AccountFails, Mailing, rows, ghost
  <2>2. Mailed' = Mailed /\ Sent(p)' = Sent(p)
    BY <2>1 DEF Mailed, Sent
  <2>3. Progressed(p)'
    <3>1. Progressed(p) /\ pc'[p] \in {"sending", "aborted"}
      BY <2>1 DEF Progress, TypeOK
    <3>2. UNCHANGED <<records, plan[p], results[p], got[p], Sent(p), Mailed>>
      BY <2>1, <2>2
    <3> QED
      BY <2>1, <3>1, <3>2 DEF Progressed, Holds
  <2>4. ASSUME NEW q \in Senders, q # p PROVE Progressed(q)'
    BY <2>1, <2>4, ProgressOfOthers DEF TypeOK
  <2> QED
    BY <2>3, <2>4 DEF Progress
<1>6. ASSUME NEW p \in Senders, Accept(p) PROVE Progress'
  <2> DEFINE n == Len(results[p])
  <2>1. /\ pc[p] = "sending" /\ UNCHANGED <<records, pc, plan>>
        /\ results' = [results EXCEPT ![p] = Append(@, "SENT")]
        /\ got' = [got EXCEPT ![p] = @ \cup {Current(p).id}]
    BY <1>6 DEF Accept, Mailing, Done, rows
  <2>2. /\ n + 1 \in 1 .. Len(plan[p]) /\ Len(results[p]') = n + 1
        /\ Sent(p)' = Sent(p) \cup {n + 1}
        /\ Mailed' = Mailed \cup {Current(p).email}
    BY <1>6, AcceptExtends
  <2>3. /\ Mailed = {plan[p][k].email : k \in Sent(p)}
        /\ got[p] = {plan[p][k].id : k \in Sent(p)} /\ records = {}
    BY <2>1 DEF Progress, Progressed, Holds
  <2>4. Current(p) = plan[p][n + 1]
    BY DEF Current
  <2>5. got'[p] = got[p] \cup {Current(p).id}
    BY <2>1 DEF TypeOK
  <2>6. Progressed(p)'
    <3> HIDE DEF n
    <3>1. plan[p]' = plan[p] /\ pc'[p] = "sending" /\ records' = {}
      BY <2>1, <2>3
    <3>2. Mailed' = {plan[p][k].email : k \in Sent(p)'}
      BY <2>2, <2>3, <2>4
    <3>3. got'[p] = {plan[p][k].id : k \in Sent(p)'}
      BY <2>2, <2>3, <2>4, <2>5
    <3>4. Len(results[p]') <= Len(plan[p])
      BY <2>2
    <3> QED
      BY <3>1, <3>2, <3>3, <3>4 DEF Progressed
  <2>7. ASSUME NEW q \in Senders, q # p PROVE Progressed(q)'
    BY <2>1, <2>7, ProgressOfOthers DEF TypeOK, InRun, RunPC
  <2> QED
    BY <2>6, <2>7 DEF Progress
<1>7. ASSUME NEW p \in Senders, Fails(p) PROVE Progress'
  <2>1. /\ pc[p] = "sending" /\ UNCHANGED <<records, acked, pc, plan, got>>
        /\ results' = [results EXCEPT ![p] = Append(@, "FAILED")]
    BY <1>7 DEF Fails, Mailing, Done
  <2>2. Len(results[p]') <= Len(plan[p]) /\ Sent(p)' = Sent(p) /\ Mailed' = Mailed
    <3>1. Mailed' = Mailed
      BY <2>1 DEF Mailed
    <3> QED
      BY <1>7, <3>1, FailExtends
  <2>3. Progressed(p)'
    <3>1. Progressed(p) /\ Holds(p)
      BY <2>1 DEF Progress, Holds
    <3>2. UNCHANGED <<records, pc[p], plan[p], got[p], Sent(p), Mailed>>
      BY <2>1, <2>2
    <3> QED
      BY <2>1, <2>2, <3>1, <3>2 DEF Progressed
  <2>4. ASSUME NEW q \in Senders, q # p PROVE Progressed(q)'
    BY <2>1, <2>4, ProgressOfOthers DEF TypeOK
  <2> QED
    BY <2>3, <2>4 DEF Progress
<1>8. ASSUME NEW p \in Senders, Persist(p) PROVE Progress'
  <2>1. /\ pc[p] \in {"sending", "aborted"} /\ pc' = [pc EXCEPT ![p] = "recorded"]
        /\ results' = [results EXCEPT ![p] = Outcomes(p)] /\ UNCHANGED <<acked, plan, got>>
    BY <1>8 DEF Persist, BatchOver, ghost
  <2>2. Progressed(p)'
    BY <2>1 DEF Progressed, Holds, TypeOK
  <2>3. ASSUME NEW q \in Senders, q # p PROVE Progressed(q)'
    BY <2>1, <2>3, ProgressOfOthers DEF TypeOK, InRun, RunPC
  <2> QED
    BY <2>2, <2>3 DEF Progress
<1> QED
  BY <1>1, <1>2, <1>3, <1>4, <1>5, <1>6, <1>7, <1>8, KindsOfStep

(* The address whose turn it is has not been mailed: it stands in the plan *)
(* once, and Mailed are the addresses of targets before it.                *)
LEMMA CurrentIsNew ==
  ASSUME TypeOK, Lists, Progress, NEW p \in Senders, Accept(p)
  PROVE  Current(p).email \in Addresses \ Mailed
<1> DEFINE n == Len(results[p])
           t == plan[p]
<1>1. n \in Nat /\ n + 1 \in 1 .. Len(t) /\ Current(p).email \in Addresses
  <2>1. n \in Nat
    BY DEF TypeOK
  <2> QED
    BY <2>1, AcceptExtends
<1>2. Mailed = {t[k].email : k \in Sent(p)}
  BY DEF Progress, Progressed, Holds, Accept, Mailing
<1>3. \A k \in Sent(p) : k \in 1 .. Len(t) /\ k # n + 1
  <2>1. \A k \in Sent(p) : k \in 1 .. n
    BY DEF Sent
  <2> HIDE DEF n
  <2> QED
    BY <1>1, <2>1
<1>4. \A i, j \in 1 .. Len(t) : t[i].email = t[j].email => i = j
  BY DEF Lists, GoodPlan
<1>5. Current(p) = t[n + 1]
  BY DEF Current
<1> HIDE DEF n, t
<1> QED
  BY <1>1, <1>2, <1>3, <1>4, <1>5

LEMMA StepKeepsOnce ==
  ASSUME TypeOK, Lists, Progress, Once, Next \/ UNCHANGED vars
  PROVE  Once'
<1>1. ASSUME NEW p \in Senders, Accept(p) PROVE Once'
  <2> DEFINE a == Current(p).email
  <2>1. a \in Addresses /\ a \notin Mailed
    BY <1>1, CurrentIsNew
  <2>2. acked' = [acked EXCEPT ![a] = @ + 1]
    BY <1>1 DEF Accept
  <2> HIDE DEF a
  <2>3. acked \in [Addresses -> Nat] /\ acked[a] = 0
    BY <2>1 DEF TypeOK, Mailed
  <2>4. \A b \in Addresses : acked'[b] = IF b = a THEN 1 ELSE acked[b]
    BY <2>1, <2>2, <2>3
  <2> QED
    BY <2>4 DEF Once
<1>2. ASSUME UNCHANGED acked PROVE Once'
  BY <1>2 DEF Once
<1> QED
  BY <1>1, <1>2, KindsOfStep DEF Outside, Looks, Ends, Fails, Claim, Begin,
     AccountFails, Persist, Settle, ghost

LEMMA OutcomesKeepCount ==
  ASSUME TypeOK, NEW p \in Senders, Persist(p)
  PROVE  Oks(p)' = Oks(p)
<1>1. results[p]' = Outcomes(p)
  BY DEF Persist, TypeOK
<1>2. CASE pc[p] = "aborted"
  <2> DEFINE m == Oks(p)
             r == [k \in 1 .. m |-> "SENT"]
  <2>1. m \in Nat
    BY SendsAreCounted
  <2>2. results[p]' = r
    BY <1>1, <1>2 DEF Outcomes
  <2> HIDE DEF m
  <2>3. Len(r) = m /\ {k \in 1 .. Len(r) : r[k] = "SENT"} = 1 .. m
    BY <2>1
  <2>4. Oks(p)' = Cardinality({k \in 1 .. Len(r) : r[k] = "SENT"})
    BY <2>2 DEF Oks
  <2>5. Cardinality(1 .. m) = m
    BY <2>1, FS_Interval
  <2> QED
    BY <2>3, <2>4, <2>5 DEF m
<1>3. CASE pc[p] # "aborted"
  BY <1>1, <1>3 DEF Outcomes, Oks
<1> QED
  BY <1>2, <1>3

LEMMA StepKeepsCounted ==
  ASSUME TypeOK, Sole, Progress, Lists, Counted, Next \/ UNCHANGED vars
  PROVE  Counted'
<1> DEFINE Good(q) == InRun(q) => IsFiniteSet(Mailed) /\ Cardinality(Mailed) = Oks(q)
<1>1. ASSUME NEW q \in Senders, InRun(q)' => InRun(q),
             UNCHANGED acked, InRun(q)' => Oks(q)' = Oks(q)
      PROVE  Good(q)'
  <2>1. Mailed' = Mailed
    BY <1>1 DEF Mailed
  <2> QED
    BY <1>1, <2>1 DEF Counted
<1>2. ASSUME Outside, NEW q \in Senders PROVE Good(q)'
  <2>1. UNCHANGED <<pc, acked, results>>
    BY <1>2 DEF Outside
  <2> QED
    BY <1>1, <2>1 DEF InRun, Oks
<1>3. ASSUME NEW p \in Senders,
             Looks(p) \/ Ends(p) \/ Begin(p) \/ AccountFails(p) \/ Settle(p),
             NEW q \in Senders
      PROVE  Good(q)'
  <2>1. UNCHANGED acked
    BY <1>3 DEF Looks, Ends, Begin, AccountFails, Settle, ghost
  <2>2. InRun(q)' => InRun(q) /\ results'[q] = results[q]
    BY <1>3 DEF Looks, Ends, Idle, Begin, AccountFails, Mailing, Settle, InRun, RunPC, TypeOK
  <2> QED
    BY <1>1, <2>1, <2>2 DEF Oks
<1>4. ASSUME NEW p \in Senders, Claim(p), NEW q \in Senders PROVE Good(q)'
  <2>1. UNCHANGED <<acked, results>> /\ status \in SendableStates
        /\ pc[p] \in {"sendread", "retryread"} /\ pc' = [pc EXCEPT ![p] = "claimed"]
    BY <1>4 DEF Claim, ghost
  <2>2. CASE q = p
    <3>1. Mailed' = {} /\ results[p] = <<>>
      BY <2>1 DEF Sole, Mailed, Progress, Progressed
    <3>2. {k \in 1 .. Len(results[p]') : results[p]'[k] = "SENT"} = {}
      BY <2>1, <3>1
    <3>3. Oks(p)' = Cardinality({})
      BY <3>2 DEF Oks
    <3> QED
      BY <2>2, <3>1, <3>3, FS_EmptySet
  <2>3. CASE q # p
    <3>1. ~ InRun(q)
      BY <2>1 DEF Sole, SendableStates
    <3> QED
      BY <2>1, <2>3, <3>1 DEF InRun, TypeOK
  <2> QED
    BY <2>2, <2>3
<1>5. ASSUME NEW p \in Senders, Accept(p), NEW q \in Senders PROVE Good(q)'
  <2>1. InRun(p) /\ UNCHANGED pc
    BY <1>5 DEF Accept, Mailing, InRun, RunPC
  <2>2. CASE q = p
    <3> DEFINE a == Current(p).email
               k == Len(results[p]) + 1
    <3>1. /\ Sent(p)' = Sent(p) \cup {k} /\ k \notin Sent(p)
          /\ Mailed' = Mailed \cup {a} /\ a \notin Mailed
      BY <1>5, AcceptExtends, CurrentIsNew
    <3>2. IsFiniteSet(Mailed) /\ Cardinality(Mailed) = Oks(p)
      BY <2>1 DEF Counted
    <3>3. IsFiniteSet(Sent(p)) /\ Oks(p) = Cardinality(Sent(p))
      BY SendsAreCounted
    <3>4. Oks(p)' = Cardinality(Sent(p)')
      BY DEF Oks, Sent
    <3> HIDE DEF a, k
    <3>5. IsFiniteSet(Mailed') /\ Cardinality(Mailed') = Cardinality(Mailed) + 1
      BY <3>1, <3>2, FS_AddElement
    <3>6. Cardinality(Sent(p)') = Cardinality(Sent(p)) + 1
      BY <3>1, <3>3, FS_AddElement
    <3> QED
      BY <2>2, <3>2, <3>3, <3>4, <3>5, <3>6
  <2>3. CASE q # p
    BY <2>1, <2>3 DEF Sole, InRun
  <2> QED
    BY <2>2, <2>3
<1>6. ASSUME NEW p \in Senders, Fails(p), NEW q \in Senders PROVE Good(q)'
  <2>1. UNCHANGED <<pc, acked>>
    BY <1>6 DEF Fails
  <2>2. Oks(q)' = Oks(q)
    <3>1. CASE q = p
      BY <1>6, <3>1, FailExtends DEF Oks, Sent
    <3>2. CASE q # p
      BY <1>6, <3>2 DEF Fails, Done, Oks, TypeOK
    <3> QED
      BY <3>1, <3>2
  <2> QED
    BY <1>1, <2>1, <2>2 DEF InRun
<1>7. ASSUME NEW p \in Senders, Persist(p), NEW q \in Senders PROVE Good(q)'
  <2>1. UNCHANGED acked /\ InRun(p) /\ pc' = [pc EXCEPT ![p] = "recorded"]
        /\ results' = [results EXCEPT ![p] = Outcomes(p)]
    BY <1>7 DEF Persist, BatchOver, InRun, RunPC, ghost
  <2>2. InRun(q)' => InRun(q)
    BY <2>1 DEF InRun, TypeOK
  <2>3. Oks(q)' = Oks(q)
    <3>1. CASE q = p
      BY <1>7, <3>1, OutcomesKeepCount
    <3>2. CASE q # p
      BY <2>1, <3>2 DEF Oks, TypeOK
    <3> QED
      BY <3>1, <3>2
  <2> QED
    BY <1>1, <2>1, <2>2, <2>3
<1>8. \A q \in Senders : Good(q)'
  <2> HIDE DEF Good
  <2> QED
    BY <1>2, <1>3, <1>4, <1>5, <1>6, <1>7, KindsOfStep
<1> QED
  BY <1>8 DEF Counted

LEMMA StepKeepsSettled ==
  ASSUME TypeOK, Sole, Counted, SettledCountsMail, Next \/ UNCHANGED vars
  PROVE  SettledCountsMail'
<1> DEFINE S(st, sent, mailed) ==
             st \in Settled => sent = Cardinality(mailed) /\ (st = "FAILED" <=> sent = 0)
<1>1. /\ SettledCountsMail <=> S(status, rollup.sent, Mailed)
      /\ SettledCountsMail' <=> S(status', rollup.sent', Mailed')
  BY DEF SettledCountsMail, Settled, Mailed
<1>2. S(status, rollup.sent, Mailed)
  BY <1>1
<1>3. ASSUME UNCHANGED <<status, acked>>, rollup'.sent = rollup.sent
      PROVE  S(status', rollup.sent', Mailed')
  BY <1>2, <1>3 DEF Mailed
<1>4. ASSUME status' = "SENDING" PROVE S(status', rollup.sent', Mailed')
  BY <1>4 DEF Settled
<1>5. ASSUME NEW p \in Senders, Settle(p) PROVE S(status', rollup.sent', Mailed')
  <2> DEFINE sent == Oks(p)
             failed == Len(results[p]) - Oks(p)
  <2>1. sent \in Nat /\ failed \in Nat
    BY SendsAreCounted
  <2>2. status = "SENDING" /\ sent = Cardinality(Mailed)
    BY <1>5 DEF Settle, Sole, Counted, InRun, RunPC
  <2>3. rollup'.sent = sent /\ status' = Transitioned(status, Outcome(sent, failed))
        /\ Mailed' = Mailed
    BY <1>5 DEF Settle, Mailed, TypeOK
  <2> HIDE DEF sent, failed
  <2>4. Outcome(sent, failed) = "FAILED" <=> sent = 0
    BY <2>1 DEF Outcome
  <2>5. status' = Outcome(sent, failed)
    BY <2>2, <2>3 DEF Transitioned, SourcesOf, CanTransition, Transitions, Outcome,
                      CampaignStatus
  <2> HIDE DEF S
  <2>6. rollup.sent' = Cardinality(Mailed') /\ (status' = "FAILED" <=> rollup.sent' = 0)
    BY <2>2, <2>3, <2>4, <2>5
  <2> QED
    BY <2>6 DEF S
<1> HIDE DEF S
<1>6. ASSUME NEW p \in Senders, Accept(p) \/ Claim(p) PROVE status' = "SENDING"
  BY <1>6 DEF Accept, Claim, Mailing, Sole, InRun, RunPC
<1>7. ASSUME NEW p \in Senders,
             Looks(p) \/ Ends(p) \/ Fails(p) \/ Begin(p) \/ AccountFails(p) \/ Persist(p)
      PROVE  UNCHANGED <<status, acked, rollup>>
  BY <1>7 DEF Looks, Ends, Fails, Begin, AccountFails, Persist, ghost
<1>8. Outside => UNCHANGED <<status, acked>> /\ rollup'.sent = rollup.sent
  BY DEF Outside
<1> QED
  BY <1>1, <1>3, <1>4, <1>5, <1>6, <1>7, <1>8, KindsOfStep

-----------------------------------------------------------------------------
(* The theorems.                                                           *)

LEMMA InitEstablishes == Init => IInv
<1> SUFFICES ASSUME Init PROVE IInv
  OBVIOUS
<1> USE DEF Init
<1>1. TypeOK
  <2>1. 0 \in 0 .. MaxRetries
    BY DeliveryAssumption
  <2> QED
    BY <2>1 DEF TypeOK, CampaignStatus
<1>2. Lists
  BY DEF Lists, GoodPlan, IsInjective
<1>3. Mailed = {}
  BY DEF Mailed
<1>4. Sole /\ Progress /\ Counted
  BY <1>3 DEF Sole, SendableStates, InRun, RunPC, Progress, Progressed, Holds, Counted
<1>5. Once /\ SettledCountsMail
  BY DEF Once, SettledCountsMail
<1> QED
  BY <1>1, <1>2, <1>4, <1>5 DEF IInv

LEMMA StepKeepsInvariant == IInv /\ [Next]_vars => IInv'
  BY StepKeepsLists, StepKeepsSole, StepKeepsProgress, StepKeepsOnce, StepKeepsCounted,
     StepKeepsSettled DEF IInv

(* What a campaign's one run has done is all that has happened to its      *)
(* addresses (delivery_service.py, send_campaign and retry_failed).        *)
THEOREM Invariance == Spec => []IInv
  BY InitEstablishes, StepKeepsInvariant, PTL DEF Spec

(* The delivery variables keep their types.                                *)
THEOREM TypeCorrect == Spec => []TypeOK
<1>1. IInv => TypeOK
  BY DEF IInv
<1> QED
  BY <1>1, Invariance, PTL

(* The settled campaign counts the mails that went out, and is FAILED only *)
(* if none did (_settle, _finalise).                                       *)
THEOREM SettledCampaignsCount == Spec => []SettledCountsMail
<1>1. IInv => SettledCountsMail
  BY DEF IInv
<1> QED
  BY <1>1, Invariance, PTL

LEMMA WrittenRecordsMatch ==
  ASSUME IInv, Next \/ UNCHANGED vars, NEW p \in Senders, Writes(p),
         pc[p] = "aborted" => Oks(p) = Len(results[p]),
         NEW k \in 1 .. Len(plan[p])
  PROVE  plan[p][k].id \in got[p]
           <=> [recipient |-> plan[p][k].id, status |-> "SENT"] \in records'
<1> DEFINE n == Len(results[p])
           t == plan[p]
           o == Outcomes(p)
<1>1. Persist(p)
  <2>1. TypeOK /\ pc[p] # "recorded" /\ pc'[p] = "recorded"
    BY DEF IInv, Writes
  <2>2. Outside => pc' = pc
    BY DEF Outside
  <2>3. ASSUME NEW q \in Senders,
               \/ Looks(q) \/ Ends(q) \/ Fails(q) \/ Claim(q) \/ Begin(q) \/ Accept(q)
               \/ AccountFails(q) \/ Settle(q)
        PROVE  FALSE
    BY <2>1, <2>3 DEF Looks, Ends, Idle, Fails, Claim, Begin, Accept, AccountFails, Settle,
                      TypeOK
  <2>4. ASSUME NEW q \in Senders, Persist(q) PROVE q = p
    BY <2>1, <2>4 DEF Persist, TypeOK
  <2> QED
    BY <2>1, <2>2, <2>3, <2>4, KindsOfStep
<1>2. /\ records = {} /\ got[p] = {t[i].id : i \in Sent(p)} /\ n <= Len(t)
  BY <1>1 DEF IInv, Progress, Progressed, Holds, Persist, BatchOver
<1>3. records' = {[recipient |-> t[i].id, status |-> o[i]] : i \in 1 .. Len(o)}
  BY <1>1, <1>2 DEF Persist
<1>4. \A i, j \in 1 .. Len(t) : t[i].id = t[j].id => i = j
  BY DEF IInv, Lists, GoodPlan
<1>5. n \in Nat /\ Len(t) \in Nat
  BY DEF IInv, TypeOK
<1>6. Len(o) = n /\ \A i \in 1 .. n : o[i] = "SENT" <=> i \in Sent(p)
  <2>1. CASE pc[p] = "aborted"
    <3>1. Sent(p) = 1 .. n /\ Oks(p) = n
      BY <2>1, SendsAreCounted DEF IInv
    <3>2. o = [i \in 1 .. n |-> "SENT"]
      BY <2>1, <3>1 DEF Outcomes
    <3> HIDE DEF o, n
    <3> QED
      BY <1>5, <3>1, <3>2
  <2>2. CASE pc[p] # "aborted"
    BY <2>2 DEF Outcomes, Sent
  <2> QED
    BY <2>1, <2>2
<1>7. Sent(p) \subseteq 1 .. n
  BY DEF Sent
<1> HIDE DEF n, t, o
<1>8. \A i \in 1 .. n : i \in 1 .. Len(t)
  BY <1>2, <1>5
<1>9. t[k].id \in got[p] <=> k \in Sent(p)
  BY <1>2, <1>4, <1>7, <1>8 DEF t
<1>10. [recipient |-> t[k].id, status |-> "SENT"] \in records' <=> k \in Sent(p)
  BY <1>3, <1>4, <1>6, <1>7, <1>8 DEF t
<1> QED
  BY <1>9, <1>10 DEF t

(* A run's records say SENT of the rows that were mailed and of no others  *)
(* (_persist), unless it was aborted after a failure.                      *)
THEOREM RecordsAreTrue == Spec => RecordsMatchMail
<1>1. IInv /\ [Next]_vars =>
        [\A p \in Senders :
           Writes(p) /\ (pc[p] = "aborted" => Oks(p) = Len(results[p])) =>
             \A k \in 1 .. Len(plan[p]) :
               plan[p][k].id \in got[p]
                 <=> [recipient |-> plan[p][k].id, status |-> "SENT"] \in records']_vars
  BY WrittenRecordsMatch
<1> QED
  BY <1>1, Invariance, PTL DEF Spec, RecordsMatchMail

-----------------------------------------------------------------------------
(* Delivery implements SendOnce.                                           *)

LEMMA InitOpens == Init => SO!Init
  BY DEF Init, SO!Init, Phase, SendableStates

LEMMA StepSendsOnce ==
  ASSUME IInv, Next \/ UNCHANGED vars
  PROVE  SO!Next \/ UNCHANGED <<Phase, acked>>
<1> USE DEF IInv
<1>1. ASSUME UNCHANGED <<status, acked>> PROVE UNCHANGED <<Phase, acked>>
  BY <1>1 DEF Phase
<1>2. ASSUME NEW p \in Senders, Claim(p) PROVE SO!Begin
  BY <1>2 DEF Claim, SO!Begin, Phase, SendableStates, ghost
<1>3. ASSUME NEW p \in Senders, Accept(p) PROVE SO!Next
  <2> DEFINE a == Current(p).email
  <2>1. status = "SENDING" /\ status' = status /\ acked' = [acked EXCEPT ![a] = @ + 1]
    BY <1>3 DEF Accept, Mailing, Sole, InRun, RunPC
  <2>2. a \in Addresses /\ a \notin Mailed
    BY <1>3, CurrentIsNew
  <2> HIDE DEF a
  <2>3. acked[a] = 0
    BY <2>2 DEF TypeOK, Mailed
  <2>4. acked' = [acked EXCEPT ![a] = 1]
    BY <2>1, <2>3
  <2>5. Phase = "sending" /\ Phase' = Phase
    BY <2>1 DEF Phase, SendableStates
  <2> QED
    BY <2>2, <2>3, <2>4, <2>5 DEF SO!Next, SO!Mail
<1>4. ASSUME NEW p \in Senders, Settle(p) PROVE SO!Close
  <2>1. status = "SENDING" /\ UNCHANGED acked
    BY <1>4 DEF Settle, Sole, InRun, RunPC
  <2>2. status' \in Settled
    BY <1>4, <2>1 DEF Settle, Transitioned, SourcesOf, CanTransition, Transitions, Outcome,
                      CampaignStatus, Settled
  <2> QED
    BY <2>1, <2>2 DEF SO!Close, Phase, SendableStates, Settled
<1>5. ASSUME NEW p \in Senders,
             Looks(p) \/ Ends(p) \/ Fails(p) \/ Begin(p) \/ AccountFails(p) \/ Persist(p)
      PROVE  UNCHANGED <<status, acked>>
  BY <1>5 DEF Looks, Ends, Fails, Begin, AccountFails, Persist, ghost
<1>6. Outside => UNCHANGED <<status, acked>>
  BY DEF Outside
<1> QED
  BY <1>1, <1>2, <1>3, <1>4, <1>5, <1>6, KindsOfStep DEF SO!Next

(* Whoever calls send_campaign or retry_failed, and however often, a       *)
(* campaign is sent under one claim and nobody is mailed it twice.         *)
THEOREM DeliveryImplementsSendOnce == Spec => SendsOnce
<1>1. IInv /\ [Next]_vars => [SO!Next]_<<Phase, acked>>
  BY StepSendsOnce
<1> QED
  BY <1>1, InitOpens, Invariance, PTL DEF Spec, SendsOnce, SO!Spec

=============================================================================
