-------------------------- MODULE GenerationProofs --------------------------
(***************************************************************************)
(* Generation, for every number of articles, pool size, threshold, reset   *)
(* window and number of attempts: types, what an outage may cost, and what *)
(* may open the breaker.                                                   *)
(***************************************************************************)
EXTENDS Generation, FiniteSetTheorems, TLAPS

(* Either the pool works or the main thread makes a call, never both.      *)
PoolBounded ==
  /\ Cardinality(Active) <= Workers
  /\ stage # "summarising" => Active \subseteq {Main}
  /\ stage = "summarising" => job[Main] = "none"

(* The history against the breaker's own count.                            *)
Accounted ==
  /\ breaker.state = "closed" => spent = breaker.failures /\ breaker.failures < Threshold
  /\ breaker.state = "half_open" => spent = 0
  /\ breaker.state # "closed" => breaker.failures >= Threshold

(* The count never runs ahead of the calls that failed.                    *)
CountedFaults == breaker.failures <= Cardinality(Faulted)

(* Nobody finds the window elapsed while the pool works: the failure that  *)
(* opens the breaker frees its worker, so the window only begins to elapse *)
(* once the queue is empty, and whoever is under way then has asked.       *)
Drained ==
  stage = "summarising" =>
    /\ breaker.state # "half_open"
    /\ breaker.state = "open" =>
         /\ Cardinality(Posted) < Workers
         /\ breaker.age # 0 => Queued = {} /\ Active = Posted

GInv == TypeOK /\ PoolBounded /\ Accounted /\ OutageCostBounded /\ CountedFaults

-----------------------------------------------------------------------------
(* The breaker.                                                            *)

LEMMA PolledBreaker ==
  ASSUME NEW b \in Breaker
  PROVE  /\ Polled(b) \in Breaker
         /\ Polled(b).failures = b.failures
         /\ b.state = "closed" => Polled(b).state = "closed"
         /\ b.state # "closed" => Polled(b).state # "closed"
         /\ Polled(b).state = "half_open" => b.state = "half_open" \/ Elapsed(b)
  <1>1. CASE Elapsed(b)
    BY <1>1, BreakerAssumption DEF Breaker, Polled, Elapsed
  <1>2. CASE ~Elapsed(b)
    BY <1>2 DEF Polled
  <1> QED
    BY <1>1, <1>2

LEMMA FailedBreaker ==
  ASSUME NEW b \in Breaker, b.state # "closed" => b.failures >= Threshold
  PROVE  /\ RecordFailure(b) \in Breaker
         /\ RecordFailure(b).failures \in {b.failures, b.failures + 1}
         /\ RecordFailure(b).state = "closed" =>
              /\ b.state = "closed"
              /\ RecordFailure(b).failures = b.failures + 1
              /\ RecordFailure(b).failures < Threshold
         /\ RecordFailure(b).state # "closed" =>
              RecordFailure(b).state = "open" /\ RecordFailure(b).failures >= Threshold
  <1> USE BreakerAssumption DEF Breaker, Opened
  <1>1. CASE b.state = "half_open"
    BY <1>1 DEF RecordFailure
  <1>2. CASE b.state # "half_open" /\ b.failures + 1 >= Threshold
    BY <1>2 DEF RecordFailure
  <1>3. CASE b.state # "half_open" /\ ~(b.failures + 1 >= Threshold)
    <2>1. b.state = "closed"
      BY <1>3
    <2> QED
      BY <1>3, <2>1 DEF RecordFailure
  <1> QED
    BY <1>1, <1>2, <1>3

LEMMA AgedBreaker ==
  ASSUME NEW b \in Breaker
  PROVE  Aged(b) \in Breaker /\ Aged(b).state = b.state /\ Aged(b).failures = b.failures
  BY BreakerAssumption DEF Breaker, Aged, Older

LEMMA FreshBreaker ==
  /\ Fresh \in Breaker /\ Fresh.state = "closed" /\ Fresh.failures = 0
  BY BreakerAssumption DEF Fresh, Breaker

-----------------------------------------------------------------------------
(* Counting calls.                                                         *)

LEMMA FiniteJobs ==
  /\ \A S \in SUBSET Jobs : IsFiniteSet(S) /\ Cardinality(S) \in Nat
  /\ \A S, T \in SUBSET Jobs : S \subseteq T => Cardinality(S) <= Cardinality(T)
  <1>1. IsFiniteSet(Jobs)
    BY GenerationAssumption, FS_Interval DEF Jobs
  <1>2. ASSUME NEW S \in SUBSET Jobs PROVE IsFiniteSet(S) /\ Cardinality(S) \in Nat
    BY <1>1, FS_Subset, FS_CardinalityType
  <1>3. ASSUME NEW S \in SUBSET Jobs, NEW T \in SUBSET Jobs, S \subseteq T
        PROVE  Cardinality(S) <= Cardinality(T)
    BY <1>2, <1>3, FS_Subset
  <1> QED
    BY <1>2, <1>3

LEMMA AddCall ==
  ASSUME NEW S \in SUBSET Jobs, NEW j \in Jobs, j \notin S
  PROVE  Cardinality(S \cup {j}) = Cardinality(S) + 1
  BY FiniteJobs, FS_AddElement

LEMMA DropCall ==
  ASSUME NEW S \in SUBSET Jobs, NEW j \in S
  PROVE  Cardinality(S \ {j}) = Cardinality(S) - 1
  BY FiniteJobs, FS_RemoveElement

LEMMA PostedAreActive == Posted \subseteq Active /\ Active \subseteq Jobs /\ Faulted \subseteq Jobs
  BY DEF Posted, Active, Faulted, InCall

(* The bound is one of the open state: in the other two it follows.        *)
LEMMA CostWhileNotOpen ==
  TypeOK /\ PoolBounded /\ Accounted /\ breaker.state # "open" => OutageCostBounded
  <1> SUFFICES ASSUME TypeOK, PoolBounded, Accounted, breaker.state # "open"
               PROVE  OutageCostBounded
    OBVIOUS
  <1>1. Cardinality(Posted) <= Workers /\ Cardinality(Posted) \in Nat
    <2>1. Posted \in SUBSET Jobs /\ Active \in SUBSET Jobs /\ Posted \subseteq Active
      BY PostedAreActive
    <2>2. /\ Cardinality(Posted) <= Cardinality(Active)
          /\ Cardinality(Posted) \in Nat /\ Cardinality(Active) \in Nat
      BY <2>1, FiniteJobs
    <2> QED
      BY <2>2, GenerationAssumption DEF PoolBounded
  <1>2. breaker.state \in {"closed", "half_open"} /\ breaker.failures \in Nat
    BY DEF TypeOK, Breaker
  <1>3. spent \in Nat /\ spent <= Threshold - 1
    BY <1>2, BreakerAssumption DEF Accounted, TypeOK
  <1> HIDE DEF Posted
  <1> QED
    BY <1>1, <1>3, BreakerAssumption, GenerationAssumption DEF OutageCostBounded

(* What a call's new place does to the sets of calls.                      *)
LEMMA JobMoves ==
  ASSUME TypeOK, NEW j \in Jobs, NEW v, job' = [job EXCEPT ![j] = v]
  PROVE  /\ Active' = IF v \in InCall THEN Active \cup {j} ELSE Active \ {j}
         /\ Posted' = IF v = "posting" THEN Posted \cup {j} ELSE Posted \ {j}
         /\ Faulted' = IF v = "unreachable" THEN Faulted \cup {j} ELSE Faulted \ {j}
  BY DEF TypeOK, Active, Posted, Faulted

LEMMA JobKeeps ==
  ASSUME TypeOK, NEW j \in Jobs, NEW v, job' = [job EXCEPT ![j] = v]
  PROVE  /\ v # "posting" => Posted' \subseteq Posted
         /\ v # "posting" /\ job[j] # "posting" => Posted' = Posted
         /\ v # "unreachable" /\ job[j] # "unreachable" => Faulted' = Faulted
  <1>1. ASSUME v # "posting" PROVE Posted' \subseteq Posted
    BY <1>1 DEF TypeOK, Posted
  <1>2. ASSUME v # "posting", job[j] # "posting" PROVE Posted' = Posted
    BY <1>2 DEF TypeOK, Posted
  <1>3. ASSUME v # "unreachable", job[j] # "unreachable" PROVE Faulted' = Faulted
    BY <1>3 DEF TypeOK, Faulted
  <1> QED
    BY <1>1, <1>2, <1>3

-----------------------------------------------------------------------------
(* Types.                                                                  *)

LEMMA TypeInit == Init => TypeOK
  BY GenerationAssumption, FreshBreaker DEF Init, TypeOK, Jobs, Articles

LEMMA NoCallsTyped ==
  ASSUME NoCalls
  PROVE  /\ breaker' \in Breaker /\ spent' \in Nat /\ broken' \in BOOLEAN
         /\ tries' \in [Jobs -> 0..(MaxRetries + 1)]
         /\ repairs' \in [Jobs -> 0..MaxRepairs]
  <1>1. breaker' \in Breaker /\ broken' \in BOOLEAN
    BY FreshBreaker DEF NoCalls
  <1>2. spent' \in Nat
    BY DEF NoCalls
  <1>3. tries' \in [Jobs -> 0..(MaxRetries + 1)] /\ repairs' \in [Jobs -> 0..MaxRepairs]
    BY GenerationAssumption DEF NoCalls
  <1> QED
    BY <1>1, <1>2, <1>3

LEMMA EndTyped ==
  ASSUME TypeOK, End, DOMAIN links' \subseteq Articles
  PROVE  TypeOK'
  <1>1. stage' = "idle" /\ size' \in 0..MaxArticles
    BY GenerationAssumption DEF End
  <1>2. job' \in [Jobs -> {"none", "waiting"} \cup InCall \cup Outcomes]
    BY DEF End
  <1>3. NoCalls
    BY DEF End
  <1> QED
    BY <1>1, <1>2, <1>3, NoCallsTyped DEF TypeOK

LEMMA CallTyped ==
  ASSUME TypeOK, NEW j \in Jobs, CallStep(j)
  PROVE  TypeOK'
  <1> USE GenerationAssumption DEF TypeOK, Posting, EndCall
  <1>1. CASE Ask(j)
    <2>1. breaker' \in Breaker
      BY <1>1, PolledBreaker DEF Ask
    <2> QED
      BY <1>1, <2>1 DEF Ask, InCall, Outcomes
  <1>2. CASE Retry(j)
    BY <1>2 DEF Retry
  <1>3. CASE Unreachable(j)
    <2>1. breaker' \in Breaker
      BY <1>3, BreakerAssumption DEF Unreachable, RecordFailure, Opened, Breaker
    <2> QED
      BY <1>3, <2>1 DEF Unreachable, Outcomes
  <1>4. CASE RateLimited(j)
    BY <1>4 DEF RateLimited, Outcomes
  <1>5. CASE AskRepair(j)
    BY <1>5, FreshBreaker DEF AskRepair, RecordSuccess, InCall
  <1>6. ASSUME NEW o \in {"invalid", "garbled"}, CutShort(j, o) PROVE TypeOK'
    BY <1>6 DEF CutShort, Outcomes
  <1>7. ASSUME NEW o \in {"ok", "invalid"}, Answered(j, o) PROVE TypeOK'
    BY <1>7, FreshBreaker DEF Answered, RecordSuccess, Outcomes
  <1> QED
    BY <1>1, <1>2, <1>3, <1>4, <1>5, <1>6, <1>7 DEF CallStep

LEMMA TypeStep == TypeOK /\ [Next]_generation => TypeOK'
  <1> SUFFICES ASSUME TypeOK, [Next]_generation PROVE TypeOK'
    OBVIOUS
  <1> USE GenerationAssumption
  <1>1. ASSUME NEW n \in Articles, StartDraft(n) PROVE TypeOK'
    BY <1>1, NoCallsTyped DEF StartDraft, TypeOK, Running, Articles
  <1>2. CASE StartRewrite
    BY <1>2, NoCallsTyped DEF StartRewrite, TypeOK, Running, InCall, Articles
  <1>3. CASE Interrupt
    BY <1>3 DEF Interrupt, TypeOK, calls
  <1>4. CASE Tick
    BY <1>4, AgedBreaker DEF Tick, TypeOK
  <1>5. ASSUME NEW a \in Articles, Take(a) PROVE TypeOK'
    BY <1>5 DEF Take, TypeOK, InCall
  <1>6. ASSUME NEW j \in Jobs, CallStep(j) PROVE TypeOK'
    BY <1>6, CallTyped
  <1>7. CASE CollectFails
    BY <1>7, EndTyped DEF CollectFails, TypeOK
  <1>8. CASE Compose
    BY <1>8 DEF Compose, TypeOK, Running, InCall
  <1>9. CASE Persist
    <2>1. DOMAIN links' \subseteq Articles
      BY <1>9 DEF Persist, LinkArticles, TypeOK, Articles
    <2> QED
      BY <1>9, <2>1, EndTyped DEF Persist
  <1>10. CASE ComposeFails
    BY <1>10, EndTyped DEF ComposeFails, TypeOK
  <1>11. CASE RewriteEnds
    BY <1>11, EndTyped DEF RewriteEnds, TypeOK
  <1>12. CASE UNCHANGED generation
    BY <1>12 DEF generation, calls, TypeOK
  <1> QED
    BY <1>1, <1>2, <1>3, <1>4, <1>5, <1>6, <1>7, <1>8, <1>9, <1>10, <1>11, <1>12
    DEF Next, GenerationStep

(* TypeOK holds of every reachable state: a call posts at most its         *)
(* attempts and asks for at most its repairs.                              *)
THEOREM TypeCorrect == Spec => []TypeOK
  BY TypeInit, TypeStep, PTL DEF Spec

-----------------------------------------------------------------------------
(* The pool and the main thread.                                           *)

LEMMA NobodyActive ==
  ASSUME Active' = {}
  PROVE  Cardinality(Active') <= Workers
  BY FS_EmptySet, GenerationAssumption

LEMMA OneActive ==
  ASSUME Active' = {Main}
  PROVE  Cardinality(Active') <= Workers
  <1>1. Cardinality({Main}) = 1
    BY FS_Singleton
  <1> QED
    BY <1>1, GenerationAssumption

(* A call that moves on, or ends, keeps its place in the pool or frees it. *)
LEMMA CallPool ==
  ASSUME TypeOK, PoolBounded, NEW j \in Jobs, CallStep(j)
  PROVE  PoolBounded'
  <1>1. /\ j \in Active
        /\ stage' = stage
        /\ \E v : job' = [job EXCEPT ![j] = v]
    <2>1. \A i \in Jobs : job = [job EXCEPT ![i] = job[i]]
      BY DEF TypeOK
    <2> QED
      BY <2>1 DEF CallStep, Active, InCall, Ask, Retry, Unreachable, RateLimited, AskRepair, CutShort,
                  Answered, Posting, EndCall
  <1>2. PICK v : job' = [job EXCEPT ![j] = v]
    BY <1>1
  <1>3. Active' \subseteq Active
    BY <1>1, <1>2, JobMoves
  <1>4. Cardinality(Active') <= Workers
    <2>1. Active \in SUBSET Jobs /\ Active' \in SUBSET Jobs
      BY <1>3, PostedAreActive
    <2>2. Cardinality(Active') <= Cardinality(Active) /\ Cardinality(Active') \in Nat /\ Cardinality(Active) \in Nat
      BY <1>3, <2>1, FiniteJobs
    <2> QED
      BY <2>2, GenerationAssumption DEF PoolBounded
  <1>5. stage = "summarising" => j # Main
    BY <1>1 DEF PoolBounded, Active, InCall
  <1>6. stage = "summarising" => job'[Main] = "none"
    BY <1>2, <1>5, GenerationAssumption DEF PoolBounded, TypeOK, Main, Jobs
  <1> QED
    BY <1>1, <1>3, <1>4, <1>6 DEF PoolBounded

LEMMA PoolStep == TypeOK /\ PoolBounded /\ [Next]_generation => PoolBounded'
  <1> SUFFICES ASSUME TypeOK, PoolBounded, [Next]_generation PROVE PoolBounded'
    OBVIOUS
  <1>0. Main \in Jobs /\ Main \notin Articles /\ Articles \subseteq Jobs
    BY GenerationAssumption DEF Main, Jobs, Articles
  <1>1. ASSUME NEW n \in Articles, StartDraft(n) PROVE PoolBounded'
    <2>1. Active' = {} /\ stage' = "summarising"
      BY <1>1 DEF StartDraft, Active, InCall
    <2>2. job'[Main] = "none"
      BY <1>0, <1>1 DEF StartDraft, Main
    <2> QED
      BY <2>1, <2>2, NobodyActive DEF PoolBounded
  <1>2. CASE StartRewrite
    <2>1. Active' = {Main} /\ stage' = "rewriting"
      BY <1>0, <1>2 DEF StartRewrite, Active, InCall
    <2> QED
      BY <2>1, OneActive DEF PoolBounded
  <1>3. CASE UNCHANGED <<stage, job>>
    BY <1>3 DEF PoolBounded, Active
  <1>4. ASSUME NEW a \in Articles, Take(a) PROVE PoolBounded'
    <2>1. job' = [job EXCEPT ![a] = "asking"] /\ a \notin Active /\ stage' = stage /\ stage = "summarising"
      BY <1>4 DEF Take, Active, InCall
    <2>2. Active' = Active \cup {a}
      BY <1>0, <2>1, JobMoves DEF InCall
    <2>3. Active \in SUBSET Jobs /\ Cardinality(Active) \in Nat
      BY PostedAreActive, FiniteJobs
    <2>4. Cardinality(Active') = Cardinality(Active) + 1
      BY <1>0, <2>1, <2>2, <2>3, AddCall
    <2>5. Cardinality(Active) < Workers
      BY <1>4 DEF Take
    <2>6. Cardinality(Active') <= Workers
      BY <2>3, <2>4, <2>5, GenerationAssumption
    <2>7. job'[Main] = "none"
      BY <1>0, <2>1 DEF PoolBounded, TypeOK
    <2> QED
      BY <2>1, <2>6, <2>7 DEF PoolBounded
  <1>5. ASSUME NEW j \in Jobs, CallStep(j) PROVE PoolBounded'
    BY <1>5, CallPool
  <1>6. CASE End
    <2>1. Active' = {} /\ stage' = "idle"
      BY <1>6 DEF End, Active, InCall
    <2> QED
      BY <2>1, NobodyActive DEF PoolBounded
  <1>7. CASE Compose
    <2>1. Active = {} /\ job' = [job EXCEPT ![Main] = "asking"] /\ stage' = "composing"
      BY <1>7 DEF Compose, PoolIdle
    <2>2. Active' = {Main}
      BY <1>0, <2>1, JobMoves DEF InCall
    <2> QED
      BY <2>1, <2>2, OneActive DEF PoolBounded
  <1>8. Interrupt \/ Tick \/ UNCHANGED generation => UNCHANGED <<stage, job>>
    BY DEF Interrupt, Tick, generation, calls
  <1>9. CollectFails \/ Persist \/ ComposeFails \/ RewriteEnds => End
    BY DEF CollectFails, Persist, ComposeFails, RewriteEnds
  <1> QED
    BY <1>1, <1>2, <1>3, <1>4, <1>5, <1>6, <1>7, <1>8, <1>9 DEF Next, GenerationStep

-----------------------------------------------------------------------------
(* The breaker against the calls.                                          *)

LEMMA TypedBreaker ==
  ASSUME TypeOK
  PROVE  /\ breaker \in Breaker /\ breaker.state \in {"closed", "open", "half_open"}
         /\ breaker.failures \in Nat /\ spent \in Nat
  BY DEF TypeOK, Breaker

(* A call that is not a failure: the breaker is polled, reset or left.     *)
LEMMA SettledCall ==
  ASSUME GInv, NEW j \in Jobs, CallStep(j), ~Unreachable(j)
  PROVE  /\ \/ breaker' = Fresh /\ spent' = 0
            \/ breaker' = breaker /\ spent' = spent
            \/ breaker' = Polled(breaker) /\ Elapsed(breaker) /\ spent' = 0
         /\ Faulted' = Faulted
         /\ breaker'.state = "open" => Posted' \subseteq Posted
  <1>0. TypeOK
    BY DEF GInv
  <1>1. CASE Ask(j)
    <2>1. job[j] # "posting" /\ job[j] # "unreachable"
      BY <1>1 DEF Ask
    <2>2. CASE AllowsRequest(breaker)
      <3>1. /\ job' = [job EXCEPT ![j] = "posting"] /\ breaker'.state # "open"
            /\ "posting" # "unreachable"
        BY <1>1, <2>2 DEF Ask, AllowsRequest
      <3>2. Faulted' = Faulted
        BY <1>0, <2>1, <3>1, JobKeeps, Zenon
      <3> QED
        BY <1>1, <3>1, <3>2 DEF Ask, Polled
    <2>3. CASE ~AllowsRequest(breaker)
      <3>1. /\ job' = [job EXCEPT ![j] = "refused"] /\ ~Elapsed(breaker)
            /\ "refused" # "posting" /\ "refused" # "unreachable"
        BY <1>1, <2>3 DEF Ask, AllowsRequest, Polled
      <3>2. Faulted' = Faulted /\ Posted' = Posted
        BY <1>0, <2>1, <3>1, JobKeeps, Zenon
      <3> QED
        BY <1>1, <3>1, <3>2 DEF Ask, Polled
    <2> QED
      BY <2>2, <2>3
  <1>2. CASE Retry(j)
    BY <1>2 DEF Retry, Posting, Faulted, Posted
  <1>3. ASSUME NEW v, job' = [job EXCEPT ![j] = v], v # "posting", v # "unreachable", job[j] # "unreachable"
        PROVE  Faulted' = Faulted /\ Posted' \subseteq Posted
    BY <1>0, <1>3, JobKeeps
  <1>4. CASE RateLimited(j)
    <2>1. /\ job' = [job EXCEPT ![j] = "limited"] /\ job[j] # "unreachable"
          /\ "limited" # "posting" /\ "limited" # "unreachable"
          /\ UNCHANGED <<breaker, spent>>
      BY <1>4 DEF RateLimited, Posting, EndCall
    <2>2. Faulted' = Faulted /\ Posted' \subseteq Posted
      BY <1>3, <2>1, Zenon
    <2> QED
      BY <2>1, <2>2
  <1>5. CASE AskRepair(j)
    <2>1. /\ job' = [job EXCEPT ![j] = "asking"] /\ job[j] # "unreachable"
          /\ "asking" # "posting" /\ "asking" # "unreachable"
          /\ breaker' = Fresh /\ spent' = 0
      BY <1>5 DEF AskRepair, Posting, RecordSuccess
    <2>2. Faulted' = Faulted /\ Posted' \subseteq Posted
      BY <1>3, <2>1, Zenon
    <2> QED
      BY <2>1, <2>2
  <1>6. ASSUME NEW o \in {"invalid", "garbled"}, CutShort(j, o)
        PROVE  breaker' = breaker /\ spent' = spent /\ Faulted' = Faulted /\ Posted' \subseteq Posted
    <2>1. /\ job' = [job EXCEPT ![j] = o] /\ job[j] # "unreachable"
          /\ breaker' = breaker /\ spent' = spent /\ o # "posting" /\ o # "unreachable"
      BY <1>6 DEF CutShort, Posting, EndCall
    <2>2. Faulted' = Faulted /\ Posted' \subseteq Posted
      BY <1>3, <2>1, Zenon
    <2> QED
      BY <2>1, <2>2
  <1>7. ASSUME NEW o \in {"ok", "invalid"}, Answered(j, o)
        PROVE  breaker' = Fresh /\ spent' = 0 /\ Faulted' = Faulted /\ Posted' \subseteq Posted
    <2>1. /\ job' = [job EXCEPT ![j] = o] /\ job[j] # "unreachable"
          /\ breaker' = Fresh /\ spent' = 0 /\ o # "posting" /\ o # "unreachable"
      BY <1>7 DEF Answered, Posting, EndCall, RecordSuccess
    <2>2. Faulted' = Faulted /\ Posted' \subseteq Posted
      BY <1>3, <2>1, Zenon
    <2> QED
      BY <2>1, <2>2
  <1> QED
    BY <1>1, <1>2, <1>4, <1>5, <1>6, <1>7 DEF CallStep

LEMMA SettledAccounts ==
  ASSUME GInv, NEW j \in Jobs, CallStep(j), ~Unreachable(j)
  PROVE  Accounted' /\ CountedFaults' /\ (breaker'.state = "open" => OutageCostBounded')
  <1>0. TypeOK /\ Accounted /\ CountedFaults /\ OutageCostBounded
    BY DEF GInv
  <1>1. /\ Faulted' = Faulted /\ Cardinality(Faulted) \in Nat
        /\ breaker \in Breaker /\ breaker.failures \in Nat /\ spent \in Nat
    BY <1>0, SettledCall, TypedBreaker, FiniteJobs, PostedAreActive
  <1>2. CASE breaker' = Fresh /\ spent' = 0
    BY <1>1, <1>2, FreshBreaker, BreakerAssumption DEF Accounted, CountedFaults
  <1>3. CASE breaker' = breaker /\ spent' = spent
    <2>1. Accounted' /\ CountedFaults'
      BY <1>0, <1>1, <1>3 DEF Accounted, CountedFaults
    <2>2. ASSUME breaker'.state = "open" PROVE OutageCostBounded'
      <3>1. Posted' \subseteq Posted /\ Posted \in SUBSET Jobs /\ Posted' \in SUBSET Jobs
        BY <2>2, SettledCall, PostedAreActive
      <3>2. /\ Cardinality(Posted') <= Cardinality(Posted)
            /\ Cardinality(Posted) \in Nat /\ Cardinality(Posted') \in Nat
        BY <3>1, FiniteJobs
      <3> HIDE DEF Posted
      <3> QED
        BY <1>0, <1>1, <1>3, <3>2, BreakerAssumption, GenerationAssumption DEF OutageCostBounded
    <2> QED
      BY <2>1, <2>2
  <1>4. CASE breaker' = Polled(breaker) /\ Elapsed(breaker) /\ spent' = 0
    <2>1. breaker'.state = "half_open" /\ breaker'.failures = breaker.failures /\ breaker.state = "open"
      BY <1>4 DEF Polled, Elapsed
    <2> QED
      BY <1>0, <1>1, <1>4, <2>1 DEF Accounted, CountedFaults
  <1> QED
    BY <1>2, <1>3, <1>4, SettledCall

(* A failure turns a posted call into a spent one.                         *)
LEMMA FailureAccounts ==
  ASSUME GInv, NEW j \in Jobs, Unreachable(j)
  PROVE  Accounted' /\ CountedFaults' /\ OutageCostBounded'
  <1>0. TypeOK /\ Accounted /\ CountedFaults /\ OutageCostBounded
    BY DEF GInv
  <1>1. /\ breaker \in Breaker /\ breaker.failures \in Nat /\ spent \in Nat
        /\ breaker.state \in {"closed", "open", "half_open"}
    BY <1>0, TypedBreaker
  <1>2. /\ j \in Posted /\ j \notin Faulted
        /\ job' = [job EXCEPT ![j] = "unreachable"]
        /\ breaker' = RecordFailure(breaker) /\ spent' = spent + 1
    BY DEF Unreachable, Posting, EndCall, Posted, Faulted
  <1>3. Posted' = Posted \ {j} /\ Faulted' = Faulted \cup {j}
    BY <1>0, <1>2, JobMoves
  <1>4. /\ Cardinality(Posted') = Cardinality(Posted) - 1
        /\ Cardinality(Faulted') = Cardinality(Faulted) + 1
        /\ Cardinality(Posted) \in Nat /\ Cardinality(Faulted) \in Nat
    BY <1>2, <1>3, PostedAreActive, DropCall, AddCall, FiniteJobs
  <1>5. /\ breaker'.failures \in {breaker.failures, breaker.failures + 1}
        /\ breaker'.state = "closed" =>
             /\ breaker.state = "closed"
             /\ breaker'.failures = breaker.failures + 1 /\ breaker'.failures < Threshold
        /\ breaker'.state # "closed" =>
             breaker'.state = "open" /\ breaker'.failures >= Threshold
    BY <1>0, <1>1, <1>2, FailedBreaker DEF Accounted
  <1> HIDE DEF Posted, Faulted
  <1>6. Accounted'
    BY <1>0, <1>1, <1>2, <1>5 DEF Accounted
  <1>7. CountedFaults'
    BY <1>0, <1>1, <1>4, <1>5 DEF CountedFaults
  <1>8. OutageCostBounded'
    BY <1>0, <1>1, <1>2, <1>4, BreakerAssumption, GenerationAssumption DEF OutageCostBounded
  <1> QED
    BY <1>6, <1>7, <1>8

LEMMA AccountInit == Init => GInv
  <1> SUFFICES ASSUME Init PROVE GInv
    OBVIOUS
  <1>0. TypeOK
    BY TypeInit
  <1>1. Active = {} /\ Posted = {} /\ job[Main] = "none" /\ stage = "idle" /\ breaker = Fresh /\ spent = 0
    BY GenerationAssumption DEF Init, Active, Posted, InCall, Main, Jobs
  <1>2. Cardinality({}) = 0
    BY FS_EmptySet
  <1>3. PoolBounded
    BY <1>1, <1>2, GenerationAssumption DEF PoolBounded
  <1>4. Accounted
    BY <1>1, FreshBreaker, BreakerAssumption DEF Accounted
  <1>5. CountedFaults
    <2>1. Cardinality(Faulted) \in Nat
      BY PostedAreActive, FiniteJobs
    <2> HIDE DEF Faulted
    <2> QED
      BY <1>1, <2>1, FreshBreaker DEF CountedFaults
  <1> QED
    BY <1>0, <1>1, <1>3, <1>4, <1>5, FreshBreaker, CostWhileNotOpen DEF GInv

LEMMA AccountStep == GInv /\ [Next]_generation => GInv'
  <1> SUFFICES ASSUME GInv, [Next]_generation PROVE GInv'
    OBVIOUS
  <1>0. TypeOK /\ PoolBounded /\ Accounted /\ CountedFaults /\ OutageCostBounded
    BY DEF GInv
  <1>1. TypeOK' /\ PoolBounded'
    BY <1>0, TypeStep, PoolStep
  <1>2. SUFFICES Accounted' /\ CountedFaults' /\ (breaker'.state = "open" => OutageCostBounded')
    <2>1. TypeOK' /\ PoolBounded' /\ Accounted' /\ (breaker.state # "open")' => OutageCostBounded'
      BY CostWhileNotOpen, PTL
    <2> QED
      BY <1>1, <2>1 DEF GInv
  <1>3. CASE breaker' = Fresh /\ spent' = 0
    <2>1. Cardinality(Faulted') \in Nat
      <3>1. Faulted' \in SUBSET Jobs
        BY DEF Faulted
      <3> QED
        BY <3>1, FiniteJobs
    <2> QED
      BY <1>3, <2>1, FreshBreaker, BreakerAssumption DEF Accounted, CountedFaults
  <1>4. CASE UNCHANGED <<breaker, spent>> /\ Posted' = Posted /\ Faulted' = Faulted
    BY <1>0, <1>4 DEF Accounted, CountedFaults, OutageCostBounded
  <1>5. ASSUME NEW a \in Articles, Take(a) PROVE UNCHANGED <<breaker, spent>> /\ Posted' = Posted /\ Faulted' = Faulted
    <2>1. /\ a \in Jobs /\ job' = [job EXCEPT ![a] = "asking"]
          /\ job[a] # "posting" /\ job[a] # "unreachable"
          /\ "asking" # "posting" /\ "asking" # "unreachable"
      BY <1>5, GenerationAssumption DEF Take, Jobs, Articles
    <2>2. Posted' = Posted /\ Faulted' = Faulted
      BY <1>0, <2>1, JobKeeps, Zenon
    <2> QED
      BY <1>5, <2>2 DEF Take
  <1>6. ASSUME NEW j \in Jobs, CallStep(j)
        PROVE  Accounted' /\ CountedFaults' /\ (breaker'.state = "open" => OutageCostBounded')
    BY <1>6, SettledAccounts, FailureAccounts
  <1>7. CASE Compose
    <2>1. /\ Main \in Jobs /\ job' = [job EXCEPT ![Main] = "asking"]
          /\ job[Main] # "posting" /\ job[Main] # "unreachable"
          /\ "asking" # "posting" /\ "asking" # "unreachable"
      BY <1>0, <1>7, GenerationAssumption DEF Compose, PoolBounded, Main, Jobs
    <2>2. Posted' = Posted /\ Faulted' = Faulted
      BY <1>0, <2>1, JobKeeps, Zenon
    <2> QED
      BY <1>4, <1>7, <2>2 DEF Compose
  <1>8. CASE Tick
    <2>1. breaker'.state = breaker.state /\ breaker'.failures = breaker.failures /\ spent' = spent
      BY <1>0, <1>8, TypedBreaker, AgedBreaker DEF Tick
    <2>2. Posted' = Posted /\ Faulted' = Faulted
      BY <1>8 DEF Tick, Posted, Faulted
    <2> QED
      BY <1>0, <2>1, <2>2 DEF Accounted, CountedFaults, OutageCostBounded
  <1>9. Interrupt \/ UNCHANGED generation =>
          UNCHANGED <<breaker, spent>> /\ Posted' = Posted /\ Faulted' = Faulted
    BY DEF Interrupt, generation, calls, Posted, Faulted
  <1>10. (\E n \in Articles : StartDraft(n)) \/ StartRewrite \/ CollectFails \/ Persist
           \/ ComposeFails \/ RewriteEnds => breaker' = Fresh /\ spent' = 0
    BY DEF StartDraft, StartRewrite, CollectFails, Persist, ComposeFails, RewriteEnds, End, NoCalls
  <1> QED
    BY <1>3, <1>4, <1>5, <1>6, <1>7, <1>8, <1>9, <1>10 DEF Next, GenerationStep

LEMMA Accounting == Spec => []GInv
  BY AccountInit, AccountStep, PTL DEF Spec

(* An outage costs at most the threshold and the calls under way when it   *)
(* is reached, for every number of articles: the promise of                *)
(* circuit_breaker.py:1-11 for a pool.                                     *)
THEOREM OutageCost == Spec => []OutageCostBounded
  <1>1. GInv => OutageCostBounded
    BY DEF GInv
  <1> QED
    BY <1>1, Accounting, PTL

(* Only unreachable calls open the breaker, as many as the threshold.      *)
THEOREM OnlyFaultsOpen == Spec => []OpenedByFaults
  <1>1. GInv => OpenedByFaults
    <2> SUFFICES ASSUME GInv, breaker.state # "closed" PROVE Cardinality(Faulted) >= Threshold
      BY DEF OpenedByFaults
    <2>1. breaker.failures >= Threshold /\ breaker.failures <= Cardinality(Faulted)
      BY DEF GInv, Accounted, CountedFaults
    <2>2. breaker.failures \in Nat /\ Cardinality(Faulted) \in Nat
      BY TypedBreaker, PostedAreActive, FiniteJobs DEF GInv
    <2> QED
      BY <2>1, <2>2, BreakerAssumption
  <1> QED
    BY <1>1, Accounting, PTL

-----------------------------------------------------------------------------
(* Half-open.                                                              *)

LEMMA PostedInPool ==
  ASSUME TypeOK, PoolBounded
  PROVE  Cardinality(Posted) \in Nat /\ Cardinality(Posted) <= Workers
<1>1. Posted \in SUBSET Jobs /\ Active \in SUBSET Jobs /\ Posted \subseteq Active
  BY PostedAreActive
<1>2. /\ Cardinality(Posted) <= Cardinality(Active)
      /\ Cardinality(Posted) \in Nat /\ Cardinality(Active) \in Nat
  BY <1>1, FiniteJobs
<1> HIDE DEF Posted, Active
<1> QED
  BY <1>2, GenerationAssumption DEF PoolBounded

LEMMA CallDrains ==
  ASSUME GInv, Drained, NEW j \in Jobs, CallStep(j), stage = "summarising"
  PROVE  Drained'
<1>0. TypeOK /\ PoolBounded /\ Accounted /\ breaker \in Breaker
  BY TypedBreaker DEF GInv
<1>1. breaker.state \in {"closed", "open"}
  BY <1>0, TypedBreaker DEF Drained
<1>2. CASE breaker' = Fresh
  BY <1>2, FreshBreaker DEF Drained
<1>3. CASE breaker' = breaker /\ UNCHANGED job
  <2>1. UNCHANGED <<breaker, Posted, Active, Queued>> /\ stage' = stage
    BY <1>3 DEF Posted, Active, Queued, CallStep, Ask, Retry, Unreachable, RateLimited,
                AskRepair, CutShort, Answered, Posting
  <2> QED
    BY <2>1 DEF Drained
<1>4. CASE Ask(j) /\ breaker.state = "open"
  <2>1. j \in Active /\ j \notin Posted
    BY <1>4 DEF Ask, Active, Posted, InCall
  <2>2. breaker.age = 0
    BY <1>4, <2>1 DEF Drained
  <2>3. ~ Elapsed(breaker)
    BY <2>2, BreakerAssumption DEF Elapsed
  <2>4. /\ breaker' = breaker /\ job' = [job EXCEPT ![j] = "refused"] /\ stage' = stage
        /\ job[j] # "posting" /\ "refused" # "posting"
    BY <1>4, <2>3 DEF Ask, Polled, AllowsRequest
  <2>5. Posted' = Posted
    BY <1>0, <2>4, JobKeeps, Zenon
  <2> QED
    BY <2>2, <2>4, <2>5 DEF Drained
<1>5. CASE Ask(j) /\ breaker.state = "closed"
  <2>1. breaker'.state = "closed" /\ stage' = stage
    BY <1>0, <1>5, PolledBreaker DEF Ask
  <2> QED
    BY <2>1 DEF Drained
<1>6. CASE Unreachable(j)
  <2>1. /\ j \in Posted /\ breaker' = RecordFailure(breaker)
        /\ job' = [job EXCEPT ![j] = "unreachable"]
    BY <1>6 DEF Unreachable, Posting, EndCall, Posted
  <2>2. Posted' = Posted \ {j}
    BY <1>0, <2>1, JobMoves
  <2>3. Cardinality(Posted') = Cardinality(Posted) - 1
    BY <2>1, <2>2, PostedAreActive, DropCall
  <2>4. Cardinality(Posted') < Workers
    <3>1. Cardinality(Posted) \in Nat /\ Cardinality(Posted) <= Workers
      BY <1>0, PostedInPool
    <3> HIDE DEF Posted
    <3> QED
      BY <2>3, <3>1, GenerationAssumption
  <2>5. breaker'.state \in {"closed", "open"} /\ (breaker'.state = "open" => breaker'.age = 0)
    <3>1. breaker.state = "open" => breaker.failures + 1 >= Threshold
      BY <1>0, BreakerAssumption DEF Accounted, Breaker
    <3> QED
      BY <1>1, <2>1, <3>1 DEF RecordFailure, Opened
  <2> QED
    BY <2>4, <2>5 DEF Drained
<1>7. ASSUME NEW v \in Outcomes, job' = [job EXCEPT ![j] = v], job[j] = "posting",
             v # "posting", UNCHANGED <<stage, breaker>>
      PROVE  Drained'
  <2>1. v \notin InCall /\ v # "waiting"
    BY <1>7 DEF InCall, Outcomes
  <2>2. Posted' = Posted \ {j} /\ Active' = Active \ {j}
    BY <1>0, <1>7, <2>1, JobMoves
  <2>3. Queued' = Queued
    BY <1>0, <1>7, <2>1 DEF Queued, TypeOK, Jobs, Articles
  <2>4. j \in Posted
    BY <1>7 DEF Posted
  <2>5. Cardinality(Posted') = Cardinality(Posted) - 1 /\ Cardinality(Posted) \in Nat
    BY <1>0, <2>2, <2>4, PostedAreActive, DropCall, PostedInPool
  <2> HIDE DEF Posted, Active, Queued
  <2>6. Cardinality(Posted) < Workers => Cardinality(Posted') < Workers
    BY <2>5, GenerationAssumption
  <2> QED
    BY <1>7, <2>2, <2>3, <2>6 DEF Drained
<1>8. CASE RateLimited(j)
  BY <1>7, <1>8 DEF RateLimited, Posting, EndCall, Outcomes
<1>9. ASSUME NEW o \in {"invalid", "garbled"}, CutShort(j, o) PROVE Drained'
  BY <1>7, <1>9 DEF CutShort, Posting, EndCall, Outcomes
<1>10. CASE Retry(j)
  BY <1>3, <1>10 DEF Retry
<1> QED
  BY <1>1, <1>2, <1>4, <1>5, <1>6, <1>8, <1>9, <1>10
  DEF CallStep, AskRepair, Answered, RecordSuccess

LEMMA StepDrains == GInv /\ Drained /\ [Next]_generation => Drained'
<1> SUFFICES ASSUME GInv, Drained, [Next]_generation PROVE Drained'
  OBVIOUS
<1>0. TypeOK /\ PoolBounded
  BY DEF GInv
<1>1. CASE stage' # "summarising"
  BY <1>1 DEF Drained
<1>2. ASSUME NEW n \in Articles, StartDraft(n) PROVE Drained'
  BY <1>2, FreshBreaker DEF StartDraft, NoCalls, Drained
<1>3. CASE UNCHANGED <<stage, breaker, job>>
  <2>1. UNCHANGED <<stage, breaker, Posted, Active, Queued>>
    BY <1>3 DEF Posted, Active, Queued
  <2> QED
    BY <2>1 DEF Drained
<1>4. ASSUME NEW a \in Articles, Take(a) PROVE Drained'
  <2>1. /\ a \in Jobs /\ a \in Queued /\ UNCHANGED <<stage, breaker>>
        /\ job' = [job EXCEPT ![a] = "asking"] /\ job[a] # "posting" /\ "asking" # "posting"
    BY <1>4, GenerationAssumption DEF Take, Jobs, Articles, Queued
  <2>2. Posted' = Posted
    BY <1>0, <2>1, JobKeeps, Zenon
  <2> QED
    BY <1>4, <2>1, <2>2 DEF Drained, Take
<1>5. ASSUME NEW j \in Jobs, CallStep(j) PROVE Drained'
  <2>1. stage' = stage
    BY <1>5 DEF CallStep, Ask, Retry, Unreachable, RateLimited, AskRepair, CutShort,
                Answered, Posting
  <2> QED
    BY <1>1, <1>5, <2>1, CallDrains
<1>6. CASE Tick
  <2>1. stage' = stage /\ job' = job /\ breaker' = Aged(breaker)
    BY <1>6 DEF Tick
  <2>2. breaker'.state = breaker.state
    BY <1>0, <2>1, TypedBreaker, AgedBreaker
  <2>3. Active = Posted /\ (Queued = {} \/ Cardinality(Active) >= Workers)
    BY <1>6 DEF Tick, Active, Posted, InCall
  <2>4. Posted' = Posted /\ Active' = Active /\ Queued' = Queued
    BY <2>1 DEF Posted, Active, Queued
  <2>5. Cardinality(Posted) \in Nat
    BY <1>0, PostedInPool
  <2> HIDE DEF Posted, Active, Queued
  <2> QED
    BY <2>1, <2>2, <2>3, <2>4, <2>5, GenerationAssumption DEF Drained
<1>7. StartRewrite \/ Compose \/ End => stage' # "summarising"
  BY DEF StartRewrite, Compose, End
<1>8. Interrupt \/ UNCHANGED generation => UNCHANGED <<stage, breaker, job>>
  BY DEF Interrupt, generation, calls
<1>9. CollectFails \/ Persist \/ ComposeFails \/ RewriteEnds => End
  BY DEF CollectFails, Persist, ComposeFails, RewriteEnds
<1> QED
  BY <1>1, <1>2, <1>3, <1>4, <1>5, <1>6, <1>7, <1>8, <1>9 DEF Next, GenerationStep

(* Half-open has at most one call under way, although the breaker lets     *)
(* every caller through then (circuit_breaker.py:27): only the composing   *)
(* call of the main thread can find the window elapsed.                    *)
THEOREM HalfOpenProbesOnce == Spec => []OneProbe
<1>1. Init => Drained
  BY DEF Init, Drained
<1>2. GInv /\ Drained => OneProbe
  <2> SUFFICES ASSUME GInv, Drained, breaker.state = "half_open" PROVE Cardinality(Active) <= 1
    BY DEF OneProbe
  <2>1. Active \subseteq {Main}
    BY DEF GInv, PoolBounded, Drained
  <2>2. Active = {} \/ Active = {Main}
    BY <2>1
  <2>3. Cardinality({}) = 0 /\ Cardinality({Main}) = 1
    BY FS_EmptySet, FS_Singleton
  <2> QED
    BY <2>2, <2>3
<1> QED
  BY <1>1, <1>2, StepDrains, Accounting, PTL DEF Spec

=============================================================================
