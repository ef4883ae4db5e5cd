----------------------------- MODULE Generation -----------------------------
(***************************************************************************)
(* One operation of the AI service: a draft (services/                     *)
(* generation_service.py, modules/ai/engine.py), which summarises its      *)
(* articles on a small pool and then composes them, or the rewriting of a  *)
(* field.  Every call goes through the provider (modules/ai/               *)
(* openai_compatible.py) and its circuit breaker.  The provider, and the   *)
(* breaker with it, is built for the operation and dropped after it.       *)
(*                                                                         *)
(* Articles are named by their position in the request; job 0 is the call  *)
(* of the main thread.  A step is one critical section of the breaker, or  *)
(* one answer of the endpoint.                                             *)
(***************************************************************************)
EXTENDS CircuitBreaker, FiniteSets, Sequences

CONSTANTS
  MaxArticles,  \* bound: articles of a request
  Workers,      \* MAX_PARALLEL_SUMMARIES
  MaxRetries,   \* llm.max_retries
  MaxRepairs    \* repair_attempts of the engine

ASSUME GenerationAssumption ==
  /\ MaxArticles \in Nat \ {0} /\ Workers \in Nat \ {0}
  /\ MaxRetries \in Nat /\ MaxRepairs \in Nat

Articles == 1..MaxArticles
Main == 0
Jobs == 0..MaxArticles

VARIABLES
  stage,    \* what the operation is doing
  size,     \* articles in the request
  breaker,
  job,      \* where each call chain is, or how it ended
  tries,    \* requests posted in the call it is making
  repairs,  \* repairs it has asked for
  broken,   \* the main thread has an exception to raise once the pool is through
  links,    \* campaign_articles: per article, the article whose summary its row holds; 0 for none
  spent     \* history: failures recorded since a success, or since the window elapsed

calls == <<breaker, job, tries, repairs, spent>>
generation == <<stage, size, calls, broken, links>>

Running  == {"summarising", "composing", "rewriting"}
InCall   == {"asking", "posting"}
Outcomes == {"ok", "unreachable", "refused", "limited", "invalid", "garbled"}

TypeOK ==
  /\ stage \in Running \cup {"idle"}
  /\ size \in 0..MaxArticles
  /\ breaker \in Breaker
  /\ job \in [Jobs -> {"none", "waiting"} \cup InCall \cup Outcomes]
  /\ tries \in [Jobs -> 0..(MaxRetries + 1)]
  /\ repairs \in [Jobs -> 0..MaxRepairs]
  /\ broken \in BOOLEAN
  /\ DOMAIN links \subseteq Articles
  /\ spent \in Nat

Active == {j \in Jobs : job[j] \in InCall}
Posted == {j \in Jobs : job[j] = "posting"}
Faulted == {j \in Jobs : job[j] = "unreachable"}
Queued == {a \in Articles : job[a] = "waiting"}

NoCalls ==
  /\ breaker' = Fresh /\ spent' = 0 /\ broken' = FALSE
  /\ tries' = [j \in Jobs |-> 0] /\ repairs' = [j \in Jobs |-> 0]

Init ==
  /\ stage = "idle" /\ size = 0 /\ breaker = Fresh /\ spent = 0 /\ broken = FALSE
  /\ job = [j \in Jobs |-> "none"]
  /\ tries = [j \in Jobs |-> 0] /\ repairs = [j \in Jobs |-> 0]
  /\ links = <<>>

-----------------------------------------------------------------------------
(* Beginning and ending an operation.                                      *)

StartDraft(n) ==
  /\ stage = "idle"
  /\ stage' = "summarising" /\ size' = n
  /\ job' = [j \in Jobs |-> IF j \in 1..n THEN "waiting" ELSE "none"]
  /\ NoCalls /\ links' = <<>>

(* regenerate_field and the subject variants: one call, unrepaired.        *)
StartRewrite ==
  /\ stage = "idle"
  /\ stage' = "rewriting" /\ size' = 0
  /\ job' = [j \in Jobs |-> IF j = Main THEN "asking" ELSE "none"]
  /\ NoCalls /\ links' = <<>>

End ==
  /\ stage' = "idle" /\ size' = 0
  /\ job' = [j \in Jobs |-> "none"]
  /\ NoCalls

-----------------------------------------------------------------------------
(* One call: OpenAICompatibleProvider.generate and _post.                  *)

(* The pool takes articles in the order they were submitted.               *)
Take(a) ==
  /\ stage = "summarising" /\ job[a] = "waiting"
  /\ Cardinality(Active) < Workers /\ \A b \in Queued : a <= b
  /\ job' = [job EXCEPT ![a] = "asking"]
  /\ UNCHANGED <<stage, size, breaker, tries, repairs, broken, links, spent>>

Ask(j) ==
  /\ job[j] = "asking"
  /\ breaker' = Polled(breaker)
  /\ spent' = IF Elapsed(breaker) THEN 0 ELSE spent
  /\ job' = [job EXCEPT ![j] = IF AllowsRequest(breaker) THEN "posting" ELSE "refused"]
  /\ tries' = [tries EXCEPT ![j] = IF AllowsRequest(breaker) THEN 1 ELSE 0]
  /\ UNCHANGED <<stage, size, repairs, broken, links>>

Posting(j) == job[j] = "posting" /\ UNCHANGED <<stage, size, broken, links>>

(* Seeded fault: the attempts of a call start over.                        *)
RetryForever(j) ==
  /\ Posting(j)
  /\ tries' = [tries EXCEPT ![j] = IF @ > MaxRetries THEN 1 ELSE @ + 1]
  /\ UNCHANGED <<breaker, job, repairs, spent>>

(* A timeout, a transport error, a 429 or a 5xx: posted again after a      *)
(* pause.                                                                  *)
Retry(j) ==
  /\ Posting(j) /\ tries[j] <= MaxRetries
  /\ tries' = [tries EXCEPT ![j] = @ + 1]
  /\ UNCHANGED <<breaker, job, repairs, spent>>

EndCall(j, outcome) ==
  /\ job' = [job EXCEPT ![j] = outcome]
  /\ tries' = [tries EXCEPT ![j] = 0]
  /\ UNCHANGED repairs

(* The last attempt failed, or the endpoint rejected the request outright  *)
(* (401, 404, 413, out of memory): only this counts against the endpoint.  *)
Unreachable(j) ==
  /\ Posting(j) /\ EndCall(j, "unreachable")
  /\ breaker' = RecordFailure(breaker) /\ spent' = spent + 1

(* Seeded fault: a quota that needs a moment counts as a broken endpoint.  *)
RateLimitedAsFailure(j) ==
  /\ Posting(j) /\ tries[j] > MaxRetries /\ EndCall(j, "limited")
  /\ breaker' = RecordFailure(breaker) /\ UNCHANGED spent

(* The last attempt was a 429: neither a success nor a failure.            *)
RateLimited(j) ==
  /\ Posting(j) /\ tries[j] > MaxRetries /\ EndCall(j, "limited")
  /\ UNCHANGED <<breaker, spent>>

(* A 400 json_validate_failed raises before the success is recorded; so    *)
(* does a body that is not JSON, with an exception of no class of ours.    *)
CutShort(j, outcome) ==
  /\ outcome \in {"invalid", "garbled"}
  /\ Posting(j) /\ EndCall(j, outcome)
  /\ UNCHANGED <<breaker, spent>>

(* A body arrived: a success, whatever _parse makes of it.                 *)
Answered(j, outcome) ==
  /\ outcome \in {"ok", "invalid"}
  /\ Posting(j) /\ EndCall(j, outcome)
  /\ breaker' = RecordSuccess(breaker) /\ spent' = 0

(* Seeded fault: the repairs of an answer are not counted.                 *)
AskRepairAlways(j) ==
  /\ Posting(j) /\ stage # "rewriting"
  /\ job' = [job EXCEPT ![j] = "asking"]
  /\ tries' = [tries EXCEPT ![j] = 0]
  /\ repairs' = [repairs EXCEPT ![j] = @ + 1]
  /\ breaker' = RecordSuccess(breaker) /\ spent' = 0

(* A body the model rejects: _repair asks again, in a call of its own.  A  *)
(* rewriting does not repair.                                              *)
AskRepair(j) ==
  /\ Posting(j) /\ stage # "rewriting" /\ repairs[j] < MaxRepairs
  /\ job' = [job EXCEPT ![j] = "asking"]
  /\ tries' = [tries EXCEPT ![j] = 0]
  /\ repairs' = [repairs EXCEPT ![j] = @ + 1]
  /\ breaker' = RecordSuccess(breaker) /\ spent' = 0

(* Time passes for the breaker while all that can move waits for the       *)
(* endpoint: a refusal, or taking the next article, takes no time next to  *)
(* the reset window.                                                       *)
Tick ==
  /\ Active # {} /\ \A j \in Active : job[j] = "posting"
  /\ Queued = {} \/ Cardinality(Active) >= Workers
  /\ Aged(breaker) # breaker
  /\ breaker' = Aged(breaker)
  /\ UNCHANGED <<stage, size, job, tries, repairs, broken, links, spent>>

-----------------------------------------------------------------------------
(* The pipeline: GenerationService.generate.                               *)

Summarised == {a \in Articles : job[a] = "ok"}
PoolIdle == Active = {} /\ Queued = {}

(* The page's run is interrupted: the next report of progress raises.      *)
Interrupt ==
  /\ stage = "summarising" /\ ~broken
  /\ broken' = TRUE
  /\ UNCHANGED <<stage, size, calls, links>>

(* An exception of ours costs its article; any other, or an interruption,  *)
(* leaves the loop, and the pool runs to its end regardless.               *)
Fails == broken \/ (\E a \in Articles : job[a] = "garbled") \/ Summarised = {}

CollectFails ==
  /\ stage = "summarising" /\ PoolIdle /\ Fails
  /\ End /\ UNCHANGED links

Compose ==
  /\ stage = "summarising" /\ PoolIdle /\ ~Fails
  /\ stage' = "composing"
  /\ job' = [job EXCEPT ![Main] = "asking"]
  /\ UNCHANGED <<size, breaker, tries, repairs, broken, links, spent>>

(* _persist: link_articles pairs the request's articles with the list of   *)
(* the summaries that succeeded, position by position.                     *)
Summaries == SelectSeq([i \in 1..size |-> i], LAMBDA a : a \in Summarised)
LinkArticles(n, S) == [i \in 1..n |-> IF i <= Len(S) THEN S[i] ELSE 0]

Persist ==
  /\ stage = "composing" /\ job[Main] = "ok"
  /\ links' = LinkArticles(size, Summaries)
  /\ End

ComposeFails ==
  /\ stage = "composing" /\ job[Main] \in Outcomes \ {"ok"}
  /\ End /\ UNCHANGED links

(* regenerate_field returns or raises; what it writes is WriteContent of   *)
(* CampaignLifecycle.                                                      *)
RewriteEnds ==
  /\ stage = "rewriting" /\ job[Main] \in Outcomes
  /\ End /\ UNCHANGED links

CallStep(j) ==
  \/ Ask(j) \/ Retry(j) \/ Unreachable(j) \/ RateLimited(j) \/ AskRepair(j)
  \/ \E o \in {"invalid", "garbled"} : CutShort(j, o)
  \/ \E o \in {"ok", "invalid"} : Answered(j, o)

GenerationStep ==
  \/ \E a \in Articles : Take(a)
  \/ \E j \in Jobs : CallStep(j)
  \/ CollectFails \/ Compose \/ Persist \/ ComposeFails \/ RewriteEnds

Next ==
  \/ \E n \in Articles : StartDraft(n)
  \/ StartRewrite \/ Interrupt \/ Tick \/ GenerationStep

Spec == Init /\ [][Next]_generation

(* Every request to the endpoint has a timeout, so a thread with a call to *)
(* make or an answer to use always gets on.                                *)
FairSpec == Spec /\ WF_generation(GenerationStep)

-----------------------------------------------------------------------------
(* An outage costs a bounded number of full timeouts per reset window,     *)
(* however many articles there are: the threshold, plus the calls that     *)
(* were under way when it was reached.  (What circuit_breaker.py:1-11 is   *)
(* for; its "the first failure costs the timeout" is the case of one       *)
(* thread and a threshold of one.)                                         *)
OutageCostBounded == spent + Cardinality(Posted) <= Threshold + Workers - 1

(* Half-open admits one probe (circuit_breaker.py:27).  Nothing in the     *)
(* breaker says so; it holds because the worker whose failure opens the    *)
(* breaker drains the queue at once, so that only the composing call can   *)
(* find the window elapsed.                                                *)
OneProbe == breaker.state = "half_open" => Cardinality(Active) <= 1

(* The breaker opens only on faults of the endpoint: never on rate limits, *)
(* refusals, or answers nobody could use (openai_compatible.py:202-208,    *)
(* 282-290).                                                               *)
OpenedByFaults == breaker.state # "closed" => Cardinality(Faulted) >= Threshold

(* Every article's row holds that article's summary, or none               *)
(* (campaign_repo.py:84, "with their stage-1 summaries").                  *)
SummariesFollowArticles == \A i \in DOMAIN links : links[i] \in {0, i}

(* Every operation ends: attempts, repairs and the pool are finite.        *)
GenerationEnds == stage \in Running ~> stage = "idle"
=============================================================================
