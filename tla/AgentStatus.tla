---------------------------- MODULE AgentStatus ----------------------------
(***************************************************************************)
(* The agent worker's heartbeat and what the dashboard says of it          *)
(* (agent_worker.py, services/agent_status.py), beside the settings both   *)
(* read: the worker once, when it starts, the dashboard at each look.      *)
(*                                                                         *)
(* Time is counted in hours.  The scheduler fires discovery at every       *)
(* multiple of the interval since it was built and skips a slot whose      *)
(* predecessor is still running (max_instances=1).                         *)
(***************************************************************************)
EXTENDS Settings

CONSTANT MaxPass   \* bound: a discovery pass takes at most so many hours

On(v) == v["enabled"] = 1
Interval(v) == v["interval"]
Intervals == UNION {Accepts[r]["interval"] : r \in Versions}
Forever == 2 * (CHOOSE i \in Intervals : \A j \in Intervals : j <= i) + 2

ASSUME StatusAssumption ==
  /\ {"enabled", "interval"} \subseteq Keys
  /\ Intervals \subseteq Nat \ {0}
  /\ \A i \in Intervals : MaxPass \in Nat /\ MaxPass <= i + 1

VARIABLES
  worker,  \* the worker process
  every,   \* discovery_interval_hours it was started with
  due,     \* hours to its scheduler's next slot
  spent,   \* hours the pass under way has taken
  started, \* whether WORKER_STARTED was ever recorded
  age,     \* hours since LAST_DISCOVERY, counted up to Forever
  good     \* history: the last pass of this worker recorded its end

clocks == <<worker, every, due, spent, started, age, good>>
vars == <<layers, clocks>>

AgentInit ==
  /\ Init
  /\ worker = "down" /\ every = 1 /\ due = 1 /\ spent = 0
  /\ started = FALSE /\ age = None /\ good = FALSE

(* main: reads the rows, if it can, refuses to start when disabled, and    *)
(* runs the first pass at once, before the scheduler's thread.             *)
StartWorker ==
  /\ worker = "down"
  /\ \E rows \in {saved, [k \in Keys |-> None]} : LET read == Applied(rows, version) IN
       /\ On(read)
       /\ every' = Interval(read) /\ due' = Interval(read)
  /\ \E recorded \in BOOLEAN : started' = (started \/ recorded)
  /\ worker' = "passing" /\ spent' = 0 /\ good' = FALSE
  /\ UNCHANGED <<age, layers>>

(* run_discovery returns.  A pass that crashed, or whose record failed,    *)
(* leaves the old heartbeat; one skipped by its preflight does not.        *)
EndPass == \E recorded \in BOOLEAN :
  /\ worker = "passing"
  /\ worker' = "idle" /\ spent' = 0
  /\ age' = IF recorded THEN 0 ELSE age
  /\ good' = recorded
  /\ UNCHANGED <<every, due, started, layers>>

StopWorker ==
  /\ worker # "down"
  /\ worker' = "down" /\ spent' = 0 /\ good' = FALSE
  /\ every' = 1 /\ due' = 1
  /\ UNCHANGED <<started, age, layers>>

(* An hour passes; at a slot the scheduler starts a pass unless one runs.  *)
Tick ==
  /\ worker = "passing" => spent < MaxPass
  /\ LET slot == worker # "down" /\ due = 1 IN
       /\ due' = IF slot THEN every ELSE IF worker = "down" THEN due ELSE due - 1
       /\ worker' = IF slot THEN "passing" ELSE worker
       /\ spent' = IF worker = "passing" THEN spent + 1 ELSE 0
  /\ age' = IF age = None \/ age = Forever THEN age ELSE age + 1
  /\ UNCHANGED <<every, started, good, layers>>

AgentNext ==
  \/ (\E t \in Threads : EditStep(t)) /\ UNCHANGED clocks
  \/ RestartApp /\ UNCHANGED clocks
  \/ StartWorker \/ EndPass \/ StopWorker \/ Tick

(* Hours pass whatever the processes do.                                   *)
AgentSpec == AgentInit /\ [][AgentNext]_vars /\ WF_vars(Tick)

-----------------------------------------------------------------------------
(* Seeded fault: one missed interval is enough.                            *)
StaleAfterOne ==
  On(live) /\ age # None /\ age > Interval(live) + 1

(* Seeded fault: the comparison with the deadline is turned round.         *)
StaleBeforeDeadline ==
  On(live) /\ age # None /\ age < Interval(live) * 2 + 1

(* AgentStatus.is_stale: two intervals and an hour.                        *)
Stale ==
  On(live) /\ age # None /\ age > Interval(live) * 2 + 1

(* AgentStatus.headline, with an approval address configured.              *)
Headline ==
  CASE ~On(live) -> "off"
    [] On(live) /\ age = None /\ ~started -> "never run"
    [] On(live) /\ Stale -> "stalled"
    [] OTHER -> "running"

TypeOK ==
  /\ LayersType
  /\ worker \in {"down", "idle", "passing"}
  /\ every \in Nat \ {0} /\ due \in 1..every
  /\ spent \in 0..MaxPass
  /\ age \in Nat \cup {None}
  /\ started \in BOOLEAN /\ good \in BOOLEAN

(* The dashboard never calls stalled a worker whose passes end and record  *)
(* themselves, as long as the interval was not shortened under it          *)
(* (is_stale's slack of a second interval and an hour).                    *)
NoFalseAlarm ==
  worker # "down" /\ good /\ every <= Interval(live) => Headline # "stalled"

(* A worker that died after its first recorded pass is in the end shown as *)
(* stalled, as long as the automation stays on (the reason agent_status    *)
(* gives for the heartbeat's age).                                         *)
DeadWorkerReported ==
  <>[](worker = "down" /\ age # None /\ On(live)) => <>[](Headline = "stalled")
=============================================================================
