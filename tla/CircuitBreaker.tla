--------------------------- MODULE CircuitBreaker ---------------------------
(***************************************************************************)
(* The breaker in front of the LLM endpoint (modules/ai/circuit_breaker.py)*)
(* as operators on its fields.  Each method holds the lock throughout, so  *)
(* each is one step of whoever calls it.  Time is the age of the opening,  *)
(* `time.monotonic() - _opened_at`, counted up to the reset window: beyond *)
(* it, and while the breaker is not open, nothing reads it.                *)
(***************************************************************************)
EXTENDS Naturals

CONSTANTS
  Threshold,   \* failure_threshold
  ResetAfter   \* reset_timeout_s, in ticks

ASSUME BreakerAssumption == Threshold \in Nat \ {0} /\ ResetAfter \in Nat \ {0}

Breaker == [state : {"closed", "open", "half_open"}, failures : Nat, age : 0..ResetAfter]

Fresh == [state |-> "closed", failures |-> 0, age |-> 0]

(* _current_state: whoever asks after the window has elapsed moves an open *)
(* breaker to half-open.                                                   *)
Elapsed(b) == b.state = "open" /\ b.age >= ResetAfter
Polled(b)  ==
  IF Elapsed(b) THEN [state |-> "half_open", failures |-> b.failures, age |-> 0] ELSE b

(* Seeded fault: an open breaker refuses nobody.                           *)
AllowsAlways(b) == TRUE

(* allows_request: half-open lets every caller through, not one of them.   *)
AllowsRequest(b) == Polled(b).state # "open"

(* record_success: whatever the state, whenever the call was begun.        *)
RecordSuccess(b) == Fresh

(* Seeded fault: an opening does not note its time.                        *)
OpenedUnstamped(n) == [state |-> "open", failures |-> n, age |-> ResetAfter]

Opened(n) == [state |-> "open", failures |-> n, age |-> 0]

(* record_failure: a failed probe reopens, and the count stays as it was;  *)
(* a failure while open moves the opening, since the branch is by count.   *)
RecordFailure(b) ==
  IF b.state = "half_open" THEN Opened(b.failures)
  ELSE IF b.failures + 1 >= Threshold THEN Opened(b.failures + 1)
  ELSE [state |-> b.state, failures |-> b.failures + 1, age |-> b.age]

Older(b) == [state |-> b.state, failures |-> b.failures, age |-> b.age + 1]
Aged(b) == IF b.state = "open" /\ b.age < ResetAfter THEN Older(b) ELSE b
=============================================================================
