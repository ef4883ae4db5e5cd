------------------------------ MODULE Settings ------------------------------
(***************************************************************************)
(* Settings that can be changed without a restart                          *)
(* (services/settings_service.py, the settings table, config/settings.py). *)
(*                                                                         *)
(* A setting has two layers: the one Settings object of the app process,   *)
(* which every script run shares, and a row of the settings table, which   *)
(* outlives the process.  An edit applies to the object first and commits  *)
(* the row next; a revert deletes the row first and restores the object    *)
(* next.  Script runs are threads, so the steps of two edits interleave.   *)
(*                                                                         *)
(* A value is a number; Normal is what the validators make of an input.    *)
(* Every assignment goes through them, a restart's, a revert's and a       *)
(* rollback's too, and they may make something else of their own result,   *)
(* or refuse it: https://h/v1/v1 becomes https://h/v1, and that https://h. *)
(***************************************************************************)
EXTENDS Naturals, FiniteSets

CONSTANTS
  Threads,   \* script runs of administrators' tabs
  Keys,      \* EDITABLE
  Inputs,    \* per key: what its field of the page can be given
  Normal,    \* per key: what the validators make of an input
  Versions,  \* versions of the program, 1..n
  Accepts,   \* per version and key: the results its validators let pass
  Env,       \* the .env baseline
  None,      \* no row, no value
  MaxEdits   \* bound: calls of set and reset

Values == UNION {Accepts[r][k] : r \in Versions, k \in Keys}

ASSUME SettingsAssumption ==
  /\ Versions \subseteq Nat /\ 1 \in Versions
  /\ Accepts \in [Versions -> [Keys -> SUBSET Nat]]
  /\ \A k \in Keys, r \in Versions :
       /\ Accepts[r][k] \subseteq Inputs[k]
       /\ Env[k] \in Accepts[r][k]   \* else the release would not start
  /\ None \notin Nat /\ MaxEdits \in Nat

VARIABLES
  version,   \* the release the app runs
  saved,     \* the settings table, per key
  live,      \* get_settings() of the app process, per key
  edit,      \* per thread: the call of set or reset under way
  edits,     \* calls begun so far
  apart      \* history: keys whose layers an overlap or a failed load parted

layers == <<version, saved, live, edit, edits, apart>>

Quiet == [step |-> "none"]
Edit  == [step : {"applied", "removed"}, key : Keys, value : Values,
          previous : Values, alone : BOOLEAN]

Init ==
  /\ version = 1
  /\ saved = [k \in Keys |-> None]
  /\ live = [k \in Keys |-> Env[k]]
  /\ edit = [t \in Threads |-> Quiet]
  /\ edits = 0
  /\ apart = {}

Busy(t, k) == edit[t] # Quiet /\ edit[t].key = k

(* An assignment of v to key k of the Settings object, which holds old:    *)
(* what is refused leaves it alone (validate_assignment).                  *)
Assigned(r, k, old, v) ==
  IF Normal[k][v] \in Accepts[r][k] THEN Normal[k][v] ELSE old

(* apply_saved: what a process started on release r makes of the rows s.   *)
Applied(s, r) ==
  [k \in Keys |-> IF s[k] = None THEN Env[k] ELSE Assigned(r, k, Env[k], s[k])]

(* A call on key k begins: alone, or spoiling the others on the same key.  *)
Begin(t, k, to, v) ==
  /\ edit[t] = Quiet /\ edits < MaxEdits
  /\ edits' = edits + 1
  /\ LET others == {x \in Threads : Busy(x, k)} IN
       edit' = [x \in Threads |->
         CASE x = t -> [step |-> to, key |-> k, value |-> v, previous |-> live[k],
                        alone |-> others = {}]
           [] x \in others -> [edit[x] EXCEPT !.alone = FALSE]
           [] OTHER -> edit[x]]

(* The call of t returns, having brought its key's layers together unless  *)
(* another call came between.                                              *)
Finish(t) ==
  /\ apart' = IF edit[t].alone THEN apart \ {edit[t].key}
                               ELSE apart \cup {edit[t].key}
  /\ edit' = [edit EXCEPT ![t] = Quiet]

-----------------------------------------------------------------------------
(* Seeded fault: the object takes what its validators would refuse.        *)
SetLiveUnchecked(t) == \E k \in Keys : \E i \in Inputs[k] :
  /\ i # live[k]
  /\ Begin(t, k, "applied", Normal[k][i])
  /\ live' = [live EXCEPT ![k] = Normal[k][i]]
  /\ UNCHANGED <<version, saved, apart>>

(* set: the page passes on what differs from the live value; assigning it  *)
(* validates and normalises it.                                            *)
SetLive(t) == \E k \in Keys : \E i \in Inputs[k] :
  /\ i # live[k] /\ Normal[k][i] \in Accepts[version][k]
  /\ Begin(t, k, "applied", Normal[k][i])
  /\ live' = [live EXCEPT ![k] = Normal[k][i]]
  /\ UNCHANGED <<version, saved, apart>>

Persist(t) ==
  /\ edit[t].step = "applied"
  /\ saved' = [saved EXCEPT ![edit[t].key] = edit[t].value]
  /\ Finish(t)
  /\ UNCHANGED <<version, live, edits>>

(* Seeded fault: the write fails and the object keeps the new value.       *)
PersistFailsKeeping(t) ==
  /\ edit[t].step = "applied"
  /\ apart' = IF edit[t].alone THEN apart ELSE apart \cup {edit[t].key}
  /\ edit' = [edit EXCEPT ![t] = Quiet]
  /\ UNCHANGED <<version, saved, live, edits>>

(* The write raises (a locked database): the object is assigned what it    *)
(* had when this call began.                                               *)
PersistFails(t) ==
  LET k == edit[t].key IN
  /\ edit[t].step = "applied"
  /\ live' = [live EXCEPT ![k] = Assigned(version, k, @, edit[t].previous)]
  /\ apart' = IF edit[t].alone THEN apart ELSE apart \cup {edit[t].key}
  /\ edit' = [edit EXCEPT ![t] = Quiet]
  /\ UNCHANGED <<version, saved, edits>>

(* reset, offered by the page for what differs from .env.                  *)
ResetRow(t) == \E k \in Keys :
  /\ live[k] # Env[k]
  /\ Begin(t, k, "removed", Env[k])
  /\ saved' = [saved EXCEPT ![k] = None]
  /\ UNCHANGED <<version, live, apart>>

ResetLive(t) ==
  /\ edit[t].step = "removed"
  /\ live' = [live EXCEPT ![edit[t].key] =
       Assigned(version, edit[t].key, @, edit[t].value)]
  /\ Finish(t)
  /\ UNCHANGED <<version, saved, edits>>

(* The app stops, whatever its threads were doing, and starts again,       *)
(* perhaps as a later release; reading the rows may fail, which is logged. *)
RestartApp ==
  /\ \E r \in Versions, read \in BOOLEAN :
       /\ r >= version /\ version' = r
       /\ live' = Applied(IF read THEN saved ELSE [k \in Keys |-> None], r)
       /\ apart' = {k \in Keys : live'[k] # Applied(saved, r)[k]}
  /\ edit' = [t \in Threads |-> Quiet]
  /\ UNCHANGED <<saved, edits>>

EditStep(t) ==
  SetLive(t) \/ Persist(t) \/ PersistFails(t) \/ ResetRow(t) \/ ResetLive(t)

-----------------------------------------------------------------------------
LayersType ==
  /\ version \in Versions
  /\ saved \in [Keys -> Values \cup {None}]
  /\ \A k \in Keys : live[k] \in Accepts[version][k]
  /\ edit \in [Threads -> Edit \cup {Quiet}]
  /\ edits \in 0..MaxEdits
  /\ apart \subseteq Keys

(* A setting nobody is changing, and no overlap has parted.                *)
Settled(k) == k \notin apart /\ \A t \in Threads : ~Busy(t, k)

(* The validators make no more of what the key has been given.             *)
Plain(k) ==
  /\ Normal[k][Env[k]] = Env[k]
  /\ saved[k] # None => Normal[k][saved[k]] = saved[k]

(* While nobody edits a setting, the running app has exactly what it would *)
(* have after a restart, unless two edits of that setting overlapped or    *)
(* the rows could not be read, and none has completed alone since          *)
(* (settings_service: applied before persisted, rolled back on failure).   *)
(* It is so of values that a second validation leaves as they are.         *)
LayersAgree ==
  \A k \in Keys : Settled(k) /\ Plain(k) => live[k] = Applied(saved, version)[k]

(* What a comment promises of every value and the code does not keep: the  *)
(* database agrees with the running process about what is configured       *)
(* (settings_service.py:509-511), a row its release accepts is in force.   *)
SavedIsLive == \A k \in Keys :
  Settled(k) /\ saved[k] \in Accepts[version][k] => live[k] = saved[k]
=============================================================================
