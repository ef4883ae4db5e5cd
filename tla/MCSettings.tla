----------------------------- MODULE MCSettings -----------------------------
(***************************************************************************)
(* Three settings: the two the worker's heartbeat depends on, and the URL  *)
(* of the model, whose input is normalised.                                *)
(***************************************************************************)
EXTENDS AgentStatus

MCKeys   == {"enabled", "interval", "base_url"}

(* URLs: 0 is that of .env, 1 is https://h, 2 is https://h/v1, 3 has /v1   *)
(* twice, 4 is https://v1, 5 is what is left of it, which is no URL, and   *)
(* 6 is https://v1/v1.  Each loses its last /v1.                           *)
WithoutV1 == [i \in 0..6 |->
  CASE i = 2 -> 1 [] i = 3 -> 2 [] i = 4 -> 5 [] i = 6 -> 4 [] OTHER -> i]

(* An interval of 0 is out of range, and 2 is no longer allowed in release *)
(* 2.                                                                      *)
MCInputs == [k \in MCKeys |->
  CASE k = "interval" -> 0..2 [] k = "base_url" -> 0..6 [] OTHER -> 0..1]
MCNormal == [k \in MCKeys |->
  IF k = "base_url" THEN WithoutV1 ELSE [i \in MCInputs[k] |-> i]]
MCAccepts == [r \in 1..2 |-> [k \in MCKeys |->
  CASE k = "interval" -> IF r = 1 THEN {1, 2} ELSE {1}
    [] k = "base_url" -> {0, 1, 2, 4}
    [] OTHER -> 0..1]]
MCEnv == [k \in MCKeys |-> IF k = "interval" THEN 1 ELSE 0]
=============================================================================
