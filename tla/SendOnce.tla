------------------------------ MODULE SendOnce ------------------------------
(***************************************************************************)
(* What sending a campaign promises, without lists, records, retries or    *)
(* processes: a send is opened, mails some addresses, each at most once,   *)
(* and is closed; a closed send is never opened again.                     *)
(***************************************************************************)
EXTENDS Naturals

CONSTANT Addresses

VARIABLES phase,    \* "open" until claimed, then "sending", then "closed"
          mails     \* mails per address that the provider acknowledged

Init ==
  /\ phase = "open"
  /\ mails = [a \in Addresses |-> 0]

Begin == phase = "open" /\ phase' = "sending" /\ UNCHANGED mails

Mail(a) ==
  /\ phase = "sending" /\ mails[a] = 0
  /\ mails' = [mails EXCEPT ![a] = 1]
  /\ UNCHANGED phase

Close == phase = "sending" /\ phase' = "closed" /\ UNCHANGED mails

Next == Begin \/ Close \/ \E a \in Addresses : Mail(a)

Spec == Init /\ [][Next]_<<phase, mails>>
=============================================================================
