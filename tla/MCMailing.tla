----------------------------- MODULE MCMailing -----------------------------
(***************************************************************************)
(* Two recipients, one with a name in the list and one without, neither    *)
(* with a company; two unsubscribe pages the settings may hold, so that an *)
(* edit can move from one to the other between rendering and building.     *)
(***************************************************************************)
EXTENDS Mailing

CONSTANTS ann, bob

MCKnown == [r \in {ann, bob} |-> IF r = ann THEN {"name", "email"} ELSE {"email"}]
=============================================================================
