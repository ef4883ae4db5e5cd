----------------------------- MODULE MCAudience -----------------------------
EXTENDS Audience
CONSTANTS ann, bob

(* Two links of one campaign's e-mail to ann.                              *)
MCLinks ==
  {[email |-> ann, campaign |-> 1, action |-> "UNSUBSCRIBED"],
   [email |-> ann, campaign |-> 1, action |-> "LIKED"]}
MCFiles == {{ann}, {ann, bob}}
=============================================================================
