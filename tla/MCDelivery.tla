----------------------------- MODULE MCDelivery -----------------------------
EXTENDS Delivery
CONSTANTS ann, bob, cy

(* A full list with a repeated row, and a shorter one.  Three targets are  *)
(* the fewest for an abort after a failure and a later success.            *)
MCFiles == {<<ann, bob, bob, cy>>, <<cy, ann>>}
=============================================================================
