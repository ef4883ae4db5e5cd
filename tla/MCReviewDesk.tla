---------------------------- MODULE MCReviewDesk ----------------------------
(* The desk with interchangeable tabs.                                     *)
EXTENDS ReviewDesk, TLC

TabSymmetry == Permutations(Tabs)
=============================================================================
