----------------------------- MODULE Truncation -----------------------------
(***************************************************************************)
(* Fitting an article to the model's budget (modules/cleaner/              *)
(* tokenizer.py).  A text is the sequence of its paragraphs; lengths are   *)
(* in characters, and Limit is the length the token budget stands for.     *)
(* What is kept of a text is a number of paragraphs from either end.       *)
(***************************************************************************)
EXTENDS Integers, Sequences, SequencesExt

CONSTANTS
  Paragraphs,  \* distinct texts of a paragraph
  Size,        \* characters of each
  Limit,       \* max_tokens * CHARS_PER_TOKEN / TOKEN_ESTIMATE_SAFETY_FACTOR
  Marker       \* len(TRUNCATION_MARKER)

ASSUME TruncationAssumption ==
  Size \in [Paragraphs -> Nat] /\ Limit \in Nat \ {0} /\ Marker \in Nat

Separator == 2

(* Characters of the first n paragraphs, each with its separator.          *)
Cost(p, n) ==
  LET used[i \in 0..Len(p)] == IF i = 0 THEN 0 ELSE used[i - 1] + Size[p[i]] + Separator
  IN  used[n]
Joined(p, n) == IF n = 0 THEN 0 ELSE Cost(p, n) - Separator

(* estimate_tokens against the budget.                                     *)
TooLong(p) == Joined(p, Len(p)) >= Limit

(* _take_paragraphs: it stops at the first that does not fit.              *)
Fitting(p, budget) ==
  CHOOSE n \in 0..Len(p) :
    /\ n = 0 \/ Cost(p, n) <= budget
    /\ n = Len(p) \/ Cost(p, n + 1) > budget

(* Seeded fault: the marker is not paid for.                               *)
UnmarkedBudget == Limit

Budget     == Limit - Marker
HeadBudget == (65 * Budget) \div 100
TailBudget == Budget - HeadBudget

(* The guard against a paragraph in both ends: by its text, so that two    *)
(* equal paragraphs meet it as well.                                       *)
Meet(p, head, tail) ==
  /\ head > 0 /\ tail > 0
  /\ p[head] = p[Len(p) - tail + 1] \/ head + tail >= Len(p)

Kept(p) ==
  LET head == Fitting(p, HeadBudget)
      tail == Fitting(Reverse(p), TailBudget)
  IN  IF ~TooLong(p) THEN [head |-> Len(p), tail |-> 0]
      ELSE IF Budget <= 0 THEN [head |-> 0, tail |-> 0]
      ELSE [head |-> head, tail |-> IF Meet(p, head, tail) THEN tail - 1 ELSE tail]

KeptLength(p, k) ==
  Joined(p, k.head) + (IF k.tail = 0 THEN 0 ELSE Marker + Joined(Reverse(p), k.tail))
=============================================================================
