--------------------------- MODULE SequenceFilter ---------------------------
(***************************************************************************)
(* Erasing elements from a sequence, as a recursive function: what the     *)
(* erase and remove of a std::deque leave, in the order it had.            *)
(***************************************************************************)
EXTENDS Integers, Sequences

\* What is left of a sequence once the elements of R have been erased from it.
Without(seq, R) ==
  LET rest[i \in 0..Len(seq)] ==
        IF i = 0 THEN << >>
        ELSE IF seq[i] \in R THEN rest[i - 1] ELSE Append(rest[i - 1], seq[i])
  IN rest[Len(seq)]

=============================================================================
