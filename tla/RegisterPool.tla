---------------------------- MODULE RegisterPool ----------------------------
(***************************************************************************)
(* What allocate_reg and deallocate_reg promise the emitters: registers on *)
(* loan are pairwise different until a register file has none left.  From  *)
(* then on nothing is promised before the next function begins.            *)
(***************************************************************************)
EXTENDS Functions

CONSTANTS
  File,    \* File[b]: the temporaries of register file b
  Holder   \* the emitters that can be active at once

VARIABLES
  owner,   \* the register each active emitter has on loan
  kept,    \* registers that were never given back
  pledged  \* whether the promise is in force

vars == <<owner, kept, pledged>>

Unavailable == Range(owner) \cup kept
Outside(h) == DOMAIN owner \ {h}

Init == owner = << >> /\ kept = {} /\ pledged = TRUE

\* A loan: any register of the file that nobody has.
Lend(h, b) ==
  /\ pledged /\ h \notin DOMAIN owner
  /\ \E r \in File[b] \ Unavailable :
       owner' = [g \in DOMAIN owner \cup {h} |-> IF g = h THEN r ELSE owner[g]]
  /\ UNCHANGED <<kept, pledged>>

Return(h) ==
  /\ pledged /\ h \in DOMAIN owner
  /\ owner' = Restrict(owner, Outside(h))
  /\ UNCHANGED <<kept, pledged>>

\* The holder is gone, the register stays on loan.
Keep(h) ==
  /\ pledged /\ h \in DOMAIN owner
  /\ owner' = Restrict(owner, Outside(h))
  /\ kept' = kept \cup {owner[h]}
  /\ UNCHANGED pledged

\* The promise may be withdrawn only for want of a register.
RunOut(b) ==
  /\ pledged /\ File[b] \subseteq Unavailable
  /\ pledged' = FALSE

NoPromise == ~pledged /\ ~pledged'

\* A function begins, or the compilation ends.
Restart == owner' = << >> /\ kept' = {} /\ pledged' = TRUE

Next ==
  \/ \E h \in Holder : Return(h) \/ Keep(h) \/ \E b \in DOMAIN File : Lend(h, b)
  \/ \E b \in DOMAIN File : RunOut(b)
  \/ NoPromise \/ Restart

Spec == Init /\ [][Next]_vars

=============================================================================
