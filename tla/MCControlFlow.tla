---------------------------- MODULE MCControlFlow ----------------------------
(* An instance of ControlFlow for TLC.                                     *)
EXTENDS ControlFlow

TwoValues == {1, 2}

=============================================================================
