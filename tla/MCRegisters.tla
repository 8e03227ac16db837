----------------------------- MODULE MCRegisters -----------------------------
(* Instances of Registers for TLC: files of the shape of t0-t6 / a0-a7 and *)
(* ft0-ft7 / fa0-fa7, short enough to run out.                             *)
EXTENDS Registers

\* One file, deep nesting.
IntBank     == {"int"}
IntTemps    == [b \in IntBank |-> <<"t0", "t1">>]
IntArgs     == [b \in IntBank |-> <<"a0", "a1">>]
IntReserved == {"sp", "s0"}
IntStray    == {}

\* Both files, one register of the float file in reach of the stray read.
BothBanks     == {"int", "float"}
BothTemps     == [b \in BothBanks |-> IF b = "int" THEN <<"t0">> ELSE <<"ft0">>]
BothArgs      == [b \in BothBanks |-> IF b = "int" THEN <<"a0">> ELSE <<"fa0", "fa1">>]
BothReserved  == {"sp"}
BothStray     == {"fa1"}

=============================================================================
