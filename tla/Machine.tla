------------------------------ MODULE Machine -------------------------------
(***************************************************************************)
(* The part of RV32 the compiler writes for: registers, a memory of typed  *)
(* cells, and the effect of an instruction.  An instruction is a tuple     *)
(* <<mnemonic, destination or source, operands>>; the assembler's rules    *)
(* (register files, labels) are in Assembles.                              *)
(*                                                                         *)
(* A register or cell holds <<"int", n>>, <<"FLOAT", n>>, <<"DOUBLE", n>>, *)
(* <<"hi", a>> (what lui leaves), <<"pc", k>> (what a call leaves in ra) or *)
(* Junk: what was never written, or was overwritten in part, or by a       *)
(* called function.  Nothing is computed from Junk but Junk.  Floating     *)
(* numbers are integers here: arithmetic on them is some function of the   *)
(* operands and of their order, rounding is not modelled.                  *)
(***************************************************************************)
EXTENDS Syntax, Sequences, FiniteSets

Temps   == <<"t0", "t1", "t2", "t3", "t4", "t5", "t6">>
Args    == <<"a0", "a1", "a2", "a3", "a4", "a5", "a6", "a7">>
FTemps  == <<"ft0", "ft1", "ft2", "ft3", "ft4", "ft5", "ft6", "ft7">>
FArgs   == <<"fa0", "fa1", "fa2", "fa3", "fa4", "fa5", "fa6", "fa7">>
Members(s) == {s[i] : i \in DOMAIN s}

FloatRegs   == Members(FTemps) \cup Members(FArgs)
CallerSaved == Members(Temps) \cup Members(Args) \cup FloatRegs
FrameRegs   == {"ra", "s0", "sp"}
IntRegs     == Members(Temps) \cup Members(Args) \cup FrameRegs \cup {"zero"}

Junk == <<"junk", 0>>
\* Mutant: a register is wider than a word.
WordUnwrapped(n) == <<"int", n>>
Word(n) == <<"int", Wrap(n, WordBits)>>
Known(vs) == \A i \in DOMAIN vs : vs[i][1] = "int"

Unit == [lw |-> 4, sw |-> 4, flw |-> 4, fsw |-> 4, lb |-> 1, sb |-> 1, fld |-> 8, fsd |-> 8]
Loads  == {"lw", "lb", "flw", "fld"}
Stores == {"sw", "sb", "fsw", "fsd"}
Format == [lw |-> "int", lb |-> "int", flw |-> "FLOAT", fld |-> "DOUBLE"]

Alu  == {"add", "sub", "mul", "div", "rem", "sll", "sra", "and", "or", "xor", "slt", "sgt"}
Alui == {"addi", "slli", "srai", "xori", "andi"}
Alu1 == {"mv", "neg", "not", "seqz", "snez"}
FAlu == {"fadd", "fsub", "fmul", "fdiv"}
FTest == {"flt", "fle", "feq"}
Jumps == {"beqz", "bnez", "j"}

(***************************************************************************)
(* Arithmetic                                                              *)
(***************************************************************************)
Fp(o, m, n) ==
  CASE o = "fadd" -> m + n
    [] o = "fsub" -> m - n
    [] o = "fmul" -> m * n
    [] o = "fdiv" -> IF n = 0 THEN 0 ELSE Quotient(m, n)
FpTest(o, m, n) ==
  Truth(CASE o = "flt" -> m < n [] o = "fle" -> m <= n [] o = "feq" -> m = n)

\* Shift distances are taken modulo the width of a word.
Compute(o, m, n) ==
  CASE o \in {"add", "addi"} -> m + n
    [] o = "sub" -> m - n
    [] o = "mul" -> m * n
    [] o = "div" -> IF n = 0 THEN -1 ELSE Quotient(m, n)
    [] o = "rem" -> IF n = 0 THEN m ELSE Remainder(m, n)
    [] o \in {"sll", "slli"} -> m * 2^(n % WordBits)
    [] o \in {"sra", "srai"} -> m \div 2^(n % WordBits)
    [] o \in {"and", "andi"} -> BitAnd(m, n)
    [] o = "or" -> BitOr(m, n)
    [] o \in {"xor", "xori"} -> BitXor(m, n)
    [] o = "slt" -> Truth(m < n)
    [] o = "sgt" -> Truth(m > n)
    [] o = "mv" -> m
    [] o = "neg" -> -m
    [] o = "not" -> -m - 1
    [] o = "seqz" -> Truth(m = 0)
    [] o = "snez" -> Truth(m # 0)

\* What instruction i leaves in register i[2].
Result(i, regs) ==
  LET a == regs[i[3]] IN
  CASE i[1] \in Alu  -> LET b == regs[i[4]] IN
                        IF Known(<<a, b>>) THEN Word(Compute(i[1], a[2], b[2])) ELSE Junk
    [] i[1] \in Alui -> IF Known(<<a>>) THEN Word(Compute(i[1], a[2], i[4])) ELSE Junk
    [] i[1] \in Alu1 -> IF Known(<<a>>) THEN Word(Compute(i[1], a[2], 0)) ELSE Junk
    [] i[1] \in FAlu -> LET b == regs[i[4]] IN
                        IF a[1] = i[5] /\ b[1] = i[5] THEN <<i[5], Fp(i[1], a[2], b[2])>> ELSE Junk
    [] i[1] \in FTest -> LET b == regs[i[4]] IN
                        IF a[1] = i[5] /\ b[1] = i[5] THEN Word(FpTest(i[1], a[2], b[2])) ELSE Junk
    [] i[1] = "fmv"  -> IF a[1] = i[5] THEN a ELSE Junk
    [] i[1] = "fneg" -> IF a[1] = i[5] THEN <<a[1], -a[2]>> ELSE Junk
    [] i[1] = "fcvt" -> IF Known(<<a>>) THEN <<i[5], a[2]>> ELSE Junk

(***************************************************************************)
(* Memory: a function from addresses to <<bytes, value>>.                  *)
(***************************************************************************)
Touches(a, n, c, mem) == c < a + n /\ a < c + mem[c][1]
Write(mem, a, n, v) ==
  LET rest == {c \in DOMAIN mem : ~Touches(a, n, c, mem)}
  IN  [c \in rest \cup {a} |-> IF c = a THEN <<n, v>> ELSE mem[c]]
Read(mem, a, n, format) ==
  IF a \in DOMAIN mem /\ mem[a][1] = n /\ mem[a][2][1] = format THEN mem[a][2] ELSE Junk

\* The address i[3](i[4]): an offset to a register, or the lower part of the
\* address of a symbol whose upper part lui has left there.
Address(i, regs) ==
  LET base == regs[i[4]]
  IN  CASE i[5] = "%lo" /\ base = <<"hi", i[3]>> -> i[3]
        [] i[5] = "" /\ Known(<<base>>) -> Wrap(base[2] + i[3], WordBits)
        [] OTHER -> 0
Stored(i, v) == IF i[1] = "sb" /\ Known(<<v>>) THEN <<"int", Wrap(v[2], CharBits)>> ELSE v

(***************************************************************************)
(* The assembler                                                           *)
(***************************************************************************)
Places(code, l) == {k \in DOMAIN code : code[k][1] = "label" /\ code[k][2] = l}
Target(code, l) == CHOOSE k \in Places(code, l) : TRUE

RightFiles(i) ==
  CASE i[1] \in Alu -> {i[2], i[3], i[4]} \subseteq IntRegs
    [] i[1] \in Alui \cup Alu1 -> {i[2], i[3]} \subseteq IntRegs
    [] i[1] \in {"li", "lui", "beqz", "bnez"} -> i[2] \in IntRegs
    [] i[1] \in FAlu -> {i[2], i[3], i[4]} \subseteq FloatRegs
    [] i[1] \in {"fmv", "fneg"} -> {i[2], i[3]} \subseteq FloatRegs
    [] i[1] \in FTest -> i[2] \in IntRegs /\ {i[3], i[4]} \subseteq FloatRegs
    [] i[1] = "fcvt" -> i[2] \in FloatRegs /\ i[3] \in IntRegs
    [] i[1] \in {"lw", "lb", "sw", "sb"} -> {i[2], i[4]} \subseteq IntRegs
    [] i[1] \in {"flw", "fld", "fsw", "fsd"} -> i[2] \in FloatRegs /\ i[4] \in IntRegs
    [] OTHER -> TRUE

Uses(code) == {code[k][Len(code[k])] : k \in {j \in DOMAIN code : code[j][1] \in Jumps}}
\* Every jump has one target.
Resolved(code) ==
  \A l \in Uses(code) : \E k \in DOMAIN code : Places(code, l) = {k}
Assembles(code) == Resolved(code) /\ \A k \in DOMAIN code : RightFiles(code[k])

=============================================================================
