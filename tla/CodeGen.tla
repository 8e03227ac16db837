------------------------------ MODULE CodeGen -------------------------------
(***************************************************************************)
(* Instruction selection: EmitRISC and EmitADDRESS of the expression       *)
(* nodes.  Emit(e, dest, c) is the Context after e has written, to c.code, *)
(* the instructions that are to leave its value in register dest.  The     *)
(* fields of a Context are                                                 *)
(*   code     what the stream has received                                 *)
(*   syms     the symbol table                                             *)
(*   sp       stack_frame_pointer                                          *)
(*   busy     registers whose flag is set                                  *)
(*   reg      the answer of the last allocation                            *)
(*   type     current_type_                                                *)
(*   leftOp, arrayIndex, currentPointer   left_op_, array_index_ and       *)
(*            is_current_pointer_                                          *)
(*   labels   label_map: how many labels of each prefix were made          *)
(*   consts   the constants in read-only data, in the order of their labels*)
(*   thrown   whether an exception ended the compilation                   *)
(* An emitter that throws is followed here to its end; only thrown counts. *)
(***************************************************************************)
EXTENDS Machine

CONSTANTS
  FrameBytes, \* STACK_FRAME_SIZE
  ConstBase,  \* address of the first constant in read-only data
  Emit(_, _, _) \* EmitRISC, a virtual function: EmitNode is what the classes do

Throw(c)     == [c EXCEPT !.thrown = TRUE]
ThrowIf(b, c) == IF b THEN Throw(c) ELSE c
Put(c, is)   == [c EXCEPT !.code = @ \o is]

(***************************************************************************)
(* What the emitters ask of the Context                                    *)
(***************************************************************************)
Free(s, c) == {i \in DOMAIN s : s[i] \notin c.busy}
First(s, c) == s[CHOOSE i \in Free(s, c) : \A j \in Free(s, c) : i <= j]
TakeFrom(s, c) == [c EXCEPT !.reg = First(s, c), !.busy = @ \cup {First(s, c)}]

\* allocate_reg; what spilling does is the subject of Registers, programs that
\* need it are not compiled here.
AllocateReg(type, c) ==
  LET fp    == type \in {"FLOAT", "DOUBLE"}
      temps == IF fp THEN FTemps ELSE Temps
      spare == Tail(IF fp THEN FArgs ELSE Args)
  IN  IF Free(temps, c) # {} THEN TakeFrom(temps, c)
      ELSE IF Free(spare, c) # {} THEN TakeFrom(spare, c)
      ELSE Throw(c)

AllocateArgReg(type, c) ==
  LET args == IF type \in {"FLOAT", "DOUBLE"} THEN FArgs ELSE Args
  IN  IF Free(args, c) # {} THEN TakeFrom(args, c) ELSE [c EXCEPT !.reg = ""]

DeallocateReg(r, c) == [c EXCEPT !.busy = @ \ {r}]
InitializeArgRegs(c) == [c EXCEPT !.busy = @ \ (Members(Args) \cup Members(FArgs))]

PushStack(n, c) == ThrowIf(c.sp - n < -FrameBytes, [c EXCEPT !.sp = @ - n])
PopStack(n, c)  == [c EXCEPT !.sp = @ + n]

\* Mutant: the counter of the prefix is not used.
NewLabelOfPrefix(prefix, k, c) == <<prefix, k>>
\* The k-th label makeUniqueLabel makes of the prefix from now on.
NewLabel(prefix, k, c) == <<prefix, c.labels[prefix] + k>>
\* Mutant: the counter stops short of the last label.
MakeLabelsButLast(prefix, n, c) == [c EXCEPT !.labels[prefix] = @ + n - 1]
MakeLabels(prefix, n, c) == [c EXCEPT !.labels[prefix] = @ + n]

\* makeUniqueConstLabel and makeUniqueDoubleConstLabel, with the address
\* emitLabels gives the constant.
MakeConst(type, n, c) == [c EXCEPT !.consts = Append(@, <<type, n>>)]
LastConst(c) == ConstBase + 8 * (Len(c.consts) - 1)

LoadInstr(type)  == CASE type = "FLOAT" -> "flw" [] type = "DOUBLE" -> "fld"
                      [] type = "CHAR" -> "lb" [] OTHER -> "lw"
StoreInstr(type) == CASE type = "FLOAT" -> "fsw" [] type = "DOUBLE" -> "fsd"
                      [] type = "CHAR" -> "sb" [] OTHER -> "sw"
Var(x, c) == c.syms[x]

\* Context::load: the value of x, the address of an array, or what lies at
\* address for an element of one.
Load(x, dest, address, c) ==
  LET v == Var(x, c)
      i == IF v.isPointer THEN "lw" ELSE LoadInstr(v.type)
  IN  IF v.scope = "ENUM" THEN Put(c, << <<"li", dest, v.value>> >>)
      ELSE IF v.scope = "GLOBAL"
      THEN ThrowIf(v.isArray, Put(c, << <<"lui", dest, v.loc>>, <<i, dest, v.loc, dest, "%lo">> >>))
      ELSE IF ~v.isArray THEN Put(c, << <<i, dest, v.loc, "s0", "">> >>)
      ELSE IF address = "" THEN Put(c, << <<"addi", dest, "s0", v.loc>> >>)
      ELSE Put(c, << <<i, dest, 0, address, "">> >>)

Store(x, r, address, c) ==
  LET v    == Var(x, c)
      i    == IF v.isPointer THEN "sw" ELSE StoreInstr(v.type)
      lent == AllocateReg(v.type, c)
  IN  IF v.scope = "GLOBAL"
      THEN ThrowIf(v.isArray, DeallocateReg(lent.reg,
             Put(lent, << <<"lui", lent.reg, v.loc>>, <<i, r, v.loc, lent.reg, "%lo">> >>)))
      ELSE IF v.isArray THEN Put(c, << <<i, r, 0, address, "">> >>)
      ELSE Put(c, << <<i, r, v.loc, "s0", "">> >>)

\* Register move of the kind of the type.
Move(type, r, s) == IF type \in {"FLOAT", "DOUBLE"} THEN <<"fmv", r, s, "", type>> ELSE <<"mv", r, s>>

(***************************************************************************)
(* Emitters                                                                *)
(***************************************************************************)
\* Identifier::EmitRISC inside a function: a target is not loaded, unless it
\* is the array's index or what is dereferenced.
EmitIdentifier(e, dest, c) ==
  IF \/ c.leftOp /\ ~c.arrayIndex /\ ~c.currentPointer
     \/ ~IsInitialised(e.name, c.syms)
  THEN c ELSE Load(e.name, dest, "", c)

EmitConstant(e, dest, c) == Put(c, << <<"li", dest, e.value>> >>)

\* A floating constant has the type the Context was left with.
EmitFloatConstant(e, dest, c) ==
  LET lent == AllocateArgReg("INT", c)
      made == MakeConst(c.type, e.value, lent)
      at   == LastConst(made)
      load == Put(made, << <<"lui", lent.reg, at>>,
                           <<LoadInstr(c.type), dest, at, lent.reg, "%lo">> >>)
  IN  IF c.type \in {"FLOAT", "DOUBLE"} THEN DeallocateReg(lent.reg, load) ELSE Throw(c)

EmitSizeof(e, dest, c) ==
  Put(c, << <<"li", dest, GetBytes(GetType(e.operand, c.syms))>> >>)

\* FunctionCall::EmitRISC without arguments.
EmitCall(dest, c) == Put(InitializeArgRegs(c), << <<"call", "f">>, <<"mv", dest, "a0">> >>)

\* Operation: the left operand is parked in the frame while the right one is
\* emitted into a register of its own.
PointerOperation(e, dest, r, c) ==
  LET shift == Log2Bytes(GetType(e.left, c.syms))
      scale == <<"slli", r, r, shift>>
      back  == <<"srai", dest, dest, shift>>
  IN  CASE e.op = "+" -> Put(c, <<scale, <<"add", dest, dest, r>> >>)
        [] e.op = "-" ->
             IF ~GetIsPointer(GetIdentifier(e.right), c.syms)
             THEN Put(c, <<scale, <<"sub", dest, dest, r>> >>)
             ELSE Put(Put(c, << <<"sub", dest, dest, r>> >>), IF shift = 0 THEN << >> ELSE <<back>>)
        [] OTHER -> Throw(c)

FloatInstr(o) == CASE o = "+" -> "fadd" [] o = "-" -> "fsub" [] o = "*" -> "fmul" [] o = "/" -> "fdiv"
FloatOperation(e, type, dest, r, c) ==
  IF e.op \in {"<<", ">>", "%"} THEN Throw(c)
  ELSE IF type = "FLOAT"
  THEN Put(c, << <<FloatInstr(e.op), r, dest, r, type>>, <<"fmv", dest, r, "", type>> >>)
  ELSE Put(c, << <<FloatInstr(e.op), dest, dest, r, type>> >>)

IntInstr(o) ==
  CASE o = "+" -> "add" [] o = "-" -> "sub" [] o = "*" -> "mul" [] o = "/" -> "div" [] o = "%" -> "rem"
    [] o = "<<" -> "sll" [] o = ">>" -> "sra" [] o = "&" -> "and" [] o = "^" -> "xor" [] o = "|" -> "or"

ApplyOperation(e, pointer, type, dest, r, c) ==
  IF pointer THEN PointerOperation(e, dest, r, c)
  ELSE IF type \in {"FLOAT", "DOUBLE"} THEN FloatOperation(e, type, dest, r, c)
  ELSE Put(c, << <<IntInstr(e.op), dest, dest, r>> >>)

\* Mutant: the operand is parked before stack_frame_pointer is moved.
EmitOperationParkedFirst(e, dest, c) ==
  LET left   == Emit(e.left, dest, c)
      type   == GetType(e.left, c.syms)
      bytes  == GetBytes(type)
      parked == PushStack(bytes, Put(left, << <<StoreInstr(type), dest, left.sp, "s0", "">> >>))
      lent   == AllocateReg(GetType(e.right, c.syms), parked)
      right  == Emit(e.right, lent.reg, lent)
      both   == PopStack(bytes, Put(right, << <<LoadInstr(type), dest, left.sp, "s0", "">> >>))
  IN  DeallocateReg(lent.reg,
        ApplyOperation(e, GetIsPointer(GetIdentifier(e.left), c.syms), type, dest, lent.reg, both))

\* Mutant: the operand is parked below the frame pointer without moving it.
EmitOperationUnparked(e, dest, c) ==
  LET left  == Emit(e.left, dest, c)
      type  == GetType(e.left, c.syms)
      place == left.sp - GetBytes(type)
      lent  == AllocateReg(GetType(e.right, c.syms),
                           Put(left, << <<StoreInstr(type), dest, place, "s0", "">> >>))
      right == Emit(e.right, lent.reg, lent)
      both  == Put(right, << <<LoadInstr(type), dest, place, "s0", "">> >>)
  IN  DeallocateReg(lent.reg,
        ApplyOperation(e, GetIsPointer(GetIdentifier(e.left), c.syms), type, dest, lent.reg, both))

EmitOperation(e, dest, c) ==
  LET left    == Emit(e.left, dest, c)
      pointer == GetIsPointer(GetIdentifier(e.left), c.syms)
      type    == GetType(e.left, c.syms)
      bytes   == IF pointer THEN 4 ELSE GetBytes(type)
      store   == IF pointer THEN "sw" ELSE StoreInstr(type)
      load    == IF pointer THEN "lw" ELSE LoadInstr(type)
      parked  == PushStack(bytes, left)
      lent    == AllocateReg(GetType(e.right, c.syms),
                             Put(parked, << <<store, dest, parked.sp, "s0", "">> >>))
      right   == Emit(e.right, lent.reg, lent)
      both    == PopStack(bytes, Put(right, << <<load, dest, parked.sp, "s0", "">> >>))
  IN  DeallocateReg(lent.reg,
        ApplyOperation(e, pointer, type, dest, lent.reg, both))

\* LogicalOperation on floating operands: both in registers, then the test,
\* then the result is moved to dest.
FloatTest(e, type, l, r, res) ==
  CASE e.op = "<"  -> << <<"flt", res, l, r, type>> >>
    [] e.op = ">"  -> << <<"flt", res, r, l, type>> >>
    [] e.op = "<=" -> << <<"fle", res, l, r, type>> >>
    [] e.op = ">=" -> << <<"fle", res, r, l, type>> >>
    [] e.op = "==" -> << <<"feq", res, l, r, type>> >>
    [] e.op = "!=" -> << <<"feq", res, l, r, type>>, <<"xori", res, res, 1>> >>

FloatConnective(e, type, l, r, res, c) ==
  LET label(k) == NewLabel(".L", k, c)
      false == label(1)
      true  == label(2)
      end   == IF e.op = "&&" THEN label(2) ELSE label(3)
      lent  == AllocateReg(type, MakeLabels(".L", IF e.op = "&&" THEN 2 ELSE 3, c))
      zero  == lent.reg
      leave == IF e.op = "&&" THEN <<"bnez", res, false>> ELSE <<"beqz", res, true>>
      enter == IF e.op = "&&" THEN << >> ELSE << <<"label", true>> >>
  IN  DeallocateReg(zero,
        Put(lent, << <<"fcvt", zero, "zero", "", type>>,
                     <<"feq", res, l, zero, type>>, leave,
                     <<"feq", res, r, zero, type>>, <<"bnez", res, false>> >>
                  \o enter
                  \o << <<"li", res, 1>>, <<"j", end>>, <<"label", false>>, <<"li", res, 0>>,
                        <<"label", end>> >>))

FloatLogical(e, type, dest, c) ==
  LET forLeft  == AllocateReg(type, c)
      left     == Emit(e.left, forLeft.reg, forLeft)
      forRight == AllocateReg(type, left)
      right    == Emit(e.right, forRight.reg, forRight)
      forBoth  == AllocateReg("INT", right)
      l == forLeft.reg
      r == forRight.reg
      res == forBoth.reg
      tested == CASE e.op \in {"&&", "||"} -> FloatConnective(e, type, l, r, res, forBoth)
                  [] e.op \in {"&", "^", "|"} -> Throw(forBoth)
                  [] OTHER -> Put(forBoth, FloatTest(e, type, l, r, res))
      moved  == Put(tested, << <<"addi", dest, res, 0>> >>)
  IN  DeallocateReg(l, DeallocateReg(r, DeallocateReg(res, moved)))

\* The comparison of doubles sets the current type and leaves it.
DoubleLogical(e, dest, c) == FloatLogical(e, "DOUBLE", dest, [c EXCEPT !.type = "DOUBLE"])

IntTest(o, dest, l) ==
  (CASE o = "<"  -> << <<"slt", dest, l, dest>> >>
     [] o = ">"  -> << <<"sgt", dest, l, dest>> >>
     [] o = "<=" -> << <<"sgt", dest, l, dest>>, <<"xori", dest, dest, 1>> >>
     [] o = ">=" -> << <<"slt", dest, l, dest>>, <<"xori", dest, dest, 1>> >>
     [] o = "==" -> << <<"sub", dest, l, dest>>, <<"seqz", dest, dest>> >>
     [] o = "!=" -> << <<"sub", dest, l, dest>>, <<"snez", dest, dest>> >>)
  \o << <<"andi", dest, dest, 255>> >>

\* Both operands of && have been emitted; the right one is emitted again.
IntAnd(e, dest, l, c) ==
  LET false == NewLabel(".L", 1, c)
      end   == NewLabel(".L", 2, c)
      again == Emit(e.right, dest, Put(MakeLabels(".L", 2, c), << <<"beqz", l, false>> >>))
  IN  Put(again, << <<"beqz", dest, false>>, <<"li", dest, 1>>, <<"j", end>>, <<"label", false>>,
                    <<"li", dest, 0>>, <<"label", end>> >>)

IntOr(e, dest, l, c) ==
  LET true  == NewLabel("L", 1, c)
      end   == NewLabel("L", 2, c)
      again == Emit(e.right, dest, Put(MakeLabels("L", 2, c), << <<"bnez", l, true>> >>))
  IN  Put(again, << <<"snez", dest, dest>>, <<"j", end>>, <<"label", true>>, <<"li", dest, 1>>,
                    <<"label", end>> >>)

IntLogical(e, dest, c) ==
  LET lent  == AllocateReg(GetType(e.left, c.syms), c)
      l     == lent.reg
      both  == Emit(e.right, dest, Emit(e.left, l, lent))
  IN  DeallocateReg(l,
        CASE e.op = "&&" -> IntAnd(e, dest, l, both)
          [] e.op = "||" -> IntOr(e, dest, l, both)
          [] e.op \in {"&", "^", "|"} -> Put(both, << <<IntInstr(e.op), dest, l, dest>> >>)
          [] OTHER -> Put(both, IntTest(e.op, dest, l)))

EmitLogical(e, dest, c) ==
  CASE GetType(e.left, c.syms) = "FLOAT" -> FloatLogical(e, "FLOAT", dest, c)
    [] GetType(e.left, c.syms) = "DOUBLE" -> DoubleLogical(e, dest, c)
    [] OTHER -> IntLogical(e, dest, c)

EmitTernary(e, dest, c) ==
  LET true  == NewLabel(".L", 1, c)
      false == NewLabel(".L", 2, c)
      end   == NewLabel(".L", 3, c)
      lent  == AllocateReg(GetType(e.condition, c.syms), MakeLabels(".L", 3, c))
      test  == Put(Emit(e.condition, lent.reg, lent), << <<"beqz", lent.reg, false>>, <<"label", true>> >>)
      left  == Put(Emit(e.left, dest, test), << <<"j", end>>, <<"label", false>> >>)
  IN  DeallocateReg(lent.reg, Put(Emit(e.right, dest, left), << <<"label", end>> >>))

\* Mutant: array_index_ is not reset.
EmitSubscriptUnreset(e, dest, c) == Emit(e.index, dest, [c EXCEPT !.arrayIndex = TRUE])

\* The index is emitted as a value even when the element is a target.
EmitSubscript(e, dest, c) ==
  [Emit(e.index, dest, [c EXCEPT !.arrayIndex = TRUE]) EXCEPT !.arrayIndex = FALSE]

\* Identifier::EmitADDRESS and ArrayIndex::EmitADDRESS; Node's writes nothing.
AddressOfElement(e, dest, c) ==
  LET x    == GetIdentifier(e)
      lent == AllocateReg(Var(x, c).type, EmitSubscript(e, dest, c))
  IN  DeallocateReg(lent.reg,
        Put(Load(x, lent.reg, "", lent),
            << <<"slli", dest, dest, Log2Bytes(Var(x, c).type)>>, <<"add", dest, dest, lent.reg>> >>))

\* Mutant: the address of a variable is computed in s0.
EmitAddressInS0(e, dest, c) ==
  CASE e.kind = "id" -> Put(c, << <<"addi", "s0", "s0", Var(e.name, c).loc>>, <<"mv", dest, "s0">> >>)
    [] e.kind = "index" -> AddressOfElement(e, dest, c)
    [] OTHER -> c

EmitAddress(e, dest, c) ==
  CASE e.kind = "id" -> Put(c, << <<"addi", dest, "s0", Var(e.name, c).loc>> >>)
    [] e.kind = "index" -> AddressOfElement(e, dest, c)
    [] OTHER -> c

EmitUnary(e, dest, c) ==
  LET type     == GetType(e.operand, c.syms)
      value    == Emit(e.operand, dest, c)
      address  == Emit(e.operand, dest, [c EXCEPT !.currentPointer = TRUE])
      pointed  == IF address.leftOp THEN address
                  ELSE Put(address, << <<LoadInstr(type), dest, 0, dest, "">> >>)
      negative == IF type \in {"FLOAT", "DOUBLE"} THEN <<"fneg", dest, dest, "", type>>
                  ELSE <<"neg", dest, dest>>
  IN  CASE e.op = "&" -> EmitAddress(e.operand, dest, c)
        [] e.op = "*" -> [pointed EXCEPT !.currentPointer = FALSE]
        [] e.op = "+" -> value
        [] e.op = "-" -> Put(value, <<negative>>)
        [] e.op = "~" -> ThrowIf(type # "INT", Put(value, << <<"not", dest, dest>> >>))
        [] e.op = "!" -> ThrowIf(type # "INT", Put(value, << <<"seqz", dest, dest>> >>))

EmitIndex(e, dest, c) ==
  LET x     == GetIdentifier(e)
      v     == Var(x, c)
      sub   == EmitSubscript(e, dest, c)
      scale == <<"slli", dest, dest, Log2Bytes(v.type)>>
      lent  == AllocateReg(v.type, sub)
      base  == Put(Load(x, lent.reg, "", lent), <<scale, <<"add", dest, dest, lent.reg>> >>)
      slot  == Put(sub, <<scale, <<"addi", dest, dest, v.loc>>, <<"add", dest, "s0", dest>> >>)
  IN  IF v.isPointer THEN Put(DeallocateReg(lent.reg, base), << <<LoadInstr(v.type), dest, 0, dest, "">> >>)
      ELSE IF slot.leftOp THEN slot
      ELSE Load(x, dest, dest, slot)

\* One more or less, in a register of its own.
FloatStep(e, type, r, c) ==
  LET forBase == AllocateArgReg("INT", c)
      lent    == AllocateArgReg(type, forBase)
      made    == MakeConst(type, 1, lent)
      at      == LastConst(made)
  IN  DeallocateReg(lent.reg, DeallocateReg(forBase.reg,
        Put(made, << <<"lui", forBase.reg, at>>,
                     <<LoadInstr(type), lent.reg, at, forBase.reg, "%lo">>,
                     <<IF e.op = "++" THEN "fadd" ELSE "fsub", r, r, lent.reg, type>> >>)))

Step(e, x, r, c) ==
  LET type  == Var(x, c).type
      width == IF GetIsPointer(x, c.syms) THEN GetBytes(type) ELSE 1
      add   == <<"addi", r, r, IF e.op = "++" THEN width ELSE -width>>
  IN  IF type \in {"FLOAT", "DOUBLE"} /\ ~GetIsPointer(x, c.syms)
      THEN FloatStep(e, type, r, c) ELSE Put(c, <<add>>)

\* Mutant: the old value is stored.
EmitIncrementOld(e, dest, c) ==
  LET x    == GetIdentifier(e.operand)
      type == Var(x, c).type
      lent == AllocateReg(type, Emit(e.operand, dest, c))
      next == Step(e, x, lent.reg, Put(lent, <<Move(type, lent.reg, dest)>>))
  IN  IF x \notin DOMAIN c.syms THEN Throw(c)
      ELSE DeallocateReg(lent.reg, Store(x, dest, "", next))

EmitIncrement(e, dest, c) ==
  LET x    == GetIdentifier(e.operand)
      type == Var(x, c).type
      lent == AllocateReg(type, Emit(e.operand, dest, c))
      next == Step(e, x, lent.reg, Put(lent, <<Move(type, lent.reg, dest)>>))
  IN  IF x \notin DOMAIN c.syms THEN Throw(c)
      ELSE DeallocateReg(lent.reg, Store(x, lent.reg, "", next))

EmitPreIncrement(e, dest, c) ==
  LET x    == GetIdentifier(e.operand)
      type == Var(x, c).type
      lent == AllocateReg(type, Emit(e.operand, dest, c))
      next == Step(e, x, lent.reg, Put(lent, <<Move(type, lent.reg, dest)>>))
  IN  IF x \notin DOMAIN c.syms THEN Throw(c)
      ELSE DeallocateReg(lent.reg, Put(Store(x, lent.reg, "", next), <<Move(type, dest, lent.reg)>>))

\* The register of the right-hand side is not given back.
PlainAssignment(e, dest, r, x, c) ==
  IF IsArray(x, c.syms) THEN Store(x, r, dest, c)
  ELSE IF IsPointerNode(e.left) THEN Put(c, << <<"sw", r, 0, dest, "">> >>)
  ELSE Store(x, r, "", c)

\* Assignment with an operator: dest holds the value of the target.
CompoundAssignment(e, dest, r, x, c) ==
  LET type    == GetType(e.left, c.syms)
      lent    == AllocateReg(type, c)
      tmp     == lent.reg
      o       == IntInstr(e.op)
      scale   == <<"slli", r, r, Log2Bytes(type)>>
      element == Put(Load(x, tmp, dest, lent), << <<o, tmp, tmp, r>> >>)
      pointer == Put(lent, <<scale, <<o, r, dest, r>> >>)
  IN  DeallocateReg(tmp,
        IF IsArray(x, c.syms) THEN Store(x, tmp, dest, element)
        ELSE IF GetIsPointer(x, c.syms) /\ e.op \in {"+", "-"} THEN Store(x, r, "", pointer)
        ELSE IF GetIsPointer(x, c.syms) /\ e.op \in {"*", "/", "%"}
        THEN Put(pointer, << <<"sw", r, 0, dest, "">> >>)
        ELSE Store(x, dest, "", Put(lent, << <<o, dest, dest, r>> >>)))

EmitAssignment(e, dest, c) ==
  LET target == [Emit(e.left, dest, [c EXCEPT !.leftOp = TRUE]) EXCEPT !.leftOp = FALSE]
      left   == IF e.op = "=" THEN target ELSE Emit(e.left, dest, c)
      lent   == AllocateReg(GetType(e.left, c.syms), left)
      right  == Emit(e.right, lent.reg, lent)
      x      == GetIdentifier(e.left)
  IN  IF x \notin DOMAIN c.syms THEN Throw(right)
      ELSE IF e.op = "=" THEN PlainAssignment(e, dest, lent.reg, x, right)
      ELSE CompoundAssignment(e, dest, lent.reg, x, right)

\* The emitter of the node's class.
EmitNode(e, dest, c) ==
  CASE e.kind = "id" -> EmitIdentifier(e, dest, c)
    [] e.kind \in {"num", "chr"} -> EmitConstant(e, dest, c)
    [] e.kind = "flt" -> EmitFloatConstant(e, dest, c)
    [] e.kind = "sizeof" -> EmitSizeof(e, dest, c)
    [] e.kind = "call" -> EmitCall(dest, c)
    [] e.kind = "operation" -> EmitOperation(e, dest, c)
    [] e.kind = "logical" -> EmitLogical(e, dest, c)
    [] e.kind = "ternary" -> EmitTernary(e, dest, c)
    [] e.kind = "unary" -> EmitUnary(e, dest, c)
    [] e.kind = "index" -> EmitIndex(e, dest, c)
    [] e.kind = "increment" -> EmitIncrement(e, dest, c)
    [] e.kind = "preincrement" -> EmitPreIncrement(e, dest, c)
    [] e.kind = "assignment" -> EmitAssignment(e, dest, c)

(***************************************************************************)
(* Statements and the function around them                                 *)
(***************************************************************************)
\* Mutant: ra is not restored.
EpilogueWithoutRa ==
  << <<"lw", "s0", FrameBytes - 8, "sp", "">>, <<"addi", "sp", "sp", FrameBytes>>, <<"ret", "ra">> >>

\* Mutant: the jump back is missing.
EpilogueWithoutRet ==
  << <<"lw", "ra", FrameBytes - 4, "sp", "">>, <<"lw", "s0", FrameBytes - 8, "sp", "">>,
     <<"addi", "sp", "sp", FrameBytes>> >>

\* end_stack and the jump back, of a return and of the end of a void function.
Epilogue ==
  << <<"lw", "ra", FrameBytes - 4, "sp", "">>, <<"lw", "s0", FrameBytes - 8, "sp", "">>,
     <<"addi", "sp", "sp", FrameBytes>>, <<"ret", "ra">> >>

\* ReturnStatement; dest is the return register of the function.
EmitReturn(e, dest, c) == Put(Emit(e, dest, c), Epilogue)

\* Declaration of one variable with an initialiser.  Its declarator is emitted
\* before it is declared, and loads whatever else has the name.
EmitDeclaration(x, type, isPointer, e, c) ==
  LET lent   == AllocateReg(type, [c EXCEPT !.type = type])
      named  == EmitIdentifier(Id(x), lent.reg, [lent EXCEPT !.currentPointer = isPointer])
      placed == PushStack(IF isPointer THEN 4 ELSE GetBytes(type), [named EXCEPT !.currentPointer = FALSE])
      var    == [type |-> type, isPointer |-> isPointer, isArray |-> FALSE, scope |-> "LOCAL",
                 loc |-> placed.sp]
      known  == [placed EXCEPT !.syms = [y \in DOMAIN @ \cup {x} |-> IF y = x THEN var ELSE @[y]]]
  IN  DeallocateReg(lent.reg, Store(x, lent.reg, "", Emit(e, lent.reg, known)))

\* init_stack.
Prologue ==
  << <<"addi", "sp", "sp", -FrameBytes>>, <<"sw", "ra", FrameBytes - 4, "sp", "">>,
     <<"sw", "s0", FrameBytes - 8, "sp", "">>, <<"addi", "s0", "sp", FrameBytes>> >>

ReturnReg(type) == IF type \in {"FLOAT", "DOUBLE"} THEN "fa0" ELSE "a0"

=============================================================================
