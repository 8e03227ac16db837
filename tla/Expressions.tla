---------------------------- MODULE Expressions ----------------------------
(***************************************************************************)
(* One expression through the compiler, the assembler and the machine, and *)
(* next to it what C says.  The expression is the operand of a return, a   *)
(* statement of its own, or the initialiser of a variable; constants the   *)
(* compiler evaluates itself are in ConstantExpressions.                   *)
(***************************************************************************)
EXTENDS CodeGen, CSemantics

CONSTANTS
  Programs,     \* records [use, type, real, e]; type is that of the function or variable,
                \* real that of its floating constants
  Memories,     \* the memories a program may start in: one cell for each object
  Symbols,      \* the names in scope
  Height(_),    \* how deep an expression nests
  LocalsEnd,    \* stack_frame_pointer below the declared variables
  Unnamed,      \* the name "declare" declares
  CurrentTypes, \* types that declarations before the expression may have had
  Pitfalls      \* departures from C, of the list below, that programs may contain

\* Expressions are finite trees of what the parser builds.
ASSUME ProgramsAssumption ==
  \A p \in Programs :
    /\ p.use \in {"return", "effect", "declare"}
    /\ p.e \in Parts(p.e)
    /\ \A e \in Parts(p.e) :
         /\ IsNode(e) /\ Height(e) \in Nat
         /\ \A d \in Operands(e) : d \in Parts(p.e) /\ Height(d) < Height(e)

ASSUME FrameAssumption == FrameBytes \in Nat /\ LocalsEnd \in Int /\ FrameTop \in Int

VARIABLES
  input,  \* the program, the type left in current_type_, the scope arrays have,
          \* and the memory it starts in
  phase,  \* input, running, or one of the ends: thrown, rejected, trapped, returned
  ctx,    \* the Context
  pc, regs, mem

vars == <<input, phase, ctx, pc, regs, mem>>

\* allocate_stack_array sets no scope: what an array has is what was in memory.
SymbolsWith(scope) ==
  [x \in DOMAIN Symbols |-> IF Symbols[x].isArray THEN [Symbols[x] EXCEPT !.scope = scope] ELSE Symbols[x]]
env == [syms |-> SymbolsWith("LOCAL"), real |-> input.real]

Caller == [r \in FrameRegs |-> IF r = "sp" THEN Word(FrameTop) ELSE IF r = "s0" THEN Word(3) ELSE Word(5)]

(***************************************************************************)
(* Where the code departs from C: the programs of Init have none of these  *)
(* but those of Pitfalls.                                                  *)
(***************************************************************************)
Has(e, kinds)  == \E d \in Parts(e) : d.kind \in kinds
HasEffect(e)   == Has(e, {"assignment", "increment", "preincrement", "call"})
HasAccess(e)   == Has(e, {"index"}) \/ \E d \in Parts(e) : IsPointerNode(d)
Type(e, v)     == GetType(e, v.syms)
Named(e, v)    == GetIsPointer(GetIdentifier(e), v.syms)
Real2(t)       == t \in {"FLOAT", "DOUBLE"}
Mistyped(e, v) == Tag(CType(e, v)) # Tag(Base(Type(e, v)))

\* The int && and || execute their right operand before they test the left one.
RightOperandFirst(d, v) ==
  d.kind = "logical" /\ d.op \in {"&&", "||"} /\ (HasEffect(d.right) \/ HasAccess(d.right))

\* Integers are scaled by, and only by, left operands whose identifier is a pointer.
Unscaled(d, v) ==
  /\ d.kind = "operation"
  /\ \/ CType(d.left, v).pointer # Named(d.left, v)
     \/ CType(d.right, v).pointer /\ ~(d.op = "-" /\ Named(d.left, v) /\ Named(d.right, v))
     \/ d.op = "-" /\ Named(d.left, v) /\ Named(d.right, v) # CType(d.right, v).pointer

\* Targets whose address or old value is not where the emitter takes it from.
WrongTarget(d, v) ==
  \/ /\ d.kind = "assignment" /\ d.op = "="
     /\ CASE d.left.kind = "id" -> FALSE
          [] d.left.kind = "index" -> ~IsArray(GetIdentifier(d.left), v.syms) \/ HasAccess(d.left.index)
          [] OTHER -> d.left.operand.kind # "id" \/ CType(d.left, v) = Base("CHAR")
  \/ /\ d.kind = "assignment" /\ d.op # "="
     /\ d.left.kind # "id" \/ Real2(Type(d.left, v))
  \/ d.kind \in {"increment", "preincrement"} /\ d.operand.kind # "id"

\* An assignment leaves no value: = never loads its target, a pointer += keeps
\* the old one in the register.
ValueOfAssignment(d, v) ==
  \E o \in Operands(d) : o.kind = "assignment" /\ (o.op = "=" \/ CType(o, v).pointer)

\* A value wider than a char is stored in a byte, ~ and ! refuse a char, a
\* byte is read where a word was meant and the other way round.
CharWidth(d, v) ==
  \/ d.kind = "operation" /\ Type(d.left, v) = "CHAR" /\ ~Named(d.left, v)
       /\ d.left.kind \notin {"id", "chr"} /\ ~IsPointerNode(d.left)
  \/ d.kind = "unary" /\ d.op \in {"~", "!"} /\ Type(d.operand, v) # "INT"
  \/ IsPointerNode(d) /\ Type(d.operand, v) # CType(d.operand, v).base
  \/ d.kind = "sizeof" /\ CSizeof(d, v) # GetBytes(Type(d.operand, v))

\* A register that holds a value over a call.
HeldOverCall(d, v) ==
  \/ d.kind = "logical" /\ Has(d.right, {"call"})
  \/ d.kind = "assignment" /\ Has(d.right, {"call"}) /\ (d.op # "=" \/ d.left.kind # "id")

\* The kind of a register is chosen by a type that is not that of its value.
FloatTyping(d, v) ==
  \/ d.kind = "operation" /\ (Mistyped(d.left, v) \/ Mistyped(d.right, v))
  \/ d.kind = "logical" /\ (Mistyped(d.left, v) \/ Tag(CType(d.left, v)) # Tag(CType(d.right, v)))
  \/ d.kind = "ternary" /\ (Mistyped(d.condition, v) \/ Tag(CType(d.condition, v)) # "int")
  \/ d.kind = "unary" /\ d.op \notin {"&", "*"} /\ Mistyped(d.operand, v)

\* The address of a global, or of what a pointer points to, is not emitted.
AddressOf(d, v) ==
  d.kind = "unary" /\ d.op = "&" /\
    CASE d.operand.kind = "id" -> v.syms[d.operand.name].scope = "GLOBAL"
      [] OTHER -> d.operand.kind # "index"

Departures(p, current, scope, v) ==
  LET some(P(_, _)) == \E d \in Parts(p.e) : P(d, v)
      set(b, name)  == IF b THEN {name} ELSE {}
  IN  set(some(RightOperandFirst), "RightOperandFirst") \cup set(some(Unscaled), "Unscaled")
      \cup set(some(WrongTarget), "WrongTarget") \cup set(some(CharWidth), "CharWidth")
      \cup set(some(ValueOfAssignment) \/ (p.use # "effect" /\ p.e.kind = "assignment" /\ p.e.op = "="),
               "ValueOfAssignment")
      \cup set(some(HeldOverCall), "HeldOverCall")
      \cup set(some(FloatTyping) \/ (p.use = "effect" /\ Real2(CType(p.e, v).base) /\ p.e.kind # "assignment"),
               "FloatTyping")
      \cup set(Has(p.e, {"flt"}) /\ current # v.real, "ConstantOfCurrentType")
      \cup set(some(AddressOf), "AddressOf")
      \cup set(scope = "GLOBAL" /\ \E d \in Parts(p.e) : d.kind = "id" /\ IsArray(d.name, v.syms), "ArrayScope")

(***************************************************************************)
(* The compiler                                                            *)
(***************************************************************************)
\* The Context when the expression is reached: a function has begun, its
\* variables are declared.
Begun ==
  [code |-> Prologue, syms |-> SymbolsWith(input.scope), sp |-> LocalsEnd,
   busy |-> {ReturnReg(IF input.use = "return" THEN input.type ELSE "VOID")}, reg |-> "",
   type |-> input.current, leftOp |-> FALSE, arrayIndex |-> FALSE, currentPointer |-> FALSE,
   labels |-> [p \in {".L", "L"} |-> 0], consts |-> << >>, thrown |-> FALSE]

\* The programs without departures, with what may have been left in
\* current_type_ and in the scope of arrays where that matters.
Admitted(p, current, scope) ==
  LET v == [syms |-> SymbolsWith("LOCAL"), real |-> p.real]
  IN  /\ Has(p.e, {"flt"}) \/ current = p.real
      /\ scope = "LOCAL" \/ \E d \in Parts(p.e) : d.kind = "id" /\ IsArray(d.name, v.syms)
      /\ Departures(p, IF p.use = "declare" THEN p.type ELSE current, scope, v) \subseteq Pitfalls

Starts ==
  {s \in [program : Programs, current : CurrentTypes, scope : {"LOCAL", "GLOBAL"}] :
     Admitted(s.program, s.current, s.scope)}

Inputs ==
  {[use |-> s.program.use, type |-> s.program.type, real |-> s.program.real, e |-> s.program.e,
    current |-> s.current, scope |-> s.scope, memory |-> memory] : s \in Starts, memory \in Memories}

Init ==
  /\ input \in Inputs
  /\ phase = "input"
  /\ ctx = Begun
  /\ pc = 0 /\ regs = << >> /\ mem = << >>

Written ==
  CASE input.use = "return" -> EmitReturn(input.e, ReturnReg(input.type), ctx)
    [] input.use = "effect" -> Put(Emit(input.e, "a0", ctx), Epilogue)
    [] input.use = "declare" -> Put(EmitDeclaration(Unnamed, input.type, FALSE, input.e, ctx), Epilogue)

\* The objects, the read-only data emitLabels prints, nothing else.
Loaded(c) ==
  LET at(a) == {i \in DOMAIN c.consts : ConstBase + 8 * (i - 1) = a}
      rodata == {ConstBase + 8 * (i - 1) : i \in DOMAIN c.consts}
  IN  [a \in DOMAIN input.memory \cup rodata |->
         IF a \in rodata
         THEN LET k == c.consts[CHOOSE i \in at(a) : TRUE] IN <<GetBytes(k[1]), k>>
         ELSE input.memory[a]]

Compile ==
  /\ phase = "input"
  /\ ctx' = Written
  /\ phase' = IF ctx'.thrown THEN "thrown" ELSE IF Assembles(ctx'.code) THEN "running" ELSE "rejected"
  /\ mem' = Loaded(ctx')
  /\ pc' = 1
  /\ regs' = [r \in IntRegs \cup FloatRegs |->
                IF r \in FrameRegs THEN Caller[r] ELSE IF r = "zero" THEN Word(0) ELSE Junk]
  /\ UNCHANGED input

(***************************************************************************)
(* The machine                                                             *)
(***************************************************************************)
Instr == ctx.code[pc]
At(ops) == phase = "running" /\ Instr[1] \in ops
Go(k) == pc' = k /\ UNCHANGED <<input, ctx>>

Calculate ==
  /\ At(Alu \cup Alui \cup Alu1 \cup FAlu \cup FTest \cup {"fmv", "fneg", "fcvt", "li", "lui", "label"})
  /\ regs' = CASE Instr[1] = "label" -> regs
               [] Instr[1] = "li" -> [regs EXCEPT ![Instr[2]] = Word(Instr[3])]
               [] Instr[1] = "lui" -> [regs EXCEPT ![Instr[2]] = <<"hi", Instr[3]>>]
               [] OTHER -> [regs EXCEPT ![Instr[2]] = Result(Instr, regs)]
  /\ Go(pc + 1) /\ UNCHANGED <<phase, mem>>

Mapped(a, n) ==
  \/ a >= FrameTop - FrameBytes /\ a + n <= FrameTop
  \/ \E c \in DOMAIN mem : c <= a /\ a + n <= c + mem[c][1]

Access ==
  /\ At(Loads \cup Stores)
  /\ LET i == Instr
         a == Address(i, regs)
         n == Unit[i[1]]
     IN  IF Mapped(a, n)
         THEN /\ UNCHANGED phase
              /\ regs' = IF i[1] \in Stores THEN regs ELSE [regs EXCEPT ![i[2]] = Read(mem, a, n, Format[i[1]])]
              /\ mem' = IF i[1] \in Loads THEN mem ELSE Write(mem, a, n, Stored(i, regs[i[2]]))
         ELSE phase' = "trapped" /\ UNCHANGED <<regs, mem>>
  /\ Go(pc + 1)

Jump ==
  /\ At(Jumps)
  /\ LET i == Instr
         v == IF i[1] = "j" THEN Word(0) ELSE regs[i[2]]
         taken == i[1] = "j" \/ (v[2] = 0) = (i[1] = "beqz")
     IN  /\ phase' = IF Known(<<v>>) THEN phase ELSE "trapped"
         /\ Go(IF taken THEN Target(ctx.code, i[Len(i)]) ELSE pc + 1)
  /\ UNCHANGED <<regs, mem>>

\* The instruction leaves the return address in ra; the called function keeps
\* the other registers the convention asks it to keep, sp and s0 among them.
CallFunction ==
  /\ At({"call"})
  /\ regs' = [r \in DOMAIN regs |->
                CASE r = "a0" -> Word(CallValue)
                  [] r = "ra" -> <<"pc", pc + 1>>
                  [] OTHER -> IF r \in CallerSaved THEN Junk ELSE regs[r]]
  /\ Go(pc + 1) /\ UNCHANGED <<phase, mem>>

\* To where ra says: that this is the caller is a part of CallerIntact.
Return ==
  /\ At({"ret"})
  /\ phase' = "returned"
  /\ Go(pc) /\ UNCHANGED <<regs, mem>>

Next == Compile \/ Calculate \/ Access \/ Jump \/ CallFunction \/ Return

Spec == Init /\ [][Next]_vars

(***************************************************************************)
(* Properties                                                              *)
(***************************************************************************)
\* What C says of the program; a declared variable takes the value.
Meaning == CValue(input.e, input.memory, env)
ResultType == IF input.use = "effect" THEN CType(input.e, env) ELSE Base(input.type)
Defined ==
  /\ ~Meaning.undefined
  /\ input.use \in {"return", "declare"} => Representable(Meaning.value, ResultType)

\* The state is what its name says: the fields of the Context in their ranges,
\* registers and cells with values of one word.
TypeOK ==
  /\ phase \in {"input", "running", "thrown", "rejected", "trapped", "returned"}
  /\ ctx.busy \subseteq IntRegs \cup FloatRegs \cup {""}
  /\ ctx.type \in CurrentTypes \cup {"INT", "CHAR", "FLOAT", "DOUBLE"}
  /\ pc \in Nat
  /\ \A r \in DOMAIN regs : regs[r][1] = "int" => Fits(regs[r][2], WordBits)
  /\ \A a \in DOMAIN mem : \A b \in DOMAIN mem \ {a} : ~Touches(a, mem[a][1], b, mem)

\* A function that returns has C's value of its expression in the return
\* register: no operand is lost to another one's registers, labels or parking
\* place (Operation, LogicalOperation, Ternary, UnaryExpression, ArrayIndex).
ReturnRight ==
  phase = "returned" /\ input.use = "return" /\ Defined
    => regs[ReturnReg(input.type)] = Meaning.value

\* When the code returns, every object holds what C says: assignments,
\* increments and initialisers reach their object once, and nothing parked or
\* saved lies in one (Assignment, Increment, PreIncrement, InitDeclarator).
EffectsRight ==
  phase = "returned" /\ Defined =>
    /\ \A a \in DOMAIN input.memory : a \in DOMAIN mem /\ mem[a] = Meaning.mem[a]
    /\ input.use = "declare" =>
         LET x == ctx.syms[Unnamed]
         IN  Read(mem, FrameTop + x.loc, Bytes(ResultType), Tag(ResultType)) = Meaning.value

\* The function goes back to its caller, and the caller finds its frame again:
\* ra, which every call in the expression overwrites, s0 and sp are what they
\* were, whatever the expression did to the frame (init_stack, end_stack).
CallerIntact ==
  phase = "returned" /\ Defined => \A r \in FrameRegs : regs[r] = Caller[r]

\* From the prologue to the epilogue sp and s0 are the two ends of the frame,
\* whatever memory holds and whether or not C defines the program: no emitter
\* takes one of them for a value, or for an address it computes; and at the end
\* the stack is where it was (init_stack, end_stack).
FrameHeld ==
  /\ phase = "running" /\ pc \in Len(Prologue) + 1 .. Len(ctx.code) - Len(Epilogue) + 1 =>
       /\ regs["sp"] = Word(FrameTop - FrameBytes)
       /\ regs["s0"] = Word(FrameTop)
  /\ phase = "returned" => regs["sp"] = Caller["sp"]

\* A function that runs does not run out of its code: wherever the jumps of the
\* expression lead, the next instruction is one of its own until it returns
\* (ReturnStatement, end_stack, makeUniqueLabel).
StaysInCode == phase = "running" => pc \in DOMAIN ctx.code

\* A program C defines is compiled, accepted by the assembler (registers of
\* the right kind, each label defined once) and runs to its end.
CompilesAndRuns ==
  phase \in {"thrown", "rejected", "trapped"} => ~Defined

Compiled == phase \notin {"input", "thrown"}
VariablesEnd == LocalsEnd - (IF input.use = "declare" THEN GetBytes(input.type) ELSE 0)

\* After an expression the Context is as before, but for what is to stay: the
\* register an assignment keeps, the place of a declared variable, a current
\* type. A flag left set would change what the next statement means.
ContextRestored ==
  Compiled =>
    /\ ~ctx.leftOp /\ ~ctx.arrayIndex /\ ~ctx.currentPointer
    /\ ctx.sp = VariablesEnd
    /\ ctx.busy \subseteq Begun.busy \/ Has(input.e, {"assignment"})

\* The jumps of an expression and of all in it have each one target, though
\* the right operand of && and || is written twice (makeUniqueLabel).
LabelsResolved == Compiled => Resolved(ctx.code)

\* A store to the variable v of the frame, of as many bytes as it has.
WritesVariable(i, v) ==
  ~v.isArray /\ i[3] = v.loc /\ i[1] = IF v.isPointer THEN "sw" ELSE StoreInstr(v.type)

\* What is stored relative to s0 is a variable, whole, or goes to the part of
\* the frame below the variables: no operand parked by Operation, however
\* deep it is nested, lies on a variable or beyond the frame, and no store of
\* one variable reaches into the next.
ParkedBelowVariables ==
  Compiled =>
    \A k \in DOMAIN ctx.code :
      LET i == ctx.code[k] IN
      i[1] \in Stores /\ i[4] = "s0" =>
        \/ \E x \in DOMAIN ctx.syms : WritesVariable(i, ctx.syms[x])
        \/ i[3] \in -FrameBytes .. VariablesEnd - Unit[i[1]]

=============================================================================
