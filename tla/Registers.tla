------------------------------ MODULE Registers ------------------------------
(***************************************************************************)
(* The register allocator of ast::Context and the emitters that drive it.  *)
(*                                                                         *)
(* The compiler walks the syntax tree once.  Every EmitRISC method that    *)
(* needs a register asks the Context for one, emits the code of its        *)
(* operands, and hands the register back; `held` is the C++ call stack of  *)
(* those methods, reduced to the registers they will still name.           *)
(***************************************************************************)
EXTENDS Integers, FiniteSets, SequencesExt, SequenceFilter

CONSTANTS
  Bank,      \* the register files: "int" and "float"
  Temps,     \* Temps[b]: the registers allocate_reg tries first (t0.., ft0..)
  Args,      \* Args[b]: the argument registers (a0.., fa0..)
  Reserved,  \* the registers registers_default marks (zero, ra, sp, s0, ...)
  Stray,     \* float registers whose default lies outside f_registers_default
  NoReg,     \* the empty register name
  MaxHeld,   \* bound: the deepest nesting of emitters explored
  MaxParams  \* bound: the most parameters a function has in one file

PoolRegs(b) == ToSet(Temps[b]) \cup ToSet(Args[b])
TempRegs    == UNION {ToSet(Temps[b]) : b \in Bank}
ArgRegs     == UNION {ToSet(Args[b]) : b \in Bank}
Reg         == TempRegs \cup ArgRegs \cup Reserved \cup Stray

\* The two files have disjoint registers, each named once; only float
\* registers outside the temporaries and fa0 can be hit by the stray read.
ASSUME RegisterAssumption ==
  /\ Bank # {}
  /\ IsFiniteSet(Reserved) /\ IsFiniteSet(Stray)
  /\ \A b \in Bank :
       /\ Temps[b] \in Seq(ToSet(Temps[b])) /\ IsInjective(Temps[b])
       /\ Args[b] \in Seq(ToSet(Args[b])) /\ IsInjective(Args[b])
       /\ Args[b] # << >> /\ Args[b][1] \notin Stray
       /\ \A c \in Bank : b # c => PoolRegs(b) \cap PoolRegs(c) = {}
  /\ TempRegs \cap (ArgRegs \cup Reserved \cup Stray) = {}
  /\ Reserved \cap (ArgRegs \cup Stray) = {}
  /\ NoReg \notin Reg
  /\ MaxHeld \in Nat /\ MaxParams \in Nat

VARIABLES
  phase,     \* "global", "function", or "aborted" by an exception
  busy,      \* the registers whose flag in registers / f_registers is 1
  used,      \* used_registers
  spilled,   \* the keys of spilled_registers
  held,      \* the registers the active EmitRISC methods hold, innermost last
  ample,     \* history: no request of this function went beyond Temps[b],
             \* and no entry of spilled_registers survives from an earlier one
  leaked     \* history, kept while ample: temporaries an Assignment kept

vars == <<phase, busy, used, spilled, held, ample, leaked>>
allocator == <<busy, used, spilled>>

Kinds  == {"ret", "temp", "arg", "call"}
Handle == [kind : Kinds, bank : Bank, reg : Reg \cup {NoReg}, spoiled : BOOLEAN]

-----------------------------------------------------------------------------
(* The Context's operations.                                               *)

\* Mutant: a register in use is taken for a free one.
FirstFreeUnchecked(pool, r) ==
  \E i \in DOMAIN pool :
    /\ r = pool[i]
    /\ \A j \in DOMAIN pool : j < i => pool[j] \in busy

FirstFree(pool, r) ==
  \E i \in DOMAIN pool :
    /\ r = pool[i]
    /\ r \notin busy
    /\ \A j \in DOMAIN pool : j < i => pool[j] \in busy

Exhausted(pool) == ToSet(pool) \subseteq busy

Take(r) ==
  /\ busy' = busy \cup {r}
  /\ used' = Append(used, r)

\* allocate_reg: a temporary, else an argument register other than the first,
\* else whatever spill_register gives up.
AllocateTemp(b, r) ==
  /\ FirstFree(Temps[b], r)
  /\ Take(r)
  /\ UNCHANGED <<spilled, ample, leaked>>

AllocateSpareArg(b, r) ==
  /\ Exhausted(Temps[b])
  /\ FirstFree(Tail(Args[b]), r)
  /\ Take(r)
  /\ ample' = FALSE /\ leaked' = {}
  /\ UNCHANGED spilled

\* Mutant: the front of the deque is spilled.
SpillFront(b, r) ==
  /\ Exhausted(Temps[b]) /\ Exhausted(Tail(Args[b]))
  /\ used # << >> /\ r = Head(used)
  /\ used' = Tail(used)
  /\ spilled' = spilled \cup {r}
  /\ ample' = FALSE /\ leaked' = {}
  /\ UNCHANGED busy

\* spill_register: the back of the deque; the register keeps its flag and its
\* present holder, whichever file it is of.
SpillRegister(b, r) ==
  /\ Exhausted(Temps[b]) /\ Exhausted(Tail(Args[b]))
  /\ used # << >> /\ r = Last(used)
  /\ used' = Front(used)
  /\ spilled' = spilled \cup {r}
  /\ ample' = FALSE /\ leaked' = {}
  /\ UNCHANGED busy

\* Mutant: the empty name is marked as a register in use.
AllocateArgRegAlways(b, r) ==
  /\ FirstFree(Args[b], r) \/ (Exhausted(Args[b]) /\ r = NoReg)
  /\ Take(r)
  /\ UNCHANGED spilled

\* allocate_arg_reg: the first free argument register, or the empty name.
AllocateArgReg(b, r) ==
  \/ FirstFree(Args[b], r) /\ Take(r) /\ UNCHANGED spilled
  \/ Exhausted(Args[b]) /\ r = NoReg /\ UNCHANGED allocator

\* Mutant: a spilled register is freed while its first holder still uses it.
DeallocateSpilled(R) ==
  /\ spilled' = spilled \ R
  /\ busy' = busy \ R
  /\ used' = Without(used, R)

\* Mutant: a freed register stays in the deque.
DeallocateFlagOnly(R) ==
  /\ spilled' = spilled \ R
  /\ busy' = busy \ (R \ spilled)
  /\ UNCHANGED used

\* deallocate_reg of every register of R: one with an entry in
\* spilled_registers only loses that entry.
DeallocateRegs(R) ==
  /\ spilled' = spilled \ R
  /\ busy' = busy \ (R \ spilled)
  /\ used' = Without(used, R \ spilled)

-----------------------------------------------------------------------------
(* The emitters.                                                           *)

Top       == held[Len(held)]
Push(h)   == Len(held) < MaxHeld /\ held' = Append(held, h)
Pop       == held' = Front(held)
ReturnReg(b) == Args[b][1]

Init ==
  /\ phase = "global"
  /\ busy = Reserved
  /\ used \in SetToSeqs(Reserved)
  /\ spilled = {}
  /\ held = << >>
  /\ ample = TRUE
  /\ leaked = {}

\* An exception unwinds every emitter and ends the compilation.
Abort ==
  /\ phase' = "aborted"
  /\ busy' = {} /\ used' = << >> /\ spilled' = {} /\ held' = << >>
  /\ ample' = TRUE /\ leaked' = {}

\* FunctionDefinition up to its body, with n[c] parameters per register file.
\* initalize_regs rebuilds flags and deque, in the order of two unordered_maps
\* and with the stray registers a build reads as reserved, and forgets nothing
\* of spilled_registers; each FunctionParameter then deallocates its register.
BeginFunction(b, n) ==
  LET params == UNION {ToSet(SubSeq(Args[c], 1, n[c])) : c \in Bank}
  IN
  /\ phase = "global" /\ held = << >>
  /\ \A c \in Bank : n[c] <= Len(Args[c])
  /\ \E junk \in SUBSET Stray :
     \E ints \in SetToSeqs(Reserved), floats \in SetToSeqs(junk) :
       /\ busy' = ((Reserved \cup junk) \ (params \ spilled)) \cup {ReturnReg(b)}
       /\ used' = Append(Without(ints \o floats, params \ spilled), ReturnReg(b))
  /\ spilled' = spilled \ params
  /\ ample' = (spilled' = {})
  /\ leaked' = {}
  /\ Push([kind |-> "ret", bank |-> b, reg |-> ReturnReg(b), spoiled |-> FALSE])
  /\ phase' = "function"

\* The ninth parameter of a file names a register ("a8") deallocate_reg rejects.
RejectParameters(n) ==
  /\ phase = "global" /\ held = << >>
  /\ \E c \in Bank : n[c] > Len(Args[c])
  /\ Abort

EndFunction ==
  /\ phase = "function" /\ Len(held) = 1
  /\ DeallocateRegs({Top.reg})
  /\ Pop
  /\ phase' = "global"
  /\ UNCHANGED <<ample, leaked>>

\* Inside a function an expression is evaluated anywhere but directly under a
\* call, whose children are FunctionArguments; outside, a Declaration takes one
\* register and evaluates nothing.
Evaluating ==
  \/ phase = "global" /\ held = << >>
  \/ phase = "function" /\ Top.kind # "call"

\* An emitter that evaluates an operand asks for a register of the operand's
\* type: Operation, Assignment, LogicalOperation, Ternary, IfElse, ...
Acquire(b) ==
  /\ Evaluating
  /\ \E r \in Reg :
       /\ AllocateTemp(b, r) \/ AllocateSpareArg(b, r)
       /\ Push([kind |-> "temp", bank |-> b, reg |-> r, spoiled |-> FALSE])
  /\ UNCHANGED phase

AcquireBySpilling(b) ==
  /\ Evaluating
  /\ \E r \in Reg :
       /\ SpillRegister(b, r)
       /\ Push([kind |-> "temp", bank |-> b, reg |-> r, spoiled |-> TRUE])
  /\ UNCHANGED phase

\* spill_register throws when the deque is empty, push_stack when the frame
\* has no room; when it has is the Frame's business, here it may be any time.
FailToSpill(b) ==
  /\ Evaluating
  /\ Exhausted(Temps[b]) /\ Exhausted(Tail(Args[b]))
  /\ Abort

\* Mutant: an emitter returns without giving its register back.
ReleaseNothing ==
  /\ phase # "aborted"
  /\ held # << >> /\ Top.kind = "temp"
  /\ Pop
  /\ UNCHANGED <<phase, busy, used, spilled, ample, leaked>>

Release ==
  /\ phase # "aborted"
  /\ held # << >> /\ Top.kind = "temp"
  /\ DeallocateRegs({Top.reg})
  /\ Pop
  /\ UNCHANGED <<phase, ample, leaked>>

\* Assignment returns without deallocating right_reg.
EndAssignment ==
  /\ phase = "function" /\ Top.kind = "temp"
  /\ Pop
  /\ leaked' = IF ample THEN leaked \cup {Top.reg} ELSE {}
  /\ UNCHANGED <<phase, allocator, ample>>

\* A constant is loaded through an argument register given back at once; with
\* none free, deallocate_reg rejects the empty name.
LoadConstant(b) ==
  /\ phase = "function" /\ Evaluating
  /\ \E r \in Reg : FirstFree(Args[b], r) /\ spilled' = spilled \ {r}
       /\ IF r \in spilled THEN Take(r) ELSE UNCHANGED <<busy, used>>
  /\ UNCHANGED <<phase, held, ample, leaked>>

FailToLoadConstant(b) ==
  /\ phase = "function" /\ Evaluating
  /\ Exhausted(Args[b])
  /\ Abort

\* The call joins the stack; what it frees under others is marked.
EnterCall ==
  /\ Len(held) < MaxHeld
  /\ held' = Append(
       [i \in DOMAIN held |->
          IF held[i].kind = "call" \/ held[i].reg \in ArgRegs
          THEN [held[i] EXCEPT !.spoiled = TRUE] ELSE held[i]],
       [kind |-> "call", bank |-> CHOOSE b \in Bank : TRUE,
        reg |-> NoReg, spoiled |-> FALSE])
  /\ UNCHANGED <<phase, ample, leaked>>

\* Mutant: the call frees the temporaries too.
BeginCallFreeingAll ==
  /\ phase = "function" /\ Evaluating
  /\ DeallocateRegs(busy \ Reserved)
  /\ EnterCall

\* Mutant: the call leaves the argument registers as they are.
BeginCallFreeingNone ==
  /\ phase = "function" /\ Evaluating
  /\ UNCHANGED allocator
  /\ EnterCall

\* FunctionCall first frees the argument registers, whoever holds them.
BeginCall ==
  /\ phase = "function" /\ Evaluating
  /\ DeallocateRegs(ArgRegs \cap busy)
  /\ EnterCall

\* The call at position c is the one whose arguments are being passed.
Passing(c) ==
  /\ held[c].kind = "call"
  /\ \A i \in DOMAIN held : i > c => held[i].kind = "arg"

\* FunctionArgument takes the next argument register and keeps it.
PassArgument(b) ==
  /\ phase = "function"
  /\ \E c \in DOMAIN held : Passing(c)
  /\ \E r \in Reg \cup {NoReg} :
       /\ AllocateArgReg(b, r)
       /\ Push([kind |-> "arg", bank |-> b, reg |-> r, spoiled |-> FALSE])
  /\ UNCHANGED <<phase, ample, leaked>>

\* The call is emitted; its argument registers stay marked.
EndCall ==
  /\ phase = "function"
  /\ \E c \in DOMAIN held : Passing(c) /\ held' = SubSeq(held, 1, c - 1)
  /\ UNCHANGED <<phase, allocator, ample, leaked>>

Stopped == phase = "aborted" /\ UNCHANGED vars

Next ==
  \/ \E n \in [Bank -> 0..MaxParams] :
       RejectParameters(n) \/ \E b \in Bank : BeginFunction(b, n)
  \/ EndFunction \/ Release \/ EndAssignment \/ BeginCall \/ EndCall \/ Stopped
  \/ \E b \in Bank :
       \/ Acquire(b) \/ AcquireBySpilling(b) \/ FailToSpill(b)
       \/ LoadConstant(b) \/ FailToLoadConstant(b) \/ PassArgument(b)

Spec == Init /\ [][Next]_vars

-----------------------------------------------------------------------------
(* Properties.                                                             *)

TypeOK ==
  /\ phase \in {"global", "function", "aborted"}
  /\ busy \subseteq Reg
  /\ spilled \subseteq Reg
  /\ leaked \subseteq Reg
  /\ held \in Seq(Handle)
  /\ ample \in BOOLEAN

IsTemp(i) == held[i].kind = "temp"

\* While allocate_reg serves every request from its first list and no entry of
\* an earlier function survives in spilled_registers, the active emitters hold
\* different temporaries of the file they asked for, and none that an
\* assignment has kept.
Exclusive ==
  ample =>
    \A i \in DOMAIN held : IsTemp(i) =>
      /\ held[i].reg \in ToSet(Temps[held[i].bank]) \ leaked
      /\ \A j \in DOMAIN held : IsTemp(j) /\ i # j => held[i].reg # held[j].reg

\* Even when temporaries run out, two active emitters come to hold one register only
\* when spill_register handed it out a second time or a call inside freed the
\* argument registers: deallocate_reg never frees a register somebody else
\* still counts on.
NoSilentSharing ==
  \A i, j \in DOMAIN held :
    /\ IsTemp(i) /\ IsTemp(j) /\ i # j
    /\ held[i].reg = held[j].reg
    => held[i].spoiled \/ held[j].spoiled

\* The argument at position i of held, of the call at position c, is in the
\* register the callee's FunctionParameter reads it from.
InPlace(c, i) ==
  LET b == held[i].bank
      k == Cardinality({j \in c+1..i : held[j].kind = "arg" /\ held[j].bank = b})
  IN held[i].reg = IF k <= Len(Args[b]) THEN Args[b][k] ELSE NoReg

\* The k-th argument of a file travels in the k-th argument register, where
\* the callee's k-th FunctionParameter reads it, for every call whose own
\* arguments make no call while the temporaries suffice, whatever the
\* enclosing expressions hold.
ArgumentsInPlace ==
  ample =>
    \A c, i \in DOMAIN held :
      /\ held[c].kind = "call" /\ ~held[c].spoiled
      /\ i > c /\ held[i].kind = "arg"
      => InPlace(c, i)

\* docs/c_compiler.md on the ABI: "it is expected that function arguments are
\* passed in a certain order".
ArgumentsPassedInOrder ==
  ample =>
    \A c, i \in DOMAIN held :
      /\ Passing(c) /\ i > c /\ held[i].reg # NoReg => InPlace(c, i)

\* The deque and the flags agree: used_registers lists registers once, only
\* marked ones, and every marked register it misses was spilled from it.
DequeTracksFlags ==
  /\ IsInjective(used)
  /\ ToSet(used) \subseteq busy
  /\ ample => ToSet(used) = busy

\* The temporaries marked in the flags are those an active emitter holds and
\* those an assignment kept: nothing else loses a register.
OnlyAssignmentsLeak ==
  ample =>
    busy \cap TempRegs = leaked \cup {held[i].reg : i \in {i \in DOMAIN held : IsTemp(i)}}

\* A reserved register (the stack pointer, the frame pointer) is handed out
\* only once the deque holds no register of the pools any more.
ReservedLast ==
  [][ \A r \in Reserved :
        r \in ToSet(used) /\ r \notin ToSet(used') /\ phase' = phase
        => ToSet(used) \subseteq Reserved \cup Stray ]_vars

\* The allocator keeps the contract of RegisterPool.
Pool == INSTANCE RegisterPool WITH
  File    <- [b \in Bank |-> ToSet(Temps[b])],
  Holder  <- 1..MaxHeld,
  owner   <- [i \in {i \in DOMAIN held : IsTemp(i)} |-> held[i].reg],
  kept    <- leaked,
  pledged <- ample

KeepsContract == Pool!Spec

=============================================================================
