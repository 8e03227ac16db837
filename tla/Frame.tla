-------------------------------- MODULE Frame --------------------------------
(***************************************************************************)
(* The stack frame ast::Context lays out for a function: variables of open *)
(* scopes, the left operands Operation parks while it evaluates the right  *)
(* one, and what spill_register reserves.  Offsets are relative to s0, the *)
(* top of the frame; the compiler only counts, nothing is moved.           *)
(***************************************************************************)
EXTENDS Integers, FiniteSetsExt, SequencesExt

CONSTANTS
  FrameSize,   \* STACK_FRAME_SIZE
  SavedArea,   \* where init_stack starts, below the saved ra and s0
  Name,        \* identifiers
  Widths,      \* getBytes of the types: 1, 4, 8
  Bounds,      \* array bounds that are written out
  MaxScopes,   \* bound: open scopes, the global one included
  MaxGlobals,  \* bound: global arrays
  MaxOperands  \* bound: nesting of Operations

ASSUME FrameAssumption ==
  /\ FrameSize \in Nat /\ SavedArea \in Nat /\ SavedArea <= FrameSize
  /\ Widths \subseteq Nat \ {0} /\ Bounds \subseteq Nat \ {0}
  /\ IsFiniteSet(Name)
  /\ MaxScopes \in Nat /\ MaxGlobals \in Nat /\ MaxOperands \in Nat

VARIABLES
  phase,     \* "start" up to the first function, "function", "global" after one,
             \* "aborted" by an exception
  sfp,       \* stack_frame_pointer
  base,      \* init_arr_loc_base_
  tables,    \* symbol_table_stack_: the slot of each name, global scope first
  operands,  \* the slots of the active Operations, innermost last
  init,      \* history: what the newest array initialiser stored into
  retired    \* history: bytes of closed scopes and of spills

vars == <<phase, sfp, base, tables, operands, init, retired>>

Slot == [lo : Int, size : Nat]

SlotAt(lo, size) == [lo |-> lo, size |-> size]
Apart(s, t) == s.lo + s.size <= t.lo \/ t.lo + t.size <= s.lo

\* No slot: offsets are never positive.
Nothing == SlotAt(1, 0)

\* A symbol table: a name that is not declared in it has no slot.
NewTable == [n \in Name |-> Nothing]
Declared(t) == {n \in Name : t[n] # Nothing}
TableSize(t) == SumFunction([n \in Name |-> t[n].size])

Symbols == tables[Len(tables)]
Locals == 2..Len(tables)

-----------------------------------------------------------------------------

\* Mutant: the room is checked before the bytes are taken.
FitsBefore(bytes) == bytes \in Int /\ sfp > -FrameSize

Fits(bytes) == sfp - bytes >= -FrameSize

\* push_stack, when it does not throw.
Reserve(bytes) == Fits(bytes) /\ sfp' = sfp - bytes

\* A valid program declares a name once in a scope.
Enter(n, slot) ==
  /\ n \notin Declared(Symbols)
  /\ tables' = [tables EXCEPT ![Len(tables)][n] = slot]

\* ArrayInit stores k elements from offset lo up.
Initialise(lo, k, width, array) ==
  init' = IF k = 0 THEN init ELSE [at |-> SlotAt(lo, k * width), array |-> array]

Init ==
  /\ phase = "start"
  /\ sfp = 0 /\ base = 0
  /\ tables = <<NewTable>>
  /\ operands = << >>
  /\ init = [at |-> Nothing, array |-> Nothing]
  /\ retired = 0

\* init_stack and push_scope.
BeginFunction ==
  /\ phase \in {"start", "global"}
  /\ phase' = "function"
  /\ sfp' = -SavedArea
  /\ tables' = Append(tables, NewTable)
  /\ init' = [at |-> Nothing, array |-> Nothing]
  /\ retired' = 0
  /\ UNCHANGED <<base, operands>>

EndFunction ==
  /\ phase = "function" /\ Len(tables) = 2 /\ operands = << >>
  /\ phase' = "global"
  /\ tables' = Front(tables)
  /\ UNCHANGED <<sfp, base, operands, init, retired>>

PushScope ==
  /\ phase = "function" /\ operands = << >> /\ Len(tables) < MaxScopes
  /\ tables' = Append(tables, NewTable)
  /\ UNCHANGED <<phase, sfp, base, operands, init, retired>>

\* pop_smoke forgets the names; their bytes are not given back.
PopScope ==
  /\ phase = "function" /\ operands = << >> /\ Len(tables) > 2
  /\ tables' = Front(tables)
  /\ retired' = retired + TableSize(Symbols)
  /\ UNCHANGED <<phase, sfp, base, operands, init>>

\* allocate_stack, for a parameter or a local variable.
Declare(n, bytes) ==
  /\ phase = "function" /\ operands = << >>
  /\ Reserve(bytes)
  /\ Enter(n, SlotAt(sfp', bytes))
  /\ UNCHANGED <<phase, base, operands, init, retired>>

\* getValue of a bound: only a literal has one, "int x[3 + 2]" gets Node's 0.
SizeOf(bound, literal) == IF literal THEN bound ELSE 0

\* Mutant: init_arr_loc_base_ is taken before the bytes are reserved.
DeclareArrayBaseBefore(n, bound, literal, width, k) ==
  /\ phase = "function" /\ operands = << >> /\ k <= bound
  /\ Reserve(SizeOf(bound, literal) * width)
  /\ base' = sfp
  /\ Enter(n, SlotAt(sfp', SizeOf(bound, literal) * width))
  /\ Initialise(base', k, width, SlotAt(sfp', SizeOf(bound, literal) * width))
  /\ UNCHANGED <<phase, operands, retired>>

\* allocate_stack_array, then ArrayInit stores k elements from
\* init_arr_loc_base_ up: as many as are written, whatever was reserved.  At
\* global scope there is no frame and no initialiser, and the bytes are
\* counted all the same.
DeclareArray(n, bound, literal, width, k) ==
  /\ phase # "aborted" /\ operands = << >>
  /\ phase # "function" => k = 0 /\ Cardinality(Declared(Symbols)) < MaxGlobals
  /\ k <= bound
  /\ Reserve(SizeOf(bound, literal) * width)
  /\ base' = sfp'
  /\ Enter(n, SlotAt(base', SizeOf(bound, literal) * width))
  /\ Initialise(base', k, width, SlotAt(base', SizeOf(bound, literal) * width))
  /\ UNCHANGED <<phase, operands, retired>>

\* Mutant: the size -1 of an array without a bound is taken for a size.
DeclareArrayOfSizeMinusOne(n, width, k) ==
  /\ phase = "function" /\ operands = << >> /\ k \in Nat
  /\ Reserve(-width)
  /\ Enter(n, SlotAt(sfp', -width))
  /\ UNCHANGED <<phase, base, operands, init, retired>>

\* Without a bound ("int a[] = {...}") nothing is reserved, stack_location is
\* never set (the name has no slot), and ArrayInit stores from the base of
\* whatever array was declared before.
DeclareUnsizedArray(n, width, k) ==
  /\ phase = "function" /\ operands = << >> /\ n \notin Declared(Symbols)
  /\ Initialise(base, k, width, Nothing)
  /\ UNCHANGED <<phase, sfp, base, tables, operands, retired>>

\* Operation parks its left operand, and takes it back after the right one.
ParkOperand(bytes) ==
  /\ phase = "function" /\ Len(operands) < MaxOperands
  /\ Reserve(bytes)
  /\ operands' = Append(operands, SlotAt(sfp', bytes))
  /\ UNCHANGED <<phase, base, tables, init, retired>>

\* Mutant: pop_stack is called with the bytes of another type.
ReloadOtherWidth ==
  /\ phase = "function" /\ operands # << >>
  /\ \E w \in Widths : sfp' = sfp + w
  /\ operands' = Front(operands)
  /\ UNCHANGED <<phase, base, tables, init, retired>>

\* Mutant: pop_stack is forgotten.
ReloadWithoutPop ==
  /\ phase = "function" /\ operands # << >>
  /\ operands' = Front(operands)
  /\ UNCHANGED <<phase, sfp, base, tables, init, retired>>

ReloadOperand ==
  /\ phase = "function" /\ operands # << >>
  /\ sfp' = sfp + Last(operands).size
  /\ operands' = Front(operands)
  /\ UNCHANGED <<phase, base, tables, init, retired>>

\* spill_register reserves bytes nobody gives back.  It is reached when every
\* temporary is taken, which module Registers follows: here the emitters of a
\* function may hold that many at any time, and so may, until the next function
\* resets the flags, those that leaked theirs (Assignment), when a Declaration
\* at global scope asks.  Before the first function t0 is free.
Spill(bytes) ==
  /\ phase \in {"function", "global"}
  /\ Reserve(bytes)
  /\ retired' = IF phase = "function" THEN retired + bytes ELSE retired
  /\ UNCHANGED <<phase, base, tables, operands, init>>

\* push_stack throws, whoever called it.
Overflow(bytes) ==
  /\ phase # "aborted" /\ ~Fits(bytes)
  /\ phase' = "aborted"
  /\ UNCHANGED <<sfp, base, tables, operands, init, retired>>

Stopped == phase = "aborted" /\ UNCHANGED vars

Next ==
  \/ BeginFunction \/ EndFunction \/ PushScope \/ PopScope
  \/ \E w \in Widths :
       \/ ParkOperand(w) \/ Spill(w) \/ Overflow(w)
       \/ \E c \in Bounds : Overflow(c * w)
       \/ \E n \in Name :
            \/ Declare(n, w)
            \/ \E c \in Bounds : \E k \in 0..c, literal \in BOOLEAN :
                 DeclareArray(n, c, literal, w, k)
            \/ \E k \in Bounds : DeclareUnsizedArray(n, w, k)
  \/ ReloadOperand \/ Stopped

Spec == Init /\ [][Next]_vars

-----------------------------------------------------------------------------
(* Properties.                                                             *)

TypeOK ==
  /\ phase \in {"start", "function", "global", "aborted"}
  /\ sfp \in Int /\ base \in Int
  /\ tables \in Seq([Name -> Slot])
  /\ operands \in Seq(Slot)
  /\ init \in [at : Slot, array : Slot]

InFrame(s) == -FrameSize <= s.lo /\ s.lo + s.size <= -SavedArea

\* Every variable in an open scope of the function and every parked operand
\* lies between the bottom of the frame and the saved ra and s0, so storing one
\* cannot damage the return.  (Stores outside the slots are another matter: see
\* LiteralBoundHarmless.)
SlotsInFrame ==
  phase = "function" =>
    /\ \A i \in Locals : \A n \in Declared(tables[i]) : InFrame(tables[i][n])
    /\ \A k \in DOMAIN operands : InFrame(operands[k])

\* Variables of open scopes, shadowed ones included, and parked operands share
\* no byte, whatever was declared, parked, reloaded or spilled before and in
\* whatever order scopes were closed.
SlotsDisjoint ==
  phase = "function" =>
    /\ \A i, j \in Locals : \A m \in Declared(tables[i]), n \in Declared(tables[j]) :
         <<i, m>> # <<j, n>> => Apart(tables[i][m], tables[j][n])
    /\ \A k, l \in DOMAIN operands : k # l => Apart(operands[k], operands[l])
    /\ \A i \in Locals : \A n \in Declared(tables[i]) : \A k \in DOMAIN operands :
         Apart(tables[i][n], operands[k])

\* The frame is accounted for to the byte: the pointer stands below what is
\* live, what closed scopes left behind and what spills reserved, and nothing
\* else; a reload returns exactly what its park took.
FrameAccounted ==
  phase = "function" =>
    -sfp = SavedArea + retired
           + SumFunction([i \in Locals |-> TableSize(tables[i])])
           + SumFunction([k \in DOMAIN operands |-> operands[k].size])

\* The stores of an array initialiser touch no variable but the array itself,
\* as long as the bound of the array is a literal.  ast_array_declarator.cpp:24
\* names "x[3 + 2]" too: that array has no bytes of its own, and its elements go
\* where other variables are.
InitialiserHarmless(i) ==
  \A t \in Locals : \A n \in Declared(tables[t]) :
    i.at.size > 0 /\ tables[t][n] # i.array => Apart(tables[t][n], i.at)

LiteralBoundHarmless ==
  phase = "function" /\ init.array.size > 0 => InitialiserHarmless(init)

\* docs/c_compiler.md lists "arrays declared globally": such an array is not
\* a piece of the frame of the function that is running.
GlobalArraysApart ==
  phase = "function" =>
    \A g \in Declared(tables[1]) : \A i \in Locals : \A n \in Declared(tables[i]) :
      Apart(tables[1][g], tables[i][n])

=============================================================================
