----------------------------- MODULE FrameProofs -----------------------------
(***************************************************************************)
(* Proofs about Frame: for every frame size, every set of names, widths    *)
(* and bounds and every depth of nesting, the slots the compiler hands out *)
(* inside a function stay in the frame and share no byte.                  *)
(***************************************************************************)
EXTENDS Frame, DataLemmas

\* Slots are handed out downwards and operands taken back in reverse order, so
\* everything live lies at or above the stack pointer, a later operand below
\* an earlier one, and every operand below every variable.
Geometry ==
  /\ Len(tables) >= 2
  /\ -FrameSize <= sfp /\ sfp <= -SavedArea
  /\ \A i \in Locals : \A n \in Declared(tables[i]) :
       sfp <= tables[i][n].lo /\ tables[i][n].lo + tables[i][n].size <= -SavedArea
  /\ \A k \in DOMAIN operands :
       sfp <= operands[k].lo /\ operands[k].lo + operands[k].size <= -SavedArea
  /\ \A k, l \in DOMAIN operands :
       k < l => operands[l].lo + operands[l].size <= operands[k].lo
  /\ \A i \in Locals : \A n \in Declared(tables[i]) : \A k \in DOMAIN operands :
       operands[k].lo + operands[k].size <= tables[i][n].lo
  /\ \A i, j \in Locals : \A m \in Declared(tables[i]), n \in Declared(tables[j]) :
       <<i, m>> # <<j, n>> => Apart(tables[i][m], tables[j][n])

IInv ==
  /\ TypeOK
  /\ phase \in {"start", "global"} => Len(tables) = 1 /\ operands = << >>
  /\ phase = "function" => Geometry

-----------------------------------------------------------------------------

LEMMA FrameFacts ==
  /\ FrameSize \in Nat /\ SavedArea \in Nat /\ SavedArea <= FrameSize
  /\ Widths \subseteq Nat \ {0} /\ Bounds \subseteq Nat \ {0}
  BY FrameAssumption DEF FrameAssumption

\* What an array reserves is a number of bytes, and of a literal bound not 0.
LEMMA ArrayBytes ==
  ASSUME NEW c \in Bounds, NEW literal \in BOOLEAN, NEW w \in Widths
  PROVE  /\ SizeOf(c, literal) * w \in Nat
         /\ SizeOf(c, literal) * w > 0 => SizeOf(c, literal) = c
  <1>1. c \in Nat /\ w \in Nat
    BY FrameFacts
  <1>2. CASE literal
    BY <1>1, <1>2 DEF SizeOf
  <1>3. CASE ~literal
    <2>1. SizeOf(c, literal) = 0
      BY <1>3 DEF SizeOf
    <2> QED
      BY <1>1, <2>1
  <1> QED
    BY <1>2, <1>3

\* The initial state has one empty table and no operand.
LEMMA InitIInv == Init => IInv
  <1> SUFFICES ASSUME Init PROVE IInv
    OBVIOUS
  <1>1. NewTable \in [Name -> Slot]
    BY DEF NewTable, Nothing, SlotAt, Slot
  <1>2. TypeOK
    BY <1>1 DEF Init, TypeOK, Nothing, SlotAt, Slot
  <1> QED
    BY <1>2 DEF Init, IInv

\* A slot, be it empty, below everything live, entered in the innermost table of
\* a function that has no operand parked, keeps the geometry.
LEMMA EnterKeeps ==
  ASSUME IInv, phase = "function", operands = << >>,
         NEW n \in Name, NEW bytes \in Nat,
         Reserve(bytes), Enter(n, SlotAt(sfp', bytes)), operands' = operands
  PROVE  tables' \in Seq([Name -> Slot]) /\ sfp' \in Int /\ Geometry'
  <1>1. /\ sfp \in Int /\ tables \in Seq([Name -> Slot]) /\ Geometry
    BY DEF IInv, TypeOK
  <1> DEFINE top == Len(tables)
             s   == SlotAt(sfp', bytes)
  <1>2. /\ sfp' = sfp - bytes /\ sfp' \in Int /\ -FrameSize <= sfp'
        /\ s \in Slot /\ s.lo = sfp' /\ s.size = bytes
    BY <1>1, FrameFacts DEF Reserve, Fits, SlotAt, Slot
  <1>3. top \in Nat /\ top >= 2 /\ top \in DOMAIN tables /\ top \in Locals
    BY <1>1 DEF Geometry, Locals
  <1>4. /\ tables' \in Seq([Name -> Slot]) /\ Len(tables') = top
        /\ \A i \in 1..top : \A m \in Name :
             tables'[i][m] = IF i = top /\ m = n THEN s ELSE tables[i][m]
    BY <1>1, <1>2, <1>3 DEF Enter
  <1>5. Locals' = Locals /\ Locals = 2..top
    BY <1>4 DEF Locals
  <1>6. \A i \in Locals : \A m \in Declared(tables'[i]) :
          \/ i = top /\ m = n /\ tables'[i][m] = s
          \/ m \in Declared(tables[i]) /\ tables'[i][m] = tables[i][m]
    BY <1>3, <1>4, <1>5 DEF Declared
  <1>7. \A i \in Locals : \A m \in Declared(tables[i]) :
          /\ sfp' <= tables[i][m].lo
          /\ tables[i][m].lo + tables[i][m].size <= -SavedArea
          /\ Apart(s, tables[i][m]) /\ Apart(tables[i][m], s)
    <2> SUFFICES ASSUME NEW i \in Locals, NEW m \in Declared(tables[i])
                 PROVE  /\ sfp' <= tables[i][m].lo
                        /\ tables[i][m].lo + tables[i][m].size <= -SavedArea
                        /\ Apart(s, tables[i][m]) /\ Apart(tables[i][m], s)
      OBVIOUS
    <2>1. tables[i][m] \in Slot
      BY <1>1 DEF Locals, Declared
    <2>2. /\ sfp <= tables[i][m].lo
          /\ tables[i][m].lo + tables[i][m].size <= -SavedArea
      BY <1>1 DEF Geometry
    <2> HIDE DEF s
    <2>3. tables[i][m].lo \in Int /\ tables[i][m].size \in Nat
      BY <2>1 DEF Slot
    <2>4. sfp' <= tables[i][m].lo /\ s.lo + s.size <= tables[i][m].lo
      BY <1>1, <1>2, <2>2, <2>3
    <2> QED
      BY <2>2, <2>4 DEF Apart
  <1> HIDE DEF top, s
  <1>8. \A i \in Locals' : \A m \in Declared(tables'[i]) :
          sfp' <= tables'[i][m].lo /\ tables'[i][m].lo + tables'[i][m].size <= -SavedArea
    <2>1. sfp' <= s.lo /\ s.lo + s.size <= -SavedArea
      BY <1>1, <1>2, FrameFacts DEF Geometry
    <2> QED
      BY <1>5, <1>6, <1>7, <2>1
  <1>9. \A i, j \in Locals' : \A m \in Declared(tables'[i]), k \in Declared(tables'[j]) :
          <<i, m>> # <<j, k>> => Apart(tables'[i][m], tables'[j][k])
    <2> SUFFICES ASSUME NEW i \in Locals, NEW j \in Locals,
                        NEW m \in Declared(tables'[i]), NEW k \in Declared(tables'[j]),
                        <<i, m>> # <<j, k>>
                 PROVE  Apart(tables'[i][m], tables'[j][k])
      BY <1>5
    <2>1. CASE i = top /\ m = n /\ tables'[i][m] = s
      BY <2>1, <1>6, <1>7
    <2>2. CASE j = top /\ k = n /\ tables'[j][k] = s
      BY <2>2, <1>6, <1>7
    <2>3. CASE /\ m \in Declared(tables[i]) /\ tables'[i][m] = tables[i][m]
               /\ k \in Declared(tables[j]) /\ tables'[j][k] = tables[j][k]
      BY <2>3, <1>1 DEF Geometry
    <2> QED
      BY <2>1, <2>2, <2>3, <1>6
  <1> QED
    BY <1>1, <1>2, <1>3, <1>4, <1>8, <1>9, FrameFacts DEF Geometry, top

\* Opening a scope adds an empty table.
LEMMA OpenScope ==
  ASSUME tables \in Seq([Name -> Slot]), tables' = Append(tables, NewTable)
  PROVE  /\ tables' \in Seq([Name -> Slot]) /\ Len(tables') = Len(tables) + 1
         /\ \A i \in Locals' :
              \/ i \in Locals /\ tables'[i] = tables[i]
              \/ i = Len(tables) + 1 /\ Declared(tables'[i]) = {}
  <1>1. NewTable \in [Name -> Slot] /\ Declared(NewTable) = {}
    BY DEF NewTable, Declared, Nothing, SlotAt, Slot
  <1>2. /\ tables' \in Seq([Name -> Slot]) /\ Len(tables') = Len(tables) + 1
        /\ \A i \in 1..Len(tables) : tables'[i] = tables[i]
        /\ tables'[Len(tables) + 1] = NewTable
    BY <1>1
  <1> QED
    BY <1>1, <1>2 DEF Locals

\* Closing a scope forgets the innermost table.
LEMMA CloseScope ==
  ASSUME tables \in Seq([Name -> Slot]), Len(tables) >= 2, tables' = Front(tables)
  PROVE  /\ tables' \in Seq([Name -> Slot]) /\ Len(tables') = Len(tables) - 1
         /\ \A i \in Locals' : i \in Locals /\ tables'[i] = tables[i]
  BY DEF Front, Locals

LEMMA FunctionSteps ==
  ASSUME IInv,
         \/ BeginFunction \/ EndFunction \/ PushScope \/ PopScope \/ ReloadOperand
         \/ \E n \in Name, w \in Widths : Declare(n, w)
  PROVE  IInv'
  <1>1. /\ tables \in Seq([Name -> Slot]) /\ sfp \in Int /\ base \in Int
        /\ operands \in Seq(Slot) /\ init \in [at : Slot, array : Slot]
        /\ phase \in {"start", "global"} => Len(tables) = 1 /\ operands = << >>
        /\ phase = "function" => Geometry
    BY DEF IInv, TypeOK
  <1>2. CASE BeginFunction
    <2>0. Len(tables) = 1 /\ operands = << >> /\ tables' = Append(tables, NewTable)
      BY <1>1, <1>2 DEF BeginFunction
    <2>1. tables' \in Seq([Name -> Slot]) /\ Len(tables') = 2
          /\ \A i \in Locals' : Declared(tables'[i]) = {}
      <3>1. tables \in Seq([Name -> Slot])
        BY <1>1
      <3>2. /\ tables' \in Seq([Name -> Slot]) /\ Len(tables') = Len(tables) + 1
            /\ \A i \in Locals' : i \in Locals \/ Declared(tables'[i]) = {}
        BY <2>0, <3>1, OpenScope
      <3>3. Locals = {}
        BY <2>0 DEF Locals
      <3>4. Len(tables') = 2
        BY <2>0, <3>2
      <3>5. ASSUME NEW i \in Locals' PROVE Declared(tables'[i]) = {}
        BY <3>2, <3>3, Zenon
      <3> QED
        BY <3>2, <3>4, <3>5
    <2>2. TypeOK'
      BY <1>1, <1>2, <2>1, FrameFacts
      DEF BeginFunction, TypeOK, Nothing, SlotAt, Slot
    <2> QED
      <3>1. /\ phase' = "function" /\ sfp' = -SavedArea /\ operands' = << >>
        BY <1>2, <2>0 DEF BeginFunction
      <3>2. DOMAIN operands' = {}
        BY <3>1
      <3>3. -FrameSize <= sfp' /\ sfp' <= -SavedArea /\ Len(tables') >= 2
        BY <2>1, <3>1, FrameFacts
      <3>4. Geometry'
        BY <2>1, <3>2, <3>3, Zenon DEF Geometry
      <3> QED
        BY <2>2, <3>1, <3>4 DEF IInv
  <1>3. CASE EndFunction
    <2>1. tables' \in Seq([Name -> Slot]) /\ Len(tables') = 1
      BY <1>1, <1>3, CloseScope DEF EndFunction
    <2> QED
      BY <1>1, <1>3, <2>1 DEF EndFunction, IInv, TypeOK
  <1>4. CASE PushScope
    <2>1. TypeOK'
      BY <1>1, <1>4, OpenScope DEF PushScope, TypeOK
    <2>2. /\ Geometry /\ sfp' = sfp /\ operands' = << >>
          /\ tables' = Append(tables, NewTable)
      BY <1>1, <1>4 DEF PushScope
    <2>3. /\ Len(tables) \in Nat /\ Len(tables') = Len(tables) + 1
          /\ \A i \in Locals' : \/ i \in Locals /\ tables'[i] = tables[i]
                              \/ Declared(tables'[i]) = {}
      <3>1. tables \in Seq([Name -> Slot]) /\ Len(tables) \in Nat
        BY <1>1
      <3> QED
        BY <2>2, <3>1, OpenScope
    <2>5. /\ DOMAIN operands' = {} /\ Len(tables') >= 2
          /\ \A i \in Locals' : \A n \in Declared(tables'[i]) :
               /\ i \in Locals /\ n \in Declared(tables[i])
               /\ tables'[i][n] = tables[i][n]
      <3>1. DOMAIN operands' = {}
        BY <2>2
      <3>2. Len(tables) >= 2
        BY <2>2 DEF Geometry
      <3>3. \A i \in Locals' : \A n \in Declared(tables'[i]) :
              i \in Locals /\ tables'[i] = tables[i]
        BY <2>3
      <3>4. Len(tables') >= 2
        BY <2>3, <3>2
      <3>5. ASSUME NEW i \in Locals', NEW n \in Declared(tables'[i])
            PROVE  /\ i \in Locals /\ n \in Declared(tables[i])
                   /\ tables'[i][n] = tables[i][n]
        <4>1. i \in Locals /\ tables'[i] = tables[i]
          BY <3>3
        <4> QED
          BY <4>1, Zenon
      <3> QED
        BY <3>1, <3>4, <3>5
    <2>6. \A i, j \in Locals' : \A m \in Declared(tables'[i]), n \in Declared(tables'[j]) :
            <<i, m>> # <<j, n>> => Apart(tables'[i][m], tables'[j][n])
      <3> SUFFICES ASSUME NEW i \in Locals', NEW j \in Locals',
                          NEW m \in Declared(tables'[i]), NEW n \in Declared(tables'[j]),
                          <<i, m>> # <<j, n>>
                   PROVE  Apart(tables'[i][m], tables'[j][n])
        OBVIOUS
      <3>1. Apart(tables[i][m], tables[j][n])
        BY <2>2, <2>5 DEF Geometry
      <3> QED
        BY <2>5, <3>1
    <2>4. Geometry'
      BY <2>2, <2>5, <2>6 DEF Geometry
    <2> QED
      BY <1>4, <2>1, <2>4 DEF PushScope, IInv
  <1>5. CASE PopScope
    <2>1. TypeOK'
      BY <1>1, <1>5, CloseScope DEF PopScope, TypeOK
    <2>2. /\ Geometry /\ sfp' = sfp /\ operands' = << >> /\ Len(tables) > 2
          /\ tables' = Front(tables)
      BY <1>1, <1>5 DEF PopScope
    <2>3. /\ Len(tables) \in Nat /\ Len(tables') = Len(tables) - 1
          /\ \A i \in Locals' : i \in Locals /\ tables'[i] = tables[i]
      BY <1>1, <2>2, CloseScope
    <2>4. Geometry'
      BY <2>2, <2>3 DEF Geometry
    <2> QED
      BY <1>5, <2>1, <2>4 DEF PopScope, IInv
  <1>6. CASE ReloadOperand
    <2>1. PICK k \in Nat : k = Len(operands) /\ k > 0 /\ k \in DOMAIN operands
      BY <1>1, <1>6 DEF ReloadOperand
    <2>2. /\ operands' \in Seq(Slot) /\ Len(operands') = k - 1
          /\ \A l \in DOMAIN operands' : l \in DOMAIN operands /\ l < k
                                         /\ operands'[l] = operands[l]
          /\ operands[k] \in Slot /\ sfp' = sfp + operands[k].size
      BY <1>1, <1>6, <2>1 DEF ReloadOperand, Front, Last
    <2>3. TypeOK'
      BY <1>1, <1>6, <2>2 DEF ReloadOperand, TypeOK, Slot
    <2>4. Geometry
      BY <1>1, <1>6 DEF ReloadOperand
    <2> DEFINE op == operands[k]
    <2>10. op.lo \in Int /\ op.size \in Nat /\ sfp \in Int /\ sfp' = sfp + op.size
      BY <1>1, <2>2 DEF Slot
    <2>11. /\ sfp <= op.lo /\ op.lo + op.size <= -SavedArea
           /\ -FrameSize <= sfp
      BY <2>1, <2>4 DEF Geometry
    <2> HIDE DEF op
    <2>5. sfp' \in Int /\ -FrameSize <= sfp' /\ sfp' <= -SavedArea
      BY <2>10, <2>11, FrameFacts
    <2>6. ASSUME NEW l \in DOMAIN operands' PROVE sfp' <= operands'[l].lo
      <3>1. operands[l].lo \in Int
        <4>1. operands[l] \in Slot
          BY <1>1, <2>2
        <4> QED
          BY <4>1 DEF Slot
      <3>2. op.lo + op.size <= operands[l].lo /\ operands'[l] = operands[l]
        BY <2>1, <2>2, <2>4 DEF Geometry, op
      <3> QED
        BY <2>10, <2>11, <3>1, <3>2
    <2>7. ASSUME NEW i \in Locals, NEW n \in Declared(tables[i])
          PROVE  sfp' <= tables[i][n].lo
      <3>1. tables[i][n].lo \in Int
        BY <1>1 DEF Locals, Declared, Slot
      <3>2. op.lo + op.size <= tables[i][n].lo
        BY <2>1, <2>4 DEF Geometry, op
      <3> QED
        BY <2>10, <2>11, <3>1, <3>2
    <2>8. tables' = tables /\ Locals' = Locals
      BY <1>6 DEF ReloadOperand, Locals
    <2>9. Geometry'
      BY <2>2, <2>4, <2>5, <2>6, <2>7, <2>8 DEF Geometry
    <2> QED
      BY <1>6, <2>3, <2>9 DEF ReloadOperand, IInv
  <1>7. ASSUME NEW n \in Name, NEW w \in Widths, Declare(n, w) PROVE IInv'
    <2>1. tables' \in Seq([Name -> Slot]) /\ sfp' \in Int /\ Geometry'
      BY <1>7, EnterKeeps, FrameFacts DEF Declare
    <2> QED
      BY <1>1, <1>7, <2>1 DEF Declare, IInv, TypeOK
  <1> QED
    BY <1>2, <1>3, <1>4, <1>5, <1>6, <1>7

\* An array takes its bytes at once, in a function as a local variable does.
LEMMA ArraySteps ==
  ASSUME IInv, NEW n \in Name, NEW width \in Widths, NEW k \in Nat,
         \/ \E bound \in Bounds, literal \in BOOLEAN : DeclareArray(n, bound, literal, width, k)
         \/ DeclareUnsizedArray(n, width, k)
  PROVE  IInv'
  <1>1. /\ tables \in Seq([Name -> Slot]) /\ sfp \in Int /\ base \in Int
        /\ operands \in Seq(Slot) /\ init \in [at : Slot, array : Slot]
        /\ width \in Nat \ {0} /\ k * width \in Nat /\ Nothing \in Slot
    BY FrameFacts DEF IInv, TypeOK, Nothing, SlotAt, Slot
  <1>2. ASSUME NEW bound \in Bounds, NEW literal \in BOOLEAN,
               DeclareArray(n, bound, literal, width, k)
        PROVE  IInv'
    <2> DEFINE bytes == SizeOf(bound, literal) * width
    <2>1. bytes \in Nat
      BY ArrayBytes
    <2> HIDE DEF bytes
    <2>2. /\ Reserve(bytes) /\ Enter(n, SlotAt(sfp', bytes)) /\ base' = sfp'
          /\ operands = << >> /\ UNCHANGED <<phase, operands>>
          /\ init' = IF k = 0 THEN init
                     ELSE [at |-> SlotAt(base', k * width), array |-> SlotAt(base', bytes)]
      BY <1>2 DEF DeclareArray, Initialise, bytes
    <2>3. sfp' \in Int /\ tables' \in Seq([Name -> Slot]) /\ Len(tables') = Len(tables)
      <3>1. SlotAt(sfp', bytes) \in Slot /\ sfp' \in Int
        BY <1>1, <2>1, <2>2 DEF Reserve, SlotAt, Slot
      <3>2. phase \in {"start", "global"} \/ phase = "function"
        BY <1>2 DEF DeclareArray, IInv, TypeOK
      <3>3. Len(tables) \in Nat /\ Len(tables) >= 1
        <4>1. Len(tables) \in Nat
          BY <1>1
        <4>2. Len(tables) = 1 \/ Len(tables) >= 2
          BY <3>2 DEF IInv, Geometry
        <4> QED
          BY <4>1, <4>2
      <3>4. Len(tables) \in DOMAIN tables
        BY <1>1, <3>3
      <3> QED
        <4> DEFINE s == SlotAt(sfp', bytes)
        <4>1. s \in Slot /\ tables' = [tables EXCEPT ![Len(tables)][n] = s]
          BY <2>2, <3>1 DEF Enter
        <4> HIDE DEF s
        <4>2. tables[Len(tables)] \in [Name -> Slot]
          BY <1>1, <3>4
        <4> QED
          BY <1>1, <3>1, <3>3, <3>4, <4>1, <4>2
    <2>4. init' \in [at : Slot, array : Slot]
      BY <1>1, <2>1, <2>2, <2>3 DEF SlotAt, Slot
    <2>5. CASE phase = "function"
      BY <2>1, <2>2, <2>3, <2>4, <2>5, <1>1, EnterKeeps DEF IInv, TypeOK
    <2>6. CASE phase # "function"
      BY <2>2, <2>3, <2>4, <2>6, <1>1 DEF IInv, TypeOK
    <2> QED
      BY <2>5, <2>6
  <1>3. ASSUME DeclareUnsizedArray(n, width, k) PROVE IInv'
    <2>1. /\ UNCHANGED <<phase, sfp, base, tables, operands>>
          /\ init' \in [at : Slot, array : Slot]
      BY <1>1, <1>3 DEF DeclareUnsizedArray, Initialise, SlotAt, Slot
    <2> QED
      BY <2>1 DEF IInv, TypeOK, Geometry, Locals
  <1> QED
    BY <1>2, <1>3

\* Parking an operand takes bytes below everything live; so does a spill,
\* which leaves no slot behind.
LEMMA ReservingSteps ==
  ASSUME IInv, NEW bytes \in Nat \ {0}, ParkOperand(bytes) \/ Spill(bytes)
  PROVE  IInv'
  <1>1. /\ tables \in Seq([Name -> Slot]) /\ sfp \in Int /\ base \in Int
        /\ operands \in Seq(Slot) /\ init \in [at : Slot, array : Slot]
    BY DEF IInv, TypeOK
  <1>2. /\ sfp' = sfp - bytes /\ sfp' \in Int /\ sfp' <= sfp /\ -FrameSize <= sfp'
        /\ UNCHANGED <<phase, base, tables, init>> /\ Locals' = Locals
    BY <1>1, FrameFacts DEF ParkOperand, Spill, Reserve, Fits, Locals
  <1>3. ASSUME Geometry
        PROVE  /\ sfp' <= -SavedArea
               /\ \A i \in Locals : \A n \in Declared(tables[i]) :
                    sfp' + bytes <= tables[i][n].lo /\ sfp' <= tables[i][n].lo
               /\ \A l \in DOMAIN operands :
                    sfp' + bytes <= operands[l].lo /\ sfp' <= operands[l].lo
    <2>1. sfp <= -SavedArea
      BY <1>3 DEF Geometry
    <2>2. ASSUME NEW i \in Locals, NEW n \in Declared(tables[i])
          PROVE  sfp' + bytes <= tables[i][n].lo /\ sfp' <= tables[i][n].lo
      <3>1. tables[i][n].lo \in Int
        BY <1>1 DEF Locals, Declared, Slot
      <3>2. sfp <= tables[i][n].lo
        BY <1>3 DEF Geometry
      <3> QED
        BY <1>1, <1>2, <3>1, <3>2
    <2>3. ASSUME NEW l \in DOMAIN operands
          PROVE  sfp' + bytes <= operands[l].lo /\ sfp' <= operands[l].lo
      <3>1. operands[l].lo \in Int
        <4>1. operands[l] \in Slot
          BY <1>1
        <4> QED
          BY <4>1 DEF Slot
      <3>2. sfp <= operands[l].lo
        BY <1>3 DEF Geometry
      <3> QED
        BY <1>1, <1>2, <3>1, <3>2
    <2> QED
      BY <1>1, <1>2, <2>1, <2>2, <2>3, FrameFacts
  <1>4. CASE Spill(bytes)
    <2>1. operands' = operands
      BY <1>4 DEF Spill
    <2>2. ASSUME Geometry PROVE Geometry'
      BY <1>2, <1>3, <2>1, <2>2 DEF Geometry
    <2> QED
      BY <1>1, <1>2, <2>1, <2>2 DEF IInv, TypeOK
  <1>5. CASE ParkOperand(bytes)
    <2> DEFINE s == SlotAt(sfp', bytes)
    <2>1. s \in Slot /\ s.lo = sfp' /\ s.size = bytes
      BY <1>2 DEF SlotAt, Slot
    <2>2. Geometry /\ phase = "function" /\ operands' = Append(operands, s)
      BY <1>5 DEF ParkOperand, IInv
    <2> HIDE DEF s
    <2>3. /\ operands' \in Seq(Slot) /\ Len(operands) \in Nat
          /\ \A l \in DOMAIN operands' :
               \/ l \in DOMAIN operands /\ operands'[l] = operands[l]
               \/ l = Len(operands) + 1 /\ operands'[l] = s
          /\ \A l \in DOMAIN operands : l <= Len(operands)
      BY <1>1, <2>1, <2>2
    <2>4. \A l \in DOMAIN operands' :
            sfp' <= operands'[l].lo /\ operands'[l].lo + operands'[l].size <= -SavedArea
      <3>1. sfp' + bytes <= -SavedArea /\ sfp' <= sfp'
        BY <1>1, <1>2, <2>2, FrameFacts DEF Geometry
      <3> QED
        BY <1>3, <2>1, <2>2, <2>3, <3>1 DEF Geometry
    <2>5. ASSUME NEW g \in DOMAIN operands', NEW l \in DOMAIN operands', g < l
          PROVE  operands'[l].lo + operands'[l].size <= operands'[g].lo
      <3>1. g \in DOMAIN operands /\ operands'[g] = operands[g]
        BY <2>3, <2>5
      <3> QED
        BY <1>3, <2>1, <2>2, <2>3, <2>5, <3>1 DEF Geometry
    <2>6. \A i \in Locals : \A n \in Declared(tables[i]) : \A l \in DOMAIN operands' :
            operands'[l].lo + operands'[l].size <= tables[i][n].lo
      BY <1>3, <2>1, <2>2, <2>3 DEF Geometry
    <2>7. Geometry'
      BY <1>2, <1>3, <2>2, <2>4, <2>5, <2>6 DEF Geometry
    <2> QED
      BY <1>1, <1>2, <2>2, <2>3, <2>7 DEF IInv, TypeOK
  <1> QED
    BY <1>4, <1>5

LEMMA NextKeeps == IInv /\ [Next]_vars => IInv'
  <1> SUFFICES ASSUME IInv, [Next]_vars PROVE IInv'
    OBVIOUS
  <1>1. CASE UNCHANGED vars \/ Stopped
    BY <1>1 DEF vars, Stopped, IInv, TypeOK, Geometry, Locals
  <1>2. ASSUME NEW bytes \in Nat, Overflow(bytes) PROVE IInv'
    BY <1>2 DEF Overflow, IInv, TypeOK
  <1>3. CASE BeginFunction \/ EndFunction \/ PushScope \/ PopScope \/ ReloadOperand
    BY <1>3, FunctionSteps
  <1>4. ASSUME NEW w \in Widths, ParkOperand(w) \/ Spill(w) PROVE IInv'
    BY <1>4, ReservingSteps, FrameFacts
  <1>5. ASSUME NEW w \in Widths, NEW n \in Name,
               \/ Declare(n, w)
               \/ \E c \in Bounds : \E k \in 0..c, literal \in BOOLEAN :
                    DeclareArray(n, c, literal, w, k)
               \/ \E k \in Bounds : DeclareUnsizedArray(n, w, k)
        PROVE  IInv'
    <2>1. CASE Declare(n, w)
      BY <2>1, FunctionSteps
    <2>2. ASSUME NEW c \in Bounds, NEW k \in 0..c, NEW literal \in BOOLEAN,
                 DeclareArray(n, c, literal, w, k)
          PROVE  IInv'
      <3>1. k \in Nat
        BY FrameFacts
      <3> QED
        BY <2>2, <3>1, ArraySteps
    <2>3. ASSUME NEW k \in Bounds, DeclareUnsizedArray(n, w, k) PROVE IInv'
      <3>1. k \in Nat
        BY FrameFacts
      <3> QED
        BY <2>3, <3>1, ArraySteps
    <2> QED
      BY <1>5, <2>1, <2>2, <2>3
  <1>6. \A w \in Widths : w \in Nat /\ \A c \in Bounds : c * w \in Nat
    BY FrameFacts
  <1> QED
    BY <1>1, <1>2, <1>3, <1>4, <1>5, <1>6 DEF Next

LEMMA Inductive == Spec => []IInv
  BY InitIInv, NextKeeps, PTL DEF Spec

\* Every state of the frame's bookkeeping is well formed.
THEOREM TypeCorrect == Spec => []TypeOK
  <1>1. IInv => TypeOK
    BY DEF IInv
  <1> QED
    BY <1>1, Inductive, PTL

\* No variable and no parked operand reaches the saved ra and s0, or below the
\* stack pointer, in any function.
THEOREM FrameSafe == Spec => []SlotsInFrame
  <1>1. IInv => SlotsInFrame
    <2> SUFFICES ASSUME Geometry, TypeOK PROVE SlotsInFrame
      BY DEF IInv, SlotsInFrame
    <2>1. -FrameSize \in Int /\ sfp \in Int /\ -FrameSize <= sfp
      BY FrameFacts DEF Geometry, TypeOK
    <2>2. ASSUME NEW i \in Locals, NEW n \in Declared(tables[i]) PROVE InFrame(tables[i][n])
      <3>1. tables[i][n].lo \in Int
        BY DEF TypeOK, Locals, Declared, Slot
      <3> QED
        BY <2>1, <3>1 DEF Geometry, InFrame
    <2>3. ASSUME NEW k \in DOMAIN operands PROVE InFrame(operands[k])
      <3>1. operands[k] \in Slot
        BY DEF TypeOK
      <3>2. operands[k].lo \in Int
        BY <3>1 DEF Slot
      <3> QED
        BY <2>1, <3>2 DEF Geometry, InFrame
    <2> QED
      BY <2>2, <2>3 DEF SlotsInFrame
  <1> QED
    BY <1>1, Inductive, PTL

\* No two variables of open scopes and no parked operand overlap.
THEOREM NoOverlap == Spec => []SlotsDisjoint
  <1>1. IInv => SlotsDisjoint
    <2> SUFFICES ASSUME Geometry, TypeOK PROVE SlotsDisjoint
      BY DEF IInv, SlotsDisjoint
    <2>1. ASSUME NEW k \in DOMAIN operands, NEW l \in DOMAIN operands, k # l
          PROVE  Apart(operands[k], operands[l])
      <3>1. k \in Int /\ l \in Int
        BY DEF TypeOK
      <3>2. k < l \/ l < k
        BY <2>1, <3>1
      <3> QED
        BY <3>2 DEF Geometry, Apart
    <2>2. \A i \in Locals : \A n \in Declared(tables[i]) : \A k \in DOMAIN operands :
            Apart(tables[i][n], operands[k])
      BY DEF Geometry, Apart
    <2> QED
      BY <2>1, <2>2 DEF SlotsDisjoint, Geometry
  <1> QED
    BY <1>1, Inductive, PTL

-----------------------------------------------------------------------------
(* The bytes of the frame are accounted for.                               *)

\* The bytes of the variables in the scopes of a function, and of operands.
Bytes(T)  == SumFunction([i \in 2..Len(T) |-> TableSize(T[i])])
Parked(q) == SumFunction([k \in DOMAIN q |-> q[k].size])

Accounted ==
  phase = "function" =>
    retired \in Int /\ -sfp = SavedArea + retired + Bytes(tables) + Parked(operands)

LEMMA NameFinite == IsFiniteSet(Name)
  BY FrameAssumption DEF FrameAssumption

LEMMA TableSizeType ==
  ASSUME NEW t \in [Name -> Slot]
  PROVE  TableSize(t) \in Int
  <1> DEFINE sizes == [n \in Name |-> t[n].size]
  <1>1. sizes \in [Name -> Int]
    BY DEF Slot
  <1> HIDE DEF sizes
  <1>2. SumFunction(sizes) \in Int
    BY <1>1, NameFinite, SumType
  <1> QED
    BY <1>2 DEF TableSize, sizes

LEMMA NewTableSize == TableSize(NewTable) = 0
  <1> DEFINE sizes == [n \in Name |-> NewTable[n].size]
  <1>1. sizes \in [Name -> Int] /\ \A n \in Name : sizes[n] = 0
    BY DEF NewTable, Nothing, SlotAt
  <1> HIDE DEF sizes
  <1>2. SumFunction(sizes) = 0
    BY <1>1, NameFinite, SumZero
  <1> QED
    BY <1>2 DEF TableSize, sizes

\* A slot entered under a name without one adds its size.
LEMMA TableSizeEnter ==
  ASSUME NEW t \in [Name -> Slot], NEW n \in Name, t[n] = Nothing, NEW s \in Slot
  PROVE  TableSize([t EXCEPT ![n] = s]) = TableSize(t) + s.size
  <1> DEFINE u == [t EXCEPT ![n] = s]
             f == [m \in Name |-> t[m].size]
             h == [m \in Name |-> u[m].size]
  <1>1. u \in [Name -> Slot] /\ u[n] = s /\ \A m \in Name : m # n => u[m] = t[m]
    OBVIOUS
  <1>2. f \in [Name -> Int] /\ f[n] = 0
    BY DEF Slot, Nothing, SlotAt
  <1> HIDE DEF u
  <1>3. h \in [Name -> Int] /\ h[n] = s.size /\ \A m \in Name : m # n => h[m] = f[m]
    BY <1>1 DEF Slot
  <1>4. s.size \in Int
    BY DEF Slot
  <1> HIDE DEF f, h
  <1>5. /\ SumFunction(f) \in Int
        /\ SumFunction(h) = SumFunction(f) + h[n] - f[n]
    BY <1>2, <1>3, NameFinite, SumChange
  <1>6. SumFunction(h) = SumFunction(f) + s.size
    BY <1>2, <1>3, <1>4, <1>5
  <1> QED
    BY <1>6 DEF TableSize, u, f, h

LEMMA BytesType ==
  ASSUME NEW T \in Seq([Name -> Slot])
  PROVE  /\ IsFiniteSet(2..Len(T))
         /\ [i \in 2..Len(T) |-> TableSize(T[i])] \in [2..Len(T) -> Int]
         /\ Bytes(T) \in Int
  <1>1. Len(T) \in Nat /\ IsFiniteSet(2..Len(T))
    BY FS_Interval
  <1>2. [i \in 2..Len(T) |-> TableSize(T[i])] \in [2..Len(T) -> Int]
    BY TableSizeType
  <1> QED
    BY <1>1, <1>2, SumType DEF Bytes

\* The innermost scope apart from the others.
LEMMA BytesSplit ==
  ASSUME NEW T \in Seq([Name -> Slot]), NEW U \in Seq([Name -> Slot]),
         Len(T) >= 2, Len(U) = Len(T) - 1, \A i \in 1..Len(U) : U[i] = T[i]
  PROVE  Bytes(T) = TableSize(T[Len(T)]) + Bytes(U)
  <1> DEFINE d == Len(T)
             f == [i \in 2..d |-> TableSize(T[i])]
  <1>1. d \in Nat /\ d >= 2 /\ d \in 2..d /\ (2..d) \ {d} = 2..d - 1 /\ Len(U) = d - 1
    OBVIOUS
  <1>2. IsFiniteSet(2..d) /\ f \in [2..d -> Int]
    BY BytesType
  <1>3. \A i \in 2..d - 1 : T[i] = U[i] /\ i \in 2..d
    BY <1>1
  <1>4. f[d] = TableSize(T[d]) /\ \A i \in 2..d - 1 : f[i] = TableSize(U[i])
    BY <1>1, <1>3
  <1>a. SumFunction(f) = Bytes(T) /\ T[d] = T[Len(T)]
    BY DEF Bytes
  <1> HIDE DEF d, f
  <1>5. SumFunction(f) = f[d] + SumFunction(Others(f, d))
    BY <1>1, <1>2, SumSplit
  <1>6. Others(f, d) = [i \in 2..Len(U) |-> TableSize(U[i])]
    BY <1>1, <1>2, <1>4 DEF Others
  <1> QED
    BY <1>4, <1>5, <1>6, <1>a DEF Bytes

\* A declaration in the innermost scope adds the bytes it takes.
LEMMA BytesEnter ==
  ASSUME NEW T \in Seq([Name -> Slot]), Len(T) >= 2, NEW n \in Name,
         T[Len(T)][n] = Nothing, NEW s \in Slot
  PROVE  Bytes([T EXCEPT ![Len(T)][n] = s]) = Bytes(T) + s.size
  <1> DEFINE d == Len(T)
             t == T[d]
             u == [t EXCEPT ![n] = s]
             U == [T EXCEPT ![d] = u]
             f == [i \in 2..d |-> TableSize(T[i])]
             h == [i \in 2..d |-> TableSize(U[i])]
  <1>1. d \in Nat /\ d >= 2 /\ d \in 2..d /\ d \in 1..d /\ t \in [Name -> Slot]
    OBVIOUS
  <1>2. u \in [Name -> Slot] /\ TableSize(u) = TableSize(t) + s.size
    <2>1. t[n] = Nothing
      OBVIOUS
    <2> HIDE DEF t
    <2> QED
      BY <1>1, <2>1, TableSizeEnter
  <1>3. [T EXCEPT ![Len(T)][n] = s] = U
    OBVIOUS
  <1> HIDE DEF u
  <1>4. U \in Seq([Name -> Slot]) /\ Len(U) = d /\ U[d] = u
        /\ \A i \in 2..d : i # d => U[i] = T[i]
    BY <1>1, <1>2
  <1>5. IsFiniteSet(2..d) /\ f \in [2..d -> Int]
    BY BytesType
  <1>6. TableSize(t) \in Int /\ s.size \in Int
    BY <1>1, TableSizeType DEF Slot
  <1> HIDE DEF U
  <1>7. h \in [2..d -> Int]
    BY <1>4, BytesType
  <1>8. h[d] = TableSize(u) /\ f[d] = TableSize(t) /\ \A i \in 2..d : i # d => h[i] = f[i]
    BY <1>1, <1>4
  <1>9. SumFunction(f) = Bytes(T) /\ SumFunction(h) = Bytes(U)
    BY <1>4 DEF Bytes
  <1> HIDE DEF d, f, h, t
  <1>10. SumFunction(f) \in Int /\ SumFunction(h) = SumFunction(f) + h[d] - f[d]
    BY <1>1, <1>5, <1>7, <1>8, SumChange
  <1>11. Bytes(U) = Bytes(T) + s.size
    BY <1>2, <1>6, <1>8, <1>9, <1>10
  <1> QED
    BY <1>3, <1>11

LEMMA ParkedType ==
  ASSUME NEW q \in Seq(Slot)
  PROVE  /\ IsFiniteSet(DOMAIN q) /\ [k \in DOMAIN q |-> q[k].size] \in [DOMAIN q -> Int]
         /\ Parked(q) \in Int
  <1>1. Len(q) \in Nat /\ DOMAIN q = 1..Len(q) /\ IsFiniteSet(1..Len(q))
    BY FS_Interval
  <1>2. \A k \in DOMAIN q : q[k] \in Slot
    OBVIOUS
  <1>3. [k \in DOMAIN q |-> q[k].size] \in [DOMAIN q -> Int]
    BY <1>2 DEF Slot
  <1> QED
    BY <1>1, <1>3, SumType DEF Parked

LEMMA ParkedNone == Parked(<< >>) = 0
  <1> DEFINE f == [k \in DOMAIN << >> |-> << >>[k].size]
  <1>1. DOMAIN << >> = {} /\ IsFiniteSet({})
    BY FS_EmptySet
  <1>2. f \in [{} -> Int] /\ \A k \in {} : f[k] = 0
    BY <1>1
  <1> HIDE DEF f
  <1>3. SumFunction(f) = 0
    BY <1>1, <1>2, SumZero
  <1> QED
    BY <1>3 DEF Parked, f

\* The innermost operand apart from the others.
LEMMA ParkedSplit ==
  ASSUME NEW q \in Seq(Slot), NEW r \in Seq(Slot),
         Len(q) >= 1, Len(r) = Len(q) - 1, \A k \in 1..Len(r) : r[k] = q[k]
  PROVE  Parked(q) = q[Len(q)].size + Parked(r)
  <1> DEFINE d == Len(q)
             f == [k \in DOMAIN q |-> q[k].size]
  <1>1. /\ d \in Nat /\ d \in 1..d /\ DOMAIN q = 1..d /\ DOMAIN r = 1..d - 1
        /\ (1..d) \ {d} = 1..d - 1
    OBVIOUS
  <1>2. IsFiniteSet(1..d) /\ f \in [1..d -> Int]
    BY <1>1, ParkedType
  <1>3. f[d] = q[Len(q)].size /\ \A k \in 1..d - 1 : f[k] = r[k].size
    BY <1>1
  <1>4. SumFunction(f) = Parked(q)
    BY DEF Parked
  <1> HIDE DEF d, f
  <1>5. SumFunction(f) = f[d] + SumFunction(Others(f, d))
    BY <1>1, <1>2, SumSplit
  <1>6. Others(f, d) = [k \in DOMAIN r |-> r[k].size]
    BY <1>1, <1>2, <1>3 DEF Others
  <1> QED
    BY <1>3, <1>4, <1>5, <1>6 DEF Parked

\* What Enter leaves in the tables.
LEMMA EnterFacts ==
  ASSUME tables \in Seq([Name -> Slot]), Len(tables) >= 2,
         NEW n \in Name, NEW s \in Slot, Enter(n, s)
  PROVE  /\ Len(tables) \in Nat /\ tables[Len(tables)] \in [Name -> Slot]
         /\ tables' \in Seq([Name -> Slot]) /\ Locals' = Locals /\ Len(tables) \in Locals
         /\ tables[Len(tables)][n] = Nothing /\ tables'[Len(tables)][n] = s
         /\ tables' = [tables EXCEPT ![Len(tables)][n] = s]
         /\ \A i \in Locals : \A m \in Declared(tables'[i]) :
              \/ i = Len(tables) /\ m = n
              \/ m \in Declared(tables[i]) /\ tables'[i][m] = tables[i][m]
  <1> DEFINE top == Len(tables)
  <1>1. top \in Nat /\ top >= 2 /\ top \in DOMAIN tables /\ top \in Locals
    BY DEF Locals
  <1>2. /\ tables' \in Seq([Name -> Slot]) /\ Len(tables') = top
        /\ \A i \in 1..top : \A m \in Name :
             tables'[i][m] = IF i = top /\ m = n THEN s ELSE tables[i][m]
    BY <1>1 DEF Enter
  <1>3. Locals' = Locals /\ Locals = 2..top
    BY <1>2 DEF Locals
  <1>4. \A i \in Locals : \A m \in Declared(tables'[i]) :
          \/ i = top /\ m = n
          \/ m \in Declared(tables[i]) /\ tables'[i][m] = tables[i][m]
    BY <1>1, <1>2, <1>3 DEF Declared
  <1>5. tables[top][n] = Nothing /\ tables'[top][n] = s
        /\ tables' = [tables EXCEPT ![Len(tables)][n] = s] /\ tables[top] \in [Name -> Slot]
    BY <1>1, <1>2 DEF Enter, Declared, Symbols
  <1> QED
    BY <1>1, <1>2, <1>3, <1>4, <1>5

\* A slot entered is the bytes reserved for it.
LEMMA AccountedEnter ==
  ASSUME IInv, Accounted, phase = "function", phase' = phase, NEW n \in Name,
         NEW bytes \in Nat, Reserve(bytes), Enter(n, SlotAt(sfp', bytes)),
         UNCHANGED <<operands, retired>>
  PROVE  Accounted'
  <1> DEFINE s == SlotAt(sfp', bytes)
  <1>1. /\ tables \in Seq([Name -> Slot]) /\ operands \in Seq(Slot) /\ sfp \in Int
        /\ Len(tables) >= 2
    BY DEF IInv, TypeOK, Geometry
  <1>2. sfp' = sfp - bytes /\ s \in Slot /\ s.size = bytes
    BY <1>1 DEF Reserve, SlotAt, Slot
  <1> HIDE DEF s
  <1>3. tables[Len(tables)][n] = Nothing /\ tables' = [tables EXCEPT ![Len(tables)][n] = s]
    <2>1. Enter(n, s)
      BY DEF s
    <2> QED
      BY <1>1, <1>2, <2>1, EnterFacts
  <1>4. Bytes(tables') = Bytes(tables) + bytes
    BY <1>1, <1>2, <1>3, BytesEnter
  <1>5. Bytes(tables) \in Int /\ Parked(operands) \in Int /\ SavedArea \in Int
    BY <1>1, BytesType, ParkedType, FrameFacts
  <1>6. retired \in Int /\ -sfp = SavedArea + retired + Bytes(tables) + Parked(operands)
    BY DEF Accounted
  <1>7. -sfp' = SavedArea + retired + Bytes(tables') + Parked(operands)
    <2>1. -sfp' = -sfp + bytes
      BY <1>1, <1>2
    <2> QED
      BY <1>4, <1>5, <1>6, <2>1
  <1> QED
    BY <1>6, <1>7 DEF Accounted

LEMMA AccountedStep ==
  ASSUME IInv, IInv', Accounted, [Next]_vars
  PROVE  Accounted'
  <1>1. /\ tables \in Seq([Name -> Slot]) /\ operands \in Seq(Slot) /\ sfp \in Int
        /\ tables' \in Seq([Name -> Slot]) /\ operands' \in Seq(Slot) /\ sfp' \in Int
        /\ phase = "function" => Len(tables) >= 2
        /\ phase \in {"start", "global"} => Len(tables) = 1 /\ operands = << >>
    BY DEF IInv, TypeOK, Geometry
  <1>2. /\ Bytes(tables) \in Int /\ Parked(operands) \in Int /\ SavedArea \in Int
        /\ Bytes(tables') \in Int /\ Parked(operands') \in Int /\ Len(tables) \in Nat
    BY <1>1, BytesType, ParkedType, FrameFacts
  <1>3. CASE UNCHANGED <<phase, sfp, tables, operands, retired>> \/ phase' # "function"
    BY <1>3 DEF Accounted
  <1>4. ASSUME tables' = Append(tables, NewTable)
        PROVE  /\ Len(tables') = Len(tables) + 1
               /\ Len(tables) >= 1 => Bytes(tables') = Bytes(tables)
    <2>1. /\ Len(tables') = Len(tables) + 1
          /\ \A i \in 1..Len(tables) : tables'[i] = tables[i]
          /\ tables'[Len(tables) + 1] = NewTable
      BY <1>1, <1>4
    <2>2. ASSUME Len(tables) >= 1 PROVE Bytes(tables') = Bytes(tables)
      <3>1. Bytes(tables') = TableSize(tables'[Len(tables')]) + Bytes(tables)
        <4>1. /\ Len(tables') >= 2 /\ Len(tables) = Len(tables') - 1
              /\ \A i \in 1..Len(tables) : tables[i] = tables'[i]
          BY <1>2, <2>1, <2>2
        <4> QED
          BY <1>1, <4>1, BytesSplit
      <3> QED
        BY <1>2, <2>1, <3>1, NewTableSize
    <2> QED
      BY <2>1, <2>2
  <1>5. CASE BeginFunction
    <2>1. /\ phase \in {"start", "global"} /\ phase' = "function" /\ sfp' = -SavedArea /\ retired' = 0
          /\ tables' = Append(tables, NewTable) /\ operands' = << >> /\ Len(tables) = 1
      BY <1>1, <1>5 DEF BeginFunction
    <2>2. Bytes(tables') = Bytes(tables)
      BY <1>4, <2>1
    <2>3. Bytes(tables) = 0
      <3> DEFINE f == [i \in 2..Len(tables) |-> TableSize(tables[i])]
      <3>1. f \in [2..Len(tables) -> Int] /\ IsFiniteSet(2..Len(tables))
        BY <1>1, BytesType
      <3>2. 2..Len(tables) = {}
        BY <2>1
      <3>3. \A i \in 2..Len(tables) : f[i] = 0
        BY <3>2
      <3> HIDE DEF f
      <3>4. SumFunction(f) = 0
        BY <3>1, <3>3, SumZero
      <3> QED
        BY <3>4 DEF Bytes, f
    <2>4. Parked(operands') = 0
      BY <2>1, ParkedNone
    <2> QED
      BY <1>2, <2>1, <2>2, <2>3, <2>4 DEF Accounted
  <1>6. CASE PushScope
    <2>1. /\ phase = "function" /\ tables' = Append(tables, NewTable)
          /\ UNCHANGED <<phase, sfp, operands, retired>>
      BY <1>6 DEF PushScope
    <2>2. Bytes(tables') = Bytes(tables)
      BY <1>1, <1>2, <1>4, <2>1
    <2> QED
      BY <2>1, <2>2 DEF Accounted
  <1>7. CASE PopScope
    <2>1. /\ phase = "function" /\ tables' = Front(tables) /\ Len(tables) > 2
          /\ retired' = retired + TableSize(tables[Len(tables)])
          /\ UNCHANGED <<phase, sfp, operands>>
      BY <1>7 DEF PopScope, Symbols
    <2>2. /\ Len(tables') = Len(tables) - 1
          /\ \A i \in 1..Len(tables') : tables'[i] = tables[i]
      BY <1>1, <1>2, <2>1 DEF Front
    <2>3. Bytes(tables) = TableSize(tables[Len(tables)]) + Bytes(tables')
      BY <1>1, <1>2, <2>1, <2>2, BytesSplit
    <2>4. TableSize(tables[Len(tables)]) \in Int
      <3>1. tables[Len(tables)] \in [Name -> Slot]
        BY <1>1, <1>2, <2>1
      <3> QED
        BY <3>1, TableSizeType
    <2>5. retired \in Int /\ -sfp = SavedArea + retired + Bytes(tables) + Parked(operands)
      BY <2>1 DEF Accounted
    <2>6. retired' \in Int /\ -sfp = SavedArea + retired' + Bytes(tables') + Parked(operands)
      <3> DEFINE last == TableSize(tables[Len(tables)])
      <3>1. /\ retired' = retired + last /\ Bytes(tables) = last + Bytes(tables')
            /\ last \in Int /\ sfp \in Int
        BY <1>1, <2>1, <2>3, <2>4
      <3> HIDE DEF last
      <3> QED
        BY <1>2, <2>5, <3>1
    <2> QED
      BY <2>1, <2>6 DEF Accounted
  <1>8. CASE ReloadOperand
    <2>1. /\ phase = "function" /\ operands # << >> /\ operands' = Front(operands)
          /\ sfp' = sfp + operands[Len(operands)].size
          /\ UNCHANGED <<phase, tables, retired>>
      BY <1>8 DEF ReloadOperand, Last
    <2>2. /\ Len(operands) >= 1 /\ Len(operands') = Len(operands) - 1
          /\ \A k \in 1..Len(operands') : operands'[k] = operands[k]
          /\ operands[Len(operands)] \in Slot
      <3>1. /\ Front(operands) \in Seq(Slot) /\ DOMAIN Front(operands) = 1..Len(operands) - 1
            /\ Len(operands) \in Nat /\ Len(operands) \in DOMAIN operands
            /\ \A k \in 1..Len(operands) - 1 : Front(operands)[k] = operands[k]
        BY <1>1, <2>1, FrontFacts
      <3>2. Len(operands) >= 1 /\ Len(Front(operands)) = Len(operands) - 1
        BY <1>1, <2>1, <3>1
      <3> QED
        BY <1>1, <2>1, <3>1, <3>2
    <2>3. Parked(operands) = operands[Len(operands)].size + Parked(operands')
      BY <1>1, <2>2, ParkedSplit
    <2>4. operands[Len(operands)].size \in Int
      BY <2>2 DEF Slot
    <2>5. retired \in Int /\ -sfp = SavedArea + retired + Bytes(tables) + Parked(operands)
      BY <2>1 DEF Accounted
    <2>6. -sfp' = SavedArea + retired + Bytes(tables) + Parked(operands')
      <3> DEFINE last == operands[Len(operands)].size
      <3>1. /\ sfp' = sfp + last /\ Parked(operands) = last + Parked(operands')
            /\ last \in Int /\ sfp \in Int
        BY <1>1, <2>1, <2>3, <2>4
      <3> HIDE DEF last
      <3> QED
        BY <1>2, <2>5, <3>1
    <2> QED
      BY <2>1, <2>5, <2>6 DEF Accounted
  <1>9. ASSUME NEW w \in Widths, ParkOperand(w) PROVE Accounted'
    <2> DEFINE s == SlotAt(sfp', w)
    <2>0. w \in Nat
      BY FrameFacts
    <2>1. /\ phase = "function" /\ sfp' = sfp - w /\ operands' = Append(operands, s)
          /\ UNCHANGED <<phase, tables, retired>> /\ s.size = w /\ s \in Slot
      BY <1>1, <1>9, <2>0 DEF ParkOperand, Reserve, SlotAt, Slot
    <2> HIDE DEF s
    <2>2. /\ Len(operands') >= 1 /\ Len(operands) = Len(operands') - 1
          /\ \A k \in 1..Len(operands) : operands[k] = operands'[k]
          /\ operands'[Len(operands')] = s
      BY <1>1, <2>1
    <2>3. Parked(operands') = w + Parked(operands)
      BY <1>1, <2>1, <2>2, ParkedSplit
    <2>5. retired \in Int /\ -sfp = SavedArea + retired + Bytes(tables) + Parked(operands)
      BY <2>1 DEF Accounted
    <2>6. -sfp' = SavedArea + retired + Bytes(tables) + Parked(operands')
      BY <1>1, <1>2, <2>0, <2>1, <2>3, <2>5
    <2> QED
      BY <2>1, <2>5, <2>6 DEF Accounted
  <1>10. ASSUME NEW w \in Widths, Spill(w) PROVE Accounted'
    <2>1. w \in Nat /\ sfp' = sfp - w /\ UNCHANGED <<phase, tables, operands>>
          /\ (phase = "function" => retired' = retired + w)
      BY <1>10, FrameFacts DEF Spill, Reserve
    <2>2. ASSUME phase = "function"
          PROVE  retired' \in Int /\ -sfp' = SavedArea + retired' + Bytes(tables) + Parked(operands)
      <3>1. retired \in Int /\ -sfp = SavedArea + retired + Bytes(tables) + Parked(operands)
        BY <2>2 DEF Accounted
      <3> QED
        BY <1>1, <1>2, <2>1, <2>2, <3>1
    <2> QED
      BY <2>1, <2>2 DEF Accounted
  <1>11. ASSUME NEW w \in Widths, NEW n \in Name, Declare(n, w) PROVE Accounted'
    <2>1. w \in Nat \ {0}
      BY FrameFacts
    <2> QED
      BY <1>11, <2>1, AccountedEnter DEF Declare
  <1>12. ASSUME NEW w \in Widths, NEW n \in Name, NEW c \in Bounds, NEW k \in 0..c,
                NEW literal \in BOOLEAN, DeclareArray(n, c, literal, w, k)
         PROVE  Accounted'
    <2> DEFINE bytes == SizeOf(c, literal) * w
    <2>1. bytes \in Nat
      BY ArrayBytes
    <2> HIDE DEF bytes
    <2>2. /\ Reserve(bytes) /\ Enter(n, SlotAt(sfp', bytes))
          /\ UNCHANGED <<phase, operands, retired>>
      BY <1>12 DEF DeclareArray, bytes
    <2> QED
      BY <1>3, <2>1, <2>2, AccountedEnter
  <1> QED
    BY <1>3, <1>5, <1>6, <1>7, <1>8, <1>9, <1>10, <1>11, <1>12
    DEF Next, vars, Stopped, EndFunction, Overflow, DeclareUnsizedArray

\* The compiler loses no byte of a frame and hands none out twice: what it
\* took is what is live, what closed scopes left and what spills reserved.
THEOREM FrameAdds == Spec => []FrameAccounted
  <1>1. Init => IInv /\ Accounted
    BY InitIInv DEF Init, Accounted
  <1>2. IInv /\ Accounted /\ [Next]_vars => (IInv /\ Accounted)'
    BY NextKeeps, AccountedStep
  <1>3. Accounted => FrameAccounted
    BY DEF Accounted, FrameAccounted, Bytes, Parked, Locals
  <1> QED
    BY <1>1, <1>2, <1>3, PTL DEF Spec

-----------------------------------------------------------------------------
(* The stores of an initialiser stay in the array.                         *)

\* The newest initialised array, even when its scope is closed: its stores are
\* inside it, and its bytes are above the stack pointer and the operands and
\* apart from every variable that can still be named.
Contained ==
  phase = "function" /\ init.array.size > 0 =>
    /\ init.array.lo <= init.at.lo
    /\ init.at.lo + init.at.size <= init.array.lo + init.array.size
    /\ sfp <= init.array.lo
    /\ \A k \in DOMAIN operands : operands[k].lo + operands[k].size <= init.array.lo
    /\ \A i \in Locals : \A n \in Declared(tables[i]) :
         tables[i][n] # init.array => Apart(tables[i][n], init.array)

\* A variable declared below the array.
LEMMA ContainedEnter ==
  ASSUME IInv, Contained, phase = "function", operands = << >>, NEW n \in Name,
         NEW bytes \in Nat, Reserve(bytes), Enter(n, SlotAt(sfp', bytes)),
         UNCHANGED <<phase, operands, init>>
  PROVE  Contained'
  <1> DEFINE s == SlotAt(sfp', bytes)
  <1> SUFFICES ASSUME init.array.size > 0
               PROVE  /\ sfp' <= init.array.lo
                      /\ \A i \in Locals' : \A m \in Declared(tables'[i]) :
                           tables'[i][m] # init.array => Apart(tables'[i][m], init.array)
    BY DEF Contained
  <1>1. /\ tables \in Seq([Name -> Slot]) /\ sfp \in Int /\ Len(tables) >= 2
        /\ init.array \in Slot
    BY DEF IInv, TypeOK, Geometry
  <1>2. /\ sfp' = sfp - bytes /\ s \in Slot /\ s.lo = sfp' /\ s.size = bytes
        /\ Enter(n, s)
    BY <1>1 DEF Reserve, SlotAt, Slot
  <1> HIDE DEF s
  <1>3. sfp <= init.array.lo /\ init.array.lo \in Int
    BY <1>1 DEF Contained, Slot
  <1>4. sfp' <= init.array.lo /\ Apart(s, init.array)
    BY <1>1, <1>2, <1>3 DEF Apart
  <1>5. /\ Locals' = Locals /\ tables'[Len(tables)][n] = s
        /\ \A i \in Locals : \A m \in Declared(tables'[i]) :
             \/ i = Len(tables) /\ m = n
             \/ m \in Declared(tables[i]) /\ tables'[i][m] = tables[i][m]
    BY <1>1, <1>2, EnterFacts
  <1>6. ASSUME NEW i \in Locals, NEW m \in Declared(tables'[i]), tables'[i][m] # init.array
        PROVE  Apart(tables'[i][m], init.array)
    <2>1. CASE i = Len(tables) /\ m = n
      BY <1>4, <1>5, <2>1
    <2>2. CASE m \in Declared(tables[i]) /\ tables'[i][m] = tables[i][m]
      BY <1>6, <2>2 DEF Contained
    <2> QED
      BY <1>5, <2>1, <2>2
  <1> QED
    BY <1>4, <1>5, <1>6

\* An array declared and initialised.
LEMMA ContainedArray ==
  ASSUME IInv, IInv', Contained, phase = "function", NEW n \in Name,
         NEW c \in Bounds, NEW w \in Widths, NEW k \in 0..c,
         NEW literal \in BOOLEAN, DeclareArray(n, c, literal, w, k)
  PROVE  Contained'
  <1> DEFINE bytes == SizeOf(c, literal) * w
             s     == SlotAt(sfp', bytes)
  <1>1. /\ c \in Nat /\ w \in Nat /\ k \in Nat /\ k <= c /\ bytes \in Nat
        /\ k * w \in Nat
    BY FrameFacts, ArrayBytes
  <1>2. bytes > 0 => k * w <= bytes
    <2>0. SUFFICES ASSUME bytes > 0 PROVE k * w <= bytes
      OBVIOUS
    <2>3. bytes = c * w
      BY <2>0, ArrayBytes
    <2>1. (c - k) * w \in Nat
      BY <1>1
    <2>2. c * w = k * w + (c - k) * w
      BY <1>1
    <2> QED
      BY <1>1, <2>1, <2>2, <2>3
  <1>3. /\ operands = << >> /\ Reserve(bytes) /\ Enter(n, SlotAt(sfp', bytes))
        /\ UNCHANGED <<phase, operands>>
        /\ init' = IF k = 0 THEN init ELSE [at |-> SlotAt(sfp', k * w), array |-> s]
    BY DEF DeclareArray, Initialise
  <1> HIDE DEF bytes
  <1>4. CASE k = 0
    BY <1>1, <1>3, <1>4, ContainedEnter
  <1>5. CASE k # 0 /\ bytes = 0
    <2>1. init'.array.size = 0
      BY <1>3, <1>5 DEF SlotAt
    <2> QED
      BY <2>1 DEF Contained
  <1>6. CASE k # 0 /\ bytes > 0
    <2>1. /\ tables \in Seq([Name -> Slot]) /\ sfp' \in Int /\ Len(tables) >= 2
      BY DEF IInv, TypeOK, Geometry
    <2>2. /\ s \in Slot /\ s.lo = sfp' /\ s.size = bytes /\ Enter(n, s) /\ s # Nothing
          /\ init'.at.lo = sfp' /\ init'.at.size = k * w /\ init'.array = s
      BY <1>1, <1>3, <1>6, <2>1 DEF SlotAt, Slot, Nothing
    <2> HIDE DEF s
    <2>3. /\ Locals' = Locals /\ Len(tables) \in Locals /\ tables'[Len(tables)][n] = s
      BY <2>1, <2>2, EnterFacts
    <2>4. n \in Declared(tables'[Len(tables)])
      BY <2>2, <2>3 DEF Declared
    <2>5. ASSUME NEW i \in Locals', NEW m \in Declared(tables'[i]), tables'[i][m] # s
          PROVE  Apart(tables'[i][m], s)
      <3>1. <<i, m>> # <<Len(tables), n>>
        BY <2>3, <2>5
      <3>2. Geometry'
        BY <1>3 DEF IInv
      <3> QED
        BY <2>3, <2>4, <3>1, <3>2 DEF Geometry
    <2>6. DOMAIN operands' = {}
      BY <1>3
    <2>7. /\ init'.array.lo <= init'.at.lo
          /\ init'.at.lo + init'.at.size <= init'.array.lo + init'.array.size
          /\ sfp' <= init'.array.lo
      BY <1>1, <1>2, <1>6, <2>1, <2>2
    <2> QED
      BY <2>2, <2>5, <2>6, <2>7 DEF Contained
  <1> QED
    BY <1>1, <1>4, <1>6, <1>5

LEMMA ContainedStep ==
  ASSUME IInv, IInv', Contained, [Next]_vars
  PROVE  Contained'
  <1>1. /\ tables \in Seq([Name -> Slot]) /\ operands \in Seq(Slot) /\ sfp \in Int
        /\ init.array \in Slot /\ init.array.lo \in Int /\ init.array.size \in Nat
        /\ phase = "function" => Geometry
    BY DEF IInv, TypeOK, Slot
  <1>2. CASE \/ phase' # "function" \/ init'.array.size = 0
             \/ UNCHANGED <<phase, sfp, tables, operands, init>>
    BY <1>2 DEF Contained, Locals
  <1>3. CASE PushScope \/ PopScope
    <2>1. /\ phase = "function" /\ UNCHANGED <<phase, sfp, operands, init>> /\ Geometry
      BY <1>1, <1>3 DEF PushScope, PopScope
    <2>2. \A i \in Locals' : (i \in Locals /\ tables'[i] = tables[i])
                             \/ Declared(tables'[i]) = {}
      <3>1. CASE PushScope
        BY <1>1, <3>1, OpenScope DEF PushScope
      <3>2. CASE PopScope
        <4>1. tables' = Front(tables) /\ Len(tables) >= 2
          BY <1>1, <3>2, <2>1 DEF PopScope, Geometry
        <4> QED
          BY <1>1, <4>1, CloseScope
      <3> QED
        BY <1>3, <3>1, <3>2
    <2>3. \A i \in Locals' : \A n \in Declared(tables'[i]) :
            i \in Locals /\ tables'[i] = tables[i]
      BY <2>2
    <2> QED
      BY <2>1, <2>3 DEF Contained
  <1>4. CASE ReloadOperand /\ init.array.size > 0
    <2> DEFINE op == operands[Len(operands)]
    <2>1. /\ phase = "function" /\ operands # << >> /\ operands' = Front(operands)
          /\ sfp' = sfp + op.size /\ UNCHANGED <<phase, tables, init>> /\ Geometry
      BY <1>1, <1>4 DEF ReloadOperand, Last
    <2>2. /\ DOMAIN Front(operands) = 1..Len(operands) - 1
          /\ Len(operands) \in DOMAIN operands
          /\ \A k \in 1..Len(operands) - 1 :
               Front(operands)[k] = operands[k] /\ k \in DOMAIN operands
          /\ op \in Slot
      <3>1. operands \in Seq(Slot) /\ operands # << >>
        BY <1>1, <2>1
      <3>2. /\ DOMAIN Front(operands) = 1..Len(operands) - 1
            /\ Len(operands) \in DOMAIN operands
            /\ \A k \in 1..Len(operands) - 1 :
                 Front(operands)[k] = operands[k] /\ k \in DOMAIN operands
        BY <3>1, FrontFacts
      <3> QED
        BY <3>1, <3>2
    <2>3. sfp <= op.lo /\ op.lo + op.size <= init.array.lo
      BY <1>4, <2>1, <2>2 DEF Geometry, Contained
    <2>4. op.lo \in Int /\ op.size \in Int
      BY <2>2 DEF Slot
    <2>5. sfp' = sfp + op.size
      BY <2>1
    <2>6. \A k \in DOMAIN operands' : k \in DOMAIN operands /\ operands'[k] = operands[k]
      BY <2>1, <2>2
    <2> HIDE DEF op
    <2>7. sfp' <= init.array.lo
      BY <1>1, <2>3, <2>4, <2>5
    <2> QED
      BY <2>1, <2>6, <2>7 DEF Contained, Locals
  <1>5. ASSUME NEW w \in Widths, ParkOperand(w) PROVE Contained'
    <2> DEFINE s == SlotAt(sfp', w)
    <2>1. /\ phase = "function" /\ sfp' = sfp - w /\ w \in Nat /\ sfp' \in Int
          /\ operands' = Append(operands, s) /\ UNCHANGED <<phase, tables, init>>
          /\ s \in Slot /\ s.lo + s.size = sfp
      BY <1>1, <1>5, FrameFacts DEF ParkOperand, Reserve, SlotAt, Slot
    <2> HIDE DEF s
    <2>2. \A k \in DOMAIN operands' :
            (k \in DOMAIN operands /\ operands'[k] = operands[k]) \/ operands'[k] = s
      BY <1>1, <2>1
    <2>3. ASSUME init.array.size > 0
          PROVE  /\ sfp' <= init.array.lo
                 /\ \A k \in DOMAIN operands' :
                      operands'[k].lo + operands'[k].size <= init.array.lo
      <3>1. sfp <= init.array.lo
        BY <2>1, <2>3 DEF Contained
      <3>2. sfp' <= init.array.lo
        BY <1>1, <2>1, <3>1
      <3>3. ASSUME NEW k \in DOMAIN operands'
            PROVE  operands'[k].lo + operands'[k].size <= init.array.lo
        BY <2>1, <2>2, <2>3, <3>1 DEF Contained
      <3> QED
        BY <3>2, <3>3
    <2> QED
      BY <2>1, <2>3 DEF Contained, Locals
  <1>6. ASSUME NEW w \in Widths, Spill(w) PROVE Contained'
    <2>1. /\ sfp' = sfp - w /\ w \in Nat /\ UNCHANGED <<phase, tables, operands, init>>
      BY <1>6, FrameFacts DEF Spill, Reserve
    <2>2. sfp <= init.array.lo => sfp' <= init.array.lo
      BY <1>1, <2>1
    <2> QED
      BY <2>1, <2>2 DEF Contained, Locals
  <1>7. ASSUME NEW w \in Widths, NEW n \in Name, Declare(n, w) PROVE Contained'
    <2>1. w \in Nat \ {0}
      BY FrameFacts
    <2> QED
      BY <1>7, <2>1, ContainedEnter DEF Declare
  <1>8. ASSUME NEW w \in Widths, NEW n \in Name, NEW c \in Bounds, NEW k \in 0..c,
               NEW literal \in BOOLEAN, DeclareArray(n, c, literal, w, k)
        PROVE  Contained'
    <2>1. phase' = phase
      BY <1>8 DEF DeclareArray
    <2> QED
      BY <1>2, <1>8, <2>1, ContainedArray
  <1>9. ASSUME NEW w \in Widths, NEW n \in Name, NEW k \in Bounds, DeclareUnsizedArray(n, w, k)
        PROVE  Contained'
    <2>1. init'.array.size = 0
      BY <1>9, FrameFacts DEF DeclareUnsizedArray, Initialise, Nothing, SlotAt
    <2> QED
      BY <1>2, <2>1
  <1>10. CASE BeginFunction
    <2>1. init'.array.size = 0
      BY <1>10 DEF BeginFunction, Nothing, SlotAt
    <2> QED
      BY <1>2, <2>1
  <1>11. CASE ReloadOperand /\ init.array.size = 0
    BY <1>2, <1>11 DEF ReloadOperand
  <1> QED
    <2>1. init.array.size > 0 \/ init.array.size = 0
      BY <1>1
    <2> QED
      BY <1>2, <1>3, <1>4, <1>5, <1>6, <1>7, <1>8, <1>9, <1>10, <1>11, <2>1
      DEF Next, vars, Stopped, EndFunction, Overflow

\* The initialiser of an array whose bound is a literal stores into that array
\* and into no variable that can be named, however scopes are closed and reused
\* after it.
THEOREM InitialisersContained == Spec => []LiteralBoundHarmless
  <1>1. Init => IInv /\ Contained
    BY InitIInv DEF Init, Contained, Nothing, SlotAt
  <1>2. IInv /\ Contained /\ [Next]_vars => (IInv /\ Contained)'
    BY NextKeeps, ContainedStep
  <1>3. IInv /\ Contained => LiteralBoundHarmless
    <2> SUFFICES ASSUME IInv, Contained, phase = "function", init.array.size > 0,
                        NEW t \in Locals, NEW n \in Declared(tables[t]),
                        tables[t][n] # init.array
                 PROVE  Apart(tables[t][n], init.at)
      BY DEF LiteralBoundHarmless, InitialiserHarmless
    <2>1. tables[t][n] \in Slot /\ init.at \in Slot /\ init.array \in Slot
      BY DEF IInv, TypeOK, Locals, Declared
    <2>2. /\ init.array.lo <= init.at.lo
          /\ init.at.lo + init.at.size <= init.array.lo + init.array.size
          /\ Apart(tables[t][n], init.array)
      BY DEF Contained
    <2> DEFINE v == tables[t][n]
               a == init.at
               r == init.array
    <2>3. /\ v.lo \in Int /\ v.size \in Int /\ a.lo \in Int /\ a.size \in Int
          /\ r.lo \in Int /\ r.size \in Int
      BY <2>1 DEF Slot
    <2>4. r.lo <= a.lo /\ a.lo + a.size <= r.lo + r.size /\ Apart(v, r)
      BY <2>2
    <2> HIDE DEF v, a, r
    <2>5. Apart(v, a)
      BY <2>3, <2>4 DEF Apart
    <2> QED
      BY <2>5 DEF v, a
  <1> QED
    BY <1>1, <1>2, <1>3, PTL DEF Spec

=============================================================================
