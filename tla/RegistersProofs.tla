-------------------------- MODULE RegistersProofs --------------------------
(* Proofs about the register allocator, for any registers and nesting:     *)
(* its invariants, and that it keeps the contract of RegisterPool.         *)
EXTENDS Registers, DataLemmas

\* The function that is being compiled holds its return register at the
\* bottom of the stack.
ReturnHeld ==
  /\ phase = "function" => held # << >> /\ held[1].kind = "ret"
  /\ \A i \in DOMAIN held : held[i].kind = "ret" => held[i].reg \in ArgRegs

\* While the temporaries suffice, spilled_registers is empty and what is held
\* or was kept is marked.
Marked ==
  ample =>
    /\ spilled = {}
    /\ leaked \subseteq busy \cap TempRegs
    /\ \A i \in DOMAIN held : IsTemp(i) => held[i].reg \in busy

IInv == TypeOK /\ ReturnHeld /\ Marked /\ Exclusive

LEMMA RegisterFacts ==
  /\ Bank # {}
  /\ \A b \in Bank :
       /\ ToSet(Temps[b]) \subseteq TempRegs
       /\ ToSet(Args[b]) \subseteq ArgRegs
       /\ Args[b][1] \in ToSet(Args[b])
       /\ Args[b] \in Seq(ArgRegs) /\ Args[b] # << >>
       /\ Temps[b] \in Seq(TempRegs)
  /\ TempRegs \cap ArgRegs = {}
  /\ TempRegs \subseteq Reg /\ ArgRegs \subseteq Reg
  /\ Reserved \subseteq Reg /\ Stray \subseteq Reg
  /\ (CHOOSE b \in Bank : TRUE) \in Bank
<1>1. ASSUME NEW b \in Bank
      PROVE /\ ToSet(Temps[b]) \subseteq TempRegs
            /\ ToSet(Args[b]) \subseteq ArgRegs
            /\ Args[b][1] \in ToSet(Args[b])
            /\ Args[b] \in Seq(ArgRegs) /\ Args[b] # << >>
            /\ Temps[b] \in Seq(TempRegs)
  <2>1. ToSet(Temps[b]) \subseteq TempRegs /\ ToSet(Args[b]) \subseteq ArgRegs
    BY DEF TempRegs, ArgRegs
  <2>2. /\ Temps[b] \in Seq(ToSet(Temps[b])) /\ Args[b] \in Seq(ToSet(Args[b]))
        /\ Args[b] # << >>
    BY RegisterAssumption DEF RegisterAssumption
  <2>3. 1 \in DOMAIN Args[b]
    BY <2>2
  <2>. QED
    BY <2>1, <2>2, <2>3 DEF ToSet
<1>. QED
  BY <1>1, RegisterAssumption DEF RegisterAssumption, Reg

LEMMA InitInvariant == Init => IInv
BY RegisterFacts DEF Init, IInv, TypeOK, ReturnHeld, Marked, Exclusive, IsTemp

\* Facts every step of the induction starts from.
LEMMA HeldFacts ==
  ASSUME IInv, held # << >>
  PROVE  /\ Len(held) \in DOMAIN held
         /\ Top \in Handle
         /\ Front(held) \in Seq(Handle)
         /\ DOMAIN Front(held) = 1..Len(held)-1
         /\ \A i \in DOMAIN Front(held) : Front(held)[i] = held[i]
BY DEF IInv, TypeOK, Top, Front

LEMMA AcquireInvariant ==
  ASSUME IInv, NEW b \in Bank, Acquire(b) \/ AcquireBySpilling(b)
  PROVE  IInv'
<1>. PICK r \in Reg, flag \in BOOLEAN :
       /\ \/ AllocateTemp(b, r) \/ AllocateSpareArg(b, r)
          \/ SpillRegister(b, r)
       /\ Push([kind |-> "temp", bank |-> b, reg |-> r, spoiled |-> flag])
       /\ UNCHANGED phase
  BY DEF Acquire, AcquireBySpilling
<1>. DEFINE h == [kind |-> "temp", bank |-> b, reg |-> r, spoiled |-> flag]
<1>1. h \in Handle
  BY DEF Handle, Kinds
<1>2. /\ held' = Append(held, h) /\ held \in Seq(Handle) /\ held' \in Seq(Handle)
      /\ Len(held') = Len(held) + 1 /\ held'[Len(held) + 1] = h
      /\ \A i \in DOMAIN held : held'[i] = held[i]
      /\ DOMAIN held' = DOMAIN held \cup {Len(held) + 1}
  BY <1>1 DEF Push, IInv, TypeOK
<1>. HIDE DEF h
<1>3. TypeOK'
  BY <1>2 DEF IInv, TypeOK, AllocateTemp, AllocateSpareArg, SpillRegister, Take
<1>4. ReturnHeld'
  BY <1>2 DEF h, IInv, ReturnHeld
<1>5. CASE AllocateTemp(b, r)
  <2>1. /\ r \in ToSet(Temps[b]) /\ r \notin busy /\ busy' = busy \cup {r}
        /\ UNCHANGED <<spilled, ample, leaked>>
    BY <1>5 DEF AllocateTemp, FirstFree, Take, ToSet
  <2>2. Marked'
    BY <1>2, <2>1 DEF h, IInv, Marked, IsTemp
  <2>3. Exclusive'
    BY <1>2, <2>1 DEF h, IInv, Marked, Exclusive, IsTemp
  <2>. QED
    BY <1>3, <1>4, <2>2, <2>3 DEF IInv
<1>6. CASE AllocateSpareArg(b, r) \/ SpillRegister(b, r)
  BY <1>3, <1>4, <1>6 DEF IInv, Marked, Exclusive, AllocateSpareArg, SpillRegister
<1>. QED
  BY <1>5, <1>6

LEMMA ReleaseInvariant == IInv /\ Release => IInv'
<1>. SUFFICES ASSUME IInv, Release PROVE IInv'
  OBVIOUS
<1>1. /\ Top.kind = "temp" /\ held' = Front(held)
      /\ DeallocateRegs({Top.reg}) /\ UNCHANGED <<phase, ample, leaked>>
      /\ held # << >>
  BY DEF Release, Pop
<1>2. TypeOK'
  BY <1>1, HeldFacts DEF IInv, TypeOK, DeallocateRegs
<1>3. ReturnHeld'
  BY <1>1, HeldFacts DEF IInv, ReturnHeld, TypeOK, Top
<1>4. ASSUME ample
      PROVE  /\ spilled' = {} /\ busy' = busy \ {Top.reg}
             /\ Top.reg \notin leaked
             /\ \A i \in DOMAIN held : IsTemp(i) /\ i # Len(held) => held[i].reg # Top.reg
  BY <1>1, <1>4, HeldFacts DEF DeallocateRegs, IInv, Marked, Exclusive, IsTemp, Top
<1>5. Marked'
  BY <1>1, <1>4, HeldFacts DEF IInv, Marked, IsTemp, TypeOK
<1>6. Exclusive'
  BY <1>1, HeldFacts DEF IInv, Exclusive, IsTemp, TypeOK
<1>. QED
  BY <1>2, <1>3, <1>5, <1>6 DEF IInv

LEMMA EndAssignmentInvariant == IInv /\ EndAssignment => IInv'
<1>. SUFFICES ASSUME IInv, EndAssignment PROVE IInv'
  OBVIOUS
<1>1. /\ Top.kind = "temp" /\ held' = Front(held) /\ held # << >>
      /\ leaked' = IF ample THEN leaked \cup {Top.reg} ELSE {}
      /\ UNCHANGED <<phase, busy, used, spilled, ample>>
  BY DEF EndAssignment, Pop, allocator, IInv, ReturnHeld
<1>2. ASSUME ample
      PROVE  /\ Top.reg \in busy \cap TempRegs
             /\ \A i \in DOMAIN held : IsTemp(i) /\ i # Len(held) => held[i].reg # Top.reg
  BY <1>1, <1>2, HeldFacts, RegisterFacts
  DEF IInv, TypeOK, Marked, Exclusive, IsTemp, Top, Handle
<1>3. TypeOK'
  BY <1>1, <1>2, HeldFacts, RegisterFacts DEF IInv, TypeOK
<1>4. ReturnHeld'
  BY <1>1, HeldFacts DEF IInv, ReturnHeld, TypeOK, Top
<1>5. Marked'
  BY <1>1, <1>2, HeldFacts DEF IInv, Marked, IsTemp, TypeOK
<1>6. Exclusive'
  BY <1>1, <1>2, HeldFacts DEF IInv, Exclusive, IsTemp, TypeOK
<1>. QED
  BY <1>3, <1>4, <1>5, <1>6 DEF IInv

LEMMA AbortInvariant == IInv /\ Abort => IInv'
BY DEF Abort, IInv, TypeOK, ReturnHeld, Marked, Exclusive, IsTemp

LEMMA BeginFunctionInvariant ==
  ASSUME IInv, NEW b \in Bank, NEW n \in [Bank -> 0..MaxParams], BeginFunction(b, n)
  PROVE  IInv'
<1>. DEFINE h == [kind |-> "ret", bank |-> b, reg |-> ReturnReg(b), spoiled |-> FALSE]
            params == UNION {ToSet(SubSeq(Args[c], 1, n[c])) : c \in Bank}
<1>1. ReturnReg(b) \in ArgRegs /\ ReturnReg(b) \in Reg
  BY RegisterFacts DEF ReturnReg
<1>2. h \in Handle
  BY <1>1 DEF Handle, Kinds
<1>3. /\ held' = <<h>> /\ phase' = "function" /\ leaked' = {}
      /\ ample' = (spilled' = {}) /\ spilled' = spilled \ params
      /\ busy' \subseteq Reserved \cup Stray \cup {ReturnReg(b)}
      /\ \A i \in DOMAIN held' : held'[i].kind = "ret"
  BY DEF BeginFunction, Push
<1>4. TypeOK'
  BY <1>1, <1>2, <1>3, RegisterFacts DEF IInv, TypeOK
<1>5. ReturnHeld'
  BY <1>1, <1>3 DEF ReturnHeld
<1>6. ample' => spilled' = {}
  BY <1>3, Zenon
<1>. HIDE DEF h
<1>7. Exclusive' /\ \A i \in DOMAIN held' : ~IsTemp(i)'
  BY <1>3 DEF Exclusive, IsTemp
<1>8. Marked'
  BY <1>3, <1>6, <1>7 DEF Marked
<1>. QED
  BY <1>4, <1>5, <1>7, <1>8 DEF IInv

LEMMA EndFunctionInvariant == IInv /\ EndFunction => IInv'
<1>. SUFFICES ASSUME IInv, EndFunction PROVE IInv'
  OBVIOUS
<1>1. /\ held # << >> /\ Top.kind = "ret" /\ Top.reg \in ArgRegs
      /\ held' = << >> /\ DeallocateRegs({Top.reg})
      /\ phase' = "global" /\ UNCHANGED <<ample, leaked>>
  BY DEF EndFunction, Pop, IInv, ReturnHeld, TypeOK, Top, Front
<1>2. TypeOK'
  BY <1>1 DEF IInv, TypeOK, DeallocateRegs
<1>3. Marked'
  BY <1>1, RegisterFacts DEF IInv, Marked, DeallocateRegs, IsTemp
<1>. QED
  BY <1>1, <1>2, <1>3 DEF IInv, ReturnHeld, Exclusive, IsTemp

LEMMA LoadConstantInvariant ==
  ASSUME IInv, NEW b \in Bank, LoadConstant(b)
  PROVE  IInv'
<1>1. PICK r \in Reg :
        /\ spilled' = spilled \ {r}
        /\ IF r \in spilled THEN busy' = busy \cup {r} ELSE busy' = busy
        /\ UNCHANGED <<phase, held, ample, leaked>>
  BY DEF LoadConstant, Take
<1>. QED
  BY <1>1 DEF IInv, TypeOK, ReturnHeld, Marked, Exclusive, IsTemp

\* What a call does to the stack: it joins it, and everything stays but the
\* marks on what it may have freed.
LEMMA EnterCallFacts ==
  ASSUME IInv, EnterCall
  PROVE  /\ held' \in Seq(Handle)
         /\ Len(held) \in Nat /\ DOMAIN held = 1..Len(held)
         /\ DOMAIN held' = 1..Len(held) + 1 /\ Len(held') = Len(held) + 1
         /\ Len(held) + 1 <= MaxHeld
         /\ held'[Len(held) + 1].kind = "call"
         /\ \A i \in DOMAIN held' : i \in 1..Len(held) \/ i = Len(held) + 1
         /\ \A i \in 1..Len(held) :
              /\ held'[i].kind = held[i].kind
              /\ held'[i].reg = held[i].reg
              /\ held'[i].bank = held[i].bank
              /\ ~held'[i].spoiled =>
                   /\ ~held[i].spoiled
                   /\ held[i].kind # "call" /\ held[i].reg \notin ArgRegs
<1>. DEFINE h == [kind |-> "call", bank |-> CHOOSE b \in Bank : TRUE,
                  reg |-> NoReg, spoiled |-> FALSE]
            mark(i) == IF held[i].kind = "call" \/ held[i].reg \in ArgRegs
                       THEN [held[i] EXCEPT !.spoiled = TRUE] ELSE held[i]
            marked == [i \in DOMAIN held |-> mark(i)]
<1>1. h \in Handle /\ h.kind = "call"
  BY RegisterFacts DEF Handle, Kinds
<1>2. held' = Append(marked, h) /\ held \in Seq(Handle) /\ Len(held) < MaxHeld
  BY DEF EnterCall, IInv, TypeOK
<1>3. \A i \in DOMAIN held :
        /\ mark(i) \in Handle /\ mark(i).kind = held[i].kind
        /\ mark(i).reg = held[i].reg /\ mark(i).bank = held[i].bank
        /\ ~mark(i).spoiled =>
             /\ ~held[i].spoiled
             /\ held[i].kind # "call" /\ held[i].reg \notin ArgRegs
  <2>1. ASSUME NEW g \in Handle
        PROVE  /\ [g EXCEPT !.spoiled = TRUE] \in Handle
               /\ [g EXCEPT !.spoiled = TRUE].kind = g.kind
               /\ [g EXCEPT !.spoiled = TRUE].reg = g.reg
               /\ [g EXCEPT !.spoiled = TRUE].bank = g.bank
               /\ [g EXCEPT !.spoiled = TRUE].spoiled = TRUE
    BY DEF Handle
  <2>2. \A i \in DOMAIN held : held[i] \in Handle
    BY <1>2
  <2>. QED
    BY <2>1, <2>2, Zenon
<1>. HIDE DEF h, mark
<1>4. marked \in Seq(Handle) /\ Len(marked) = Len(held)
  BY <1>2, <1>3
<1>5. /\ held' \in Seq(Handle) /\ Len(held) \in Nat /\ DOMAIN held = 1..Len(held)
      /\ DOMAIN held' = 1..Len(held) + 1 /\ Len(held') = Len(held) + 1
      /\ Len(held) + 1 <= MaxHeld
      /\ held'[Len(held) + 1] = h
      /\ \A i \in 1..Len(held) : held'[i] = mark(i)
  BY <1>1, <1>2, <1>4, RegisterAssumption DEF RegisterAssumption
<1>. HIDE DEF marked
<1>6. \A i \in DOMAIN held' : i \in 1..Len(held) \/ i = Len(held) + 1
  BY <1>5
<1>. QED
  BY <1>1, <1>3, <1>5, <1>6

LEMMA BeginCallInvariant == IInv /\ BeginCall => IInv'
<1>. SUFFICES ASSUME IInv, BeginCall PROVE IInv'
  OBVIOUS
<1>1. /\ busy' = busy \ ((ArgRegs \cap busy) \ spilled)
      /\ spilled' = spilled \ (ArgRegs \cap busy)
      /\ UNCHANGED <<phase, ample, leaked>> /\ phase = "function"
  BY DEF BeginCall, EnterCall, DeallocateRegs
<1>2. /\ held' \in Seq(Handle)
      /\ Len(held) \in Nat /\ DOMAIN held = 1..Len(held)
      /\ DOMAIN held' = 1..Len(held) + 1
      /\ held'[Len(held) + 1].kind = "call"
      /\ \A i \in DOMAIN held' : i \in 1..Len(held) \/ i = Len(held) + 1
      /\ \A i \in 1..Len(held) :
           /\ held'[i].kind = held[i].kind
           /\ held'[i].reg = held[i].reg
           /\ held'[i].bank = held[i].bank
  BY EnterCallFacts DEF BeginCall
<1>3. TypeOK'
  BY <1>1, <1>2 DEF IInv, TypeOK
<1>4. ReturnHeld'
  <2>1. held # << >> /\ held[1].kind = "ret" /\ held' # << >>
    BY <1>1, <1>2 DEF IInv, ReturnHeld
  <2>2. 1 \in 1..Len(held)
    BY <1>2, <2>1 DEF IInv, TypeOK
  <2>. QED
    BY <1>2, <2>1, <2>2 DEF IInv, ReturnHeld
<1>5. Exclusive'
  BY <1>1, <1>2 DEF IInv, Exclusive, IsTemp
<1>6. Marked'
  <2>. SUFFICES ASSUME ample' PROVE Marked'
    BY DEF Marked
  <2>1. ample /\ spilled = {} /\ spilled' = {} /\ busy' = busy \ ArgRegs
    BY <1>1 DEF IInv, Marked
  <2>2. \A i \in DOMAIN held : IsTemp(i) => held[i].reg \in busy'
    <3>. SUFFICES ASSUME NEW i \in DOMAIN held, IsTemp(i)
                  PROVE  held[i].reg \in busy'
      OBVIOUS
    <3>1. held[i].bank \in Bank
      <4>1. held[i] \in Handle
        BY DEF IInv, TypeOK
      <4>. QED
        BY <4>1 DEF Handle
    <3>2. held[i].reg \in busy
      BY <2>1 DEF IInv, Marked
    <3>3. held[i].reg \in TempRegs
      <4>1. held[i].reg \in ToSet(Temps[held[i].bank])
        BY <2>1 DEF IInv, Exclusive
      <4>. QED
        BY <3>1, <4>1, RegisterFacts
    <3>. QED
      BY <2>1, <3>2, <3>3, RegisterFacts
  <2>3. leaked' \subseteq busy' \cap TempRegs
    BY <1>1, <2>1, RegisterFacts DEF IInv, Marked
  <2>. QED
    BY <1>2, <2>1, <2>2, <2>3 DEF Marked, IsTemp
<1>. QED
  BY <1>3, <1>4, <1>5, <1>6 DEF IInv

LEMMA PassArgumentInvariant ==
  ASSUME IInv, NEW b \in Bank, PassArgument(b)
  PROVE  IInv'
<1>1. PICK r \in Reg \cup {NoReg} :
        /\ AllocateArgReg(b, r)
        /\ Push([kind |-> "arg", bank |-> b, reg |-> r, spoiled |-> FALSE])
        /\ UNCHANGED <<phase, ample, leaked>>
  BY DEF PassArgument
<1>. DEFINE h == [kind |-> "arg", bank |-> b, reg |-> r, spoiled |-> FALSE]
<1>2. h \in Handle /\ h.kind = "arg"
  BY DEF Handle, Kinds
<1>3. /\ held' \in Seq(Handle)
      /\ DOMAIN held' = DOMAIN held \cup {Len(held) + 1}
      /\ held'[Len(held) + 1] = h
      /\ \A i \in DOMAIN held : held'[i] = held[i]
  BY <1>1, <1>2 DEF Push, IInv, TypeOK
<1>4. busy \subseteq busy' /\ busy' \subseteq Reg /\ spilled' = spilled
  <2>1. CASE FirstFree(Args[b], r) /\ Take(r) /\ UNCHANGED spilled
    <3>1. r \in ToSet(Args[b])
      BY <2>1 DEF FirstFree, ToSet
    <3>. QED
      BY <2>1, <3>1, RegisterFacts DEF Take, IInv, TypeOK
  <2>2. CASE UNCHANGED allocator
    BY <2>2 DEF allocator, IInv, TypeOK
  <2>. QED
    BY <1>1, <2>1, <2>2 DEF AllocateArgReg
<1>. HIDE DEF h
<1>5. TypeOK' /\ ReturnHeld'
  BY <1>1, <1>2, <1>3, <1>4 DEF IInv, TypeOK, ReturnHeld
<1>6. Marked' /\ Exclusive'
  BY <1>1, <1>2, <1>3, <1>4 DEF IInv, Marked, Exclusive, IsTemp
<1>. QED
  BY <1>5, <1>6 DEF IInv

LEMMA EndCallInvariant == IInv /\ EndCall => IInv'
<1>. SUFFICES ASSUME IInv, EndCall PROVE IInv'
  OBVIOUS
<1>1. PICK c \in DOMAIN held : held[c].kind = "call" /\ held' = SubSeq(held, 1, c - 1)
  BY DEF EndCall, Passing
<1>2. phase = "function" /\ UNCHANGED <<phase, busy, used, spilled, ample, leaked>>
  BY DEF EndCall, allocator
<1>3. c # 1
  BY <1>1, <1>2 DEF IInv, ReturnHeld
<1>4. /\ held' \in Seq(Handle) /\ DOMAIN held' = 1..c-1 /\ 1 \in DOMAIN held'
      /\ DOMAIN held' \subseteq DOMAIN held
      /\ \A i \in DOMAIN held' : held'[i] = held[i]
  BY <1>1, <1>3 DEF IInv, TypeOK
<1>5. TypeOK' /\ ReturnHeld'
  BY <1>2, <1>4 DEF IInv, TypeOK, ReturnHeld
<1>6. Marked' /\ Exclusive'
  BY <1>2, <1>4 DEF IInv, Marked, Exclusive, IsTemp
<1>. QED
  BY <1>5, <1>6 DEF IInv

-----------------------------------------------------------------------------
(* The invariant is inductive; its parts are the theorems.                 *)

LEMMA NextInvariant == IInv /\ [Next]_vars => IInv'
<1>. SUFFICES ASSUME IInv, [Next]_vars PROVE IInv'
  OBVIOUS
<1>1. ASSUME NEW n \in [Bank -> 0..MaxParams], RejectParameters(n) PROVE IInv'
  BY <1>1, AbortInvariant DEF RejectParameters
<1>2. ASSUME NEW n \in [Bank -> 0..MaxParams], NEW b \in Bank, BeginFunction(b, n)
      PROVE IInv'
  BY <1>2, BeginFunctionInvariant
<1>3. CASE EndFunction
  BY <1>3, EndFunctionInvariant
<1>4. CASE Release
  BY <1>4, ReleaseInvariant
<1>5. CASE EndAssignment
  BY <1>5, EndAssignmentInvariant
<1>6. CASE BeginCall
  BY <1>6, BeginCallInvariant
<1>7. CASE EndCall
  BY <1>7, EndCallInvariant
<1>8. ASSUME NEW b \in Bank, Acquire(b) \/ AcquireBySpilling(b) PROVE IInv'
  BY <1>8, AcquireInvariant
<1>9. ASSUME NEW b \in Bank, FailToSpill(b) \/ FailToLoadConstant(b) PROVE IInv'
  BY <1>9, AbortInvariant DEF FailToSpill, FailToLoadConstant
<1>10. ASSUME NEW b \in Bank, LoadConstant(b) PROVE IInv'
  BY <1>10, LoadConstantInvariant
<1>11. ASSUME NEW b \in Bank, PassArgument(b) PROVE IInv'
  BY <1>11, PassArgumentInvariant
<1>12. CASE UNCHANGED vars
  BY <1>12 DEF vars, IInv, TypeOK, ReturnHeld, Marked, Exclusive, IsTemp
<1>. QED
  BY <1>1, <1>2, <1>3, <1>4, <1>5, <1>6, <1>7, <1>8, <1>9, <1>10, <1>11, <1>12
  DEF Next, Stopped

LEMMA Invariance == Spec => []IInv
BY InitInvariant, NextInvariant, PTL DEF Spec

\* The allocator's variables keep their types, for any register files.
THEOREM TypeCorrect == Spec => []TypeOK
<1>1. IInv => TypeOK
  BY DEF IInv
<1>. QED
  BY <1>1, Invariance, PTL

\* As long as the temporaries suffice, emitters that are active at once hold
\* different temporaries, for any register files and any nesting.
THEOREM ExclusiveLoans == Spec => []Exclusive
<1>1. IInv => Exclusive
  BY DEF IInv
<1>. QED
  BY <1>1, Invariance, PTL

-----------------------------------------------------------------------------
(***************************************************************************)
(* used_registers: it keeps step with the flags, no register is freed      *)
(* under another emitter, and reserved registers are spilled last.         *)
(***************************************************************************)

\* The registers of registers_default come before any other in the deque,
\* except for stray ones.
OldestFirst ==
  \A i, j \in DOMAIN used :
    i < j /\ used[j] \in Reserved => used[i] \in Reserved \cup Stray

Deque == used \in Seq(Reg) /\ DequeTracksFlags /\ OldestFirst

\* A register that was neither spilled nor freed under its holder is marked.
Counted ==
  \A i \in DOMAIN held : IsTemp(i) /\ ~held[i].spoiled => held[i].reg \in busy

\* Of two holders of one register the older counts on it only if the younger
\* got it from spill_register and the entry of spilled_registers that will
\* absorb the younger's release is still there; a third holder cannot come.
Absorbed ==
  \A i, j \in DOMAIN held :
    /\ i < j /\ IsTemp(i) /\ IsTemp(j)
    /\ held[i].reg = held[j].reg /\ ~held[i].spoiled
    => /\ held[j].spoiled
       /\ held[i].reg \in spilled /\ held[i].reg \notin ToSet(used)
       /\ \A k \in DOMAIN held : j < k /\ IsTemp(k) => held[k].reg # held[i].reg

\* A reserved register an emitter holds was spilled from the deque.
ReservedHeld ==
  \A i \in DOMAIN held :
    IsTemp(i) /\ held[i].reg \in Reserved => held[i].reg \notin ToSet(used)

Holders == Counted /\ Absorbed /\ ReservedHeld

DInv == IInv /\ Deque /\ Holders

-----------------------------------------------------------------------------
(* What the Context's operations do to the deque.                          *)

LEMMA TakeDeque ==
  ASSUME IInv, Deque, NEW r \in TempRegs \cup ArgRegs, r \notin busy, Take(r), ample' => ample
  PROVE  Deque' /\ ToSet(used') = ToSet(used) \cup {r}
<1>1. r \in Reg /\ r \notin Reserved
  BY RegisterFacts, RegisterAssumption DEF RegisterAssumption
<1>2. /\ used' \in Seq(Reg) /\ Len(used) \in Nat /\ DOMAIN used = 1..Len(used)
      /\ DOMAIN used' = 1..Len(used) + 1 /\ used'[Len(used) + 1] = r
      /\ \A i \in 1..Len(used) : used'[i] = used[i]
      /\ ToSet(used') = ToSet(used) \cup {r}
  <2>1. used' = Append(used, r) /\ used \in Seq(Reg)
    BY DEF Take, Deque
  <2>. QED
    BY <1>1, <2>1, AppendFacts
<1>3. \A i \in 1..Len(used) + 1 : i \in 1..Len(used) \/ i = Len(used) + 1
  BY <1>2
<1>4. \A i \in 1..Len(used) : used[i] # r
  BY <1>2 DEF Deque, DequeTracksFlags, ToSet
<1>5. IsInjective(used')
  BY <1>2, <1>3, <1>4 DEF Deque, DequeTracksFlags, IsInjective
<1>6. DequeTracksFlags'
  BY <1>2, <1>5 DEF Deque, DequeTracksFlags, Take
<1>7. OldestFirst'
  <2>. SUFFICES ASSUME NEW i \in 1..Len(used) + 1, NEW j \in 1..Len(used) + 1,
                       i < j, used'[j] \in Reserved
                PROVE  used'[i] \in Reserved \cup Stray
    BY <1>2 DEF OldestFirst
  <2>1. j \in 1..Len(used) /\ i \in 1..Len(used)
    BY <1>1, <1>2
  <2>. QED
    BY <1>2, <2>1 DEF Deque, OldestFirst
<1>. QED
  BY <1>2, <1>6, <1>7 DEF Deque

LEMMA DeallocateDeque ==
  ASSUME IInv, Deque, NEW R, DeallocateRegs(R), ample' => ample
  PROVE  Deque' /\ ToSet(used') = ToSet(used) \ (R \ spilled)
<1>. DEFINE freed == R \ spilled
<1>1. used' = Without(used, freed) /\ busy' = busy \ freed
  BY DEF DeallocateRegs
<1>. HIDE DEF freed
<1>2. Filtered(used', used, freed, Reg)
  BY <1>1, WithoutFiltered DEF Deque
<1>3. IsInjective(used')
  BY <1>1, WithoutInjective DEF Deque, DequeTracksFlags
<1>4. used' \in Seq(Reg) /\ ToSet(used') = ToSet(used) \ freed
  BY <1>2 DEF Filtered
<1>5. DequeTracksFlags'
  BY <1>1, <1>3, <1>4 DEF Deque, DequeTracksFlags
<1>6. OldestFirst'
  <2>. SUFFICES ASSUME NEW i \in DOMAIN used', NEW j \in DOMAIN used',
                       i < j, used'[j] \in Reserved
                PROVE  used'[i] \in Reserved \cup Stray
    BY DEF OldestFirst
  <2>1. PICK k \in DOMAIN used, l \in DOMAIN used :
          k < l /\ used'[i] = used[k] /\ used'[j] = used[l]
    BY <1>2 DEF Filtered
  <2>. QED
    BY <2>1 DEF Deque, OldestFirst
<1>. QED
  BY <1>4, <1>5, <1>6 DEF Deque, freed

LEMMA SpillDeque ==
  ASSUME IInv, Deque, NEW b \in Bank, NEW r, SpillRegister(b, r)
  PROVE  Deque' /\ r \in ToSet(used) /\ ToSet(used') = ToSet(used) \ {r}
<1>1. /\ used # << >> /\ r = Last(used) /\ used' = Front(used)
      /\ busy' = busy /\ ample' = FALSE /\ used \in Seq(Reg) /\ IsInjective(used)
  BY DEF SpillRegister, Deque, DequeTracksFlags
<1>2. /\ used' \in Seq(Reg) /\ DOMAIN used' = 1..Len(used) - 1
      /\ \A i \in 1..Len(used) - 1 : used'[i] = used[i] /\ i \in DOMAIN used
      /\ r \in ToSet(used) /\ ToSet(used') = ToSet(used) \ {r}
  BY <1>1, FrontFacts
<1>3. IsInjective(used')
  BY <1>1, <1>2 DEF IsInjective
<1>4. DequeTracksFlags'
  BY <1>1, <1>2, <1>3 DEF Deque, DequeTracksFlags
<1>5. OldestFirst'
  BY <1>2 DEF Deque, OldestFirst
<1>. QED
  BY <1>2, <1>4, <1>5 DEF Deque

\* initalize_regs and the parameters' deallocation.
LEMMA BeginFunctionDeque ==
  ASSUME IInv, NEW b \in Bank, NEW n \in [Bank -> 0..MaxParams], BeginFunction(b, n)
  PROVE  Deque'
<1>. DEFINE params == (UNION {ToSet(SubSeq(Args[c], 1, n[c])) : c \in Bank}) \ spilled
<1>0. PICK junk \in SUBSET Stray :
        \E ints \in SetToSeqs(Reserved), floats \in SetToSeqs(junk) :
          /\ busy' = ((Reserved \cup junk) \ params) \cup {ReturnReg(b)}
          /\ used' = Append(Without(ints \o floats, params), ReturnReg(b))
  BY Zenon DEF BeginFunction
<1>. HIDE DEF params
<1>. PICK ints \in SetToSeqs(Reserved), floats \in SetToSeqs(junk) :
       /\ busy' = ((Reserved \cup junk) \ params) \cup {ReturnReg(b)}
       /\ used' = Append(Without(ints \o floats, params), ReturnReg(b))
  BY <1>0, Zenon
<1>1. ReturnReg(b) \in ArgRegs /\ ReturnReg(b) \notin Reserved \cup Stray
  BY RegisterFacts, RegisterAssumption DEF RegisterAssumption, ReturnReg
<1>2. IsFiniteSet(Reserved) /\ IsFiniteSet(junk) /\ Reserved \cap junk = {}
      /\ Reserved \subseteq Reg /\ junk \subseteq Reg
  BY RegisterFacts, RegisterAssumption, FS_Subset DEF RegisterAssumption
<1>3. /\ ints \in Seq(Reg) /\ IsInjective(ints) /\ ToSet(ints) = Reserved
      /\ floats \in Seq(Reg) /\ IsInjective(floats) /\ ToSet(floats) = junk
  <2>1. ints \in Seq(Reserved) /\ IsInjective(ints) /\ ToSet(ints) = Reserved
    BY <1>2, SetToSeqsLists
  <2>2. floats \in Seq(junk) /\ IsInjective(floats) /\ ToSet(floats) = junk
    BY <1>2, SetToSeqsLists
  <2>. QED
    BY <1>2, <2>1, <2>2
<1>. DEFINE all  == ints \o floats
            rest == Without(all, params)
<1>4. /\ all \in Seq(Reg) /\ DOMAIN all = 1..Len(ints) + Len(floats)
      /\ \A i \in 1..Len(ints) : all[i] \in Reserved
      /\ \A i \in 1..Len(ints) + Len(floats) : i > Len(ints) => all[i] \in junk
      /\ IsInjective(all) /\ ToSet(all) = Reserved \cup junk
  BY <1>2, <1>3, ConcatLists
<1>. HIDE DEF all
<1>5. Filtered(rest, all, params, Reg) /\ IsInjective(rest)
  BY <1>4, WithoutFiltered, WithoutInjective
<1>. HIDE DEF rest
<1>6. rest \in Seq(Reg) /\ ToSet(rest) = (Reserved \cup junk) \ params
  BY <1>4, <1>5 DEF Filtered
<1>7. used' = Append(rest, ReturnReg(b)) /\ ReturnReg(b) \in Reg
  BY <1>1, RegisterFacts DEF rest, all
<1>8. /\ used' \in Seq(Reg) /\ Len(rest) \in Nat /\ DOMAIN rest = 1..Len(rest)
      /\ DOMAIN used' = 1..Len(rest) + 1 /\ used'[Len(rest) + 1] = ReturnReg(b)
      /\ \A i \in 1..Len(rest) : used'[i] = rest[i]
      /\ ToSet(used') = ToSet(rest) \cup {ReturnReg(b)}
  BY <1>6, <1>7, AppendFacts
<1>9. \A i \in 1..Len(rest) : rest[i] \in Reserved \cup Stray
  BY <1>6, <1>8 DEF ToSet
<1>10. \A i \in 1..Len(rest) + 1 : i \in 1..Len(rest) \/ i = Len(rest) + 1
  BY <1>8
<1>11. IsInjective(used')
  BY <1>1, <1>5, <1>8, <1>9, <1>10 DEF IsInjective
<1>12. DequeTracksFlags'
  BY <1>6, <1>8, <1>11 DEF DequeTracksFlags
<1>13. OldestFirst'
  BY <1>8, <1>9, <1>10, <1>1 DEF OldestFirst
<1>. QED
  BY <1>8, <1>12, <1>13 DEF Deque

-----------------------------------------------------------------------------
(* What they do to those who hold registers.                               *)

\* Emitters that are active may end without touching the allocator.
LEMMA ShrinkHolders ==
  ASSUME Holders, UNCHANGED allocator, DOMAIN held' \subseteq DOMAIN held,
         \A i \in DOMAIN held' : held'[i] = held[i]
  PROVE  Holders'
<1>1. UNCHANGED <<busy, used, spilled>>
  BY DEF allocator
<1>2. Counted'
  BY <1>1 DEF Holders, Counted, IsTemp
<1>3. Absorbed'
  BY <1>1 DEF Holders, Absorbed, IsTemp
<1>4. ReservedHeld'
  BY <1>1 DEF Holders, ReservedHeld, IsTemp
<1>. QED
  BY <1>2, <1>3, <1>4 DEF Holders

LEMMA PushFacts ==
  ASSUME IInv, NEW h \in Handle, Push(h)
  PROVE  /\ Len(held) \in Nat /\ DOMAIN held = 1..Len(held)
         /\ DOMAIN held' = 1..Len(held) + 1
         /\ held'[Len(held) + 1] = h
         /\ \A i \in 1..Len(held) : held'[i] = held[i]
         /\ \A i \in DOMAIN held' : i \in 1..Len(held) \/ i = Len(held) + 1
BY DEF Push, IInv, TypeOK

LEMMA AcquireHolders ==
  ASSUME DInv, NEW b \in Bank, Acquire(b)
  PROVE  Deque' /\ Holders'
<1>. PICK r \in Reg :
       /\ AllocateTemp(b, r) \/ AllocateSpareArg(b, r)
       /\ Push([kind |-> "temp", bank |-> b, reg |-> r, spoiled |-> FALSE])
  BY DEF Acquire
<1>. DEFINE h == [kind |-> "temp", bank |-> b, reg |-> r, spoiled |-> FALSE]
            n == Len(held)
<1>1. /\ n \in Nat /\ DOMAIN held = 1..n /\ DOMAIN held' = 1..n + 1
      /\ held'[n + 1] = h /\ \A i \in 1..n : held'[i] = held[i]
      /\ \A i \in DOMAIN held' : i \in 1..n \/ i = n + 1
  <2>1. h \in Handle
    BY DEF Handle, Kinds
  <2>2. Push(h) /\ IInv
    BY DEF DInv
  <2>. HIDE DEF h
  <2>. QED
    BY <2>1, <2>2, PushFacts
<1>2. /\ r \in TempRegs \cup ArgRegs /\ r \notin busy /\ Take(r)
      /\ UNCHANGED spilled
      /\ ample' => ample
  <2>1. CASE AllocateTemp(b, r)
    <3>1. r \in ToSet(Temps[b])
      BY <2>1 DEF AllocateTemp, FirstFree, ToSet
    <3>. QED
      BY <2>1, <3>1, RegisterFacts DEF AllocateTemp, FirstFree
  <2>2. CASE AllocateSpareArg(b, r)
    <3>1. r \in ArgRegs
      <4>1. Args[b] \in Seq(ArgRegs) /\ Args[b] # << >>
        BY RegisterFacts
      <4>2. PICK i \in DOMAIN Tail(Args[b]) : r = Tail(Args[b])[i]
        BY <2>2 DEF AllocateSpareArg, FirstFree
      <4>. QED
        BY <4>1, <4>2
    <3>. QED
      BY <2>2, <3>1 DEF AllocateSpareArg, FirstFree
  <2>. QED
    BY <2>1, <2>2
<1>3. Deque' /\ ToSet(used') = ToSet(used) \cup {r} /\ busy' = busy \cup {r}
  <2>1. IInv /\ Deque
    BY DEF DInv
  <2>2. Deque' /\ ToSet(used') = ToSet(used) \cup {r}
    BY <1>2, <2>1, TakeDeque, Zenon
  <2>. QED
    BY <1>2, <2>2 DEF Take
<1>4. r \notin Reserved
  BY <1>2, RegisterAssumption DEF RegisterAssumption
<1>5. h.kind = "temp" /\ h.reg = r /\ h.spoiled = FALSE
  OBVIOUS
<1>. HIDE DEF h, n
<1>6. Counted'
  BY <1>1, <1>3, <1>5 DEF DInv, Holders, Counted, IsTemp
<1>7. ASSUME NEW i \in 1..n, IsTemp(i), ~held[i].spoiled
      PROVE  held[i].reg # r
  BY <1>1, <1>2, <1>7 DEF DInv, Holders, Counted
<1>8. Absorbed'
  <2>. SUFFICES ASSUME NEW i \in DOMAIN held', NEW j \in DOMAIN held', i < j,
                       IsTemp(i)', IsTemp(j)', held'[i].reg = held'[j].reg, ~held'[i].spoiled
                PROVE  /\ held'[j].spoiled
                       /\ held'[i].reg \in spilled' /\ held'[i].reg \notin ToSet(used')
                       /\ \A k \in DOMAIN held' : j < k /\ IsTemp(k)' => held'[k].reg # held'[i].reg
    BY Zenon DEF Absorbed
  <2>1. i \in 1..n /\ held'[i] = held[i] /\ held[i].reg # r /\ IsTemp(i)
    BY <1>1, <1>7 DEF IsTemp
  <2>2. j \in 1..n /\ held'[j] = held[j] /\ IsTemp(j)
    BY <1>1, <1>5, <2>1 DEF IsTemp
  <2>3. /\ held[j].spoiled
        /\ held[i].reg \in spilled /\ held[i].reg \notin ToSet(used)
        /\ \A k \in DOMAIN held : j < k /\ IsTemp(k) => held[k].reg # held[i].reg
    BY <1>1, <2>1, <2>2 DEF DInv, Holders, Absorbed
  <2>4. \A k \in DOMAIN held' : j < k /\ IsTemp(k)' => held'[k].reg # held'[i].reg
    BY <1>1, <1>5, <2>1, <2>3 DEF IsTemp
  <2>5. held[i].reg \in spilled' /\ held[i].reg \notin ToSet(used')
    BY <1>2, <1>3, <2>1, <2>3
  <2>. QED
    BY <2>1, <2>2, <2>3, <2>4, <2>5, Zenon
<1>9. ReservedHeld'
  BY <1>1, <1>3, <1>4, <1>5 DEF DInv, Holders, ReservedHeld, IsTemp
<1>. QED
  BY <1>3, <1>6, <1>8, <1>9 DEF Holders

LEMMA SpillHolders ==
  ASSUME DInv, NEW b \in Bank, AcquireBySpilling(b)
  PROVE  Deque' /\ Holders'
<1>. PICK r \in Reg :
       /\ SpillRegister(b, r)
       /\ Push([kind |-> "temp", bank |-> b, reg |-> r, spoiled |-> TRUE])
  BY DEF AcquireBySpilling
<1>. DEFINE h == [kind |-> "temp", bank |-> b, reg |-> r, spoiled |-> TRUE]
            n == Len(held)
<1>1. /\ n \in Nat /\ DOMAIN held = 1..n /\ DOMAIN held' = 1..n + 1
      /\ held'[n + 1] = h /\ \A i \in 1..n : held'[i] = held[i]
      /\ \A i \in DOMAIN held' : i \in 1..n \/ i = n + 1
  <2>1. h \in Handle
    BY DEF Handle, Kinds
  <2>2. Push(h) /\ IInv
    BY DEF DInv
  <2>. HIDE DEF h
  <2>. QED
    BY <2>1, <2>2, PushFacts
<1>2. /\ Deque' /\ r \in ToSet(used) /\ ToSet(used') = ToSet(used) \ {r}
      /\ busy' = busy /\ spilled' = spilled \cup {r}
  <2>1. Deque' /\ r \in ToSet(used) /\ ToSet(used') = ToSet(used) \ {r}
    BY SpillDeque DEF DInv
  <2>. QED
    BY <2>1 DEF SpillRegister
<1>3. h.kind = "temp" /\ h.reg = r /\ h.spoiled = TRUE
  OBVIOUS
<1>. HIDE DEF h, n
<1>4. Counted'
  BY <1>1, <1>2, <1>3 DEF DInv, Holders, Counted, IsTemp
<1>5. Absorbed'
  <2>. SUFFICES ASSUME NEW i \in DOMAIN held', NEW j \in DOMAIN held', i < j,
                       IsTemp(i)', IsTemp(j)', held'[i].reg = held'[j].reg, ~held'[i].spoiled
                PROVE  /\ held'[j].spoiled
                       /\ held'[i].reg \in spilled' /\ held'[i].reg \notin ToSet(used')
                       /\ \A k \in DOMAIN held' : j < k /\ IsTemp(k)' => held'[k].reg # held'[i].reg
    BY Zenon DEF Absorbed
  <2>1. i \in 1..n /\ held'[i] = held[i] /\ IsTemp(i)
    BY <1>1, <1>3 DEF IsTemp
  <2>2. CASE j \in 1..n
    <3>1. held'[j] = held[j] /\ IsTemp(j)
      BY <1>1, <2>2 DEF IsTemp
    <3>2. /\ held[j].spoiled
          /\ held[i].reg \in spilled /\ held[i].reg \notin ToSet(used)
          /\ \A k \in DOMAIN held : j < k /\ IsTemp(k) => held[k].reg # held[i].reg
      BY <1>1, <2>1, <2>2, <3>1 DEF DInv, Holders, Absorbed
    <3>3. \A k \in DOMAIN held' : j < k /\ IsTemp(k)' => held'[k].reg # held'[i].reg
      BY <1>1, <1>2, <1>3, <2>1, <3>2 DEF IsTemp
    <3>. QED
      BY <1>2, <2>1, <3>1, <3>2, <3>3
  <2>3. CASE j = n + 1
    BY <1>1, <1>2, <1>3, <2>1, <2>3
  <2>. QED
    BY <1>1, <2>2, <2>3
<1>6. ReservedHeld'
  BY <1>1, <1>2, <1>3 DEF DInv, Holders, ReservedHeld, IsTemp
<1>. QED
  BY <1>2, <1>4, <1>5, <1>6 DEF Holders

LEMMA ReleaseHolders == DInv /\ Release => Deque' /\ Holders'
<1>. SUFFICES ASSUME DInv, Release PROVE Deque' /\ Holders'
  OBVIOUS
<1>. DEFINE n == Len(held)
            r == held[n].reg
<1>1. /\ held # << >> /\ IsTemp(n) /\ n \in DOMAIN held /\ DOMAIN held = 1..n /\ n \in Nat
      /\ DOMAIN held' = 1..n - 1 /\ \A i \in DOMAIN held' : held'[i] = held[i] /\ i \in 1..n /\ i < n
      /\ UNCHANGED ample
  BY HeldFacts DEF DInv, IInv, TypeOK, Release, Pop, Top, IsTemp
<1>2. /\ spilled' = spilled \ {r} /\ busy' = busy \ ({r} \ spilled)
      /\ Deque' /\ ToSet(used') = ToSet(used) \ ({r} \ spilled)
  <2>1. DeallocateRegs({r})
    BY DEF Release, Top
  <2>2. Deque' /\ ToSet(used') = ToSet(used) \ ({r} \ spilled)
    BY <1>1, <2>1, DeallocateDeque DEF DInv
  <2>. QED
    BY <2>1, <2>2 DEF DeallocateRegs
<1>. HIDE DEF n
<1>3. ASSUME NEW i \in 1..n, i < n, IsTemp(i), ~held[i].spoiled, held[i].reg = r
      PROVE  r \in spilled
  BY <1>1, <1>3 DEF DInv, Holders, Absorbed
<1>4. ASSUME NEW i \in 1..n, NEW j \in 1..n, i < j, j < n, IsTemp(i), IsTemp(j),
             ~held[i].spoiled, held[i].reg = held[j].reg
      PROVE  held[i].reg # r
  BY <1>1, <1>4 DEF DInv, Holders, Absorbed
<1>. HIDE DEF r
<1>5. Counted'
  <2>. SUFFICES ASSUME NEW i \in DOMAIN held', IsTemp(i)', ~held'[i].spoiled
                PROVE  held'[i].reg \in busy'
    BY DEF Counted
  <2>1. i \in 1..n /\ i < n /\ held'[i] = held[i] /\ IsTemp(i)
    BY <1>1 DEF IsTemp
  <2>2. held[i].reg \in busy
    BY <1>1, <2>1 DEF DInv, Holders, Counted
  <2>. QED
    BY <1>2, <1>3, <2>1, <2>2
<1>6. Absorbed'
  <2>. SUFFICES ASSUME NEW i \in DOMAIN held', NEW j \in DOMAIN held', i < j,
                       IsTemp(i)', IsTemp(j)', held'[i].reg = held'[j].reg, ~held'[i].spoiled
                PROVE  /\ held'[j].spoiled
                       /\ held'[i].reg \in spilled' /\ held'[i].reg \notin ToSet(used')
                       /\ \A k \in DOMAIN held' : j < k /\ IsTemp(k)' => held'[k].reg # held'[i].reg
    BY Zenon DEF Absorbed
  <2>1. /\ i \in 1..n /\ j \in 1..n /\ j < n /\ held'[i] = held[i] /\ held'[j] = held[j]
        /\ IsTemp(i) /\ IsTemp(j)
    BY <1>1 DEF IsTemp
  <2>2. /\ held[j].spoiled
        /\ held[i].reg \in spilled /\ held[i].reg \notin ToSet(used)
        /\ \A k \in DOMAIN held : j < k /\ IsTemp(k) => held[k].reg # held[i].reg
    BY <1>1, <2>1 DEF DInv, Holders, Absorbed
  <2>3. held[i].reg # r
    BY <1>4, <2>1
  <2>4. \A k \in DOMAIN held' : j < k /\ IsTemp(k)' => held'[k].reg # held'[i].reg
    BY <1>1, <2>1, <2>2 DEF IsTemp
  <2>. QED
    BY <1>2, <2>1, <2>2, <2>3, <2>4
<1>7. ReservedHeld'
  BY <1>1, <1>2 DEF DInv, Holders, ReservedHeld, IsTemp
<1>. QED
  BY <1>2, <1>5, <1>6, <1>7 DEF Holders

LEMMA EndAssignmentHolders == DInv /\ EndAssignment => Deque' /\ Holders'
<1>. SUFFICES ASSUME DInv, EndAssignment PROVE Deque' /\ Holders'
  OBVIOUS
<1>1. held # << >> /\ held' = Front(held) /\ UNCHANGED <<allocator, ample>>
  BY DEF EndAssignment, Pop, DInv, IInv, ReturnHeld
<1>2. DOMAIN held' \subseteq DOMAIN held /\ \A i \in DOMAIN held' : held'[i] = held[i]
  BY <1>1, HeldFacts DEF DInv, IInv, TypeOK
<1>3. Holders'
  BY <1>1, <1>2, ShrinkHolders DEF DInv
<1>. QED
  BY <1>1, <1>3 DEF DInv, Deque, DequeTracksFlags, OldestFirst, allocator

LEMMA EndCallFacts ==
  ASSUME IInv, EndCall
  PROVE  /\ DOMAIN held' \subseteq DOMAIN held /\ \A i \in DOMAIN held' : held'[i] = held[i]
         /\ UNCHANGED <<allocator, ample, leaked>>
         /\ \E c \in DOMAIN held : Passing(c) /\ DOMAIN held' = 1..c - 1
<1>1. PICK c \in DOMAIN held : Passing(c) /\ held' = SubSeq(held, 1, c - 1)
  BY DEF EndCall
<1>2. /\ DOMAIN held' = 1..c - 1 /\ DOMAIN held' \subseteq DOMAIN held
      /\ \A i \in DOMAIN held' : held'[i] = held[i]
  BY <1>1 DEF IInv, TypeOK
<1>. QED
  BY <1>1, <1>2 DEF EndCall

LEMMA EndCallHolders == DInv /\ EndCall => Deque' /\ Holders'
<1>. SUFFICES ASSUME DInv, EndCall PROVE Deque' /\ Holders'
  OBVIOUS
<1>1. /\ DOMAIN held' \subseteq DOMAIN held /\ \A i \in DOMAIN held' : held'[i] = held[i]
      /\ UNCHANGED <<allocator, ample>>
  BY EndCallFacts DEF DInv
<1>2. Holders'
  BY <1>1, ShrinkHolders DEF DInv
<1>. QED
  BY <1>1, <1>2 DEF DInv, Deque, DequeTracksFlags, OldestFirst, allocator

\* A free register is taken for good, or only an entry of spilled_registers
\* that nobody relies on is dropped.
LEMMA TakeHolders ==
  ASSUME IInv, Deque, Holders, UNCHANGED held, NEW r, r \notin busy, r \notin Reserved,
         spilled \ {r} \subseteq spilled', busy \subseteq busy',
         ToSet(used') \subseteq ToSet(used) \cup {r}
  PROVE  Holders'
<1>1. \A i \in DOMAIN held : IsTemp(i) /\ ~held[i].spoiled => held[i].reg # r
  BY DEF Holders, Counted
<1>2. Counted'
  BY DEF Holders, Counted, IsTemp
<1>3. Absorbed'
  <2>. SUFFICES ASSUME NEW i \in DOMAIN held, NEW j \in DOMAIN held, i < j,
                       IsTemp(i), IsTemp(j), held[i].reg = held[j].reg, ~held[i].spoiled
                PROVE  /\ held[j].spoiled
                       /\ held[i].reg \in spilled' /\ held[i].reg \notin ToSet(used')
                       /\ \A k \in DOMAIN held : j < k /\ IsTemp(k) => held[k].reg # held[i].reg
    BY DEF Absorbed, IsTemp
  <2>1. /\ held[j].spoiled
        /\ held[i].reg \in spilled /\ held[i].reg \notin ToSet(used)
        /\ \A k \in DOMAIN held : j < k /\ IsTemp(k) => held[k].reg # held[i].reg
    BY DEF Holders, Absorbed
  <2>2. held[i].reg # r
    BY <1>1
  <2>. QED
    BY <2>1, <2>2
<1>4. ReservedHeld'
  BY DEF Holders, ReservedHeld, IsTemp
<1>. QED
  BY <1>2, <1>3, <1>4 DEF Holders

LEMMA FreeArg ==
  ASSUME NEW b \in Bank, NEW r, FirstFree(Args[b], r)
  PROVE  r \in ArgRegs /\ r \notin busy /\ r \notin Reserved
<1>1. r \in ToSet(Args[b])
  BY DEF FirstFree, ToSet
<1>2. r \in ArgRegs
  BY <1>1, RegisterFacts
<1>. QED
  BY <1>2, RegisterAssumption DEF RegisterAssumption, FirstFree

LEMMA LoadConstantHolders ==
  ASSUME DInv, NEW b \in Bank, LoadConstant(b)
  PROVE  Deque' /\ Holders'
<1>1. PICK r \in Reg :
        /\ FirstFree(Args[b], r) /\ spilled' = spilled \ {r}
        /\ IF r \in spilled THEN Take(r) ELSE UNCHANGED <<busy, used>>
        /\ UNCHANGED <<held, ample>>
  BY DEF LoadConstant
<1>2. r \in ArgRegs /\ r \notin busy /\ r \notin Reserved
  BY <1>1, FreeArg
<1>3. IInv /\ Deque /\ Holders
  BY DEF DInv
<1>4. CASE r \in spilled
  <2>1. Take(r)
    BY <1>1, <1>4
  <2>2. Deque' /\ ToSet(used') = ToSet(used) \cup {r}
    BY <1>1, <1>2, <1>3, <2>1, TakeDeque
  <2>3. Holders'
    BY <1>1, <1>2, <1>3, <2>1, <2>2, TakeHolders DEF Take
  <2>. QED
    BY <2>2, <2>3
<1>5. CASE r \notin spilled
  <2>1. UNCHANGED <<busy, used>>
    BY <1>1, <1>5
  <2>2. Holders'
    BY <1>1, <1>2, <1>3, <2>1, TakeHolders
  <2>. QED
    BY <1>1, <1>3, <2>1, <2>2 DEF Deque, DequeTracksFlags, OldestFirst
<1>. QED
  BY <1>4, <1>5

LEMMA PassArgumentHolders ==
  ASSUME DInv, NEW b \in Bank, PassArgument(b)
  PROVE  Deque' /\ Holders'
<1>. PICK r \in Reg \cup {NoReg} :
       /\ AllocateArgReg(b, r)
       /\ Push([kind |-> "arg", bank |-> b, reg |-> r, spoiled |-> FALSE])
       /\ UNCHANGED <<phase, ample, leaked>>
  BY DEF PassArgument
<1>. DEFINE h == [kind |-> "arg", bank |-> b, reg |-> r, spoiled |-> FALSE]
            n == Len(held)
<1>1. h \in Handle /\ h.kind = "arg"
  BY DEF Handle, Kinds
<1>2. IInv /\ Deque /\ Holders
  BY DEF DInv
<1>3. Push(h)
  OBVIOUS
<1>. HIDE DEF h
<1>4. /\ n \in Nat /\ DOMAIN held = 1..n /\ DOMAIN held' = 1..n + 1
      /\ held'[n + 1] = h /\ \A i \in 1..n : held'[i] = held[i]
      /\ \A i \in DOMAIN held' : i \in 1..n \/ i = n + 1
  BY <1>1, <1>2, <1>3, PushFacts
<1>. HIDE DEF n
<1>5. CASE UNCHANGED allocator
  <2>1. Deque'
    BY <1>2, <1>5 DEF Deque, DequeTracksFlags, OldestFirst, allocator
  <2>2. UNCHANGED <<busy, used, spilled>>
    BY <1>5 DEF allocator
  <2>3. Counted' /\ ReservedHeld'
    BY <1>1, <1>2, <1>4, <2>2 DEF Holders, Counted, ReservedHeld, IsTemp
  <2>4. Absorbed'
    BY <1>1, <1>2, <1>4, <2>2 DEF Holders, Absorbed, IsTemp
  <2>. QED
    BY <2>1, <2>3, <2>4 DEF Holders
<1>6. CASE FirstFree(Args[b], r) /\ Take(r) /\ UNCHANGED spilled
  <2>1. r \in ArgRegs /\ r \notin busy /\ r \notin Reserved
    BY <1>6, FreeArg
  <2>2. Deque' /\ ToSet(used') = ToSet(used) \cup {r} /\ busy' = busy \cup {r}
    <3>1. Deque' /\ ToSet(used') = ToSet(used) \cup {r}
      BY <1>2, <1>6, <2>1, TakeDeque
    <3>. QED
      BY <1>6, <3>1 DEF Take
  <2>3. \A i \in 1..n : IsTemp(i) /\ ~held[i].spoiled => held[i].reg # r
    BY <1>2, <1>4, <2>1 DEF Holders, Counted
  <2>4. Counted' /\ ReservedHeld'
    BY <1>1, <1>2, <1>4, <1>6, <2>1, <2>2 DEF Holders, Counted, ReservedHeld, IsTemp
  <2>5. Absorbed'
    <3>. SUFFICES ASSUME NEW i \in DOMAIN held', NEW j \in DOMAIN held', i < j,
                         IsTemp(i)', IsTemp(j)', held'[i].reg = held'[j].reg, ~held'[i].spoiled
                  PROVE  /\ held'[j].spoiled
                         /\ held'[i].reg \in spilled' /\ held'[i].reg \notin ToSet(used')
                         /\ \A k \in DOMAIN held' : j < k /\ IsTemp(k)' => held'[k].reg # held'[i].reg
      BY Zenon DEF Absorbed
    <3>1. /\ i \in 1..n /\ held'[i] = held[i] /\ IsTemp(i)
          /\ j \in 1..n /\ held'[j] = held[j] /\ IsTemp(j)
      BY <1>1, <1>4 DEF IsTemp
    <3>2. /\ held[j].spoiled
          /\ held[i].reg \in spilled /\ held[i].reg \notin ToSet(used)
          /\ \A k \in DOMAIN held : j < k /\ IsTemp(k) => held[k].reg # held[i].reg
      BY <1>2, <1>4, <3>1 DEF Holders, Absorbed
    <3>3. held[i].reg \in spilled' /\ held[i].reg \notin ToSet(used')
      BY <1>6, <2>2, <2>3, <3>1, <3>2
    <3>4. \A k \in DOMAIN held' : j < k /\ IsTemp(k)' => held'[k].reg # held'[i].reg
      BY <1>1, <1>4, <3>1, <3>2 DEF IsTemp
    <3>. QED
      BY <3>1, <3>2, <3>3, <3>4, Zenon
  <2>. QED
    BY <2>2, <2>4, <2>5 DEF Holders
<1>. QED
  BY <1>5, <1>6 DEF AllocateArgReg

LEMMA BeginCallHolders == DInv /\ BeginCall => Deque' /\ Holders'
<1>. SUFFICES ASSUME DInv, BeginCall PROVE Deque' /\ Holders'
  OBVIOUS
<1>. DEFINE R == ArgRegs \cap busy
<1>1. IInv /\ Deque /\ Holders /\ EnterCall /\ DeallocateRegs(R)
  BY DEF DInv, BeginCall
<1>. HIDE DEF R
<1>2. Deque' /\ ToSet(used') = ToSet(used) \ (R \ spilled)
  BY <1>1, DeallocateDeque DEF EnterCall
<1>3. spilled' = spilled \ R /\ busy' = busy \ (R \ spilled)
  BY <1>1 DEF DeallocateRegs
<1>4. /\ DOMAIN held = 1..Len(held)
      /\ held'[Len(held) + 1].kind = "call"
      /\ \A i \in DOMAIN held' : i \in 1..Len(held) \/ i = Len(held) + 1
      /\ \A i \in 1..Len(held) :
           /\ held'[i].kind = held[i].kind
           /\ held'[i].reg = held[i].reg
           /\ held'[i].bank = held[i].bank
           /\ ~held'[i].spoiled => ~held[i].spoiled /\ held[i].reg \notin ArgRegs
  BY <1>1, EnterCallFacts
<1>5. ASSUME NEW i \in DOMAIN held', IsTemp(i)'
      PROVE  /\ i \in DOMAIN held /\ IsTemp(i) /\ held'[i].reg = held[i].reg
             /\ ~held'[i].spoiled => ~held[i].spoiled /\ held[i].reg \notin R
  BY <1>4, <1>5 DEF IsTemp, R
<1>6. Counted'
  BY <1>1, <1>3, <1>5 DEF Holders, Counted
<1>7. Absorbed'
  <2>. SUFFICES ASSUME NEW i \in DOMAIN held', NEW j \in DOMAIN held', i < j,
                       IsTemp(i)', IsTemp(j)', held'[i].reg = held'[j].reg, ~held'[i].spoiled
                PROVE  /\ held'[j].spoiled
                       /\ held'[i].reg \in spilled' /\ held'[i].reg \notin ToSet(used')
                       /\ \A k \in DOMAIN held' : j < k /\ IsTemp(k)' => held'[k].reg # held'[i].reg
    BY Zenon DEF Absorbed
  <2>1. /\ i \in DOMAIN held /\ IsTemp(i) /\ held'[i].reg = held[i].reg
        /\ ~held[i].spoiled /\ held[i].reg \notin R
        /\ j \in DOMAIN held /\ IsTemp(j) /\ held'[j].reg = held[j].reg
    BY <1>5
  <2>2. /\ held[j].spoiled
        /\ held[i].reg \in spilled /\ held[i].reg \notin ToSet(used)
        /\ \A k \in DOMAIN held : j < k /\ IsTemp(k) => held[k].reg # held[i].reg
    BY <1>1, <2>1 DEF Holders, Absorbed
  <2>3. held'[j].spoiled
    <3>1. held[j] \in Handle /\ held'[j] \in Handle
      BY <1>1, <2>1, EnterCallFacts DEF IInv, TypeOK
    <3>2. ~held'[j].spoiled => ~held[j].spoiled
      BY <1>4, <2>1
    <3>. QED
      BY <2>2, <3>1, <3>2 DEF Handle
  <2>4. \A k \in DOMAIN held' : j < k /\ IsTemp(k)' => held'[k].reg # held'[i].reg
    BY <1>5, <2>1, <2>2
  <2>5. held'[i].reg \in spilled' /\ held'[i].reg \notin ToSet(used')
    BY <1>2, <1>3, <2>1, <2>2
  <2>. QED
    BY <2>3, <2>4, <2>5
<1>8. ReservedHeld'
  BY <1>1, <1>2, <1>5 DEF Holders, ReservedHeld
<1>. QED
  BY <1>2, <1>6, <1>7, <1>8 DEF Holders

\* Nobody holds a temporary.
LEMMA NoHolders ==
  ASSUME \A i \in DOMAIN held' : ~IsTemp(i)'
  PROVE  Holders'
BY DEF Holders, Counted, Absorbed, ReservedHeld

LEMMA AbortHolders == DInv /\ Abort => Deque' /\ Holders'
<1>. SUFFICES ASSUME DInv, Abort PROVE Deque' /\ Holders'
  OBVIOUS
<1>1. busy' = {} /\ used' = << >> /\ held' = << >>
  BY DEF Abort
<1>2. Deque'
  BY <1>1 DEF Deque, DequeTracksFlags, OldestFirst, IsInjective, ToSet
<1>3. Holders'
  BY <1>1, NoHolders
<1>. QED
  BY <1>2, <1>3

LEMMA EndFunctionHolders == DInv /\ EndFunction => Deque' /\ Holders'
<1>. SUFFICES ASSUME DInv, EndFunction PROVE Deque' /\ Holders'
  OBVIOUS
<1>1. held # << >> /\ Len(held) = 1 /\ DeallocateRegs({Top.reg}) /\ held' = Front(held)
      /\ UNCHANGED ample
  BY DEF EndFunction, Pop, DInv, IInv, ReturnHeld
<1>2. held' = << >>
  BY <1>1 DEF DInv, IInv, TypeOK, Front
<1>3. Deque'
  BY <1>1, DeallocateDeque DEF DInv
<1>4. Holders'
  BY <1>2, NoHolders
<1>. QED
  BY <1>3, <1>4

LEMMA BeginFunctionHolders ==
  ASSUME DInv, NEW b \in Bank, NEW n \in [Bank -> 0..MaxParams], BeginFunction(b, n)
  PROVE  Deque' /\ Holders'
<1>. DEFINE h == [kind |-> "ret", bank |-> b, reg |-> ReturnReg(b), spoiled |-> FALSE]
<1>1. held' = <<h>>
  BY DEF BeginFunction, Push
<1>2. Holders'
  BY <1>1, NoHolders DEF IsTemp
<1>. QED
  BY <1>2, BeginFunctionDeque DEF DInv

LEMMA InitHolders == Init => Deque /\ Holders
<1>. SUFFICES ASSUME Init PROVE Deque /\ Holders
  OBVIOUS
<1>1. /\ busy = Reserved /\ used \in SetToSeqs(Reserved) /\ held = << >>
  BY DEF Init
<1>2. used \in Seq(Reserved) /\ IsInjective(used) /\ ToSet(used) = Reserved
  BY <1>1, SetToSeqsLists, RegisterAssumption DEF RegisterAssumption
<1>3. used \in Seq(Reg) /\ \A i \in DOMAIN used : used[i] \in Reserved
  BY <1>2, RegisterFacts
<1>4. Deque
  BY <1>1, <1>2, <1>3 DEF Deque, DequeTracksFlags, OldestFirst
<1>5. Holders
  BY <1>1 DEF Holders, Counted, Absorbed, ReservedHeld
<1>. QED
  BY <1>4, <1>5

-----------------------------------------------------------------------------
(* The invariant is inductive; its parts are the theorems.                 *)

LEMMA NextHolders == DInv /\ [Next]_vars => Deque' /\ Holders'
<1>. SUFFICES ASSUME DInv, [Next]_vars PROVE Deque' /\ Holders'
  OBVIOUS
<1>1. ASSUME NEW n \in [Bank -> 0..MaxParams], RejectParameters(n) PROVE Deque' /\ Holders'
  BY <1>1, AbortHolders DEF RejectParameters
<1>2. ASSUME NEW n \in [Bank -> 0..MaxParams], NEW b \in Bank, BeginFunction(b, n)
      PROVE Deque' /\ Holders'
  BY <1>2, BeginFunctionHolders
<1>3. CASE EndFunction
  BY <1>3, EndFunctionHolders
<1>4. CASE Release
  BY <1>4, ReleaseHolders
<1>5. CASE EndAssignment
  BY <1>5, EndAssignmentHolders
<1>6. CASE BeginCall
  BY <1>6, BeginCallHolders
<1>7. CASE EndCall
  BY <1>7, EndCallHolders
<1>8. ASSUME NEW b \in Bank, Acquire(b) PROVE Deque' /\ Holders'
  BY <1>8, AcquireHolders
<1>9. ASSUME NEW b \in Bank, AcquireBySpilling(b) PROVE Deque' /\ Holders'
  BY <1>9, SpillHolders
<1>10. ASSUME NEW b \in Bank, FailToSpill(b) \/ FailToLoadConstant(b) PROVE Deque' /\ Holders'
  BY <1>10, AbortHolders DEF FailToSpill, FailToLoadConstant
<1>11. ASSUME NEW b \in Bank, LoadConstant(b) PROVE Deque' /\ Holders'
  BY <1>11, LoadConstantHolders
<1>12. ASSUME NEW b \in Bank, PassArgument(b) PROVE Deque' /\ Holders'
  BY <1>12, PassArgumentHolders
<1>13. CASE UNCHANGED vars
  BY <1>13 DEF vars, DInv, Deque, DequeTracksFlags, OldestFirst,
               Holders, Counted, Absorbed, ReservedHeld, IsTemp
<1>. QED
  BY <1>1, <1>2, <1>3, <1>4, <1>5, <1>6, <1>7, <1>8, <1>9, <1>10, <1>11, <1>12, <1>13
  DEF Next, Stopped

LEMMA DequeInvariance == Spec => []DInv
<1>1. Init => DInv
  BY InitInvariant, InitHolders DEF DInv
<1>2. DInv /\ [Next]_vars => DInv'
  BY NextInvariant, NextHolders DEF DInv
<1>. QED
  BY <1>1, <1>2, PTL DEF Spec

\* used_registers lists marked registers, each once, and misses only spilled
\* ones: for any register files, any nesting and any number of functions.
THEOREM DequeInStep == Spec => []DequeTracksFlags
<1>1. DInv => DequeTracksFlags
  BY DEF DInv, Deque
<1>. QED
  BY <1>1, DequeInvariance, PTL

\* deallocate_reg never frees a register another active emitter counts on:
\* sharing comes from spilling or from a call, whatever runs out.
THEOREM SharingAnnounced == Spec => []NoSilentSharing
<1>1. DInv => NoSilentSharing
  <2>. SUFFICES ASSUME DInv, NEW i \in DOMAIN held, NEW j \in DOMAIN held,
                       IsTemp(i), IsTemp(j), i # j, held[i].reg = held[j].reg
                PROVE  held[i].spoiled \/ held[j].spoiled
    BY DEF NoSilentSharing
  <2>1. i < j \/ j < i
    BY DEF DInv, IInv, TypeOK
  <2>. QED
    BY <2>1 DEF DInv, Holders, Absorbed
<1>. QED
  BY <1>1, DequeInvariance, PTL

\* The step of ReservedLast.
LastStep ==
  \A r \in Reserved :
    r \in ToSet(used) /\ r \notin ToSet(used') /\ phase' = phase
    => ToSet(used) \subseteq Reserved \cup Stray

LEMMA NextReservedLast == DInv /\ [Next]_vars => LastStep
<1>. SUFFICES ASSUME DInv, [Next]_vars, NEW r \in Reserved,
                     r \in ToSet(used), r \notin ToSet(used'), phase' = phase
              PROVE  ToSet(used) \subseteq Reserved \cup Stray
  BY DEF LastStep
<1>1. IInv /\ Deque /\ Holders
  BY DEF DInv
<1>2. ASSUME NEW n \in [Bank -> 0..MaxParams], RejectParameters(n) PROVE FALSE
  BY <1>2 DEF RejectParameters, Abort
<1>3. ASSUME NEW n \in [Bank -> 0..MaxParams], NEW b \in Bank, BeginFunction(b, n)
      PROVE FALSE
  BY <1>3 DEF BeginFunction
<1>4. CASE EndFunction
  BY <1>4 DEF EndFunction
<1>5. CASE Release
  <2>1. IsTemp(Len(held)) /\ Len(held) \in DOMAIN held /\ DeallocateRegs({held[Len(held)].reg})
        /\ UNCHANGED ample
    BY <1>1, <1>5, HeldFacts DEF Release, Top, IsTemp
  <2>2. ToSet(used') = ToSet(used) \ ({held[Len(held)].reg} \ spilled)
    BY <1>1, <2>1, DeallocateDeque
  <2>3. held[Len(held)].reg = r
    BY <2>2
  <2>. QED
    BY <1>1, <2>1, <2>3 DEF Holders, ReservedHeld
<1>6. CASE EndAssignment
  BY <1>6 DEF EndAssignment, allocator
<1>7. CASE BeginCall
  <2>1. ToSet(used') = ToSet(used) \ ((ArgRegs \cap busy) \ spilled)
    BY <1>1, <1>7, DeallocateDeque DEF BeginCall, EnterCall
  <2>. QED
    BY <2>1, RegisterAssumption DEF RegisterAssumption
<1>8. CASE EndCall
  BY <1>8 DEF EndCall, allocator
<1>9. ASSUME NEW b \in Bank, Acquire(b) PROVE FALSE
  <2>1. PICK q \in Reg : Take(q)
    BY <1>9 DEF Acquire, AllocateTemp, AllocateSpareArg
  <2>2. used' = Append(used, q) /\ used \in Seq(Reg)
    BY <1>1, <2>1 DEF Take, Deque
  <2>. QED
    BY <2>2, AppendFacts
<1>10. ASSUME NEW b \in Bank, AcquireBySpilling(b)
       PROVE  ToSet(used) \subseteq Reserved \cup Stray
  <2>1. PICK q \in Reg : SpillRegister(b, q)
    BY <1>10 DEF AcquireBySpilling
  <2>2. ToSet(used') = ToSet(used) \ {q}
    BY <1>1, <2>1, SpillDeque
  <2>3. r = q /\ q = Last(used) /\ used # << >> /\ used \in Seq(Reg)
    BY <1>1, <2>1, <2>2 DEF SpillRegister, Deque
  <2>4. Len(used) \in DOMAIN used /\ r = used[Len(used)] /\ DOMAIN used = 1..Len(used) /\ Len(used) \in Nat
    BY <2>3 DEF Last
  <2>5. ASSUME NEW i \in DOMAIN used PROVE used[i] \in Reserved \cup Stray
    <3>1. i < Len(used) \/ i = Len(used)
      BY <2>4
    <3>. QED
      BY <1>1, <2>4, <3>1 DEF Deque, OldestFirst
  <2>. QED
    BY <2>5 DEF ToSet
<1>11. ASSUME NEW b \in Bank, FailToSpill(b) \/ FailToLoadConstant(b) PROVE FALSE
  BY <1>11 DEF FailToSpill, FailToLoadConstant, Abort, Evaluating
<1>12. ASSUME NEW b \in Bank, LoadConstant(b) PROVE FALSE
  <2>1. PICK q \in Reg : Take(q) \/ UNCHANGED used
    BY <1>12 DEF LoadConstant
  <2>2. CASE Take(q)
    <3>1. used' = Append(used, q) /\ used \in Seq(Reg)
      BY <1>1, <2>2 DEF Take, Deque
    <3>. QED
      BY <3>1, AppendFacts
  <2>. QED
    BY <2>1, <2>2
<1>13. ASSUME NEW b \in Bank, PassArgument(b) PROVE FALSE
  <2>1. PICK q \in Reg \cup {NoReg} : Take(q) \/ UNCHANGED used
    BY <1>13 DEF PassArgument, AllocateArgReg, allocator
  <2>2. CASE Take(q)
    <3>1. used' = Append(used, q) /\ used \in Seq(Reg \cup {NoReg})
      BY <1>1, <2>2 DEF Take, Deque
    <3>. QED
      BY <3>1, AppendFacts
  <2>. QED
    BY <2>1, <2>2
<1>14. CASE UNCHANGED vars
  BY <1>14 DEF vars
<1>. QED
  BY <1>2, <1>3, <1>4, <1>5, <1>6, <1>7, <1>8, <1>9, <1>10, <1>11, <1>12, <1>13, <1>14
  DEF Next, Stopped

\* Nobody is handed the stack pointer or the frame pointer while the deque
\* has a register of the pools to spill.
THEOREM ReservedGoLast == Spec => ReservedLast
<1>1. DInv /\ [Next]_vars => [LastStep]_vars
  BY NextReservedLast
<1>2. Spec => [][LastStep]_vars
  BY <1>1, DequeInvariance, PTL DEF Spec
<1>. QED
  BY <1>2 DEF ReservedLast, LastStep

-----------------------------------------------------------------------------
(***************************************************************************)
(* The contract: the allocator keeps that of RegisterPool, only            *)
(* assignments lose registers, and arguments travel where the callee looks *)
(* for them.                                                               *)
(***************************************************************************)
TempsHeld == {held[i].reg : i \in {i \in DOMAIN held : IsTemp(i)}}

\* The arguments of file b among the handles c+1..i of a stack h.
CountArgs(h, c, i, b) == Cardinality({j \in c+1..i : h[j].kind = "arg" /\ h[j].bank = b})

\* The innermost call, if it is still to be trusted: its arguments have taken
\* the first registers of each file, and no others are marked.
ArgsCounted ==
  ample =>
    \A c \in DOMAIN held : held[c].kind = "call" /\ ~held[c].spoiled =>
      /\ \A j \in DOMAIN held : j > c => held[j].kind # "call"
      /\ \A b \in Bank : \A k \in DOMAIN Args[b] :
           Args[b][k] \in busy <=> k <= CountArgs(held, c, Len(held), b)

Bounded == Len(held) <= MaxHeld

Promise == Bounded /\ OnlyAssignmentsLeak /\ ArgsCounted /\ ArgumentsInPlace

CInv == IInv /\ Promise

-----------------------------------------------------------------------------
(* Counting arguments.                                                     *)

LEMMA CountNext ==
  ASSUME NEW h, NEW n \in Nat, NEW c \in 1..n, NEW b
  PROVE  /\ CountArgs(h, c, n, b) \in Nat
         /\ h[n+1].kind = "arg" /\ h[n+1].bank = b =>
              CountArgs(h, c, n + 1, b) = CountArgs(h, c, n, b) + 1
         /\ ~(h[n+1].kind = "arg" /\ h[n+1].bank = b) =>
              CountArgs(h, c, n + 1, b) = CountArgs(h, c, n, b)
<1>. DEFINE now  == {j \in c+1..n : h[j].kind = "arg" /\ h[j].bank = b}
            next == {j \in c+1..n+1 : h[j].kind = "arg" /\ h[j].bank = b}
<1>1. \A j \in c+1..n+1 : j \in c+1..n \/ j = n + 1
  OBVIOUS
<1>2. \A j \in c+1..n : j \in c+1..n+1 /\ j # n + 1
  OBVIOUS
<1>3. n + 1 \in c+1..n+1
  OBVIOUS
<1>4. IsFiniteSet(now) /\ Cardinality(now) \in Nat
  <2>1. IsFiniteSet(c+1..n)
    BY FS_Interval
  <2>2. now \in SUBSET (c+1..n)
    OBVIOUS
  <2>. HIDE DEF now
  <2>3. IsFiniteSet(now)
    BY <2>1, <2>2, FS_Subset
  <2>. QED
    BY <2>3, FS_CardinalityType
<1>5. ASSUME h[n+1].kind = "arg", h[n+1].bank = b
      PROVE  Cardinality(next) = Cardinality(now) + 1
  <2>1. next = now \cup {n + 1} /\ n + 1 \notin now
    BY <1>1, <1>2, <1>3, <1>5
  <2>. HIDE DEF now, next
  <2>. QED
    BY <1>4, <2>1, FS_AddElement
<1>6. ASSUME ~(h[n+1].kind = "arg" /\ h[n+1].bank = b)
      PROVE  next = now
  BY <1>1, <1>2, <1>3, <1>6
<1>. QED
  BY <1>4, <1>5, <1>6 DEF CountArgs

LEMMA CountSame ==
  ASSUME NEW h, NEW g, NEW c, NEW i, NEW b,
         \A j \in c+1..i : g[j].kind = h[j].kind /\ g[j].bank = h[j].bank
  PROVE  CountArgs(g, c, i, b) = CountArgs(h, c, i, b)
<1>1. {j \in c+1..i : g[j].kind = "arg" /\ g[j].bank = b}
        = {j \in c+1..i : h[j].kind = "arg" /\ h[j].bank = b}
  OBVIOUS
<1>. QED
  BY <1>1 DEF CountArgs

LEMMA CountNone ==
  ASSUME NEW h, NEW c \in Nat, NEW b
  PROVE  CountArgs(h, c, c, b) = 0
<1>1. {j \in c+1..c : h[j].kind = "arg" /\ h[j].bank = b} = {}
  OBVIOUS
<1>. QED
  BY <1>1, FS_EmptySet DEF CountArgs

LEMMA PlaceCounted ==
  ASSUME NEW c, NEW i, NEW b, NEW k, b = held[i].bank, k = CountArgs(held, c, i, b)
  PROVE  /\ k <= Len(Args[b]) => (InPlace(c, i) <=> held[i].reg = Args[b][k])
         /\ ~(k <= Len(Args[b])) => (InPlace(c, i) <=> held[i].reg = NoReg)
BY DEF InPlace, CountArgs

-----------------------------------------------------------------------------
(* The steps of a function.                                                *)

\* While the temporaries suffice, flags change only as marked registers do.
LEMMA AmpleFacts ==
  ASSUME IInv, ample
  PROVE  /\ spilled = {} /\ leaked \subseteq busy
         /\ TempsHeld \subseteq busy /\ TempsHeld \subseteq TempRegs
<1>1. spilled = {} /\ leaked \subseteq busy /\ TempsHeld \subseteq busy
  BY DEF IInv, Marked, TempsHeld
<1>2. ASSUME NEW i \in DOMAIN held, IsTemp(i) PROVE held[i].reg \in TempRegs
  <2>1. held[i] \in Handle
    BY DEF IInv, TypeOK
  <2>2. held[i].bank \in Bank /\ held[i].reg \in ToSet(Temps[held[i].bank])
    BY <1>2, <2>1 DEF IInv, Exclusive, Handle
  <2>. QED
    BY <2>2, RegisterFacts
<1>. QED
  BY <1>1, <1>2 DEF TempsHeld

\* Temporaries come and go above a call without disturbing its arguments.
LEMMA ArgsKept ==
  ASSUME CInv,
         ample' => ample,
         \A r \in ArgRegs : r \in busy' <=> r \in busy,
         DOMAIN held' = 1..Len(held'),
         \A i \in DOMAIN held' : i \in DOMAIN held => held'[i] = held[i],
         \A i \in DOMAIN held' : i \notin DOMAIN held => held'[i].kind = "temp",
         \A c \in DOMAIN held' \cap DOMAIN held, b \in Bank :
           CountArgs(held', c, Len(held'), b) = CountArgs(held, c, Len(held), b)
  PROVE  ArgsCounted' /\ ArgumentsInPlace'
<1>1. DOMAIN held = 1..Len(held) /\ Len(held) \in Nat /\ held \in Seq(Handle)
  BY DEF CInv, IInv, TypeOK
<1>2. ArgsCounted'
  <2>. SUFFICES ASSUME ample', NEW c \in DOMAIN held', held'[c].kind = "call", ~held'[c].spoiled
                PROVE  /\ \A j \in DOMAIN held' : j > c => held'[j].kind # "call"
                       /\ \A b \in Bank : \A k \in DOMAIN Args[b] :
                            Args[b][k] \in busy' <=> k <= CountArgs(held', c, Len(held'), b)
    BY DEF ArgsCounted
  <2>1. c \in DOMAIN held /\ held[c].kind = "call" /\ ~held[c].spoiled
    OBVIOUS
  <2>2. \A j \in DOMAIN held : j > c => held[j].kind # "call"
    BY <2>1 DEF CInv, Promise, ArgsCounted
  <2>3. \A b \in Bank : \A k \in DOMAIN Args[b] :
          Args[b][k] \in busy <=> k <= CountArgs(held, c, Len(held), b)
    BY <2>1 DEF CInv, Promise, ArgsCounted
  <2>4. ASSUME NEW b \in Bank, NEW k \in DOMAIN Args[b] PROVE Args[b][k] \in ArgRegs
    BY RegisterFacts
  <2>5. \A j \in DOMAIN held' : j > c => held'[j].kind # "call"
    BY <2>2
  <2>6. \A b \in Bank : \A k \in DOMAIN Args[b] :
          Args[b][k] \in busy' <=> k <= CountArgs(held', c, Len(held'), b)
    BY <2>1, <2>3, <2>4
  <2>. QED
    BY <2>5, <2>6
<1>3. ArgumentsInPlace'
  <2>. SUFFICES ASSUME ample', NEW c \in DOMAIN held', NEW i \in DOMAIN held',
                       held'[c].kind = "call", ~held'[c].spoiled, i > c, held'[i].kind = "arg"
                PROVE  InPlace(c, i)'
    BY DEF ArgumentsInPlace
  <2>1. /\ c \in DOMAIN held /\ held[c].kind = "call" /\ ~held[c].spoiled
        /\ i \in DOMAIN held /\ held[i].kind = "arg" /\ held'[i] = held[i]
    OBVIOUS
  <2>2. InPlace(c, i)
    BY <2>1 DEF CInv, Promise, ArgumentsInPlace
  <2>3. \A j \in c+1..i : held'[j] = held[j]
    BY <1>1, <2>1
  <2>4. CountArgs(held', c, i, held[i].bank) = CountArgs(held, c, i, held[i].bank)
    BY <2>3, CountSame
  <2>. QED
    BY <2>1, <2>2, <2>4 DEF InPlace, CountArgs
<1>. QED
  BY <1>2, <1>3

LEMMA AcquireStep ==
  ASSUME CInv, NEW b \in Bank, Acquire(b) \/ AcquireBySpilling(b)
  PROVE  Promise'
<1>. PICK r \in Reg, flag \in BOOLEAN :
       /\ \/ AllocateTemp(b, r) \/ AllocateSpareArg(b, r)
          \/ SpillRegister(b, r)
       /\ Push([kind |-> "temp", bank |-> b, reg |-> r, spoiled |-> flag])
       /\ UNCHANGED phase
  BY DEF Acquire, AcquireBySpilling
<1>. DEFINE h == [kind |-> "temp", bank |-> b, reg |-> r, spoiled |-> flag]
            n == Len(held)
<1>1. h \in Handle /\ h.kind = "temp" /\ h.reg = r
  BY DEF Handle, Kinds
<1>2. Push(h) /\ IInv
  BY DEF CInv
<1>. HIDE DEF h
<1>3. /\ n \in Nat /\ DOMAIN held = 1..n /\ DOMAIN held' = 1..n + 1
      /\ held'[n + 1] = h /\ \A i \in 1..n : held'[i] = held[i]
      /\ \A i \in DOMAIN held' : i \in 1..n \/ i = n + 1
  BY <1>1, <1>2, PushFacts
<1>4. Len(held') = n + 1 /\ Bounded'
  BY <1>1, <1>2, <1>3, RegisterAssumption DEF Push, Bounded, IInv, TypeOK, RegisterAssumption
<1>5. CASE AllocateSpareArg(b, r) \/ SpillRegister(b, r)
  BY <1>4, <1>5 DEF AllocateSpareArg, SpillRegister, Promise, OnlyAssignmentsLeak,
                    ArgsCounted, ArgumentsInPlace
<1>6. CASE AllocateTemp(b, r)
  <2>. HIDE DEF n
  <2>1. /\ r \in TempRegs /\ r \notin ArgRegs /\ busy' = busy \cup {r}
        /\ ample' = ample /\ leaked' = leaked
    <3>1. r \in ToSet(Temps[b])
      BY <1>6 DEF AllocateTemp, FirstFree, ToSet
    <3>. QED
      BY <1>6, <3>1, RegisterFacts DEF AllocateTemp, Take
  <2>2. TempsHeld' = TempsHeld \cup {r}
    BY <1>1, <1>3 DEF TempsHeld, IsTemp
  <2>3. OnlyAssignmentsLeak'
    BY <2>1, <2>2 DEF CInv, Promise, OnlyAssignmentsLeak, TempsHeld
  <2>4. ASSUME NEW c \in 1..n, NEW d \in Bank
        PROVE  CountArgs(held', c, n + 1, d) = CountArgs(held, c, n, d)
    <3>1. CountArgs(held', c, n + 1, d) = CountArgs(held', c, n, d)
      BY <1>1, <1>3, CountNext
    <3>2. \A j \in c+1..n : held'[j] = held[j]
      BY <1>3
    <3>3. CountArgs(held', c, n, d) = CountArgs(held, c, n, d)
      BY <3>2, CountSame
    <3>. QED
      BY <3>1, <3>3
  <2>5. \A q \in ArgRegs : q \in busy' <=> q \in busy
    BY <2>1
  <2>6. \A c \in DOMAIN held' \cap DOMAIN held, d \in Bank :
          CountArgs(held', c, Len(held'), d) = CountArgs(held, c, Len(held), d)
    BY <1>3, <1>4, <2>4 DEF n
  <2>7. ArgsCounted' /\ ArgumentsInPlace'
    BY <1>1, <1>3, <1>4, <2>1, <2>5, <2>6, ArgsKept DEF n
  <2>. QED
    BY <1>4, <2>3, <2>7 DEF Promise
<1>. HIDE DEF n
<1>. QED
  BY <1>5, <1>6

\* An emitter at the top of the stack ends.
LEMMA PopStep ==
  ASSUME CInv, held # << >>, IsTemp(Len(held)), Pop,
         ample' => ample,
         \A r \in ArgRegs : ample => (r \in busy' <=> r \in busy)
  PROVE  Bounded' /\ ArgsCounted' /\ ArgumentsInPlace'
<1>. DEFINE n == Len(held)
<1>1. /\ n \in Nat /\ DOMAIN held = 1..n /\ n \in 1..n /\ DOMAIN held' = 1..n - 1
      /\ Len(held') = n - 1
      /\ \A i \in 1..n - 1 : held'[i] = held[i] /\ i \in 1..n /\ i # n
  BY HeldFacts DEF CInv, IInv, TypeOK, Pop
<1>2. Bounded'
  <2>1. n <= MaxHeld /\ MaxHeld \in Nat
    BY RegisterAssumption DEF CInv, Promise, Bounded, RegisterAssumption
  <2>2. n \in Nat /\ Len(held') = n - 1
    BY <1>1
  <2>. HIDE DEF n
  <2>. QED
    BY <2>1, <2>2 DEF Bounded
<1>. HIDE DEF n
<1>3. ASSUME NEW c \in 1..n - 1, NEW d \in Bank
      PROVE  CountArgs(held', c, n - 1, d) = CountArgs(held, c, n, d)
  <2>1. n - 1 \in Nat /\ (n - 1) + 1 = n
    BY <1>1
  <2>2. held[n].kind = "temp"
    BY DEF IsTemp, n
  <2>3. CountArgs(held, c, n, d) = CountArgs(held, c, n - 1, d)
    <3>1. ~(held[(n - 1) + 1].kind = "arg" /\ held[(n - 1) + 1].bank = d)
      BY <2>1, <2>2
    <3>2. CountArgs(held, c, (n - 1) + 1, d) = CountArgs(held, c, n - 1, d)
      BY <2>1, <3>1, CountNext
    <3>. QED
      BY <2>1, <3>2
  <2>4. \A j \in c+1..n - 1 : held'[j] = held[j]
    BY <1>1
  <2>5. CountArgs(held', c, n - 1, d) = CountArgs(held, c, n - 1, d)
    BY <2>4, CountSame
  <2>. QED
    BY <2>3, <2>5
<1>4. \A c \in DOMAIN held' \cap DOMAIN held, d \in Bank :
        CountArgs(held', c, Len(held'), d) = CountArgs(held, c, Len(held), d)
  BY <1>1, <1>3 DEF n
<1>5. CASE ample
  <2>1. \A r \in ArgRegs : r \in busy' <=> r \in busy
    BY <1>5
  <2>2. DOMAIN held' = 1..Len(held') /\ \A i \in DOMAIN held' : i \in DOMAIN held /\ held'[i] = held[i]
    BY <1>1
  <2>. QED
    BY <1>2, <1>4, <2>1, <2>2, ArgsKept
<1>6. CASE ~ample
  BY <1>2, <1>6 DEF ArgsCounted, ArgumentsInPlace
<1>. QED
  BY <1>5, <1>6

LEMMA ReleaseStep == CInv /\ Release => Promise'
<1>. SUFFICES ASSUME CInv, Release PROVE Promise'
  OBVIOUS
<1>. DEFINE n == Len(held)
<1>1. /\ held # << >> /\ IsTemp(n) /\ n \in DOMAIN held /\ Pop
      /\ DeallocateRegs({held[n].reg}) /\ UNCHANGED <<ample, leaked>>
      /\ DOMAIN held = 1..n /\ DOMAIN held' = 1..n - 1 /\ n \in Nat
      /\ \A i \in DOMAIN held' : held'[i] = held[i]
  BY HeldFacts DEF CInv, IInv, TypeOK, Release, Top, IsTemp, Pop
<1>2. ASSUME ample
      PROVE  /\ busy' = busy \ {held[n].reg}
             /\ held[n].reg \in TempsHeld /\ held[n].reg \in TempRegs /\ held[n].reg \notin leaked
  <2>1. spilled = {} /\ TempsHeld \subseteq TempRegs
    BY <1>2, AmpleFacts DEF CInv
  <2>2. busy' = busy \ {held[n].reg} /\ held[n].reg \in TempsHeld
    BY <1>1, <2>1 DEF DeallocateRegs, TempsHeld
  <2>3. held[n].reg \notin leaked
    BY <1>1, <1>2 DEF CInv, IInv, Exclusive
  <2>. QED
    BY <2>1, <2>2, <2>3
<1>. HIDE DEF n
<1>3. ASSUME ample PROVE TempsHeld' = TempsHeld \ {held[n].reg}
  <2>1. \A i \in 1..n : IsTemp(i) /\ i # n => held[i].reg # held[n].reg
    BY <1>1, <1>3 DEF CInv, IInv, Exclusive
  <2>2. \A i \in DOMAIN held' : IsTemp(i)' <=> IsTemp(i)
    BY <1>1 DEF IsTemp
  <2>3. \A i \in 1..n : i # n => i \in 1..n - 1
    BY <1>1
  <2>4. \A i \in 1..n - 1 : i # n /\ i \in 1..n
    BY <1>1
  <2>5. TempsHeld' = {held'[i].reg : i \in {i \in DOMAIN held' : IsTemp(i)'}}
    BY DEF TempsHeld
  <2>6. TempsHeld' \subseteq TempsHeld \ {held[n].reg}
    <3>. SUFFICES ASSUME NEW i \in 1..n - 1, IsTemp(i)'
                  PROVE  held'[i].reg \in TempsHeld \ {held[n].reg}
      BY <1>1, <2>5
    <3>. QED
      BY <1>1, <2>1, <2>2, <2>4 DEF TempsHeld
  <2>7. TempsHeld \ {held[n].reg} \subseteq TempsHeld'
    <3>. SUFFICES ASSUME NEW i \in 1..n, IsTemp(i), held[i].reg # held[n].reg
                  PROVE  held[i].reg \in TempsHeld'
      BY <1>1 DEF TempsHeld
    <3>1. i \in 1..n - 1
      BY <2>3
    <3>2. IsTemp(i)' /\ held'[i].reg = held[i].reg
      BY <1>1, <2>2, <3>1
    <3>. QED
      BY <1>1, <2>5, <3>1, <3>2
  <2>. QED
    BY <2>6, <2>7
<1>4. OnlyAssignmentsLeak'
  BY <1>1, <1>2, <1>3 DEF CInv, Promise, OnlyAssignmentsLeak, TempsHeld
<1>5. \A r \in ArgRegs : ample => (r \in busy' <=> r \in busy)
  BY <1>2, RegisterFacts
<1>6. Bounded' /\ ArgsCounted' /\ ArgumentsInPlace'
  BY <1>1, <1>5, PopStep DEF n
<1>. QED
  BY <1>4, <1>6 DEF Promise

LEMMA EndAssignmentStep == CInv /\ EndAssignment => Promise'
<1>. SUFFICES ASSUME CInv, EndAssignment PROVE Promise'
  OBVIOUS
<1>. DEFINE n == Len(held)
<1>1. /\ held # << >> /\ IsTemp(n) /\ n \in DOMAIN held /\ Pop
      /\ leaked' = (IF ample THEN leaked \cup {held[n].reg} ELSE {})
      /\ UNCHANGED <<busy, ample>>
      /\ DOMAIN held = 1..n /\ DOMAIN held' = 1..n - 1 /\ n \in Nat
      /\ \A i \in DOMAIN held' : held'[i] = held[i]
  BY HeldFacts DEF CInv, IInv, TypeOK, ReturnHeld, EndAssignment, Top, IsTemp, Pop, allocator
<1>. HIDE DEF n
<1>2. TempsHeld = TempsHeld' \cup {held[n].reg}
  <2>1. \A i \in DOMAIN held' : IsTemp(i)' <=> IsTemp(i)
    BY <1>1 DEF IsTemp
  <2>2. \A i \in 1..n : i # n => i \in 1..n - 1
    BY <1>1
  <2>3. \A i \in 1..n - 1 : i \in 1..n
    BY <1>1
  <2>4. TempsHeld' = {held'[i].reg : i \in {i \in DOMAIN held' : IsTemp(i)'}}
    BY DEF TempsHeld
  <2>5. TempsHeld' \subseteq TempsHeld
    <3>. SUFFICES ASSUME NEW i \in 1..n - 1, IsTemp(i)' PROVE held'[i].reg \in TempsHeld
      BY <1>1, <2>4
    <3>. QED
      BY <1>1, <2>1, <2>3 DEF TempsHeld
  <2>6. ASSUME NEW i \in 1..n, IsTemp(i) PROVE held[i].reg \in TempsHeld' \cup {held[n].reg}
    <3>1. CASE i = n
      BY <3>1
    <3>2. CASE i # n
      <4>1. i \in DOMAIN held' /\ IsTemp(i)' /\ held'[i].reg = held[i].reg
        BY <1>1, <2>1, <2>2, <2>6, <3>2
      <4>. QED
        BY <2>4, <4>1
    <3>. QED
      BY <3>1, <3>2
  <2>7. held[n].reg \in TempsHeld
    BY <1>1 DEF TempsHeld
  <2>8. TempsHeld \subseteq TempsHeld' \cup {held[n].reg}
    BY <1>1, <2>6 DEF TempsHeld
  <2>. QED
    BY <2>5, <2>7, <2>8
<1>3. OnlyAssignmentsLeak'
  BY <1>1, <1>2 DEF CInv, Promise, OnlyAssignmentsLeak, TempsHeld
<1>4. Bounded' /\ ArgsCounted' /\ ArgumentsInPlace'
  BY <1>1, PopStep DEF n
<1>. QED
  BY <1>3, <1>4 DEF Promise

\* With nobody active, or only the function itself, there is little to keep.
LEMMA QuietStep ==
  ASSUME \A i \in DOMAIN held' : held'[i].kind = "ret", Len(held') <= MaxHeld,
         ample' => busy' \cap TempRegs = leaked'
  PROVE  Promise'
<1>1. OnlyAssignmentsLeak'
  BY DEF OnlyAssignmentsLeak, IsTemp
<1>2. ArgsCounted' /\ ArgumentsInPlace' /\ Bounded'
  BY DEF ArgsCounted, ArgumentsInPlace, Bounded
<1>. QED
  BY <1>1, <1>2 DEF Promise

LEMMA AbortStep == Abort => Promise'
<1>. SUFFICES ASSUME Abort PROVE Promise'
  OBVIOUS
<1>1. held' = << >> /\ busy' = {} /\ leaked' = {}
  BY DEF Abort
<1>2. Len(held') <= MaxHeld
  BY <1>1, RegisterAssumption DEF RegisterAssumption
<1>. QED
  BY <1>1, <1>2, QuietStep

LEMMA BeginFunctionStep ==
  ASSUME CInv, NEW b \in Bank, NEW n \in [Bank -> 0..MaxParams], BeginFunction(b, n)
  PROVE  Promise'
<1>. DEFINE h == [kind |-> "ret", bank |-> b, reg |-> ReturnReg(b), spoiled |-> FALSE]
<1>1. /\ held' = <<h>> /\ h.kind = "ret" /\ 0 < MaxHeld /\ leaked' = {}
      /\ busy' \subseteq Reserved \cup Stray \cup {ReturnReg(b)}
  BY DEF BeginFunction, Push
<1>. HIDE DEF h
<1>2. Len(held') <= MaxHeld /\ \A i \in DOMAIN held' : held'[i].kind = "ret"
  BY <1>1, RegisterAssumption DEF RegisterAssumption
<1>3. ReturnReg(b) \in ArgRegs
  BY RegisterFacts DEF ReturnReg
<1>4. busy' \cap TempRegs = leaked'
  BY <1>1, <1>3, RegisterAssumption DEF RegisterAssumption
<1>. QED
  BY <1>2, <1>4, QuietStep

\* Only the function's own handle is left when it ends.
LEMMA EndFunctionFacts ==
  ASSUME IInv, EndFunction
  PROVE  /\ held # << >> /\ Len(held) = 1 /\ held[1].kind = "ret" /\ Top.reg \in ArgRegs
         /\ held' = << >> /\ DeallocateRegs({Top.reg}) /\ UNCHANGED <<ample, leaked>>
BY DEF EndFunction, Pop, IInv, ReturnHeld, TypeOK, Top, Front

LEMMA EndFunctionStep == CInv /\ EndFunction => Promise'
<1>. SUFFICES ASSUME CInv, EndFunction PROVE Promise'
  OBVIOUS
<1>1. /\ held # << >> /\ Len(held) = 1 /\ held[1].kind = "ret" /\ Top.reg \in ArgRegs
      /\ held' = << >> /\ DeallocateRegs({Top.reg}) /\ UNCHANGED <<ample, leaked>>
  BY EndFunctionFacts DEF CInv
<1>2. Len(held') <= MaxHeld
  BY <1>1, RegisterAssumption DEF RegisterAssumption
<1>3. ASSUME ample PROVE busy' \cap TempRegs = leaked
  <2>1. \A i \in DOMAIN held : ~IsTemp(i)
    BY <1>1 DEF CInv, IInv, TypeOK, IsTemp
  <2>2. busy \cap TempRegs = leaked
    BY <1>3, <2>1 DEF CInv, Promise, OnlyAssignmentsLeak
  <2>. QED
    BY <1>1, <2>2, RegisterFacts DEF DeallocateRegs
<1>. QED
  BY <1>1, <1>2, <1>3, QuietStep

LEMMA LoadConstantFacts ==
  ASSUME IInv, NEW b \in Bank, LoadConstant(b)
  PROVE  /\ UNCHANGED <<phase, held, ample, leaked>>
         /\ ample => busy' = busy
<1>1. PICK r \in Reg :
        /\ IF r \in spilled THEN Take(r) ELSE UNCHANGED <<busy, used>>
        /\ UNCHANGED <<phase, held, ample, leaked>>
  BY DEF LoadConstant
<1>. QED
  BY <1>1, AmpleFacts

LEMMA LoadConstantStep ==
  ASSUME CInv, NEW b \in Bank, LoadConstant(b)
  PROVE  Promise'
<1>1. UNCHANGED <<held, ample, leaked>> /\ (ample => busy' = busy)
  BY LoadConstantFacts DEF CInv
<1>2. CASE ample
  <2>1. UNCHANGED <<busy, held, ample, leaked>>
    BY <1>1, <1>2
  <2>2. Bounded' /\ OnlyAssignmentsLeak'
    BY <2>1 DEF CInv, Promise, Bounded, OnlyAssignmentsLeak, IsTemp
  <2>3. ArgsCounted'
    BY <2>1 DEF CInv, Promise, ArgsCounted
  <2>4. ArgumentsInPlace'
    <3>1. ASSUME NEW c, NEW i PROVE InPlace(c, i)' <=> InPlace(c, i)
      <4>1. CountArgs(held', c, i, held[i].bank) = CountArgs(held, c, i, held[i].bank)
        BY <2>1
      <4>. QED
        BY <2>1, <4>1 DEF InPlace, CountArgs
    <3>. QED
      BY <2>1, <3>1 DEF CInv, Promise, ArgumentsInPlace
  <2>. QED
    BY <2>2, <2>3, <2>4 DEF Promise
<1>3. CASE ~ample
  BY <1>1, <1>3 DEF CInv, Promise, Bounded, OnlyAssignmentsLeak, ArgsCounted, ArgumentsInPlace
<1>. QED
  BY <1>2, <1>3

LEMMA BeginCallStep == CInv /\ BeginCall => Promise'
<1>. SUFFICES ASSUME CInv, BeginCall PROVE Promise'
  OBVIOUS
<1>. DEFINE n == Len(held)
<1>1. /\ n \in Nat /\ DOMAIN held = 1..n
      /\ DOMAIN held' = 1..n + 1 /\ Len(held') = n + 1 /\ n + 1 <= MaxHeld
      /\ held'[n + 1].kind = "call"
      /\ \A i \in DOMAIN held' : i \in 1..n \/ i = n + 1
      /\ \A i \in 1..n :
           /\ held'[i].kind = held[i].kind
           /\ held'[i].reg = held[i].reg
           /\ ~held'[i].spoiled => held[i].kind # "call"
  BY EnterCallFacts DEF CInv, BeginCall
<1>2. DeallocateRegs(ArgRegs \cap busy) /\ UNCHANGED <<ample, leaked>>
  BY DEF BeginCall, EnterCall
<1>. HIDE DEF n
<1>3. ASSUME ample PROVE busy' = busy \ ArgRegs
  BY <1>2, <1>3, AmpleFacts DEF CInv, DeallocateRegs
<1>4. OnlyAssignmentsLeak'
  <2>1. TempsHeld' = TempsHeld
    <3>1. \A i \in 1..n : IsTemp(i)' <=> IsTemp(i)
      BY <1>1 DEF IsTemp
    <3>2. held'[n + 1].kind # "temp"
      BY <1>1
    <3>3. \A i \in 1..n : i \in DOMAIN held'
      BY <1>1
    <3>4. TempsHeld' = {held'[i].reg : i \in {i \in DOMAIN held' : IsTemp(i)'}}
      BY DEF TempsHeld
    <3>5. TempsHeld' \subseteq TempsHeld
      <4>. SUFFICES ASSUME NEW i \in DOMAIN held', IsTemp(i)' PROVE held'[i].reg \in TempsHeld
        BY <3>4
      <4>1. i \in 1..n
        BY <1>1, <3>2 DEF IsTemp
      <4>. QED
        BY <1>1, <3>1, <4>1 DEF TempsHeld
    <3>6. TempsHeld \subseteq TempsHeld'
      <4>. SUFFICES ASSUME NEW i \in 1..n, IsTemp(i) PROVE held[i].reg \in TempsHeld'
        BY <1>1 DEF TempsHeld
      <4>. QED
        BY <1>1, <3>1, <3>3, <3>4
    <3>. QED
      BY <3>5, <3>6
  <2>. QED
    BY <1>2, <1>3, <2>1, RegisterFacts DEF CInv, Promise, OnlyAssignmentsLeak, TempsHeld
<1>5. ASSUME NEW c \in DOMAIN held', held'[c].kind = "call", ~held'[c].spoiled
      PROVE  c = n + 1
  BY <1>1, <1>5
<1>6. ArgsCounted'
  <2>. SUFFICES ASSUME ample', NEW c \in DOMAIN held', held'[c].kind = "call", ~held'[c].spoiled
                PROVE  /\ \A j \in DOMAIN held' : j > c => held'[j].kind # "call"
                       /\ \A b \in Bank : \A k \in DOMAIN Args[b] :
                            Args[b][k] \in busy' <=> k <= CountArgs(held', c, Len(held'), b)
    BY DEF ArgsCounted
  <2>1. c = n + 1 /\ \A j \in DOMAIN held' : ~(j > c)
    BY <1>1, <1>5
  <2>2. ASSUME NEW b \in Bank, NEW k \in DOMAIN Args[b]
        PROVE  Args[b][k] \notin busy' /\ ~(k <= CountArgs(held', c, Len(held'), b))
    <3>1. Args[b] \in Seq(ArgRegs)
      BY RegisterFacts
    <3>2. Args[b][k] \in ArgRegs /\ k \in Nat /\ k >= 1
      BY <3>1
    <3>3. CountArgs(held', n + 1, n + 1, b) = 0
      BY <1>1, CountNone
    <3>. QED
      BY <1>1, <1>2, <1>3, <2>1, <3>2, <3>3
  <2>. QED
    BY <2>1, <2>2
<1>7. ArgumentsInPlace'
  <2>. SUFFICES ASSUME NEW c \in DOMAIN held', NEW i \in DOMAIN held',
                       held'[c].kind = "call", ~held'[c].spoiled, i > c
                PROVE  FALSE
    BY DEF ArgumentsInPlace
  <2>. QED
    BY <1>1, <1>5
<1>8. Bounded'
  BY <1>1 DEF Bounded
<1>. QED
  BY <1>4, <1>6, <1>7, <1>8 DEF Promise

LEMMA EndCallStep == CInv /\ EndCall => Promise'
<1>. SUFFICES ASSUME CInv, EndCall PROVE Promise'
  OBVIOUS
<1>1. /\ DOMAIN held' \subseteq DOMAIN held /\ \A i \in DOMAIN held' : held'[i] = held[i]
      /\ UNCHANGED <<busy, ample, leaked>>
  BY EndCallFacts DEF CInv, allocator
<1>2. PICK c \in DOMAIN held : Passing(c) /\ DOMAIN held' = 1..c - 1
  BY EndCallFacts DEF CInv
<1>3. c \in Nat /\ c \in 1..Len(held) /\ DOMAIN held = 1..Len(held) /\ Len(held) \in Nat
      /\ held' \in Seq(Handle)
  BY EndCallInvariant DEF CInv, IInv, TypeOK
<1>4. Bounded'
  <2>1. Len(held') = c - 1
    BY <1>2, <1>3
  <2>. QED
    BY <1>3, <2>1, RegisterAssumption DEF CInv, Promise, Bounded, RegisterAssumption
<1>5. \A i \in DOMAIN held : IsTemp(i) => i \in DOMAIN held'
  <2>. SUFFICES ASSUME NEW i \in DOMAIN held, IsTemp(i) PROVE i \in 1..c - 1
    BY <1>2
  <2>1. ~(i > c) /\ i # c
    BY <1>2 DEF Passing, IsTemp
  <2>. QED
    BY <1>3, <2>1
<1>6. OnlyAssignmentsLeak'
  <2>1. TempsHeld' = TempsHeld
    <3>1. \A i \in DOMAIN held' : IsTemp(i)' <=> IsTemp(i)
      BY <1>1 DEF IsTemp
    <3>2. TempsHeld' = {held'[i].reg : i \in {i \in DOMAIN held' : IsTemp(i)'}}
      BY DEF TempsHeld
    <3>3. TempsHeld' \subseteq TempsHeld
      <4>. SUFFICES ASSUME NEW i \in DOMAIN held', IsTemp(i)' PROVE held'[i].reg \in TempsHeld
        BY <3>2
      <4>. QED
        BY <1>1, <3>1 DEF TempsHeld
    <3>4. TempsHeld \subseteq TempsHeld'
      <4>. SUFFICES ASSUME NEW i \in DOMAIN held, IsTemp(i) PROVE held[i].reg \in TempsHeld'
        BY DEF TempsHeld
      <4>. QED
        BY <1>1, <1>5, <3>1, <3>2
    <3>. QED
      BY <3>3, <3>4
  <2>. QED
    BY <1>1, <2>1 DEF CInv, Promise, OnlyAssignmentsLeak, TempsHeld
<1>7. ASSUME ample', NEW d \in DOMAIN held', held'[d].kind = "call", ~held'[d].spoiled
      PROVE  FALSE
  <2>1. d \in DOMAIN held /\ held[d].kind = "call" /\ ~held[d].spoiled /\ c > d /\ ample
    BY <1>1, <1>2, <1>3, <1>7
  <2>2. held[c].kind # "call"
    BY <2>1 DEF CInv, Promise, ArgsCounted
  <2>. QED
    BY <1>2, <2>2 DEF Passing
<1>8. ArgsCounted' /\ ArgumentsInPlace'
  BY <1>7 DEF ArgsCounted, ArgumentsInPlace
<1>. QED
  BY <1>4, <1>6, <1>8 DEF Promise

\* The n-th argument of a file takes its n-th register.
LEMMA PassArgumentStep ==
  ASSUME CInv, NEW b \in Bank, PassArgument(b)
  PROVE  Promise'
<1>. PICK r \in Reg \cup {NoReg} :
       /\ AllocateArgReg(b, r)
       /\ Push([kind |-> "arg", bank |-> b, reg |-> r, spoiled |-> FALSE])
       /\ UNCHANGED <<phase, ample, leaked>>
  BY DEF PassArgument
<1>. DEFINE h == [kind |-> "arg", bank |-> b, reg |-> r, spoiled |-> FALSE]
            n == Len(held)
<1>1. h \in Handle /\ h.kind = "arg" /\ h.bank = b /\ h.reg = r
  BY DEF Handle, Kinds
<1>2. Push(h) /\ IInv
  BY DEF CInv
<1>. HIDE DEF h
<1>3. /\ n \in Nat /\ DOMAIN held = 1..n /\ DOMAIN held' = 1..n + 1
      /\ held'[n + 1] = h /\ \A i \in 1..n : held'[i] = held[i]
      /\ \A i \in DOMAIN held' : i \in 1..n \/ i = n + 1
  BY <1>1, <1>2, PushFacts
<1>4. Len(held') = n + 1 /\ Bounded'
  BY <1>1, <1>2, <1>3, RegisterAssumption DEF Push, Bounded, IInv, TypeOK, RegisterAssumption
<1>. HIDE DEF n
<1>5. /\ \A q \in TempRegs : q \in busy' <=> q \in busy
      /\ UNCHANGED <<ample, leaked>>
  <2>1. CASE FirstFree(Args[b], r) /\ Take(r) /\ UNCHANGED spilled
    BY <2>1, FreeArg, RegisterFacts DEF Take
  <2>2. CASE UNCHANGED allocator
    BY <2>2 DEF allocator
  <2>. QED
    BY <2>1, <2>2 DEF AllocateArgReg
<1>6. OnlyAssignmentsLeak'
  <2>1. TempsHeld' = TempsHeld
    BY <1>1, <1>3 DEF TempsHeld, IsTemp
  <2>2. busy' \cap TempRegs = busy \cap TempRegs
    BY <1>5
  <2>. QED
    BY <1>5, <2>1, <2>2 DEF CInv, Promise, OnlyAssignmentsLeak, TempsHeld
<1>7. Args[b] \in Seq(ArgRegs) /\ Args[b] # << >> /\ IsInjective(Args[b])
  BY RegisterFacts, RegisterAssumption DEF RegisterAssumption
\* The call being passed arguments: how many of file b it had, and what the
\* next one is handed.
<1>8. ASSUME ample, NEW c \in 1..n, held[c].kind = "call", ~held[c].spoiled
      PROVE  LET m == CountArgs(held, c, n, b)
             IN  /\ m \in Nat
                 /\ m + 1 <= Len(Args[b]) => r = Args[b][m + 1] /\ busy' = busy \cup {r}
                 /\ ~(m + 1 <= Len(Args[b])) => r = NoReg /\ busy' = busy
  <2>. DEFINE m == CountArgs(held, c, n, b)
  <2>1. m \in Nat
    BY <1>3, CountNext
  <2>2. \A k \in DOMAIN Args[b] : Args[b][k] \in busy <=> k <= m
    BY <1>3, <1>8 DEF CInv, Promise, ArgsCounted, n
  <2>. HIDE DEF m
  <2>3. DOMAIN Args[b] = 1..Len(Args[b]) /\ Len(Args[b]) \in Nat /\ Len(Args[b]) >= 1
    BY <1>7
  <2>4. CASE FirstFree(Args[b], r) /\ Take(r)
    <3>1. PICK i \in DOMAIN Args[b] :
            /\ r = Args[b][i] /\ r \notin busy
            /\ \A j \in DOMAIN Args[b] : j < i => Args[b][j] \in busy
      BY <2>4 DEF FirstFree
    <3>2. i > m
      BY <2>1, <2>2, <2>3, <3>1
    <3>3. i - 1 <= m
      <4>1. CASE i = 1
        BY <2>1, <4>1
      <4>2. CASE i # 1
        <5>1. i - 1 \in DOMAIN Args[b] /\ i - 1 < i
          BY <2>3, <4>2
        <5>. QED
          BY <2>2, <3>1, <5>1
      <4>. QED
        BY <4>1, <4>2
    <3>4. i = m + 1 /\ m + 1 <= Len(Args[b])
      BY <2>1, <2>3, <3>2, <3>3
    <3>. QED
      BY <2>1, <2>4, <3>1, <3>4 DEF Take, m
  <2>5. CASE Exhausted(Args[b]) /\ r = NoReg /\ UNCHANGED allocator
    <3>1. Args[b][Len(Args[b])] \in busy
      BY <2>3, <2>5 DEF Exhausted, ToSet
    <3>2. Len(Args[b]) <= m
      BY <2>2, <2>3, <3>1
    <3>. QED
      BY <2>1, <2>3, <2>5, <3>2 DEF allocator, m
  <2>. QED
    BY <2>4, <2>5 DEF AllocateArgReg
<1>9. ASSUME NEW c \in 1..n, NEW d \in Bank
      PROVE  /\ CountArgs(held, c, n, d) \in Nat
             /\ d = b => CountArgs(held', c, n + 1, d) = CountArgs(held, c, n, d) + 1
             /\ d # b => CountArgs(held', c, n + 1, d) = CountArgs(held, c, n, d)
  <2>1. \A j \in c+1..n : held'[j] = held[j]
    BY <1>3
  <2>2. CountArgs(held', c, n, d) = CountArgs(held, c, n, d)
    BY <2>1, CountSame
  <2>3. held'[n + 1].kind = "arg" /\ held'[n + 1].bank = b
    BY <1>1, <1>3
  <2>4. /\ CountArgs(held', c, n, d) \in Nat
        /\ d = b => CountArgs(held', c, n + 1, d) = CountArgs(held', c, n, d) + 1
        /\ d # b => CountArgs(held', c, n + 1, d) = CountArgs(held', c, n, d)
    BY <1>3, <2>3, CountNext
  <2>. QED
    BY <2>2, <2>4
<1>10. ASSUME NEW c \in DOMAIN held', held'[c].kind = "call", ~held'[c].spoiled
       PROVE  c \in 1..n /\ held[c].kind = "call" /\ ~held[c].spoiled
  BY <1>1, <1>3, <1>10
<1>11. ArgsCounted'
  <2>. SUFFICES ASSUME ample', NEW c \in DOMAIN held', held'[c].kind = "call", ~held'[c].spoiled
                PROVE  /\ \A j \in DOMAIN held' : j > c => held'[j].kind # "call"
                       /\ \A d \in Bank : \A k \in DOMAIN Args[d] :
                            Args[d][k] \in busy' <=> k <= CountArgs(held', c, Len(held'), d)
    BY DEF ArgsCounted
  <2>1. ample /\ c \in 1..n /\ held[c].kind = "call" /\ ~held[c].spoiled
    BY <1>5, <1>10
  <2>2. /\ \A j \in DOMAIN held : j > c => held[j].kind # "call"
        /\ \A d \in Bank : \A k \in DOMAIN Args[d] :
             Args[d][k] \in busy <=> k <= CountArgs(held, c, n, d)
    BY <1>3, <2>1 DEF CInv, Promise, ArgsCounted, n
  <2>3. \A j \in DOMAIN held' : j > c => held'[j].kind # "call"
    BY <1>1, <1>3, <2>2
  <2>4. ASSUME NEW d \in Bank, NEW k \in DOMAIN Args[d]
        PROVE  Args[d][k] \in busy' <=> k <= CountArgs(held', c, n + 1, d)
    <3>. DEFINE m == CountArgs(held, c, n, b)
    <3>1. /\ m \in Nat
          /\ m + 1 <= Len(Args[b]) => r = Args[b][m + 1] /\ busy' = busy \cup {r}
          /\ ~(m + 1 <= Len(Args[b])) => r = NoReg /\ busy' = busy
      BY <1>8, <2>1
    <3>2. Args[d] \in Seq(ArgRegs) /\ k \in Nat /\ k <= Len(Args[d]) /\ Len(Args[d]) \in Nat
      BY RegisterFacts
    <3>3. CASE d = b
      <4>1. Args[b][k] \in busy <=> k <= m
        BY <2>2, <3>3
      <4>2. CountArgs(held', c, n + 1, d) = m + 1
        BY <1>9, <2>1, <3>3
      <4>. HIDE DEF m
      <4>3. CASE m + 1 <= Len(Args[b])
        <5>1. m + 1 \in DOMAIN Args[b]
          BY <1>7, <3>1, <4>3
        <5>2. Args[b][k] = r <=> k = m + 1
          BY <1>7, <3>1, <3>3, <4>3, <5>1 DEF IsInjective
        <5>. QED
          BY <3>1, <3>2, <3>3, <4>1, <4>2, <4>3, <5>2
      <4>4. CASE ~(m + 1 <= Len(Args[b]))
        BY <3>1, <3>2, <3>3, <4>1, <4>2, <4>4
      <4>. QED
        BY <4>3, <4>4
    <3>4. CASE d # b
      <4>1. CountArgs(held', c, n + 1, d) = CountArgs(held, c, n, d)
        BY <1>9, <2>1, <3>4
      <4>2. Args[d][k] \in PoolRegs(d)
        BY DEF PoolRegs, ToSet
      <4>3. Args[d][k] # r
        <5>1. CASE m + 1 <= Len(Args[b])
          <6>. HIDE DEF m
          <6>1. m + 1 \in DOMAIN Args[b] /\ r = Args[b][m + 1]
            BY <1>7, <3>1, <5>1
          <6>2. r \in PoolRegs(b)
            BY <6>1 DEF PoolRegs, ToSet
          <6>. QED
            BY <3>4, <4>2, <6>2, RegisterAssumption DEF RegisterAssumption
        <5>2. CASE ~(m + 1 <= Len(Args[b]))
          <6>1. r = NoReg
            BY <3>1, <5>2
          <6>2. Args[d][k] \in ArgRegs
            BY <3>2
          <6>. QED
            BY <6>1, <6>2, RegisterFacts, RegisterAssumption DEF RegisterAssumption
        <5>. QED
          BY <5>1, <5>2
      <4>4. busy' \subseteq busy \cup {r} /\ busy \subseteq busy'
        BY <3>1
      <4>. QED
        BY <2>2, <4>1, <4>3, <4>4
    <3>. QED
      BY <3>3, <3>4
  <2>. QED
    BY <1>4, <2>3, <2>4
<1>12. ArgumentsInPlace'
  <2>. SUFFICES ASSUME ample', NEW c \in DOMAIN held', NEW i \in DOMAIN held',
                       held'[c].kind = "call", ~held'[c].spoiled, i > c, held'[i].kind = "arg"
                PROVE  InPlace(c, i)'
    BY DEF ArgumentsInPlace
  <2>1. ample /\ c \in 1..n /\ held[c].kind = "call" /\ ~held[c].spoiled
    BY <1>5, <1>10
  <2>2. CASE i \in 1..n
    <3>1. held'[i] = held[i] /\ i \in DOMAIN held /\ c \in DOMAIN held
      BY <1>3, <2>1, <2>2
    <3>2. InPlace(c, i)
      BY <2>1, <3>1 DEF CInv, Promise, ArgumentsInPlace
    <3>3. \A j \in c+1..i : held'[j] = held[j]
      BY <1>3, <2>1, <2>2
    <3>4. CountArgs(held', c, i, held[i].bank) = CountArgs(held, c, i, held[i].bank)
      BY <3>3, CountSame
    <3>. QED
      BY <3>1, <3>2, <3>4 DEF InPlace, CountArgs
  <2>3. CASE i = n + 1
    <3>. DEFINE m == CountArgs(held, c, n, b)
    <3>1. /\ m \in Nat
          /\ m + 1 <= Len(Args[b]) => r = Args[b][m + 1]
          /\ ~(m + 1 <= Len(Args[b])) => r = NoReg
      BY <1>8, <2>1
    <3>2. CountArgs(held', c, n + 1, b) = m + 1
      BY <1>9, <2>1
    <3>3. held'[i].bank = b /\ held'[i].reg = r
      BY <1>1, <1>3, <2>3
    <3>4. CountArgs(held', c, i, b) = m + 1
      BY <2>3, <3>2
    <3>. HIDE DEF m
    <3>. QED
      BY <3>1, <3>3, <3>4 DEF InPlace, CountArgs
  <2>. QED
    BY <1>3, <2>2, <2>3
<1>. QED
  BY <1>4, <1>6, <1>11, <1>12 DEF Promise

-----------------------------------------------------------------------------
(* The invariant is inductive.                                             *)

LEMMA NextPromise == CInv /\ [Next]_vars => Promise'
<1>. SUFFICES ASSUME CInv, [Next]_vars PROVE Promise'
  OBVIOUS
<1>1. ASSUME NEW n \in [Bank -> 0..MaxParams], RejectParameters(n) PROVE Promise'
  BY <1>1, AbortStep DEF RejectParameters
<1>2. ASSUME NEW n \in [Bank -> 0..MaxParams], NEW b \in Bank, BeginFunction(b, n)
      PROVE Promise'
  BY <1>2, BeginFunctionStep
<1>3. CASE EndFunction
  BY <1>3, EndFunctionStep
<1>4. CASE Release
  BY <1>4, ReleaseStep
<1>5. CASE EndAssignment
  BY <1>5, EndAssignmentStep
<1>6. CASE BeginCall
  BY <1>6, BeginCallStep
<1>7. CASE EndCall
  BY <1>7, EndCallStep
<1>8. ASSUME NEW b \in Bank, Acquire(b) \/ AcquireBySpilling(b) PROVE Promise'
  BY <1>8, AcquireStep
<1>9. ASSUME NEW b \in Bank, FailToSpill(b) \/ FailToLoadConstant(b) PROVE Promise'
  BY <1>9, AbortStep DEF FailToSpill, FailToLoadConstant
<1>10. ASSUME NEW b \in Bank, LoadConstant(b) PROVE Promise'
  BY <1>10, LoadConstantStep
<1>11. ASSUME NEW b \in Bank, PassArgument(b) PROVE Promise'
  BY <1>11, PassArgumentStep
<1>12. CASE UNCHANGED vars
  <2>1. UNCHANGED <<busy, held, ample, leaked>>
    BY <1>12 DEF vars
  <2>2. Bounded' /\ OnlyAssignmentsLeak'
    BY <2>1 DEF CInv, Promise, Bounded, OnlyAssignmentsLeak, IsTemp
  <2>3. ArgsCounted'
    BY <2>1 DEF CInv, Promise, ArgsCounted
  <2>4. ArgumentsInPlace'
    <3>1. ASSUME NEW c, NEW i PROVE InPlace(c, i)' <=> InPlace(c, i)
      <4>1. CountArgs(held', c, i, held[i].bank) = CountArgs(held, c, i, held[i].bank)
        BY <2>1
      <4>. QED
        BY <2>1, <4>1 DEF InPlace, CountArgs
    <3>. QED
      BY <2>1, <3>1 DEF CInv, Promise, ArgumentsInPlace
  <2>. QED
    BY <2>2, <2>3, <2>4 DEF Promise
<1>. QED
  BY <1>1, <1>2, <1>3, <1>4, <1>5, <1>6, <1>7, <1>8, <1>9, <1>10, <1>11, <1>12
  DEF Next, Stopped

LEMMA InitPromise == Init => Promise
<1>. SUFFICES ASSUME Init PROVE Promise
  OBVIOUS
<1>1. held = << >> /\ busy = Reserved /\ leaked = {}
  BY DEF Init
<1>. QED
  BY <1>1, RegisterAssumption DEF RegisterAssumption, Promise, Bounded,
     OnlyAssignmentsLeak, ArgsCounted, ArgumentsInPlace, IsTemp

LEMMA PromiseInvariance == Spec => []CInv
<1>1. Init => CInv
  BY InitInvariant, InitPromise DEF CInv
<1>2. CInv /\ [Next]_vars => CInv'
  BY NextInvariant, NextPromise DEF CInv
<1>. QED
  BY <1>1, <1>2, PTL DEF Spec

\* While the temporaries suffice, a marked temporary is one an active emitter
\* holds or one an assignment kept, for any register files and nesting.
THEOREM LeaksKnown == Spec => []OnlyAssignmentsLeak
<1>1. CInv => OnlyAssignmentsLeak
  BY DEF CInv, Promise
<1>. QED
  BY <1>1, PromiseInvariance, PTL

\* A call whose arguments make no call passes the k-th argument of each file
\* in its k-th argument register, whatever the expressions around it hold.
THEOREM ArgumentsArrive == Spec => []ArgumentsInPlace
<1>1. CInv => ArgumentsInPlace
  BY DEF CInv, Promise
<1>. QED
  BY <1>1, PromiseInvariance, PTL

-----------------------------------------------------------------------------
(* The allocator implements RegisterPool.                                  *)

\* The emitters that hold a temporary, and what they hold: Pool's owner.
Borrowers == {i \in DOMAIN held : IsTemp(i)}
Loans == [i \in Borrowers |-> held[i].reg]

LEMMA PoolVariables ==
  Pool!vars = <<Loans, leaked, ample>>
BY DEF Pool!vars, Loans, Borrowers

LEMMA LoanRange == {Loans[i] : i \in DOMAIN Loans} = TempsHeld
BY DEF Loans, Borrowers, TempsHeld

LEMMA NoLoans ==
  ASSUME NEW h, \A i \in DOMAIN h : h[i].kind # "temp"
  PROVE  [i \in {i \in DOMAIN h : h[i].kind = "temp"} |-> h[i].reg] = << >>
<1>1. {i \in DOMAIN h : h[i].kind = "temp"} = {}
  OBVIOUS
<1>. QED
  BY <1>1

\* A step that leaves the temporaries of the active emitters alone.
LEMMA LoansKept ==
  ASSUME UNCHANGED <<leaked, ample>>, Borrowers' = Borrowers,
         \A i \in Borrowers : held'[i].reg = held[i].reg
  PROVE  UNCHANGED Pool!vars
<1>1. Loans' = Loans
  BY DEF Loans
<1>. QED
  BY <1>1, PoolVariables DEF Pool!vars, Loans, Borrowers

\* The contract's steps in terms of the allocator.
LEMMA LendMaps ==
  ASSUME ample, UNCHANGED <<ample, leaked>>, NEW h \in 1..MaxHeld, h \notin Borrowers,
         NEW b \in Bank, NEW r \in ToSet(Temps[b]), r \notin TempsHeld, r \notin leaked,
         Loans' = [g \in Borrowers \cup {h} |-> IF g = h THEN r ELSE Loans[g]]
  PROVE  Pool!Next
<1>1. DOMAIN Loans = Borrowers
  BY DEF Loans
<1>2. \E x \in ToSet(Temps[b]) \ ({Loans[i] : i \in DOMAIN Loans} \cup leaked) :
        Loans' = [g \in DOMAIN Loans \cup {h} |-> IF g = h THEN x ELSE Loans[g]]
  BY <1>1, LoanRange
<1>3. Pool!Lend(h, b)
  BY <1>1, <1>2 DEF Pool!Lend, Pool!Unavailable, Pool!Range, Loans, Borrowers
<1>. QED
  BY <1>3 DEF Pool!Next

LEMMA ReturnMaps ==
  ASSUME ample, UNCHANGED ample, NEW h \in 1..MaxHeld, h \in Borrowers,
         Loans' = [g \in Borrowers \ {h} |-> Loans[g]],
         leaked' = leaked \/ leaked' = leaked \cup {held[h].reg}
  PROVE  Pool!Next
<1>1. DOMAIN Loans = Borrowers /\ Loans[h] = held[h].reg
  BY DEF Loans
<1>2. Loans' = [g \in DOMAIN Loans \ {h} |-> Loans[g]]
  BY <1>1
<1>3. CASE leaked' = leaked
  <2>1. Pool!Return(h)
    BY <1>1, <1>2, <1>3 DEF Pool!Return, Pool!Restrict, Pool!Outside, Loans, Borrowers
  <2>. QED
    BY <2>1 DEF Pool!Next
<1>4. CASE leaked' = leaked \cup {held[h].reg}
  <2>1. Pool!Keep(h)
    BY <1>1, <1>2, <1>4 DEF Pool!Keep, Pool!Restrict, Pool!Outside, Loans, Borrowers
  <2>. QED
    BY <2>1 DEF Pool!Next
<1>. QED
  BY <1>3, <1>4

LEMMA RunOutMaps ==
  ASSUME CInv, NEW b \in Bank, ample, ample' = FALSE, ToSet(Temps[b]) \subseteq busy
  PROVE  Pool!Next
<1>1. ToSet(Temps[b]) \subseteq leaked \cup TempsHeld
  BY RegisterFacts DEF CInv, Promise, OnlyAssignmentsLeak, TempsHeld
<1>2. ToSet(Temps[b]) \subseteq {Loans[i] : i \in DOMAIN Loans} \cup leaked
  BY <1>1, LoanRange
<1>3. Pool!RunOut(b)
  BY <1>2 DEF Pool!RunOut, Pool!Unavailable, Pool!Range, Loans, Borrowers
<1>. QED
  BY <1>3 DEF Pool!Next

LEMMA NoPromiseMaps ==
  ASSUME ~ample, ~ample'
  PROVE  Pool!Next
BY DEF Pool!Next, Pool!NoPromise

LEMMA RestartMaps ==
  ASSUME \A i \in DOMAIN held' : held'[i].kind # "temp", leaked' = {}, ample' = TRUE
  PROVE  Pool!Next
<1>1. Loans' = << >>
  BY NoLoans DEF Loans, Borrowers, IsTemp
<1>2. Pool!Restart
  BY <1>1 DEF Pool!Restart, Loans, Borrowers
<1>. QED
  BY <1>2 DEF Pool!Next

\* An allocation is a loan, unless the file has run out.
LEMMA AcquireMaps ==
  ASSUME CInv, NEW b \in Bank, Acquire(b) \/ AcquireBySpilling(b)
  PROVE  Pool!Next
<1>. PICK r \in Reg, flag \in BOOLEAN :
       /\ \/ AllocateTemp(b, r) \/ AllocateSpareArg(b, r)
          \/ SpillRegister(b, r)
       /\ Push([kind |-> "temp", bank |-> b, reg |-> r, spoiled |-> flag])
       /\ UNCHANGED phase
  BY DEF Acquire, AcquireBySpilling
<1>. DEFINE h == [kind |-> "temp", bank |-> b, reg |-> r, spoiled |-> flag]
            n == Len(held)
<1>1. h \in Handle /\ h.kind = "temp" /\ h.reg = r
  BY DEF Handle, Kinds
<1>2. Push(h) /\ IInv
  BY DEF CInv
<1>. HIDE DEF h
<1>3. /\ n \in Nat /\ DOMAIN held = 1..n /\ DOMAIN held' = 1..n + 1
      /\ held'[n + 1] = h /\ \A i \in 1..n : held'[i] = held[i]
      /\ \A i \in DOMAIN held' : i \in 1..n \/ i = n + 1
  BY <1>1, <1>2, PushFacts
<1>4. n + 1 \in 1..MaxHeld
  BY <1>2, <1>3, RegisterAssumption DEF Push, RegisterAssumption
<1>5. CASE AllocateSpareArg(b, r) \/ SpillRegister(b, r)
  <2>1. ample' = FALSE /\ ToSet(Temps[b]) \subseteq busy
    BY <1>5 DEF AllocateSpareArg, SpillRegister, Exhausted
  <2>2. CASE ample
    BY <2>1, <2>2, RunOutMaps
  <2>3. CASE ~ample
    BY <2>1, <2>3, NoPromiseMaps
  <2>. QED
    BY <2>2, <2>3
<1>6. CASE AllocateTemp(b, r)
  <2>1. /\ r \in ToSet(Temps[b]) /\ r \notin busy /\ UNCHANGED <<ample, leaked>>
    BY <1>6 DEF AllocateTemp, FirstFree, ToSet
  <2>2. CASE ample
    <3>1. r \notin TempsHeld /\ r \notin leaked
      BY <1>2, <2>1, <2>2, AmpleFacts
    <3>. HIDE DEF n
    <3>2. n + 1 \notin Borrowers
      BY <1>3 DEF Borrowers
    <3>3. /\ Borrowers' = Borrowers \cup {n + 1}
          /\ held'[n + 1].reg = r
          /\ \A i \in Borrowers : held'[i].reg = held[i].reg
      <4>1. Borrowers' = {i \in DOMAIN held' : held'[i].kind = "temp"}
        BY DEF Borrowers, IsTemp
      <4>2. Borrowers = {i \in DOMAIN held : held[i].kind = "temp"}
        BY DEF Borrowers, IsTemp
      <4>. QED
        BY <1>1, <1>3, <4>1, <4>2
    <3>4. Loans' = [g \in Borrowers \cup {n + 1} |-> IF g = n + 1 THEN r ELSE Loans[g]]
      BY <3>2, <3>3 DEF Loans
    <3>. QED
      BY <1>4, <2>1, <2>2, <3>1, <3>2, <3>4, LendMaps
  <2>3. CASE ~ample
    BY <2>1, <2>3, NoPromiseMaps
  <2>. QED
    BY <2>2, <2>3
<1>. HIDE DEF n
<1>. QED
  BY <1>5, <1>6

\* The end of an emitter gives its register back or keeps it.
LEMMA ReleaseMaps ==
  ASSUME CInv, Release \/ EndAssignment
  PROVE  Pool!Next
<1>. DEFINE n == Len(held)
<1>1. /\ held # << >> /\ IsTemp(n) /\ Pop /\ UNCHANGED ample
      /\ leaked' = leaked \/ (ample => leaked' = leaked \cup {held[n].reg})
  BY HeldFacts DEF CInv, IInv, TypeOK, ReturnHeld, Release, EndAssignment, Top, IsTemp, allocator
<1>2. /\ n \in Nat /\ DOMAIN held = 1..n /\ n \in 1..n /\ DOMAIN held' = 1..n - 1
      /\ \A i \in 1..n - 1 : held'[i] = held[i] /\ i \in 1..n /\ i # n
  BY <1>1, HeldFacts DEF CInv, IInv, TypeOK, Pop
<1>3. n \in 1..MaxHeld
  <2>1. n <= MaxHeld /\ MaxHeld \in Nat
    BY RegisterAssumption DEF CInv, Promise, Bounded, RegisterAssumption
  <2>2. n \in Nat /\ n >= 1
    BY <1>2
  <2>. HIDE DEF n
  <2>. QED
    BY <2>1, <2>2
<1>. HIDE DEF n
<1>4. \A i \in 1..n : i # n => i \in 1..n - 1
  BY <1>2
<1>5. Borrowers' = Borrowers \ {n} /\ n \in Borrowers
  <2>1. Borrowers' = {i \in DOMAIN held' : held'[i].kind = "temp"}
    BY DEF Borrowers, IsTemp
  <2>2. Borrowers = {i \in DOMAIN held : held[i].kind = "temp"}
    BY DEF Borrowers, IsTemp
  <2>. QED
    BY <1>1, <1>2, <1>4, <2>1, <2>2 DEF IsTemp
<1>6. \A i \in Borrowers \ {n} : held'[i].reg = held[i].reg
  BY <1>2, <1>4 DEF Borrowers
<1>7. Loans' = [g \in Borrowers \ {n} |-> Loans[g]]
  BY <1>5, <1>6 DEF Loans
<1>8. CASE ample
  BY <1>1, <1>3, <1>5, <1>7, <1>8, ReturnMaps
<1>9. CASE ~ample
  BY <1>1, <1>9, NoPromiseMaps
<1>. QED
  BY <1>8, <1>9

LEMMA AbortMaps == Abort => Pool!Next
<1>. SUFFICES ASSUME Abort PROVE Pool!Next
  OBVIOUS
<1>1. (\A i \in DOMAIN held' : held'[i].kind # "temp") /\ leaked' = {} /\ ample' = TRUE
  BY DEF Abort
<1>. QED
  BY <1>1, RestartMaps

LEMMA BeginFunctionMaps ==
  ASSUME CInv, NEW b \in Bank, NEW n \in [Bank -> 0..MaxParams], BeginFunction(b, n)
  PROVE  Pool!Next
<1>1. /\ \A i \in DOMAIN held' : held'[i].kind # "temp"
      /\ leaked' = {} /\ ample' = (spilled' = {}) /\ spilled' \subseteq spilled
  BY DEF BeginFunction, Push
<1>2. CASE spilled' = {}
  BY <1>1, <1>2, RestartMaps
<1>3. CASE spilled' # {}
  <2>1. ~ample
    BY <1>1, <1>3, AmpleFacts DEF CInv
  <2>. QED
    BY <1>1, <1>3, <2>1, NoPromiseMaps
<1>. QED
  BY <1>2, <1>3

LEMMA EndFunctionMaps == CInv /\ EndFunction => UNCHANGED Pool!vars
<1>. SUFFICES ASSUME CInv, EndFunction PROVE UNCHANGED Pool!vars
  OBVIOUS
<1>1. /\ Len(held) = 1 /\ held[1].kind = "ret" /\ held' = << >> /\ UNCHANGED <<ample, leaked>>
  BY EndFunctionFacts DEF CInv
<1>2. Borrowers = {} /\ Borrowers' = {}
  BY <1>1 DEF CInv, IInv, TypeOK, Borrowers, IsTemp
<1>. QED
  BY <1>1, <1>2, LoansKept

LEMMA BeginCallMaps == CInv /\ BeginCall => UNCHANGED Pool!vars
<1>. SUFFICES ASSUME CInv, BeginCall PROVE UNCHANGED Pool!vars
  OBVIOUS
<1>. DEFINE n == Len(held)
<1>1. /\ n \in Nat /\ DOMAIN held = 1..n /\ DOMAIN held' = 1..n + 1
      /\ held'[n + 1].kind = "call"
      /\ \A i \in DOMAIN held' : i \in 1..n \/ i = n + 1
      /\ \A i \in 1..n : held'[i].kind = held[i].kind /\ held'[i].reg = held[i].reg
      /\ UNCHANGED <<leaked, ample>>
  BY EnterCallFacts DEF CInv, BeginCall, EnterCall
<1>. HIDE DEF n
<1>2. \A i \in 1..n : i \in 1..n + 1
  BY <1>1
<1>3. Borrowers' = {i \in DOMAIN held' : held'[i].kind = "temp"}
  BY DEF Borrowers, IsTemp
<1>4. Borrowers = {i \in DOMAIN held : held[i].kind = "temp"}
  BY DEF Borrowers, IsTemp
<1>5. Borrowers' = Borrowers /\ \A i \in Borrowers : held'[i].reg = held[i].reg
  BY <1>1, <1>2, <1>3, <1>4
<1>. QED
  BY <1>1, <1>5, LoansKept

LEMMA PassArgumentMaps ==
  ASSUME CInv, NEW b \in Bank, PassArgument(b)
  PROVE  UNCHANGED Pool!vars
<1>. PICK r \in Reg \cup {NoReg} :
       /\ Push([kind |-> "arg", bank |-> b, reg |-> r, spoiled |-> FALSE])
       /\ UNCHANGED <<phase, ample, leaked>>
  BY DEF PassArgument
<1>. DEFINE h == [kind |-> "arg", bank |-> b, reg |-> r, spoiled |-> FALSE]
            n == Len(held)
<1>1. h \in Handle /\ h.kind = "arg"
  BY DEF Handle, Kinds
<1>2. Push(h) /\ IInv
  BY DEF CInv
<1>. HIDE DEF h
<1>3. /\ n \in Nat /\ DOMAIN held = 1..n /\ DOMAIN held' = 1..n + 1
      /\ held'[n + 1] = h /\ \A i \in 1..n : held'[i] = held[i]
      /\ \A i \in DOMAIN held' : i \in 1..n \/ i = n + 1
  BY <1>1, <1>2, PushFacts
<1>. HIDE DEF n
<1>4. \A i \in 1..n : i \in 1..n + 1
  BY <1>3
<1>5. Borrowers' = {i \in DOMAIN held' : held'[i].kind = "temp"}
  BY DEF Borrowers, IsTemp
<1>6. Borrowers = {i \in DOMAIN held : held[i].kind = "temp"}
  BY DEF Borrowers, IsTemp
<1>7. Borrowers' = Borrowers /\ \A i \in Borrowers : held'[i].reg = held[i].reg
  BY <1>1, <1>3, <1>4, <1>5, <1>6
<1>. QED
  BY <1>7, LoansKept

LEMMA EndCallMaps == CInv /\ EndCall => UNCHANGED Pool!vars
<1>. SUFFICES ASSUME CInv, EndCall PROVE UNCHANGED Pool!vars
  OBVIOUS
<1>1. /\ DOMAIN held' \subseteq DOMAIN held /\ \A i \in DOMAIN held' : held'[i] = held[i]
      /\ UNCHANGED <<leaked, ample>>
  BY EndCallFacts DEF CInv
<1>2. PICK c \in DOMAIN held : Passing(c) /\ DOMAIN held' = 1..c - 1
  BY EndCallFacts DEF CInv
<1>3. \A i \in DOMAIN held : held[i].kind = "temp" => i \in DOMAIN held'
  <2>. SUFFICES ASSUME NEW i \in DOMAIN held, held[i].kind = "temp" PROVE i \in 1..c - 1
    BY <1>2
  <2>1. ~(i > c) /\ i # c
    BY <1>2 DEF Passing
  <2>2. DOMAIN held = 1..Len(held) /\ Len(held) \in Nat
    BY DEF CInv, IInv, TypeOK
  <2>. QED
    BY <2>1, <2>2
<1>4. Borrowers' = {i \in DOMAIN held' : held'[i].kind = "temp"}
  BY DEF Borrowers, IsTemp
<1>5. Borrowers = {i \in DOMAIN held : held[i].kind = "temp"}
  BY DEF Borrowers, IsTemp
<1>6. Borrowers' = Borrowers /\ \A i \in Borrowers : held'[i].reg = held[i].reg
  BY <1>1, <1>3, <1>4, <1>5
<1>. QED
  BY <1>1, <1>6, LoansKept

LEMMA LoadConstantMaps ==
  ASSUME CInv, NEW b \in Bank, LoadConstant(b)
  PROVE  UNCHANGED Pool!vars
<1>1. UNCHANGED <<held, ample, leaked>>
  BY LoadConstantFacts DEF CInv
<1>2. Borrowers' = Borrowers
  BY <1>1 DEF Borrowers, IsTemp
<1>. QED
  BY <1>1, <1>2, LoansKept

LEMMA NextMaps == CInv /\ [Next]_vars => [Pool!Next]_(Pool!vars)
<1>. SUFFICES ASSUME CInv, [Next]_vars PROVE Pool!Next \/ UNCHANGED Pool!vars
  OBVIOUS
<1>1. ASSUME NEW n \in [Bank -> 0..MaxParams], RejectParameters(n) PROVE Pool!Next
  BY <1>1, AbortMaps DEF RejectParameters
<1>2. ASSUME NEW n \in [Bank -> 0..MaxParams], NEW b \in Bank, BeginFunction(b, n)
      PROVE Pool!Next
  BY <1>2, BeginFunctionMaps
<1>3. CASE EndFunction
  BY <1>3, EndFunctionMaps
<1>4. CASE Release \/ EndAssignment
  BY <1>4, ReleaseMaps
<1>5. CASE BeginCall
  BY <1>5, BeginCallMaps
<1>6. CASE EndCall
  BY <1>6, EndCallMaps
<1>7. ASSUME NEW b \in Bank, Acquire(b) \/ AcquireBySpilling(b) PROVE Pool!Next
  BY <1>7, AcquireMaps
<1>8. ASSUME NEW b \in Bank, FailToSpill(b) \/ FailToLoadConstant(b) PROVE Pool!Next
  BY <1>8, AbortMaps DEF FailToSpill, FailToLoadConstant
<1>9. ASSUME NEW b \in Bank, LoadConstant(b) PROVE UNCHANGED Pool!vars
  BY <1>9, LoadConstantMaps
<1>10. ASSUME NEW b \in Bank, PassArgument(b) PROVE UNCHANGED Pool!vars
  BY <1>10, PassArgumentMaps
<1>11. CASE UNCHANGED vars
  <2>1. UNCHANGED <<held, ample, leaked>>
    BY <1>11 DEF vars
  <2>2. Borrowers' = Borrowers
    BY <2>1 DEF Borrowers, IsTemp
  <2>. QED
    BY <2>1, <2>2, LoansKept
<1>. QED
  BY <1>1, <1>2, <1>3, <1>4, <1>5, <1>6, <1>7, <1>8, <1>9, <1>10, <1>11
  DEF Next, Stopped

LEMMA InitMaps == Init => Pool!Init
<1>. SUFFICES ASSUME Init PROVE Pool!Init
  OBVIOUS
<1>1. held = << >> /\ leaked = {} /\ ample = TRUE
  BY DEF Init
<1>2. Loans = << >>
  BY <1>1, NoLoans DEF Loans, Borrowers, IsTemp
<1>. QED
  BY <1>1, <1>2 DEF Pool!Init, Loans, Borrowers

\* For any register files the allocator implements RegisterPool: a temporary
\* on loan is lent to nobody else until it is returned, and the promise ends
\* only when every temporary of a file is on loan or was kept.
THEOREM AllocatorKeepsContract == Spec => KeepsContract
<1>1. Init => Pool!Init
  BY InitMaps
<1>2. CInv /\ [Next]_vars => [Pool!Next]_(Pool!vars)
  BY NextMaps
<1>. QED
  BY <1>1, <1>2, PromiseInvariance, PTL DEF Spec, KeepsContract, Pool!Spec

=============================================================================
