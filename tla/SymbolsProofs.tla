---------------------------- MODULE SymbolsProofs ----------------------------
(***************************************************************************)
(* Proofs about the symbol tables, for any names, types and nesting: that  *)
(* lookup in the two stacks is lexical scoping for programs that use none  *)
(* of Features.                                                            *)
(***************************************************************************)
EXTENDS Symbols, DataLemmas

\* Where the function is says how many scopes are open.
ScopesOpen ==
  /\ phase = "global" => Depth = 1
  /\ phase = "parameters" => Depth = 2 /\ declaring = NoType
  /\ phase = "body" => Depth >= 3

SInv == TypeOK /\ ScopesOpen

-----------------------------------------------------------------------------
(* Lookup.                                                                 *)

\* A set of scopes that is not empty has an innermost one.
LEMMA InnermostExists ==
  \A k \in Nat : \A D \in SUBSET (1..k) :
    D # {} => \E i \in D : \A j \in D : j <= i
<1>. DEFINE S == {k \in Nat : \A D \in SUBSET (1..k) :
                    D # {} => \E i \in D : \A j \in D : j <= i}
<1>1. 0 \in S
  <2>1. 1..0 = {}
    OBVIOUS
  <2>. QED
    BY <2>1
<1>2. ASSUME NEW k \in Nat, k \in S PROVE k + 1 \in S
  <2>. SUFFICES ASSUME NEW D \in SUBSET (1..k + 1), D # {}
                PROVE  \E i \in D : \A j \in D : j <= i
    OBVIOUS
  <2>1. CASE k + 1 \in D
    BY <2>1
  <2>2. CASE k + 1 \notin D
    <3>1. \A i \in 1..k + 1 : i # k + 1 => i \in 1..k
      OBVIOUS
    <3>2. D \in SUBSET (1..k)
      BY <2>2, <3>1
    <3>. QED
      BY <1>2, <3>2
  <2>. QED
    BY <2>1, <2>2
<1>. HIDE DEF S
<1>3. \A k \in Nat : k \in S
  BY <1>1, <1>2, SetInduction
<1>. QED
  BY <1>3 DEF S

\* Lookup in two stacks T and E of tables and constants.
HasEnum(E, k, n)  == \E i \in 1..k : n \in E[i]
Places(T, k, n)   == {i \in 1..k : T[i][n] # Unknown}
Pointer(T, k, n)  == \E i \in Places(T, k, n) :
                       T[i][n].pointer /\ \A j \in Places(T, k, n) : j <= i
Innermost(T, k, n) == CHOOSE i \in Places(T, k, n) : \A j \in Places(T, k, n) : j <= i
Found(T, E, k, n) ==
  IF HasEnum(E, k, n)
  THEN [type |-> "int", place |-> "none", pointer |-> Pointer(T, k, n)]
  ELSE IF Places(T, k, n) = {} THEN Unknown
  ELSE [T[Innermost(T, k, n)][n] EXCEPT !.pointer = Pointer(T, k, n)]

Tables == Seq([Name -> Info \cup {Unknown}])

LEMMA UnknownFacts ==
  /\ \A x \in Info : x # Unknown
  /\ \A b \in BOOLEAN : [type |-> "int", place |-> "none", pointer |-> b] # Unknown
BY SymbolsAssumption DEF SymbolsAssumption, Info

LEMMA InnermostFacts ==
  ASSUME NEW T \in Tables, NEW k \in 0..Len(T), NEW n \in Name, Places(T, k, n) # {}
  PROVE  /\ Innermost(T, k, n) \in Places(T, k, n)
         /\ \A j \in Places(T, k, n) : j <= Innermost(T, k, n)
         /\ T[Innermost(T, k, n)][n] \in Info
<1>1. \E i \in Places(T, k, n) : \A j \in Places(T, k, n) : j <= i
  <2>1. k \in Nat /\ Places(T, k, n) \in SUBSET (1..k)
    BY DEF Places, Tables
  <2>. QED
    BY <2>1, InnermostExists
<1>2. /\ Innermost(T, k, n) \in Places(T, k, n)
      /\ \A j \in Places(T, k, n) : j <= Innermost(T, k, n)
  BY <1>1 DEF Innermost
<1>3. \A i \in Places(T, k, n) : T[i][n] \in Info
  BY DEF Places, Tables
<1>. QED
  BY <1>2, <1>3

\* The meaning of a name is what is found.
LEMMA MeaningFound ==
  ASSUME TypeOK, NEW k \in 0..Depth
  PROVE  Meaning(k) = [n \in Name |-> Found(tables, enums, k, n)]
<1>. SUFFICES ASSUME NEW n \in Name
              PROVE  (IF FindSymbol(k, n) = Unknown THEN Unknown
                      ELSE [FindSymbol(k, n) EXCEPT !.pointer = GetIsPointer(k, n)])
                     = Found(tables, enums, k, n)
  BY DEF Meaning
<1>1. /\ FindEnumVal(k, n) <=> HasEnum(enums, k, n)
      /\ Declares(k, n) = Places(tables, k, n)
  BY DEF FindEnumVal, HasEnum, Declares, Places
<1>2. GetIsPointer(k, n) = Pointer(tables, k, n)
  BY <1>1 DEF GetIsPointer, Pointer
<1>3. CASE HasEnum(enums, k, n)
  <2>1. FindSymbol(k, n) = [type |-> "int", place |-> "none", pointer |-> FALSE]
    BY <1>1, <1>3 DEF FindSymbol
  <2>2. FindSymbol(k, n) # Unknown
    BY <2>1, UnknownFacts
  <2>. QED
    BY <1>2, <1>3, <2>1, <2>2 DEF Found
<1>4. CASE ~HasEnum(enums, k, n) /\ Places(tables, k, n) = {}
  BY <1>1, <1>4 DEF FindSymbol, Found
<1>5. CASE ~HasEnum(enums, k, n) /\ Places(tables, k, n) # {}
  <2>1. FindSymbol(k, n) = tables[Innermost(tables, k, n)][n]
    BY <1>1, <1>5 DEF FindSymbol, Innermost
  <2>2. tables[Innermost(tables, k, n)][n] \in Info
    <3>1. tables \in Tables /\ k \in 0..Len(tables)
      BY DEF TypeOK, Tables, Depth
    <3>. QED
      BY <1>5, <3>1, InnermostFacts
  <2>3. FindSymbol(k, n) # Unknown
    BY <2>1, <2>2, UnknownFacts
  <2>. QED
    BY <1>2, <1>5, <2>1, <2>3 DEF Found
<1>. QED
  BY <1>3, <1>4, <1>5

\* Two pairs of stacks say the same of a name in their k outermost scopes.
Agree(T, E, U, F, k, n) ==
  \A i \in 1..k : T[i][n] = U[i][n] /\ (n \in E[i] <=> n \in F[i])

\* Equal entries, equal meanings.
LEMMA FoundSame ==
  ASSUME NEW T \in Tables, NEW E, NEW U, NEW F, NEW k \in 0..Len(T), NEW n \in Name,
         Agree(T, E, U, F, k, n)
  PROVE  /\ Found(T, E, k, n) = Found(U, F, k, n)
         /\ HasEnum(E, k, n) <=> HasEnum(F, k, n)
         /\ Pointer(T, k, n) <=> Pointer(U, k, n)
<1>1. Places(T, k, n) = Places(U, k, n)
  BY DEF Places, Agree
<1>2. HasEnum(E, k, n) <=> HasEnum(F, k, n)
  BY DEF HasEnum, Agree
<1>3. Pointer(T, k, n) = Pointer(U, k, n)
  <2>1. \A i \in Places(T, k, n) : T[i][n] = U[i][n]
    BY DEF Places, Agree
  <2>. QED
    BY <1>1, <2>1 DEF Pointer
<1>4. Innermost(T, k, n) = Innermost(U, k, n)
  BY <1>1 DEF Innermost
<1>5. Found(T, E, k, n) = Found(U, F, k, n)
  <2>1. CASE HasEnum(E, k, n)
    BY <1>2, <1>3, <2>1 DEF Found
  <2>2. CASE ~HasEnum(E, k, n) /\ Places(T, k, n) = {}
    BY <1>1, <1>2, <2>2 DEF Found
  <2>3. CASE ~HasEnum(E, k, n) /\ Places(T, k, n) # {}
    <3>1. ~HasEnum(F, k, n) /\ Places(U, k, n) # {}
      BY <1>1, <1>2, <2>3
    <3>2. Innermost(T, k, n) \in Places(T, k, n)
      BY <2>3, InnermostFacts
    <3>3. T[Innermost(T, k, n)][n] = U[Innermost(U, k, n)][n]
      BY <1>4, <3>2 DEF Places, Agree
    <3>. QED
      BY <1>3, <2>3, <3>1, <3>3 DEF Found
  <2>. QED
    BY <2>1, <2>2, <2>3
<1>. QED
  BY <1>2, <1>3, <1>5

\* A new scope changes no meaning.
LEMMA FoundOutside ==
  ASSUME NEW T \in Tables, NEW E, NEW k \in Nat, k + 1 <= Len(T), NEW n \in Name,
         T[k + 1][n] = Unknown, n \notin E[k + 1]
  PROVE  /\ Found(T, E, k + 1, n) = Found(T, E, k, n)
         /\ HasEnum(E, k + 1, n) <=> HasEnum(E, k, n)
         /\ Pointer(T, k + 1, n) <=> Pointer(T, k, n)
<1>1. (\A i \in 1..k + 1 : i \in 1..k \/ i = k + 1) /\ \A i \in 1..k : i \in 1..k + 1
  OBVIOUS
<1>2. Places(T, k + 1, n) = Places(T, k, n)
  BY <1>1 DEF Places
<1>3. HasEnum(E, k + 1, n) <=> HasEnum(E, k, n)
  BY <1>1 DEF HasEnum
<1>4. Pointer(T, k + 1, n) = Pointer(T, k, n)
  BY <1>2 DEF Pointer
<1>5. Innermost(T, k + 1, n) = Innermost(T, k, n)
  BY <1>2 DEF Innermost
<1>6. Found(T, E, k + 1, n) = Found(T, E, k, n)
  BY <1>2, <1>3, <1>4, <1>5, Zenon DEF Found
<1>. QED
  BY <1>3, <1>4, <1>6

\* A declaration is found.
LEMMA FoundHere ==
  ASSUME NEW T \in Tables, NEW E, NEW k \in 1..Len(T), NEW n \in Name,
         T[k][n] # Unknown, ~HasEnum(E, k, n)
  PROVE  Found(T, E, k, n) = T[k][n]
<1>1. Places(T, k, n) # {} /\ k \in Places(T, k, n) /\ \A i \in Places(T, k, n) : i <= k
  BY DEF Places
<1>2. Innermost(T, k, n) = k
  <2>1. /\ Innermost(T, k, n) \in Places(T, k, n)
        /\ \A j \in Places(T, k, n) : j <= Innermost(T, k, n)
    BY <1>1, InnermostFacts
  <2>2. Innermost(T, k, n) \in 1..k
    BY <2>1 DEF Places
  <2>. QED
    BY <1>1, <2>1, <2>2
<1>3. T[k][n] \in Info
  BY DEF Tables
<1>4. Pointer(T, k, n) = T[k][n].pointer
  <2>1. \A i \in Places(T, k, n) : (\A j \in Places(T, k, n) : j <= i) => i = k
    BY <1>1 DEF Places
  <2>. QED
    BY <1>1, <1>3, <2>1 DEF Pointer, Info
<1>5. [T[k][n] EXCEPT !.pointer = T[k][n].pointer] = T[k][n]
  BY <1>3 DEF Info
<1>. QED
  BY <1>1, <1>2, <1>4, <1>5 DEF Found

\* A constant is found before any variable.
LEMMA FoundConstant ==
  ASSUME NEW T, NEW E, NEW k, NEW n, HasEnum(E, k, n), ~Pointer(T, k, n)
  PROVE  Found(T, E, k, n) = [type |-> "int", place |-> "none", pointer |-> FALSE]
<1>1. Pointer(T, k, n) = FALSE
  BY DEF Pointer
<1>. QED
  BY <1>1 DEF Found

-----------------------------------------------------------------------------
(* What the operations do to the two stacks.                               *)

LEMMA PushFacts ==
  ASSUME TypeOK, PushScope
  PROVE  /\ tables' \in Tables /\ enums' \in Seq(SUBSET Name)
         /\ Len(enums') = Len(tables') /\ Depth' = Depth + 1 /\ Depth \in Nat
         /\ \A i \in 1..Depth : tables'[i] = tables[i] /\ enums'[i] = enums[i]
         /\ \A n \in Name : tables'[Depth + 1][n] = Unknown /\ n \notin enums'[Depth + 1]
<1>1. NewTable \in [Name -> Info \cup {Unknown}]
  BY DEF NewTable
<1>2. /\ tables \in Seq([Name -> Info \cup {Unknown}]) /\ enums \in Seq(SUBSET Name)
      /\ Len(tables) = Len(enums)
      /\ tables' = Append(tables, NewTable) /\ enums' = Append(enums, {})
  BY DEF TypeOK, PushScope
<1>3. /\ tables' \in Seq([Name -> Info \cup {Unknown}]) /\ enums' \in Seq(SUBSET Name)
      /\ Len(tables') = Len(tables) + 1 /\ Len(enums') = Len(tables) + 1 /\ Len(tables) \in Nat
      /\ \A i \in 1..Len(tables) : tables'[i] = tables[i] /\ enums'[i] = enums[i]
      /\ tables'[Len(tables) + 1] = NewTable /\ enums'[Len(tables) + 1] = {}
  BY <1>1, <1>2
<1>4. \A n \in Name : NewTable[n] = Unknown
  BY DEF NewTable
<1>. QED
  BY <1>3, <1>4 DEF Tables, Depth

LEMMA PopFacts ==
  ASSUME TypeOK, NEW k \in Nat, k < Depth, PopScopes(k)
  PROVE  /\ tables' \in Tables /\ enums' \in Seq(SUBSET Name)
         /\ Len(enums') = Len(tables') /\ Depth' = Depth - k /\ Depth \in Nat /\ Depth' \in Nat
         /\ \A i \in 1..Depth - k : tables'[i] = tables[i] /\ enums'[i] = enums[i]
<1>1. /\ tables \in Seq([Name -> Info \cup {Unknown}]) /\ enums \in Seq(SUBSET Name)
      /\ Len(tables) = Len(enums) /\ Len(tables) \in Nat /\ k < Len(tables)
      /\ tables' = SubSeq(tables, 1, Len(tables) - k)
      /\ enums' = SubSeq(enums, 1, Len(tables) - k)
  BY DEF TypeOK, PopScopes, Depth
<1>2. /\ tables' \in Seq([Name -> Info \cup {Unknown}]) /\ enums' \in Seq(SUBSET Name)
      /\ Len(tables') = Len(tables) - k /\ Len(enums') = Len(tables) - k
      /\ \A i \in 1..Len(tables) - k : tables'[i] = tables[i] /\ enums'[i] = enums[i]
  BY <1>1
<1>. QED
  BY <1>1, <1>2 DEF Tables, Depth

LEMMA EnterFacts ==
  ASSUME TypeOK, NEW n \in Name, NEW info \in Info, Enter(n, info)
  PROVE  /\ tables' \in Tables /\ Len(tables') = Len(tables) /\ Depth' = Depth
         /\ Depth \in Nat /\ Depth >= 1
         /\ tables'[Depth][n] = info /\ tables[Depth][n] = Unknown
         /\ \A i \in 1..Depth : i # Depth => tables'[i] = tables[i]
         /\ \A m \in Name : m # n => tables'[Depth][m] = tables[Depth][m]
<1>. DEFINE row == [tables[Depth] EXCEPT ![n] = info]
<1>1. /\ tables \in Seq([Name -> Info \cup {Unknown}]) /\ Depth \in Nat /\ Depth >= 1
      /\ Depth = Len(tables) /\ tables[Depth] \in [Name -> Info \cup {Unknown}]
  BY DEF TypeOK, Depth
<1>2. row \in [Name -> Info \cup {Unknown}] /\ row[n] = info
      /\ \A m \in Name : m # n => row[m] = tables[Depth][m]
  BY <1>1
<1>3. tables' = [tables EXCEPT ![Depth] = row]
  BY DEF Enter
<1>. HIDE DEF row
<1>4. /\ tables' \in Seq([Name -> Info \cup {Unknown}]) /\ Len(tables') = Len(tables)
      /\ tables'[Depth] = row
      /\ \A i \in 1..Depth : i # Depth => tables'[i] = tables[i]
  BY <1>1, <1>2, <1>3
<1>5. tables[Depth][n] = Unknown
  BY DEF Enter, Fresh
<1>. QED
  BY <1>1, <1>2, <1>4, <1>5 DEF Tables, Depth

LEMMA VariableInfo ==
  ASSUME NEW t \in Type, NEW place \in {"global", "local"}, NEW pointer \in BOOLEAN
  PROVE  Variable(t, place, pointer) \in Info
BY DEF Variable, Info

LEMMA DeclarePlace ==
  ASSUME NEW n \in Name, DeclareEnumerator(n), TypeOK
  PROVE  /\ enums' \in Seq(SUBSET Name) /\ Len(enums') = Len(enums)
         /\ Depth \in Nat /\ Depth >= 1
         /\ enums'[Depth] = enums[Depth] \cup {n}
         /\ \A i \in 1..Depth : i # Depth => enums'[i] = enums[i]
<1>1. /\ enums \in Seq(SUBSET Name) /\ Depth \in Nat /\ Depth >= 1 /\ Depth = Len(enums)
      /\ enums[Depth] \in SUBSET Name
  BY DEF TypeOK, Depth
<1>2. enums' = [enums EXCEPT ![Depth] = enums[Depth] \cup {n}]
  BY DEF DeclareEnumerator
<1>3. enums[Depth] \cup {n} \in SUBSET Name
  BY <1>1
<1>. QED
  BY <1>1, <1>2, <1>3

-----------------------------------------------------------------------------
(* The stacks keep their shape, whatever the program.                      *)

LEMMA SymbolsShape == SInv /\ [Next]_vars => SInv'
<1>. SUFFICES ASSUME SInv, [Next]_vars PROVE SInv'
  OBVIOUS
<1>. USE DEF SInv
<1>1. CASE BeginBody
  BY <1>1, PushFacts DEF BeginBody, TypeOK, ScopesOpen, Tables, Depth
<1>2. CASE EndFunction
  <2>1. PopScopes(2) /\ 2 < Depth /\ Depth = 3 /\ phase' = "global"
        /\ UNCHANGED <<current, declaring>>
    BY <1>2 DEF EndFunction
  <2>2. tables' \in Tables /\ enums' \in Seq(SUBSET Name)
        /\ Len(enums') = Len(tables') /\ Depth' = 1
    BY <2>1, PopFacts
  <2>. QED
    BY <2>1, <2>2 DEF TypeOK, ScopesOpen, Tables, Depth
<1>3. CASE OpenScope
  BY <1>3, PushFacts DEF OpenScope, TypeOK, ScopesOpen, Tables, Depth
<1>4. CASE CloseScope
  <2>1. PopScopes(1) /\ 1 < Depth /\ Depth > 3 /\ phase' = "body" /\ phase = "body"
        /\ UNCHANGED <<current, declaring>>
    BY <1>4 DEF CloseScope, TypeOK, Depth
  <2>2. tables' \in Tables /\ enums' \in Seq(SUBSET Name)
        /\ Len(enums') = Len(tables') /\ Depth' = Depth - 1 /\ Depth \in Nat
    BY <2>1, PopFacts
  <2>. QED
    BY <2>1, <2>2 DEF TypeOK, ScopesOpen, Tables, Depth
<1>5. CASE EndDeclaration
  BY <1>5 DEF EndDeclaration, TypeOK, ScopesOpen, Depth
<1>6. CASE CompareDoubles
  BY <1>6, SymbolsAssumption DEF SymbolsAssumption, CompareDoubles, TypeOK, ScopesOpen, Depth
<1>7. CASE FailToLoadConstant
  BY <1>7 DEF FailToLoadConstant, TypeOK, ScopesOpen, Depth
<1>8. ASSUME NEW t \in Type, BeginFunction(t) PROVE SInv'
  <2>1. PushScope /\ phase = "global" /\ phase' = "parameters" /\ current' = t
        /\ declaring = NoType /\ declaring' = NoType
    BY <1>8 DEF BeginFunction
  <2>. QED
    BY <2>1, PushFacts DEF TypeOK, ScopesOpen, Tables, Depth
<1>9. ASSUME NEW t \in Type, BeginDeclaration(t) \/ ForCondition(t) PROVE SInv'
  BY <1>9 DEF BeginDeclaration, ForCondition, TypeOK, ScopesOpen, Depth
<1>10. ASSUME NEW n \in Name, DeclareEnumerator(n) PROVE SInv'
  BY <1>10, DeclarePlace DEF DeclareEnumerator, TypeOK, ScopesOpen, Depth
<1>11. ASSUME NEW n \in Name, NEW pointer \in BOOLEAN, Declarator(n, pointer) PROVE SInv'
  <2>1. \E info \in Info : Enter(n, info)
    <3>1. /\ Variable(current, "local", pointer) \in Info
          /\ Variable(current, "global", FALSE) \in Info
      BY VariableInfo DEF TypeOK
    <3>. QED
      BY <1>11, <3>1 DEF Declarator
  <2>2. tables' \in Tables /\ Len(tables') = Len(tables)
    BY <2>1, EnterFacts
  <2>. QED
    BY <1>11, <2>2 DEF Declarator, TypeOK, ScopesOpen, Tables, Depth
<1>12. ASSUME NEW n \in Name, NEW pointer \in BOOLEAN, NEW t \in Type, Parameter(n, t, pointer)
       PROVE SInv'
  <2>1. Variable(t, "local", pointer) \in Info /\ Enter(n, Variable(t, "local", pointer))
    BY <1>12, VariableInfo DEF Parameter
  <2>2. tables' \in Tables /\ Len(tables') = Len(tables)
    BY <2>1, EnterFacts
  <2>. QED
    BY <1>12, <2>2 DEF Parameter, TypeOK, ScopesOpen, Tables, Depth
<1>13. CASE UNCHANGED vars
  BY <1>13 DEF vars, TypeOK, ScopesOpen, Depth
<1>. QED
  BY <1>1, <1>2, <1>3, <1>4, <1>5, <1>6, <1>7, <1>8, <1>9, <1>10, <1>11, <1>12, <1>13
  DEF Next, Stopped

LEMMA InitShape == Init => SInv
BY DEF Init, SInv, TypeOK, ScopesOpen, NewTable, Depth

LEMMA ShapeInvariance == Spec => []SInv
BY InitShape, SymbolsShape, PTL DEF Spec

\* The two stacks are as high as each other, with a global scope at the
\* bottom, and hold what they should: for every program, pitfalls included.
THEOREM TypeCorrect == Spec => []TypeOK
<1>1. SInv => TypeOK
  BY DEF SInv
<1>. QED
  BY <1>1, ShapeInvariance, PTL

-----------------------------------------------------------------------------
(* Programs without pitfalls are lexically scoped.                         *)

\* No declaration hides an enumeration constant of an open scope, and no
\* constant has the name of a pointer around it.
Visible(T, E) ==
  \A k \in 1..Len(T), n \in Name :
    HasEnum(E, k, n) => T[k][n] = Unknown /\ ~Pointer(T, k, n)
ConstantsVisible == Visible(tables, enums)

\* The current type is the one the declaration was written with.
TypeKept == declaring # NoType => current = declaring

LInv == SInv /\ ConstantsVisible /\ TypeKept

LEMMA StacksTyped ==
  ASSUME TypeOK
  PROVE  /\ tables \in Tables /\ enums \in Seq(SUBSET Name)
         /\ Depth = Len(tables) /\ Depth \in Nat /\ Depth >= 1
         /\ Depth \in 1..Depth /\ 0..Depth = 0..Len(tables)
         /\ \A k \in 1..Depth : k \in 0..Len(tables)
BY DEF TypeOK, Tables, Depth

LEMMA PushEffect ==
  ASSUME TypeOK, ConstantsVisible, PushScope
  PROVE  /\ \A k \in 1..Depth, n \in Name :
              Found(tables', enums', k, n) = Found(tables, enums, k, n)
         /\ \A n \in Name :
              Found(tables', enums', Depth + 1, n) = Found(tables, enums, Depth, n)
         /\ ConstantsVisible'
<1>. DEFINE d == Depth
<1>1. /\ tables' \in Tables /\ Len(tables') = d + 1 /\ d \in Nat /\ d >= 1 /\ Depth' = d + 1
      /\ \A i \in 1..d : tables'[i] = tables[i] /\ enums'[i] = enums[i]
      /\ \A n \in Name : tables'[d + 1][n] = Unknown /\ n \notin enums'[d + 1]
  BY PushFacts, StacksTyped DEF Depth
<1>. HIDE DEF d
<1>2. ASSUME NEW k \in 1..d, NEW n \in Name
      PROVE  /\ Found(tables', enums', k, n) = Found(tables, enums, k, n)
             /\ HasEnum(enums', k, n) <=> HasEnum(enums, k, n)
             /\ Pointer(tables', k, n) <=> Pointer(tables, k, n)
  <2>1. Agree(tables', enums', tables, enums, k, n)
    BY <1>1 DEF Agree
  <2>2. k \in 0..Len(tables')
    BY <1>1
  <2>. QED
    BY <1>1, <2>1, <2>2, FoundSame
<1>3. ASSUME NEW n \in Name
      PROVE  /\ Found(tables', enums', d + 1, n) = Found(tables', enums', d, n)
             /\ HasEnum(enums', d + 1, n) <=> HasEnum(enums', d, n)
             /\ Pointer(tables', d + 1, n) <=> Pointer(tables', d, n)
  BY <1>1, FoundOutside
<1>4. ConstantsVisible'
  <2>. SUFFICES ASSUME NEW k \in 1..d + 1, NEW n \in Name, HasEnum(enums', k, n)
                PROVE  tables'[k][n] = Unknown /\ ~Pointer(tables', k, n)
    BY <1>1 DEF ConstantsVisible, Visible
  <2>1. CASE k \in 1..d
    BY <1>1, <1>2, <2>1 DEF ConstantsVisible, Visible, Depth, d
  <2>2. CASE k = d + 1
    <3>1. d \in 1..d
      BY <1>1
    <3>2. HasEnum(enums, d, n)
      BY <1>2, <1>3, <2>2, <3>1
    <3>3. ~Pointer(tables, d, n)
      BY <3>1, <3>2 DEF ConstantsVisible, Visible, Depth, d
    <3>. QED
      BY <1>1, <1>2, <1>3, <2>2, <3>1, <3>3
  <2>. QED
    BY <1>1, <2>1, <2>2
<1>5. d \in 1..d
  BY <1>1
<1>. QED
  BY <1>2, <1>3, <1>4, <1>5 DEF d

LEMMA PopEffect ==
  ASSUME TypeOK, ConstantsVisible, NEW p \in Nat, p < Depth, PopScopes(p)
  PROVE  /\ \A k \in 1..Depth - p, n \in Name :
              Found(tables', enums', k, n) = Found(tables, enums, k, n)
         /\ ConstantsVisible'
<1>. DEFINE d == Depth
<1>1. /\ tables' \in Tables /\ Len(tables') = d - p /\ d \in Nat /\ Depth' = d - p /\ d - p \in Nat
      /\ \A i \in 1..d - p : tables'[i] = tables[i] /\ enums'[i] = enums[i]
  BY PopFacts DEF Depth
<1>. HIDE DEF d
<1>2. ASSUME NEW k \in 1..d - p, NEW n \in Name
      PROVE  /\ Found(tables', enums', k, n) = Found(tables, enums, k, n)
             /\ HasEnum(enums', k, n) <=> HasEnum(enums, k, n)
             /\ Pointer(tables', k, n) <=> Pointer(tables, k, n)
  <2>1. Agree(tables', enums', tables, enums, k, n)
    BY <1>1 DEF Agree
  <2>2. k \in 0..Len(tables')
    BY <1>1
  <2>. QED
    BY <1>1, <2>1, <2>2, FoundSame
<1>3. \A k \in 1..d - p : k \in 1..d
  BY <1>1
<1>4. ConstantsVisible'
  <2>. SUFFICES ASSUME NEW k \in 1..d - p, NEW n \in Name, HasEnum(enums', k, n)
                PROVE  tables'[k][n] = Unknown /\ ~Pointer(tables', k, n)
    BY <1>1 DEF ConstantsVisible, Visible
  <2>. QED
    BY <1>1, <1>2, <1>3 DEF ConstantsVisible, Visible, Depth, d
<1>. QED
  BY <1>2, <1>4 DEF d

LEMMA EnterEffect ==
  ASSUME Pitfalls = {}, TypeOK, ConstantsVisible, NEW n \in Name, NEW info \in Info,
         Enter(n, info), UNCHANGED enums
  PROVE  /\ \A k \in 1..Depth, m \in Name :
              k # Depth \/ m # n =>
                Found(tables', enums', k, m) = Found(tables, enums, k, m)
         /\ Found(tables', enums', Depth, n) = info
         /\ ConstantsVisible'
<1>. DEFINE d == Depth
<1>1. /\ tables' \in Tables /\ Len(tables') = d /\ Depth' = d /\ d \in Nat /\ d >= 1
      /\ tables'[d][n] = info /\ tables[d][n] = Unknown
      /\ \A i \in 1..d : i # d => tables'[i] = tables[i]
      /\ \A m \in Name : m # n => tables'[d][m] = tables[d][m]
  BY EnterFacts, StacksTyped
<1>2. ~HasEnum(enums, d, n)
  BY DEF Enter, FindEnumVal, HasEnum
<1>3. enums' = enums
  OBVIOUS
<1>. HIDE DEF d
<1>4. ASSUME NEW k \in 1..d, NEW m \in Name, k # d \/ m # n
      PROVE  /\ Found(tables', enums', k, m) = Found(tables, enums, k, m)
             /\ Pointer(tables', k, m) <=> Pointer(tables, k, m)
             /\ tables'[k][m] = tables[k][m]
  <2>1. ASSUME NEW i \in 1..k PROVE tables'[i][m] = tables[i][m]
    <3>1. CASE m # n
      BY <1>1, <3>1
    <3>2. CASE k # d
      <4>1. i \in 1..d /\ i # d
        BY <1>1, <3>2
      <4>. QED
        BY <1>1, <4>1
    <3>. QED
      BY <1>4, <3>1, <3>2
  <2>2. k \in 0..Len(tables') /\ k \in 1..k
    BY <1>1
  <2>3. Agree(tables', enums', tables, enums, k, m)
    BY <1>3, <2>1 DEF Agree
  <2>4. tables'[k][m] = tables[k][m]
    BY <2>1, <2>2
  <2>5. /\ Found(tables', enums', k, m) = Found(tables, enums, k, m)
        /\ Pointer(tables', k, m) <=> Pointer(tables, k, m)
    BY <1>1, <2>2, <2>3, FoundSame
  <2>. QED
    BY <2>4, <2>5
<1>5. Found(tables', enums', d, n) = info
  <2>1. tables'[d][n] # Unknown
    BY <1>1, UnknownFacts
  <2>2. d \in 1..Len(tables')
    BY <1>1
  <2>. QED
    BY <1>1, <1>2, <1>3, <2>1, <2>2, FoundHere
<1>6. ConstantsVisible'
  <2>. SUFFICES ASSUME NEW k \in 1..d, NEW m \in Name, HasEnum(enums, k, m)
                PROVE  tables'[k][m] = Unknown /\ ~Pointer(tables', k, m)
    BY <1>1, <1>3 DEF ConstantsVisible, Visible
  <2>1. k # d \/ m # n
    BY <1>2
  <2>. QED
    BY <1>4, <2>1 DEF ConstantsVisible, Visible, Depth, d
<1>. QED
  BY <1>4, <1>5, <1>6 DEF d

LEMMA ConstantEffect ==
  ASSUME Pitfalls = {}, TypeOK, ConstantsVisible, NEW n \in Name, DeclareEnumerator(n)
  PROVE  /\ \A k \in 1..Depth, m \in Name :
              k # Depth \/ m # n =>
                Found(tables', enums', k, m) = Found(tables, enums, k, m)
         /\ Found(tables', enums', Depth, n)
              = [type |-> "int", place |-> "none", pointer |-> FALSE]
         /\ ConstantsVisible'
<1>. DEFINE d == Depth
<1>1. /\ tables \in Tables /\ Len(tables) = d /\ d \in Nat /\ d >= 1
      /\ enums'[d] = enums[d] \cup {n}
      /\ \A i \in 1..d : i # d => enums'[i] = enums[i]
  BY DeclarePlace, StacksTyped
<1>2. tables' = tables /\ Depth' = d
  BY DEF DeclareEnumerator, Depth
<1>3. tables[d][n] = Unknown /\ ~Pointer(tables, d, n)
  BY DEF DeclareEnumerator, Fresh, GetIsPointer, Pointer, Places, Declares
<1>. HIDE DEF d
<1>4. ASSUME NEW k \in 1..d, NEW m \in Name, k # d \/ m # n
      PROVE  /\ Found(tables', enums', k, m) = Found(tables, enums, k, m)
             /\ HasEnum(enums', k, m) <=> HasEnum(enums, k, m)
  <2>1. ASSUME NEW i \in 1..k PROVE m \in enums'[i] <=> m \in enums[i]
    <3>1. CASE m # n
      BY <1>1, <3>1
    <3>2. CASE k # d
      <4>1. i \in 1..d /\ i # d
        BY <1>1, <3>2
      <4>. QED
        BY <1>1, <4>1
    <3>. QED
      BY <1>4, <3>1, <3>2
  <2>2. k \in 0..Len(tables)
    BY <1>1
  <2>3. Agree(tables, enums, tables, enums', k, m)
    BY <2>1 DEF Agree
  <2>4. /\ Found(tables, enums, k, m) = Found(tables, enums', k, m)
        /\ HasEnum(enums, k, m) <=> HasEnum(enums', k, m)
    BY <1>1, <2>2, <2>3, FoundSame
  <2>. QED
    BY <1>2, <2>4
<1>5. Found(tables', enums', d, n) = [type |-> "int", place |-> "none", pointer |-> FALSE]
  <2>1. HasEnum(enums', d, n)
    BY <1>1 DEF HasEnum
  <2>. QED
    BY <1>2, <1>3, <2>1, FoundConstant
<1>6. ConstantsVisible'
  <2>. SUFFICES ASSUME NEW k \in 1..d, NEW m \in Name, HasEnum(enums', k, m)
                PROVE  tables[k][m] = Unknown /\ ~Pointer(tables, k, m)
    BY <1>1, <1>2 DEF ConstantsVisible, Visible
  <2>1. CASE k = d /\ m = n
    BY <1>3, <2>1
  <2>2. CASE k # d \/ m # n
    BY <1>4, <2>2 DEF ConstantsVisible, Visible, Depth, d
  <2>. QED
    BY <2>1, <2>2
<1>. QED
  BY <1>4, <1>5, <1>6 DEF d

-----------------------------------------------------------------------------
(* The refinement mapping: what every name means now, and what it meant    *)
(* when each open scope was opened.                                        *)

Named(T, E, k) == [n \in Name |-> Found(T, E, k, n)]
Now   == Named(tables, enums, Depth)
Saved == [i \in 1..Depth - 1 |-> Named(tables, enums, i)]

MapsTo ==
  /\ Meaning(Depth) = Now
  /\ [i \in 1..Depth - 1 |-> Meaning(i)] = Saved

LEMMA Meanings == TypeOK => MapsTo
<1>. SUFFICES ASSUME TypeOK PROVE MapsTo
  OBVIOUS
<1>1. \A k \in 0..Depth : Meaning(k) = Named(tables, enums, k)
  BY MeaningFound DEF Named
<1>2. Depth \in 0..Depth /\ \A i \in 1..Depth - 1 : i \in 0..Depth
  BY StacksTyped
<1>. QED
  BY <1>1, <1>2 DEF MapsTo, Now, Saved

LEMMA MeaningsNext == TypeOK' => MapsTo'
BY Meanings, PTL

\* Lists as functions.
LEMMA ListAppended ==
  ASSUME NEW d \in Nat, NEW s, s = [i \in 1..d |-> s[i]], NEW x
  PROVE  Append(s, x) = [i \in 1..d + 1 |-> IF i = d + 1 THEN x ELSE s[i]]
<1>. DEFINE S == {s[i] : i \in 1..d} \cup {x}
            more == [i \in 1..d + 1 |-> IF i = d + 1 THEN x ELSE s[i]]
<1>1. s \in Seq(S) /\ Len(s) = d /\ x \in S
  OBVIOUS
<1>2. Append(s, x) \in Seq(S) /\ Len(Append(s, x)) = d + 1
      /\ \A i \in 1..d + 1 : Append(s, x)[i] = IF i = d + 1 THEN x ELSE s[i]
  BY <1>1
<1>3. DOMAIN Append(s, x) = 1..d + 1 /\ Append(s, x) = [i \in 1..d + 1 |-> Append(s, x)[i]]
  BY <1>2
<1>. QED
  BY <1>2, <1>3

LEMMA ListPrefix ==
  ASSUME NEW d \in Nat, NEW s, s = [i \in 1..d |-> s[i]], NEW p \in 0..d
  PROVE  SubSeq(s, 1, p) = [i \in 1..p |-> s[i]]
<1>. DEFINE S == {s[i] : i \in 1..d}
<1>1. s \in Seq(S) /\ Len(s) = d
  OBVIOUS
<1>2. SubSeq(s, 1, p) \in Seq(S) /\ Len(SubSeq(s, 1, p)) = p
      /\ \A i \in 1..p : SubSeq(s, 1, p)[i] = s[i]
  BY <1>1
<1>3. SubSeq(s, 1, p) = [i \in 1..p |-> SubSeq(s, 1, p)[i]]
  BY <1>2
<1>. QED
  BY <1>2, <1>3

\* Opening a scope.
LEMMA EnterMaps ==
  ASSUME TypeOK, TypeOK', ConstantsVisible, PushScope, UNCHANGED declaring
  PROVE  Lexical!Enter
<1>1. Depth' = Depth + 1 /\ Depth \in Nat /\ Depth >= 1
  BY PushFacts, StacksTyped
<1>2. Now' = Now
  <2>1. \A n \in Name : Found(tables', enums', Depth + 1, n) = Found(tables, enums, Depth, n)
    BY PushEffect
  <2>. QED
    BY <1>1, <2>1 DEF Now, Named
<1>3. Saved' = Append(Saved, Now)
  <2>1. \A k \in 1..Depth : Named(tables', enums', k) = Named(tables, enums, k)
    BY PushEffect DEF Named
  <2>2. Saved' = [i \in 1..Depth |-> Named(tables', enums', i)]
    BY <1>1 DEF Saved
  <2>3. Append(Saved, Now) = [i \in 1..Depth |-> Named(tables, enums, i)]
    <3>1. Saved = [i \in 1..Depth - 1 |-> Named(tables, enums, i)] /\ Now = Named(tables, enums, Depth)
      BY DEF Saved, Now
    <3>2. Append(Saved, Now) = [i \in 1..(Depth - 1) + 1 |-> IF i = (Depth - 1) + 1 THEN Now ELSE Saved[i]]
      <4>1. Depth - 1 \in Nat /\ Saved = [i \in 1..Depth - 1 |-> Saved[i]]
        BY <1>1, <3>1
      <4>. QED
        BY <4>1, ListAppended
    <3>. QED
      BY <1>1, <3>1, <3>2
  <2>. QED
    BY <2>1, <2>2, <2>3
<1>. QED
  BY <1>2, <1>3, Meanings, MeaningsNext DEF MapsTo, Lexical!Enter

\* Leaving k scopes.
LEMMA LeaveMaps ==
  ASSUME TypeOK, TypeOK', ConstantsVisible, NEW k \in 1..Depth - 1, PopScopes(k),
         UNCHANGED declaring
  PROVE  \E j \in 1..Len([i \in 1..Depth - 1 |-> Meaning(i)]) : Lexical!Leave(j)
<1>1. Depth' = Depth - k /\ Depth \in Nat /\ Depth >= 1 /\ k \in Nat /\ k < Depth
  <2>1. k \in Nat /\ k < Depth /\ Depth \in Nat /\ Depth >= 1
    BY StacksTyped
  <2>. QED
    BY <2>1, PopFacts
<1>2. \A i \in 1..Depth - k : Named(tables', enums', i) = Named(tables, enums, i)
  BY <1>1, PopEffect DEF Named
<1>3. /\ DOMAIN Saved = 1..Depth - 1 /\ Len(Saved) = Depth - 1
      /\ \A i \in 1..Depth - 1 : Saved[i] = Named(tables, enums, i)
  BY <1>1 DEF Saved
<1>4. Now' = Saved[Len(Saved) + 1 - k]
  <2>1. Len(Saved) + 1 - k = Depth - k /\ Depth - k \in 1..Depth - 1 /\ Depth - k \in 1..Depth - k
    BY <1>1, <1>3
  <2>. QED
    BY <1>1, <1>2, <1>3, <2>1 DEF Now
<1>5. Saved' = SubSeq(Saved, 1, Len(Saved) - k)
  <2>1. Saved' = [i \in 1..(Depth - k) - 1 |-> Named(tables', enums', i)]
    BY <1>1 DEF Saved
  <2>2. \A i \in 1..(Depth - k) - 1 : i \in 1..Depth - k /\ i \in 1..Depth - 1
    BY <1>1
  <2>3. Saved' = [i \in 1..(Depth - k) - 1 |-> Saved[i]]
    BY <1>2, <1>3, <2>1, <2>2
  <2>4. SubSeq(Saved, 1, Len(Saved) - k) = [i \in 1..(Depth - k) - 1 |-> Saved[i]]
    <3>1. /\ Depth - 1 \in Nat /\ (Depth - k) - 1 \in 0..Depth - 1
          /\ Len(Saved) - k = (Depth - k) - 1
      BY <1>1, <1>3
    <3>2. Saved = [i \in 1..Depth - 1 |-> Saved[i]]
      BY <1>3 DEF Saved
    <3>. QED
      BY <3>1, <3>2, ListPrefix
  <2>. QED
    BY <2>3, <2>4
<1>6. Lexical!Leave(k)
  BY <1>4, <1>5, Meanings, MeaningsNext DEF MapsTo, Lexical!Leave
<1>. QED
  BY <1>3, <1>6, Meanings DEF MapsTo

\* Binding one name.
LEMMA BindMaps ==
  ASSUME TypeOK, TypeOK', NEW n \in Name, NEW d, Depth' = Depth,
         \A k \in 1..Depth, m \in Name :
           k # Depth \/ m # n => Found(tables', enums', k, m) = Found(tables, enums, k, m),
         Found(tables', enums', Depth, n) = d
  PROVE  /\ Lexical!Bind(n, d)
         /\ UNCHANGED [i \in 1..Depth - 1 |-> Meaning(i)]
<1>1. Depth \in Nat /\ Depth >= 1 /\ Depth \in 1..Depth
  BY StacksTyped
<1>2. Now' = [Now EXCEPT ![n] = d]
  <2>1. Now' = [m \in Name |-> Found(tables', enums', Depth, m)]
    BY DEF Now, Named
  <2>2. \A m \in Name : Found(tables', enums', Depth, m)
          = IF m = n THEN d ELSE Found(tables, enums, Depth, m)
    BY <1>1
  <2>. QED
    BY <2>1, <2>2 DEF Now, Named
<1>3. Saved' = Saved
  <2>1. \A i \in 1..Depth - 1 : i \in 1..Depth /\ i # Depth
    BY <1>1
  <2>2. \A i \in 1..Depth - 1 : Named(tables', enums', i) = Named(tables, enums, i)
    BY <2>1 DEF Named
  <2>3. Saved' = [i \in 1..Depth - 1 |-> Named(tables', enums', i)]
    BY DEF Saved
  <2>. QED
    BY <2>2, <2>3 DEF Saved
<1>. QED
  BY <1>2, <1>3, Meanings, MeaningsNext DEF MapsTo, Lexical!Bind

\* Stacks that do not change.
LEMMA SameMaps ==
  ASSUME TypeOK, TypeOK', ConstantsVisible, UNCHANGED <<tables, enums>>
  PROVE  /\ UNCHANGED <<Meaning(Depth), [i \in 1..Depth - 1 |-> Meaning(i)]>>
         /\ ConstantsVisible'
<1>1. Now' = Now /\ Saved' = Saved /\ ConstantsVisible'
  BY DEF Now, Saved, Depth, ConstantsVisible
<1>. QED
  BY <1>1, Meanings, MeaningsNext DEF MapsTo

\* A name is global outside the functions.
LEMMA PlaceMaps ==
  ASSUME TypeOK
  PROVE  Lexical!Place = IF Depth = 1 THEN "global" ELSE "local"
<1>1. Saved = << >> <=> Depth = 1
  <2>1. Depth \in Nat /\ Depth >= 1 /\ Len(Saved) = Depth - 1 /\ DOMAIN Saved = 1..Depth - 1
    BY StacksTyped DEF Saved
  <2>2. Depth # 1 => 1 \in DOMAIN Saved
    BY <2>1
  <2>3. Depth = 1 => DOMAIN Saved = {}
    BY <2>1
  <2>. QED
    BY <2>1, <2>2, <2>3 DEF Saved
<1>. QED
  BY <1>1, Meanings DEF MapsTo, Lexical!Place

LEMMA VariableMaps ==
  ASSUME Pitfalls = {}, TypeOK, TypeOK', ConstantsVisible, UNCHANGED <<enums, declaring>>,
         NEW n \in Name, NEW t \in Type, NEW place \in {"global", "local"},
         NEW pointer \in BOOLEAN, Enter(n, Variable(t, place, pointer)),
         place = "global" <=> Depth = 1
  PROVE  Lexical!Variable(n, t, pointer) /\ ConstantsVisible'
<1>. DEFINE info == Variable(t, place, pointer)
<1>1. info \in Info /\ Enter(n, info)
  BY VariableInfo
<1>2. info = Lexical!Object(t, Lexical!Place, pointer)
  BY PlaceMaps DEF Lexical!Object, Variable
<1>. HIDE DEF info
<1>3. Depth' = Depth
  BY <1>1, EnterFacts
<1>4. /\ \A k \in 1..Depth, m \in Name :
           k # Depth \/ m # n => Found(tables', enums', k, m) = Found(tables, enums, k, m)
      /\ Found(tables', enums', Depth, n) = info
      /\ ConstantsVisible'
  BY <1>1, EnterEffect
<1>5. Lexical!Bind(n, info) /\ UNCHANGED [i \in 1..Depth - 1 |-> Meaning(i)]
  BY <1>3, <1>4, BindMaps
<1>. QED
  BY <1>2, <1>4, <1>5 DEF Lexical!Variable

LEMMA ConstantMaps ==
  ASSUME Pitfalls = {}, TypeOK, TypeOK', ConstantsVisible, NEW n \in Name, DeclareEnumerator(n)
  PROVE  Lexical!Constant(n) /\ ConstantsVisible'
<1>1. Depth' = Depth /\ declaring' = declaring
  BY DEF DeclareEnumerator, Depth
<1>2. /\ \A k \in 1..Depth, m \in Name :
           k # Depth \/ m # n => Found(tables', enums', k, m) = Found(tables, enums, k, m)
      /\ Found(tables', enums', Depth, n) = [type |-> "int", place |-> "none", pointer |-> FALSE]
      /\ ConstantsVisible'
  BY ConstantEffect
<1>3. Lexical!Enumerator = [type |-> "int", place |-> "none", pointer |-> FALSE]
  BY DEF Lexical!Enumerator, Lexical!Object
<1>4. Lexical!Bind(n, Lexical!Enumerator) /\ UNCHANGED [i \in 1..Depth - 1 |-> Meaning(i)]
  BY <1>1, <1>2, <1>3, BindMaps
<1>. QED
  BY <1>1, <1>2, <1>4 DEF Lexical!Constant

-----------------------------------------------------------------------------
(* Every step of the tables is a step of the language or leaves every      *)
(* meaning as it was.                                                      *)

Kept == ConstantsVisible' /\ TypeKept' /\ [Lexical!Next]_(Lexical!vars)

LEMMA LexicalStep ==
  ASSUME Pitfalls = {}, LInv, SInv', [Next]_vars
  PROVE  Kept
<1>1. TypeOK /\ TypeOK' /\ ScopesOpen /\ ConstantsVisible /\ TypeKept
  BY DEF LInv, SInv
<1>2. Depth \in Nat /\ Depth >= 1
  BY <1>1, StacksTyped
<1>3. CASE UNCHANGED <<tables, enums, declaring>> /\ (current' = current \/ declaring = NoType)
  BY <1>1, <1>3, SameMaps DEF Kept, TypeKept, Lexical!vars
<1>4. ASSUME PushScope, UNCHANGED declaring, current' = current \/ declaring = NoType
      PROVE  Kept
  BY <1>1, <1>4, EnterMaps, PushEffect DEF Kept, TypeKept, Lexical!Next
<1>5. ASSUME NEW k \in 1..Depth - 1, PopScopes(k), UNCHANGED <<current, declaring>>
      PROVE  Kept
  <2>1. k \in Nat /\ k < Depth
    BY <1>2
  <2>2. ConstantsVisible'
    BY <1>1, <1>5, <2>1, PopEffect
  <2>3. \E j \in 1..Len([i \in 1..Depth - 1 |-> Meaning(i)]) : Lexical!Leave(j)
    BY <1>1, <1>5, LeaveMaps
  <2>. QED
    BY <1>1, <1>5, <2>2, <2>3 DEF Kept, TypeKept, Lexical!Next
<1>6. CASE EndDeclaration
  <2>1. Lexical!End
    BY <1>1, <1>6, SameMaps DEF EndDeclaration, Lexical!End
  <2>. QED
    BY <1>1, <1>6, <2>1, SameMaps DEF EndDeclaration, Kept, TypeKept, Lexical!Next
<1>7. CASE EndFunction
  <2>1. 2 \in 1..Depth - 1 /\ PopScopes(2) /\ UNCHANGED <<current, declaring>>
    BY <1>7 DEF EndFunction
  <2>. QED
    BY <1>5, <2>1
<1>8. CASE CloseScope
  <2>1. 1 \in 1..Depth - 1 /\ PopScopes(1) /\ UNCHANGED <<current, declaring>>
    BY <1>2, <1>8 DEF CloseScope
  <2>. QED
    BY <1>5, <2>1
<1>9. CASE BeginBody \/ OpenScope
  BY <1>4, <1>9 DEF BeginBody, OpenScope
<1>10. CASE CompareDoubles
  BY <1>3, <1>10 DEF CompareDoubles
<1>11. CASE FailToLoadConstant \/ Stopped
  BY <1>3, <1>11 DEF FailToLoadConstant, Stopped, vars
<1>12. ASSUME NEW t \in Type, BeginFunction(t) PROVE Kept
  BY <1>4, <1>12 DEF BeginFunction
<1>13. ASSUME NEW t \in Type, BeginDeclaration(t) PROVE Kept
  <2>1. Lexical!Begin(t) /\ ConstantsVisible'
    BY <1>1, <1>13, SameMaps DEF BeginDeclaration, Lexical!Begin
  <2>2. TypeKept'
    BY <1>13 DEF BeginDeclaration, TypeKept
  <2>. QED
    BY <2>1, <2>2 DEF Kept, Lexical!Next
<1>14. ASSUME NEW t \in Type, ForCondition(t) PROVE Kept
  BY <1>3, <1>14 DEF ForCondition
<1>15. ASSUME NEW n \in Name, DeclareEnumerator(n) PROVE Kept
  <2>1. Lexical!Constant(n) /\ ConstantsVisible'
    BY <1>1, <1>15, ConstantMaps
  <2>2. TypeKept'
    BY <1>1, <1>15 DEF DeclareEnumerator, TypeKept
  <2>. QED
    BY <2>1, <2>2 DEF Kept, Lexical!Next
<1>16. ASSUME NEW n \in Name, NEW pointer \in BOOLEAN, Declarator(n, pointer) PROVE Kept
  <2>1. declaring # NoType /\ current = declaring /\ UNCHANGED <<enums, current, declaring>>
        /\ current \in Type
    BY <1>1, <1>16 DEF Declarator, TypeKept, TypeOK
  <2>2. \E b \in BOOLEAN : Lexical!Variable(n, current, b) /\ ConstantsVisible'
    <3>1. CASE phase = "body" /\ Enter(n, Variable(current, "local", pointer))
      <4>1. Depth # 1
        BY <1>1, <3>1 DEF ScopesOpen
      <4>. QED
        BY <1>1, <2>1, <3>1, <4>1, VariableMaps
    <3>2. CASE phase = "global" /\ Enter(n, Variable(current, "global", FALSE))
      <4>1. Depth = 1
        BY <1>1, <3>2 DEF ScopesOpen
      <4>. QED
        BY <1>1, <2>1, <3>2, <4>1, VariableMaps
    <3>. QED
      BY <1>16, <3>1, <3>2 DEF Declarator
  <2>3. TypeKept'
    BY <2>1 DEF TypeKept
  <2>. QED
    BY <2>1, <2>2, <2>3 DEF Kept, Lexical!Next
<1>17. ASSUME NEW n \in Name, NEW pointer \in BOOLEAN, NEW t \in Type, Parameter(n, t, pointer)
       PROVE  Kept
  <2>1. declaring = NoType /\ UNCHANGED <<enums, declaring>> /\ Depth # 1
        /\ Enter(n, Variable(t, "local", pointer))
    BY <1>1, <1>17 DEF Parameter, ScopesOpen
  <2>2. Lexical!Variable(n, t, pointer) /\ ConstantsVisible'
    BY <1>1, <2>1, VariableMaps
  <2>3. TypeKept'
    BY <2>1 DEF TypeKept
  <2>. QED
    BY <2>1, <2>2, <2>3 DEF Kept, Lexical!Next
<1>18. CASE UNCHANGED vars
  BY <1>3, <1>18 DEF vars
<1>. QED
  BY <1>6, <1>7, <1>8, <1>9, <1>10, <1>11, <1>12, <1>13, <1>14, <1>15, <1>16, <1>17, <1>18
  DEF Next

LEMMA LexicalInit == Init => ConstantsVisible /\ TypeKept /\ Lexical!Init
<1>. SUFFICES ASSUME Init PROVE ConstantsVisible /\ TypeKept /\ Lexical!Init
  OBVIOUS
<1>1. /\ TypeOK /\ Depth = 1 /\ declaring = NoType
      /\ tables[1] = NewTable /\ enums[1] = {} /\ Len(tables) = 1
  BY InitShape DEF Init, SInv, Depth
<1>2. \A n \in Name : ~HasEnum(enums, 1, n) /\ Places(tables, 1, n) = {}
  BY <1>1 DEF HasEnum, Places, NewTable
<1>3. ConstantsVisible
  BY <1>1, <1>2 DEF ConstantsVisible, Visible
<1>4. Now = [n \in Name |-> Unknown]
  BY <1>1, <1>2 DEF Now, Named, Found
<1>5. Saved = << >>
  BY <1>1 DEF Saved
<1>. QED
  BY <1>1, <1>3, <1>4, <1>5, Meanings DEF TypeKept, MapsTo, Lexical!Init

\* Whatever is declared and whatever scopes are opened and left, by programs
\* that use none of Features: a name means its innermost declaration, with the
\* type and the pointer it was written with, and means it again when an inner
\* scope is left.
THEOREM ScopedLexically ==
  ASSUME Pitfalls = {}
  PROVE  Spec => LexicallyScoped
<1>1. Init => LInv /\ Lexical!Init
  BY InitShape, LexicalInit DEF LInv
<1>2. LInv /\ [Next]_vars => LInv' /\ [Lexical!Next]_(Lexical!vars)
  <2>. SUFFICES ASSUME LInv, [Next]_vars PROVE LInv' /\ [Lexical!Next]_(Lexical!vars)
    OBVIOUS
  <2>1. SInv'
    BY SymbolsShape DEF LInv
  <2>. QED
    BY <2>1, LexicalStep DEF LInv, Kept
<1>. QED
  BY <1>1, <1>2, PTL DEF Spec, LexicallyScoped, Lexical!Spec

=============================================================================
