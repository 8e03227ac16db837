------------------------ MODULE ConstantExpressions ------------------------
(***************************************************************************)
(* What the compiler computes itself: enumerators, case labels, bounds of  *)
(* arrays, global initialisers and elements of initialiser lists; and, in  *)
(* parallel, what C says they are.  Enumerators are defined by expressions *)
(* of earlier ones, in scopes that open and close; a case label is         *)
(* evaluated twice, before the scope of its switch is entered and in it.   *)
(***************************************************************************)
EXTENDS IntegerWords, SequencesExt

CONSTANTS
  Name,         \* identifiers
  Expressions,  \* the constant expressions of programs
  CaseLists,    \* the case labels at the top of a switch body, as written
  DivisionTraps, \* the compiler's machine traps if a quotient is no int (x86 does, ARM does not)
  Undefined,    \* C gives no value
  None,         \* not declared; nothing evaluated
  Pitfalls,     \* the program features explored, of those listed below
  MaxScopes,    \* bound: open scopes, the global one included
  MaxNames      \* bound: enumerators in the open scopes

(***************************************************************************)
(* An expression is the sequence of its nodes, operands before operators;  *)
(* left, right and operand are the places of the operands.  "inherited" is *)
(* a node whose class does not override EvalConstExpr (?:, sizeof, a call, *)
(* an assignment), with the value C gives it.                              *)
(***************************************************************************)
Arithmetical == {"+", "-", "*", "/", "%", "<<", ">>"}
Relational   == {"<", ">", "<=", ">=", "==", "!="}
BitOps      == {"&", "|", "^"}

Node ==
  [kind : {"constant"}, class : {"int", "char"}, value : Ints]
  \cup [kind : {"name"}, name : Name]
  \cup [kind : {"inherited"}, value : Ints \cup {Undefined}]
  \cup [kind : {"operation"}, op : Arithmetical, left : Nat, right : Nat]
  \cup [kind : {"logical"}, op : Relational \cup BitOps \cup {"&&", "||"}, left : Nat, right : Nat]
  \cup [kind : {"unary"}, op : {"+", "-", "~", "!", "&", "*"}, operand : Nat]
  \cup [kind : {"increment", "preincrement"}, op : {"++", "--"}, operand : Nat]

Operands(d) ==
  CASE d.kind \in {"operation", "logical"} -> {d.left, d.right}
    [] d.kind \in {"unary", "increment", "preincrement"} -> {d.operand}
    [] OTHER -> {}

IsExpression(e) ==
  e \in Seq(Node) /\ e # << >> /\ \A i \in 1..Len(e) : Operands(e[i]) \subseteq 1..i - 1

\* Features of programs in which the compiler departs from C.  The code compiles
\* them all alike; Pitfalls chooses which programs are looked at:
\*   "unevaluated"  an expression whose class leaves EvalConstExpr, getValue or
\*                  GetConst to Node, which answers 0
\*   "unneeded"     the right operand of && or || is evaluated, and throws, though
\*                  the left one decides
\*   "implicit"     an enumerator without a value that C does not make 0
\*   "captured"     a switch body declares an enumerator a later label of it names
\*   "initialised"  a global initialiser that is not 0, be it a literal
Features == {"unevaluated", "unneeded", "implicit", "captured", "initialised"}

ASSUME ConstantAssumption ==
  /\ Undefined \notin Ints /\ None \notin Ints /\ None # Undefined
  /\ \A e \in Expressions : IsExpression(e)
  /\ CaseLists \subseteq Seq(Expressions)
  /\ Pitfalls \subseteq Features /\ DivisionTraps \in BOOLEAN
  /\ MaxScopes \in Nat /\ MaxNames \in Nat

VARIABLES
  phase,    \* "statements", "enum" in an enumerator list, "aborted" by an exception
  enums,    \* enum_stack, global scope first: the enumerators of each scope and their values
  meant,    \* history: what the names mean in each of the open scopes, by the rules of C
  next,     \* history: the value C gives the next enumerator of the list without one
  switches, \* the switches under way: the scopes around each, cases_map_stack_, the cases to come
  last      \* the constant evaluated last, what the code made of it and what C does

vars == <<phase, enums, meant, next, switches, last>>

Depth == Len(enums)

-----------------------------------------------------------------------------
(* The code: EvalConstExpr of each class.                                  *)

Thrown      == [thrown |-> TRUE, value |-> 0]

\* Mutant: the result is not an int.
ConstantUnwrapped(n) == [thrown |-> FALSE, value |-> n]

Constant(n) == [thrown |-> FALSE, value |-> Wrap(n, WordBits)]

\* A trap ends the compiler as an exception does.
DivisionFails(l, r) == r = 0 \/ (DivisionTraps /\ ~Fits(Quotient(l, r), WordBits))

\* Other overflows wrap, and a shift takes its count modulo the width, as in
\* the builds; C++ leaves all three undefined.
EvalOperation(o, l, r) ==
  CASE o = "+" -> Constant(l + r)
    [] o = "-" -> Constant(l - r)
    [] o = "*" -> Constant(l * r)
    [] o = "/" -> IF DivisionFails(l, r) THEN Thrown ELSE Constant(Quotient(l, r))
    [] o = "%" -> IF DivisionFails(l, r) THEN Thrown ELSE Constant(Remainder(l, r))
    [] o = "<<" -> IF l < 0 \/ r < 0 THEN Thrown ELSE Constant(l * Power2[r % WordBits])
    [] o = ">>" -> IF l < 0 \/ r < 0 THEN Thrown ELSE Constant(l \div Power2[r % WordBits])

\* Mutant: && and || are those of bits.
EvalLogicalOfBits(o, l, r) ==
  CASE o \in {"&", "&&"} -> BitAnd(l, r)
    [] o \in {"|", "||"} -> BitOr(l, r)
    [] o = "^" -> BitXor(l, r)
    [] OTHER -> Truth(Compare(o, l, r))

EvalLogical(o, l, r) ==
  CASE o = "&" -> BitAnd(l, r)
    [] o = "|" -> BitOr(l, r)
    [] o = "^" -> BitXor(l, r)
    [] o = "&&" -> Truth(l # 0 /\ r # 0)
    [] o = "||" -> Truth(l # 0 \/ r # 0)
    [] OTHER -> Truth(Compare(o, l, r))

EvalUnary(o, n) ==
  CASE o \in {"&", "*"} -> Thrown
    [] o = "+" -> Constant(n)
    [] o = "-" -> Constant(-n)
    [] o = "~" -> Constant(-n - 1)
    [] o = "!" -> Constant(Truth(n = 0))

\* One node, given what its operands came to and what findEnumVal answers.
\* Both operands are evaluated, of && and || too.
EvalNode(d, done, visible) ==
  CASE d.kind = "constant" -> Constant(d.value)
    [] d.kind = "name" -> IF visible[d.name] = None THEN Thrown ELSE Constant(visible[d.name])
    [] d.kind = "inherited" -> Constant(0)
    [] d.kind \in {"operation", "logical"} ->
         LET l == done[d.left]
             r == done[d.right]
         IN  IF l.thrown \/ r.thrown THEN Thrown
             ELSE IF d.kind = "operation" THEN EvalOperation(d.op, l.value, r.value)
             ELSE Constant(EvalLogical(d.op, l.value, r.value))
    [] OTHER ->
         LET n == done[d.operand]
         IN  IF n.thrown THEN Thrown
             ELSE IF d.kind = "unary" THEN EvalUnary(d.op, n.value)
             ELSE Constant(IF d.op = "++" THEN n.value + 1 ELSE n.value - 1)

\* What each node comes to.
Evaluated(e, visible) ==
  LET done[i \in 1..Len(e)] == EvalNode(e[i], done, visible) IN done

EvalConstExpr(e, visible) == Evaluated(e, visible)[Len(e)]

\* Bounds take getValue, elements of initialiser lists GetConst; the classes
\* without one answer 0.  The grammar wraps a global initialiser in a NodeList, or
\* an ArrayInit, and neither has a getValue: ".word 0", whatever is in it.
Root(e) == e[Len(e)]
NodeGetValue == 0
GetValue(e) == IF Root(e).kind = "constant" THEN Root(e).value ELSE NodeGetValue
GetConst(e) == IF Root(e).kind = "constant" /\ Root(e).class = "int" THEN Root(e).value ELSE 0

-----------------------------------------------------------------------------
(* The reference: the value of a constant expression in C.                 *)

Defined(n) == IF Fits(n, WordBits) THEN n ELSE Undefined

MeaningOfOperation(o, l, r) ==
  CASE o = "+" -> Defined(l + r)
    [] o = "-" -> Defined(l - r)
    [] o = "*" -> Defined(l * r)
    [] o = "/" -> IF r = 0 THEN Undefined ELSE Defined(Quotient(l, r))
    [] o = "%" -> IF r = 0 \/ Defined(Quotient(l, r)) = Undefined THEN Undefined
                  ELSE Defined(Remainder(l, r))
    [] o = "<<" -> IF l < 0 \/ r \notin 0..WordBits - 1 THEN Undefined ELSE Defined(l * Power2[r])
    [] o = ">>" -> IF l < 0 \/ r \notin 0..WordBits - 1 THEN Undefined ELSE Defined(l \div Power2[r])
    [] o = "&" -> BitAnd(l, r)
    [] o = "|" -> BitOr(l, r)
    [] o = "^" -> BitXor(l, r)
    [] OTHER -> Truth(Compare(o, l, r))

\* The right operand of && and || counts only if the left one leaves it open.
MeaningOfChoice(o, l, r) ==
  CASE l = Undefined -> Undefined
    [] l = 0 -> IF o = "&&" THEN 0 ELSE IF r = Undefined THEN Undefined ELSE Truth(r # 0)
    [] OTHER -> IF o = "||" THEN 1 ELSE IF r = Undefined THEN Undefined ELSE Truth(r # 0)

MeaningOfUnary(o, n) ==
  CASE o \in {"&", "*"} -> Undefined
    [] o = "+" -> n
    [] o = "-" -> Defined(-n)
    [] o = "~" -> Defined(-1 - n)
    [] o = "!" -> Truth(n = 0)

MeaningOfNode(d, done, visible) ==
  CASE d.kind \in {"constant", "inherited"} -> d.value
    [] d.kind = "name" -> IF visible[d.name] = None THEN Undefined ELSE visible[d.name]
    [] d.kind = "logical" /\ d.op \in {"&&", "||"} ->
         MeaningOfChoice(d.op, done[d.left], done[d.right])
    [] d.kind = "operation" \/ (d.kind = "logical" /\ d.op \notin {"&&", "||"}) ->
         IF Undefined \in {done[d.left], done[d.right]} THEN Undefined
         ELSE MeaningOfOperation(d.op, done[d.left], done[d.right])
    [] d.kind = "unary" ->
         IF done[d.operand] = Undefined THEN Undefined ELSE MeaningOfUnary(d.op, done[d.operand])
    [] OTHER -> Undefined

Meanings(e, visible) ==
  LET done[i \in 1..Len(e)] == MeaningOfNode(e[i], done, visible) IN done

Meaning(e, visible) == Meanings(e, visible)[Len(e)]

-----------------------------------------------------------------------------
(* Scopes.                                                                 *)

Declares(k, n) == {i \in 1..k : enums[i][n] # None}

\* Mutant: findEnumVal finds the outermost declaration.
FindOutermost(k, n) ==
  IF Declares(k, n) = {} THEN None
  ELSE enums[CHOOSE i \in Declares(k, n) : \A j \in Declares(k, n) : i <= j][n]

\* In the k outermost scopes, the innermost declaration; if there is none,
\* findEnumVal throws.
FindEnumVal(k, n) ==
  IF Declares(k, n) = {} THEN None
  ELSE enums[CHOOSE i \in Declares(k, n) : \A j \in Declares(k, n) : j <= i][n]

Visible(k) == [n \in Name |-> FindEnumVal(k, n)]

Record(use, result, meaning) ==
  [use |-> use, thrown |-> result.thrown, value |-> result.value, meaning |-> meaning]

\* The scope a declaration or a case is in is the innermost one.
Evaluate(e)   == EvalConstExpr(e, Visible(Depth))
MeaningHere(e) == Meaning(e, meant[Depth])

-----------------------------------------------------------------------------
(* Which programs are looked at.                                           *)

Mentions(e, n) == \E i \in DOMAIN e : e[i].kind = "name" /\ e[i].name = n

\* The code evaluates an operand C does not, and throws.
ThrowsUnneeded(e, visible) ==
  LET done == Evaluated(e, visible)
  IN  \E i \in DOMAIN e :
        /\ e[i].kind = "logical" /\ e[i].op \in {"&&", "||"}
        /\ ~done[e[i].left].thrown /\ done[e[i].right].thrown
        /\ (done[e[i].left].value = 0) = (e[i].op = "&&")

Admitted(e) ==
  /\ (\E i \in DOMAIN e : e[i].kind = "inherited") => "unevaluated" \in Pitfalls
  /\ ThrowsUnneeded(e, Visible(Depth)) => "unneeded" \in Pitfalls

\* Only constants have a getValue, only int constants a GetConst.
AdmittedAs(use, e) ==
  CASE use = "bound" -> Root(e).kind = "constant" \/ "unevaluated" \in Pitfalls
    [] use = "element" -> (Root(e).kind = "constant" /\ Root(e).class = "int")
                          \/ "unevaluated" \in Pitfalls
    [] use = "global" -> MeaningHere(e) \in {0, Undefined} \/ "initialised" \in Pitfalls

InSwitch == switches # << >>
Innermost == switches[Len(switches)]

\* The scope of the innermost switch's body is the current one.
InBody == InSwitch /\ Depth = Innermost.depth + 2

-----------------------------------------------------------------------------

NewTable == [n \in Name |-> None]

Init ==
  /\ phase = "statements"
  /\ enums = <<NewTable>> /\ meant = <<NewTable>>
  /\ next = 0
  /\ switches = << >>
  /\ last = None

\* "enum { ... };" without declarators.
BeginEnum ==
  /\ phase = "statements"
  /\ phase' = "enum"
  /\ next' = 0 /\ last' = None
  /\ UNCHANGED <<enums, meant, switches>>

EndEnum ==
  /\ phase = "enum"
  /\ phase' = "statements"
  /\ next' = 0 /\ last' = None
  /\ UNCHANGED <<enums, meant, switches>>

MayDeclare(n) ==
  /\ phase = "enum"
  /\ Cardinality({d \in (1..Depth) \X Name : enums[d[1]][d[2]] # None}) < MaxNames
  /\ InBody /\ (\E i \in DOMAIN Innermost.todo : Mentions(Innermost.todo[i], n))
       => "captured" \in Pitfalls

\* addEnumVal, which throws on a name the scope has already.
AddEnumVal(n, value, meaning) ==
  IF enums[Depth][n] # None
  THEN phase' = "aborted" /\ UNCHANGED <<enums, meant, next>>
  ELSE /\ enums' = [enums EXCEPT ![Depth][n] = value]
       /\ meant' = [meant EXCEPT ![Depth][n] = meaning]
       /\ next' = IF meaning = Undefined THEN Undefined ELSE Defined(meaning + 1)
       /\ UNCHANGED phase

\* EnumValue with a value: the expression is evaluated before the name is entered.
Enumerator(n, e) ==
  /\ MayDeclare(n) /\ Admitted(e)
  /\ last' = Record("enumerator", Evaluate(e), MeaningHere(e))
  /\ IF Evaluate(e).thrown
     THEN phase' = "aborted" /\ UNCHANGED <<enums, meant, next>>
     ELSE AddEnumVal(n, Evaluate(e).value, MeaningHere(e))
  /\ UNCHANGED switches

\* EnumValue without a value: 0, wherever it stands in the list.
ImplicitEnumerator(n) ==
  /\ MayDeclare(n)
  /\ next # 0 => "implicit" \in Pitfalls
  /\ last' = Record("enumerator", Constant(0), next)
  /\ AddEnumVal(n, 0, next)
  /\ UNCHANGED switches

\* A scope of a statement or function.
OpenScope ==
  /\ phase = "statements" /\ Depth < MaxScopes
  /\ enums' = Append(enums, NewTable) /\ meant' = Append(meant, meant[Depth])
  /\ last' = None
  /\ UNCHANGED <<phase, next, switches>>

PopScopes(k) ==
  /\ enums' = SubSeq(enums, 1, Depth - k)
  /\ meant' = SubSeq(meant, 1, Depth - k)

CloseScope ==
  /\ phase = "statements" /\ Depth > 1 /\ ~InBody
  /\ PopScopes(1)
  /\ last' = None
  /\ UNCHANGED <<phase, next, switches>>

\* Mutant: the last case is not collected.
GetCasesButLast(cases) == [i \in 1..Len(cases) - 1 |-> Evaluate(cases[i])]

\* Case::getCases for each case at the top of the body: before the scopes of
\* the switch and of its body have any declaration.
GetCases(cases) == [i \in DOMAIN cases |-> Evaluate(cases[i])]

\* Switch up to the scope of its body, which enterSwitch puts in one of its own.
BeginSwitch(cases) ==
  /\ phase = "statements" /\ Depth + 2 <= MaxScopes
  /\ \A i \in DOMAIN cases : Admitted(cases[i])
  /\ LET thrown == {i \in DOMAIN GetCases(cases) : GetCases(cases)[i].thrown}
     IN  IF thrown # {}
         THEN /\ phase' = "aborted"
              /\ last' = Record("case", Thrown, MeaningHere(cases[Min(thrown)]))
              /\ UNCHANGED <<enums, meant, switches>>
         ELSE /\ last' = None
              /\ enums' = enums \o <<NewTable, NewTable>> /\ meant' = meant \o <<meant[Depth], meant[Depth]>>
              /\ switches' = Append(switches,
                   [depth |-> Depth, todo |-> cases,
                    values |-> {GetCases(cases)[i].value : i \in DOMAIN GetCases(cases)}])
              /\ UNCHANGED phase
  /\ UNCHANGED next

\* Case::EmitRISC evaluates the label again and looks its value up (getLabelCase).
EmitCase ==
  /\ phase = "statements" /\ InBody /\ Innermost.todo # << >>
  /\ LET e == Head(Innermost.todo)
     IN  /\ Admitted(e)
         /\ last' = Record("case", Evaluate(e), MeaningHere(e))
         /\ IF Evaluate(e).thrown \/ Evaluate(e).value \notin Innermost.values
            THEN phase' = "aborted" /\ UNCHANGED switches
            ELSE switches' = [switches EXCEPT ![Len(switches)].todo = Tail(@)] /\ UNCHANGED phase
  /\ UNCHANGED <<enums, meant, next>>

EndSwitch ==
  /\ phase = "statements" /\ InBody /\ Innermost.todo = << >>
  /\ PopScopes(2)
  /\ switches' = Front(switches)
  /\ last' = None
  /\ UNCHANGED <<phase, next>>

\* ArrayDeclarator, the global branch of InitDeclarator, ArrayInit.
Bound(e) ==
  /\ phase = "statements" /\ AdmittedAs("bound", e)
  /\ last' = Record("bound", Constant(GetValue(e)), MeaningHere(e))
  /\ UNCHANGED <<phase, enums, meant, next, switches>>

GlobalInitialiser(e) ==
  /\ phase = "statements" /\ Depth = 1 /\ AdmittedAs("global", e)
  /\ last' = Record("global", Constant(NodeGetValue), MeaningHere(e))
  /\ UNCHANGED <<phase, enums, meant, next, switches>>

Element(e) ==
  /\ phase = "statements" /\ AdmittedAs("element", e)
  /\ last' = Record("element", Constant(GetConst(e)), MeaningHere(e))
  /\ UNCHANGED <<phase, enums, meant, next, switches>>

Stopped == phase = "aborted" /\ UNCHANGED vars

Next ==
  \/ BeginEnum \/ EndEnum \/ OpenScope \/ CloseScope \/ EmitCase \/ EndSwitch \/ Stopped
  \/ \E n \in Name : ImplicitEnumerator(n) \/ \E e \in Expressions : Enumerator(n, e)
  \/ \E cases \in CaseLists : BeginSwitch(cases)
  \/ \E e \in Expressions : Bound(e) \/ GlobalInitialiser(e) \/ Element(e)

Spec == Init /\ [][Next]_vars

-----------------------------------------------------------------------------
(* Properties.                                                             *)

Results == [use : {"enumerator", "case", "bound", "global", "element"}, thrown : BOOLEAN,
            value : Ints, meaning : Ints \cup {Undefined}]

TypeOK ==
  /\ phase \in {"statements", "enum", "aborted"}
  /\ enums \in Seq([Name -> Ints \cup {None}]) /\ meant \in Seq([Name -> Ints \cup {Undefined, None}])
  /\ Len(enums) = Len(meant) /\ Len(enums) >= 1
  /\ next \in Ints \cup {Undefined}
  /\ switches \in Seq([depth : Nat, todo : Seq(Expressions), values : SUBSET Ints])
  /\ last \in Results \cup {None}

\* A constant the compiler evaluates is the one C prescribes, and it throws on
\* none that C defines: in whatever order enumerators were defined by one another
\* and scopes opened and closed, findEnumVal and the evaluators together are C.
\* Global initialisers are not evaluated at all; the property holds of those C
\* makes 0, and "initialised" admits the others.
ConstantsRight ==
  last # None /\ last.meaning # Undefined => ~last.thrown /\ last.value = last.meaning

\* In every open scope a name is an enumerator exactly if C has one visible
\* there, and it has C's value, however scopes of blocks and switches come and go.
EnumeratorsRight ==
  \A k \in 1..Depth : \A n \in Name :
    /\ FindEnumVal(k, n) = None <=> meant[k][n] = None
    /\ meant[k][n] # Undefined => FindEnumVal(k, n) = meant[k][n]

\* A label that getCases entered is found again when its case is emitted: no
\* declaration in between changes what the label evaluates to.
CasesFound ==
  \A s \in DOMAIN switches : \A i \in DOMAIN switches[s].todo :
    LET r == EvalConstExpr(switches[s].todo[i], Visible(switches[s].depth + 2))
    IN  ~r.thrown /\ r.value \in switches[s].values

=============================================================================
