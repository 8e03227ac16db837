------------------------------- MODULE Symbols -------------------------------
(***************************************************************************)
(* The scopes of ast::Context: the stack of symbol tables, the stack of    *)
(* enumeration constants, and the type that declarations, relational       *)
(* operators and for conditions leave behind in current_type_.             *)
(***************************************************************************)
EXTENDS Integers, FiniteSetsExt, SequencesExt

CONSTANTS
  Name,       \* identifiers
  Type,       \* type specifiers: "int", "float", "double"
  NoType,     \* no declaration is being emitted
  Unknown,    \* not in a table
  Pitfalls,   \* the program features explored, of those listed below
  MaxScopes,  \* bound: open scopes, the global one included
  MaxNames    \* bound: declarations in the open scopes

\* Programs that use one of these features are compiled by the same code; the
\* constant only chooses which programs are looked at.
Features == {"hidden enumerator", "relational initialiser",
             "enumerator over pointer"}

ASSUME SymbolsAssumption ==
  /\ {"int", "double"} \subseteq Type /\ NoType \notin Type
  /\ Unknown \notin [type : Type, place : {"global", "local", "none"}, pointer : BOOLEAN]
  /\ Pitfalls \subseteq Features
  /\ MaxScopes \in Nat /\ MaxNames \in Nat

VARIABLES
  phase,      \* "global", "parameters", "body", or "aborted" by an exception
  tables,     \* symbol_table_stack_, global scope first
  enums,      \* enum_stack: the enumeration constants of each scope
  current,    \* current_type_
  declaring   \* history: the type the current declaration was written with

vars == <<phase, tables, enums, current, declaring>>

Info == [type : Type, place : {"global", "local"}, pointer : BOOLEAN]
Variable(t, place, pointer) == [type |-> t, place |-> place, pointer |-> pointer]

NewTable == [n \in Name |-> Unknown]
Depth == Len(tables)

-----------------------------------------------------------------------------
(* Lookup in the k outermost scopes.                                       *)

FindEnumVal(k, n) == \E i \in 1..k : n \in enums[i]

Declares(k, n) == {i \in 1..k : tables[i][n] # Unknown}

\* Mutant: the outermost declaration is found.
FindOutermost(k, n) ==
  IF FindEnumVal(k, n) THEN [type |-> "int", place |-> "none", pointer |-> FALSE]
  ELSE IF Declares(k, n) = {} THEN Unknown
  ELSE tables[CHOOSE i \in Declares(k, n) : \A j \in Declares(k, n) : i <= j][n]

\* findSymbol: an enumeration constant of any open scope comes first.
FindSymbol(k, n) ==
  IF FindEnumVal(k, n) THEN [type |-> "int", place |-> "none", pointer |-> FALSE]
  ELSE IF Declares(k, n) = {} THEN Unknown
  ELSE tables[CHOOSE i \in Declares(k, n) : \A j \in Declares(k, n) : j <= i][n]

\* get_is_pointer: the innermost variable, whatever the constants say.
GetIsPointer(k, n) ==
  \E i \in Declares(k, n) :
    tables[i][n].pointer /\ \A j \in Declares(k, n) : j <= i

-----------------------------------------------------------------------------

Init ==
  /\ phase = "global"
  /\ tables = <<NewTable>> /\ enums = <<{}>>
  /\ current \in Type
  /\ declaring = NoType

PushScope ==
  /\ tables' = Append(tables, NewTable)
  /\ enums' = Append(enums, {})

\* Mutant: pop_smoke forgets the stack of enumeration constants.
PopTablesOnly(k) ==
  /\ tables' = SubSeq(tables, 1, Depth - k)
  /\ UNCHANGED enums

PopScopes(k) ==
  /\ tables' = SubSeq(tables, 1, Depth - k)
  /\ enums' = SubSeq(enums, 1, Depth - k)

\* A valid program declares a name once in a scope.
Fresh(n) ==
  /\ n \notin enums[Depth] /\ tables[Depth][n] = Unknown
  /\ Cardinality({e \in (1..Depth) \X Name :
                    e[2] \in enums[e[1]] \/ tables[e[1]][e[2]] # Unknown}) < MaxNames

Enter(n, info) ==
  /\ Fresh(n)
  /\ FindEnumVal(Depth, n) => "hidden enumerator" \in Pitfalls
  /\ tables' = [tables EXCEPT ![Depth][n] = info]

\* FunctionDefinition, up to its parameters.
BeginFunction(t) ==
  /\ phase = "global" /\ declaring = NoType
  /\ phase' = "parameters"
  /\ current' = t
  /\ PushScope
  /\ UNCHANGED declaring

\* FunctionParameter: its type stays in current_type_.
Parameter(n, t, pointer) ==
  /\ phase = "parameters"
  /\ current' = t
  /\ Enter(n, Variable(t, "local", pointer))
  /\ UNCHANGED <<phase, enums, declaring>>

BeginBody ==
  /\ phase = "parameters"
  /\ phase' = "body"
  /\ PushScope
  /\ UNCHANGED <<current, declaring>>

EndFunction ==
  /\ phase = "body" /\ Depth = 3 /\ declaring = NoType
  /\ phase' = "global"
  /\ PopScopes(2)
  /\ UNCHANGED <<current, declaring>>

\* Scope and Switch.
OpenScope ==
  /\ phase = "body" /\ declaring = NoType /\ Depth < MaxScopes
  /\ PushScope
  /\ UNCHANGED <<phase, current, declaring>>

CloseScope ==
  /\ phase = "body" /\ declaring = NoType /\ Depth > 3
  /\ PopScopes(1)
  /\ UNCHANGED <<phase, current, declaring>>

BeginDeclaration(t) ==
  /\ phase \in {"global", "body"} /\ declaring = NoType
  /\ current' = t /\ declaring' = t
  /\ UNCHANGED <<phase, tables, enums>>

\* InitDeclarator takes the type from current_type_; only allocate_stack
\* records that the name is a pointer, addGlobalVar does not.
Declarator(n, pointer) ==
  /\ declaring # NoType
  /\ \/ /\ phase = "body"
        /\ Enter(n, Variable(current, "local", pointer))
     \/ /\ phase = "global"
        /\ Enter(n, Variable(current, "global", FALSE))
  /\ UNCHANGED <<phase, enums, current, declaring>>

EndDeclaration ==
  /\ declaring # NoType
  /\ declaring' = NoType
  /\ UNCHANGED <<phase, tables, enums, current>>

\* "enum { n };" without declarators: addEnumVal.
DeclareEnumerator(n) ==
  /\ phase \in {"global", "body"} /\ declaring = NoType
  /\ Fresh(n)
  /\ GetIsPointer(Depth, n) => "enumerator over pointer" \in Pitfalls
  /\ enums' = [enums EXCEPT ![Depth] = @ \cup {n}]
  /\ UNCHANGED <<phase, tables, current, declaring>>

\* A relational or logical operator on doubles, in a statement or in an
\* initialiser.
CompareDoubles ==
  /\ phase = "body"
  /\ declaring # NoType => "relational initialiser" \in Pitfalls
  /\ current' = "double"
  /\ UNCHANGED <<phase, tables, enums, declaring>>

ForCondition(t) ==
  /\ phase = "body" /\ declaring = NoType
  /\ current' = t
  /\ UNCHANGED <<phase, tables, enums, declaring>>

\* FloatDoubleConstant looks at current_type_, not at the expression it is in.
FailToLoadConstant ==
  /\ phase = "body" /\ current \notin {"float", "double"}
  /\ phase' = "aborted"
  /\ UNCHANGED <<tables, enums, current, declaring>>

Stopped == phase = "aborted" /\ UNCHANGED vars

Next ==
  \/ BeginBody \/ EndFunction \/ OpenScope \/ CloseScope \/ EndDeclaration
  \/ CompareDoubles \/ FailToLoadConstant \/ Stopped
  \/ \E t \in Type : BeginFunction(t) \/ BeginDeclaration(t) \/ ForCondition(t)
  \/ \E n \in Name :
       \/ DeclareEnumerator(n)
       \/ \E pointer \in BOOLEAN :
            Declarator(n, pointer) \/ \E t \in Type : Parameter(n, t, pointer)

Spec == Init /\ [][Next]_vars

-----------------------------------------------------------------------------
(* Properties.                                                             *)

TypeOK ==
  /\ phase \in {"global", "parameters", "body", "aborted"}
  /\ tables \in Seq([Name -> Info \cup {Unknown}])
  /\ enums \in Seq(SUBSET Name)
  /\ Len(tables) = Len(enums) /\ Len(tables) >= 1
  /\ current \in Type
  /\ declaring \in Type \cup {NoType}

\* What findSymbol and get_is_pointer tell the emitters of every name.
Meaning(k) ==
  [n \in Name |->
     IF FindSymbol(k, n) = Unknown THEN Unknown
     ELSE [FindSymbol(k, n) EXCEPT !.pointer = GetIsPointer(k, n)]]

Lexical == INSTANCE LexicalScope WITH
  meaning   <- Meaning(Depth),
  saved     <- [i \in 1..Depth - 1 |-> Meaning(i)]

\* Whatever is declared, in whatever order scopes are opened and closed, a name
\* means its innermost declaration, with the type and the pointer it was
\* entered with, and means it again when an inner scope is left.  With no
\* feature in Pitfalls this holds; each feature breaks it.
LexicallyScoped == Lexical!Spec

=============================================================================
