------------------------------- MODULE Syntax -------------------------------
(***************************************************************************)
(* Expressions as the parser builds them, and what a node says of itself   *)
(* without emitting code: its identifier and its type.  The base class     *)
(* Node answers "" and INT wherever a class does not override it; much of  *)
(* the code generator rests on those answers.                              *)
(*                                                                         *)
(* What a node asks of the nodes below goes through virtual functions.     *)
(* They are constants here, so that what is proved of the emitters depends *)
(* on no more of them than it says; PartsOf, NodeIdentifier and NodeType   *)
(* are what the classes answer, and what TLC gives the constants.          *)
(***************************************************************************)
EXTENDS IntegerWords

CONSTANTS
  Parts(_),          \* an expression and everything in it
  GetIdentifier(_),  \* Node::GetIdentifier
  GetType(_, _)      \* Node::getType

(***************************************************************************)
(* Nodes                                                                   *)
(***************************************************************************)
Num(n)            == [kind |-> "num", value |-> n]
Chr(n)            == [kind |-> "chr", value |-> n]
Flt(n)            == [kind |-> "flt", value |-> n]
Id(x)             == [kind |-> "id", name |-> x]
Binary(o, l, r)   == [kind |-> "operation", op |-> o, left |-> l, right |-> r]
Logical(o, l, r)  == [kind |-> "logical", op |-> o, left |-> l, right |-> r]
Assign(o, l, r)   == [kind |-> "assignment", op |-> o, left |-> l, right |-> r]
Post(o, e)        == [kind |-> "increment", op |-> o, operand |-> e]
Pre(o, e)         == [kind |-> "preincrement", op |-> o, operand |-> e]
Unary(o, e)       == [kind |-> "unary", op |-> o, operand |-> e]
Index(x, e)       == [kind |-> "index", operand |-> Id(x), index |-> e]
Ternary(e, t, f)  == [kind |-> "ternary", condition |-> e, left |-> t, right |-> f]
Sizeof(e)         == [kind |-> "sizeof", operand |-> e]
Call              == [kind |-> "call"]

Operands(e) ==
  CASE e.kind \in {"num", "chr", "flt", "id", "call"} -> {}
    [] e.kind \in {"operation", "logical", "assignment"} -> {e.left, e.right}
    [] e.kind = "index" -> {e.operand, e.index}
    [] e.kind = "ternary" -> {e.condition, e.left, e.right}
    [] OTHER -> {e.operand}

\* What the grammar and the constructors allow of a node itself.
IsNode(e) ==
  CASE e.kind \in {"num", "chr", "flt", "id", "call", "index", "ternary", "sizeof"} -> TRUE
    [] e.kind = "operation" -> e.op \in {"+", "-", "*", "/", "%", "<<", ">>"}
    [] e.kind = "logical" -> e.op \in {"<", ">", "<=", ">=", "==", "!=", "&", "|", "^", "&&", "||"}
    [] e.kind = "assignment" -> e.op \in {"=", "+", "-", "*", "/", "%", "<<", ">>", "&", "|", "^"}
    [] e.kind \in {"increment", "preincrement"} -> e.op \in {"++", "--"}
    [] e.kind = "unary" -> e.op \in {"&", "*", "+", "-", "~", "!"}
    [] OTHER -> FALSE

PartsOf(e) == {e} \cup UNION {Parts(d) : d \in Operands(e)}

(***************************************************************************)
(* The symbol table: a record for each name, enumeration constants         *)
(* included (findSymbol answers an int without a place for them).          *)
(***************************************************************************)
IsEnum(x, syms)       == x \in DOMAIN syms /\ syms[x].scope = "ENUM"
IsInitialised(x, syms) == x \in DOMAIN syms
GetIsPointer(x, syms) == x \in DOMAIN syms /\ syms[x].isPointer
IsArray(x, syms)      == x \in DOMAIN syms /\ syms[x].isArray

\* Context::getBytes; the unsigned types throw and are left out.
GetBytes(type) == CASE type = "DOUBLE" -> 8 [] type = "CHAR" -> 1 [] OTHER -> 4

\* Shift that multiplies by the size of type (std::log2 of its bytes).
Log2Bytes(type) == CASE type = "DOUBLE" -> 3 [] type = "CHAR" -> 0 [] OTHER -> 2

NodeIdentifier(e) ==
  CASE e.kind = "id" -> e.name
    [] e.kind \in {"unary", "index"} -> GetIdentifier(e.operand)
    [] e.kind = "assignment" -> GetIdentifier(e.left)
    [] OTHER -> ""

\* A variable has its declared type, a pointer that of what it points to, an
\* element of an array and a comparison INT whatever is stored or compared.
NodeType(e, syms) ==
  CASE e.kind = "chr" -> "CHAR"
    [] e.kind = "id" -> syms[e.name].type
    [] e.kind \in {"operation", "assignment"} -> GetType(e.left, syms)
    [] e.kind = "ternary" -> GetType(e.condition, syms)
    [] e.kind \in {"unary", "sizeof"} -> GetType(e.operand, syms)
    [] OTHER -> "INT"

\* Node::isPointer, which only a dereference answers with true.
IsPointerNode(e) == e.kind = "unary" /\ e.op = "*"

=============================================================================
