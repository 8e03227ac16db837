----------------------- MODULE MCConstantExpressions -----------------------
(* Expressions for TLC, built as trees would be: every operator over a set *)
(* of leaves, and some two deep.                                           *)
EXTENDS ConstantExpressions

Num(v)  == <<[kind |-> "constant", class |-> "int", value |-> v]>>
Chr(v)  == <<[kind |-> "constant", class |-> "char", value |-> v]>>
Id(n)   == <<[kind |-> "name", name |-> n]>>
Other(v) == <<[kind |-> "inherited", value |-> v]>>

\* The nodes of r, to stand after k others.
Moved(r, k) ==
  [i \in DOMAIN r |->
     CASE r[i].kind \in {"operation", "logical"} -> [r[i] EXCEPT !.left = @ + k, !.right = @ + k]
       [] r[i].kind \in {"unary", "increment", "preincrement"} -> [r[i] EXCEPT !.operand = @ + k]
       [] OTHER -> r[i]]

Both(kind, o, l, r) ==
  l \o Moved(r, Len(l)) \o <<[kind |-> kind, op |-> o, left |-> Len(l), right |-> Len(l) + Len(r)]>>
Binary(o, l, r)  == Both("operation", o, l, r)
Logical(o, l, r) == Both("logical", o, l, r)
One(kind, o, e)  == Append(e, [kind |-> kind, op |-> o, operand |-> Len(e)])
Unary(o, e)      == One("unary", o, e)

Leaves   == {Num(3), Num(0), Chr(2), Id("A"), Id("B")}
Binaries == {Binary(o, Id("A"), Id("B")) : o \in Arithmetical}
            \cup {Logical(o, Id("A"), Id("B")) : o \in Relational \cup BitOps \cup {"&&", "||"}}
Unaries  == {Unary(o, Id("A")) : o \in {"+", "-", "~", "!", "&", "*"}}
Steps    == {One(k, o, Id("A")) : k \in {"increment", "preincrement"}, o \in {"++", "--"}}
Deep     == {Binary("+", Id("A"), Num(3)), Binary("-", Unary("-", Num(7)), Num(1)),
             Binary("-", Binary("*", Id("A"), Id("B")), Binary("-", Num(3), Unary("!", Id("A")))),
             Logical("&&", Id("A"), Binary("/", Num(3), Id("B"))), Logical("||", Binary("%", Num(3), Id("B")), Id("A"))}

MCExpressions == Leaves \cup Binaries \cup Unaries \cup Steps \cup Deep \cup {Other(3), Other(Undefined)}
MCCaseLists == {<< >>, <<Id("A")>>, <<Num(3), Id("B")>>, <<Binary("+", Id("A"), Num(3)), Logical("&&", Id("A"), Id("B"))>>}
=============================================================================
