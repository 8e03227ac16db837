--------------------------- MODULE MCExpressions ---------------------------
(* Programs for TLC: every expression of one operator over a set of leaves, *)
(* and two operators deep over fewer.                                       *)
EXTENDS Expressions, FiniteSetsExt, TLC

(***************************************************************************)
(* The virtual functions, which answer what the class of the node answers, *)
(* and the reference.  TLC's coverage report walks through what a .cfg     *)
(* substitutes for a constant, and would not end at functions that call    *)
(* each other: a LET is where it stops.                                    *)
(***************************************************************************)
MCParts(e)         == LET parts == PartsOf(e) IN parts
MCGetIdentifier(e) == LET name == NodeIdentifier(e) IN name
MCGetType(e, syms) == LET type == NodeType(e, syms) IN type
MCEmit(e, dest, c) == LET after == EmitNode(e, dest, c) IN after
MCHeight(e)        == LET below == {Height(d) : d \in Operands(e)} IN 1 + Max({0} \cup below)
MCCType(e, v) == LET type == TypeRule(e, v) IN type
MCCValue(e, m, v) == LET value == ValueRule(e, m, v) IN value
MCCPlace(e, m, v) == LET place == PlaceRule(e, m, v) IN place

Local(t, loc)   == [type |-> t, isPointer |-> FALSE, isArray |-> FALSE, scope |-> "LOCAL", loc |-> loc, length |-> 1, value |-> 0]
Pointer(t, loc) == [Local(t, loc) EXCEPT !.isPointer = TRUE]
Array(t, n, loc) == [Local(t, loc) EXCEPT !.isArray = TRUE, !.length = n]
Global(t, loc)  == [Local(t, loc) EXCEPT !.scope = "GLOBAL"]
Enum(n)         == [Local("INT", -1) EXCEPT !.scope = "ENUM", !.value = n]

\* int x, y, *p, v[2]; char c, *s; float h, k or double d, w; int g; enum {E = 3}
MCSymbols ==
  [x |-> Local("INT", -20), y |-> Local("INT", -24), p |-> Pointer("INT", -28),
   v |-> Array("INT", 2, -36), c |-> Local("CHAR", -37), s |-> Pointer("CHAR", -41),
   h |-> Local("FLOAT", -45), d |-> Local("DOUBLE", -53), g |-> Global("INT", -96), E |-> Enum(3)]

MCLocalsEnd == -53
MCConstBase == -128

Cell(n, v) == <<n, <<"int", v>> >>
Memory(x, y, p, s, c, h, d, g) ==
  (112 - 20 :> Cell(4, x)) @@ (112 - 24 :> Cell(4, y)) @@ (112 - 28 :> Cell(4, p))
  @@ (112 - 36 :> Cell(4, 6)) @@ (112 - 32 :> Cell(4, -9)) @@ (112 - 37 :> Cell(1, c))
  @@ (112 - 41 :> Cell(4, s)) @@ (112 - 45 :> <<4, <<"FLOAT", h>> >>)
  @@ (112 - 53 :> <<8, <<"DOUBLE", d>> >>) @@ (-96 :> Cell(4, g))

\* p points to the first element of v, nowhere, to the second; s to c.  Small
\* values and ones that overflow a word or a char.
MCMemories ==
  {Memory(2, -7, 112 - 36, 112 - 37, 5, 3, -4, 11), Memory(0, 1, 0, 112 - 37, -8, 0, 2, -1),
   Memory(-128, 3, 112 - 32, 112 - 37, 7, -2, 1, 100)}

-----------------------------------------------------------------------------
Names(xs) == {Id(x) : x \in xs}
ArithOps == {"+", "-", "*", "/", "%", "<<", ">>"}
TestOps  == {"<", ">", "<=", ">=", "==", "!="}
LogicOps == TestOps \cup {"&", "|", "^", "&&", "||"}

Leaves == Names({"x", "y", "c", "g", "E"}) \cup {Num(1), Chr(3)}
Few    == Names({"x", "c"})

Binaries(L, R)  == {Binary(o, l, r) : o \in ArithOps, l \in L, r \in R}
                   \cup {Logical(o, l, r) : o \in LogicOps, l \in L, r \in R}
Access1 == {Unary("*", Id("p")), Unary("*", Id("s")), Unary("*", Id("v")), Unary("&", Id("x")), Unary("&", Id("g")),
            Unary("&", Index("v", Num(1))), Unary("&", Index("p", Id("x"))), Unary("&", Unary("*", Id("p")))}
           \cup {Index(a, i) : a \in {"v", "p"}, i \in {Num(1), Id("x"), Id("c")}}
Steps   == {Post(o, Id(x)) : o \in {"++", "--"}, x \in {"x", "c", "g", "p", "s"}}
           \cup {Pre(o, Id(x)) : o \in {"++", "--"}, x \in {"x", "c", "g", "p", "s"}}
Unaries(L) == {Unary(o, l) : o \in {"+", "-", "~", "!"}, l \in L}
Sizes   == {Sizeof(e) : e \in Names({"x", "c", "v", "p", "s", "h", "d"}) \cup {Chr(3)}}

One == Leaves \cup Binaries(Leaves, Leaves) \cup Unaries(Leaves) \cup Access1 \cup Steps \cup Sizes \cup {Call}
Inner == {Binary("-", Id("x"), Id("y")), Binary("+", Id("c"), Num(1)), Logical("<", Id("x"), Id("y")),
          Logical("&&", Id("x"), Id("y")), Logical("||", Id("x"), Id("c")), Unary("-", Id("x")),
          Ternary(Id("x"), Id("y"), Id("g")), Index("v", Num(1)), Unary("*", Id("p")),
          Post("++", Id("x")), Pre("--", Id("g")), Assign("=", Id("y"), Num(4)), Assign("+", Id("y"), Num(4)), Call}
Mixed == {Binary("-", e, f) : e \in Inner, f \in Few \cup Inner} \cup {Binary("*", f, e) : e \in Inner, f \in Few}
         \cup {Logical(o, e, f) : o \in {"<", "==", "&", "&&", "||"}, e \in Inner, f \in Few}
         \cup {Logical(o, f, e) : o \in {"<", "==", "&", "&&", "||"}, e \in Inner, f \in Few}
         \cup {Ternary(b, t, f) : b \in Inner \cup Few, t \in {Id("y"), Binary("-", Id("x"), Id("y"))}, f \in {Id("g"), Logical("&&", Id("x"), Id("y"))}}
         \cup Unaries(Inner) \cup {Index("v", e) : e \in Inner} \cup {Index("p", e) : e \in Inner}
\* Pointer arithmetic and comparison.
Pointers == {Binary(o, l, r) : o \in {"+", "-"}, l \in Names({"p", "s"}), r \in {Num(1), Id("x")}}
            \cup {Binary("-", l, r) : l \in Names({"p", "s"}), r \in {Id("p"), Id("s"), Unary("&", Id("x"))}}
            \cup {Binary("+", l, Num(1)) : l \in {Id("v"), Unary("&", Id("x")), Binary("+", Id("p"), Num(1)), Unary("*", Id("p"))}}
            \cup {Binary("+", Num(1), Id("p"))}
            \cup {Logical(o, Id("p"), r) : o \in {"==", "<", "&&"}, r \in {Id("p"), Id("v"), Unary("*", Id("p"))}}
            \cup {Unary("*", e) : e \in {Binary("+", Id("p"), Num(1)), Binary("+", Id("s"), Num(0)), Post("++", Id("p")), Post("++", Id("s")), Unary("&", Id("y"))}}
Depth2 == Binary("-", Binary("*", Id("x"), Binary("-", Id("y"), Id("c"))), Binary("-", Logical("<", Id("g"), Num(2)), Binary("%", Id("y"), Num(4))))

Targets == Names({"x", "c", "g"}) \cup {Index("v", Num(0)), Index("v", Id("x")), Index("v", Post("++", Id("x"))),
            Index("v", Index("p", Num(0))), Index("p", Num(1)), Unary("*", Id("p")), Unary("*", Id("v")), Unary("*", Id("s")),
            Unary("*", Binary("+", Id("p"), Num(1)))}
Assignments ==
  {Assign("=", t, e) : t \in Targets, e \in {Num(6), Id("y")} \cup Inner}
  \cup {Assign(o, t, e) : o \in ArithOps \cup {"&", "|", "^"}, t \in Targets, e \in {Num(3), Id("y"), Call}}
  \cup {Assign("+", Id("x"), e) : e \in Inner}
  \cup {Assign(o, Id(q), Num(1)) : o \in {"=", "+", "-", "*"}, q \in {"p", "s"}}
  \cup {Assign("=", Id("p"), e) : e \in {Id("v"), Binary("+", Id("p"), Num(1)), Unary("&", Id("x")), Unary("&", Id("g"))}}

Real1(f, z) ==
  {Flt(2), Id(f)} \cup {Binary(o, l, r) : o \in {"+", "-", "*", "/", "%"}, l \in {Id(f), Flt(2)}, r \in {Id(f), z, Flt(2)}}
  \cup {Binary("-", Binary("*", Id(f), z), Binary("-", Id(f), z)), Unary("-", Id(f)), Unary("-", Flt(2)),
        Ternary(Id("x"), Id(f), Flt(2)), Ternary(Id(f), Id(f), Id(f)), Ternary(Logical("<", Id(f), z), z, Id(f))}
  \cup {Post(o, Id(f)) : o \in {"++", "--"}} \cup {Pre(o, Id(f)) : o \in {"++", "--"}}
RealTests(f) ==
  {Logical(o, l, r) : o \in LogicOps, l \in {Id(f), Unary("-", Id(f)), Flt(2)}, r \in {Id(f), Flt(2), Binary("-", Id(f), Id(f))}}
  \cup {Logical("&&", Id("x"), Id(f)), Logical("||", Id(f), Id("x")), Unary("!", Id(f)),
        Logical("&&", Logical("<", Id(f), Flt(2)), Logical("||", Id(f), Id(f))), Sizeof(Id(f))}

Use(u, t, r, es) == {[use |-> u, type |-> t, real |-> r, e |-> e] : e \in es}

MCPrograms ==
  Use("return", "INT", "FLOAT", One \cup Mixed \cup Pointers \cup {Depth2})
  \cup Use("effect", "VOID", "FLOAT", Assignments \cup Steps \cup {Call, Ternary(Id("x"), Post("++", Id("y")), Pre("--", Id("y")))})
  \cup Use("declare", "INT", "FLOAT", Inner \cup {Num(7)}) \cup Use("declare", "CHAR", "FLOAT", {Id("c"), Chr(2), Post("++", Id("x"))})
  \cup Use("return", "FLOAT", "FLOAT", Real1("h", Binary("+", Id("h"), Id("h")))) \cup Use("return", "DOUBLE", "DOUBLE", Real1("d", Binary("+", Id("d"), Id("d"))))
  \cup Use("return", "INT", "FLOAT", RealTests("h")) \cup Use("return", "INT", "DOUBLE", RealTests("d"))
  \cup Use("effect", "VOID", "FLOAT", {Assign(o, Id("h"), e) : o \in {"=", "+"}, e \in {Flt(2), Binary("-", Id("h"), Id("h"))}})
  \cup Use("declare", "FLOAT", "FLOAT", {Flt(2), Unary("-", Id("h"))}) \cup Use("declare", "DOUBLE", "DOUBLE", {Flt(2), Id("d")})

=============================================================================
