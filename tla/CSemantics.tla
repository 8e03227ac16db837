---------------------------- MODULE CSemantics -----------------------------
(***************************************************************************)
(* The reference: what C says an expression does, on the objects a program *)
(* can name.  It knows nothing of registers, of the frame below the        *)
(* variables or of the order instructions are written in; places of        *)
(* objects, sizes and arithmetic are those of Machine.                     *)
(*                                                                         *)
(* The outcome of an expression is its value, the memory after it, the     *)
(* places it reads and writes, and whether it leaves what C defines here:  *)
(* overflow, division by zero, a shift too far or of a negative number, an *)
(* access outside every object or of another type, two unsequenced         *)
(* accesses to one object, a char that does not hold the value (left to    *)
(* the implementation), a conversion between int and floating (never       *)
(* emitted by the compiler and not in its reach).                          *)
(***************************************************************************)
EXTENDS Machine

CONSTANTS
  FrameTop,   \* s0 of the running function
  CallValue,  \* what the called function returns
  \* Type, value and place of the operands of an expression: what TypeRule,
  \* ValueRule and PlaceRule say of them.
  CType(_, _), CValue(_, _, _), CPlace(_, _, _)

Outcome(v, mem) == [value |-> v, mem |-> mem, reads |-> {}, writes |-> {}, undefined |-> FALSE]
Mark(b, r)      == [r EXCEPT !.undefined = @ \/ b]

(***************************************************************************)
(* Types: a base type, or a pointer to one.  real is the floating type     *)
(* that constants have (the lexer does not tell float from double).        *)
(***************************************************************************)
Base(t)    == [pointer |-> FALSE, base |-> t]
PointerTo(t) == [pointer |-> TRUE, base |-> t]
Promote(t) == IF t = Base("CHAR") THEN Base("INT") ELSE t

TypeRule(e, env) ==
  LET operand == CType(e.operand, env)
      left    == CType(e.left, env)
      right   == CType(e.right, env)
  IN
  CASE e.kind \in {"num", "chr", "logical", "sizeof", "call"} -> Base("INT")
    [] e.kind = "flt" -> Base(env.real)
    [] e.kind = "id" -> [pointer |-> env.syms[e.name].isPointer \/ env.syms[e.name].isArray,
                         base |-> env.syms[e.name].type]
    [] e.kind = "index" -> Base(operand.base)
    [] e.kind = "operation" ->
         IF left.pointer /\ right.pointer THEN Base("INT") ELSE IF right.pointer THEN right ELSE Promote(left)
    [] e.kind = "ternary" -> Promote(left)
    [] e.kind = "assignment" -> left
    [] e.kind \in {"increment", "preincrement"} -> operand
    [] e.kind = "unary" ->
         CASE e.op = "&" -> PointerTo(operand.base)
           [] e.op = "*" -> Base(operand.base)
           [] e.op = "!" -> Base("INT")
           [] OTHER -> Promote(operand)

Bytes(t)  == IF t.pointer THEN 4 ELSE GetBytes(t.base)
Tag(t)    == IF t.pointer \/ t.base \in {"INT", "CHAR"} THEN "int" ELSE t.base
Stride(t) == IF t.pointer THEN GetBytes(t.base) ELSE 1

Place(x, env) ==
  IF env.syms[x].scope = "GLOBAL" THEN env.syms[x].loc ELSE FrameTop + env.syms[x].loc

(***************************************************************************)
(* Reading and writing objects                                             *)
(***************************************************************************)
\* r.value is an address; the outcome has what lies there.
Fetch(r, t) ==
  LET v == Read(r.mem, r.value[2], Bytes(t), Tag(t))
  IN  Mark(v = Junk, [r EXCEPT !.value = v, !.reads = @ \cup {r.value[2]}])

Representable(v, t) ==
  /\ v[1] = Tag(t)
  /\ v[1] = "int" => Fits(v[2], IF t = Base("CHAR") THEN CharBits ELSE WordBits)

\* v replaces what lies at address a.
Replace(r, a, t, v) ==
  Mark(~Representable(v, t) \/ a \in r.writes \/ Read(r.mem, a, Bytes(t), Tag(t)) = Junk,
       [r EXCEPT !.value = v, !.mem = Write(@, a, Bytes(t), v), !.writes = @ \cup {a}])

\* Two operands without a sequence point between them: r starts in l's memory.
Unsequenced(l, r) ==
  Mark(l.undefined \/ l.writes \cap (r.reads \cup r.writes) # {} \/ r.writes \cap l.reads # {},
       [r EXCEPT !.reads = @ \cup l.reads, !.writes = @ \cup l.writes])

Sequenced(l, r) ==
  Mark(l.undefined, [r EXCEPT !.reads = @ \cup l.reads, !.writes = @ \cup l.writes])

(***************************************************************************)
(* Operators                                                               *)
(***************************************************************************)
Arithmetic(o, m, n) ==
  CASE o = "+" -> m + n
    [] o = "-" -> m - n
    [] o = "*" -> m * n
    [] o = "/" -> IF n = 0 THEN 0 ELSE Quotient(m, n)
    [] o = "%" -> IF n = 0 THEN 0 ELSE Remainder(m, n)
    [] o = "<<" -> IF n \in 0 .. WordBits - 1 THEN m * 2^n ELSE 0
    [] o = ">>" -> IF n \in 0 .. WordBits - 1 THEN m \div 2^n ELSE 0
    [] o = "&" -> BitAnd(m, n)
    [] o = "|" -> BitOr(m, n)
    [] o = "^" -> BitXor(m, n)

Forbidden(o, m, n) ==
  \/ o \in {"/", "%"} /\ n = 0
  \/ o \in {"<<", ">>"} /\ (m < 0 \/ n \notin 0 .. WordBits - 1)

Real(o) == CASE o = "+" -> "fadd" [] o = "-" -> "fsub" [] o = "*" -> "fmul" [] o = "/" -> "fdiv"

\* The value of v o w for operands of types t and u, in outcome r.
Apply(o, t, v, u, w, r) ==
  IF v[1] # w[1] \/ v = Junk \/ w = Junk THEN Mark(TRUE, r)
  ELSE IF t.pointer /\ u.pointer
  THEN Mark(o # "-" \/ t # u, [r EXCEPT !.value = <<"int", Quotient(v[2] - w[2], Stride(t))>>])
  ELSE IF t.pointer \/ u.pointer
  THEN Mark(o \notin {"+", "-"}, [r EXCEPT !.value =
         Word(Arithmetic(IF o = "-" THEN o ELSE "+", v[2] * Stride(u), w[2] * Stride(t)))])
  ELSE IF v[1] = "int"
  THEN Mark(Forbidden(o, v[2], w[2]) \/ ~Fits(Arithmetic(o, v[2], w[2]), WordBits),
            [r EXCEPT !.value = Word(Arithmetic(o, v[2], w[2]))])
  ELSE IF o \in {"+", "-", "*", "/"}
  THEN Mark(o = "/" /\ w[2] = 0, [r EXCEPT !.value = <<v[1], Fp(Real(o), v[2], w[2])>>])
  ELSE Mark(TRUE, r)

(***************************************************************************)
(* Evaluation                                                              *)
(***************************************************************************)
\* The address of an lvalue.
PlaceRule(e, mem, env) ==
  LET base == CValue(e.operand, mem, env)
      sub  == CValue(e.index, base.mem, env)
  IN  CASE e.kind = "id" -> Outcome(Word(Place(e.name, env)), mem)
        [] e.kind = "unary" -> base
        [] e.kind = "index" ->
             Apply("+", CType(e.operand, env), base.value, CType(e.index, env), sub.value, Unsequenced(base, sub))

CUnary(e, mem, env) ==
  LET t == CType(e.operand, env)
      r == CValue(e.operand, mem, env)
      n == r.value[2]
      v == <<r.value[1], CASE e.op = "+" -> n [] e.op = "-" -> -n [] e.op = "~" -> -n - 1>>
  IN  CASE e.op = "&" -> CPlace(e.operand, mem, env)
        [] e.op = "*" -> Fetch(r, Base(t.base))
        [] e.op = "!" -> [r EXCEPT !.value = Word(Truth(n = 0))]
        [] OTHER -> Mark(~Representable(v, Promote(t)) \/ (e.op = "~" /\ Tag(t) # "int"), [r EXCEPT !.value = v])

CLogical(e, mem, env) ==
  LET l == CValue(e.left, mem, env)
      r == CValue(e.right, l.mem, env)
      decided == (l.value[2] = 0) = (e.op = "&&")
      both == Unsequenced(l, r)
  IN  CASE e.op \in {"&&", "||"} ->
             IF decided THEN [l EXCEPT !.value = Word(Truth(l.value[2] # 0))]
             ELSE [Sequenced(l, r) EXCEPT !.value = Word(Truth(r.value[2] # 0))]
        [] e.op \in {"&", "|", "^"} ->
             Apply(e.op, CType(e.left, env), l.value, CType(e.right, env), r.value, both)
        [] OTHER -> Mark(l.value[1] # r.value[1],
                         [both EXCEPT !.value = Word(Truth(Compare(e.op, l.value[2], r.value[2])))])

CAssignment(e, mem, env) ==
  LET t     == CType(e.left, env)
      place == CPlace(e.left, mem, env)
      r     == CValue(e.right, place.mem, env)
      both  == Unsequenced(place, r)
      old   == Read(r.mem, place.value[2], Bytes(t), Tag(t))
      done  == IF e.op = "=" THEN both ELSE Apply(e.op, t, old, CType(e.right, env), r.value, both)
  IN  Replace(done, place.value[2], t, done.value)

\* ++ and --, before and after.
CStep(e, mem, env) ==
  LET t     == CType(e.operand, env)
      place == CPlace(e.operand, mem, env)
      old   == Fetch(place, t)
      n     == IF e.op = "++" THEN Stride(t) ELSE -Stride(t)
      new   == Replace(old, place.value[2], t, <<old.value[1], old.value[2] + n>>)
  IN  IF e.kind = "increment" THEN [new EXCEPT !.value = old.value] ELSE new

CSizeof(e, env) ==
  IF e.operand.kind = "id" /\ IsArray(e.operand.name, env.syms)
  THEN env.syms[e.operand.name].length * GetBytes(env.syms[e.operand.name].type)
  ELSE Bytes(CType(e.operand, env))

ValueRule(e, mem, env) ==
  CASE e.kind \in {"num", "chr"} -> Outcome(Word(e.value), mem)
    [] e.kind = "flt" -> Outcome(<<env.real, e.value>>, mem)
    [] e.kind = "call" -> Outcome(Word(CallValue), mem)
    [] e.kind = "sizeof" -> Outcome(Word(CSizeof(e, env)), mem)
    [] e.kind = "id" ->
         CASE IsEnum(e.name, env.syms) -> Outcome(Word(env.syms[e.name].value), mem)
           [] IsArray(e.name, env.syms) -> CPlace(e, mem, env)
           [] OTHER -> Fetch(CPlace(e, mem, env), CType(e, env))
    [] e.kind = "index" -> Fetch(CPlace(e, mem, env), CType(e, env))
    [] e.kind = "operation" ->
         LET l == CValue(e.left, mem, env)
             r == CValue(e.right, l.mem, env)
         IN  Apply(e.op, CType(e.left, env), l.value, CType(e.right, env), r.value, Unsequenced(l, r))
    [] e.kind = "logical" -> CLogical(e, mem, env)
    [] e.kind = "ternary" ->
         LET b == CValue(e.condition, mem, env)
         IN  Sequenced(b, CValue(IF b.value[2] # 0 THEN e.left ELSE e.right, b.mem, env))
    [] e.kind = "unary" -> CUnary(e, mem, env)
    [] e.kind \in {"increment", "preincrement"} -> CStep(e, mem, env)
    [] e.kind = "assignment" -> CAssignment(e, mem, env)

=============================================================================
