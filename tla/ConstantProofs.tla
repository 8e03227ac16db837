--------------------------- MODULE ConstantProofs ---------------------------
(***************************************************************************)
(* Theorems about the constants the compiler evaluates: for every width,   *)
(* every set of names and expressions, every nesting of scopes and         *)
(* switches.                                                               *)
(***************************************************************************)
EXTENDS ConstantExpressions, DataLemmas

\* Induction over 1..n with all earlier elements.
LEMMA PlaceInduction ==
  ASSUME NEW n \in Nat, NEW S, \A i \in 1..n : (\A j \in 1..i - 1 : j \in S) => i \in S
  PROVE  \A i \in 1..n : i \in S
<1>. DEFINE T == {i \in Nat : \A j \in 1..i : j \in S}
<1>1. 0 \in T
  OBVIOUS
<1>2. ASSUME NEW i \in 0..n - 1, i \in T PROVE i + 1 \in T
  <2>1. i + 1 \in 1..n /\ (i + 1) - 1 = i
    OBVIOUS
  <2>2. \A j \in 1..i : j \in S
    BY <1>2
  <2>3. i + 1 \in S
    BY <2>1, <2>2
  <2>4. \A j \in 1..i + 1 : j \in 1..i \/ j = i + 1
    OBVIOUS
  <2>. QED
    BY <2>2, <2>3, <2>4
<1>. HIDE DEF T
<1>3. \A i \in 0..n : i \in T
  BY <1>1, <1>2, RangeInduction
<1>4. n \in T
  BY <1>3
<1>. QED
  BY <1>4 DEF T

-----------------------------------------------------------------------------
(* Words.                                                                  *)

LEMMA Widths == WordBits \in Nat /\ CharBits \in Nat /\ WordBits >= 3
BY WidthAssumption

\* Powers double, and are positive.
LEMMA PowerSteps ==
  /\ Power2[0] = 1
  /\ \A i \in 0..WordBits - 1 : Power2[i + 1] = 2 * Power2[i]
<1>1. Power2 = CHOOSE f : Powers(f, WordBits)
  BY Zenon DEF Power2, Powers
<1>. HIDE DEF Power2
<1>. QED
  BY <1>1, Widths, PowersFacts

LEMMA PowersPositive == \A i \in 0..WordBits : Power2[i] \in Nat /\ Power2[i] > 0
<1>1. Power2 = CHOOSE f : Powers(f, WordBits)
  BY Zenon DEF Power2, Powers
<1>. HIDE DEF Power2
<1>. QED
  BY <1>1, Widths, PowersFacts

\* Half of the words are negative.
LEMMA Halves ==
  /\ Power2[WordBits - 1] \in Nat /\ Power2[WordBits - 1] >= 2
  /\ Power2[WordBits] = 2 * Power2[WordBits - 1]
<1>1. /\ WordBits - 1 \in 0..WordBits - 1 /\ WordBits - 2 \in 0..WordBits - 1
      /\ (WordBits - 1) + 1 = WordBits /\ (WordBits - 2) + 1 = WordBits - 1
      /\ WordBits - 2 \in 0..WordBits
  BY Widths
<1>2. Power2[WordBits] = 2 * Power2[WordBits - 1] /\ Power2[WordBits - 1] = 2 * Power2[WordBits - 2]
  BY <1>1, PowerSteps, Zenon
<1>3. Power2[WordBits - 2] \in Nat /\ Power2[WordBits - 2] > 0
  BY <1>1, PowersPositive
<1>. QED
  BY <1>2, <1>3

\* Whatever is computed becomes an int, and an int stays what it is.
LEMMA WrapFacts ==
  /\ \A n \in Int : Wrap(n, WordBits) \in Ints
  /\ \A n \in Ints : n \in Int /\ Wrap(n, WordBits) = n
  /\ \A n \in Int : Fits(n, WordBits) => n \in Ints
  /\ 0 \in Ints /\ 1 \in Ints
<1>. DEFINE h == Power2[WordBits - 1]
<1>1. h \in Nat /\ h >= 2 /\ Power2[WordBits] = 2 * h
  BY Halves
<1>. HIDE DEF h
<1>2. \A n \in Int : ((n + h) % (2 * h)) - h \in -h .. h - 1
  BY <1>1
<1>3. \A n \in -h .. h - 1 : n \in Int /\ ((n + h) % (2 * h)) - h = n
  BY <1>1
<1>4. Ints = -h .. h - 1
  BY DEF Ints, h
<1>5. \A n : Wrap(n, WordBits) = ((n + h) % (2 * h)) - h
  BY <1>1 DEF Wrap, h
<1>. HIDE DEF Wrap
<1>6. \A n \in Int : Wrap(n, WordBits) \in Ints
  BY <1>2, <1>4, <1>5
<1>7. \A n \in Ints : n \in Int /\ Wrap(n, WordBits) = n
  BY <1>3, <1>4, <1>5
<1>8. 0 \in Ints /\ 1 \in Ints
  BY <1>1, <1>4
<1>. QED
  BY <1>6, <1>7, <1>8 DEF Fits

LEMMA TruthFacts == \A b \in BOOLEAN : Truth(b) \in Ints
BY WrapFacts DEF Truth

LEMMA QuotientFacts ==
  ASSUME NEW m \in Int, NEW n \in Int, n # 0
  PROVE  Quotient(m, n) \in Int /\ Remainder(m, n) \in Int
<1>1. Abs(m) \in Int /\ Abs(n) \in Nat /\ Abs(n) > 0
  BY DEF Abs
<1>2. Abs(m) \div Abs(n) \in Int
  BY <1>1
<1>3. Quotient(m, n) \in Int
  BY <1>2 DEF Quotient
<1>. QED
  BY <1>3 DEF Remainder

LEMMA FromBitsFacts ==
  ASSUME NEW b \in [1..WordBits -> Int]
  PROVE  FromBits(b) \in Ints
<1>. DEFINE f == [i \in 1..WordBits |-> b[i] * Power2[i - 1]]
<1>1. WordBits \in Nat
  BY Widths
<1>2. f \in [1..WordBits -> Int]
  <2>1. \A i \in 1..WordBits : i - 1 \in 0..WordBits
    BY <1>1
  <2>2. \A i \in 1..WordBits : b[i] \in Int /\ Power2[i - 1] \in Int
    BY <2>1, PowersPositive
  <2>. QED
    BY <2>2
<1>. HIDE DEF f
<1>3. SumFunction(f) \in Int
  BY <1>1, <1>2, SumType, FS_Interval
<1>4. FromBits(b) = Wrap(SumFunction(f), WordBits)
  BY DEF FromBits, f
<1>. QED
  BY <1>3, <1>4, WrapFacts

LEMMA BitFacts ==
  ASSUME NEW m \in Int, NEW n \in Int
  PROVE  BitAnd(m, n) \in Ints /\ BitOr(m, n) \in Ints /\ BitXor(m, n) \in Ints
<1>1. ASSUME NEW k \in Int, NEW i \in 1..WordBits PROVE Bit(k, i) \in Int
  <2>1. i - 1 \in 0..WordBits
    BY Widths
  <2>2. Power2[i - 1] \in Nat /\ Power2[i - 1] > 0
    BY <2>1, PowersPositive
  <2>. QED
    BY <2>2 DEF Bit
<1>2. \A i \in 1..WordBits : Bit(m, i) \in Int /\ Bit(n, i) \in Int
  BY <1>1
<1>3. /\ [i \in 1..WordBits |-> Bit(m, i) * Bit(n, i)] \in [1..WordBits -> Int]
      /\ [i \in 1..WordBits |-> IF Bit(m, i) = 1 THEN 1 ELSE Bit(n, i)] \in [1..WordBits -> Int]
      /\ [i \in 1..WordBits |-> (Bit(m, i) + Bit(n, i)) % 2] \in [1..WordBits -> Int]
  BY <1>2
<1>. QED
  BY <1>3, FromBitsFacts DEF BitAnd, BitOr, BitXor

-----------------------------------------------------------------------------
(* Nodes.                                                                  *)

Kinds == {"constant", "name", "inherited", "operation", "logical", "unary", "increment", "preincrement"}
TwoOperands == {"operation", "logical"}
OneOperand  == {"unary", "increment", "preincrement"}

LEMMA NodeFacts ==
  ASSUME NEW d \in Node
  PROVE  /\ d.kind \in Kinds
         /\ d.kind = "constant" => d.value \in Ints
         /\ d.kind = "name" => d.name \in Name
         /\ d.kind = "inherited" => d.value \in Ints \cup {Undefined}
         /\ d.kind = "operation" => d.op \in Arithmetical
         /\ d.kind = "logical" => d.op \in Relational \cup BitOps \cup {"&&", "||"}
         /\ d.kind = "unary" => d.op \in {"+", "-", "~", "!", "&", "*"}
<1>. HIDE DEF Ints
<1>. QED
  BY DEF Node, Kinds

LEMMA OperandFacts ==
  ASSUME NEW d \in Node
  PROVE  /\ d.kind \in TwoOperands => d.left \in Operands(d) /\ d.right \in Operands(d)
         /\ d.kind \in OneOperand => d.operand \in Operands(d)
BY DEF Operands, TwoOperands, OneOperand

LEMMA ExpressionFacts ==
  ASSUME NEW e, IsExpression(e)
  PROVE  /\ Len(e) \in Nat /\ Len(e) \in 1..Len(e) /\ DOMAIN e = 1..Len(e)
         /\ \A i \in 1..Len(e) : e[i] \in Node /\ Operands(e[i]) \subseteq 1..i - 1
<1>1. e \in Seq(Node) /\ e # << >> /\ \A i \in 1..Len(e) : Operands(e[i]) \subseteq 1..i - 1
  BY DEF IsExpression
<1>. HIDE DEF Node, IsExpression
<1>. QED
  BY <1>1

\* What EvalNode is for each kind of node.
LEMMA EvalCases ==
  ASSUME NEW d \in Node, NEW f, NEW v
  PROVE  /\ d.kind = "constant" => EvalNode(d, f, v) = Constant(d.value)
         /\ d.kind = "name" => EvalNode(d, f, v) = IF v[d.name] = None THEN Thrown ELSE Constant(v[d.name])
         /\ d.kind = "inherited" => EvalNode(d, f, v) = Constant(0)
         /\ d.kind = "operation" =>
              EvalNode(d, f, v) = IF f[d.left].thrown \/ f[d.right].thrown THEN Thrown
                                  ELSE EvalOperation(d.op, f[d.left].value, f[d.right].value)
         /\ d.kind = "logical" =>
              EvalNode(d, f, v) = IF f[d.left].thrown \/ f[d.right].thrown THEN Thrown
                                  ELSE Constant(EvalLogical(d.op, f[d.left].value, f[d.right].value))
         /\ d.kind = "unary" =>
              EvalNode(d, f, v) = IF f[d.operand].thrown THEN Thrown ELSE EvalUnary(d.op, f[d.operand].value)
         /\ d.kind \in {"increment", "preincrement"} =>
              EvalNode(d, f, v) = IF f[d.operand].thrown THEN Thrown
                                  ELSE Constant(IF d.op = "++" THEN f[d.operand].value + 1 ELSE f[d.operand].value - 1)
<1>. HIDE DEF Node
<1>1. d.kind = "constant" => EvalNode(d, f, v) = Constant(d.value)
  BY DEF EvalNode
<1>2. d.kind = "name" => EvalNode(d, f, v) = IF v[d.name] = None THEN Thrown ELSE Constant(v[d.name])
  BY DEF EvalNode
<1>3. d.kind = "inherited" => EvalNode(d, f, v) = Constant(0)
  BY DEF EvalNode
<1>4. d.kind = "operation" =>
        EvalNode(d, f, v) = IF f[d.left].thrown \/ f[d.right].thrown THEN Thrown
                            ELSE EvalOperation(d.op, f[d.left].value, f[d.right].value)
  BY DEF EvalNode
<1>5. d.kind = "logical" =>
        EvalNode(d, f, v) = IF f[d.left].thrown \/ f[d.right].thrown THEN Thrown
                            ELSE Constant(EvalLogical(d.op, f[d.left].value, f[d.right].value))
  BY DEF EvalNode
<1>6. d.kind = "unary" =>
        EvalNode(d, f, v) = IF f[d.operand].thrown THEN Thrown ELSE EvalUnary(d.op, f[d.operand].value)
  BY DEF EvalNode
<1>7. d.kind \in {"increment", "preincrement"} =>
        EvalNode(d, f, v) = IF f[d.operand].thrown THEN Thrown
                            ELSE Constant(IF d.op = "++" THEN f[d.operand].value + 1 ELSE f[d.operand].value - 1)
  BY DEF EvalNode
<1>. QED
  BY <1>1, <1>2, <1>3, <1>4, <1>5, <1>6, <1>7

LEMMA MeaningCases ==
  ASSUME NEW d \in Node, NEW f, NEW v
  PROVE  /\ d.kind \in {"constant", "inherited"} => MeaningOfNode(d, f, v) = d.value
         /\ d.kind = "name" => MeaningOfNode(d, f, v) = IF v[d.name] = None THEN Undefined ELSE v[d.name]
         /\ d.kind = "operation" \/ (d.kind = "logical" /\ d.op \notin {"&&", "||"}) =>
              MeaningOfNode(d, f, v) = IF Undefined \in {f[d.left], f[d.right]} THEN Undefined
                                       ELSE MeaningOfOperation(d.op, f[d.left], f[d.right])
         /\ d.kind = "logical" /\ d.op \in {"&&", "||"} =>
              MeaningOfNode(d, f, v) = MeaningOfChoice(d.op, f[d.left], f[d.right])
         /\ d.kind = "unary" =>
              MeaningOfNode(d, f, v) = IF f[d.operand] = Undefined THEN Undefined
                                       ELSE MeaningOfUnary(d.op, f[d.operand])
         /\ d.kind \in {"increment", "preincrement"} => MeaningOfNode(d, f, v) = Undefined
<1>. HIDE DEF Node
<1>1. d.kind \in {"constant", "inherited"} => MeaningOfNode(d, f, v) = d.value
  BY DEF MeaningOfNode
<1>2. d.kind = "name" => MeaningOfNode(d, f, v) = IF v[d.name] = None THEN Undefined ELSE v[d.name]
  BY DEF MeaningOfNode
<1>3. d.kind = "operation" \/ (d.kind = "logical" /\ d.op \notin {"&&", "||"}) =>
        MeaningOfNode(d, f, v) = IF Undefined \in {f[d.left], f[d.right]} THEN Undefined
                                 ELSE MeaningOfOperation(d.op, f[d.left], f[d.right])
  BY DEF MeaningOfNode
<1>4. d.kind = "logical" /\ d.op \in {"&&", "||"} =>
        MeaningOfNode(d, f, v) = MeaningOfChoice(d.op, f[d.left], f[d.right])
  BY DEF MeaningOfNode
<1>5. d.kind = "unary" =>
        MeaningOfNode(d, f, v) = IF f[d.operand] = Undefined THEN Undefined
                                 ELSE MeaningOfUnary(d.op, f[d.operand])
  BY DEF MeaningOfNode
<1>6. d.kind \in {"increment", "preincrement"} => MeaningOfNode(d, f, v) = Undefined
  BY DEF MeaningOfNode
<1>. QED
  BY <1>1, <1>2, <1>3, <1>4, <1>5, <1>6

\* A node depends on its operands only, and on no name but its own.
LEMMA NodeDepends ==
  ASSUME NEW d \in Node, NEW f, NEW g, NEW v, NEW w,
         \A j \in Operands(d) : f[j] = g[j],
         d.kind = "name" => v[d.name] = w[d.name]
  PROVE  EvalNode(d, f, v) = EvalNode(d, g, w)
<1>. HIDE DEF Node
<1>1. d.kind \in Kinds
  BY NodeFacts
<1>2. CASE d.kind \in {"constant", "inherited", "name"}
  BY <1>2, EvalCases
<1>3. CASE d.kind \in TwoOperands
  <2>1. f[d.left] = g[d.left] /\ f[d.right] = g[d.right]
    BY <1>3, OperandFacts
  <2>. QED
    BY <1>3, <2>1, EvalCases DEF TwoOperands
<1>4. CASE d.kind \in OneOperand
  <2>1. f[d.operand] = g[d.operand]
    BY <1>4, OperandFacts
  <2>. QED
    BY <1>4, <2>1, EvalCases DEF OneOperand
<1>. QED
  BY <1>1, <1>2, <1>3, <1>4 DEF Kinds, TwoOperands, OneOperand

LEMMA MeaningDepends ==
  ASSUME NEW d \in Node, NEW f, NEW g, NEW v, \A j \in Operands(d) : f[j] = g[j]
  PROVE  MeaningOfNode(d, f, v) = MeaningOfNode(d, g, v)
<1>. HIDE DEF Node
<1>1. d.kind \in Kinds
  BY NodeFacts
<1>2. CASE d.kind \in {"constant", "inherited", "name"}
  BY <1>2, MeaningCases
<1>3. CASE d.kind \in TwoOperands
  <2>1. f[d.left] = g[d.left] /\ f[d.right] = g[d.right]
    BY <1>3, OperandFacts
  <2>. QED
    BY <1>3, <2>1, MeaningCases DEF TwoOperands
<1>4. CASE d.kind \in OneOperand
  <2>1. f[d.operand] = g[d.operand]
    BY <1>4, OperandFacts
  <2>. QED
    BY <1>4, <2>1, MeaningCases DEF OneOperand
<1>. QED
  BY <1>1, <1>2, <1>3, <1>4 DEF Kinds, TwoOperands, OneOperand

-----------------------------------------------------------------------------
(* Expressions.                                                            *)

\* f is the recursive function of Evaluated, and of Meanings, on the first n nodes.
Evaluates(f, e, v, n) == f = [i \in 1..n |-> EvalNode(e[i], f, v)]
Means(f, e, v, n)     == f = [i \in 1..n |-> MeaningOfNode(e[i], f, v)]

LEMMA FirstNodes ==
  ASSUME NEW e, IsExpression(e), NEW n \in 0..Len(e) - 1
  PROVE  /\ \A i \in 1..n + 1 : e[i] \in Node /\ Operands(e[i]) \subseteq 1..n
         /\ 1..n \subseteq 1..n + 1
<1>1. Len(e) \in Nat
  BY ExpressionFacts
<1>2. \A i \in 1..n + 1 : i \in 1..Len(e) /\ 1..i - 1 \subseteq 1..n
  BY <1>1
<1>3. \A i \in 1..n + 1 : e[i] \in Node /\ Operands(e[i]) \subseteq 1..i - 1
  BY <1>2, ExpressionFacts
<1>4. \A i \in 1..n + 1 : Operands(e[i]) \subseteq 1..n
  BY <1>2, <1>3, Zenon
<1>5. 1..n \subseteq 1..n + 1
  BY <1>1
<1>. QED
  BY <1>3, <1>4, <1>5

LEMMA EvaluatesExist ==
  ASSUME NEW e, IsExpression(e), NEW v
  PROVE  \E f : Evaluates(f, e, v, Len(e))
<1>. DEFINE S == {n \in Nat : \E f : Evaluates(f, e, v, n)}
<1>1. 0 \in S
  <2>1. Evaluates([i \in 1..0 |-> EvalNode(e[i], << >>, v)], e, v, 0)
    BY DEF Evaluates
  <2>. QED
    BY <2>1
<1>2. ASSUME NEW n \in 0..Len(e) - 1, n \in S PROVE n + 1 \in S
  <2>1. PICK f : Evaluates(f, e, v, n)
    BY <1>2
  <2>. DEFINE g == [i \in 1..n + 1 |-> EvalNode(e[i], f, v)]
              h == [i \in 1..n + 1 |-> EvalNode(e[i], g, v)]
  <2>2. ASSUME NEW i \in 1..n PROVE g[i] = f[i]
    <3>1. f[i] = EvalNode(e[i], f, v)
      BY <2>1, Zenon DEF Evaluates
    <3>2. i \in 1..n + 1
      BY FirstNodes
    <3>. QED
      BY <3>1, <3>2, Zenon
  <2>3. ASSUME NEW i \in 1..n + 1 PROVE g[i] = h[i]
    <3>1. \A j \in Operands(e[i]) : f[j] = g[j]
      BY <2>2, FirstNodes, Zenon
    <3>2. e[i] \in Node
      BY FirstNodes
    <3>. HIDE DEF g
    <3>3. EvalNode(e[i], f, v) = EvalNode(e[i], g, v)
      BY <3>1, <3>2, NodeDepends
    <3>. QED
      BY <3>3, Zenon DEF g
  <2>4. g = h
    BY <2>3, Zenon
  <2>5. Evaluates(g, e, v, n + 1)
    BY <2>4 DEF Evaluates
  <2>6. n + 1 \in Nat
    BY ExpressionFacts
  <2>. QED
    BY <2>5, <2>6
<1>. HIDE DEF S
<1>3. Len(e) \in Nat /\ Len(e) \in 0..Len(e)
  BY ExpressionFacts
<1>4. \A n \in 0..Len(e) : n \in S
  BY <1>1, <1>2, <1>3, RangeInduction
<1>. QED
  BY <1>3, <1>4 DEF S

LEMMA MeansExist ==
  ASSUME NEW e, IsExpression(e), NEW v
  PROVE  \E f : Means(f, e, v, Len(e))
<1>. DEFINE S == {n \in Nat : \E f : Means(f, e, v, n)}
<1>1. 0 \in S
  <2>1. Means([i \in 1..0 |-> MeaningOfNode(e[i], << >>, v)], e, v, 0)
    BY DEF Means
  <2>. QED
    BY <2>1
<1>2. ASSUME NEW n \in 0..Len(e) - 1, n \in S PROVE n + 1 \in S
  <2>1. PICK f : Means(f, e, v, n)
    BY <1>2
  <2>. DEFINE g == [i \in 1..n + 1 |-> MeaningOfNode(e[i], f, v)]
              h == [i \in 1..n + 1 |-> MeaningOfNode(e[i], g, v)]
  <2>2. ASSUME NEW i \in 1..n PROVE g[i] = f[i]
    <3>1. f[i] = MeaningOfNode(e[i], f, v)
      BY <2>1, Zenon DEF Means
    <3>2. i \in 1..n + 1
      BY FirstNodes
    <3>. QED
      BY <3>1, <3>2, Zenon
  <2>3. ASSUME NEW i \in 1..n + 1 PROVE g[i] = h[i]
    <3>1. \A j \in Operands(e[i]) : f[j] = g[j]
      BY <2>2, FirstNodes, Zenon
    <3>2. e[i] \in Node
      BY FirstNodes
    <3>. HIDE DEF g
    <3>3. MeaningOfNode(e[i], f, v) = MeaningOfNode(e[i], g, v)
      BY <3>1, <3>2, MeaningDepends
    <3>. QED
      BY <3>3, Zenon DEF g
  <2>4. g = h
    BY <2>3, Zenon
  <2>5. Means(g, e, v, n + 1)
    BY <2>4 DEF Means
  <2>6. n + 1 \in Nat
    BY ExpressionFacts
  <2>. QED
    BY <2>5, <2>6
<1>. HIDE DEF S
<1>3. Len(e) \in Nat /\ Len(e) \in 0..Len(e)
  BY ExpressionFacts
<1>4. \A n \in 0..Len(e) : n \in S
  BY <1>1, <1>2, <1>3, RangeInduction
<1>. QED
  BY <1>3, <1>4 DEF S

\* The equations of the two recursive functions.
LEMMA EvaluatedStep ==
  ASSUME NEW e, IsExpression(e), NEW v
  PROVE  \A i \in 1..Len(e) : Evaluated(e, v)[i] = EvalNode(e[i], Evaluated(e, v), v)
<1>1. Evaluated(e, v) = CHOOSE f : Evaluates(f, e, v, Len(e))
  BY Zenon DEF Evaluated, Evaluates
<1>2. Evaluates(Evaluated(e, v), e, v, Len(e))
  BY <1>1, EvaluatesExist, Zenon
<1>. HIDE DEF Evaluated
<1>. QED
  BY <1>2, Zenon DEF Evaluates

LEMMA MeaningsStep ==
  ASSUME NEW e, IsExpression(e), NEW v
  PROVE  \A i \in 1..Len(e) : Meanings(e, v)[i] = MeaningOfNode(e[i], Meanings(e, v), v)
<1>1. Meanings(e, v) = CHOOSE f : Means(f, e, v, Len(e))
  BY Zenon DEF Meanings, Means
<1>2. Means(Meanings(e, v), e, v, Len(e))
  BY <1>1, MeansExist, Zenon
<1>. HIDE DEF Meanings
<1>. QED
  BY <1>2, Zenon DEF Means

\* An expression is evaluated to the same in environments that agree on its names.
LEMMA EvaluatedDepends ==
  ASSUME NEW e, IsExpression(e), NEW v, NEW w, \A n \in Name : Mentions(e, n) => v[n] = w[n]
  PROVE  EvalConstExpr(e, v) = EvalConstExpr(e, w)
<1>. DEFINE S == {i \in 1..Len(e) : Evaluated(e, v)[i] = Evaluated(e, w)[i]}
<1>1. Len(e) \in Nat /\ Len(e) \in 1..Len(e)
  BY ExpressionFacts
<1>2. ASSUME NEW i \in 1..Len(e), \A j \in 1..i - 1 : j \in S PROVE i \in S
  <2>1. e[i] \in Node /\ Operands(e[i]) \subseteq 1..i - 1
    BY ExpressionFacts
  <2>2. \A j \in Operands(e[i]) : Evaluated(e, v)[j] = Evaluated(e, w)[j]
    BY <1>2, <2>1
  <2>3. e[i].kind = "name" => v[e[i].name] = w[e[i].name]
    <3>. SUFFICES ASSUME e[i].kind = "name" PROVE v[e[i].name] = w[e[i].name]
      OBVIOUS
    <3>1. e[i].name \in Name
      BY <2>1, NodeFacts
    <3>2. Mentions(e, e[i].name)
      BY ExpressionFacts DEF Mentions
    <3>. QED
      BY <3>1, <3>2
  <2>4. EvalNode(e[i], Evaluated(e, v), v) = EvalNode(e[i], Evaluated(e, w), w)
    BY <2>1, <2>2, <2>3, NodeDepends
  <2>. QED
    BY <2>4, EvaluatedStep
<1>. HIDE DEF S
<1>3. Len(e) \in S
  BY <1>1, <1>2, PlaceInduction
<1>. QED
  BY <1>3 DEF S, EvalConstExpr

-----------------------------------------------------------------------------
(* Types of results.                                                       *)

Outcomes    == [thrown : BOOLEAN, value : Ints]
Values      == [Name -> Ints \cup {None}]
MeaningsOfNames == [Name -> Ints \cup {Undefined, None}]

LEMMA ConstantFacts ==
  /\ \A n \in Int : Constant(n) \in Outcomes /\ ~Constant(n).thrown
  /\ \A n \in Ints : Constant(n).value = n
  /\ Thrown \in Outcomes /\ Thrown.thrown
<1>. HIDE DEF Wrap, Ints
<1>. QED
  BY WrapFacts DEF Constant, Thrown, Outcomes

LEMMA OutcomeFacts ==
  ASSUME NEW r \in Outcomes
  PROVE  r.thrown \in BOOLEAN /\ r.value \in Ints /\ r.value \in Int
<1>. HIDE DEF Ints
<1>. QED
  BY WrapFacts DEF Outcomes

LEMMA ShiftFacts ==
  ASSUME NEW l \in Int, NEW r \in Nat
  PROVE  /\ l * Power2[r % WordBits] \in Int /\ l \div Power2[r % WordBits] \in Int
         /\ r \in 0..WordBits - 1 => r % WordBits = r
<1>1. WordBits \in Nat /\ WordBits > 0
  BY Widths
<1>2. r % WordBits \in 0..WordBits /\ (r \in 0..WordBits - 1 => r % WordBits = r)
  BY <1>1
<1>3. Power2[r % WordBits] \in Nat /\ Power2[r % WordBits] > 0
  BY <1>2, PowersPositive
<1>. QED
  BY <1>2, <1>3

LEMMA OperationType ==
  ASSUME NEW o \in Arithmetical, NEW l \in Int, NEW r \in Int
  PROVE  EvalOperation(o, l, r) \in Outcomes
<1>. HIDE DEF Outcomes, Constant, Thrown, Quotient, Remainder
<1>1. CASE o \in {"+", "-", "*"}
  <2>1. l + r \in Int /\ l - r \in Int /\ l * r \in Int
    OBVIOUS
  <2>. QED
    BY <1>1, <2>1, ConstantFacts DEF EvalOperation
<1>2. CASE o \in {"/", "%"}
  <2>1. CASE DivisionFails(l, r)
    BY <1>2, <2>1, ConstantFacts DEF EvalOperation
  <2>2. CASE ~DivisionFails(l, r)
    <3>1. Quotient(l, r) \in Int /\ Remainder(l, r) \in Int
      BY <2>2, QuotientFacts DEF DivisionFails
    <3>. QED
      BY <1>2, <2>2, <3>1, ConstantFacts DEF EvalOperation
  <2>. QED
    BY <2>1, <2>2
<1>3. CASE o \in {"<<", ">>"}
  <2>1. CASE l < 0 \/ r < 0
    BY <1>3, <2>1, ConstantFacts DEF EvalOperation
  <2>2. CASE ~(l < 0 \/ r < 0)
    <3>1. r \in Nat
      BY <2>2
    <3>2. l * Power2[r % WordBits] \in Int /\ l \div Power2[r % WordBits] \in Int
      BY <3>1, ShiftFacts
    <3>. QED
      BY <1>3, <2>2, <3>2, ConstantFacts DEF EvalOperation
  <2>. QED
    BY <2>1, <2>2
<1>. QED
  BY <1>1, <1>2, <1>3 DEF Arithmetical

LEMMA LogicalType ==
  ASSUME NEW o, NEW l \in Int, NEW r \in Int
  PROVE  o \in Relational \cup BitOps \cup {"&&", "||"} => EvalLogical(o, l, r) \in Ints /\ EvalLogical(o, l, r) \in Int
<1>. HIDE DEF Ints, Truth, Compare, BitAnd, BitOr, BitXor
<1>1. CASE o \in BitOps
  BY <1>1, BitFacts, WrapFacts DEF EvalLogical, BitOps
<1>2. CASE o \in {"&&", "||"}
  BY <1>2, TruthFacts, WrapFacts DEF EvalLogical
<1>3. CASE o \in Relational
  <2>1. EvalLogical(o, l, r) = Truth(Compare(o, l, r))
    BY <1>3 DEF EvalLogical, Relational
  <2>2. Compare(o, l, r) \in BOOLEAN
    BY Zenon DEF Compare
  <2>. QED
    BY <2>1, <2>2, TruthFacts, WrapFacts
<1>. QED
  BY <1>1, <1>2, <1>3

LEMMA UnaryType ==
  ASSUME NEW o \in {"+", "-", "~", "!", "&", "*"}, NEW n \in Int
  PROVE  EvalUnary(o, n) \in Outcomes
<1>. HIDE DEF Outcomes, Constant, Thrown, Truth, Ints
<1>1. -n \in Int /\ -n - 1 \in Int
  OBVIOUS
<1>2. Truth(n = 0) \in Int
  <2>1. (n = 0) \in BOOLEAN
    OBVIOUS
  <2>2. Truth(n = 0) \in Ints
    BY <2>1, TruthFacts, Zenon
  <2>. QED
    BY <2>2, WrapFacts
<1>. QED
  BY <1>1, <1>2, ConstantFacts DEF EvalUnary

LEMMA EvalNodeType ==
  ASSUME NEW d \in Node, NEW v \in Values, NEW f, \A j \in Operands(d) : f[j] \in Outcomes
  PROVE  EvalNode(d, f, v) \in Outcomes
<1>. HIDE DEF Node, Outcomes, Ints, Constant, Thrown
<1>1. d.kind \in Kinds
  BY NodeFacts
<1>2. CASE d.kind \in {"constant", "inherited"}
  <2>1. 0 \in Int /\ (d.kind = "constant" => d.value \in Int)
    BY NodeFacts, WrapFacts
  <2>. QED
    BY <1>2, <2>1, EvalCases, ConstantFacts
<1>3. CASE d.kind = "name"
  <2>1. v[d.name] \in Ints \cup {None}
    BY <1>3, NodeFacts DEF Values
  <2>2. v[d.name] # None => v[d.name] \in Int
    BY <2>1, WrapFacts
  <2>. QED
    BY <1>3, <2>2, EvalCases, ConstantFacts
<1>4. CASE d.kind = "operation"
  <2>1. f[d.left] \in Outcomes /\ f[d.right] \in Outcomes
    BY <1>4, OperandFacts DEF TwoOperands
  <2>2. f[d.left].value \in Int /\ f[d.right].value \in Int
    BY <2>1, OutcomeFacts
  <2>3. EvalOperation(d.op, f[d.left].value, f[d.right].value) \in Outcomes
    BY <1>4, <2>2, NodeFacts, OperationType
  <2>. QED
    BY <1>4, <2>3, EvalCases, ConstantFacts
<1>5. CASE d.kind = "logical"
  <2>1. f[d.left] \in Outcomes /\ f[d.right] \in Outcomes
    BY <1>5, OperandFacts DEF TwoOperands
  <2>2. f[d.left].value \in Int /\ f[d.right].value \in Int
    BY <2>1, OutcomeFacts
  <2>3. EvalLogical(d.op, f[d.left].value, f[d.right].value) \in Int
    BY <1>5, <2>2, NodeFacts, LogicalType
  <2>. QED
    BY <1>5, <2>3, EvalCases, ConstantFacts
<1>6. CASE d.kind = "unary"
  <2>1. f[d.operand] \in Outcomes
    BY <1>6, OperandFacts DEF OneOperand
  <2>2. EvalUnary(d.op, f[d.operand].value) \in Outcomes
    BY <1>6, <2>1, NodeFacts, OutcomeFacts, UnaryType
  <2>. QED
    BY <1>6, <2>2, EvalCases, ConstantFacts
<1>7. CASE d.kind \in {"increment", "preincrement"}
  <2>1. f[d.operand] \in Outcomes
    BY <1>7, OperandFacts DEF OneOperand
  <2>2. f[d.operand].value + 1 \in Int /\ f[d.operand].value - 1 \in Int
    BY <2>1, OutcomeFacts
  <2>. QED
    BY <1>7, <2>2, EvalCases, ConstantFacts
<1>. QED
  BY <1>1, <1>2, <1>3, <1>4, <1>5, <1>6, <1>7 DEF Kinds

LEMMA EvaluatedType ==
  ASSUME NEW e, IsExpression(e), NEW v \in Values
  PROVE  /\ \A i \in 1..Len(e) : Evaluated(e, v)[i] \in Outcomes
         /\ EvalConstExpr(e, v) \in Outcomes
<1>. DEFINE S == {i \in 1..Len(e) : Evaluated(e, v)[i] \in Outcomes}
<1>1. Len(e) \in Nat /\ Len(e) \in 1..Len(e)
  BY ExpressionFacts
<1>2. ASSUME NEW i \in 1..Len(e), \A j \in 1..i - 1 : j \in S PROVE i \in S
  <2>1. e[i] \in Node /\ Operands(e[i]) \subseteq 1..i - 1
    BY ExpressionFacts
  <2>2. \A j \in Operands(e[i]) : Evaluated(e, v)[j] \in Outcomes
    BY <1>2, <2>1
  <2>3. EvalNode(e[i], Evaluated(e, v), v) \in Outcomes
    BY <2>1, <2>2, EvalNodeType
  <2>. QED
    BY <2>3, EvaluatedStep
<1>. HIDE DEF S
<1>3. \A i \in 1..Len(e) : i \in S
  BY <1>1, <1>2, PlaceInduction
<1>. QED
  BY <1>1, <1>3 DEF S, EvalConstExpr

-----------------------------------------------------------------------------
(* What C says, and that the code agrees.                                  *)

Meant == Ints \cup {Undefined}

LEMMA DefinedFacts ==
  ASSUME NEW n \in Int
  PROVE  /\ Defined(n) \in Meant
         /\ Defined(n) # Undefined => Defined(n) = n /\ n \in Ints /\ Constant(n).value = n
         /\ n \in Ints => Defined(n) = n
<1>1. Fits(n, WordBits) => n \in Ints
  BY WrapFacts
<1>2. n \in Ints => Fits(n, WordBits)
  BY WrapFacts DEF Fits
<1>. HIDE DEF Fits, Ints
<1>3. n \in Ints => Constant(n).value = n
  BY ConstantFacts
<1>. QED
  BY <1>1, <1>2, <1>3 DEF Defined, Meant

LEMMA NotInts == Undefined \notin Ints /\ None \notin Ints /\ None # Undefined
BY ConstantAssumption

\* Where C defines an arithmetical operation, the code computes the same.
LEMMA OperationMeaning ==
  ASSUME NEW o \in Arithmetical, NEW l \in Ints, NEW r \in Ints
  PROVE  LET meaning == MeaningOfOperation(o, l, r)
         IN  /\ meaning \in Meant
             /\ meaning # Undefined =>
                  ~EvalOperation(o, l, r).thrown /\ EvalOperation(o, l, r).value = meaning
<1>. DEFINE Right(meaning, result) ==
              /\ meaning \in Meant
              /\ meaning # Undefined => ~result.thrown /\ result.value = meaning
<1>0. l \in Int /\ r \in Int
  BY WrapFacts
<1>. HIDE DEF Constant, Thrown, Quotient, Remainder, Defined, Ints
<1>1. ASSUME NEW n \in Int PROVE Right(Defined(n), Constant(n))
  BY DefinedFacts, ConstantFacts
<1>2. ASSUME NEW result PROVE Right(Undefined, result)
  BY DEF Meant
<1>. HIDE DEF Right
<1>3. CASE o \in {"+", "-", "*"}
  <2>1. l + r \in Int /\ l - r \in Int /\ l * r \in Int
    BY <1>0
  <2>2. Right(MeaningOfOperation(o, l, r), EvalOperation(o, l, r))
    BY <1>3, <1>1, <2>1 DEF MeaningOfOperation, EvalOperation
  <2>. QED
    BY <2>2 DEF Right
<1>4. CASE o \in {"/", "%"}
  <2>1. CASE r = 0 \/ Defined(Quotient(l, r)) = Undefined
    <3>1. MeaningOfOperation(o, l, r) = Undefined
      BY <1>4, <2>1 DEF MeaningOfOperation
    <3>. QED
      BY <3>1, <1>2 DEF Right
  <2>2. CASE ~(r = 0 \/ Defined(Quotient(l, r)) = Undefined)
    <3>0. ~DivisionFails(l, r)
      BY <2>2 DEF DivisionFails, Defined
    <3>1. Quotient(l, r) \in Int /\ Remainder(l, r) \in Int
      BY <1>0, <2>2, QuotientFacts
    <3>2. CASE o = "/"
      <4>1. MeaningOfOperation(o, l, r) = Defined(Quotient(l, r))
            /\ EvalOperation(o, l, r) = Constant(Quotient(l, r))
        BY <2>2, <3>0, <3>2 DEF MeaningOfOperation, EvalOperation
      <4>. QED
        BY <1>1, <3>1, <4>1 DEF Right
    <3>3. CASE o = "%"
      <4>1. EvalOperation(o, l, r) = Constant(Remainder(l, r))
        BY <3>0, <3>3 DEF EvalOperation
      <4>2. \/ MeaningOfOperation(o, l, r) = Undefined
            \/ MeaningOfOperation(o, l, r) = Defined(Remainder(l, r))
        BY <2>2, <3>3 DEF MeaningOfOperation
      <4>3. Right(MeaningOfOperation(o, l, r), EvalOperation(o, l, r))
        BY <1>1, <1>2, <3>1, <4>1, <4>2
      <4>. QED
        BY <4>3 DEF Right
    <3>. QED
      BY <1>4, <3>2, <3>3
  <2>. QED
    BY <2>1, <2>2
<1>5. CASE o \in {"<<", ">>"}
  <2>1. CASE l < 0 \/ r \notin 0..WordBits - 1
    <3>1. MeaningOfOperation(o, l, r) = Undefined
      BY <1>5, <2>1 DEF MeaningOfOperation
    <3>. QED
      BY <3>1, <1>2 DEF Right
  <2>2. CASE ~(l < 0 \/ r \notin 0..WordBits - 1)
    <3>1. r \in Nat /\ r \in 0..WordBits - 1 /\ ~(l < 0 \/ r < 0)
      BY <1>0, <2>2
    <3>2. /\ r % WordBits = r
          /\ l * Power2[r % WordBits] \in Int /\ l \div Power2[r % WordBits] \in Int
      BY <1>0, <3>1, ShiftFacts
    <3>3. CASE o = "<<"
      <4>1. /\ MeaningOfOperation(o, l, r) = Defined(l * Power2[r])
            /\ EvalOperation(o, l, r) = Constant(l * Power2[r % WordBits])
        BY <2>2, <3>1, <3>3 DEF MeaningOfOperation, EvalOperation
      <4>2. Right(MeaningOfOperation(o, l, r), EvalOperation(o, l, r))
        BY <1>1, <3>2, <4>1
      <4>. QED
        BY <4>2 DEF Right
    <3>4. CASE o = ">>"
      <4>1. /\ MeaningOfOperation(o, l, r) = Defined(l \div Power2[r])
            /\ EvalOperation(o, l, r) = Constant(l \div Power2[r % WordBits])
        BY <2>2, <3>1, <3>4 DEF MeaningOfOperation, EvalOperation
      <4>2. Right(MeaningOfOperation(o, l, r), EvalOperation(o, l, r))
        BY <1>1, <3>2, <4>1
      <4>. QED
        BY <4>2 DEF Right
    <3>. QED
      BY <1>5, <3>3, <3>4
  <2>. QED
    BY <2>1, <2>2
<1>. QED
  BY <1>3, <1>4, <1>5 DEF Arithmetical

LEMMA LogicalMeaning ==
  ASSUME NEW o \in Relational \cup BitOps, NEW l \in Ints, NEW r \in Ints
  PROVE  /\ MeaningOfOperation(o, l, r) \in Ints
         /\ EvalLogical(o, l, r) = MeaningOfOperation(o, l, r)
<1>1. l \in Int /\ r \in Int
  BY WrapFacts
<1>. HIDE DEF Ints, Truth, Compare, BitAnd, BitOr, BitXor
<1>2. EvalLogical(o, l, r) = MeaningOfOperation(o, l, r)
  BY DEF EvalLogical, MeaningOfOperation, Relational, BitOps
<1>3. EvalLogical(o, l, r) \in Ints
  BY <1>1, LogicalType
<1>. QED
  BY <1>2, <1>3

LEMMA UnaryMeaning ==
  ASSUME NEW o \in {"+", "-", "~", "!", "&", "*"}, NEW n \in Ints
  PROVE  /\ MeaningOfUnary(o, n) \in Meant
         /\ MeaningOfUnary(o, n) # Undefined =>
              ~EvalUnary(o, n).thrown /\ EvalUnary(o, n).value = MeaningOfUnary(o, n)
<1>1. n \in Int /\ -n \in Int /\ -n - 1 \in Int /\ -1 - n = -n - 1
  BY WrapFacts
<1>. HIDE DEF Ints, Constant, Thrown, Defined, Truth
<1>2. CASE o \in {"&", "*"}
  BY <1>2 DEF MeaningOfUnary, Meant
<1>3. CASE o = "+"
  BY <1>1, <1>3, ConstantFacts DEF MeaningOfUnary, EvalUnary, Meant
<1>4. CASE o = "-"
  BY <1>1, <1>4, ConstantFacts, DefinedFacts DEF MeaningOfUnary, EvalUnary
<1>5. CASE o = "~"
  BY <1>1, <1>5, ConstantFacts, DefinedFacts DEF MeaningOfUnary, EvalUnary
<1>6. CASE o = "!"
  <2>1. (n = 0) \in BOOLEAN
    OBVIOUS
  <2>2. Truth(n = 0) \in Ints
    BY <2>1, TruthFacts, Zenon
  <2>3. Truth(n = 0) \in Int
    BY <2>2, WrapFacts
  <2>. QED
    BY <1>6, <2>2, <2>3, ConstantFacts DEF MeaningOfUnary, EvalUnary, Meant
<1>. QED
  BY <1>2, <1>3, <1>4, <1>5, <1>6

LEMMA ChoiceType ==
  ASSUME NEW o, NEW l \in Meant, NEW r \in Meant
  PROVE  MeaningOfChoice(o, l, r) \in Meant
<1>1. \A b \in BOOLEAN : Truth(b) \in Meant
  BY TruthFacts DEF Meant
<1>2. 0 \in Meant /\ 1 \in Meant /\ Undefined \in Meant
  BY WrapFacts DEF Meant
<1>3. (r # 0) \in BOOLEAN
  OBVIOUS
<1>4. Truth(r # 0) \in Meant
  BY <1>1, <1>3, Zenon
<1>. HIDE DEF Meant, Truth
<1>5. Undefined # 0
  BY NotInts, WrapFacts
<1>. QED
  BY <1>2, <1>4, <1>5 DEF MeaningOfChoice

LEMMA MeaningType ==
  ASSUME NEW d \in Node, NEW m \in MeaningsOfNames, NEW g, \A j \in Operands(d) : g[j] \in Meant
  PROVE  MeaningOfNode(d, g, m) \in Meant
<1>. HIDE DEF Node, Ints
<1>1. d.kind \in Kinds
  BY NodeFacts
<1>2. CASE d.kind \in {"constant", "inherited"}
  BY <1>2, NodeFacts, MeaningCases DEF Meant
<1>3. CASE d.kind = "name"
  <2>1. m[d.name] \in Ints \cup {Undefined, None}
    BY <1>3, NodeFacts DEF MeaningsOfNames
  <2>. QED
    BY <1>3, <2>1, MeaningCases DEF Meant
<1>4. CASE d.kind \in TwoOperands
  <2>1. g[d.left] \in Meant /\ g[d.right] \in Meant
    BY <1>4, OperandFacts
  <2>2. CASE d.kind = "logical" /\ d.op \in {"&&", "||"}
    <3>1. MeaningOfChoice(d.op, g[d.left], g[d.right]) \in Meant
      BY <2>1, ChoiceType
    <3>. QED
      BY <2>2, <3>1, MeaningCases
  <2>3. CASE d.kind = "operation" \/ (d.kind = "logical" /\ d.op \notin {"&&", "||"})
    <3>1. CASE Undefined \in {g[d.left], g[d.right]}
      BY <2>3, <3>1, MeaningCases DEF Meant
    <3>2. CASE Undefined \notin {g[d.left], g[d.right]}
      <4>1. g[d.left] \in Ints /\ g[d.right] \in Ints
        BY <2>1, <3>2 DEF Meant
      <4>2. d.op \in Arithmetical \/ d.op \in Relational \cup BitOps
        BY <2>3, NodeFacts
      <4>3. MeaningOfOperation(d.op, g[d.left], g[d.right]) \in Meant
        BY <4>1, <4>2, OperationMeaning, LogicalMeaning DEF Meant
      <4>. QED
        BY <2>3, <3>2, <4>3, MeaningCases
    <3>. QED
      BY <3>1, <3>2
  <2>. QED
    BY <1>4, <2>2, <2>3 DEF TwoOperands
<1>5. CASE d.kind = "unary"
  <2>1. g[d.operand] \in Meant
    BY <1>5, OperandFacts DEF OneOperand
  <2>2. g[d.operand] # Undefined => MeaningOfUnary(d.op, g[d.operand]) \in Meant
    BY <1>5, <2>1, NodeFacts, UnaryMeaning DEF Meant
  <2>. QED
    BY <1>5, <2>1, <2>2, MeaningCases
<1>6. CASE d.kind \in {"increment", "preincrement"}
  BY <1>6, MeaningCases DEF Meant
<1>. QED
  BY <1>1, <1>2, <1>3, <1>4, <1>5, <1>6 DEF Kinds, TwoOperands

LEMMA MeaningsType ==
  ASSUME NEW e, IsExpression(e), NEW m \in MeaningsOfNames
  PROVE  /\ \A i \in 1..Len(e) : Meanings(e, m)[i] \in Meant
         /\ Meaning(e, m) \in Meant
<1>. DEFINE S == {i \in 1..Len(e) : Meanings(e, m)[i] \in Meant}
<1>1. Len(e) \in Nat /\ Len(e) \in 1..Len(e)
  BY ExpressionFacts
<1>2. ASSUME NEW i \in 1..Len(e), \A j \in 1..i - 1 : j \in S PROVE i \in S
  <2>1. e[i] \in Node /\ Operands(e[i]) \subseteq 1..i - 1
    BY ExpressionFacts
  <2>2. \A j \in Operands(e[i]) : Meanings(e, m)[j] \in Meant
    BY <1>2, <2>1
  <2>3. MeaningOfNode(e[i], Meanings(e, m), m) \in Meant
    BY <2>1, <2>2, MeaningType
  <2>. QED
    BY <2>3, MeaningsStep
<1>. HIDE DEF S
<1>3. \A i \in 1..Len(e) : i \in S
  BY <1>1, <1>2, PlaceInduction
<1>. QED
  BY <1>1, <1>3 DEF S, Meaning

\* A result is right if it is C's wherever C gives one.
Right(meaning, result) == meaning # Undefined => ~result.thrown /\ result.value = meaning

\* The scopes of the code and those of C agree.
Agree(v, m) ==
  \A n \in Name : (v[n] = None <=> m[n] = None) /\ (m[n] # Undefined => v[n] = m[n])

Unneeded(d, f) ==
  /\ d.kind = "logical" /\ d.op \in {"&&", "||"}
  /\ ~f[d.left].thrown /\ f[d.right].thrown
  /\ (f[d.left].value = 0) = (d.op = "&&")

LEMMA ConnectiveRight ==
  ASSUME NEW d \in Node, d.kind = "logical", d.op \in {"&&", "||"}, NEW f, NEW g, NEW v, NEW m,
         f[d.left] \in Outcomes, f[d.right] \in Outcomes, g[d.left] \in Meant, g[d.right] \in Meant,
         Right(g[d.left], f[d.left]), Right(g[d.right], f[d.right]), ~Unneeded(d, f)
  PROVE  Right(MeaningOfNode(d, g, m), EvalNode(d, f, v))
<1>. DEFINE l == g[d.left]
            r == g[d.right]
            x == f[d.left]
            y == f[d.right]
<1>0. x \in Outcomes /\ y \in Outcomes /\ l \in Meant /\ r \in Meant /\ Right(l, x) /\ Right(r, y)
  OBVIOUS
<1>1. MeaningOfNode(d, g, m) = MeaningOfChoice(d.op, l, r)
  BY MeaningCases
<1>2. EvalNode(d, f, v) = IF x.thrown \/ y.thrown THEN Thrown ELSE Constant(EvalLogical(d.op, x.value, y.value))
  BY EvalCases
<1>3. ~x.thrown /\ y.thrown => (x.value = 0) # (d.op = "&&")
  BY DEF Unneeded
<1>. HIDE DEF l, r, x, y, Node
<1>4. /\ d.op = "&&" => EvalLogical(d.op, x.value, y.value) = Truth(x.value # 0 /\ y.value # 0)
      /\ d.op = "||" => EvalLogical(d.op, x.value, y.value) = Truth(x.value # 0 \/ y.value # 0)
  BY DEF EvalLogical
<1>5. Truth(TRUE) = 1 /\ Truth(FALSE) = 0
  BY DEF Truth
<1>. HIDE DEF Truth, Constant, Thrown
<1>6. 0 \in Int /\ 1 \in Int /\ Constant(0).value = 0 /\ Constant(1).value = 1 /\ ~Constant(0).thrown /\ ~Constant(1).thrown
  BY ConstantFacts, WrapFacts
<1>7. CASE l = Undefined
  <2>1. MeaningOfChoice(d.op, l, r) = Undefined
    <3>1. Undefined # 0
      BY NotInts, WrapFacts
    <3>. QED
      BY <1>7, <3>1 DEF MeaningOfChoice
  <2>. QED
    BY <1>1, <2>1 DEF Right
<1>8. CASE l # Undefined
  <2>1. ~x.thrown /\ x.value = l
    BY <1>0, <1>8 DEF Right
  <2>2. CASE d.op = "&&" /\ l = 0
    <3>1. MeaningOfChoice(d.op, l, r) = 0
      BY <1>8, <2>2 DEF MeaningOfChoice
    <3>2. ~y.thrown
      BY <1>3, <2>1, <2>2
    <3>3. EvalLogical(d.op, x.value, y.value) = 0
      <4>1. (x.value # 0 /\ y.value # 0) = FALSE
        BY <2>1, <2>2
      <4>. QED
        BY <1>4, <1>5, <2>2, <4>1, Zenon
    <3>. QED
      BY <1>1, <1>2, <1>6, <2>1, <3>1, <3>2, <3>3 DEF Right
  <2>3. CASE d.op = "||" /\ l # 0
    <3>1. MeaningOfChoice(d.op, l, r) = 1
      BY <1>8, <2>3 DEF MeaningOfChoice
    <3>2. ~y.thrown
      BY <1>3, <2>1, <2>3
    <3>3. EvalLogical(d.op, x.value, y.value) = 1
      <4>1. (x.value # 0 \/ y.value # 0) = TRUE
        BY <2>1, <2>3
      <4>. QED
        BY <1>4, <1>5, <2>3, <4>1, Zenon
    <3>. QED
      BY <1>1, <1>2, <1>6, <2>1, <3>1, <3>2, <3>3 DEF Right
  <2>4. CASE (d.op = "&&" /\ l # 0) \/ (d.op = "||" /\ l = 0)
    <3>1. MeaningOfChoice(d.op, l, r) = IF r = Undefined THEN Undefined ELSE Truth(r # 0)
      BY <1>8, <2>4 DEF MeaningOfChoice
    <3>2. CASE r = Undefined
      BY <1>1, <3>1, <3>2 DEF Right
    <3>3. CASE r # Undefined
      <4>1. ~y.thrown /\ y.value = r
        BY <1>0, <3>3 DEF Right
      <4>2. EvalLogical(d.op, x.value, y.value) = Truth(r # 0)
        <5>1. CASE d.op = "&&" /\ l # 0
          <6>1. (x.value # 0 /\ y.value # 0) = (r # 0)
            BY <2>1, <4>1, <5>1
          <6>. QED
            BY <1>4, <5>1, <6>1, Zenon
        <5>2. CASE d.op = "||" /\ l = 0
          <6>1. (x.value # 0 \/ y.value # 0) = (r # 0)
            BY <2>1, <4>1, <5>2
          <6>. QED
            BY <1>4, <5>2, <6>1, Zenon
        <5>. QED
          BY <2>4, <5>1, <5>2
      <4>3. Truth(r # 0) \in {0, 1}
        BY DEF Truth
      <4>. QED
        BY <1>1, <1>2, <1>6, <2>1, <3>1, <3>3, <4>1, <4>2, <4>3 DEF Right
    <3>. QED
      BY <3>2, <3>3
  <2>. QED
    BY <2>2, <2>3, <2>4
<1>. QED
  BY <1>7, <1>8

LEMMA NodeRight ==
  ASSUME NEW d \in Node, NEW v \in Values, NEW m \in MeaningsOfNames, Agree(v, m), NEW f, NEW g,
         \A j \in Operands(d) : f[j] \in Outcomes /\ g[j] \in Meant /\ Right(g[j], f[j]),
         d.kind # "inherited", ~Unneeded(d, f)
  PROVE  Right(MeaningOfNode(d, g, m), EvalNode(d, f, v))
<1>. HIDE DEF Node, Ints, Constant, Thrown
<1>1. d.kind \in Kinds
  BY NodeFacts
<1>2. CASE d.kind = "constant"
  BY <1>2, NodeFacts, MeaningCases, EvalCases, ConstantFacts, WrapFacts DEF Right
<1>3. CASE d.kind = "name"
  <2>. DEFINE n == d.name
  <2>1. n \in Name /\ v[n] \in Ints \cup {None} /\ m[n] \in Ints \cup {Undefined, None}
    BY <1>3, NodeFacts DEF Values, MeaningsOfNames
  <2>2. (v[n] = None <=> m[n] = None) /\ (m[n] # Undefined => v[n] = m[n])
    BY <2>1 DEF Agree
  <2>3. /\ MeaningOfNode(d, g, m) = IF m[n] = None THEN Undefined ELSE m[n]
        /\ EvalNode(d, f, v) = IF v[n] = None THEN Thrown ELSE Constant(v[n])
    BY <1>3, MeaningCases, EvalCases
  <2>. HIDE DEF n
  <2>4. CASE m[n] \in {None, Undefined}
    BY <2>3, <2>4 DEF Right
  <2>5. CASE m[n] \notin {None, Undefined}
    <3>1. v[n] = m[n] /\ m[n] \in Ints /\ v[n] # None
      BY <2>1, <2>2, <2>5
    <3>2. m[n] \in Int
      BY <3>1, WrapFacts
    <3>. QED
      BY <2>3, <2>5, <3>1, <3>2, ConstantFacts DEF Right
  <2>. QED
    BY <2>4, <2>5
<1>4. CASE d.kind \in TwoOperands
  <2>0. /\ f[d.left] \in Outcomes /\ f[d.right] \in Outcomes /\ g[d.left] \in Meant /\ g[d.right] \in Meant
        /\ Right(g[d.left], f[d.left]) /\ Right(g[d.right], f[d.right])
    BY <1>4, OperandFacts
  <2>1. CASE d.kind = "logical" /\ d.op \in {"&&", "||"}
    BY <2>0, <2>1, ConnectiveRight
  <2>2. CASE d.kind = "operation" \/ (d.kind = "logical" /\ d.op \notin {"&&", "||"})
    <3>1. CASE Undefined \in {g[d.left], g[d.right]}
      BY <2>2, <3>1, MeaningCases DEF Right
    <3>2. CASE Undefined \notin {g[d.left], g[d.right]}
      <4>1. /\ g[d.left] \in Ints /\ g[d.right] \in Ints
            /\ ~f[d.left].thrown /\ f[d.left].value = g[d.left]
            /\ ~f[d.right].thrown /\ f[d.right].value = g[d.right]
        BY <2>0, <3>2 DEF Meant, Right
      <4>2. MeaningOfNode(d, g, m) = MeaningOfOperation(d.op, g[d.left], g[d.right])
        BY <2>2, <3>2, MeaningCases
      <4>3. CASE d.kind = "operation"
        <5>1. EvalNode(d, f, v) = EvalOperation(d.op, g[d.left], g[d.right])
          BY <4>1, <4>3, EvalCases
        <5>. QED
          BY <4>1, <4>2, <4>3, <5>1, NodeFacts, OperationMeaning DEF Right
      <4>4. CASE d.kind = "logical"
        <5>1. EvalNode(d, f, v) = Constant(EvalLogical(d.op, g[d.left], g[d.right]))
          BY <4>1, <4>4, EvalCases
        <5>2. d.op \in Relational \cup BitOps
          BY <2>2, <4>4, NodeFacts
        <5>3. /\ EvalLogical(d.op, g[d.left], g[d.right]) = MeaningOfOperation(d.op, g[d.left], g[d.right])
              /\ MeaningOfOperation(d.op, g[d.left], g[d.right]) \in Ints
          BY <4>1, <5>2, LogicalMeaning
        <5>4. MeaningOfOperation(d.op, g[d.left], g[d.right]) \in Int
          BY <5>3, WrapFacts
        <5>. QED
          BY <4>2, <5>1, <5>3, <5>4, ConstantFacts DEF Right
      <4>. QED
        BY <2>2, <4>3, <4>4
    <3>. QED
      BY <3>1, <3>2
  <2>. QED
    BY <1>4, <2>1, <2>2 DEF TwoOperands
<1>5. CASE d.kind = "unary"
  <2>1. g[d.operand] \in Meant /\ Right(g[d.operand], f[d.operand])
    BY <1>5, OperandFacts DEF OneOperand
  <2>2. CASE g[d.operand] = Undefined
    BY <1>5, <2>2, MeaningCases DEF Right
  <2>3. CASE g[d.operand] # Undefined
    <3>1. g[d.operand] \in Ints /\ ~f[d.operand].thrown /\ f[d.operand].value = g[d.operand]
      BY <2>1, <2>3 DEF Meant, Right
    <3>2. /\ MeaningOfNode(d, g, m) = MeaningOfUnary(d.op, g[d.operand])
          /\ EvalNode(d, f, v) = EvalUnary(d.op, g[d.operand])
      BY <1>5, <2>3, <3>1, MeaningCases, EvalCases
    <3>. QED
      BY <1>5, <3>1, <3>2, NodeFacts, UnaryMeaning DEF Right
  <2>. QED
    BY <2>2, <2>3
<1>6. CASE d.kind \in {"increment", "preincrement"}
  BY <1>6, MeaningCases DEF Right
<1>. QED
  BY <1>1, <1>2, <1>3, <1>4, <1>5, <1>6 DEF Kinds, TwoOperands

\* Where the scopes agree, the code evaluates every expression to what C says,
\* unless a class without the method or an operand C leaves alone comes in.
LEMMA EvaluatedRight ==
  ASSUME NEW e, IsExpression(e), NEW v \in Values, NEW m \in MeaningsOfNames, Agree(v, m),
         \A i \in DOMAIN e : e[i].kind # "inherited", ~ThrowsUnneeded(e, v)
  PROVE  Right(Meaning(e, m), EvalConstExpr(e, v))
<1>. DEFINE S == {i \in 1..Len(e) : Right(Meanings(e, m)[i], Evaluated(e, v)[i])}
<1>1. Len(e) \in Nat /\ Len(e) \in 1..Len(e) /\ DOMAIN e = 1..Len(e)
  BY ExpressionFacts
<1>2. ASSUME NEW i \in 1..Len(e), \A j \in 1..i - 1 : j \in S PROVE i \in S
  <2>1. e[i] \in Node /\ Operands(e[i]) \subseteq 1..i - 1
    BY ExpressionFacts
  <2>2. \A j \in Operands(e[i]) : j \in 1..Len(e)
    BY <1>1, <2>1
  <2>3. \A j \in Operands(e[i]) : /\ Evaluated(e, v)[j] \in Outcomes /\ Meanings(e, m)[j] \in Meant
                                  /\ Right(Meanings(e, m)[j], Evaluated(e, v)[j])
    BY <1>2, <2>1, <2>2, EvaluatedType, MeaningsType
  <2>4. ~Unneeded(e[i], Evaluated(e, v))
    BY <1>1 DEF ThrowsUnneeded, Unneeded
  <2>5. e[i].kind # "inherited"
    BY <1>1
  <2>6. Right(MeaningOfNode(e[i], Meanings(e, m), m), EvalNode(e[i], Evaluated(e, v), v))
    BY <2>1, <2>3, <2>4, <2>5, NodeRight
  <2>. QED
    BY <2>6, MeaningsStep, EvaluatedStep
<1>. HIDE DEF S
<1>3. \A i \in 1..Len(e) : i \in S
  BY <1>1, <1>2, PlaceInduction
<1>. QED
  BY <1>1, <1>3 DEF S, Meaning, EvalConstExpr

-----------------------------------------------------------------------------
(* Scopes: what is visible with a stack of tables E in its k outermost.    *)

DeclaredIn(E, k, n) == {i \in 1..k : E[i][n] # None}

Innest(D) == CHOOSE i \in D : \A j \in D : j <= i

Find(E, k, n) ==
  IF DeclaredIn(E, k, n) = {} THEN None ELSE E[Innest(DeclaredIn(E, k, n))][n]

See(E, k) == [n \in Name |-> Find(E, k, n)]

LEMMA FindStep ==
  ASSUME NEW E, NEW k \in Nat, NEW n
  PROVE  Find(E, k + 1, n) = IF E[k + 1][n] # None THEN E[k + 1][n] ELSE Find(E, k, n)
<1>1. \A i : i \in 1..k + 1 <=> i \in 1..k \/ i = k + 1
  OBVIOUS
<1>2. CASE E[k + 1][n] = None
  <2>1. DeclaredIn(E, k + 1, n) = DeclaredIn(E, k, n)
    BY <1>1, <1>2 DEF DeclaredIn
  <2>2. Find(E, k + 1, n) = Find(E, k, n)
    BY <2>1, Zenon DEF Find
  <2>. QED
    BY <1>2, <2>2
<1>3. CASE E[k + 1][n] # None
  <2>1. /\ k + 1 \in DeclaredIn(E, k + 1, n)
        /\ \A j \in DeclaredIn(E, k + 1, n) : j \in Int /\ j <= k + 1
    BY <1>3 DEF DeclaredIn
  <2>. DEFINE top == Innest(DeclaredIn(E, k + 1, n))
  <2>2. top \in DeclaredIn(E, k + 1, n) /\ \A j \in DeclaredIn(E, k + 1, n) : j <= top
    BY <2>1 DEF Innest
  <2>. HIDE DEF top
  <2>3. top = k + 1
    BY <2>1, <2>2
  <2>4. Find(E, k + 1, n) = E[top][n]
    BY <2>1 DEF Find, top
  <2>. QED
    BY <1>3, <2>3, <2>4
<1>. QED
  BY <1>2, <1>3

LEMMA FindNone == ASSUME NEW E, NEW n PROVE Find(E, 0, n) = None
<1>1. DeclaredIn(E, 0, n) = {}
  BY DEF DeclaredIn
<1>. QED
  BY <1>1 DEF Find

LEMMA SeeSame ==
  ASSUME NEW E, NEW F, NEW k \in Nat, \A i \in 1..k : E[i] = F[i]
  PROVE  See(E, k) = See(F, k)
<1>. DEFINE S == {i \in 0..k : \A n \in Name : Find(E, i, n) = Find(F, i, n)}
<1>1. 0 \in S
  BY FindNone
<1>2. ASSUME NEW i \in 0..k - 1, i \in S PROVE i + 1 \in S
  <2>1. i + 1 \in 1..k /\ i + 1 \in 0..k /\ i \in Nat
    OBVIOUS
  <2>2. \A n \in Name : /\ Find(E, i + 1, n) = IF E[i + 1][n] # None THEN E[i + 1][n] ELSE Find(E, i, n)
                        /\ Find(F, i + 1, n) = IF F[i + 1][n] # None THEN F[i + 1][n] ELSE Find(F, i, n)
    BY <2>1, FindStep
  <2>3. E[i + 1] = F[i + 1]
    BY <2>1
  <2>4. \A n \in Name : Find(E, i, n) = Find(F, i, n)
    BY <1>2
  <2>. QED
    BY <2>1, <2>2, <2>3, <2>4
<1>. HIDE DEF S
<1>3. \A i \in 0..k : i \in S
  BY <1>1, <1>2, RangeInduction
<1>4. \A n \in Name : Find(E, k, n) = Find(F, k, n)
  BY <1>3 DEF S
<1>. QED
  BY <1>4, Zenon DEF See

LEMMA SeeType ==
  ASSUME NEW E \in Seq(Values), NEW k \in 0..Len(E)
  PROVE  See(E, k) \in Values
<1>. DEFINE S == {i \in 0..Len(E) : \A n \in Name : Find(E, i, n) \in Ints \cup {None}}
<1>. HIDE DEF Ints
<1>1. Len(E) \in Nat
  OBVIOUS
<1>2. 0 \in S
  BY <1>1, FindNone
<1>3. ASSUME NEW i \in 0..Len(E) - 1, i \in S PROVE i + 1 \in S
  <2>1. i + 1 \in 1..Len(E) /\ i + 1 \in 0..Len(E) /\ i \in Nat
    BY <1>1
  <2>2. E[i + 1] \in Values
    BY <2>1
  <2>3. \A n \in Name : E[i + 1][n] \in Ints \cup {None}
    BY <2>2 DEF Values
  <2>4. \A n \in Name : Find(E, i + 1, n) = IF E[i + 1][n] # None THEN E[i + 1][n] ELSE Find(E, i, n)
    BY <2>1, FindStep
  <2>5. \A n \in Name : Find(E, i + 1, n) \in Ints \cup {None}
    BY <1>3, <2>3, <2>4
  <2>. QED
    BY <2>1, <2>5
<1>. HIDE DEF S
<1>4. \A i \in 0..Len(E) : i \in S
  BY <1>1, <1>2, <1>3, RangeInduction
<1>. QED
  BY <1>4 DEF S, See, Values

\* A new table hides nothing; a declaration in the innermost scope is seen.
LEMMA SeeNew ==
  ASSUME NEW E, NEW k \in Nat, E[k + 1] = NewTable
  PROVE  See(E, k + 1) = See(E, k)
<1>1. \A n \in Name : E[k + 1][n] = None
  BY DEF NewTable
<1>2. \A n \in Name : Find(E, k + 1, n) = Find(E, k, n)
  BY <1>1, FindStep
<1>. QED
  BY <1>2, Zenon DEF See

LEMMA SeeDeclared ==
  ASSUME NEW E \in Seq(Values), Len(E) >= 1, NEW n \in Name, NEW x, x # None
  PROVE  LET F == [E EXCEPT ![Len(E)][n] = x]
         IN  See(F, Len(E)) = [See(E, Len(E)) EXCEPT ![n] = x]
<1>. DEFINE F == [E EXCEPT ![Len(E)][n] = x]
            k == Len(E) - 1
<1>1. k \in Nat /\ k + 1 = Len(E) /\ Len(E) \in 1..Len(E)
  OBVIOUS
<1>2. E[Len(E)] \in Values
  BY <1>1
<1>3. /\ F[Len(E)] = [E[Len(E)] EXCEPT ![n] = x]
      /\ \A i \in 1..k : E[i] = F[i]
  BY <1>1
<1>4. F[Len(E)][n] = x /\ \A o \in Name \ {n} : F[Len(E)][o] = E[Len(E)][o]
  BY <1>2, <1>3 DEF Values
<1>. HIDE DEF F, k
<1>5. See(E, k) = See(F, k)
  BY <1>1, <1>3, SeeSame
<1>6. \A o \in Name : Find(E, k, o) = Find(F, k, o)
  BY <1>5, Zenon DEF See
<1>7. \A o \in Name : /\ Find(F, Len(E), o) = IF F[Len(E)][o] # None THEN F[Len(E)][o] ELSE Find(F, k, o)
                      /\ Find(E, Len(E), o) = IF E[Len(E)][o] # None THEN E[Len(E)][o] ELSE Find(E, k, o)
  <2>1. \A o : /\ Find(F, k + 1, o) = IF F[k + 1][o] # None THEN F[k + 1][o] ELSE Find(F, k, o)
               /\ Find(E, k + 1, o) = IF E[k + 1][o] # None THEN E[k + 1][o] ELSE Find(E, k, o)
    BY <1>1, FindStep
  <2>. QED
    BY <1>1, <2>1, Zenon
<1>8. Find(F, Len(E), n) = x /\ \A o \in Name \ {n} : Find(F, Len(E), o) = Find(E, Len(E), o)
  BY <1>4, <1>6, <1>7
<1>9. See(F, Len(E)) = [See(E, Len(E)) EXCEPT ![n] = x]
  BY <1>8 DEF See
<1>. QED
  BY <1>9 DEF F

LEMMA VisibleIsSee ==
  ASSUME NEW k
  PROVE  Visible(k) = See(enums, k) /\ Visible(k)' = See(enums', k)
BY Zenon DEF Visible, FindEnumVal, Declares, See, Find, DeclaredIn, Innest

LEMMA AgreeDeclared ==
  ASSUME NEW v \in Values, NEW m \in MeaningsOfNames, Agree(v, m), NEW n \in Name,
         NEW x \in Ints, NEW y \in Meant, y # Undefined => x = y
  PROVE  Agree([v EXCEPT ![n] = x], [m EXCEPT ![n] = y])
<1>. HIDE DEF Ints
<1>1. x # None /\ y # None
  BY NotInts DEF Meant
<1>. QED
  BY <1>1 DEF Agree, Values, MeaningsOfNames

-----------------------------------------------------------------------------
(* Stacks that grow and shrink.                                            *)

LEMMA PushFacts ==
  ASSUME NEW T, NEW seq \in Seq(T), NEW x \in T
  PROVE  /\ Append(seq, x) \in Seq(T) /\ Len(seq) \in Nat
         /\ Len(Append(seq, x)) = Len(seq) + 1
         /\ \A i \in 1..Len(seq) : Append(seq, x)[i] = seq[i]
         /\ Append(seq, x)[Len(seq) + 1] = x
OBVIOUS

LEMMA PopFacts ==
  ASSUME NEW T, NEW seq \in Seq(T), NEW k \in Nat, k <= Len(seq)
  PROVE  /\ SubSeq(seq, 1, Len(seq) - k) \in Seq(T)
         /\ Len(SubSeq(seq, 1, Len(seq) - k)) = Len(seq) - k
         /\ \A i \in 1..Len(seq) - k : SubSeq(seq, 1, Len(seq) - k)[i] = seq[i]
OBVIOUS

LEMMA TailFacts ==
  ASSUME NEW T, NEW seq \in Seq(T), seq # << >>
  PROVE  /\ Head(seq) \in T /\ Head(seq) = seq[1] /\ 1 \in DOMAIN seq
         /\ Tail(seq) \in Seq(T)
         /\ \A i \in DOMAIN Tail(seq) : i + 1 \in DOMAIN seq /\ Tail(seq)[i] = seq[i + 1]
OBVIOUS

\* A set of positions has a least one.
LEMMA MinFacts ==
  ASSUME NEW n \in Nat, NEW D \in SUBSET (1..n), D # {}
  PROVE  Min(D) \in D
<1>. DEFINE S == {i \in 1..n : i \notin D}
<1>1. ASSUME ~\E x \in D : \A y \in D : x =< y PROVE FALSE
  <2>1. ASSUME NEW i \in 1..n, \A j \in 1..i - 1 : j \in S PROVE i \in S
    <3>1. \A y \in D : y \in 1..n /\ ~(y \in 1..i - 1)
      BY <2>1
    <3>2. \A y \in D : i <= y
      BY <3>1
    <3>. QED
      BY <1>1, <3>2
  <2>. HIDE DEF S
  <2>2. \A i \in 1..n : i \in S
    BY <2>1, PlaceInduction
  <2>. QED
    BY <2>2 DEF S
<1>. QED
  BY <1>1, Zenon DEF Min

-----------------------------------------------------------------------------
(* The state: tables of enumerators, and the switches under way.           *)

SwitchRecords == [depth : Nat, todo : Seq(Expressions), values : SUBSET Ints]

\* enum_stack and the meanings beside it.
Tables(E, M) ==
  /\ E \in Seq(Values) /\ M \in Seq(MeaningsOfNames)
  /\ Len(E) = Len(M) /\ Len(E) >= 1

\* Each switch has opened two scopes, inside those of the switches around it.
Nested(W, E) ==
  \A s \in 1..Len(W) :
    /\ W[s].depth >= 1 /\ W[s].depth + 2 <= Len(E)
    /\ \A t \in 1..s - 1 : W[t].depth + 2 <= W[s].depth

TypeInv ==
  /\ phase \in {"statements", "enum", "aborted"}
  /\ Tables(enums, meant)
  /\ next \in Meant
  /\ switches \in Seq(SwitchRecords)
  /\ last \in Results \cup {None}

\* The scopes of the code and those of C agree, all of them.
Agreeing(E, M) == \A k \in 1..Len(E) : Agree(See(E, k), M[k])

\* The cases to come of a switch will find their labels.
Finds(w, E) ==
  \A i \in DOMAIN w.todo :
    LET r == EvalConstExpr(w.todo[i], See(E, w.depth + 2))
    IN  ~r.thrown /\ r.value \in w.values

StackInv == TypeInv /\ Nested(switches, enums)

LEMMA TypeOKIsTypeInv == TypeOK <=> TypeInv
BY DEF TypeOK, TypeInv, Tables, Values, MeaningsOfNames, Meant, SwitchRecords

LEMMA EnumeratorsRightIsAgreeing == EnumeratorsRight <=> Agreeing(enums, meant)
<1>1. \A k, n : FindEnumVal(k, n) = Find(enums, k, n)
  BY Zenon DEF FindEnumVal, Declares, Find, DeclaredIn, Innest
<1>2. \A k : \A n \in Name : FindEnumVal(k, n) = See(enums, k)[n]
  BY <1>1 DEF See
<1>. QED
  BY <1>2 DEF EnumeratorsRight, Agreeing, Agree, Depth

LEMMA CasesFoundIsFinds ==
  ASSUME TypeInv
  PROVE  CasesFound <=> \A s \in 1..Len(switches) : Finds(switches[s], enums)
<1>1. DOMAIN switches = 1..Len(switches)
  BY DEF TypeInv
<1>. QED
  BY <1>1, VisibleIsSee DEF CasesFound, Finds

LEMMA NewTableFacts ==
  NewTable \in Values /\ NewTable \in MeaningsOfNames /\ \A n \in Name : NewTable[n] = None
BY DEF NewTable, Values, MeaningsOfNames

\* Where a constant expression is evaluated.
LEMMA HereFacts ==
  ASSUME TypeInv
  PROVE  /\ Depth \in Nat /\ Depth >= 1 /\ Depth \in 1..Depth /\ Len(meant) = Depth
         /\ Visible(Depth) = See(enums, Depth)
         /\ See(enums, Depth) \in Values /\ meant[Depth] \in MeaningsOfNames
         /\ \A e \in Expressions : /\ IsExpression(e) /\ Evaluate(e) \in Outcomes
                                   /\ MeaningHere(e) \in Meant
<1>1. Depth \in Nat /\ Depth >= 1 /\ Depth \in 1..Depth /\ Len(meant) = Depth /\ Depth \in 0..Len(enums)
  BY DEF TypeInv, Tables, Depth
<1>2. enums \in Seq(Values) /\ meant \in Seq(MeaningsOfNames)
  BY DEF TypeInv, Tables
<1>3. Visible(Depth) = See(enums, Depth)
  BY VisibleIsSee
<1>4. See(enums, Depth) \in Values
  BY <1>1, <1>2, SeeType
<1>5. meant[Depth] \in MeaningsOfNames
  BY <1>1, <1>2
<1>6. \A e \in Expressions : IsExpression(e)
  BY ConstantAssumption
<1>7. \A e \in Expressions : Evaluate(e) \in Outcomes
  BY <1>3, <1>4, <1>6, EvaluatedType DEF Evaluate
<1>8. \A e \in Expressions : MeaningHere(e) \in Meant
  BY <1>5, <1>6, MeaningsType DEF MeaningHere
<1>. QED
  BY <1>1, <1>3, <1>4, <1>5, <1>6, <1>7, <1>8

LEMMA RecordFacts ==
  ASSUME NEW use \in {"enumerator", "case", "bound", "global", "element"},
         NEW r \in Outcomes, NEW y \in Meant
  PROVE  /\ Record(use, r, y) \in Results
         /\ Record(use, r, y).thrown = r.thrown /\ Record(use, r, y).value = r.value
         /\ Record(use, r, y).meaning = y
<1>. HIDE DEF Ints
<1>. QED
  BY DEF Record, Results, Outcomes, Meant

\* What addEnumVal does to the stack.
LEMMA AddedFacts ==
  ASSUME TypeInv, phase = "enum", NEW n \in Name, NEW x \in Ints, NEW y \in Meant, AddEnumVal(n, x, y)
  PROVE  /\ phase' \in {"enum", "aborted"}
         /\ Tables(enums', meant') /\ Len(enums') = Len(enums) /\ next' \in Meant
         /\ \A k \in 1..Len(enums) - 1 : enums'[k] = enums[k] /\ meant'[k] = meant[k]
         /\ \/ enums' = enums /\ meant' = meant
            \/ /\ See(enums', Len(enums)) = [See(enums, Len(enums)) EXCEPT ![n] = x]
               /\ meant'[Len(enums)] = [meant[Len(enums)] EXCEPT ![n] = y]
<1>. HIDE DEF Ints
<1>1. /\ enums \in Seq(Values) /\ meant \in Seq(MeaningsOfNames) /\ Len(enums) = Len(meant)
      /\ Len(enums) \in Nat /\ Len(enums) >= 1 /\ next \in Meant
  BY DEF TypeInv, Tables
<1>2. CASE enums[Depth][n] # None
  BY <1>1, <1>2 DEF AddEnumVal, TypeInv
<1>3. CASE enums[Depth][n] = None
  <2>1. /\ enums' = [enums EXCEPT ![Len(enums)][n] = x]
        /\ meant' = [meant EXCEPT ![Len(enums)][n] = y]
        /\ next' = IF y = Undefined THEN Undefined ELSE Defined(y + 1)
        /\ phase' = phase
    BY <1>3 DEF AddEnumVal, Depth
  <2>2. enums[Len(enums)] \in Values /\ meant[Len(enums)] \in MeaningsOfNames
    BY <1>1
  <2>3. [enums[Len(enums)] EXCEPT ![n] = x] \in Values
    BY <2>2 DEF Values
  <2>4. [meant[Len(enums)] EXCEPT ![n] = y] \in MeaningsOfNames
    BY <2>2 DEF MeaningsOfNames, Meant
  <2>5. enums' \in Seq(Values) /\ Len(enums') = Len(enums) /\ \A k \in 1..Len(enums) - 1 : enums'[k] = enums[k]
    BY <1>1, <2>1, <2>3
  <2>6. /\ meant' \in Seq(MeaningsOfNames) /\ Len(meant') = Len(meant)
        /\ \A k \in 1..Len(enums) - 1 : meant'[k] = meant[k]
        /\ meant'[Len(enums)] = [meant[Len(enums)] EXCEPT ![n] = y]
    BY <1>1, <2>1, <2>4
  <2>7. next' \in Meant
    <3>1. CASE y = Undefined
      BY <2>1, <3>1 DEF Meant
    <3>2. CASE y # Undefined
      <4>1. y \in Int
        BY <3>2, WrapFacts DEF Meant
      <4>. QED
        BY <2>1, <3>2, <4>1, DefinedFacts
    <3>. QED
      BY <3>1, <3>2
  <2>8. x # None
    BY NotInts
  <2>9. See(enums', Len(enums)) = [See(enums, Len(enums)) EXCEPT ![n] = x]
    BY <1>1, <2>1, <2>8, SeeDeclared
  <2>. QED
    BY <1>1, <2>1, <2>5, <2>6, <2>7, <2>9 DEF Tables
<1>. QED
  BY <1>2, <1>3

TwoMore(seq, x, r) == r = seq \o <<x, x>>
Fewer(seq, k, r) == r = SubSeq(seq, 1, Len(seq) - k)

\* The scopes that open see what is seen where they open.
Opened(E, M, k, F, N) ==
  /\ Tables(F, N) /\ Len(F) = Len(E) + k
  /\ \A i \in 1..Len(E) : See(F, i) = See(E, i) /\ N[i] = M[i]
  /\ \A i \in Len(E) + 1..Len(E) + k : See(F, i) = See(E, Len(E)) /\ N[i] = M[Len(E)]

\* A scope that opens, the two scopes of a switch, scopes that close.
LEMMA OpenedFacts ==
  ASSUME NEW E, NEW M, Tables(E, M), NEW F, NEW N, NEW k \in {1, 2},
         k = 1 => F = Append(E, NewTable) /\ N = Append(M, M[Len(E)]),
         k = 2 => TwoMore(E, NewTable, F) /\ TwoMore(M, M[Len(E)], N)
  PROVE  Opened(E, M, k, F, N)
<1>1. /\ E \in Seq(Values) /\ M \in Seq(MeaningsOfNames) /\ Len(E) = Len(M)
      /\ Len(E) \in Nat /\ Len(E) >= 1 /\ M[Len(E)] \in MeaningsOfNames
  BY DEF Tables
<1>2. /\ F \in Seq(Values) /\ Len(F) = Len(E) + k
      /\ \A i \in 1..Len(E) : F[i] = E[i]
      /\ \A i \in Len(E) + 1..Len(E) + k : F[i] = NewTable
  <2>1. CASE k = 1
    <3>1. F = Append(E, NewTable) /\ NewTable \in Values
      BY <2>1, NewTableFacts
    <3>2. /\ F \in Seq(Values) /\ Len(F) = Len(E) + 1
          /\ \A i \in 1..Len(E) : F[i] = E[i]
          /\ F[Len(E) + 1] = NewTable
      BY <1>1, <3>1, PushFacts
    <3>3. \A i \in Len(E) + 1..Len(E) + 1 : i = Len(E) + 1
      BY <1>1
    <3>. QED
      BY <1>1, <2>1, <3>2, <3>3
  <2>2. CASE k = 2
    <3>. DEFINE new == NewTable
    <3>1. F = E \o <<new, new>> /\ new \in Values
      BY <2>2, NewTableFacts, Zenon DEF TwoMore
    <3>. HIDE DEF new
    <3>2. /\ F \in Seq(Values) /\ Len(F) = Len(E) + 2
          /\ \A i \in 1..Len(E) : F[i] = E[i]
          /\ F[Len(E) + 1] = new /\ F[Len(E) + 2] = new
      <4>1. F \in Seq(Values)
        BY <1>1, <3>1
      <4>2. Len(F) = Len(E) + 2
        BY <1>1, <3>1
      <4>3. \A i \in 1..Len(E) : F[i] = E[i]
        BY <1>1, <3>1
      <4>4. F[Len(E) + 1] = new
        BY <1>1, <3>1
      <4>5. F[Len(E) + 2] = new
        BY <1>1, <3>1
      <4>. QED
        BY <4>1, <4>2, <4>3, <4>4, <4>5
    <3>3. \A i \in Len(E) + 1..Len(E) + 2 : i = Len(E) + 1 \/ i = Len(E) + 2
      BY <1>1
    <3>. QED
      BY <1>1, <2>2, <3>2, <3>3 DEF new
  <2>. QED
    BY <2>1, <2>2
<1>3. /\ N \in Seq(MeaningsOfNames) /\ Len(N) = Len(M) + k
      /\ \A i \in 1..Len(E) : N[i] = M[i]
      /\ \A i \in Len(E) + 1..Len(E) + k : N[i] = M[Len(E)]
  <2>. DEFINE top == M[Len(E)]
  <2>. HIDE DEF top
  <2>1. CASE k = 1
    <3>1. N = Append(M, top) /\ top \in MeaningsOfNames
      BY <1>1, <2>1 DEF top
    <3>2. /\ N \in Seq(MeaningsOfNames) /\ Len(N) = Len(E) + 1
          /\ \A i \in 1..Len(E) : N[i] = M[i]
          /\ N[Len(E) + 1] = top
      BY <1>1, <3>1, PushFacts
    <3>3. \A i \in Len(E) + 1..Len(E) + 1 : i = Len(E) + 1
      BY <1>1
    <3>. QED
      BY <1>1, <2>1, <3>2, <3>3 DEF top
  <2>2. CASE k = 2
    <3>1. N = M \o <<top, top>> /\ top \in MeaningsOfNames
      BY <1>1, <2>2, Zenon DEF top, TwoMore
    <3>2. /\ N \in Seq(MeaningsOfNames) /\ Len(N) = Len(E) + 2
          /\ \A i \in 1..Len(E) : N[i] = M[i]
          /\ N[Len(E) + 1] = top /\ N[Len(E) + 2] = top
      <4>1. /\ N \in Seq(MeaningsOfNames) /\ Len(N) = Len(M) + 2
            /\ \A i \in 1..Len(M) : N[i] = M[i]
            /\ N[Len(M) + 1] = top /\ N[Len(M) + 2] = top
        BY <1>1, <3>1
      <4>. QED
        BY <1>1, <4>1
    <3>3. \A i \in Len(E) + 1..Len(E) + 2 : i = Len(E) + 1 \/ i = Len(E) + 2
      BY <1>1
    <3>. QED
      BY <1>1, <2>2, <3>2, <3>3 DEF top
  <2>. QED
    BY <2>1, <2>2
<1>4. \A i \in 1..Len(E) : See(F, i) = See(E, i)
  <2>. SUFFICES ASSUME NEW i \in 1..Len(E) PROVE See(F, i) = See(E, i)
    OBVIOUS
  <2>1. i \in Nat /\ \A j \in 1..i : F[j] = E[j]
    BY <1>1, <1>2
  <2>. QED
    BY <2>1, SeeSame
<1>5. See(F, Len(E)) = See(E, Len(E))
  BY <1>1, <1>4
<1>6. See(F, Len(E) + 1) = See(E, Len(E))
  <2>1. F[Len(E) + 1] = NewTable
    BY <1>1, <1>2
  <2>. QED
    BY <1>1, <1>5, <2>1, SeeNew
<1>7. k = 2 => See(F, Len(E) + 2) = See(E, Len(E))
  <2>. SUFFICES ASSUME k = 2 PROVE See(F, Len(E) + 2) = See(E, Len(E))
    OBVIOUS
  <2>1. Len(E) + 1 \in Nat /\ F[Len(E) + 2] = NewTable /\ (Len(E) + 1) + 1 = Len(E) + 2
    BY <1>1, <1>2
  <2>2. See(F, (Len(E) + 1) + 1) = See(F, Len(E) + 1)
    BY <2>1, SeeNew
  <2>. QED
    BY <1>6, <2>1, <2>2
<1>8. \A i \in Len(E) + 1..Len(E) + k : i = Len(E) + 1 \/ (k = 2 /\ i = Len(E) + 2)
  BY <1>1
<1>9. \A i \in Len(E) + 1..Len(E) + k : See(F, i) = See(E, Len(E))
  BY <1>6, <1>7, <1>8
<1>. QED
  BY <1>1, <1>2, <1>3, <1>4, <1>9 DEF Tables, Opened

LEMMA ClosedFacts ==
  ASSUME NEW E, NEW M, Tables(E, M), NEW k \in Nat, k < Len(E), NEW F, NEW N,
         Fewer(E, k, F), Fewer(M, k, N)
  PROVE  Tables(F, N) /\ Len(F) = Len(E) - k
<1>1. /\ E \in Seq(Values) /\ M \in Seq(MeaningsOfNames) /\ Len(E) = Len(M) /\ Len(E) \in Nat
  BY DEF Tables
<1>2. F \in Seq(Values) /\ Len(F) = Len(E) - k
  BY <1>1, PopFacts DEF Fewer
<1>3. N \in Seq(MeaningsOfNames) /\ Len(N) = Len(E) - k
  BY <1>1, PopFacts DEF Fewer
<1>. QED
  BY <1>1, <1>2, <1>3 DEF Tables

LEMMA ClosedSame ==
  ASSUME NEW E, NEW M, Tables(E, M), NEW k \in Nat, k < Len(E), NEW F, NEW N,
         Fewer(E, k, F), Fewer(M, k, N), NEW i \in 1..Len(E) - k
  PROVE  See(F, i) = See(E, i) /\ N[i] = M[i]
<1>1. /\ E \in Seq(Values) /\ M \in Seq(MeaningsOfNames) /\ Len(E) = Len(M) /\ Len(E) \in Nat
  BY DEF Tables
<1>2. \A j \in 1..Len(E) - k : F[j] = E[j]
  BY <1>1, PopFacts DEF Fewer
<1>3. \A j \in 1..Len(E) - k : N[j] = M[j]
  BY <1>1, PopFacts DEF Fewer
<1>4. i \in Nat /\ \A j \in 1..i : F[j] = E[j]
  BY <1>1, <1>2
<1>. QED
  BY <1>3, <1>4, SeeSame

-----------------------------------------------------------------------------
(* Type correctness: no switch ends with more scopes than there are.       *)

LEMMA SwitchFacts ==
  ASSUME StackInv
  PROVE  /\ switches \in Seq(SwitchRecords) /\ Len(switches) \in Nat
         /\ DOMAIN switches = 1..Len(switches)
         /\ InSwitch <=> Len(switches) >= 1
         /\ \A s \in 1..Len(switches) :
              /\ switches[s] \in SwitchRecords
              /\ switches[s].depth \in Nat /\ switches[s].depth >= 1
              /\ switches[s].todo \in Seq(Expressions) /\ switches[s].values \in SUBSET Ints
              /\ switches[s].depth + 2 <= Depth
              /\ s # Len(switches) => switches[s].depth + 2 <= Innermost.depth
              /\ ~InBody => switches[s].depth + 2 <= Depth - 1
<1>. HIDE DEF Ints
<1>1. /\ switches \in Seq(SwitchRecords) /\ Len(switches) \in Nat
      /\ DOMAIN switches = 1..Len(switches)
  BY DEF StackInv, TypeInv
<1>0. Len(switches) \in Nat
  BY <1>1
<1>2. InSwitch <=> Len(switches) >= 1
  BY <1>1 DEF InSwitch
<1>3. \A s \in 1..Len(switches) :
        /\ switches[s] \in SwitchRecords
        /\ switches[s].depth \in Nat /\ switches[s].depth >= 1
        /\ switches[s].todo \in Seq(Expressions) /\ switches[s].values \in SUBSET Ints
        /\ switches[s].depth + 2 <= Depth
  <2>1. \A s \in 1..Len(switches) :
          /\ switches[s] \in SwitchRecords
          /\ switches[s].depth \in Nat /\ switches[s].todo \in Seq(Expressions)
          /\ switches[s].values \in SUBSET Ints
    <3>1. \A s \in 1..Len(switches) : switches[s] \in SwitchRecords
      BY <1>1
    <3>2. \A w \in SwitchRecords : /\ w.depth \in Nat /\ w.todo \in Seq(Expressions)
                                  /\ w.values \in SUBSET Ints
      BY DEF SwitchRecords
    <3>. QED
      BY <3>1, <3>2
  <2>2. \A s \in 1..Len(switches) : switches[s].depth >= 1 /\ switches[s].depth + 2 <= Len(enums)
    BY DEF StackInv, Nested
  <2>. QED
    BY <2>1, <2>2 DEF Depth
<1>4. \A s \in 1..Len(switches) : s # Len(switches) => switches[s].depth + 2 <= Innermost.depth
  <2>. SUFFICES ASSUME NEW s \in 1..Len(switches), s # Len(switches)
                PROVE  switches[s].depth + 2 <= Innermost.depth
    OBVIOUS
  <2>1. Len(switches) \in 1..Len(switches) /\ s \in 1..Len(switches) - 1
    BY <1>0
  <2>2. \A t \in 1..Len(switches) - 1 : switches[t].depth + 2 <= switches[Len(switches)].depth
    BY <2>1 DEF StackInv, Nested
  <2>. QED
    BY <2>1, <2>2 DEF Innermost
<1>5. \A s \in 1..Len(switches) : ~InBody => switches[s].depth + 2 <= Depth - 1
  <2>. SUFFICES ASSUME NEW s \in 1..Len(switches), ~InBody
                PROVE  switches[s].depth + 2 <= Depth - 1
    OBVIOUS
  <2>1. Len(switches) \in 1..Len(switches) /\ Depth \in Nat
    BY <1>1, HereFacts DEF StackInv
  <2>2. Innermost.depth \in Nat /\ Innermost.depth + 2 <= Depth
    BY <1>3, <2>1 DEF Innermost
  <2>3. Innermost.depth + 2 # Depth
    BY <1>2, <2>1 DEF InBody
  <2>4. CASE s = Len(switches)
    BY <2>1, <2>2, <2>3, <2>4 DEF Innermost
  <2>5. CASE s # Len(switches)
    BY <1>3, <1>4, <2>1, <2>2, <2>3, <2>5
  <2>. QED
    BY <2>4, <2>5
<1>. QED
  BY <1>1, <1>2, <1>3, <1>4, <1>5

LEMMA StackStart == Init => StackInv
<1>. SUFFICES ASSUME Init PROVE StackInv
  OBVIOUS
<1>1. enums \in Seq(Values) /\ meant \in Seq(MeaningsOfNames) /\ Len(enums) = 1 /\ Len(meant) = 1
  BY NewTableFacts DEF Init
<1>. HIDE DEF Ints
<1>2. 0 \in Meant
  <2>1. Truth(FALSE) \in Ints /\ Truth(FALSE) = 0
    BY TruthFacts DEF Truth
  <2>. QED
    BY <2>1 DEF Meant
<1>3. switches \in Seq(SwitchRecords) /\ Len(switches) = 0
  BY DEF Init
<1>4. TypeInv
  BY <1>1, <1>2, <1>3 DEF Init, TypeInv, Tables
<1>. QED
  BY <1>3, <1>4 DEF StackInv, Nested

\* Enumerators leave the switches and the number of scopes alone.
LEMMA StackAdded ==
  ASSUME StackInv, NEW n \in Name, phase = "enum", switches' = switches, last' \in Results,
         \/ phase' = "aborted" /\ enums' = enums /\ meant' = meant /\ next' = next
         \/ \E x \in Ints, y \in Meant : AddEnumVal(n, x, y)
  PROVE  StackInv' /\ Len(enums') = Len(enums)
<1>. HIDE DEF Ints
<1>1. TypeInv /\ Nested(switches, enums)
  BY DEF StackInv
<1>2. /\ phase' \in {"enum", "aborted"} /\ Tables(enums', meant') /\ Len(enums') = Len(enums)
      /\ next' \in Meant
  BY <1>1, AddedFacts DEF TypeInv
<1>3. Nested(switches', enums')
  BY <1>1, <1>2 DEF Nested
<1>4. switches' \in Seq(SwitchRecords)
  BY <1>1 DEF TypeInv
<1>. QED
  BY <1>2, <1>3, <1>4 DEF StackInv, TypeInv

\* A switch enters its two scopes, with the labels it has collected.
LEMMA BeginSwitchFacts ==
  ASSUME StackInv, NEW cases \in CaseLists, BeginSwitch(cases)
  PROVE  /\ cases \in Seq(Expressions) /\ next' = next /\ phase = "statements"
         /\ \A i \in DOMAIN cases : Admitted(cases[i])
         /\ \/ /\ phase' = "aborted" /\ enums' = enums /\ meant' = meant /\ switches' = switches
               /\ \E i \in DOMAIN cases :
                    Evaluate(cases[i]).thrown /\ last' = Record("case", Thrown, MeaningHere(cases[i]))
            \/ /\ phase' = phase /\ last' = None
               /\ enums' = enums \o <<NewTable, NewTable>>
               /\ meant' = meant \o <<meant[Depth], meant[Depth]>>
               /\ \E w \in SwitchRecords :
                    /\ switches' = Append(switches, w) /\ w.depth = Depth /\ w.todo = cases
                    /\ \A i \in DOMAIN cases : /\ ~Evaluate(cases[i]).thrown
                                               /\ Evaluate(cases[i]).value \in w.values
<1>. HIDE DEF Ints
<1>1. cases \in Seq(Expressions)
  BY ConstantAssumption
<1>2. Len(cases) \in Nat /\ DOMAIN cases = 1..Len(cases) /\ \A i \in 1..Len(cases) : cases[i] \in Expressions
  BY <1>1
<1>3. /\ GetCases(cases) = [i \in DOMAIN cases |-> Evaluate(cases[i])]
      /\ DOMAIN GetCases(cases) = DOMAIN cases
  BY DEF GetCases
<1>4. \A i \in DOMAIN cases : GetCases(cases)[i] = Evaluate(cases[i]) /\ Evaluate(cases[i]) \in Outcomes
  BY <1>2, <1>3, HereFacts DEF StackInv
<1>. DEFINE thrown == {i \in DOMAIN GetCases(cases) : GetCases(cases)[i].thrown}
<1>5. CASE thrown # {}
  <2>1. /\ phase' = "aborted" /\ enums' = enums /\ meant' = meant /\ switches' = switches
        /\ last' = Record("case", Thrown, MeaningHere(cases[Min(thrown)]))
    BY <1>5 DEF BeginSwitch
  <2>2. thrown \in SUBSET (1..Len(cases))
    BY <1>2, <1>3
  <2>3. Min(thrown) \in thrown
    BY <1>2, <1>5, <2>2, MinFacts
  <2>4. Min(thrown) \in DOMAIN cases /\ Evaluate(cases[Min(thrown)]).thrown
    BY <1>3, <1>4, <2>3
  <2>. QED
    BY <1>1, <2>1, <2>4 DEF BeginSwitch
<1>6. CASE thrown = {}
  <2>. DEFINE w == [depth |-> Depth, todo |-> cases,
                    values |-> {GetCases(cases)[i].value : i \in DOMAIN GetCases(cases)}]
  <2>1. /\ phase' = phase /\ last' = None
        /\ enums' = enums \o <<NewTable, NewTable>>
        /\ meant' = meant \o <<meant[Depth], meant[Depth]>>
        /\ switches' = Append(switches, w)
    BY <1>6 DEF BeginSwitch
  <2>2. \A i \in DOMAIN cases : /\ ~Evaluate(cases[i]).thrown /\ Evaluate(cases[i]).value \in Ints
                                /\ Evaluate(cases[i]).value \in w.values
    <3>. SUFFICES ASSUME NEW i \in DOMAIN cases
                  PROVE  /\ ~Evaluate(cases[i]).thrown /\ Evaluate(cases[i]).value \in Ints
                         /\ Evaluate(cases[i]).value \in w.values
      OBVIOUS
    <3>1. i \in DOMAIN GetCases(cases) /\ GetCases(cases)[i] = Evaluate(cases[i])
      BY <1>3, <1>4
    <3>. QED
      BY <1>4, <1>6, <3>1, OutcomeFacts
  <2>3. w \in SwitchRecords
    <3>1. {GetCases(cases)[i].value : i \in DOMAIN GetCases(cases)} \subseteq Ints
      BY <1>3, <1>4, <2>2
    <3>. QED
      BY <1>1, <3>1, HereFacts DEF StackInv, SwitchRecords
  <2>4. w.depth = Depth /\ w.todo = cases
    OBVIOUS
  <2>. HIDE DEF w
  <2>. QED
    BY <1>1, <2>1, <2>2, <2>3, <2>4 DEF BeginSwitch
<1>. QED
  BY <1>5, <1>6

LEMMA StackBeginSwitch ==
  ASSUME StackInv, NEW cases \in CaseLists, BeginSwitch(cases)
  PROVE  StackInv'
<1>. HIDE DEF Ints
<1>1. TypeInv /\ Nested(switches, enums)
  BY DEF StackInv
<1>2. CASE /\ phase' = "aborted" /\ enums' = enums /\ meant' = meant /\ switches' = switches
           /\ \E i \in DOMAIN cases :
                Evaluate(cases[i]).thrown /\ last' = Record("case", Thrown, MeaningHere(cases[i]))
  <2>1. PICK i \in DOMAIN cases : last' = Record("case", Thrown, MeaningHere(cases[i]))
    BY <1>2
  <2>2. cases[i] \in Expressions
    BY BeginSwitchFacts
  <2>3. last' \in Results
    BY <1>1, <2>1, <2>2, HereFacts, ConstantFacts, RecordFacts
  <2>. QED
    BY <1>1, <1>2, <2>3, BeginSwitchFacts DEF StackInv, TypeInv
<1>3. CASE /\ phase' = phase /\ last' = None
           /\ enums' = enums \o <<NewTable, NewTable>>
           /\ meant' = meant \o <<meant[Depth], meant[Depth]>>
           /\ \E w \in SwitchRecords : switches' = Append(switches, w) /\ w.depth = Depth
  <2>1. PICK w \in SwitchRecords : switches' = Append(switches, w) /\ w.depth = Depth
    BY <1>3
  <2>2. Tables(enums', meant') /\ Len(enums') = Len(enums) + 2
    <3>1. Tables(enums, meant) /\ TwoMore(enums, NewTable, enums') /\ TwoMore(meant, meant[Len(enums)], meant')
      BY <1>1, <1>3, Zenon DEF TypeInv, Depth, TwoMore
    <3>2. Opened(enums, meant, 2, enums', meant')
      BY <3>1, OpenedFacts
    <3>. QED
      BY <3>2 DEF Opened
  <2>3. /\ switches' \in Seq(SwitchRecords) /\ Len(switches') = Len(switches) + 1
        /\ switches'[Len(switches) + 1] = w
        /\ \A s \in 1..Len(switches) : switches'[s] = switches[s]
    <3>1. switches \in Seq(SwitchRecords)
      BY SwitchFacts
    <3>. QED
      BY <2>1, <3>1, PushFacts
  <2>4. Nested(switches', enums')
    <3>1. Len(switches) \in Nat /\ Len(enums) \in Nat /\ Depth = Len(enums) /\ Depth >= 1
      BY <1>1, SwitchFacts, HereFacts DEF Depth
    <3>2. ASSUME NEW s \in 1..Len(switches'), NEW t \in 1..s - 1
          PROVE  switches'[t].depth + 2 <= switches'[s].depth
      <4>1. t \in 1..Len(switches) /\ (s \in 1..Len(switches) \/ s = Len(switches) + 1)
        BY <2>3, <3>1
      <4>2. CASE s \in 1..Len(switches)
        BY <1>1, <2>3, <4>1, <4>2 DEF Nested
      <4>3. CASE s = Len(switches) + 1
        BY <2>1, <2>3, <4>1, <4>3, SwitchFacts
      <4>. QED
        BY <4>1, <4>2, <4>3
    <3>3. ASSUME NEW s \in 1..Len(switches')
          PROVE  switches'[s].depth >= 1 /\ switches'[s].depth + 2 <= Len(enums')
      <4>1. s \in 1..Len(switches) \/ s = Len(switches) + 1
        BY <2>3, <3>1
      <4>2. CASE s \in 1..Len(switches)
        <5>1. switches[s].depth \in Nat /\ switches[s].depth >= 1 /\ switches[s].depth + 2 <= Depth
          BY <4>2, SwitchFacts
        <5>. QED
          BY <2>2, <2>3, <3>1, <4>2, <5>1
      <4>3. CASE s = Len(switches) + 1
        BY <2>1, <2>2, <2>3, <3>1, <4>3
      <4>. QED
        BY <4>1, <4>2, <4>3
    <3>. QED
      BY <3>2, <3>3 DEF Nested
  <2>. QED
    BY <1>1, <1>3, <2>2, <2>3, <2>4, BeginSwitchFacts DEF StackInv, TypeInv
<1>. QED
  BY <1>2, <1>3, BeginSwitchFacts

\* Popping k scopes that belong to no switch left keeps the others nested.
LEMMA StackClosed ==
  ASSUME StackInv, NEW k \in Nat, k < Depth, PopScopes(k), NEW W \in Seq(SwitchRecords),
         Len(W) <= Len(switches), \A s \in 1..Len(W) : W[s] = switches[s] /\ W[s].depth + 2 <= Depth - k
  PROVE  /\ Tables(enums', meant') /\ Nested(W, enums') /\ Len(enums') = Depth - k
         /\ \A i \in 1..Depth - k : See(enums', i) = See(enums, i) /\ meant'[i] = meant[i]
<1>1. TypeInv /\ Nested(switches, enums) /\ Depth = Len(enums)
  BY DEF StackInv, Depth
<1>2. Tables(enums, meant)
  BY <1>1 DEF TypeInv
<1>3. Fewer(enums, k, enums') /\ Fewer(meant, k, meant')
  <2>1. enums' = SubSeq(enums, 1, Len(enums) - k) /\ meant' = SubSeq(meant, 1, Len(enums) - k)
    BY DEF PopScopes, Depth
  <2>. QED
    BY <1>2, <2>1 DEF Fewer, Tables
<1>4. /\ Tables(enums', meant') /\ Len(enums') = Depth - k
      /\ \A i \in 1..Depth - k : See(enums', i) = See(enums, i) /\ meant'[i] = meant[i]
  <2>1. k < Len(enums)
    BY <1>1
  <2>2. Tables(enums', meant') /\ Len(enums') = Len(enums) - k
    BY <1>2, <1>3, <2>1, ClosedFacts
  <2>3. \A i \in 1..Len(enums) - k : See(enums', i) = See(enums, i) /\ meant'[i] = meant[i]
    BY <1>2, <1>3, <2>1, ClosedSame
  <2>. QED
    BY <1>1, <2>2, <2>3
<1>5. \A s \in 1..Len(W) : s \in 1..Len(switches) /\ \A t \in 1..s - 1 : t \in 1..Len(W)
  <2>1. Len(W) \in Nat /\ Len(switches) \in Nat
    <3>1. Len(switches) \in Nat
      BY SwitchFacts
    <3>. QED
      BY <3>1
  <2>. QED
    BY <2>1
<1>6. Nested(W, enums')
  BY <1>1, <1>4, <1>5 DEF Nested
<1>. QED
  BY <1>4, <1>6

LEMMA CloseScopeFacts ==
  ASSUME StackInv, CloseScope
  PROVE  StackInv' /\ Len(enums') = Depth - 1 /\ \A s \in 1..Len(switches) : switches[s].depth + 2 <= Depth - 1
<1>1. TypeInv /\ switches' = switches /\ next' = next /\ phase' = phase /\ last' = None /\ PopScopes(1)
  BY DEF CloseScope, StackInv
<1>2. 1 < Depth /\ Len(switches) <= Len(switches) /\ 1 \in Nat
  <2>1. Len(switches) \in Nat /\ Depth \in Nat
    BY <1>1, SwitchFacts, HereFacts
  <2>. QED
    BY <2>1 DEF CloseScope
<1>3. \A s \in 1..Len(switches) : switches[s] = switches[s] /\ switches[s].depth + 2 <= Depth - 1
  BY SwitchFacts DEF CloseScope
<1>4. Tables(enums', meant') /\ Nested(switches, enums') /\ Len(enums') = Depth - 1
  BY <1>1, <1>2, <1>3, SwitchFacts, StackClosed
<1>. QED
  BY <1>1, <1>3, <1>4 DEF StackInv, TypeInv

LEMMA EndSwitchFacts ==
  ASSUME StackInv, EndSwitch
  PROVE  /\ StackInv' /\ Len(enums') = Depth - 2 /\ Len(switches') = Len(switches) - 1
         /\ \A s \in 1..Len(switches') : /\ s \in 1..Len(switches) /\ switches'[s] = switches[s]
                                         /\ switches[s].depth + 2 <= Depth - 2
<1>1. /\ TypeInv /\ next' = next /\ phase' = phase /\ last' = None /\ PopScopes(2)
      /\ InSwitch /\ Depth = Innermost.depth + 2 /\ switches' = SubSeq(switches, 1, Len(switches) - 1)
  BY DEF EndSwitch, InBody, StackInv, Front
<1>2. Len(switches) \in Nat /\ Len(switches) >= 1 /\ switches \in Seq(SwitchRecords)
  BY <1>1, SwitchFacts
<1>3. switches[Len(switches)].depth \in Nat /\ switches[Len(switches)].depth >= 1
  <2>1. Len(switches) \in 1..Len(switches)
    BY <1>2
  <2>. QED
    BY <2>1, SwitchFacts
<1>4. 2 < Depth /\ Depth - 2 = Innermost.depth /\ 2 \in Nat
  BY <1>1, <1>3 DEF Innermost
<1>5. /\ switches' \in Seq(SwitchRecords) /\ Len(switches') = Len(switches) - 1
      /\ \A s \in 1..Len(switches) - 1 : switches'[s] = switches[s]
  <2>1. 1 \in Nat /\ 1 <= Len(switches)
    BY <1>2
  <2>. QED
    BY <1>1, <1>2, <2>1, PopFacts
<1>6. \A s \in 1..Len(switches') : /\ s \in 1..Len(switches) /\ s # Len(switches)
                                   /\ switches'[s] = switches[s]
  BY <1>2, <1>5
<1>7. \A s \in 1..Len(switches') : switches[s].depth + 2 <= Depth - 2
  BY <1>4, <1>6, SwitchFacts
<1>8. Len(switches') <= Len(switches)
  BY <1>2, <1>5
<1>9. Tables(enums', meant') /\ Nested(switches', enums') /\ Len(enums') = Depth - 2
  BY <1>1, <1>4, <1>5, <1>6, <1>7, <1>8, StackClosed
<1>. QED
  BY <1>1, <1>5, <1>6, <1>7, <1>9 DEF StackInv, TypeInv

\* A case in the body takes its label off the list.
LEMMA EmitCaseFacts ==
  ASSUME StackInv, EmitCase
  PROVE  /\ StackInv' /\ enums' = enums /\ meant' = meant /\ Len(switches') = Len(switches)
         /\ Len(switches) \in 1..Len(switches) /\ Depth = switches[Len(switches)].depth + 2
         /\ \E e \in Expressions :
              /\ e = switches[Len(switches)].todo[1] /\ 1 \in DOMAIN switches[Len(switches)].todo
              /\ Admitted(e) /\ last' = Record("case", Evaluate(e), MeaningHere(e))
         /\ \A s \in 1..Len(switches) :
              /\ switches'[s].depth = switches[s].depth /\ switches'[s].values = switches[s].values
              /\ \A i \in DOMAIN switches'[s].todo :
                   \E j \in DOMAIN switches[s].todo : switches'[s].todo[i] = switches[s].todo[j]
<1>. HIDE DEF Ints
<1>. DEFINE n == Len(switches)
            w == switches[n]
            e == Head(w.todo)
<1>1. /\ TypeInv /\ InSwitch /\ Depth = w.depth + 2 /\ w.todo # << >>
      /\ enums' = enums /\ meant' = meant /\ next' = next /\ phase = "statements"
      /\ Admitted(e) /\ last' = Record("case", Evaluate(e), MeaningHere(e))
      /\ \/ phase' = "aborted" /\ switches' = switches
         \/ switches' = [switches EXCEPT ![n].todo = Tail(@)] /\ phase' = phase
  BY DEF EmitCase, InBody, StackInv, Innermost
<1>2. n \in Nat /\ n \in 1..n /\ switches \in Seq(SwitchRecords)
  BY <1>1, SwitchFacts
<1>3. w \in SwitchRecords /\ w.todo \in Seq(Expressions)
  BY <1>2, SwitchFacts
<1>. HIDE DEF n, w
<1>4. /\ e \in Expressions /\ e = w.todo[1] /\ 1 \in DOMAIN w.todo /\ Tail(w.todo) \in Seq(Expressions)
      /\ \A i \in DOMAIN Tail(w.todo) : \E j \in DOMAIN w.todo : Tail(w.todo)[i] = w.todo[j]
  BY <1>1, <1>3, TailFacts
<1>5. last' \in Results
  BY <1>1, <1>4, HereFacts, RecordFacts
<1>6. CASE phase' = "aborted" /\ switches' = switches
  BY <1>1, <1>2, <1>4, <1>5, <1>6 DEF StackInv, TypeInv, n, w
<1>7. CASE switches' = [switches EXCEPT ![n].todo = Tail(@)] /\ phase' = phase
  <2>. DEFINE x == [w EXCEPT !.todo = Tail(w.todo)]
  <2>1. switches' = [switches EXCEPT ![n] = x]
    BY <1>2, <1>7 DEF w
  <2>2. x \in SwitchRecords /\ x.depth = w.depth /\ x.values = w.values /\ x.todo = Tail(w.todo)
    BY <1>3, <1>4 DEF SwitchRecords
  <2>. HIDE DEF x
  <2>3. /\ switches' \in Seq(SwitchRecords) /\ Len(switches') = n
        /\ switches'[n] = x /\ \A s \in 1..n : s # n => switches'[s] = switches[s]
    BY <1>2, <2>1, <2>2 DEF n
  <2>4. \A s \in 1..n : /\ switches'[s].depth = switches[s].depth /\ switches'[s].values = switches[s].values
                        /\ \A i \in DOMAIN switches'[s].todo :
                             \E j \in DOMAIN switches[s].todo : switches'[s].todo[i] = switches[s].todo[j]
    <3>. SUFFICES ASSUME NEW s \in 1..n
                  PROVE  /\ switches'[s].depth = switches[s].depth /\ switches'[s].values = switches[s].values
                         /\ \A i \in DOMAIN switches'[s].todo :
                              \E j \in DOMAIN switches[s].todo : switches'[s].todo[i] = switches[s].todo[j]
      OBVIOUS
    <3>1. CASE s = n
      <4>1. switches[s] = w /\ switches'[s] = x
        BY <2>3, <3>1 DEF w
      <4>. QED
        <5>1. switches[s].todo = w.todo /\ switches'[s].todo = Tail(w.todo)
          BY <2>2, <4>1
        <5>2. switches'[s].depth = switches[s].depth /\ switches'[s].values = switches[s].values
          BY <2>2, <4>1
        <5>. QED
          BY <1>4, <5>1, <5>2, Zenon
    <3>2. CASE s # n
      <4>1. switches'[s] = switches[s]
        BY <2>3, <3>2
      <4>. QED
        BY <4>1
    <3>. QED
      BY <3>1, <3>2
  <2>5. Nested(switches', enums')
    <3>1. \A s \in 1..n : \A t \in 1..s - 1 : t \in 1..n
      BY <1>2
    <3>2. Nested(switches, enums)
      BY DEF StackInv
    <3>. QED
      BY <1>1, <2>3, <2>4, <3>1, <3>2 DEF Nested, n
  <2>. QED
    BY <1>1, <1>2, <1>4, <1>5, <1>7, <2>3, <2>4, <2>5 DEF StackInv, TypeInv, n, w
<1>. QED
  BY <1>1, <1>6, <1>7

LEMMA RootFacts ==
  ASSUME NEW e \in Expressions
  PROVE  /\ Constant(GetValue(e)) \in Outcomes /\ Constant(GetConst(e)) \in Outcomes
         /\ Constant(NodeGetValue) \in Outcomes
         /\ Root(e) = e[Len(e)] /\ Root(e) \in Node /\ Len(e) \in 1..Len(e)
<1>. HIDE DEF Node, Constant, Ints
<1>1. IsExpression(e)
  BY ConstantAssumption
<1>2. Len(e) \in 1..Len(e) /\ Root(e) = e[Len(e)] /\ Root(e) \in Node
  BY <1>1, ExpressionFacts DEF Root
<1>3. Root(e).kind = "constant" => Root(e).value \in Int
  <2>1. Root(e).kind = "constant" => Root(e).value \in Ints
    BY <1>2, NodeFacts
  <2>. QED
    BY <2>1, WrapFacts
<1>4. GetValue(e) \in Int /\ GetConst(e) \in Int /\ NodeGetValue \in Int
  BY <1>3 DEF GetValue, GetConst, NodeGetValue
<1>. QED
  BY <1>2, <1>4, ConstantFacts

\* What the steps that evaluate one expression in place leave alone.
InPlace(e) == Bound(e) \/ GlobalInitialiser(e) \/ Element(e)

LEMMA InPlaceFacts ==
  ASSUME NEW e \in Expressions, InPlace(e)
  PROVE  /\ phase' = phase /\ enums' = enums /\ meant' = meant /\ next' = next /\ switches' = switches
         /\ \/ AdmittedAs("bound", e) /\ last' = Record("bound", Constant(GetValue(e)), MeaningHere(e))
            \/ AdmittedAs("global", e) /\ last' = Record("global", Constant(NodeGetValue), MeaningHere(e))
            \/ AdmittedAs("element", e) /\ last' = Record("element", Constant(GetConst(e)), MeaningHere(e))
BY Zenon DEF InPlace, Bound, GlobalInitialiser, Element

LEMMA EnumeratorFacts ==
  ASSUME TypeInv, NEW n \in Name, NEW e \in Expressions, Enumerator(n, e)
  PROVE  /\ MayDeclare(n) /\ phase = "enum" /\ switches' = switches /\ Admitted(e)
         /\ last' = Record("enumerator", Evaluate(e), MeaningHere(e)) /\ last' \in Results
         /\ Evaluate(e) \in Outcomes /\ MeaningHere(e) \in Meant
         /\ \/ phase' = "aborted" /\ enums' = enums /\ meant' = meant /\ next' = next
            \/ /\ ~Evaluate(e).thrown /\ Evaluate(e).value \in Ints
               /\ AddEnumVal(n, Evaluate(e).value, MeaningHere(e))
<1>. HIDE DEF Ints
<1>1. /\ MayDeclare(n) /\ phase = "enum" /\ switches' = switches /\ Admitted(e)
      /\ last' = Record("enumerator", Evaluate(e), MeaningHere(e))
      /\ \/ phase' = "aborted" /\ enums' = enums /\ meant' = meant /\ next' = next
         \/ ~Evaluate(e).thrown /\ AddEnumVal(n, Evaluate(e).value, MeaningHere(e))
  BY DEF Enumerator, MayDeclare
<1>2. Evaluate(e) \in Outcomes /\ MeaningHere(e) \in Meant
  BY HereFacts
<1>3. last' \in Results
  BY <1>1, <1>2, RecordFacts
<1>. QED
  BY <1>1, <1>2, <1>3, OutcomeFacts

LEMMA ImplicitFacts ==
  ASSUME TypeInv, NEW n \in Name, ImplicitEnumerator(n)
  PROVE  /\ MayDeclare(n) /\ phase = "enum" /\ switches' = switches
         /\ next # 0 => "implicit" \in Pitfalls
         /\ last' = Record("enumerator", Constant(0), next) /\ last' \in Results
         /\ 0 \in Ints /\ Constant(0) \in Outcomes /\ Constant(0).value = 0 /\ ~Constant(0).thrown
         /\ next \in Meant /\ AddEnumVal(n, 0, next)
<1>. HIDE DEF Ints, Constant
<1>1. /\ MayDeclare(n) /\ phase = "enum" /\ switches' = switches
      /\ next # 0 => "implicit" \in Pitfalls
      /\ last' = Record("enumerator", Constant(0), next) /\ AddEnumVal(n, 0, next)
  BY DEF ImplicitEnumerator, MayDeclare
<1>2. 0 \in Ints
  <2>1. Truth(FALSE) \in Ints /\ Truth(FALSE) = 0
    BY TruthFacts DEF Truth
  <2>. QED
    BY <2>1
<1>3. next \in Meant
  BY DEF TypeInv
<1>4. Constant(0) \in Outcomes /\ Constant(0).value = 0 /\ ~Constant(0).thrown
  BY <1>2, ConstantFacts
<1>5. last' \in Results
  BY <1>1, <1>3, <1>4, RecordFacts
<1>. QED
  BY <1>1, <1>2, <1>3, <1>4, <1>5

\* The actions, as the proofs below go through them.
LEMMA NextCases ==
  Next => \/ BeginEnum \/ EndEnum \/ OpenScope \/ CloseScope \/ EmitCase \/ EndSwitch \/ UNCHANGED vars
          \/ \E n \in Name : ImplicitEnumerator(n)
          \/ \E n \in Name, e \in Expressions : Enumerator(n, e)
          \/ \E cases \in CaseLists : BeginSwitch(cases)
          \/ \E e \in Expressions : InPlace(e)
BY Zenon DEF Next, InPlace, Stopped

LEMMA StackStep == StackInv /\ [Next]_vars => StackInv'
<1>. SUFFICES ASSUME StackInv, [Next]_vars PROVE StackInv'
  OBVIOUS
<1>. HIDE DEF Ints
<1>0. TypeInv /\ Nested(switches, enums)
  BY DEF StackInv
<1>1. CASE BeginEnum \/ EndEnum
  <2>1. /\ phase' \in {"statements", "enum"} /\ enums' = enums /\ meant' = meant /\ switches' = switches
        /\ next' = 0 /\ last' = None
    BY <1>1 DEF BeginEnum, EndEnum
  <2>2. 0 \in Meant
    <3>1. Truth(FALSE) \in Ints /\ Truth(FALSE) = 0
      BY TruthFacts DEF Truth
    <3>. QED
      BY <3>1 DEF Meant
  <2>. QED
    BY <1>0, <2>1, <2>2 DEF StackInv, TypeInv
<1>2. CASE OpenScope
  <2>1. /\ phase' = phase /\ next' = next /\ switches' = switches /\ last' = None
        /\ enums' = Append(enums, NewTable) /\ meant' = Append(meant, meant[Len(enums)])
    BY <1>2 DEF OpenScope, Depth
  <2>2. Tables(enums', meant') /\ Len(enums') = Len(enums) + 1 /\ Len(enums) \in Nat
    <3>1. Tables(enums, meant) /\ Len(enums) \in Nat /\ 1 \in {1, 2} /\ 1 # 2
      BY <1>0 DEF TypeInv, Tables
    <3>2. Tables(enums', meant') /\ Len(enums') = Len(enums) + 1
      <4>1. Opened(enums, meant, 1, enums', meant')
        BY <2>1, <3>1, OpenedFacts
      <4>. QED
        BY <4>1 DEF Opened
    <3>. QED
      BY <3>1, <3>2
  <2>3. Nested(switches', enums')
    <3>1. \A s \in 1..Len(switches) :
            /\ switches[s].depth \in Nat /\ switches[s].depth >= 1 /\ switches[s].depth + 2 <= Len(enums)
            /\ \A t \in 1..s - 1 : switches[t].depth + 2 <= switches[s].depth
      BY <1>0, SwitchFacts DEF Nested
    <3>2. \A s \in 1..Len(switches) : switches[s].depth + 2 <= Len(enums')
      BY <2>2, <3>1
    <3>. QED
      BY <2>1, <3>1, <3>2 DEF Nested
  <2>. QED
    BY <1>0, <2>1, <2>2, <2>3 DEF StackInv, TypeInv
<1>3. CASE CloseScope
  BY <1>3, CloseScopeFacts
<1>4. CASE EmitCase
  BY <1>4, EmitCaseFacts
<1>5. CASE EndSwitch
  BY <1>5, EndSwitchFacts
<1>6. ASSUME NEW n \in Name, ImplicitEnumerator(n) PROVE StackInv'
  BY <1>0, <1>6, ImplicitFacts, StackAdded
<1>7. ASSUME NEW n \in Name, NEW e \in Expressions, Enumerator(n, e) PROVE StackInv'
  BY <1>0, <1>7, EnumeratorFacts, StackAdded
<1>8. ASSUME NEW cases \in CaseLists, BeginSwitch(cases) PROVE StackInv'
  BY <1>8, StackBeginSwitch
<1>9. ASSUME NEW e \in Expressions, InPlace(e) PROVE StackInv'
  <2>1. /\ phase' = phase /\ enums' = enums /\ meant' = meant /\ next' = next /\ switches' = switches
        /\ \E use \in {"bound", "global", "element"}, r \in Outcomes : last' = Record(use, r, MeaningHere(e))
    BY <1>9, InPlaceFacts, RootFacts
  <2>2. last' \in Results
    BY <1>0, <2>1, HereFacts, RecordFacts
  <2>. QED
    BY <1>0, <2>1, <2>2 DEF StackInv, TypeInv
<1>10. CASE UNCHANGED vars
  BY <1>0, <1>10 DEF vars, StackInv, TypeInv
<1>. QED
  BY <1>1, <1>2, <1>3, <1>4, <1>5, <1>6, <1>7, <1>8, <1>9, <1>10, NextCases

\* Every variable has its type in every state of every program, whatever it
\* uses: the scopes of the code and those of C open and close together, and a
\* switch never closes more scopes than are open.
THEOREM TypeCorrect == Spec => []TypeOK
<1>1. StackInv => TypeOK
  BY TypeOKIsTypeInv DEF StackInv
<1>. QED
  BY <1>1, StackStart, StackStep, PTL DEF Spec

-----------------------------------------------------------------------------
(* Constants and enumerators have the values C gives them.                 *)

\* The features that give a constant another value: see Features.
Departures == {"unevaluated", "unneeded", "implicit"}

ScopesAgree == Agreeing(enums, meant)

\* Global initialisers other than 0 do not disturb the enumerators.
ValuesRight == "initialised" \notin Pitfalls => ConstantsRight

\* An admitted expression is evaluated to what C says where it stands.
LEMMA HereRight ==
  ASSUME TypeInv, ScopesAgree, Pitfalls \cap Departures = {}, NEW e \in Expressions, Admitted(e)
  PROVE  Right(MeaningHere(e), Evaluate(e))
<1>1. "unevaluated" \notin Pitfalls /\ "unneeded" \notin Pitfalls
  BY DEF Departures
<1>2. /\ Depth \in 1..Depth /\ Visible(Depth) = See(enums, Depth) /\ IsExpression(e)
      /\ See(enums, Depth) \in Values /\ meant[Depth] \in MeaningsOfNames
  BY HereFacts
<1>3. Agree(See(enums, Depth), meant[Depth])
  BY <1>2 DEF ScopesAgree, Agreeing, Depth
<1>4. (\A i \in DOMAIN e : e[i].kind # "inherited") /\ ~ThrowsUnneeded(e, See(enums, Depth))
  BY <1>1, <1>2 DEF Admitted
<1>. QED
  BY <1>2, <1>3, <1>4, EvaluatedRight DEF Evaluate, MeaningHere

\* A bound or an element that is a literal is read right.
LEMMA LiteralRight ==
  ASSUME TypeInv, NEW e \in Expressions, Root(e).kind = "constant"
  PROVE  /\ Right(MeaningHere(e), Constant(GetValue(e)))
         /\ Root(e).class = "int" => Right(MeaningHere(e), Constant(GetConst(e)))
<1>. HIDE DEF Node, Constant, Ints
<1>1. IsExpression(e) /\ meant[Depth] \in MeaningsOfNames
  BY HereFacts
<1>2. Root(e) = e[Len(e)] /\ Root(e) \in Node /\ Len(e) \in 1..Len(e)
  BY RootFacts
<1>3. Root(e).value \in Ints
  BY <1>2, NodeFacts
<1>4. MeaningHere(e) = MeaningOfNode(e[Len(e)], Meanings(e, meant[Depth]), meant[Depth])
  BY <1>1, <1>2, MeaningsStep DEF MeaningHere, Meaning
<1>5. MeaningHere(e) = Root(e).value
  BY <1>2, <1>4, MeaningCases
<1>6. /\ GetValue(e) = Root(e).value
      /\ Root(e).class = "int" => GetConst(e) = Root(e).value
  BY DEF GetValue, GetConst
<1>7. ~Constant(Root(e).value).thrown /\ Constant(Root(e).value).value = Root(e).value
  BY <1>3, WrapFacts, ConstantFacts
<1>. QED
  BY <1>5, <1>6, <1>7 DEF Right

LEMMA AgreeStart == Init => ScopesAgree /\ ConstantsRight
<1>. SUFFICES ASSUME Init PROVE ScopesAgree /\ ConstantsRight
  OBVIOUS
<1>1. enums[1] = NewTable /\ meant[1] = NewTable /\ Len(enums) = 1
  BY DEF Init
<1>2. \A n \in Name : See(enums, 1)[n] = None
  <2>1. \A k \in Nat : k + 1 = 1 => See(enums, k + 1) = See(enums, k)
    BY <1>1, SeeNew
  <2>2. 0 + 1 = 1 /\ See(enums, 1) = See(enums, 0)
    BY <2>1
  <2>3. \A n \in Name : See(enums, 0)[n] = None
    BY FindNone DEF See
  <2>. QED
    BY <2>1, <2>2, <2>3
<1>3. Agree(See(enums, 1), meant[1])
  BY <1>1, <1>2, NewTableFacts, NotInts DEF Agree
<1>. QED
  BY <1>1, <1>3 DEF ScopesAgree, Agreeing, ConstantsRight, Init

\* A right value declared in the innermost scope leaves all scopes in agreement.
LEMMA AgreeAdded ==
  ASSUME TypeInv, ScopesAgree, phase = "enum", NEW n \in Name, NEW x \in Ints, NEW y \in Meant,
         y # Undefined => x = y, AddEnumVal(n, x, y)
  PROVE  ScopesAgree'
<1>. HIDE DEF Ints
<1>1. /\ Len(enums') = Len(enums)
      /\ \A k \in 1..Len(enums) - 1 : enums'[k] = enums[k] /\ meant'[k] = meant[k]
      /\ \/ enums' = enums /\ meant' = meant
         \/ /\ See(enums', Len(enums)) = [See(enums, Len(enums)) EXCEPT ![n] = x]
            /\ meant'[Len(enums)] = [meant[Len(enums)] EXCEPT ![n] = y]
  BY AddedFacts
<1>2. CASE enums' = enums /\ meant' = meant
  BY <1>2 DEF ScopesAgree
<1>3. CASE /\ See(enums', Len(enums)) = [See(enums, Len(enums)) EXCEPT ![n] = x]
           /\ meant'[Len(enums)] = [meant[Len(enums)] EXCEPT ![n] = y]
  <2>1. /\ Len(enums) \in Nat /\ Len(enums) \in 1..Len(enums)
        /\ See(enums, Len(enums)) \in Values /\ meant[Len(enums)] \in MeaningsOfNames
    BY HereFacts DEF Depth
  <2>2. Agree(See(enums, Len(enums)), meant[Len(enums)])
    BY <2>1 DEF ScopesAgree, Agreeing
  <2>3. Agree(See(enums', Len(enums)), meant'[Len(enums)])
    <3>1. Agree([See(enums, Len(enums)) EXCEPT ![n] = x], [meant[Len(enums)] EXCEPT ![n] = y])
      BY <2>1, <2>2, AgreeDeclared
    <3>. QED
      BY <1>3, <3>1, Zenon
  <2>4. ASSUME NEW k \in 1..Len(enums) - 1 PROVE Agree(See(enums', k), meant'[k])
    <3>1. k \in 1..Len(enums) /\ k \in Nat /\ \A i \in 1..k : enums'[i] = enums[i]
      BY <1>1, <2>1
    <3>2. See(enums', k) = See(enums, k)
      BY <3>1, SeeSame
    <3>3. Agree(See(enums, k), meant[k])
      BY <3>1 DEF ScopesAgree, Agreeing
    <3>. QED
      BY <1>1, <3>2, <3>3
  <2>5. \A k \in 1..Len(enums) : k = Len(enums) \/ k \in 1..Len(enums) - 1
    BY <2>1
  <2>. QED
    BY <1>1, <2>3, <2>4, <2>5 DEF ScopesAgree, Agreeing
<1>. QED
  BY <1>1, <1>2, <1>3

\* The scopes that open have the meanings of the scope they open in.
LEMMA AgreeOpened ==
  ASSUME TypeInv, ScopesAgree, NEW k \in {1, 2},
         k = 1 => enums' = Append(enums, NewTable) /\ meant' = Append(meant, meant[Len(enums)]),
         k = 2 => TwoMore(enums, NewTable, enums') /\ TwoMore(meant, meant[Len(enums)], meant')
  PROVE  ScopesAgree'
<1>1. Tables(enums, meant) /\ Len(enums) \in Nat /\ Len(enums) \in 1..Len(enums)
  BY DEF TypeInv, Tables
<1>0. Opened(enums, meant, k, enums', meant')
  BY <1>1, OpenedFacts
<1>2. Len(enums') = Len(enums) + k
  BY <1>0 DEF Opened
<1>3. ASSUME NEW i \in 1..Len(enums) PROVE Agree(See(enums', i), meant'[i])
  <2>1. See(enums', i) = See(enums, i) /\ meant'[i] = meant[i]
    BY <1>0 DEF Opened
  <2>2. Agree(See(enums, i), meant[i])
    BY DEF ScopesAgree, Agreeing
  <2>. QED
    BY <2>1, <2>2
<1>4. ASSUME NEW i \in Len(enums) + 1..Len(enums) + k PROVE Agree(See(enums', i), meant'[i])
  <2>1. See(enums', i) = See(enums, Len(enums)) /\ meant'[i] = meant[Len(enums)]
    BY <1>0 DEF Opened
  <2>2. Agree(See(enums, Len(enums)), meant[Len(enums)])
    BY <1>1 DEF ScopesAgree, Agreeing
  <2>. QED
    BY <2>1, <2>2
<1>5. \A i \in 1..Len(enums) + k : i \in 1..Len(enums) \/ i \in Len(enums) + 1..Len(enums) + k
  BY <1>1
<1>. QED
  BY <1>2, <1>3, <1>4, <1>5 DEF ScopesAgree, Agreeing

LEMMA AgreeClosed ==
  ASSUME TypeInv, ScopesAgree, NEW k \in Nat, k < Depth, PopScopes(k)
  PROVE  ScopesAgree'
<1>1. Tables(enums, meant) /\ Len(enums) \in Nat /\ k < Len(enums)
  BY DEF TypeInv, Tables, Depth
<1>2. Fewer(enums, k, enums') /\ Fewer(meant, k, meant')
  <2>1. enums' = SubSeq(enums, 1, Len(enums) - k) /\ meant' = SubSeq(meant, 1, Len(enums) - k)
    BY DEF PopScopes, Depth
  <2>. QED
    BY <1>1, <2>1 DEF Fewer, Tables
<1>3. Len(enums') = Len(enums) - k
  BY <1>1, <1>2, ClosedFacts
<1>4. ASSUME NEW i \in 1..Len(enums) - k PROVE Agree(See(enums', i), meant'[i])
  <2>1. See(enums', i) = See(enums, i) /\ meant'[i] = meant[i]
    BY <1>1, <1>2, ClosedSame
  <2>2. i \in 1..Len(enums)
    BY <1>1
  <2>. QED
    BY <2>1, <2>2 DEF ScopesAgree, Agreeing
<1>. QED
  BY <1>3, <1>4 DEF ScopesAgree, Agreeing

\* A result that is right makes a right record of it.
LEMMA RecordRight ==
  ASSUME NEW use \in {"enumerator", "case", "bound", "global", "element"},
         NEW r \in Outcomes, NEW y \in Meant, Right(y, r), last' = Record(use, r, y)
  PROVE  ConstantsRight'
<1>1. last'.thrown = r.thrown /\ last'.value = r.value /\ last'.meaning = y
  BY RecordFacts
<1>. QED
  BY <1>1 DEF ConstantsRight, Right

LEMMA AgreeStep ==
  ASSUME Pitfalls \cap Departures = {}
  PROVE  StackInv /\ ScopesAgree /\ ValuesRight /\ [Next]_vars => ScopesAgree' /\ ValuesRight'
<1>. SUFFICES ASSUME StackInv, ScopesAgree, ValuesRight, [Next]_vars
              PROVE  ScopesAgree' /\ ValuesRight'
  OBVIOUS
<1>. HIDE DEF Ints, Constant
<1>0. TypeInv /\ "unevaluated" \notin Pitfalls /\ "implicit" \notin Pitfalls
  BY DEF StackInv, Departures
<1>1. CASE BeginEnum \/ EndEnum
  <2>1. enums' = enums /\ meant' = meant /\ last' = None
    BY <1>1 DEF BeginEnum, EndEnum
  <2>. QED
    BY <2>1 DEF ScopesAgree, ValuesRight, ConstantsRight
<1>2. CASE OpenScope
  <2>1. enums' = Append(enums, NewTable) /\ meant' = Append(meant, meant[Len(enums)]) /\ last' = None
    BY <1>2 DEF OpenScope, Depth
  <2>2. 1 \in {1, 2} /\ 1 # 2
    OBVIOUS
  <2>3. ScopesAgree'
    BY <1>0, <2>1, <2>2, AgreeOpened
  <2>. QED
    BY <2>1, <2>3 DEF ValuesRight, ConstantsRight
<1>3. CASE CloseScope
  <2>1. PopScopes(1) /\ 1 < Depth /\ 1 \in Nat /\ last' = None
    BY <1>0, <1>3, HereFacts DEF CloseScope
  <2>2. ScopesAgree'
    BY <1>0, <2>1, AgreeClosed
  <2>. QED
    BY <2>1, <2>2 DEF ValuesRight, ConstantsRight
<1>4. CASE EmitCase
  <2>1. PICK e \in Expressions : Admitted(e) /\ last' = Record("case", Evaluate(e), MeaningHere(e))
    BY <1>4, EmitCaseFacts
  <2>2. Right(MeaningHere(e), Evaluate(e)) /\ Evaluate(e) \in Outcomes /\ MeaningHere(e) \in Meant
    BY <1>0, <2>1, HereRight, HereFacts
  <2>3. ConstantsRight'
    BY <2>1, <2>2, RecordRight
  <2>4. enums' = enums /\ meant' = meant
    BY <1>4, EmitCaseFacts
  <2>. QED
    BY <2>3, <2>4 DEF ScopesAgree, ValuesRight
<1>5. CASE EndSwitch
  <2>1. PopScopes(2) /\ 2 \in Nat /\ last' = None
    BY <1>5 DEF EndSwitch
  <2>2. 2 < Depth
    <3>1. InSwitch /\ Depth = Innermost.depth + 2
      BY <1>5 DEF EndSwitch, InBody
    <3>2. Len(switches) \in 1..Len(switches)
      <4>1. Len(switches) \in Nat /\ Len(switches) >= 1
        BY <3>1, SwitchFacts
      <4>. QED
        BY <4>1
    <3>3. switches[Len(switches)].depth \in Nat /\ switches[Len(switches)].depth >= 1
      BY <3>2, SwitchFacts
    <3>. QED
      BY <3>1, <3>3 DEF Innermost
  <2>3. ScopesAgree'
    BY <1>0, <2>1, <2>2, AgreeClosed
  <2>. QED
    BY <2>1, <2>3 DEF ValuesRight, ConstantsRight
<1>6. ASSUME NEW n \in Name, ImplicitEnumerator(n) PROVE ScopesAgree' /\ ValuesRight'
  <2>1. /\ next = 0 /\ phase = "enum" /\ 0 \in Ints /\ next \in Meant /\ AddEnumVal(n, 0, next)
        /\ last' = Record("enumerator", Constant(0), next)
        /\ Constant(0) \in Outcomes /\ Constant(0).value = 0 /\ ~Constant(0).thrown
    BY <1>0, <1>6, ImplicitFacts
  <2>2. ScopesAgree'
    BY <1>0, <2>1, AgreeAdded
  <2>3. Right(next, Constant(0))
    BY <2>1 DEF Right
  <2>4. ConstantsRight'
    BY <2>1, <2>3, RecordRight
  <2>. QED
    BY <2>2, <2>4 DEF ValuesRight
<1>7. ASSUME NEW n \in Name, NEW e \in Expressions, Enumerator(n, e) PROVE ScopesAgree' /\ ValuesRight'
  <2>1. /\ phase = "enum" /\ Admitted(e) /\ last' = Record("enumerator", Evaluate(e), MeaningHere(e))
        /\ Evaluate(e) \in Outcomes /\ MeaningHere(e) \in Meant
        /\ \/ phase' = "aborted" /\ enums' = enums /\ meant' = meant /\ next' = next
           \/ /\ ~Evaluate(e).thrown /\ Evaluate(e).value \in Ints
              /\ AddEnumVal(n, Evaluate(e).value, MeaningHere(e))
    BY <1>0, <1>7, EnumeratorFacts
  <2>2. Right(MeaningHere(e), Evaluate(e))
    BY <1>0, <2>1, HereRight
  <2>3. ConstantsRight'
    BY <2>1, <2>2, RecordRight
  <2>4. CASE enums' = enums /\ meant' = meant
    BY <2>3, <2>4 DEF ScopesAgree, ValuesRight
  <2>5. CASE Evaluate(e).value \in Ints /\ AddEnumVal(n, Evaluate(e).value, MeaningHere(e))
    <3>1. MeaningHere(e) # Undefined => Evaluate(e).value = MeaningHere(e)
      BY <2>2 DEF Right
    <3>2. ScopesAgree'
      BY <1>0, <2>1, <2>5, <3>1, AgreeAdded
    <3>. QED
      BY <2>3, <3>2 DEF ValuesRight
  <2>. QED
    BY <2>1, <2>4, <2>5
<1>8. ASSUME NEW cases \in CaseLists, BeginSwitch(cases) PROVE ScopesAgree' /\ ValuesRight'
  <2>1. cases \in Seq(Expressions) /\ \A i \in DOMAIN cases : Admitted(cases[i]) /\ cases[i] \in Expressions
    BY <1>8, BeginSwitchFacts
  <2>2. CASE /\ enums' = enums /\ meant' = meant
             /\ \E i \in DOMAIN cases :
                  Evaluate(cases[i]).thrown /\ last' = Record("case", Thrown, MeaningHere(cases[i]))
    <3>1. PICK i \in DOMAIN cases :
            Evaluate(cases[i]).thrown /\ last' = Record("case", Thrown, MeaningHere(cases[i]))
      BY <2>2
    <3>2. Right(MeaningHere(cases[i]), Evaluate(cases[i])) /\ MeaningHere(cases[i]) \in Meant
      BY <1>0, <2>1, HereRight, HereFacts
    <3>3. Right(MeaningHere(cases[i]), Thrown) /\ Thrown \in Outcomes
      BY <3>1, <3>2, ConstantFacts DEF Right
    <3>4. ConstantsRight'
      BY <3>1, <3>2, <3>3, RecordRight
    <3>. QED
      BY <2>2, <3>4 DEF ScopesAgree, ValuesRight
  <2>3. CASE /\ last' = None
             /\ enums' = enums \o <<NewTable, NewTable>>
             /\ meant' = meant \o <<meant[Depth], meant[Depth]>>
    <3>1. TwoMore(enums, NewTable, enums') /\ TwoMore(meant, meant[Len(enums)], meant')
      BY <2>3, Zenon DEF TwoMore, Depth
    <3>2. 2 \in {1, 2} /\ 2 # 1
      OBVIOUS
    <3>3. ScopesAgree'
      BY <1>0, <3>1, <3>2, AgreeOpened
    <3>. QED
      BY <2>3, <3>3 DEF ValuesRight, ConstantsRight
  <2>. QED
    BY <1>8, <2>2, <2>3, BeginSwitchFacts
<1>9. ASSUME NEW e \in Expressions, InPlace(e) PROVE ScopesAgree' /\ ValuesRight'
  <2>1. /\ enums' = enums /\ meant' = meant
        /\ \/ AdmittedAs("bound", e) /\ last' = Record("bound", Constant(GetValue(e)), MeaningHere(e))
           \/ AdmittedAs("global", e) /\ last' = Record("global", Constant(NodeGetValue), MeaningHere(e))
           \/ AdmittedAs("element", e) /\ last' = Record("element", Constant(GetConst(e)), MeaningHere(e))
    BY <1>9, InPlaceFacts
  <2>2. /\ MeaningHere(e) \in Meant
        /\ Constant(GetValue(e)) \in Outcomes /\ Constant(GetConst(e)) \in Outcomes
        /\ Constant(NodeGetValue) \in Outcomes
    BY <1>0, HereFacts, RootFacts
  <2>3. CASE AdmittedAs("bound", e) /\ last' = Record("bound", Constant(GetValue(e)), MeaningHere(e))
    <3>1. Root(e).kind = "constant"
      BY <1>0, <2>3 DEF AdmittedAs
    <3>2. Right(MeaningHere(e), Constant(GetValue(e)))
      BY <1>0, <3>1, LiteralRight
    <3>3. ConstantsRight'
      BY <2>2, <2>3, <3>2, RecordRight
    <3>. QED
      BY <2>1, <3>3 DEF ScopesAgree, ValuesRight
  <2>4. CASE AdmittedAs("element", e) /\ last' = Record("element", Constant(GetConst(e)), MeaningHere(e))
    <3>1. Root(e).kind = "constant" /\ Root(e).class = "int"
      BY <1>0, <2>4 DEF AdmittedAs
    <3>2. Right(MeaningHere(e), Constant(GetConst(e)))
      BY <1>0, <3>1, LiteralRight
    <3>3. ConstantsRight'
      BY <2>2, <2>4, <3>2, RecordRight
    <3>. QED
      BY <2>1, <3>3 DEF ScopesAgree, ValuesRight
  <2>5. CASE AdmittedAs("global", e) /\ last' = Record("global", Constant(NodeGetValue), MeaningHere(e))
    <3>1. SUFFICES ASSUME "initialised" \notin Pitfalls PROVE ConstantsRight'
      BY <2>1 DEF ScopesAgree, ValuesRight
    <3>2. MeaningHere(e) \in {0, Undefined}
      BY <2>5, <3>1 DEF AdmittedAs
    <3>3. ~Constant(0).thrown /\ Constant(0).value = 0
      <4>1. 0 \in Ints
        BY WrapFacts
      <4>. QED
        BY <4>1, ConstantFacts, WrapFacts
    <3>4. Right(MeaningHere(e), Constant(NodeGetValue))
      BY <3>2, <3>3 DEF Right, NodeGetValue
    <3>. QED
      BY <2>2, <2>5, <3>4, RecordRight
  <2>. QED
    BY <2>1, <2>3, <2>4, <2>5
<1>10. CASE UNCHANGED vars
  BY <1>10 DEF vars, ScopesAgree, ValuesRight, ConstantsRight
<1>. QED
  BY <1>1, <1>2, <1>3, <1>4, <1>5, <1>6, <1>7, <1>8, <1>9, <1>10, NextCases

\* Whatever enumerators are defined by and in whatever scopes, blocks and
\* switches they stand, enum_stack has in every open scope the names C has
\* there, with C's values: for programs that use only constants whose classes
\* evaluate themselves, give every enumerator but a first 0 a value, and have
\* no && or || that the code cannot evaluate and C need not.
THEOREM EnumeratorsAlwaysRight ==
  ASSUME Pitfalls \cap Departures = {}
  PROVE  Spec => []EnumeratorsRight
<1>1. ScopesAgree => EnumeratorsRight
  BY EnumeratorsRightIsAgreeing DEF ScopesAgree
<1>2. Init => StackInv /\ ScopesAgree /\ ValuesRight
  BY StackStart, AgreeStart DEF ValuesRight
<1>3. /\ StackInv /\ ScopesAgree /\ ValuesRight /\ [Next]_vars
      => StackInv' /\ ScopesAgree' /\ ValuesRight'
  BY StackStep, AgreeStep
<1>. QED
  BY <1>1, <1>2, <1>3, PTL DEF Spec

\* For the same programs, as long as no global initialiser stands for another
\* value than the 0 the code writes: every constant the code evaluates is the
\* one C prescribes, and the code throws on none that C defines.
THEOREM ConstantsAlwaysRight ==
  ASSUME Pitfalls \cap Departures = {}, "initialised" \notin Pitfalls
  PROVE  Spec => []ConstantsRight
<1>1. Init => StackInv /\ ScopesAgree /\ ValuesRight
  BY StackStart, AgreeStart DEF ValuesRight
<1>2. /\ StackInv /\ ScopesAgree /\ ValuesRight /\ [Next]_vars
      => StackInv' /\ ScopesAgree' /\ ValuesRight'
  BY StackStep, AgreeStep
<1>3. ValuesRight => ConstantsRight
  BY DEF ValuesRight
<1>. QED
  BY <1>1, <1>2, <1>3, PTL DEF Spec

-----------------------------------------------------------------------------
(* Labels are found again.                                                 *)

CasesWillBeFound == \A s \in 1..Len(switches) : Finds(switches[s], enums)

\* A switch finds its labels in scopes that show it the same, with fewer cases too.
LEMMA FindsSame ==
  ASSUME NEW w, NEW x, NEW E, NEW F, Finds(w, E), x.depth = w.depth, x.values = w.values,
         \A i \in DOMAIN x.todo : \E j \in DOMAIN w.todo : x.todo[i] = w.todo[j],
         See(F, w.depth + 2) = See(E, w.depth + 2)
  PROVE  Finds(x, F)
<1>. SUFFICES ASSUME NEW i \in DOMAIN x.todo
              PROVE  LET r == EvalConstExpr(x.todo[i], See(F, x.depth + 2))
                     IN  ~r.thrown /\ r.value \in x.values
  BY Zenon DEF Finds
<1>1. PICK j \in DOMAIN w.todo : x.todo[i] = w.todo[j]
  OBVIOUS
<1>2. See(F, x.depth + 2) = See(E, w.depth + 2)
  OBVIOUS
<1>3. LET r == EvalConstExpr(w.todo[j], See(E, w.depth + 2))
      IN  ~r.thrown /\ r.value \in w.values
  BY Zenon DEF Finds
<1>. QED
  BY <1>1, <1>2, <1>3, Zenon

\* No enumerator declared in the body of a switch is mentioned by a case to come.
LEMMA FindsAdded ==
  ASSUME StackInv, CasesWillBeFound, "captured" \notin Pitfalls,
         NEW n \in Name, MayDeclare(n), NEW x \in Ints, NEW y \in Meant, AddEnumVal(n, x, y),
         switches' = switches
  PROVE  CasesWillBeFound'
<1>. HIDE DEF Ints
<1>. SUFFICES ASSUME NEW s \in 1..Len(switches) PROVE Finds(switches[s], enums')
  BY DEF CasesWillBeFound
<1>1. /\ TypeInv /\ phase = "enum" /\ Finds(switches[s], enums)
  BY DEF StackInv, MayDeclare, CasesWillBeFound
<1>2. /\ \A k \in 1..Len(enums) - 1 : enums'[k] = enums[k]
      /\ \/ enums' = enums
         \/ See(enums', Len(enums)) = [See(enums, Len(enums)) EXCEPT ![n] = x]
  BY <1>1, AddedFacts
<1>3. /\ switches[s].depth \in Nat /\ switches[s].depth + 2 <= Depth
      /\ s # Len(switches) => switches[s].depth + 2 <= Innermost.depth
      /\ ~InBody => switches[s].depth + 2 <= Depth - 1
      /\ switches[s].todo \in Seq(Expressions)
  BY SwitchFacts
<1>4. Depth \in Nat /\ Depth = Len(enums) /\ See(enums, Depth) \in Values
  BY <1>1, HereFacts DEF Depth
<1>. DEFINE d == switches[s].depth
<1>8. d \in Nat /\ d + 2 <= Depth /\ Depth \in Nat /\ Depth = Len(enums)
  BY <1>3, <1>4
<1>9. \A i \in DOMAIN switches[s].todo : switches[s].todo[i] \in Expressions
  <2>1. switches[s].todo \in Seq(Expressions)
    BY <1>3
  <2>. QED
    BY <2>1
<1>. HIDE DEF d
<1>5. CASE enums' = enums
  BY <1>1, <1>5
<1>6. CASE d + 2 <= Depth - 1
  <2>1. d + 2 \in Nat /\ \A k \in 1..d + 2 : k \in 1..Len(enums) - 1
    BY <1>8, <1>6
  <2>2. \A k \in 1..d + 2 : enums'[k] = enums[k]
    BY <1>2, <2>1
  <2>3. See(enums', d + 2) = See(enums, d + 2)
    BY <2>1, <2>2, SeeSame
  <2>. QED
    BY <1>1, <2>3, FindsSame DEF d
<1>7. CASE /\ See(enums', Len(enums)) = [See(enums, Len(enums)) EXCEPT ![n] = x]
           /\ ~(d + 2 <= Depth - 1)
  <2>0. d + 2 = Depth
    BY <1>8, <1>7
  <2>1. switches[s].depth + 2 = Depth /\ InBody
    BY <1>3, <1>7, <2>0 DEF d
  <2>2. s = Len(switches)
    <3>1. Innermost.depth + 2 = Depth
      BY <2>1 DEF InBody
    <3>2. CASE s # Len(switches)
      <4>1. d + 2 <= Innermost.depth
        BY <1>3, <3>2 DEF d
      <4>2. Len(switches) \in 1..Len(switches)
        <5>1. Len(switches) \in Nat
          BY SwitchFacts
        <5>. QED
          BY <5>1
      <4>3. Innermost.depth \in Nat
        BY <4>2, SwitchFacts DEF Innermost
      <4>. QED
        BY <1>8, <2>0, <3>1, <4>1, <4>3
    <3>. QED
      BY <3>2
  <2>3. \A i \in DOMAIN switches[s].todo : ~Mentions(switches[s].todo[i], n)
    BY <2>1, <2>2 DEF MayDeclare, Innermost
  <2>. DEFINE v == See(enums, Depth)
              w == See(enums', Depth)
  <2>4. w = [v EXCEPT ![n] = x]
    BY <1>4, <1>7
  <2>5. \A o \in Name \ {n} : w[o] = v[o]
    BY <1>4, <2>4 DEF Values
  <2>. HIDE DEF v, w
  <2>6. ASSUME NEW i \in DOMAIN switches[s].todo
        PROVE  EvalConstExpr(switches[s].todo[i], w) = EvalConstExpr(switches[s].todo[i], v)
    <3>1. switches[s].todo[i] \in Expressions
      BY <1>9
    <3>2. IsExpression(switches[s].todo[i])
      BY <3>1, ConstantAssumption
    <3>3. \A o \in Name : Mentions(switches[s].todo[i], o) => w[o] = v[o]
      BY <2>3, <2>5
    <3>. QED
      BY <3>2, <3>3, EvaluatedDepends
  <2>7. \A i \in DOMAIN switches[s].todo :
          LET r == EvalConstExpr(switches[s].todo[i], v)
          IN  ~r.thrown /\ r.value \in switches[s].values
    BY <1>1, <2>1 DEF Finds, v
  <2>8. \A i \in DOMAIN switches[s].todo :
          LET r == EvalConstExpr(switches[s].todo[i], w)
          IN  ~r.thrown /\ r.value \in switches[s].values
    BY <2>6, <2>7
  <2>. QED
    BY <2>1, <2>8 DEF Finds, w
<1>. QED
  BY <1>2, <1>5, <1>6, <1>7

LEMMA FindsBeginSwitch ==
  ASSUME StackInv, CasesWillBeFound, NEW cases \in CaseLists, BeginSwitch(cases)
  PROVE  CasesWillBeFound'
<1>1. CASE enums' = enums /\ switches' = switches
  BY <1>1 DEF CasesWillBeFound
<1>2. CASE /\ enums' = enums \o <<NewTable, NewTable>>
           /\ meant' = meant \o <<meant[Depth], meant[Depth]>>
           /\ \E w \in SwitchRecords :
                /\ switches' = Append(switches, w) /\ w.depth = Depth /\ w.todo = cases
                /\ \A i \in DOMAIN cases : /\ ~Evaluate(cases[i]).thrown
                                           /\ Evaluate(cases[i]).value \in w.values
  <2>1. PICK w \in SwitchRecords :
          /\ switches' = Append(switches, w) /\ w.depth = Depth /\ w.todo = cases
          /\ \A i \in DOMAIN cases : /\ ~Evaluate(cases[i]).thrown
                                     /\ Evaluate(cases[i]).value \in w.values
    BY <1>2
  <2>2. Opened(enums, meant, 2, enums', meant') /\ Depth \in Nat /\ Depth = Len(enums)
    <3>1. TypeInv
      BY DEF StackInv
    <3>2. Tables(enums, meant) /\ TwoMore(enums, NewTable, enums') /\ TwoMore(meant, meant[Len(enums)], meant')
      BY <1>2, <3>1, Zenon DEF TypeInv, Depth, TwoMore
    <3>. QED
      BY <3>1, <3>2, OpenedFacts, HereFacts DEF Depth
  <2>3. See(enums', w.depth + 2) = See(enums, Depth)
    <3>1. Depth + 2 \in Len(enums) + 1..Len(enums) + 2
      BY <2>2
    <3>. QED
      BY <2>1, <2>2, <3>1 DEF Opened
  <2>4. Visible(Depth) = See(enums, Depth)
    BY VisibleIsSee
  <2>5. Finds(w, enums')
    BY <2>1, <2>3, <2>4 DEF Finds, Evaluate
  <2>6. switches \in Seq(SwitchRecords) /\ Len(switches) \in Nat
    BY SwitchFacts
  <2>7. /\ Len(switches') = Len(switches) + 1 /\ switches'[Len(switches) + 1] = w
        /\ \A s \in 1..Len(switches) : switches'[s] = switches[s]
    BY <2>1, <2>6, PushFacts
  <2>8. ASSUME NEW s \in 1..Len(switches) PROVE Finds(switches'[s], enums')
    <3>1. switches[s].depth \in Nat /\ switches[s].depth + 2 <= Depth
      BY SwitchFacts
    <3>2. switches[s].depth + 2 \in 1..Len(enums)
      BY <2>2, <3>1
    <3>3. See(enums', switches[s].depth + 2) = See(enums, switches[s].depth + 2)
      BY <2>2, <3>2 DEF Opened
    <3>4. Finds(switches[s], enums')
      BY <3>3, FindsSame DEF CasesWillBeFound
    <3>. QED
      BY <2>7, <3>4
  <2>9. \A s \in 1..Len(switches') : s \in 1..Len(switches) \/ s = Len(switches) + 1
    BY <2>6, <2>7
  <2>. QED
    BY <2>5, <2>7, <2>8, <2>9 DEF CasesWillBeFound
<1>. QED
  BY <1>1, <1>2, BeginSwitchFacts

LEMMA PopSeesSame ==
  ASSUME TypeInv, NEW k \in Nat, k < Depth, PopScopes(k), NEW i \in 1..Len(enums) - k
  PROVE  See(enums', i) = See(enums, i)
<1>1. Tables(enums, meant) /\ Len(enums) \in Nat /\ k < Len(enums)
  BY DEF TypeInv, Tables, Depth
<1>2. Fewer(enums, k, enums') /\ Fewer(meant, k, meant')
  <2>1. enums' = SubSeq(enums, 1, Len(enums) - k) /\ meant' = SubSeq(meant, 1, Len(enums) - k)
    BY DEF PopScopes, Depth
  <2>. QED
    BY <1>1, <2>1 DEF Fewer, Tables
<1>. QED
  BY <1>1, <1>2, ClosedSame

LEMMA FindsClosed ==
  ASSUME StackInv, CasesWillBeFound, NEW k \in Nat, k < Depth, PopScopes(k),
         NEW s \in 1..Len(switches), switches[s].depth + 2 <= Depth - k
  PROVE  Finds(switches[s], enums')
<1>1. TypeInv /\ Len(enums) \in Nat /\ k < Len(enums)
  BY DEF StackInv, TypeInv, Tables, Depth
<1>2. switches[s].depth \in Nat
  BY SwitchFacts
<1>3. switches[s].depth + 2 \in 1..Len(enums) - k
  BY <1>1, <1>2 DEF Depth
<1>4. See(enums', switches[s].depth + 2) = See(enums, switches[s].depth + 2)
  BY <1>1, <1>3, PopSeesSame
<1>. QED
  BY <1>4, FindsSame DEF CasesWillBeFound

LEMMA FindsOpened ==
  ASSUME StackInv, CasesWillBeFound, OpenScope
  PROVE  CasesWillBeFound'
<1>1. /\ switches' = switches /\ enums' = Append(enums, NewTable)
      /\ meant' = Append(meant, meant[Len(enums)])
  BY DEF OpenScope, Depth
<1>2. Opened(enums, meant, 1, enums', meant')
  <2>1. Tables(enums, meant) /\ 1 \in {1, 2} /\ 1 # 2
    BY DEF StackInv, TypeInv
  <2>. QED
    BY <1>1, <2>1, OpenedFacts
<1>3. ASSUME NEW s \in 1..Len(switches) PROVE Finds(switches[s], enums')
  <2>1. switches[s].depth \in Nat /\ switches[s].depth + 2 <= Len(enums) /\ Len(enums) \in Nat
    <3>1. switches[s].depth \in Nat /\ switches[s].depth + 2 <= Depth
      BY SwitchFacts
    <3>2. Depth \in Nat
      BY HereFacts DEF StackInv
    <3>. QED
      BY <3>1, <3>2 DEF Depth
  <2>2. switches[s].depth + 2 \in 1..Len(enums)
    BY <2>1
  <2>3. See(enums', switches[s].depth + 2) = See(enums, switches[s].depth + 2)
    BY <1>2, <2>2 DEF Opened
  <2>. QED
    BY <2>3, FindsSame DEF CasesWillBeFound
<1>. QED
  BY <1>1, <1>3 DEF CasesWillBeFound

LEMMA FindsStep ==
  ASSUME "captured" \notin Pitfalls
  PROVE  StackInv /\ CasesWillBeFound /\ [Next]_vars => CasesWillBeFound'
<1>. SUFFICES ASSUME StackInv, CasesWillBeFound, [Next]_vars PROVE CasesWillBeFound'
  OBVIOUS
<1>. HIDE DEF Ints
<1>0. TypeInv
  BY DEF StackInv
<1>1. CASE enums' = enums /\ switches' = switches
  BY <1>1 DEF CasesWillBeFound
<1>2. CASE BeginEnum \/ EndEnum
  BY <1>1, <1>2 DEF BeginEnum, EndEnum
<1>3. CASE OpenScope
  BY <1>3, FindsOpened
<1>4. CASE CloseScope
  <2>1. PopScopes(1) /\ 1 < Depth /\ 1 \in Nat /\ switches' = switches
    BY <1>0, <1>4, HereFacts DEF CloseScope
  <2>2. \A s \in 1..Len(switches) : switches[s].depth + 2 <= Depth - 1
    BY <1>4, CloseScopeFacts
  <2>3. \A s \in 1..Len(switches) : Finds(switches[s], enums')
    BY <2>1, <2>2, FindsClosed
  <2>. QED
    BY <2>1, <2>3 DEF CasesWillBeFound
<1>5. CASE EndSwitch
  <2>1. \A s \in 1..Len(switches') : /\ s \in 1..Len(switches) /\ switches'[s] = switches[s]
                                     /\ switches[s].depth + 2 <= Depth - 2
    BY <1>5, EndSwitchFacts
  <2>2. PopScopes(2) /\ 2 \in Nat
    BY <1>5 DEF EndSwitch
  <2>3. 2 < Depth
    <3>1. StackInv' /\ Len(enums') = Depth - 2
      BY <1>5, EndSwitchFacts
    <3>2. Len(enums') >= 1
      BY <3>1 DEF StackInv, TypeInv, Tables
    <3>. QED
      BY <1>0, <3>1, <3>2, HereFacts
  <2>4. \A s \in 1..Len(switches') : Finds(switches'[s], enums')
    BY <2>1, <2>2, <2>3, FindsClosed
  <2>. QED
    BY <2>4 DEF CasesWillBeFound
<1>6. CASE EmitCase
  <2>1. /\ enums' = enums /\ Len(switches') = Len(switches)
        /\ \A s \in 1..Len(switches) :
              /\ switches'[s].depth = switches[s].depth /\ switches'[s].values = switches[s].values
              /\ \A i \in DOMAIN switches'[s].todo :
                   \E j \in DOMAIN switches[s].todo : switches'[s].todo[i] = switches[s].todo[j]
    BY <1>6, EmitCaseFacts
  <2>2. ASSUME NEW s \in 1..Len(switches) PROVE Finds(switches'[s], enums')
    <3>1. Finds(switches[s], enums) /\ See(enums', switches[s].depth + 2) = See(enums, switches[s].depth + 2)
      BY <2>1 DEF CasesWillBeFound
    <3>. QED
      BY <2>1, <3>1, FindsSame
  <2>. QED
    BY <2>1, <2>2 DEF CasesWillBeFound
<1>7. ASSUME NEW n \in Name, ImplicitEnumerator(n) PROVE CasesWillBeFound'
  BY <1>0, <1>7, ImplicitFacts, FindsAdded
<1>8. ASSUME NEW n \in Name, NEW e \in Expressions, Enumerator(n, e) PROVE CasesWillBeFound'
  BY <1>0, <1>1, <1>8, EnumeratorFacts, FindsAdded
<1>9. ASSUME NEW cases \in CaseLists, BeginSwitch(cases) PROVE CasesWillBeFound'
  BY <1>9, FindsBeginSwitch
<1>10. ASSUME NEW e \in Expressions, InPlace(e) PROVE CasesWillBeFound'
  BY <1>1, <1>10, InPlaceFacts
<1>11. CASE UNCHANGED vars
  BY <1>1, <1>11 DEF vars
<1>. QED
  BY <1>2, <1>3, <1>4, <1>5, <1>6, <1>7, <1>8, <1>9, <1>10, <1>11, NextCases

\* A label that getCases entered before the scopes of its switch is found again
\* when its case is emitted inside them: always, unless an enumerator declared
\* in the body itself captures a name of a label.  This needs nothing of what
\* the labels are worth: ?:, && and enumerators without a value are covered.
THEOREM CasesAlwaysFound ==
  ASSUME "captured" \notin Pitfalls
  PROVE  Spec => []CasesFound
<1>1. StackInv /\ CasesWillBeFound => CasesFound
  BY CasesFoundIsFinds DEF StackInv, CasesWillBeFound
<1>2. Init => StackInv /\ CasesWillBeFound
  <2>1. Init => Len(switches) = 0
    BY DEF Init
  <2>. QED
    BY <2>1, StackStart DEF CasesWillBeFound
<1>3. StackInv /\ CasesWillBeFound /\ [Next]_vars => StackInv' /\ CasesWillBeFound'
  BY StackStep, FindsStep
<1>. QED
  BY <1>1, <1>2, <1>3, PTL DEF Spec

=============================================================================
