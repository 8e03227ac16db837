-------------------------- MODULE ExpressionsProofs --------------------------
(***************************************************************************)
(* Proofs that an expression, whatever its shape and whatever the state of *)
(* the Context, leaves the Context as the next statement expects it, that  *)
(* every jump of its code has one target, that it stores to variables or   *)
(* below them, and that the machine runs its code with sp and s0 the ends  *)
(* of the frame and does not leave it but by the return.                   *)
(*                                                                         *)
(* These do not go through on their own: the operands of an emitter are    *)
(* emitted into registers it chose, in the middle of its own code, so      *)
(* what is proved of a node is a contract, Emits, between the Context      *)
(* before and after it, for every register and every Context.  Each        *)
(* emitter is shown to keep it if its operands do; the height of a node    *)
(* does the rest (EmissionsKeepTheContract).  IInv is that contract for    *)
(* the function around the expression, and MInv adds what the machine      *)
(* keeps while it runs such code.                                          *)
(***************************************************************************)
EXTENDS Expressions, DataLemmas

-----------------------------------------------------------------------------
(***************************************************************************)
(* Code as a sequence                                                      *)
(***************************************************************************)
IsCode(s) == \E S : s \in Seq(S)

Prefix(s, t) == Len(s) <= Len(t) /\ \A k \in 1 .. Len(s) : t[k] = s[k]
New(s, t)    == {t[k] : k \in Len(s) + 1 .. Len(t)}

Labels(code)   == {i[2] : i \in {j \in Members(code) : j[1] = "label"}}
Distinct(code) ==
  \A j, k \in DOMAIN code : code[j][1] = "label" /\ code[k][1] = "label" /\ code[j][2] = code[k][2] => j = k

\* Code is a sequence: it has a length.
LEMMA CodeFacts ==
  ASSUME NEW s, IsCode(s)
  PROVE  Len(s) \in Nat /\ DOMAIN s = 1 .. Len(s)
BY DEF IsCode

\* Put appends: what was written stays where it was.
LEMMA ConcatFacts ==
  ASSUME NEW s, NEW t, IsCode(s), IsCode(t)
  PROVE  /\ IsCode(s \o t)
         /\ Len(s \o t) = Len(s) + Len(t)
         /\ \A k \in 1 .. Len(s) : (s \o t)[k] = s[k]
         /\ \A k \in 1 .. Len(t) : (s \o t)[Len(s) + k] = t[k]
<1>1. PICK S : s \in Seq(S)
  BY DEF IsCode
<1>2. PICK T : t \in Seq(T)
  BY DEF IsCode
<1>3. s \in Seq(S \cup T) /\ t \in Seq(S \cup T)
  BY <1>1, <1>2
<1>4. s \o t \in Seq(S \cup T)
  BY <1>3
<1>. QED
  BY <1>3, <1>4 DEF IsCode

\* What is new after an instruction sequence is appended are its instructions.
LEMMA ConcatPrefix ==
  ASSUME NEW s, NEW t, IsCode(s), IsCode(t)
  PROVE  Prefix(s, s \o t) /\ New(s, s \o t) = Members(t)
<1>1. Len(s) \in Nat /\ Len(t) \in Nat /\ DOMAIN t = 1 .. Len(t)
  BY CodeFacts
<1>2. /\ Len(s \o t) = Len(s) + Len(t)
      /\ \A k \in 1 .. Len(s) : (s \o t)[k] = s[k]
      /\ \A k \in 1 .. Len(t) : (s \o t)[Len(s) + k] = t[k]
  BY ConcatFacts
<1>3. Prefix(s, s \o t)
  BY <1>1, <1>2 DEF Prefix
<1>4. ASSUME NEW k \in Len(s) + 1 .. Len(s) + Len(t)
      PROVE  k - Len(s) \in 1 .. Len(t) /\ (s \o t)[k] = t[k - Len(s)]
  <2>1. k - Len(s) \in 1 .. Len(t) /\ Len(s) + (k - Len(s)) = k
    BY <1>1
  <2>. QED
    BY <2>1, <1>2
<1>5. ASSUME NEW k \in 1 .. Len(t)
      PROVE  Len(s) + k \in Len(s) + 1 .. Len(s) + Len(t) /\ (s \o t)[Len(s) + k] = t[k]
  BY <1>1, <1>2
<1>6. New(s, s \o t) = {(s \o t)[k] : k \in Len(s) + 1 .. Len(s) + Len(t)}
  BY <1>2 DEF New
<1>7. New(s, s \o t) = Members(t)
  BY <1>1, <1>4, <1>5, <1>6 DEF Members
<1>. QED
  BY <1>3, <1>7

\* What is added in two turns is what is added in each.
LEMMA PrefixTrans ==
  ASSUME NEW s, NEW t, NEW u, IsCode(s), IsCode(t), IsCode(u), Prefix(s, t), Prefix(t, u)
  PROVE  Prefix(s, u) /\ New(s, u) = New(s, t) \cup New(t, u)
<1>1. Len(s) \in Nat /\ Len(t) \in Nat /\ Len(u) \in Nat
  BY CodeFacts
<1>2. Prefix(s, u)
  BY <1>1 DEF Prefix
<1>3. Len(s) <= Len(t) /\ Len(t) <= Len(u)
  BY DEF Prefix
<1>4. ASSUME NEW k \in Len(s) + 1 .. Len(t) PROVE u[k] = t[k] /\ k \in Len(s) + 1 .. Len(u)
  BY <1>1, <1>3 DEF Prefix
<1>5. ASSUME NEW k \in Len(s) + 1 .. Len(u)
      PROVE  k \in Len(s) + 1 .. Len(t) \/ k \in Len(t) + 1 .. Len(u)
  BY <1>1, <1>3
<1>6. ASSUME NEW k \in Len(t) + 1 .. Len(u) PROVE k \in Len(s) + 1 .. Len(u)
  BY <1>1, <1>3
<1>7. New(s, u) \subseteq New(s, t) \cup New(t, u)
  BY <1>4, <1>5 DEF New
<1>8. New(s, t) \subseteq New(s, u)
  BY <1>4 DEF New
<1>9. New(t, u) \subseteq New(s, u)
  BY <1>6 DEF New
<1>. QED
  BY <1>2, <1>7, <1>8, <1>9

\* The instructions of two pieces of code one after the other.
LEMMA ConcatMembers ==
  ASSUME NEW s, NEW t, IsCode(s), IsCode(t)
  PROVE  Members(s \o t) = Members(s) \cup Members(t)
<1>1. Len(s) \in Nat /\ Len(t) \in Nat /\ DOMAIN s = 1 .. Len(s) /\ DOMAIN t = 1 .. Len(t)
  BY CodeFacts
<1>2. Len(s \o t) = Len(s) + Len(t) /\ DOMAIN (s \o t) = 1 .. Len(s) + Len(t)
  BY ConcatFacts, CodeFacts
<1>3. Prefix(s, s \o t) /\ New(s, s \o t) = Members(t)
  BY ConcatPrefix
<1>4. ASSUME NEW k \in 1 .. Len(s) PROVE (s \o t)[k] = s[k] /\ k \in 1 .. Len(s) + Len(t)
  BY <1>1, <1>3 DEF Prefix
<1>5. ASSUME NEW k \in Len(s) + 1 .. Len(s) + Len(t) PROVE k \in 1 .. Len(s) + Len(t)
  BY <1>1
<1>6. ASSUME NEW k \in 1 .. Len(s) + Len(t)
      PROVE  k \in 1 .. Len(s) \/ k \in Len(s) + 1 .. Len(s) + Len(t)
  BY <1>1
<1>7. Members(s) \subseteq Members(s \o t)
  BY <1>1, <1>2, <1>4 DEF Members
<1>8. Members(t) \subseteq Members(s \o t)
  BY <1>2, <1>3, <1>5 DEF Members, New
<1>9. Members(s \o t) \subseteq Members(s) \cup Members(t)
  BY <1>1, <1>2, <1>3, <1>4, <1>6 DEF Members, New
<1>. QED
  BY <1>7, <1>8, <1>9

\* The labels defined and used by two pieces of code one after the other.
LEMMA ConcatLabels ==
  ASSUME NEW s, NEW t, IsCode(s), IsCode(t)
  PROVE  Labels(s \o t) = Labels(s) \cup Labels(t)
BY ConcatMembers DEF Labels

\* The labels used, by instruction.
LEMMA UsesMembers ==
  ASSUME NEW s
  PROVE  Uses(s) = {i[Len(i)] : i \in {j \in Members(s) : j[1] \in Jumps}}
BY DEF Uses, Members

\* The labels used by two pieces of code one after the other.
LEMMA ConcatUses ==
  ASSUME NEW s, NEW t, IsCode(s), IsCode(t)
  PROVE  Uses(s \o t) = Uses(s) \cup Uses(t)
BY ConcatMembers, UsesMembers

\* Pieces of code that define different labels can follow each other.
LEMMA ConcatDistinct ==
  ASSUME NEW s, NEW t, IsCode(s), IsCode(t), Distinct(s), Distinct(t), Labels(s) \cap Labels(t) = {}
  PROVE  Distinct(s \o t)
<1>1. Len(s) \in Nat /\ Len(t) \in Nat /\ DOMAIN s = 1 .. Len(s) /\ DOMAIN t = 1 .. Len(t)
  BY CodeFacts
<1>2. DOMAIN (s \o t) = 1 .. Len(s) + Len(t)
  BY ConcatFacts, CodeFacts
<1>3. ASSUME NEW k \in 1 .. Len(s) + Len(t)
      PROVE  \/ k \in DOMAIN s /\ (s \o t)[k] = s[k]
             \/ k - Len(s) \in DOMAIN t /\ (s \o t)[k] = t[k - Len(s)]
  <2>1. k \in 1 .. Len(s) \/ (k - Len(s) \in 1 .. Len(t) /\ Len(s) + (k - Len(s)) = k)
    BY <1>1
  <2>. QED
    BY <1>1, <2>1, ConcatFacts
<1>4. ASSUME NEW j \in DOMAIN s, NEW k \in DOMAIN t, s[j][1] = "label", t[k][1] = "label", s[j][2] = t[k][2]
      PROVE  FALSE
  <2>1. s[j][2] \in Labels(s) /\ t[k][2] \in Labels(t)
    BY <1>4 DEF Labels, Members
  <2>. QED
    BY <1>4, <2>1
<1>5. SUFFICES ASSUME NEW j \in 1 .. Len(s) + Len(t), NEW k \in 1 .. Len(s) + Len(t),
                      (s \o t)[j][1] = "label", (s \o t)[k][1] = "label", (s \o t)[j][2] = (s \o t)[k][2]
               PROVE  j = k
  BY <1>2 DEF Distinct
<1>6. CASE j \in DOMAIN s /\ (s \o t)[j] = s[j]
  <2>1. k \in DOMAIN s /\ (s \o t)[k] = s[k]
    BY <1>3, <1>4, <1>5, <1>6
  <2>. QED
    BY <1>5, <1>6, <2>1 DEF Distinct
<1>7. CASE j - Len(s) \in DOMAIN t /\ (s \o t)[j] = t[j - Len(s)]
  <2>1. k - Len(s) \in DOMAIN t /\ (s \o t)[k] = t[k - Len(s)]
    BY <1>3, <1>4, <1>5, <1>7
  <2>2. j - Len(s) = k - Len(s)
    BY <1>5, <1>7, <2>1 DEF Distinct
  <2>. QED
    BY <1>1, <2>2
<1>. QED
  BY <1>3, <1>6, <1>7

(***************************************************************************)
(* The contract of an emission                                             *)
(***************************************************************************)
Temporaries == Members(Temps) \cup Members(FTemps)
ArgRegs     == Members(Args) \cup Members(FArgs)
LabelPrefixes    == {".L", "L"}

\* A store writes a number of bytes.
LEMMA Units == \A m \in Stores : Unit[m] \in Nat
BY DEF Stores, Unit

\* What lies below a lower stack pointer lies below a higher one.
LEMMA ParkedEarlier ==
  ASSUME NEW m \in Stores, NEW s \in Int, NEW n \in Nat, NEW x \in -FrameBytes .. (s - n) - Unit[m]
  PROVE  x \in -FrameBytes .. s - Unit[m]
BY Units, FrameAssumption

\* The labels made so far.
Made(c) == {l \in LabelPrefixes \X Nat : 1 <= l[2] /\ l[2] <= c.labels[l[1]]}

Fields == {"code", "syms", "sp", "busy", "reg", "type", "leftOp", "arrayIndex", "currentPointer",
           "labels", "consts", "thrown"}

\* A Context a compilation can be in: each label in the code was made, and is
\* defined once.
IsContext(c) ==
  /\ DOMAIN c = Fields
  /\ IsCode(c.code)
  /\ c.sp \in Int
  /\ c.labels \in [LabelPrefixes -> Nat]
  /\ c.thrown \in BOOLEAN
  /\ c.thrown \/ (Distinct(c.code) /\ Labels(c.code) \subseteq Made(c))

\* The register instruction i writes; what a call does to ra and to the
\* temporaries is the business of its caller.
Clobbers(i) == IF i[1] \in Stores \cup Jumps \cup {"label", "call", "ret"} THEN {} ELSE {i[2]}

\* Between a and b the only temporaries and registers of the caller that are
\* written are temporaries free in a and those of D, s0 is the base of stores to
\* variables and to the frame below stack_frame_pointer alone, and nothing returns.
StoresInPlace(i, D, a) ==
  i[1] \in Stores /\ i[4] = "s0" =>
    \/ "s0" \in D
    \/ \E x \in DOMAIN a.syms : WritesVariable(i, a.syms[x])
    \/ i[3] \in -FrameBytes .. a.sp - Unit[i[1]]
Tame(i, D, a) ==
  /\ i[1] # "ret"
  /\ Clobbers(i) \cap ((a.busy \cap Temporaries) \cup FrameRegs) \subseteq D
  /\ StoresInPlace(i, D, a)
Writes(a, b, D) ==
  Prefix(a.code, b.code) /\ \A i \in New(a.code, b.code) : Tame(i, D, a)

\* Flags, stack pointer and names are as before, but for n bytes that are
\* parked, and registers but for those of S, which are borrowed, and others
\* that leak.
Restores(a, b, S, n, leak) ==
  /\ b.sp = a.sp - n /\ b.syms = a.syms
  /\ b.leftOp => a.leftOp
  /\ b.arrayIndex => a.arrayIndex
  /\ b.currentPointer => a.currentPointer
  /\ leak \/ b.busy \subseteq a.busy \cup S
  /\ a.busy \cap Temporaries \subseteq b.busy
  /\ S \cap ((a.busy \cap Temporaries) \cup FrameRegs) = {}

\* New labels are made for the code, and every jump in it has its target,
\* but for the labels of P, which are still to be placed.
Labelled(a, b, P) ==
  /\ Made(a) \subseteq Made(b)
  /\ Labels(a.code) \subseteq Labels(b.code)
  /\ \A l \in Labels(b.code) : l \in Labels(a.code) \/ l \notin Made(a)
  /\ P \subseteq Made(b)
  /\ P \cap (Made(a) \cup Labels(b.code)) = {}
  /\ Uses(b.code) \subseteq Uses(a.code) \cup Labels(b.code) \cup P

\* From a to b, or the compilation ends with an exception.
Emitting(a, b, D, P, S, n, leak) ==
  /\ IsContext(b)
  /\ b.thrown \/ (~a.thrown /\ Restores(a, b, S, n, leak) /\ Writes(a, b, D) /\ Labelled(a, b, P))

\* What an emission is to keep: nothing is left to place, borrowed or parked.
Emits(a, b, D, leak) == Emitting(a, b, D, {}, {}, 0, leak)

\* An instruction that spares what was in use later spares what was in use
\* before.
LEMMA TameTrans ==
  ASSUME NEW a, NEW b, NEW i, NEW D, NEW S, NEW n \in Nat, NEW leak,
         IsContext(a), IsContext(b), Restores(a, b, S, n, leak), Tame(i, D, b)
  PROVE  Tame(i, D, a)
<1>1. a.busy \cap Temporaries \subseteq b.busy /\ b.sp = a.sp - n /\ b.syms = a.syms
  BY DEF Restores
<1>2. i[1] # "ret" /\ Clobbers(i) \cap ((a.busy \cap Temporaries) \cup FrameRegs) \subseteq D
  BY <1>1 DEF Tame
<1>3. StoresInPlace(i, D, b)
  BY DEF Tame
<1>4. StoresInPlace(i, D, a)
  <2>1. CASE i[1] \in Stores /\ i[3] \in -FrameBytes .. b.sp - Unit[i[1]]
    <3>1. i[3] \in -FrameBytes .. a.sp - Unit[i[1]]
      BY <1>1, <2>1, ParkedEarlier DEF IsContext
    <3>. QED
      BY <2>1, <3>1 DEF StoresInPlace
  <2>. QED
    BY <1>1, <1>3, <2>1 DEF StoresInPlace
<1>. QED
  BY <1>2, <1>4 DEF Tame

\* An emission in the course of another one.
LEMMA EmittingThen ==
  ASSUME NEW a, NEW b, NEW c, NEW D, NEW C, NEW P, NEW S, NEW n \in Nat, NEW leak,
         IsContext(a), Emitting(a, b, D, P, S, n, leak), Emits(b, c, C, leak), C \subseteq D
  PROVE  Emitting(a, c, D, P, S, n, leak)
<1>. SUFFICES ASSUME ~c.thrown
              PROVE  ~a.thrown /\ Restores(a, c, S, n, leak) /\ Writes(a, c, D) /\ Labelled(a, c, P)
  BY DEF Emitting, Emits
<1>1. /\ ~b.thrown /\ ~a.thrown
      /\ Restores(a, b, S, n, leak) /\ Writes(a, b, D) /\ Labelled(a, b, P)
      /\ Restores(b, c, {}, 0, leak) /\ Writes(b, c, C) /\ Labelled(b, c, {})
  BY DEF Emitting, Emits
<1>2. Restores(a, c, S, n, leak)
  <2>1. a.sp \in Int /\ b.sp \in Int /\ c.sp \in Int
    BY DEF Emitting, Emits, IsContext
  <2>. QED
    BY <1>1, <2>1 DEF Restores
<1>3. Writes(a, c, D)
  <2>1. IsCode(a.code) /\ IsCode(b.code) /\ IsCode(c.code) /\ IsContext(b)
    BY DEF Emitting, Emits, IsContext
  <2>2. Prefix(a.code, c.code) /\ New(a.code, c.code) = New(a.code, b.code) \cup New(b.code, c.code)
    BY <1>1, <2>1, PrefixTrans DEF Writes
  <2>3. ASSUME NEW i \in New(b.code, c.code) PROVE Tame(i, D, a)
    <3>1. Tame(i, C, b)
      BY <1>1 DEF Writes
    <3>2. Tame(i, D, b)
      BY <3>1 DEF Tame, StoresInPlace
    <3>. QED
      BY <1>1, <2>1, <3>2, TameTrans
  <2>. QED
    BY <1>1, <2>2, <2>3 DEF Writes
<1>4. Labelled(a, c, P)
  <2>. DEFINE U == Uses(a.code)  V == Uses(b.code)  W == Uses(c.code)
              J == Labels(a.code) K == Labels(b.code) L == Labels(c.code)
              M == Made(a) N == Made(b) O == Made(c)
  <2>1. /\ M \subseteq N /\ J \subseteq K /\ P \subseteq N /\ P \cap (M \cup K) = {}
        /\ V \subseteq U \cup K \cup P
        /\ \A l \in K : l \in J \/ l \notin M
    BY <1>1 DEF Labelled
  <2>2. /\ N \subseteq O /\ K \subseteq L
        /\ W \subseteq V \cup L \cup {}
        /\ \A l \in L : l \in K \/ l \notin N
    BY <1>1 DEF Labelled
  <2>. HIDE DEF U, V, W, J, K, L, M, N, O
  <2>3. /\ M \subseteq O /\ J \subseteq L /\ P \subseteq O /\ P \cap (M \cup L) = {}
        /\ W \subseteq U \cup L \cup P
        /\ \A l \in L : l \in J \/ l \notin M
    BY <2>1, <2>2
  <2>. QED
    BY <2>3 DEF Labelled, U, V, W, J, K, L, M, N, O
<1>. QED
  BY <1>1, <1>2, <1>3, <1>4

\* To emit nothing keeps the contract.
LEMMA EmittingStart ==
  ASSUME NEW a, NEW D, NEW leak, IsContext(a)
  PROVE  Emits(a, a, D, leak)
<1>1. Len(a.code) \in Nat
  BY CodeFacts DEF IsContext
<1>2. Writes(a, a, D)
  BY <1>1 DEF Writes, Prefix, New
<1>3. a.thrown \/ Labelled(a, a, {})
  BY DEF Labelled, IsContext
<1>4. Restores(a, a, {}, 0, leak)
  BY DEF Restores, IsContext
<1>. QED
  BY <1>2, <1>3, <1>4 DEF Emits, Emitting

\* What is thrown once stays so.
LEMMA ThrowEmitting ==
  ASSUME NEW a, NEW b, NEW D, NEW P, NEW S, NEW n, NEW leak, IsContext(b)
  PROVE  Emitting(a, Throw(b), D, P, S, n, leak)
<1>. DEFINE c == Throw(b)
<1>1. /\ DOMAIN c = DOMAIN b /\ c.thrown = TRUE /\ c.code = b.code /\ c.sp = b.sp /\ c.labels = b.labels
  BY DEF Throw, IsContext, Fields
<1>. HIDE DEF c
<1>2. IsContext(c)
  BY <1>1 DEF IsContext
<1>. QED
  BY <1>1, <1>2 DEF Emitting, c

\* Writing an instruction changes the code alone.
LEMMA PutFields ==
  ASSUME NEW b, NEW is, IsContext(b)
  PROVE  LET c == Put(b, is) IN
         /\ DOMAIN c = Fields
         /\ c.code = b.code \o is
         /\ c.syms = b.syms /\ c.sp = b.sp /\ c.busy = b.busy /\ c.reg = b.reg /\ c.type = b.type
         /\ c.leftOp = b.leftOp /\ c.arrayIndex = b.arrayIndex /\ c.currentPointer = b.currentPointer
         /\ c.labels = b.labels /\ c.consts = b.consts /\ c.thrown = b.thrown
BY DEF Put, IsContext, Fields

\* Code is written: it may place labels that are to be placed, and jump to them.
LEMMA PutEmits ==
  ASSUME NEW a, NEW b, NEW D, NEW P, NEW S, NEW n \in Nat, NEW leak, NEW is,
         IsContext(a), Emitting(a, b, D, P, S, n, leak), IsCode(is),
         b.thrown \/ \A i \in Members(is) : Tame(i, D, a),
         Distinct(is), Labels(is) \subseteq P, Uses(is) \subseteq P
  PROVE  Emitting(a, Put(b, is), D, P \ Labels(is), S, n, leak)
<1>. DEFINE c == Put(b, is)
<1>1. IsContext(b)
  BY DEF Emitting
<1>2. /\ DOMAIN c = Fields
      /\ c.code = b.code \o is
      /\ c.syms = b.syms /\ c.sp = b.sp /\ c.busy = b.busy
      /\ c.leftOp = b.leftOp /\ c.arrayIndex = b.arrayIndex /\ c.currentPointer = b.currentPointer
      /\ c.labels = b.labels /\ c.thrown = b.thrown
  BY <1>1, PutFields
<1>3. IsCode(b.code) /\ b.sp \in Int /\ b.labels \in [LabelPrefixes -> Nat] /\ b.thrown \in BOOLEAN
  BY <1>1 DEF IsContext
<1>. HIDE DEF c
<1>4. /\ IsCode(c.code) /\ Prefix(b.code, c.code) /\ New(b.code, c.code) = Members(is)
      /\ Labels(c.code) = Labels(b.code) \cup Labels(is) /\ Uses(c.code) = Uses(b.code) \cup Uses(is)
  BY <1>2, <1>3, ConcatFacts, ConcatPrefix, ConcatLabels, ConcatUses
<1>5. Made(c) = Made(b)
  BY <1>2 DEF Made
<1>6. CASE b.thrown
  BY <1>2, <1>3, <1>4, <1>6 DEF Emitting, IsContext, c
<1>7. CASE ~b.thrown
  <2>1. ~a.thrown /\ Restores(a, b, S, n, leak) /\ Writes(a, b, D) /\ Labelled(a, b, P)
    BY <1>7 DEF Emitting
  <2>2. Distinct(b.code) /\ Labels(b.code) \subseteq Made(b)
    BY <1>1, <1>7 DEF IsContext
  <2>3. P \cap Labels(b.code) = {} /\ P \subseteq Made(b)
    BY <2>1 DEF Labelled
  <2>4. Distinct(c.code)
    BY <1>2, <1>3, <2>2, <2>3, ConcatDistinct
  <2>5. IsContext(c)
    BY <1>2, <1>3, <1>4, <1>5, <2>2, <2>3, <2>4 DEF IsContext
  <2>6. Restores(a, c, S, n, leak)
    BY <1>2, <2>1 DEF Restores
  <2>7. Writes(a, c, D)
    <3>1. IsCode(a.code)
      BY DEF IsContext
    <3>2. Prefix(a.code, c.code) /\ New(a.code, c.code) = New(a.code, b.code) \cup Members(is)
      BY <1>3, <1>4, <2>1, <3>1, PrefixTrans DEF Writes
    <3>. QED
      BY <1>7, <2>1, <3>2 DEF Writes
  <2>8. Labelled(a, c, P \ Labels(is))
    <3>. DEFINE L == Labels(is)
    <3>1. Labels(c.code) = Labels(b.code) \cup L /\ L \subseteq P
          /\ Uses(c.code) \subseteq Uses(b.code) \cup P
      BY <1>4
    <3>. HIDE DEF L
    <3>2. Labelled(a, c, P \ L)
      BY <1>5, <2>1, <3>1 DEF Labelled
    <3>. QED
      BY <3>2 DEF L
  <2>. QED
    BY <1>2, <2>1, <2>5, <2>6, <2>7, <2>8 DEF Emitting, c
<1>. QED
  BY <1>6, <1>7

\* Instructions that leave their result in a register of D, and calls.
Into(i, D) == i[1] \notin Stores \cup Jumps \cup {"label", "ret"} /\ (i[1] = "call" \/ i[2] \in D)

\* An instruction that writes a register of D alone is allowed an emission into
\* D.
LEMMA IntoTame ==
  ASSUME NEW i, NEW D, NEW c, Into(i, D)
  PROVE  Tame(i, D, c)
BY DEF Into, Tame, Clobbers, StoresInPlace

\* Code without labels and jumps defines and uses no label.
LEMMA PlainCode ==
  ASSUME NEW is, IsCode(is), \A i \in Members(is) : i[1] \notin Jumps \cup {"label"}
  PROVE  Distinct(is) /\ Labels(is) = {} /\ Uses(is) = {}
<1>1. Labels(is) = {} /\ Uses(is) = {}
  BY UsesMembers DEF Labels
<1>2. Distinct(is)
  BY DEF Distinct, Members
<1>. QED
  BY <1>1, <1>2

\* Code without labels and jumps.
LEMMA PutPlain ==
  ASSUME NEW a, NEW b, NEW D, NEW P, NEW S, NEW n \in Nat, NEW leak, NEW is,
         IsContext(a), Emitting(a, b, D, P, S, n, leak), IsCode(is),
         \A i \in Members(is) : i[1] \notin Jumps \cup {"label"},
         b.thrown \/ \A i \in Members(is) : Tame(i, D, a)
  PROVE  Emitting(a, Put(b, is), D, P, S, n, leak)
<1>1. Distinct(is) /\ Labels(is) = {} /\ Uses(is) = {}
  BY PlainCode
<1>2. P \ {} = P
  OBVIOUS
<1>. QED
  BY <1>1, <1>2, PutEmits

\* Instructions into the destination may follow any emission.
LEMMA PutInto ==
  ASSUME NEW a, NEW b, NEW D, NEW P, NEW S, NEW n \in Nat, NEW leak, NEW is,
         IsContext(a), Emitting(a, b, D, P, S, n, leak), IsCode(is), \A i \in Members(is) : Into(i, D)
  PROVE  Emitting(a, Put(b, is), D, P, S, n, leak)
<1>1. \A i \in Members(is) : i[1] \notin Jumps \cup {"label"} /\ Tame(i, D, a)
  BY IntoTame DEF Into
<1>. QED
  BY <1>1, PutPlain

\* The instructions of a list of one,
LEMMA List1 ==
  ASSUME NEW x
  PROVE  IsCode(<<x>>) /\ Members(<<x>>) = {x}
<1>1. <<x>> \in Seq({x})
  OBVIOUS
<1>2. IsCode(<<x>>)
  BY <1>1 DEF IsCode
<1>. QED
  BY <1>2 DEF Members

\* of two,
LEMMA List2 ==
  ASSUME NEW x, NEW y
  PROVE  IsCode(<<x, y>>) /\ Members(<<x, y>>) = {x, y}
<1>1. <<x, y>> \in Seq({x, y})
  OBVIOUS
<1>2. IsCode(<<x, y>>)
  BY <1>1 DEF IsCode
<1>. QED
  BY <1>2 DEF Members

\* of three,
LEMMA List3 ==
  ASSUME NEW x, NEW y, NEW z
  PROVE  IsCode(<<x, y, z>>) /\ Members(<<x, y, z>>) = {x, y, z}
<1>1. <<x, y, z>> \in Seq({x, y, z})
  OBVIOUS
<1>2. IsCode(<<x, y, z>>)
  BY <1>1 DEF IsCode
<1>. QED
  BY <1>2 DEF Members

\* of five,
LEMMA List5 ==
  ASSUME NEW u, NEW v, NEW x, NEW y, NEW z
  PROVE  IsCode(<<u, v, x, y, z>>) /\ Members(<<u, v, x, y, z>>) = {u, v, x, y, z}
<1>1. <<u, v, x, y, z>> \in Seq({u, v, x, y, z})
  OBVIOUS
<1>2. IsCode(<<u, v, x, y, z>>)
  BY <1>1 DEF IsCode
<1>. QED
  BY <1>2 DEF Members

\* and of six.
LEMMA List6 ==
  ASSUME NEW u, NEW v, NEW w, NEW x, NEW y, NEW z
  PROVE  IsCode(<<u, v, w, x, y, z>>) /\ Members(<<u, v, w, x, y, z>>) = {u, v, w, x, y, z}
<1>1. <<u, v, w, x, y, z>> \in Seq({u, v, w, x, y, z})
  OBVIOUS
<1>2. IsCode(<<u, v, w, x, y, z>>)
  BY <1>1 DEF IsCode
<1>. QED
  BY <1>2 DEF Members

\* No instructions.
LEMMA List0 == IsCode(<< >>) /\ Members(<< >>) = {}
<1>1. << >> \in Seq({})
  OBVIOUS
<1>2. IsCode(<< >>)
  BY <1>1 DEF IsCode
<1>. QED
  BY <1>2 DEF Members

(***************************************************************************)
(* What the emitters ask of the Context, in the course of an emission      *)
(***************************************************************************)
\* Changes of the Context that write no code and make no label.
LEMMA SameCode ==
  ASSUME NEW a, NEW b, NEW d, NEW D, NEW C, NEW P, NEW S, NEW R, NEW n, NEW m, NEW leak,
         IsContext(a), Emitting(a, b, D, P, S, n, leak),
         DOMAIN d = Fields, d.code = b.code, d.labels = b.labels, d.sp \in Int,
         d.thrown \in BOOLEAN, b.thrown => d.thrown,
         d.thrown \/ (Restores(a, b, S, n, leak) /\ Writes(a, b, D) => Restores(a, d, R, m, leak) /\ Writes(a, d, C))
  PROVE  Emitting(a, d, C, P, R, m, leak)
<1>1. Made(d) = Made(b)
  BY DEF Made
<1>2. IsContext(d)
  BY <1>1 DEF Emitting, IsContext
<1>3. CASE d.thrown
  BY <1>2, <1>3 DEF Emitting
<1>4. CASE ~d.thrown
  <2>1. ~b.thrown /\ ~a.thrown /\ Restores(a, b, S, n, leak) /\ Writes(a, b, D) /\ Labelled(a, b, P)
    BY <1>4 DEF Emitting
  <2>2. Labelled(a, d, P)
    BY <1>1, <2>1 DEF Labelled
  <2>. QED
    BY <1>2, <1>4, <2>1, <2>2 DEF Emitting
<1>. QED
  BY <1>3, <1>4

\* D may be larger.
LEMMA EmittingMore ==
  ASSUME NEW a, NEW b, NEW D, NEW C, NEW P, NEW S, NEW n, NEW leak,
         Emitting(a, b, D, P, S, n, leak), D \subseteq C
  PROVE  Emitting(a, b, C, P, S, n, leak)
<1>1. ASSUME NEW i, Tame(i, D, a) PROVE Tame(i, C, a)
  BY <1>1 DEF Tame, StoresInPlace
<1>2. Writes(a, b, D) => Writes(a, b, C)
  BY <1>1 DEF Writes
<1>. QED
  BY <1>2 DEF Emitting

\* A register that was borrowed was not one of those to be kept.
LEMMA WritesLess ==
  ASSUME NEW a, NEW b, NEW D, NEW C, NEW S, NEW n, NEW leak, NEW r \in S,
         Restores(a, b, S, n, leak), Writes(a, b, D), D \subseteq C \cup {r}
  PROVE  Writes(a, b, C)
<1>1. r \notin a.busy \cap Temporaries /\ r \notin FrameRegs /\ r # "s0"
  BY DEF Restores, FrameRegs
<1>2. ASSUME NEW i, Tame(i, D, a) PROVE Tame(i, C, a)
  BY <1>1, <1>2 DEF Tame, StoresInPlace
<1>. QED
  BY <1>2 DEF Writes

\* Every set of positions that is not empty has a least one.
LEMMA LeastExists ==
  ASSUME NEW S, S \subseteq Nat, S # {}
  PROVE  \E i \in S : \A j \in S : i <= j
<1>1. PICK x \in S : \A y \in S : ~ (<<y, x>> \in OpToRel(<, Nat))
  BY NatLessThanWellFounded, WFMin
<1>2. \A y \in S : ~ (y < x)
  BY <1>1 DEF OpToRel
<1>. QED
  BY <1>2

\* The first free register of a list is in the list, and free.
LEMMA FirstFree ==
  ASSUME NEW s, NEW c, DOMAIN s \subseteq Nat, Free(s, c) # {}
  PROVE  First(s, c) \in Members(s) \ c.busy
<1>1. \E i \in Free(s, c) : \A j \in Free(s, c) : i <= j
  BY LeastExists DEF Free
<1>2. PICK i \in Free(s, c) : First(s, c) = s[i]
  BY <1>1 DEF First
<1>. QED
  BY <1>2 DEF Free, Members

\* Borrowing a register changes the busy registers and the last register given
\* out.
LEMMA TakeFields ==
  ASSUME NEW s, NEW c, IsContext(c)
  PROVE  LET d == TakeFrom(s, c) IN
         /\ DOMAIN d = Fields /\ d.reg = First(s, c) /\ d.busy = c.busy \cup {First(s, c)}
         /\ d.code = c.code /\ d.syms = c.syms /\ d.sp = c.sp /\ d.type = c.type
         /\ d.leftOp = c.leftOp /\ d.arrayIndex = c.arrayIndex /\ d.currentPointer = c.currentPointer
         /\ d.labels = c.labels /\ d.consts = c.consts /\ d.thrown = c.thrown
BY DEF TakeFrom, IsContext, Fields

\* A register is borrowed from a sequence of them.
LEMMA TakeEmitting ==
  ASSUME NEW a, NEW b, NEW D, NEW P, NEW S, NEW n, NEW leak, NEW s,
         IsContext(a), Emitting(a, b, D, P, S, n, leak),
         DOMAIN s \subseteq Nat, Free(s, b) # {}, Members(s) \cap FrameRegs = {}
  PROVE  LET lent == TakeFrom(s, b)
         IN  Emitting(a, lent, D \cup {lent.reg}, P, S \cup {lent.reg}, n, leak)
<1>. DEFINE d == TakeFrom(s, b)  r == First(s, b)
<1>1. IsContext(b)
  BY DEF Emitting
<1>2. /\ DOMAIN d = Fields /\ d.reg = r /\ d.busy = b.busy \cup {r}
      /\ d.code = b.code /\ d.syms = b.syms /\ d.sp = b.sp
      /\ d.leftOp = b.leftOp /\ d.arrayIndex = b.arrayIndex /\ d.currentPointer = b.currentPointer
      /\ d.labels = b.labels /\ d.thrown = b.thrown
  BY <1>1, TakeFields
<1>3. r \notin b.busy /\ r \notin FrameRegs
  BY FirstFree
<1>. HIDE DEF d, r
<1>4. Restores(a, b, S, n, leak) => Restores(a, d, S \cup {r}, n, leak)
  BY <1>2, <1>3 DEF Restores
<1>5. Writes(a, b, D) => Writes(a, d, D)
  BY <1>2 DEF Writes
<1>6. Emitting(a, d, D, P, S \cup {r}, n, leak)
  BY <1>1, <1>2, <1>4, <1>5, SameCode DEF IsContext
<1>7. Emitting(a, d, D \cup {r}, P, S \cup {r}, n, leak)
  BY <1>6, EmittingMore
<1>. QED
  BY <1>2, <1>7 DEF d

\* Temporaries are neither arguments nor the frame pointer.
LEMMA RegisterLists ==
  /\ DOMAIN Temps \subseteq Nat /\ DOMAIN FTemps \subseteq Nat
  /\ DOMAIN Args \subseteq Nat /\ DOMAIN FArgs \subseteq Nat
  /\ DOMAIN Tail(Args) \subseteq Nat /\ DOMAIN Tail(FArgs) \subseteq Nat
  /\ Members(Temps) \cap FrameRegs = {} /\ Members(FTemps) \cap FrameRegs = {}
  /\ Members(Args) \cap FrameRegs = {} /\ Members(FArgs) \cap FrameRegs = {}
  /\ Members(Tail(Args)) \cap FrameRegs = {} /\ Members(Tail(FArgs)) \cap FrameRegs = {}
  /\ Members(Temps) \cap ArgRegs = {} /\ Members(FTemps) \cap ArgRegs = {}
<1>1. DOMAIN Temps \subseteq Nat /\ DOMAIN FTemps \subseteq Nat
  BY DEF Temps, FTemps
<1>2. /\ DOMAIN Args \subseteq Nat /\ DOMAIN FArgs \subseteq Nat
      /\ DOMAIN Tail(Args) \subseteq Nat /\ DOMAIN Tail(FArgs) \subseteq Nat
  BY DEF Args, FArgs
<1>3. Members(Temps) \cap FrameRegs = {} /\ Members(FTemps) \cap FrameRegs = {}
  BY DEF Temps, FTemps, Members, FrameRegs
<1>4. Members(Args) \cap FrameRegs = {} /\ Members(FArgs) \cap FrameRegs = {}
  BY DEF Args, FArgs, Members, FrameRegs
<1>5. Members(Tail(Args)) \subseteq Members(Args) /\ Members(Tail(FArgs)) \subseteq Members(FArgs)
  BY DEF Members, Args, FArgs
<1>6. Members(Temps) \cap ArgRegs = {} 
  BY DEF Temps, Args, FArgs, Members, ArgRegs
<1>7. Members(FTemps) \cap ArgRegs = {}
  BY DEF FTemps, Args, FArgs, Members, ArgRegs
<1>. QED
  BY <1>1, <1>2, <1>3, <1>4, <1>5, <1>6, <1>7

\* allocate_reg lends a register that may be written from then on, or throws.
LEMMA AllocateEmitting ==
  ASSUME NEW a, NEW b, NEW D, NEW P, NEW S, NEW n, NEW leak, NEW type,
         IsContext(a), Emitting(a, b, D, P, S, n, leak)
  PROVE  LET lent == AllocateReg(type, b)
         IN  Emitting(a, lent, D \cup {lent.reg}, P, S \cup {lent.reg}, n, leak)
<1>. DEFINE fp == type \in {"FLOAT", "DOUBLE"}
            temps == IF fp THEN FTemps ELSE Temps
            spare == Tail(IF fp THEN FArgs ELSE Args)
<1>1. DOMAIN temps \subseteq Nat /\ DOMAIN spare \subseteq Nat /\ Members(temps) \cap FrameRegs = {}
      /\ Members(spare) \cap FrameRegs = {}
  BY RegisterLists
<1>. HIDE DEF temps, spare
<1>2. CASE Free(temps, b) # {}
  <2>1. AllocateReg(type, b) = TakeFrom(temps, b)
    BY <1>2 DEF AllocateReg, temps
  <2>. QED
    BY <1>1, <1>2, <2>1, TakeEmitting
<1>3. CASE Free(temps, b) = {} /\ Free(spare, b) # {}
  <2>1. AllocateReg(type, b) = TakeFrom(spare, b)
    BY <1>3 DEF AllocateReg, temps, spare
  <2>. QED
    BY <1>1, <1>3, <2>1, TakeEmitting
<1>4. CASE Free(temps, b) = {} /\ Free(spare, b) = {}
  <2>1. AllocateReg(type, b) = Throw(b)
    BY <1>4 DEF AllocateReg, temps, spare
  <2>2. IsContext(b)
    BY DEF Emitting
  <2>. QED
    BY <2>1, <2>2, ThrowEmitting
<1>. QED
  BY <1>2, <1>3, <1>4

\* allocate_arg_reg likewise: an argument register.
LEMMA AllocateArgEmitting ==
  ASSUME NEW a, NEW b, NEW D, NEW P, NEW S, NEW n, NEW leak, NEW type,
         IsContext(a), Emitting(a, b, D, P, S, n, leak)
  PROVE  LET lent == AllocateArgReg(type, b)
         IN  Emitting(a, lent, D \cup {lent.reg}, P, S \cup {lent.reg}, n, leak)
<1>. DEFINE args == IF type \in {"FLOAT", "DOUBLE"} THEN FArgs ELSE Args
            d == [b EXCEPT !.reg = ""]
<1>1. DOMAIN args \subseteq Nat /\ Members(args) \cap FrameRegs = {}
  BY RegisterLists
<1>. HIDE DEF args
<1>2. CASE Free(args, b) # {}
  <2>1. AllocateArgReg(type, b) = TakeFrom(args, b)
    BY <1>2 DEF AllocateArgReg, args
  <2>. QED
    BY <1>1, <1>2, <2>1, TakeEmitting
<1>3. CASE Free(args, b) = {}
  <2>1. AllocateArgReg(type, b) = d
    BY <1>3 DEF AllocateArgReg, args
  <2>2. IsContext(b)
    BY DEF Emitting
  <2>3. /\ DOMAIN d = Fields /\ d.reg = "" /\ d.busy = b.busy
        /\ d.code = b.code /\ d.syms = b.syms /\ d.sp = b.sp
        /\ d.leftOp = b.leftOp /\ d.arrayIndex = b.arrayIndex /\ d.currentPointer = b.currentPointer
        /\ d.labels = b.labels /\ d.thrown = b.thrown
    BY <2>2 DEF IsContext, Fields
  <2>. HIDE DEF d
  <2>4. "" \notin Temporaries /\ "" \notin FrameRegs
    <3>1. Members(Temps) = {"t0", "t1", "t2", "t3", "t4", "t5", "t6"}
      BY DEF Members, Temps
    <3>2. Members(FTemps) = {"ft0", "ft1", "ft2", "ft3", "ft4", "ft5", "ft6", "ft7"}
      BY DEF Members, FTemps
    <3>. QED
      BY <3>1, <3>2 DEF Temporaries, FrameRegs
  <2>5. Restores(a, b, S, n, leak) => Restores(a, d, S \cup {""}, n, leak)
    BY <2>3, <2>4 DEF Restores
  <2>6. Writes(a, b, D) => Writes(a, d, D)
    BY <2>3 DEF Writes
  <2>7. Emitting(a, d, D, P, S \cup {""}, n, leak)
    BY <2>2, <2>3, <2>5, <2>6, SameCode DEF IsContext
  <2>8. Emitting(a, d, D \cup {""}, P, S \cup {""}, n, leak)
    BY <2>7, EmittingMore
  <2>. QED
    BY <2>1, <2>3, <2>8
<1>. QED
  BY <1>2, <1>3

\* A borrowed register is given back.
LEMMA DeallocateEmitting ==
  ASSUME NEW a, NEW b, NEW D, NEW C, NEW P, NEW S, NEW R, NEW n, NEW leak, NEW r,
         IsContext(a), Emitting(a, b, D, P, S, n, leak),
         r \in S, R \subseteq S, S \subseteq R \cup {r}, D \subseteq C \cup {r}
  PROVE  Emitting(a, DeallocateReg(r, b), C, P, R, n, leak)
<1>. DEFINE d == DeallocateReg(r, b)
<1>1. IsContext(b)
  BY DEF Emitting
<1>2. /\ DOMAIN d = Fields /\ d.busy = b.busy \ {r}
      /\ d.code = b.code /\ d.syms = b.syms /\ d.sp = b.sp
      /\ d.leftOp = b.leftOp /\ d.arrayIndex = b.arrayIndex /\ d.currentPointer = b.currentPointer
      /\ d.labels = b.labels /\ d.thrown = b.thrown
  BY <1>1 DEF DeallocateReg, IsContext, Fields
<1>. HIDE DEF d
<1>3. Restores(a, b, S, n, leak) => Restores(a, d, R, n, leak)
  BY <1>2 DEF Restores
<1>4. Restores(a, b, S, n, leak) /\ Writes(a, b, D) => Writes(a, d, C)
  <2>1. Restores(a, b, S, n, leak) /\ Writes(a, b, D) => Writes(a, b, C)
    BY WritesLess
  <2>. QED
    BY <1>2, <2>1 DEF Writes
<1>5. Emitting(a, d, C, P, R, n, leak)
  BY <1>1, <1>2, <1>3, <1>4, SameCode DEF IsContext
<1>. QED
  BY <1>5 DEF d

\* A borrowed register that is not given back leaks.
LEMMA LeakEmitting ==
  ASSUME NEW a, NEW b, NEW D, NEW C, NEW P, NEW S, NEW R, NEW n, NEW leak, NEW r,
         Emitting(a, b, D, P, S, n, leak), r \in S, R \subseteq S, D \subseteq C \cup {r}, leak
  PROVE  Emitting(a, b, C, P, R, n, leak)
<1>1. Restores(a, b, S, n, leak) => Restores(a, b, R, n, leak)
  BY DEF Restores
<1>2. Restores(a, b, S, n, leak) /\ Writes(a, b, D) => Writes(a, b, C)
  BY WritesLess
<1>. QED
  BY <1>1, <1>2 DEF Emitting

\* push_stack makes room for k bytes more, or throws at the end of the frame.
LEMMA PushEmitting ==
  ASSUME NEW a, NEW b, NEW D, NEW P, NEW S, NEW n \in Nat, NEW leak, NEW k \in Nat,
         IsContext(a), Emitting(a, b, D, P, S, n, leak)
  PROVE  LET d == PushStack(k, b)
         IN  /\ Emitting(a, d, D, P, S, n + k, leak)
             /\ d.thrown \/ (d.sp = b.sp - k /\ d.sp >= -FrameBytes)
<1>. DEFINE e == [b EXCEPT !.sp = @ - k]
<1>1. IsContext(b) /\ a.sp \in Int /\ b.sp \in Int
  BY DEF Emitting, IsContext
<1>2. /\ DOMAIN e = Fields /\ e.sp = b.sp - k
      /\ e.code = b.code /\ e.syms = b.syms /\ e.busy = b.busy
      /\ e.leftOp = b.leftOp /\ e.arrayIndex = b.arrayIndex /\ e.currentPointer = b.currentPointer
      /\ e.labels = b.labels /\ e.thrown = b.thrown
  BY <1>1 DEF IsContext, Fields
<1>3. PushStack(k, b) = IF b.sp - k < -FrameBytes THEN Throw(e) ELSE e
  BY DEF PushStack, ThrowIf
<1>. HIDE DEF e
<1>4. Restores(a, b, S, n, leak) => Restores(a, e, S, n + k, leak)
  BY <1>1, <1>2 DEF Restores
<1>5. Writes(a, b, D) => Writes(a, e, D)
  BY <1>2 DEF Writes
<1>6. e.sp \in Int
  BY <1>1, <1>2
<1>7. Emitting(a, e, D, P, S, n + k, leak)
  BY <1>1, <1>2, <1>4, <1>5, <1>6, SameCode DEF IsContext
<1>8. CASE b.sp - k < -FrameBytes
  <2>1. IsContext(e)
    BY <1>7 DEF Emitting
  <2>2. Throw(e).thrown
    BY <1>2 DEF Throw, Fields
  <2>. QED
    BY <1>3, <1>8, <2>1, <2>2, ThrowEmitting
<1>9. CASE ~(b.sp - k < -FrameBytes)
  BY <1>1, <1>2, <1>3, <1>7, <1>9, FrameAssumption
<1>. QED
  BY <1>8, <1>9

\* pop_stack gives k parked bytes back.
LEMMA PopEmitting ==
  ASSUME NEW a, NEW b, NEW D, NEW P, NEW S, NEW n \in Nat, NEW leak, NEW k \in Nat,
         IsContext(a), Emitting(a, b, D, P, S, n + k, leak)
  PROVE  Emitting(a, PopStack(k, b), D, P, S, n, leak)
<1>. DEFINE e == PopStack(k, b)
<1>1. IsContext(b) /\ a.sp \in Int /\ b.sp \in Int
  BY DEF Emitting, IsContext
<1>2. /\ DOMAIN e = Fields /\ e.sp = b.sp + k
      /\ e.code = b.code /\ e.syms = b.syms /\ e.busy = b.busy
      /\ e.leftOp = b.leftOp /\ e.arrayIndex = b.arrayIndex /\ e.currentPointer = b.currentPointer
      /\ e.labels = b.labels /\ e.thrown = b.thrown
  BY <1>1 DEF IsContext, Fields, PopStack
<1>. HIDE DEF e
<1>4. Restores(a, b, S, n + k, leak) => Restores(a, e, S, n, leak)
  BY <1>1, <1>2 DEF Restores
<1>5. Writes(a, b, D) => Writes(a, e, D)
  BY <1>2 DEF Writes
<1>6. e.sp \in Int
  BY <1>1, <1>2
<1>7. Emitting(a, e, D, P, S, n, leak)
  BY <1>1, <1>2, <1>4, <1>5, <1>6, SameCode DEF IsContext
<1>. QED
  BY <1>7 DEF e

\* makeUniqueLabel gives labels no code has, which are to be placed.
LEMMA MakeLabelsEmitting ==
  ASSUME NEW a, NEW b, NEW D, NEW P, NEW S, NEW n, NEW leak, NEW k \in Nat, NEW p \in LabelPrefixes, NEW N,
         IsContext(a), Emitting(a, b, D, P, S, n, leak), N \subseteq {NewLabel(p, i, b) : i \in 1 .. k}
  PROVE  Emitting(a, MakeLabels(p, k, b), D, P \cup N, S, n, leak)
<1>. DEFINE d == MakeLabels(p, k, b)
<1>1. IsContext(b) /\ b.labels \in [LabelPrefixes -> Nat]
  BY DEF Emitting, IsContext
<1>2. /\ DOMAIN d = Fields /\ d.labels = [b.labels EXCEPT ![p] = @ + k]
      /\ d.code = b.code /\ d.syms = b.syms /\ d.busy = b.busy /\ d.sp = b.sp
      /\ d.leftOp = b.leftOp /\ d.arrayIndex = b.arrayIndex /\ d.currentPointer = b.currentPointer
      /\ d.thrown = b.thrown
  BY <1>1 DEF IsContext, Fields, MakeLabels
<1>. HIDE DEF d
<1>3. d.labels \in [LabelPrefixes -> Nat] /\ d.labels[p] = b.labels[p] + k
      /\ \A q \in LabelPrefixes : b.labels[q] <= d.labels[q]
  BY <1>1, <1>2
<1>4. Made(b) \subseteq Made(d)
  BY <1>1, <1>3 DEF Made
<1>5. ASSUME NEW l \in N PROVE l \in Made(d) /\ l \notin Made(b)
  <2>1. PICK i \in 1 .. k : l = NewLabel(p, i, b)
    OBVIOUS
  <2>2. l = <<p, b.labels[p] + i>> /\ b.labels[p] \in Nat
    BY <1>1, <2>1 DEF NewLabel
  <2>3. l \in LabelPrefixes \X Nat /\ l[1] = p /\ l[2] = b.labels[p] + i
    BY <2>2
  <2>4. 1 <= l[2] /\ l[2] <= d.labels[l[1]] /\ ~(l[2] <= b.labels[l[1]])
    BY <1>3, <2>2, <2>3
  <2>. QED
    BY <2>3, <2>4 DEF Made
<1>6. IsContext(d)
  BY <1>1, <1>2, <1>3, <1>4 DEF IsContext
<1>7. Restores(a, b, S, n, leak) => Restores(a, d, S, n, leak)
  BY <1>2 DEF Restores
<1>8. Writes(a, b, D) => Writes(a, d, D)
  BY <1>2 DEF Writes
<1>9. ~b.thrown /\ Labelled(a, b, P) => Labelled(a, d, P \cup N)
  <2>. SUFFICES ASSUME ~b.thrown, Labelled(a, b, P) PROVE Labelled(a, d, P \cup N)
    OBVIOUS
  <2>. DEFINE L == Labels(b.code)  J == Labels(a.code)  U == Uses(b.code)  V == Uses(a.code)
              K == Made(a)  M == Made(b)  O == Made(d)
  <2>1. Labels(d.code) = L /\ Uses(d.code) = U
    BY <1>2
  <2>2. L \subseteq M
    BY <1>1 DEF IsContext
  <2>3. /\ K \subseteq M /\ J \subseteq L /\ P \subseteq M /\ P \cap (K \cup L) = {}
        /\ U \subseteq V \cup L \cup P /\ \A l \in L : l \in J \/ l \notin K
    BY DEF Labelled
  <2>4. M \subseteq O /\ N \subseteq O /\ N \cap M = {}
    BY <1>4, <1>5
  <2>. HIDE DEF L, J, U, V, K, M, O
  <2>5. /\ K \subseteq O /\ J \subseteq L /\ P \cup N \subseteq O /\ (P \cup N) \cap (K \cup L) = {}
        /\ U \subseteq V \cup L \cup (P \cup N) /\ \A l \in L : l \in J \/ l \notin K
    BY <2>2, <2>3, <2>4
  <2>. QED
    BY <2>1, <2>5 DEF Labelled, L, J, U, V, K, M, O
<1>10. Emitting(a, d, D, P \cup N, S, n, leak)
  BY <1>2, <1>6, <1>7, <1>8, <1>9 DEF Emitting
<1>. QED
  BY <1>10 DEF d

\* A read-only constant changes nothing an expression must keep.
LEMMA MakeConstEmitting ==
  ASSUME NEW a, NEW b, NEW D, NEW P, NEW S, NEW n, NEW leak, NEW type, NEW v,
         IsContext(a), Emitting(a, b, D, P, S, n, leak)
  PROVE  Emitting(a, MakeConst(type, v, b), D, P, S, n, leak)
<1>. DEFINE e == MakeConst(type, v, b)
<1>1. IsContext(b)
  BY DEF Emitting
<1>2. /\ DOMAIN e = Fields /\ e.sp = b.sp
      /\ e.code = b.code /\ e.syms = b.syms /\ e.busy = b.busy
      /\ e.leftOp = b.leftOp /\ e.arrayIndex = b.arrayIndex /\ e.currentPointer = b.currentPointer
      /\ e.labels = b.labels /\ e.thrown = b.thrown
  BY <1>1 DEF IsContext, Fields, MakeConst
<1>. HIDE DEF e
<1>3. Restores(a, b, S, n, leak) => Restores(a, e, S, n, leak)
  BY <1>2 DEF Restores
<1>4. Writes(a, b, D) => Writes(a, e, D)
  BY <1>2 DEF Writes
<1>5. Emitting(a, e, D, P, S, n, leak)
  BY <1>1, <1>2, <1>3, <1>4, SameCode DEF IsContext
<1>. QED
  BY <1>5 DEF e

\* Nor does the current type.
LEMMA SetTypeEmitting ==
  ASSUME NEW a, NEW b, NEW D, NEW P, NEW S, NEW n, NEW leak, NEW type,
         IsContext(a), Emitting(a, b, D, P, S, n, leak)
  PROVE  Emitting(a, [b EXCEPT !.type = type], D, P, S, n, leak)
<1>. DEFINE e == [b EXCEPT !.type = type]
<1>1. IsContext(b)
  BY DEF Emitting
<1>2. /\ DOMAIN e = Fields /\ e.sp = b.sp
      /\ e.code = b.code /\ e.syms = b.syms /\ e.busy = b.busy
      /\ e.leftOp = b.leftOp /\ e.arrayIndex = b.arrayIndex /\ e.currentPointer = b.currentPointer
      /\ e.labels = b.labels /\ e.thrown = b.thrown
  BY <1>1 DEF IsContext, Fields
<1>. HIDE DEF e
<1>3. Restores(a, b, S, n, leak) => Restores(a, e, S, n, leak)
  BY <1>2 DEF Restores
<1>4. Writes(a, b, D) => Writes(a, e, D)
  BY <1>2 DEF Writes
<1>5. Emitting(a, e, D, P, S, n, leak)
  BY <1>1, <1>2, <1>3, <1>4, SameCode DEF IsContext
<1>. QED
  BY <1>5 DEF e

\* init_arg_regs forgets the arguments and keeps the temporaries.
LEMMA ClearArgsEmitting ==
  ASSUME NEW a, NEW b, NEW D, NEW P, NEW S, NEW n, NEW leak,
         IsContext(a), Emitting(a, b, D, P, S, n, leak)
  PROVE  Emitting(a, InitializeArgRegs(b), D, P, S, n, leak)
<1>. DEFINE e == InitializeArgRegs(b)
<1>1. IsContext(b)
  BY DEF Emitting
<1>2. /\ DOMAIN e = Fields /\ e.sp = b.sp /\ e.busy = b.busy \ ArgRegs
      /\ e.code = b.code /\ e.syms = b.syms
      /\ e.leftOp = b.leftOp /\ e.arrayIndex = b.arrayIndex /\ e.currentPointer = b.currentPointer
      /\ e.labels = b.labels /\ e.thrown = b.thrown
  BY <1>1 DEF IsContext, Fields, InitializeArgRegs, ArgRegs
<1>. HIDE DEF e
<1>3. Temporaries \cap ArgRegs = {}
  BY RegisterLists DEF Temporaries
<1>4. Restores(a, b, S, n, leak) => Restores(a, e, S, n, leak)
  BY <1>2, <1>3 DEF Restores
<1>5. Writes(a, b, D) => Writes(a, e, D)
  BY <1>2 DEF Writes
<1>6. Emitting(a, e, D, P, S, n, leak)
  BY <1>1, <1>2, <1>4, <1>5, SameCode DEF IsContext
<1>. QED
  BY <1>6 DEF e

\* A check that throws keeps the contract.
LEMMA ThrowIfEmitting ==
  ASSUME NEW a, NEW b, NEW D, NEW P, NEW S, NEW n, NEW leak, NEW x,
         Emitting(a, b, D, P, S, n, leak)
  PROVE  Emitting(a, ThrowIf(x, b), D, P, S, n, leak)
<1>1. IsContext(b)
  BY DEF Emitting
<1>. QED
  BY <1>1, ThrowEmitting DEF ThrowIf

\* A flag that is set for an emission is reset after it.
LEMMA FlagEmits ==
  ASSUME NEW a, NEW s, NEW b, NEW d, NEW D, NEW leak,
         IsContext(a), IsContext(s) => Emits(s, b, D, leak),
         DOMAIN s = Fields, s.code = a.code, s.syms = a.syms, s.sp = a.sp, s.busy = a.busy,
         s.labels = a.labels, s.thrown = a.thrown,
         IsContext(b) =>
           /\ DOMAIN d = Fields /\ d.code = b.code /\ d.syms = b.syms /\ d.sp = b.sp /\ d.busy = b.busy
           /\ d.labels = b.labels /\ d.thrown = b.thrown,
         IsContext(b) /\ (b.leftOp => s.leftOp) => (d.leftOp => a.leftOp),
         IsContext(b) /\ (b.arrayIndex => s.arrayIndex) => (d.arrayIndex => a.arrayIndex),
         IsContext(b) /\ (b.currentPointer => s.currentPointer) => (d.currentPointer => a.currentPointer)
  PROVE  Emits(a, d, D, leak)
<1>1. Made(s) = Made(a)
  BY DEF Made
<1>2. IsContext(s)
  BY <1>1 DEF IsContext
<1>3. Emits(s, b, D, leak) /\ IsContext(b)
  BY <1>2 DEF Emits, Emitting
<1>4. Made(d) = Made(b)
  BY <1>3 DEF Made
<1>5. IsContext(d)
  BY <1>3, <1>4 DEF IsContext
<1>6. Restores(s, b, {}, 0, leak) => Restores(a, d, {}, 0, leak)
  BY <1>3 DEF Restores
<1>7. Writes(s, b, D) => Writes(a, d, D)
  <2>1. ASSUME NEW i, Tame(i, D, s) PROVE Tame(i, D, a)
    BY <2>1 DEF Tame, StoresInPlace
  <2>. QED
    BY <1>3, <2>1 DEF Writes
<1>8. Labelled(s, b, {}) => Labelled(a, d, {})
  BY <1>1, <1>3, <1>4 DEF Labelled
<1>. QED
  BY <1>3, <1>5, <1>6, <1>7, <1>8 DEF Emits, Emitting

\* An operand emitted with leftOp set: the flag is reset whatever it was.
LEMMA LeftOpEmits ==
  ASSUME NEW a, NEW b, NEW D, NEW leak, IsContext(a),
         IsContext([a EXCEPT !.leftOp = TRUE]) => Emits([a EXCEPT !.leftOp = TRUE], b, D, leak)
  PROVE  Emits(a, [b EXCEPT !.leftOp = FALSE], D, leak)
<1>. DEFINE s == [a EXCEPT !.leftOp = TRUE]  d == [b EXCEPT !.leftOp = FALSE]
<1>1. /\ DOMAIN s = Fields /\ s.code = a.code /\ s.syms = a.syms /\ s.sp = a.sp /\ s.busy = a.busy
      /\ s.labels = a.labels /\ s.thrown = a.thrown
      /\ s.leftOp = TRUE
      /\ s.arrayIndex = a.arrayIndex
      /\ s.currentPointer = a.currentPointer
  BY DEF IsContext, Fields
<1>2. ASSUME IsContext(b)
      PROVE  /\ DOMAIN d = Fields /\ d.code = b.code /\ d.syms = b.syms /\ d.sp = b.sp /\ d.busy = b.busy
             /\ d.labels = b.labels /\ d.thrown = b.thrown
             /\ d.leftOp = FALSE
             /\ d.arrayIndex = b.arrayIndex
             /\ d.currentPointer = b.currentPointer
  BY <1>2 DEF IsContext, Fields
<1>. HIDE DEF s, d
<1>3. IsContext(s) => Emits(s, b, D, leak)
  BY DEF s
<1>4. Emits(a, d, D, leak)
  BY <1>1, <1>2, <1>3, FlagEmits
<1>. QED
  BY <1>4 DEF d

\* The same of arrayIndex,
LEMMA ArrayIndexEmits ==
  ASSUME NEW a, NEW b, NEW D, NEW leak, IsContext(a),
         IsContext([a EXCEPT !.arrayIndex = TRUE]) => Emits([a EXCEPT !.arrayIndex = TRUE], b, D, leak)
  PROVE  Emits(a, [b EXCEPT !.arrayIndex = FALSE], D, leak)
<1>. DEFINE s == [a EXCEPT !.arrayIndex = TRUE]  d == [b EXCEPT !.arrayIndex = FALSE]
<1>1. /\ DOMAIN s = Fields /\ s.code = a.code /\ s.syms = a.syms /\ s.sp = a.sp /\ s.busy = a.busy
      /\ s.labels = a.labels /\ s.thrown = a.thrown
      /\ s.leftOp = a.leftOp
      /\ s.arrayIndex = TRUE
      /\ s.currentPointer = a.currentPointer
  BY DEF IsContext, Fields
<1>2. ASSUME IsContext(b)
      PROVE  /\ DOMAIN d = Fields /\ d.code = b.code /\ d.syms = b.syms /\ d.sp = b.sp /\ d.busy = b.busy
             /\ d.labels = b.labels /\ d.thrown = b.thrown
             /\ d.leftOp = b.leftOp
             /\ d.arrayIndex = FALSE
             /\ d.currentPointer = b.currentPointer
  BY <1>2 DEF IsContext, Fields
<1>. HIDE DEF s, d
<1>3. IsContext(s) => Emits(s, b, D, leak)
  BY DEF s
<1>4. Emits(a, d, D, leak)
  BY <1>1, <1>2, <1>3, FlagEmits
<1>. QED
  BY <1>4 DEF d

\* and of currentPointer.
LEMMA CurrentPointerEmits ==
  ASSUME NEW a, NEW b, NEW D, NEW leak, IsContext(a),
         IsContext([a EXCEPT !.currentPointer = TRUE]) => Emits([a EXCEPT !.currentPointer = TRUE], b, D, leak)
  PROVE  Emits(a, [b EXCEPT !.currentPointer = FALSE], D, leak)
<1>. DEFINE s == [a EXCEPT !.currentPointer = TRUE]  d == [b EXCEPT !.currentPointer = FALSE]
<1>1. /\ DOMAIN s = Fields /\ s.code = a.code /\ s.syms = a.syms /\ s.sp = a.sp /\ s.busy = a.busy
      /\ s.labels = a.labels /\ s.thrown = a.thrown
      /\ s.leftOp = a.leftOp
      /\ s.arrayIndex = a.arrayIndex
      /\ s.currentPointer = TRUE
  BY DEF IsContext, Fields
<1>2. ASSUME IsContext(b)
      PROVE  /\ DOMAIN d = Fields /\ d.code = b.code /\ d.syms = b.syms /\ d.sp = b.sp /\ d.busy = b.busy
             /\ d.labels = b.labels /\ d.thrown = b.thrown
             /\ d.leftOp = b.leftOp
             /\ d.arrayIndex = b.arrayIndex
             /\ d.currentPointer = FALSE
  BY <1>2 DEF IsContext, Fields
<1>. HIDE DEF s, d
<1>3. IsContext(s) => Emits(s, b, D, leak)
  BY DEF s
<1>4. Emits(a, d, D, leak)
  BY <1>1, <1>2, <1>3, FlagEmits
<1>. QED
  BY <1>4 DEF d

Computing(m) == m \notin Stores \cup Jumps \cup {"label", "ret"}

\* Loads write their register; stores are no jumps.
LEMMA Mnemonics ==
  ASSUME NEW type
  PROVE  /\ LoadInstr(type) \in Loads /\ StoreInstr(type) \in Stores
         /\ \A m \in Loads : Computing(m)
         /\ \A m \in Stores : m \notin Jumps \cup {"label"}
BY DEF LoadInstr, StoreInstr, Loads, Stores, Computing, Jumps

\* An instruction with a destination writes it, whether it has one operand,
LEMMA Into3 ==
  ASSUME NEW m, NEW r, NEW x, NEW D, Computing(m), r \in D
  PROVE  Into(<<m, r, x>>, D)
BY DEF Into, Computing

\* two,
LEMMA Into4 ==
  ASSUME NEW m, NEW r, NEW x, NEW y, NEW D, Computing(m), r \in D
  PROVE  Into(<<m, r, x, y>>, D)
BY DEF Into, Computing

\* or two and a format.
LEMMA Into5 ==
  ASSUME NEW m, NEW r, NEW x, NEW y, NEW z, NEW D, Computing(m), r \in D
  PROVE  Into(<<m, r, x, y, z>>, D)
BY DEF Into, Computing

\* The usual cases of PutInto: one instruction, two of them.
LEMMA PutOne ==
  ASSUME NEW a, NEW b, NEW D, NEW P, NEW S, NEW n \in Nat, NEW leak, NEW i,
         IsContext(a), Emitting(a, b, D, P, S, n, leak), Into(i, D)
  PROVE  Emitting(a, Put(b, <<i>>), D, P, S, n, leak)
BY List1, PutInto

\* Two instructions into the destination.
LEMMA PutTwo ==
  ASSUME NEW a, NEW b, NEW D, NEW P, NEW S, NEW n \in Nat, NEW leak, NEW i, NEW j,
         IsContext(a), Emitting(a, b, D, P, S, n, leak), Into(i, D), Into(j, D)
  PROVE  Emitting(a, Put(b, <<i, j>>), D, P, S, n, leak)
BY List2, PutInto

\* A load is code that writes its register alone, or ends in an exception.
LEMMA LoadCode ==
  ASSUME NEW b, NEW x, NEW dest, NEW address
  PROVE  \E is : /\ IsCode(is) /\ \A i \in Members(is) : Into(i, {dest})
                 /\ Load(x, dest, address, b) \in {Put(b, is), Throw(Put(b, is))}
<1>. DEFINE v == Var(x, b)
            i == IF v.isPointer THEN "lw" ELSE LoadInstr(v.type)
            D == {dest}
            li   == <<"li", dest, v.value>>
            lui  == <<"lui", dest, v.loc>>
            low  == <<i, dest, v.loc, dest, "%lo">>
            slot == <<i, dest, v.loc, "s0", "">>
            addi == <<"addi", dest, "s0", v.loc>>
            elem == <<i, dest, 0, address, "">>
<1>1. Computing(i)
  BY Mnemonics DEF Loads
<1>2. Computing("li") /\ Computing("lui") /\ Computing("addi")
  BY DEF Computing, Stores, Jumps
<1>3. Into(li, D) /\ Into(lui, D) /\ Into(low, D) /\ Into(slot, D) /\ Into(addi, D) /\ Into(elem, D)
  BY <1>1, <1>2, Into3, Into4, Into5
<1>4. \E is \in {<<li>>, <<lui, low>>, <<slot>>, <<addi>>, <<elem>>} :
        Load(x, dest, address, b) \in {Put(b, is), Throw(Put(b, is))}
  BY DEF Load, ThrowIf
<1>. HIDE DEF li, lui, low, slot, addi, elem, D
<1>5. ASSUME NEW is \in {<<li>>, <<lui, low>>, <<slot>>, <<addi>>, <<elem>>}
      PROVE  IsCode(is) /\ \A j \in Members(is) : Into(j, D)
  BY <1>3, List1, List2
<1>. QED
  BY <1>4, <1>5 DEF D

\* load_reg reads an object into the destination, or throws.
LEMMA LoadEmitting ==
  ASSUME NEW a, NEW b, NEW D, NEW P, NEW S, NEW n \in Nat, NEW leak, NEW x, NEW dest \in D, NEW address,
         IsContext(a), Emitting(a, b, D, P, S, n, leak)
  PROVE  Emitting(a, Load(x, dest, address, b), D, P, S, n, leak)
<1>1. PICK is : /\ IsCode(is) /\ \A i \in Members(is) : Into(i, {dest})
                /\ Load(x, dest, address, b) \in {Put(b, is), Throw(Put(b, is))}
  BY LoadCode
<1>2. \A i \in Members(is) : Into(i, D)
  BY <1>1 DEF Into
<1>3. Emitting(a, Put(b, is), D, P, S, n, leak)
  BY <1>1, <1>2, PutInto
<1>4. Emitting(a, Throw(Put(b, is)), D, P, S, n, leak)
  BY <1>3, ThrowEmitting DEF Emitting
<1>. QED
  BY <1>1, <1>3, <1>4

\* A store to the place of a name, or at an address in a register of D.
LEMMA TameStore ==
  ASSUME NEW m \in Stores, NEW r, NEW x, NEW base, NEW y, NEW D, NEW a,
         base \in D \cup {""} \/ \E z \in DOMAIN a.syms : WritesVariable(<<m, r, x, base, y>>, a.syms[z])
  PROVE  Tame(<<m, r, x, base, y>>, D, a)
<1>. DEFINE i == <<m, r, x, base, y>>
<1>1. i[1] = m /\ i[4] = base /\ "" # "s0"
  OBVIOUS
<1>2. base \in D \cup {""} \/ \E z \in DOMAIN a.syms : WritesVariable(i, a.syms[z])
  OBVIOUS
<1>. HIDE DEF i
<1>3. Tame(i, D, a)
  BY <1>1, <1>2 DEF Tame, Clobbers, StoresInPlace, Stores
<1>. QED
  BY <1>3 DEF i

\* A store keeps the contract when its base is a register of the emission or it
\* goes to a name.
LEMMA PutStore ==
  ASSUME NEW a, NEW b, NEW D, NEW P, NEW S, NEW n \in Nat, NEW leak,
         NEW m \in Stores, NEW r, NEW x, NEW base, NEW y,
         IsContext(a), Emitting(a, b, D, P, S, n, leak),
         ~b.thrown => \/ base \in D \cup {""}
                      \/ \E z \in DOMAIN b.syms : WritesVariable(<<m, r, x, base, y>>, b.syms[z])
  PROVE  Emitting(a, Put(b, << <<m, r, x, base, y>> >>), D, P, S, n, leak)
<1>. DEFINE i == <<m, r, x, base, y>>
<1>1. i[1] \notin Jumps \cup {"label"}
  BY Mnemonics
<1>2. ASSUME ~b.thrown PROVE Tame(i, D, a)
  <2>1. b.syms = a.syms
    BY <1>2 DEF Emitting, Restores
  <2>2. base \in D \cup {""} \/ \E z \in DOMAIN a.syms : WritesVariable(<<m, r, x, base, y>>, a.syms[z])
    BY <1>2, <2>1
  <2>. QED
    BY <2>2, TameStore
<1>. HIDE DEF i
<1>3. IsCode(<<i>>) /\ Members(<<i>>) = {i}
  BY List1
<1>4. b.thrown \/ \A j \in Members(<<i>>) : Tame(j, D, a)
  BY <1>2, <1>3
<1>5. \A j \in Members(<<i>>) : j[1] \notin Jumps \cup {"label"}
  BY <1>1, <1>3
<1>6. Emitting(a, Put(b, <<i>>), D, P, S, n, leak)
  BY <1>3, <1>4, <1>5, PutPlain
<1>. QED
  BY <1>6 DEF i

\* An operand is parked at the stack pointer, below what was parked before.
LEMMA PutParked ==
  ASSUME NEW a, NEW b, NEW D, NEW P, NEW S, NEW n \in Nat, NEW leak, NEW m \in Stores, NEW r,
         IsContext(a), Emitting(a, b, D, P, S, n, leak),
         b.thrown \/ b.sp >= -FrameBytes, Unit[m] <= n
  PROVE  Emitting(a, Put(b, << <<m, r, b.sp, "s0", "">> >>), D, P, S, n, leak)
<1>. DEFINE i == <<m, r, b.sp, "s0", "">>
<1>1. i[1] = m /\ i[3] = b.sp /\ i[4] = "s0" /\ i[1] \notin Jumps \cup {"label"}
  BY Mnemonics
<1>. HIDE DEF i
<1>2. ASSUME ~b.thrown PROVE Tame(i, D, a)
  <2>1. b.sp = a.sp - n /\ a.sp \in Int /\ b.sp >= -FrameBytes
    BY <1>2 DEF Emitting, Restores, IsContext
  <2>2. b.sp \in -FrameBytes .. a.sp - Unit[m]
    BY <2>1, Units, FrameAssumption
  <2>. QED
    BY <1>1, <2>2 DEF Tame, Clobbers, StoresInPlace, Stores
<1>3. Emitting(a, Put(b, <<i>>), D, P, S, n, leak)
  BY <1>1, <1>2, List1, PutPlain
<1>. QED
  BY <1>3 DEF i

\* A register is borrowed for an emission.
LEMMA Bracket ==
  ASSUME NEW a, NEW d, NEW D, NEW P, NEW S, NEW n, NEW leak, NEW r,
         IsContext(a), Emitting(a, d, D \cup {r}, P, S \cup {r}, n, leak)
  PROVE  Emitting(a, DeallocateReg(r, d), D, P, S, n, leak)
BY DeallocateEmitting

\* store_reg writes to the object it is told, or throws.
LEMMA StoreEmitting ==
  ASSUME NEW a, NEW b, NEW D, NEW P, NEW S, NEW n \in Nat, NEW leak, NEW x, NEW r, NEW address,
         IsContext(a), Emitting(a, b, D, P, S, n, leak), x \in DOMAIN a.syms, address \in D \cup {""}
  PROVE  Emitting(a, Store(x, r, address, b), D, P, S, n, leak)
<1>. DEFINE v == Var(x, b)
            i == IF v.isPointer THEN "sw" ELSE StoreInstr(v.type)
            lent == AllocateReg(v.type, b)
            lui == <<"lui", lent.reg, v.loc>>
            store == <<i, r, v.loc, lent.reg, "%lo">>
<1>1. i \in Stores
  BY Mnemonics DEF Stores
<1>2. ~b.thrown => x \in DOMAIN b.syms /\ v = b.syms[x]
  BY DEF Var, Emitting, Restores
<1>3. ASSUME ~v.isArray
      PROVE  Emitting(a, Put(b, << <<i, r, v.loc, "s0", "">> >>), D, P, S, n, leak)
  <2>. DEFINE sw == <<i, r, v.loc, "s0", "">>
  <2>1. sw[1] = i /\ sw[3] = v.loc
    OBVIOUS
  <2>. HIDE DEF sw
  <2>2. WritesVariable(sw, v)
    BY <1>3, <2>1 DEF WritesVariable
  <2>3. ~b.thrown => \E z \in DOMAIN b.syms : WritesVariable(sw, b.syms[z])
    BY <1>2, <2>2
  <2>. QED
    BY <1>1, <2>3, PutStore DEF sw
<1>4. Emitting(a, Put(b, << <<i, r, 0, address, "">> >>), D, P, S, n, leak)
  BY <1>1, PutStore
<1>5. Emitting(a, DeallocateReg(lent.reg, Put(lent, <<lui, store>>)), D, P, S, n, leak)
  <2>. DEFINE E == D \cup {lent.reg}  R == S \cup {lent.reg}
  <2>1. Emitting(a, lent, E, P, R, n, leak)
    BY AllocateEmitting
  <2>2. Into(lui, E)
    <3>1. Computing("lui")
      BY DEF Computing, Stores, Jumps
    <3>. QED
      BY <3>1, Into3
  <2>3. Tame(store, E, a)
    BY <1>1, TameStore
  <2>4. store[1] \notin Jumps \cup {"label"}
    BY <1>1, Mnemonics
  <2>. HIDE DEF lui, store, lent
  <2>5. Tame(lui, E, a) /\ lui[1] \notin Jumps \cup {"label"}
    BY <2>2, IntoTame DEF Into
  <2>6. IsCode(<<lui, store>>) /\ Members(<<lui, store>>) = {lui, store}
    BY List2
  <2>7. Emitting(a, Put(lent, <<lui, store>>), E, P, R, n, leak)
    BY <2>1, <2>3, <2>4, <2>5, <2>6, PutPlain
  <2>. QED
    BY <2>7, Bracket
<1>6. Emitting(a, ThrowIf(v.isArray, DeallocateReg(lent.reg, Put(lent, <<lui, store>>))), D, P, S, n, leak)
  BY <1>5, ThrowIfEmitting
<1>. QED
  BY <1>3, <1>4, <1>6 DEF Store

(***************************************************************************)
(* The emitters, given that those of the operands keep the contract        *)
(***************************************************************************)
Keeps(o, leak) == \A dest, c : IsContext(c) => Emits(c, Emit(o, dest, c), {dest}, leak)

\* An operand that keeps the contract may be emitted in the course of an
\* emission.
LEMMA EmitEmitting ==
  ASSUME NEW a, NEW b, NEW D, NEW P, NEW S, NEW n \in Nat, NEW leak, NEW o, NEW dest \in D,
         IsContext(a), Emitting(a, b, D, P, S, n, leak), Keeps(o, leak)
  PROVE  Emitting(a, Emit(o, dest, b), D, P, S, n, leak)
<1>1. IsContext(b)
  BY DEF Emitting
<1>2. Emits(b, Emit(o, dest, b), {dest}, leak)
  BY <1>1 DEF Keeps
<1>. QED
  BY <1>2, EmittingThen

\* The instructions of the emitters that write their destination.
LEMMA ComputingOps ==
  /\ \A m \in {"li", "lui", "addi", "mv", "slli", "srai", "add", "sub", "fmv", "fcvt", "feq", "flt", "fle",
               "xori", "andi", "seqz", "snez", "slt", "sgt", "neg", "fneg", "not", "call", "fadd", "fsub",
               "fmul", "fdiv", "mul", "div", "rem", "sll", "sra", "and", "xor", "or"} : Computing(m)
BY DEF Computing, Stores, Jumps

\* An identifier in the course of an emission.
LEMMA IdentifierEmitting ==
  ASSUME NEW a, NEW b, NEW D, NEW P, NEW S, NEW n \in Nat, NEW leak, NEW e, NEW dest \in D,
         IsContext(a), Emitting(a, b, D, P, S, n, leak)
  PROVE  Emitting(a, EmitIdentifier(e, dest, b), D, P, S, n, leak)
BY LoadEmitting DEF EmitIdentifier

\* Identifier keeps the contract.
LEMMA IdentifierEmits ==
  ASSUME NEW c, NEW leak, NEW e, NEW dest, IsContext(c)
  PROVE  Emits(c, EmitIdentifier(e, dest, c), {dest}, leak)
<1>1. Emits(c, c, {dest}, leak)
  BY EmittingStart
<1>. QED
  BY <1>1, IdentifierEmitting DEF Emits

\* IntConstant and CharConstant keep it.
LEMMA ConstantEmits ==
  ASSUME NEW c, NEW leak, NEW e, NEW dest, IsContext(c)
  PROVE  Emits(c, EmitConstant(e, dest, c), {dest}, leak)
<1>1. Emitting(c, c, {dest}, {}, {}, 0, leak)
  BY EmittingStart DEF Emits
<1>2. Into(<<"li", dest, e.value>>, {dest})
  BY ComputingOps, Into3
<1>. QED
  BY <1>1, <1>2, PutOne DEF EmitConstant, Emits

\* SizeOf keeps it.
LEMMA SizeofEmits ==
  ASSUME NEW c, NEW leak, NEW e, NEW dest, IsContext(c)
  PROVE  Emits(c, EmitSizeof(e, dest, c), {dest}, leak)
<1>1. Emitting(c, c, {dest}, {}, {}, 0, leak)
  BY EmittingStart DEF Emits
<1>2. Into(<<"li", dest, GetBytes(GetType(e.operand, c.syms))>>, {dest})
  BY ComputingOps, Into3
<1>. QED
  BY <1>1, <1>2, PutOne DEF EmitSizeof, Emits

\* A call without arguments keeps it.
LEMMA CallEmits ==
  ASSUME NEW c, NEW leak, NEW dest, IsContext(c)
  PROVE  Emits(c, EmitCall(dest, c), {dest}, leak)
<1>1. Emitting(c, InitializeArgRegs(c), {dest}, {}, {}, 0, leak)
  BY EmittingStart, ClearArgsEmitting DEF Emits
<1>2. Into(<<"mv", dest, "a0">>, {dest})
  BY ComputingOps, Into3
<1>3. Into(<<"call", "f">>, {dest})
  BY ComputingOps DEF Into, Computing
<1>. QED
  BY <1>1, <1>2, <1>3, PutTwo DEF EmitCall, Emits

\* FloatConstant borrows a register for the address and gives it back.
LEMMA FloatConstantEmits ==
  ASSUME NEW c, NEW leak, NEW e, NEW dest, IsContext(c)
  PROVE  Emits(c, EmitFloatConstant(e, dest, c), {dest}, leak)
<1>. DEFINE lent == AllocateArgReg("INT", c)
            made == MakeConst(c.type, e.value, lent)
            at   == LastConst(made)
            lui  == <<"lui", lent.reg, at>>
            flw  == <<LoadInstr(c.type), dest, at, lent.reg, "%lo">>
            load == Put(made, <<lui, flw>>)
            D == {dest} \cup {lent.reg}
            S == {} \cup {lent.reg}
<1>1. Emitting(c, lent, D, {}, S, 0, leak)
  BY EmittingStart, AllocateArgEmitting DEF Emits
<1>2. Emitting(c, made, D, {}, S, 0, leak)
  BY <1>1, MakeConstEmitting
<1>3. Into(lui, D)
  BY ComputingOps, Into3
<1>4. Into(flw, D)
  BY Mnemonics, Into5
<1>5. EmitFloatConstant(e, dest, c) =
        IF c.type \in {"FLOAT", "DOUBLE"} THEN DeallocateReg(lent.reg, load) ELSE Throw(c)
  BY DEF EmitFloatConstant
<1>. HIDE DEF made, lui, flw
<1>6. Emitting(c, load, D, {}, S, 0, leak)
  BY <1>2, <1>3, <1>4, PutTwo
<1>7. Emitting(c, DeallocateReg(lent.reg, load), {dest}, {}, {}, 0, leak)
  BY <1>6, Bracket
<1>9. Emitting(c, Throw(c), {dest}, {}, {}, 0, leak)
  BY ThrowEmitting
<1>. QED
  BY <1>5, <1>7, <1>9 DEF Emits

-----------------------------------------------------------------------------

\* A difference of pointers, a pointer and an integer: into the registers of
\* the emission.
LEMMA PointerOperationEmitting ==
  ASSUME NEW a, NEW b, NEW D, NEW P, NEW S, NEW n \in Nat, NEW leak, NEW e, NEW dest \in D, NEW r \in D,
         IsContext(a), Emitting(a, b, D, P, S, n, leak)
  PROVE  Emitting(a, PointerOperation(e, dest, r, b), D, P, S, n, leak)
<1>. DEFINE shift == Log2Bytes(GetType(e.left, b.syms))
            scale == <<"slli", r, r, shift>>
            back  == <<"srai", dest, dest, shift>>
            add   == <<"add", dest, dest, r>>
            sub   == <<"sub", dest, dest, r>>
<1>1. Into(scale, D) /\ Into(back, D) /\ Into(add, D) /\ Into(sub, D)
  BY ComputingOps, Into4
<1>2. PointerOperation(e, dest, r, b) =
        CASE e.op = "+" -> Put(b, <<scale, add>>)
          [] e.op = "-" ->
               IF ~GetIsPointer(GetIdentifier(e.right), b.syms)
               THEN Put(b, <<scale, sub>>)
               ELSE Put(Put(b, <<sub>>), IF shift = 0 THEN << >> ELSE <<back>>)
          [] OTHER -> Throw(b)
  BY DEF PointerOperation
<1>. HIDE DEF shift, scale, back, add, sub
<1>3. Emitting(a, Put(b, <<scale, add>>), D, P, S, n, leak)
  BY <1>1, PutTwo
<1>4. Emitting(a, Put(b, <<scale, sub>>), D, P, S, n, leak)
  BY <1>1, PutTwo
<1>5. Emitting(a, Put(b, <<sub>>), D, P, S, n, leak)
  BY <1>1, PutOne
<1>6. Emitting(a, Put(Put(b, <<sub>>), <<back>>), D, P, S, n, leak)
  BY <1>1, <1>5, PutOne
<1>7. Emitting(a, Put(Put(b, <<sub>>), << >>), D, P, S, n, leak)
  BY <1>5, List0, PutInto
<1>8. Emitting(a, Throw(b), D, P, S, n, leak)
  BY ThrowEmitting DEF Emitting
<1>. QED
  BY <1>2, <1>3, <1>4, <1>6, <1>7, <1>8

\* Floating arithmetic writes its destination, or throws.
LEMMA FloatOperationEmitting ==
  ASSUME NEW a, NEW b, NEW D, NEW P, NEW S, NEW n \in Nat, NEW leak, NEW e, NEW type, NEW dest \in D, NEW r \in D,
         IsContext(a), Emitting(a, b, D, P, S, n, leak), e.op \in {"+", "-", "*", "/", "%", "<<", ">>"}
  PROVE  Emitting(a, FloatOperation(e, type, dest, r, b), D, P, S, n, leak)
<1>1. Emitting(a, Throw(b), D, P, S, n, leak)
  BY ThrowEmitting DEF Emitting
<1>2. ASSUME e.op \in {"+", "-", "*", "/"}
      PROVE  /\ Into(<<FloatInstr(e.op), r, dest, r, type>>, D)
             /\ Into(<<FloatInstr(e.op), dest, dest, r, type>>, D)
             /\ Into(<<"fmv", dest, r, "", type>>, D)
  <2>1. Computing(FloatInstr(e.op)) /\ Computing("fmv")
    BY <1>2, ComputingOps DEF FloatInstr
  <2>. QED
    BY <2>1, Into5
<1>3. ASSUME e.op \in {"+", "-", "*", "/"}
      PROVE  /\ Emitting(a, Put(b, << <<FloatInstr(e.op), r, dest, r, type>>, <<"fmv", dest, r, "", type>> >>),
                         D, P, S, n, leak)
             /\ Emitting(a, Put(b, << <<FloatInstr(e.op), dest, dest, r, type>> >>), D, P, S, n, leak)
  BY <1>2, <1>3, PutOne, PutTwo
<1>. QED
  BY <1>1, <1>3 DEF FloatOperation

\* The operator itself, whichever its kind.
LEMMA ApplyEmitting ==
  ASSUME NEW a, NEW b, NEW D, NEW P, NEW S, NEW n \in Nat, NEW leak, NEW e, NEW p, NEW type,
         NEW dest \in D, NEW r \in D,
         IsContext(a), Emitting(a, b, D, P, S, n, leak), e.op \in {"+", "-", "*", "/", "%", "<<", ">>"}
  PROVE  Emitting(a, ApplyOperation(e, p, type, dest, r, b), D, P, S, n, leak)
<1>1. Computing(IntInstr(e.op))
  BY ComputingOps DEF IntInstr
<1>2. Emitting(a, Put(b, << <<IntInstr(e.op), dest, dest, r>> >>), D, P, S, n, leak)
  BY <1>1, Into4, PutOne
<1>. QED
  BY <1>2, PointerOperationEmitting, FloatOperationEmitting DEF ApplyOperation

\* What Operation makes room for is what it stores there.
LEMMA ParkedSizes ==
  ASSUME NEW type
  PROVE  GetBytes(type) \in Nat /\ Unit[StoreInstr(type)] = GetBytes(type) /\ Unit["sw"] = 4
BY DEF GetBytes, StoreInstr, Unit

\* Operation keeps the contract: its left operand is parked, however its right
\* one nests, and both registers and the room are given back.
LEMMA OperationEmits ==
  ASSUME NEW c, NEW leak, NEW e, NEW dest, IsContext(c), e.op \in {"+", "-", "*", "/", "%", "<<", ">>"},
         Keeps(e.left, leak), Keeps(e.right, leak)
  PROVE  Emits(c, EmitOperation(e, dest, c), {dest}, leak)
<1>. DEFINE left    == Emit(e.left, dest, c)
            pointer == GetIsPointer(GetIdentifier(e.left), c.syms)
            type    == GetType(e.left, c.syms)
            bytes   == IF pointer THEN 4 ELSE GetBytes(type)
            store   == IF pointer THEN "sw" ELSE StoreInstr(type)
            load    == IF pointer THEN "lw" ELSE LoadInstr(type)
            parked  == PushStack(bytes, left)
            stored  == Put(parked, << <<store, dest, parked.sp, "s0", "">> >>)
            lent    == AllocateReg(GetType(e.right, c.syms), stored)
            right   == Emit(e.right, lent.reg, lent)
            loaded  == Put(right, << <<load, dest, parked.sp, "s0", "">> >>)
            both    == PopStack(bytes, loaded)
            D == {dest} \cup {lent.reg}
            S == {} \cup {lent.reg}
<1>1. EmitOperation(e, dest, c) = DeallocateReg(lent.reg, ApplyOperation(e, pointer, type, dest, lent.reg, both))
  BY DEF EmitOperation
<1>2. bytes \in Nat /\ store \in Stores /\ Unit[store] <= bytes /\ Computing(load)
  BY ParkedSizes, Mnemonics DEF Stores, Loads
<1>. HIDE DEF pointer, type, bytes, store, load
<1>3. Emitting(c, left, {dest}, {}, {}, 0, leak)
  BY EmittingStart, EmitEmitting DEF Emits
<1>. HIDE DEF left
<1>4. Emitting(c, parked, {dest}, {}, {}, bytes, leak) /\ (parked.thrown \/ parked.sp >= -FrameBytes)
  BY <1>2, <1>3, PushEmitting
<1>. HIDE DEF parked
<1>5. Emitting(c, stored, {dest}, {}, {}, bytes, leak)
  BY <1>2, <1>4, PutParked
<1>. HIDE DEF stored
<1>6. Emitting(c, lent, D, {}, S, bytes, leak)
  BY <1>5, AllocateEmitting
<1>. HIDE DEF lent
<1>7. Emitting(c, right, D, {}, S, bytes, leak)
  BY <1>2, <1>6, EmitEmitting
<1>. HIDE DEF right
<1>8. Emitting(c, loaded, D, {}, S, 0 + bytes, leak)
  <2>0. dest \in D
    OBVIOUS
  <2>1. Into(<<load, dest, parked.sp, "s0", "">>, D)
    BY <1>2, <2>0, Into5
  <2>2. Emitting(c, loaded, D, {}, S, bytes, leak)
    BY <1>2, <1>7, <2>1, PutOne
  <2>3. 0 + bytes = bytes
    BY <1>2
  <2>. QED
    BY <2>2, <2>3
<1>. HIDE DEF loaded
<1>9. Emitting(c, both, D, {}, S, 0, leak)
  BY <1>2, <1>8, PopEmitting
<1>. HIDE DEF both
<1>10. Emitting(c, ApplyOperation(e, pointer, type, dest, lent.reg, both), D, {}, S, 0, leak)
  BY <1>9, ApplyEmitting
<1>. QED
  BY <1>1, <1>10, Bracket DEF Emits

\* One more or less of a float or double.
LEMMA FloatStepEmitting ==
  ASSUME NEW a, NEW b, NEW D, NEW P, NEW S, NEW n \in Nat, NEW leak, NEW e, NEW type, NEW r \in D,
         IsContext(a), Emitting(a, b, D, P, S, n, leak)
  PROVE  Emitting(a, FloatStep(e, type, r, b), D, P, S, n, leak)
<1>. DEFINE forBase == AllocateArgReg("INT", b)
            lent    == AllocateArgReg(type, forBase)
            made    == MakeConst(type, 1, lent)
            at      == LastConst(made)
            lui     == <<"lui", forBase.reg, at>>
            load    == <<LoadInstr(type), lent.reg, at, forBase.reg, "%lo">>
            step    == <<IF e.op = "++" THEN "fadd" ELSE "fsub", r, r, lent.reg, type>>
            done    == Put(made, <<lui, load, step>>)
            C == D \cup {forBase.reg}
            R == S \cup {forBase.reg}
            E == C \cup {lent.reg}
            T == R \cup {lent.reg}
<1>1. FloatStep(e, type, r, b) = DeallocateReg(lent.reg, DeallocateReg(forBase.reg, done))
  BY DEF FloatStep
<1>2. Emitting(a, forBase, C, P, R, n, leak)
  BY AllocateArgEmitting
<1>3. Emitting(a, lent, E, P, T, n, leak)
  BY <1>2, AllocateArgEmitting
<1>4. Emitting(a, made, E, P, T, n, leak)
  BY <1>3, MakeConstEmitting
<1>5. Into(lui, E) /\ Into(load, E) /\ Into(step, E)
  <2>1. forBase.reg \in E /\ lent.reg \in E /\ r \in E
    OBVIOUS
  <2>2. Computing("lui") /\ Computing(LoadInstr(type)) /\ Computing(IF e.op = "++" THEN "fadd" ELSE "fsub")
    BY ComputingOps, Mnemonics
  <2>. HIDE DEF E
  <2>. QED
    BY <2>1, <2>2, Into3, Into5
<1>. HIDE DEF made, lui, load, step
<1>6. Emitting(a, done, E, P, T, n, leak)
  <2>1. IsCode(<<lui, load, step>>) /\ Members(<<lui, load, step>>) = {lui, load, step}
    BY List3
  <2>2. \A i \in Members(<<lui, load, step>>) : Into(i, E)
    BY <1>5, <2>1
  <2>. QED
    BY <1>4, <2>1, <2>2, PutInto
<1>7. Emitting(a, DeallocateReg(forBase.reg, done), D \cup {lent.reg}, P, S \cup {lent.reg}, n, leak)
  <2>1. /\ forBase.reg \in T /\ S \cup {lent.reg} \subseteq T
        /\ T \subseteq (S \cup {lent.reg}) \cup {forBase.reg}
        /\ E \subseteq (D \cup {lent.reg}) \cup {forBase.reg}
    OBVIOUS
  <2>. HIDE DEF E, T, done
  <2>. QED
    BY <1>6, <2>1, DeallocateEmitting
<1>. QED
  BY <1>1, <1>7, Bracket

\* One more or less of what ++ and -- count.
LEMMA StepEmitting ==
  ASSUME NEW a, NEW b, NEW D, NEW P, NEW S, NEW n \in Nat, NEW leak, NEW e, NEW x, NEW r \in D,
         IsContext(a), Emitting(a, b, D, P, S, n, leak)
  PROVE  Emitting(a, Step(e, x, r, b), D, P, S, n, leak)
<1>. DEFINE width == IF GetIsPointer(x, b.syms) THEN GetBytes(Var(x, b).type) ELSE 1
            add   == <<"addi", r, r, IF e.op = "++" THEN width ELSE -width>>
<1>1. Into(add, D)
  BY ComputingOps, Into4
<1>2. Emitting(a, Put(b, <<add>>), D, P, S, n, leak)
  BY <1>1, PutOne
<1>. QED
  BY <1>2, FloatStepEmitting DEF Step

\* A move writes its destination.
LEMMA MoveInto ==
  ASSUME NEW type, NEW r, NEW s, NEW D, r \in D
  PROVE  Into(Move(type, r, s), D)
BY ComputingOps, Into3, Into5 DEF Move

\* The register the old value is counted up or down in.
Counted(e, dest, c) ==
  LET x    == GetIdentifier(e.operand)
      type == Var(x, c).type
      lent == AllocateReg(type, Emit(e.operand, dest, c))
      next == Step(e, x, lent.reg, Put(lent, <<Move(type, lent.reg, dest)>>))
  IN  [reg |-> lent.reg, store |-> Store(x, lent.reg, "", next)]

\* What ++ and -- have in common: the register they borrow is still lent.
LEMMA CountedEmitting ==
  ASSUME NEW c, NEW leak, NEW e, NEW dest, IsContext(c), Keeps(e.operand, leak),
         GetIdentifier(e.operand) \in DOMAIN c.syms
  PROVE  LET counted == Counted(e, dest, c)
         IN  Emitting(c, counted.store, {dest} \cup {counted.reg}, {}, {} \cup {counted.reg}, 0, leak)
<1>. DEFINE x    == GetIdentifier(e.operand)
            type == Var(x, c).type
            value == Emit(e.operand, dest, c)
            lent == AllocateReg(type, value)
            move == Move(type, lent.reg, dest)
            moved == Put(lent, <<move>>)
            next == Step(e, x, lent.reg, moved)
            D == {dest} \cup {lent.reg}
            S == {} \cup {lent.reg}
<1>1. Counted(e, dest, c).reg = lent.reg /\ Counted(e, dest, c).store = Store(x, lent.reg, "", next)
  BY DEF Counted
<1>2. Emitting(c, value, {dest}, {}, {}, 0, leak)
  BY EmittingStart, EmitEmitting DEF Emits
<1>. HIDE DEF value
<1>3. Emitting(c, lent, D, {}, S, 0, leak)
  BY <1>2, AllocateEmitting
<1>4. lent.reg \in D
  OBVIOUS
<1>. HIDE DEF lent, D, S
<1>5. Into(move, D)
  BY <1>4, MoveInto
<1>. HIDE DEF move
<1>6. Emitting(c, moved, D, {}, S, 0, leak)
  BY <1>3, <1>5, PutOne
<1>. HIDE DEF moved
<1>7. Emitting(c, next, D, {}, S, 0, leak)
  BY <1>4, <1>6, StepEmitting
<1>. HIDE DEF next
<1>8. Emitting(c, Store(x, lent.reg, "", next), D, {}, S, 0, leak)
  <2>1. "" \in D \cup {""}
    OBVIOUS
  <2>. QED
    BY <1>7, <2>1, StoreEmitting
<1>. QED
  BY <1>1, <1>8 DEF D, S

\* Increment keeps the contract.
LEMMA IncrementEmits ==
  ASSUME NEW c, NEW leak, NEW e, NEW dest, IsContext(c), Keeps(e.operand, leak)
  PROVE  Emits(c, EmitIncrement(e, dest, c), {dest}, leak)
<1>. DEFINE r == Counted(e, dest, c).reg  stored == Counted(e, dest, c).store
<1>1. EmitIncrement(e, dest, c) =
        IF GetIdentifier(e.operand) \notin DOMAIN c.syms THEN Throw(c) ELSE DeallocateReg(r, stored)
  BY DEF EmitIncrement, Counted
<1>2. Emitting(c, Throw(c), {dest}, {}, {}, 0, leak)
  BY ThrowEmitting
<1>3. ASSUME GetIdentifier(e.operand) \in DOMAIN c.syms
      PROVE  Emitting(c, stored, {dest} \cup {r}, {}, {} \cup {r}, 0, leak)
  BY <1>3, CountedEmitting
<1>. HIDE DEF r, stored
<1>4. ASSUME GetIdentifier(e.operand) \in DOMAIN c.syms
      PROVE  Emitting(c, DeallocateReg(r, stored), {dest}, {}, {}, 0, leak)
  BY <1>3, <1>4, Bracket
<1>. QED
  BY <1>1, <1>2, <1>4 DEF Emits

\* PreIncrement keeps it.
LEMMA PreIncrementEmits ==
  ASSUME NEW c, NEW leak, NEW e, NEW dest, IsContext(c), Keeps(e.operand, leak)
  PROVE  Emits(c, EmitPreIncrement(e, dest, c), {dest}, leak)
<1>. DEFINE r == Counted(e, dest, c).reg  stored == Counted(e, dest, c).store
            move == Move(Var(GetIdentifier(e.operand), c).type, dest, r)
<1>1. EmitPreIncrement(e, dest, c) =
        IF GetIdentifier(e.operand) \notin DOMAIN c.syms THEN Throw(c) ELSE DeallocateReg(r, Put(stored, <<move>>))
  BY DEF EmitPreIncrement, Counted
<1>2. Emitting(c, Throw(c), {dest}, {}, {}, 0, leak)
  BY ThrowEmitting
<1>3. ASSUME GetIdentifier(e.operand) \in DOMAIN c.syms
      PROVE  Emitting(c, stored, {dest} \cup {r}, {}, {} \cup {r}, 0, leak)
  BY <1>3, CountedEmitting
<1>4. Into(move, {dest} \cup {r})
  BY MoveInto
<1>. HIDE DEF r, stored, move
<1>5. ASSUME GetIdentifier(e.operand) \in DOMAIN c.syms
      PROVE  Emitting(c, Put(stored, <<move>>), {dest} \cup {r}, {}, {} \cup {r}, 0, leak)
  BY <1>3, <1>4, <1>5, PutOne
<1>6. ASSUME GetIdentifier(e.operand) \in DOMAIN c.syms
      PROVE  Emitting(c, DeallocateReg(r, Put(stored, <<move>>)), {dest}, {}, {}, 0, leak)
  BY <1>5, <1>6, Bracket
<1>. QED
  BY <1>1, <1>2, <1>6 DEF Emits

\* Jumps and labels write no register.
LEMMA JumpTame ==
  ASSUME NEW i, NEW D, NEW c, i[1] \in Jumps \cup {"label"}
  PROVE  Tame(i, D, c)
BY DEF Tame, Clobbers, StoresInPlace, Stores, Jumps

\* Labels made one after the other are different.
LEMMA NewLabels ==
  ASSUME NEW c, NEW p \in LabelPrefixes, IsContext(c)
  PROVE  /\ NewLabel(p, 1, c) # NewLabel(p, 2, c)
         /\ NewLabel(p, 1, c) # NewLabel(p, 3, c)
         /\ NewLabel(p, 2, c) # NewLabel(p, 3, c)
<1>1. c.labels[p] \in Nat
  BY DEF IsContext
<1>. DEFINE n == c.labels[p]
<1>. HIDE DEF n
<1>2. n \in Nat
  BY <1>1 DEF n
<1>3. <<p, n + 1>> # <<p, n + 2>> /\ <<p, n + 1>> # <<p, n + 3>> /\ <<p, n + 2>> # <<p, n + 3>>
  BY <1>2
<1>. QED
  BY <1>3 DEF NewLabel, n

Plain(i) == i[1] \notin Jumps \cup {"label"}

\* The code that ends a test: one way or the other, and the place they meet.
Meets(is, u, y, f, g) == is = <<u, <<"j", g>>, <<"label", f>>, y, <<"label", g>> >>

Met(is, u, y, f, g) ==
  /\ IsCode(is) /\ Distinct(is) /\ Labels(is) = {f, g} /\ Uses(is) = {g}
  /\ Members(is) = {u, <<"j", g>>, <<"label", f>>, y, <<"label", g>>}

\* The two labels where the branches of a connective meet are defined once and
\* used.
LEMMA Meeting ==
  ASSUME NEW u, NEW y, NEW f, NEW g, Plain(u), Plain(y), f # g, NEW is,
         Meets(is, u, y, f, g)
  PROVE  Met(is, u, y, f, g)
<1>. DEFINE v == <<"j", g>>  x == <<"label", f>>  z == <<"label", g>>
<1>1. /\ v[1] = "j" /\ Len(v) = 2 /\ v[2] = g
      /\ x[1] = "label" /\ x[2] = f /\ z[1] = "label" /\ z[2] = g
  OBVIOUS
<1>2. "j" \in Jumps /\ "label" \notin Jumps /\ "j" # "label"
  BY DEF Jumps
<1>0. is = <<u, v, x, y, z>>
  BY DEF Meets
<1>. HIDE DEF v, x, z
<1>3. IsCode(is) /\ Members(is) = {u, v, x, y, z}
  BY <1>0, List5
<1>4. Labels(is) = {f, g}
  BY <1>1, <1>2, <1>3 DEF Labels, Plain
<1>5. Uses(is) = {g}
  BY <1>1, <1>2, <1>3, UsesMembers DEF Plain
<1>6. Distinct(is)
  <2>1. DOMAIN is = 1 .. 5 /\ is[1] = u /\ is[2] = v /\ is[3] = x /\ is[4] = y /\ is[5] = z
    BY <1>0
  <2>2. \A j \in 1 .. 5 : is[j][1] = "label" => (j = 3 /\ is[j][2] = f) \/ (j = 5 /\ is[j][2] = g)
    BY <1>1, <1>2, <2>1 DEF Plain
  <2>. QED
    BY <2>1, <2>2 DEF Distinct
<1>. QED
  BY <1>3, <1>4, <1>5, <1>6 DEF Met, v, x, z

\* Code that jumps but places no label.
LEMMA NoLabels ==
  ASSUME NEW is, IsCode(is), \A i \in Members(is) : i[1] # "label"
  PROVE  Distinct(is) /\ Labels(is) = {}
BY DEF Distinct, Labels, Members

\* An instruction into a register is neither a jump nor a label.
LEMMA PlainOps ==
  ASSUME NEW i, NEW D, Into(i, D)
  PROVE  Plain(i)
BY DEF Into, Plain

\* Code that places the labels of L, and jumps to no others.
Placing(is, L, D, c) ==
  /\ IsCode(is) /\ Distinct(is) /\ Labels(is) = L /\ Uses(is) \subseteq L
  /\ \A i \in Members(is) : Tame(i, D, c)

\* Code that defines the labels that were still to be placed places them.
LEMMA PutPlacing ==
  ASSUME NEW a, NEW b, NEW D, NEW L, NEW S, NEW n \in Nat, NEW leak, NEW is,
         IsContext(a), Emitting(a, b, D, L, S, n, leak), Placing(is, L, D, a)
  PROVE  Emitting(a, Put(b, is), D, {}, S, n, leak)
<1>1. IsCode(is) /\ Distinct(is) /\ Labels(is) \subseteq L /\ Uses(is) \subseteq L /\ L \ Labels(is) = {}
  BY DEF Placing
<1>2. b.thrown \/ \A i \in Members(is) : Tame(i, D, a)
  BY DEF Placing
<1>3. Emitting(a, Put(b, is), D, L \ Labels(is), S, n, leak)
  BY <1>1, <1>2, PutEmits
<1>. QED
  BY <1>1, <1>3

\* Floating && and || define each of their labels once.
LEMMA ConnectiveCode ==
  ASSUME NEW u, NEW x, NEW v, NEW w, NEW enter, NEW j, NEW k, NEW D, NEW c, NEW t, NEW f, NEW g, NEW res,
         Into(u, D), Into(v, D), Into(x, D), Into(j, D), Into(k, D), f # g,
         \/ enter = << >> /\ w = <<"bnez", res, f>> /\ t = g
         \/ enter = << <<"label", t>> >> /\ w = <<"beqz", res, t>> /\ t # f /\ t # g
  PROVE  LET is == <<u, x, w, v, <<"bnez", res, f>> >> \o enter
                   \o <<j, <<"j", g>>, <<"label", f>>, k, <<"label", g>> >>
         IN  Placing(is, {t, f, g}, D, c)
<1>. DEFINE y == <<"bnez", res, f>>
            first == <<u, x, w, v, y>>
            last == <<j, <<"j", g>>, <<"label", f>>, k, <<"label", g>> >>
            mid == first \o enter
            is == mid \o last
<1>1. /\ y[1] = "bnez" /\ Len(y) = 3 /\ y[3] = f
      /\ w[1] \in {"bnez", "beqz"} /\ w[Len(w)] \in {t, f}
  <2>1. CASE w = <<"bnez", res, f>>
    <3>1. w[1] = "bnez" /\ Len(w) = 3 /\ w[3] = f
      BY <2>1
    <3>. QED
      BY <3>1
  <2>2. CASE w = <<"beqz", res, t>>
    <3>1. w[1] = "beqz" /\ Len(w) = 3 /\ w[3] = t
      BY <2>2
    <3>. QED
      BY <3>1
  <2>3. y[1] = "bnez" /\ Len(y) = 3 /\ y[3] = f
    OBVIOUS
  <2>. QED
    BY <2>1, <2>2, <2>3
<1>2. {"j", "bnez", "beqz"} \subseteq Jumps /\ "label" \notin Jumps
  BY DEF Jumps
<1>3. Plain(u) /\ Plain(x) /\ Plain(v) /\ Plain(j) /\ Plain(k)
  BY PlainOps
<1>4. /\ IsCode(last) /\ Distinct(last) /\ Labels(last) = {f, g} /\ Uses(last) = {g}
      /\ Members(last) = {j, <<"j", g>>, <<"label", f>>, k, <<"label", g>>}
  <2>1. Meets(last, j, k, f, g)
    BY DEF Meets
  <2>2. f # g
    OBVIOUS
  <2>3. Met(last, j, k, f, g)
    BY <1>3, <2>1, <2>2, Meeting
  <2>. QED
    BY <2>3 DEF Met
<1>5. \A i \in Members(last) : Tame(i, D, c)
  <2>1. Tame(<<"j", g>>, D, c) /\ Tame(<<"label", f>>, D, c) /\ Tame(<<"label", g>>, D, c)
    BY <1>2, JumpTame
  <2>2. Tame(j, D, c) /\ Tame(k, D, c)
    BY IntoTame
  <2>. QED
    BY <1>4, <2>1, <2>2
<1>. HIDE DEF y, last
<1>6. IsCode(first) /\ Members(first) = {u, x, w, v, y}
  BY List5
<1>. HIDE DEF first
<1>7. Distinct(first) /\ Labels(first) = {} /\ Uses(first) \subseteq {t, f, g}
  <2>1. \A i \in Members(first) : i[1] # "label"
    BY <1>1, <1>3, <1>6 DEF Plain
  <2>2. \A i \in Members(first) : i[1] \in Jumps => i[Len(i)] \in {t, f, g}
    BY <1>1, <1>3, <1>6 DEF Plain
  <2>. QED
    BY <1>6, <2>1, <2>2, NoLabels, UsesMembers
<1>8. \A i \in Members(first) : Tame(i, D, c)
  <2>1. Tame(w, D, c) /\ Tame(y, D, c)
    BY <1>1, <1>2, JumpTame
  <2>2. Tame(u, D, c) /\ Tame(x, D, c) /\ Tame(v, D, c)
    BY IntoTame
  <2>. QED
    BY <1>6, <2>1, <2>2
<1>9. /\ IsCode(enter) /\ Distinct(enter) /\ Uses(enter) = {} /\ \A i \in Members(enter) : Tame(i, D, c)
      /\ (enter = << >> /\ Labels(enter) = {} /\ t = g) \/ (Labels(enter) = {t} /\ t # f /\ t # g)
  <2>1. CASE enter = << >>
    <3>1. IsCode(enter) /\ Members(enter) = {}
      BY <2>1, List0
    <3>. QED
      BY <2>1, <3>1, NoLabels, UsesMembers
  <2>2. CASE enter = << <<"label", t>> >> /\ t # f /\ t # g
    <3>. DEFINE l == <<"label", t>>
    <3>1. l[1] = "label" /\ l[2] = t
      OBVIOUS
    <3>. HIDE DEF l
    <3>2. enter = <<l>>
      BY <2>2 DEF l
    <3>3. IsCode(enter) /\ Members(enter) = {l}
      BY <3>2, List1
    <3>4. Distinct(enter)
      <4>1. DOMAIN enter = {1}
        BY <3>2
      <4>. QED
        BY <4>1 DEF Distinct
    <3>5. Labels(enter) = {t} /\ Uses(enter) = {}
      BY <1>2, <3>1, <3>3, UsesMembers DEF Labels
    <3>6. Tame(l, D, c)
      BY <3>1, JumpTame
    <3>. QED
      BY <2>2, <3>3, <3>4, <3>5, <3>6
  <2>. QED
    BY <2>1, <2>2
<1>10. /\ IsCode(mid) /\ Distinct(mid) /\ Labels(mid) = Labels(enter) /\ Uses(mid) \subseteq {t, f, g}
       /\ \A i \in Members(mid) : Tame(i, D, c)
  <2>1. Labels(first) \cap Labels(enter) = {}
    BY <1>7
  <2>2. IsCode(mid) /\ Distinct(mid)
    BY <1>6, <1>7, <1>9, <2>1, ConcatFacts, ConcatDistinct
  <2>3. Labels(mid) = Labels(first) \cup Labels(enter) /\ Uses(mid) = Uses(first) \cup Uses(enter)
    BY <1>6, <1>9, ConcatLabels, ConcatUses
  <2>4. Members(mid) = Members(first) \cup Members(enter)
    BY <1>6, <1>9, ConcatMembers
  <2>. HIDE DEF mid
  <2>. QED
    BY <1>7, <1>8, <1>9, <2>2, <2>3, <2>4
<1>. HIDE DEF mid
<1>11. Labels(mid) \cap Labels(last) = {}
  BY <1>4, <1>9, <1>10
<1>12. IsCode(is) /\ Distinct(is)
  BY <1>4, <1>10, <1>11, ConcatFacts, ConcatDistinct
<1>13. Labels(is) = Labels(mid) \cup Labels(last) /\ Uses(is) = Uses(mid) \cup Uses(last)
       /\ Members(is) = Members(mid) \cup Members(last)
  BY <1>4, <1>10, ConcatLabels, ConcatUses, ConcatMembers
<1>. HIDE DEF is
<1>14. /\ IsCode(is) /\ Distinct(is) /\ Labels(is) = {t, f, g} /\ Uses(is) \subseteq {t, f, g}
       /\ \A i \in Members(is) : Tame(i, D, c)
  BY <1>4, <1>5, <1>9, <1>10, <1>12, <1>13
<1>. QED
  BY <1>14 DEF Placing, is, mid, first, last, y

\* The connective of two floating operands.
LEMMA FloatConnectiveEmitting ==
  ASSUME NEW a, NEW b, NEW D, NEW S, NEW n \in Nat, NEW leak, NEW e, NEW type,
         NEW l, NEW r, NEW res \in D,
         IsContext(a), Emitting(a, b, D, {}, S, n, leak)
  PROVE  Emitting(a, FloatConnective(e, type, l, r, res, b), D, {}, S, n, leak)
<1>. DEFINE false == NewLabel(".L", 1, b)
            true  == NewLabel(".L", 2, b)
            third == NewLabel(".L", 3, b)
            end   == IF e.op = "&&" THEN true ELSE third
            k     == IF e.op = "&&" THEN 2 ELSE 3
            made  == MakeLabels(".L", k, b)
            lent  == AllocateReg(type, made)
            zero  == lent.reg
            leave == IF e.op = "&&" THEN <<"bnez", res, false>> ELSE <<"beqz", res, true>>
            enter == IF e.op = "&&" THEN << >> ELSE << <<"label", true>> >>
            u == <<"fcvt", zero, "zero", "", type>>
            x == <<"feq", res, l, zero, type>>
            y == <<"feq", res, r, zero, type>>
            is == <<u, x, leave, y, <<"bnez", res, false>> >> \o enter
                  \o << <<"li", res, 1>>, <<"j", end>>, <<"label", false>>, <<"li", res, 0>>, <<"label", end>> >>
            L == {true, false, end}
            C == D \cup {zero}
            R == S \cup {zero}
<1>1. FloatConnective(e, type, l, r, res, b) = DeallocateReg(zero, Put(lent, is))
  BY DEF FloatConnective
<1>2. IsContext(b) /\ ".L" \in LabelPrefixes /\ k \in Nat
  BY DEF Emitting, LabelPrefixes
<1>3. false # true /\ false # third /\ true # third
  BY <1>2, NewLabels
<1>4. L \subseteq {NewLabel(".L", i, b) : i \in 1 .. k}
  OBVIOUS
<1>5. Emitting(a, made, D, {} \cup L, S, n, leak)
  <2>. HIDE DEF L, k
  <2>. QED
    BY <1>2, <1>4, MakeLabelsEmitting
<1>. HIDE DEF made
<1>6. {} \cup L = L
  OBVIOUS
<1>7. Emitting(a, lent, C, L, R, n, leak)
  <2>. HIDE DEF L
  <2>. QED
    BY <1>5, <1>6, AllocateEmitting
<1>. HIDE DEF lent, true, false, third
<1>8. Into(u, C) /\ Into(x, C) /\ Into(y, C) /\ Into(<<"li", res, 1>>, C) /\ Into(<<"li", res, 0>>, C)
  <2>1. zero \in C /\ res \in C
    OBVIOUS
  <2>. HIDE DEF C, zero
  <2>. QED
    BY <2>1, ComputingOps, Into3, Into5
<1>9. Placing(is, L, C, a)
  <2>1. \/ enter = << >> /\ leave = <<"bnez", res, false>> /\ true = end
        \/ enter = << <<"label", true>> >> /\ leave = <<"beqz", res, true>> /\ true # false /\ true # end
    BY <1>3
  <2>2. false # end
    BY <1>3
  <2>. DEFINE one == <<"li", res, 1>>  null == <<"li", res, 0>>
  <2>3. Into(one, C) /\ Into(null, C)
    BY <1>8
  <2>. HIDE DEF u, x, y, enter, leave, end, C, one, null
  <2>4. Placing(<<u, x, leave, y, <<"bnez", res, false>> >> \o enter
                \o <<one, <<"j", end>>, <<"label", false>>, null, <<"label", end>> >>, {true, false, end}, C, a)
    BY <1>8, <2>1, <2>2, <2>3, ConnectiveCode
  <2>. QED
    BY <2>4 DEF one, null
<1>. HIDE DEF is, L, C, R
<1>10. Emitting(a, Put(lent, is), C, {}, R, n, leak)
  BY <1>7, <1>9, PutPlacing
<1>. QED
  BY <1>1, <1>10, Bracket DEF C, R

\* A floating comparison writes its destination.
LEMMA FloatTestInto ==
  ASSUME NEW e, NEW type, NEW l, NEW r, NEW res, NEW D, res \in D,
         e.op \in {"<", ">", "<=", ">=", "==", "!="}
  PROVE  IsCode(FloatTest(e, type, l, r, res)) /\ \A i \in Members(FloatTest(e, type, l, r, res)) : Into(i, D)
<1>. DEFINE lt == <<"flt", res, l, r, type>>  gt == <<"flt", res, r, l, type>>
            le == <<"fle", res, l, r, type>>  ge == <<"fle", res, r, l, type>>
            eq == <<"feq", res, l, r, type>>  neg == <<"xori", res, res, 1>>
            t == FloatTest(e, type, l, r, res)
<1>1. Into(lt, D) /\ Into(gt, D) /\ Into(le, D) /\ Into(ge, D) /\ Into(eq, D) /\ Into(neg, D)
  BY ComputingOps, Into4, Into5
<1>2. t \in {<<lt>>, <<gt>>, <<le>>, <<ge>>, <<eq>>, <<eq, neg>>}
  BY DEF FloatTest
<1>. HIDE DEF lt, gt, le, ge, eq, neg, t
<1>3. IsCode(t) /\ Members(t) \subseteq {lt, gt, le, ge, eq, neg}
  BY <1>2, List1, List2
<1>4. IsCode(t) /\ \A i \in Members(t) : Into(i, D)
  BY <1>1, <1>3
<1>. QED
  BY <1>4 DEF t

\* Floating comparisons and connectives give their register back.
LEMMA FloatLogicalEmitting ==
  ASSUME NEW c, NEW b, NEW leak, NEW e, NEW type, NEW dest, IsContext(c),
         Emitting(c, b, {dest}, {}, {}, 0, leak),
         e.op \in {"<", ">", "<=", ">=", "==", "!=", "&", "|", "^", "&&", "||"},
         Keeps(e.left, leak), Keeps(e.right, leak)
  PROVE  Emitting(c, FloatLogical(e, type, dest, b), {dest}, {}, {}, 0, leak)
<1>. DEFINE forLeft  == AllocateReg(type, b)
            left     == Emit(e.left, forLeft.reg, forLeft)
            forRight == AllocateReg(type, left)
            right    == Emit(e.right, forRight.reg, forRight)
            forBoth  == AllocateReg("INT", right)
            l == forLeft.reg
            r == forRight.reg
            res == forBoth.reg
            tested == CASE e.op \in {"&&", "||"} -> FloatConnective(e, type, l, r, res, forBoth)
                        [] e.op \in {"&", "^", "|"} -> Throw(forBoth)
                        [] OTHER -> Put(forBoth, FloatTest(e, type, l, r, res))
            move == <<"addi", dest, res, 0>>
            moved == Put(tested, <<move>>)
            D == {dest} \cup {l}
            S == {} \cup {l}
            E == D \cup {r}
            T == S \cup {r}
            F == E \cup {res}
            U == T \cup {res}
<1>1. FloatLogical(e, type, dest, b) = DeallocateReg(l, DeallocateReg(r, DeallocateReg(res, moved)))
  BY DEF FloatLogical
<1>2. Emitting(c, forLeft, D, {}, S, 0, leak)
  BY AllocateEmitting
<1>3. l \in D /\ r \in E /\ res \in F /\ dest \in F
  OBVIOUS
<1>. HIDE DEF forLeft, D, S
<1>4. Emitting(c, left, D, {}, S, 0, leak)
  BY <1>2, <1>3, EmitEmitting
<1>. HIDE DEF left
<1>5. Emitting(c, forRight, E, {}, T, 0, leak)
  BY <1>4, AllocateEmitting
<1>. HIDE DEF forRight, E, T
<1>6. Emitting(c, right, E, {}, T, 0, leak)
  BY <1>3, <1>5, EmitEmitting
<1>. HIDE DEF right
<1>7. Emitting(c, forBoth, F, {}, U, 0, leak)
  BY <1>6, AllocateEmitting
<1>. HIDE DEF forBoth, F, U
<1>8. Emitting(c, tested, F, {}, U, 0, leak)
  <2>1. Emitting(c, Throw(forBoth), F, {}, U, 0, leak)
    BY <1>7, ThrowEmitting DEF Emitting
  <2>2. Emitting(c, FloatConnective(e, type, l, r, res, forBoth), F, {}, U, 0, leak)
    BY <1>3, <1>7, FloatConnectiveEmitting
  <2>3. ASSUME e.op \in {"<", ">", "<=", ">=", "==", "!="}
        PROVE  Emitting(c, Put(forBoth, FloatTest(e, type, l, r, res)), F, {}, U, 0, leak)
    <3>1. IsCode(FloatTest(e, type, l, r, res)) /\ \A i \in Members(FloatTest(e, type, l, r, res)) : Into(i, F)
      BY <1>3, <2>3, FloatTestInto
    <3>. QED
      BY <1>7, <3>1, PutInto
  <2>. QED
    BY <2>1, <2>2, <2>3
<1>. HIDE DEF tested
<1>9. Into(move, F)
  BY <1>3, ComputingOps, Into4
<1>. HIDE DEF move
<1>10. Emitting(c, moved, F, {}, U, 0, leak)
  BY <1>8, <1>9, PutOne
<1>. HIDE DEF moved
<1>11. Emitting(c, DeallocateReg(res, moved), E, {}, T, 0, leak)
  BY <1>10, Bracket DEF F, U
<1>12. Emitting(c, DeallocateReg(r, DeallocateReg(res, moved)), D, {}, S, 0, leak)
  BY <1>11, Bracket DEF E, T
<1>. QED
  BY <1>1, <1>12, Bracket DEF D, S

\* Those of doubles have a register each for their operands.
LEMMA DoubleLogicalEmitting ==
  ASSUME NEW c, NEW leak, NEW e, NEW dest, IsContext(c),
         e.op \in {"<", ">", "<=", ">=", "==", "!=", "&", "|", "^", "&&", "||"},
         Keeps(e.left, leak), Keeps(e.right, leak)
  PROVE  Emitting(c, DoubleLogical(e, dest, c), {dest}, {}, {}, 0, leak)
<1>1. Emitting(c, c, {dest}, {}, {}, 0, leak)
  BY EmittingStart DEF Emits
<1>2. Emitting(c, [c EXCEPT !.type = "DOUBLE"], {dest}, {}, {}, 0, leak)
  BY <1>1, SetTypeEmitting
<1>. QED
  BY <1>2, FloatLogicalEmitting DEF DoubleLogical

\* An integer comparison writes its destination.
LEMMA IntTestInto ==
  ASSUME NEW o, NEW dest, NEW l, NEW D, dest \in D, o \in {"<", ">", "<=", ">=", "==", "!="}
  PROVE  IsCode(IntTest(o, dest, l)) /\ \A i \in Members(IntTest(o, dest, l)) : Into(i, D)
<1>. DEFINE slt == <<"slt", dest, l, dest>>  sgt == <<"sgt", dest, l, dest>>
            sub == <<"sub", dest, l, dest>>  neg == <<"xori", dest, dest, 1>>
            seqz == <<"seqz", dest, dest>>   snez == <<"snez", dest, dest>>
            last == <<"andi", dest, dest, 255>>
            t == CASE o = "<"  -> <<slt>>
                   [] o = ">"  -> <<sgt>>
                   [] o = "<=" -> <<sgt, neg>>
                   [] o = ">=" -> <<slt, neg>>
                   [] o = "==" -> <<sub, seqz>>
                   [] o = "!=" -> <<sub, snez>>
<1>1. /\ Into(slt, D) /\ Into(sgt, D) /\ Into(sub, D) /\ Into(neg, D) /\ Into(seqz, D) /\ Into(snez, D)
      /\ Into(last, D)
  BY ComputingOps, Into3, Into4
<1>2. IntTest(o, dest, l) = t \o <<last>>
  BY DEF IntTest
<1>. HIDE DEF slt, sgt, sub, neg, seqz, snez, last
<1>3. t \in {<<slt>>, <<sgt>>, <<sgt, neg>>, <<slt, neg>>, <<sub, seqz>>, <<sub, snez>>}
  OBVIOUS
<1>. HIDE DEF t
<1>4. IsCode(t) /\ Members(t) \subseteq {slt, sgt, sub, neg, seqz, snez}
  BY <1>3, List1, List2
<1>5. IsCode(<<last>>) /\ Members(<<last>>) = {last}
  BY List1
<1>6. IsCode(t \o <<last>>) /\ Members(t \o <<last>>) = Members(t) \cup {last}
  BY <1>4, <1>5, ConcatFacts, ConcatMembers
<1>. QED
  BY <1>1, <1>2, <1>4, <1>6

\* A jump to a label that is still to be placed.
LEMMA PutJump ==
  ASSUME NEW a, NEW b, NEW D, NEW P, NEW S, NEW n \in Nat, NEW leak, NEW i,
         IsContext(a), Emitting(a, b, D, P, S, n, leak), i[1] \in Jumps, i[Len(i)] \in P
  PROVE  Emitting(a, Put(b, <<i>>), D, P, S, n, leak)
<1>1. IsCode(<<i>>) /\ Members(<<i>>) = {i}
  BY List1
<1>2. i[1] # "label"
  BY DEF Jumps
<1>3. Distinct(<<i>>) /\ Labels(<<i>>) = {} /\ Uses(<<i>>) \subseteq P
  BY <1>1, <1>2, NoLabels, UsesMembers
<1>4. b.thrown \/ \A j \in Members(<<i>>) : Tame(j, D, a)
  BY <1>1, JumpTame
<1>5. P \ {} = P
  OBVIOUS
<1>. QED
  BY <1>1, <1>3, <1>4, <1>5, PutEmits

Branch(i, m, r, l) == i = <<m, r, l>>

\* The label a branch uses is its last operand.
LEMMA BranchFacts ==
  ASSUME NEW i, NEW m \in Jumps, NEW r, NEW l, Branch(i, m, r, l)
  PROVE  i[1] \in Jumps /\ i[Len(i)] = l
<1>1. i[1] = m /\ Len(i) = 3 /\ i[3] = l
  BY DEF Branch
<1>. QED
  BY <1>1

\* A piece of code whose two branches meet places their labels.
LEMMA MeetingPlacing ==
  ASSUME NEW is, NEW u, NEW y, NEW f, NEW g, NEW D, NEW c, Meets(is, u, y, f, g), f # g, Into(u, D), Into(y, D)
  PROVE  Placing(is, {f, g}, D, c)
<1>1. Met(is, u, y, f, g)
  BY PlainOps, Meeting
<1>2. Tame(<<"j", g>>, D, c) /\ Tame(<<"label", f>>, D, c) /\ Tame(<<"label", g>>, D, c)
  BY JumpTame DEF Jumps
<1>3. Tame(u, D, c) /\ Tame(y, D, c)
  BY IntoTame
<1>. QED
  BY <1>1, <1>2, <1>3 DEF Placing, Met

\* Integer ||: the right operand is emitted twice, each copy with labels of its
\* own.
LEMMA IntOrEmitting ==
  ASSUME NEW a, NEW b, NEW D, NEW S, NEW n \in Nat, NEW leak, NEW e, NEW dest \in D, NEW l,
         IsContext(a), Emitting(a, b, D, {}, S, n, leak), Keeps(e.right, leak)
  PROVE  Emitting(a, IntOr(e, dest, l, b), D, {}, S, n, leak)
<1>. DEFINE true == NewLabel("L", 1, b)
            end  == NewLabel("L", 2, b)
            k    == 2
            made == MakeLabels("L", k, b)
            leave == <<"bnez", l, true>>
            left == Put(made, <<leave>>)
            again == Emit(e.right, dest, left)
            u == <<"snez", dest, dest>>
            y == <<"li", dest, 1>>
            is == <<u, <<"j", end>>, <<"label", true>>, y, <<"label", end>> >>
            L == {true, end}
<1>1. IntOr(e, dest, l, b) = Put(again, is)
  BY DEF IntOr
<1>2. IsContext(b) /\ "L" \in LabelPrefixes /\ true # end
  BY NewLabels DEF Emitting, LabelPrefixes
<1>3. L \subseteq {NewLabel("L", i, b) : i \in 1 .. k} /\ {} \cup L = L /\ k \in Nat /\ true \in L
  OBVIOUS
<1>4. Into(u, D) /\ Into(y, D)
  BY ComputingOps, Into3
<1>5. Branch(leave, "bnez", l, true) /\ "bnez" \in Jumps
  BY DEF Branch, Jumps
<1>6. Meets(is, u, y, true, end)
  BY DEF Meets
<1>. HIDE DEF true, end, u, y, is, leave, k
<1>7. Placing(is, {true, end}, D, a)
  <2>. HIDE DEF L
  <2>. QED
    BY <1>2, <1>4, <1>6, MeetingPlacing
<1>. HIDE DEF L
<1>8. Emitting(a, made, D, {} \cup L, S, n, leak)
  BY <1>2, <1>3, MakeLabelsEmitting
<1>80. Emitting(a, made, D, L, S, n, leak)
  BY <1>3, <1>8
<1>. HIDE DEF made
<1>9. Emitting(a, left, D, L, S, n, leak)
  BY <1>3, <1>5, <1>80, BranchFacts, PutJump
<1>. HIDE DEF left
<1>10. Emitting(a, again, D, L, S, n, leak)
  BY <1>9, EmitEmitting
<1>. HIDE DEF again
<1>11. Placing(is, L, D, a)
  BY <1>7 DEF L
<1>. QED
  BY <1>1, <1>10, <1>11, PutPlacing

\* Integer && defines each of its labels once.
LEMMA AndCode ==
  ASSUME NEW is, NEW w, NEW u, NEW y, NEW f, NEW g, NEW D, NEW c, NEW r,
         is = <<w, u, <<"j", g>>, <<"label", f>>, y, <<"label", g>> >>, Branch(w, "beqz", r, f),
         f # g, Into(u, D), Into(y, D)
  PROVE  Placing(is, {f, g}, D, c)
<1>. DEFINE v == <<"j", g>>  x == <<"label", f>>  z == <<"label", g>>
<1>1. /\ v[1] = "j" /\ Len(v) = 2 /\ v[2] = g
      /\ x[1] = "label" /\ x[2] = f /\ z[1] = "label" /\ z[2] = g
  OBVIOUS
<1>2. "j" \in Jumps /\ "beqz" \in Jumps /\ "label" \notin Jumps /\ "j" # "label"
  BY DEF Jumps
<1>3. is = <<w, u, v, x, y, z>>
  OBVIOUS
<1>. HIDE DEF v, x, z
<1>4. IsCode(is) /\ Members(is) = {w, u, v, x, y, z}
  BY <1>3, List6
<1>5. Plain(u) /\ Plain(y) /\ w[1] \in Jumps /\ w[Len(w)] = f
  BY <1>2, PlainOps, BranchFacts
<1>6. Labels(is) = {f, g}
  BY <1>1, <1>2, <1>4, <1>5 DEF Labels, Plain
<1>7. Uses(is) \subseteq {f, g}
  BY <1>1, <1>2, <1>4, <1>5, UsesMembers DEF Plain
<1>8. Distinct(is)
  <2>1. DOMAIN is = 1 .. 6 /\ is[1] = w /\ is[2] = u /\ is[3] = v /\ is[4] = x /\ is[5] = y /\ is[6] = z
    BY <1>3
  <2>2. \A j \in 1 .. 6 : is[j][1] = "label" => (j = 4 /\ is[j][2] = f) \/ (j = 6 /\ is[j][2] = g)
    BY <1>1, <1>2, <1>5, <2>1 DEF Plain
  <2>. QED
    BY <2>1, <2>2 DEF Distinct
<1>9. Tame(w, D, c) /\ Tame(v, D, c) /\ Tame(x, D, c) /\ Tame(z, D, c) /\ Tame(u, D, c) /\ Tame(y, D, c)
  BY <1>1, <1>2, <1>5, JumpTame, IntoTame
<1>. QED
  BY <1>4, <1>6, <1>7, <1>8, <1>9 DEF Placing

\* Integer &&: likewise.
LEMMA IntAndEmitting ==
  ASSUME NEW a, NEW b, NEW D, NEW S, NEW n \in Nat, NEW leak, NEW e, NEW dest \in D, NEW l,
         IsContext(a), Emitting(a, b, D, {}, S, n, leak), Keeps(e.right, leak)
  PROVE  Emitting(a, IntAnd(e, dest, l, b), D, {}, S, n, leak)
<1>. DEFINE false == NewLabel(".L", 1, b)
            end  == NewLabel(".L", 2, b)
            k    == 2
            made == MakeLabels(".L", k, b)
            leave == <<"beqz", l, false>>
            left == Put(made, <<leave>>)
            again == Emit(e.right, dest, left)
            w == <<"beqz", dest, false>>
            u == <<"li", dest, 1>>
            y == <<"li", dest, 0>>
            is == <<w, u, <<"j", end>>, <<"label", false>>, y, <<"label", end>> >>
            L == {false, end}
<1>1. IntAnd(e, dest, l, b) = Put(again, is)
  BY DEF IntAnd
<1>2. IsContext(b) /\ ".L" \in LabelPrefixes /\ false # end
  BY NewLabels DEF Emitting, LabelPrefixes
<1>3. L \subseteq {NewLabel(".L", i, b) : i \in 1 .. k} /\ {} \cup L = L /\ k \in Nat /\ false \in L
  OBVIOUS
<1>4. Into(u, D) /\ Into(y, D)
  BY ComputingOps, Into3
<1>5. Branch(leave, "beqz", l, false) /\ Branch(w, "beqz", dest, false) /\ "beqz" \in Jumps
  BY DEF Branch, Jumps
<1>6. is = <<w, u, <<"j", end>>, <<"label", false>>, y, <<"label", end>> >>
  OBVIOUS
<1>. HIDE DEF false, end, u, y, w, is, leave, k
<1>7. Placing(is, {false, end}, D, a)
  <2>. HIDE DEF L
  <2>. QED
    BY <1>2, <1>4, <1>5, <1>6, AndCode
<1>. HIDE DEF L
<1>8. Emitting(a, made, D, {} \cup L, S, n, leak)
  BY <1>2, <1>3, MakeLabelsEmitting
<1>80. Emitting(a, made, D, L, S, n, leak)
  BY <1>3, <1>8
<1>. HIDE DEF made
<1>9. Emitting(a, left, D, L, S, n, leak)
  BY <1>3, <1>5, <1>80, BranchFacts, PutJump
<1>. HIDE DEF left
<1>10. Emitting(a, again, D, L, S, n, leak)
  BY <1>9, EmitEmitting
<1>. HIDE DEF again
<1>11. Placing(is, L, D, a)
  BY <1>7 DEF L
<1>. QED
  BY <1>1, <1>10, <1>11, PutPlacing

\* LogicalOperation of integers keeps the contract.
LEMMA IntLogicalEmits ==
  ASSUME NEW c, NEW leak, NEW e, NEW dest, IsContext(c),
         e.op \in {"<", ">", "<=", ">=", "==", "!=", "&", "|", "^", "&&", "||"},
         Keeps(e.left, leak), Keeps(e.right, leak)
  PROVE  Emits(c, IntLogical(e, dest, c), {dest}, leak)
<1>. DEFINE lent == AllocateReg(GetType(e.left, c.syms), c)
            l    == lent.reg
            left == Emit(e.left, l, lent)
            both == Emit(e.right, dest, left)
            bits == <<IntInstr(e.op), dest, l, dest>>
            done == CASE e.op = "&&" -> IntAnd(e, dest, l, both)
                      [] e.op = "||" -> IntOr(e, dest, l, both)
                      [] e.op \in {"&", "^", "|"} -> Put(both, <<bits>>)
                      [] OTHER -> Put(both, IntTest(e.op, dest, l))
            D == {dest} \cup {l}
            S == {} \cup {l}
<1>1. IntLogical(e, dest, c) = DeallocateReg(l, done)
  BY DEF IntLogical
<1>2. Emitting(c, lent, D, {}, S, 0, leak)
  BY EmittingStart, AllocateEmitting DEF Emits
<1>3. l \in D /\ dest \in D
  OBVIOUS
<1>. HIDE DEF lent, D, S
<1>4. Emitting(c, left, D, {}, S, 0, leak)
  BY <1>2, <1>3, EmitEmitting
<1>. HIDE DEF left
<1>5. Emitting(c, both, D, {}, S, 0, leak)
  BY <1>3, <1>4, EmitEmitting
<1>. HIDE DEF both
<1>6. Emitting(c, IntAnd(e, dest, l, both), D, {}, S, 0, leak)
  BY <1>3, <1>5, IntAndEmitting
<1>7. Emitting(c, IntOr(e, dest, l, both), D, {}, S, 0, leak)
  BY <1>3, <1>5, IntOrEmitting
<1>8. ASSUME e.op \in {"&", "^", "|"}
      PROVE  Emitting(c, Put(both, <<bits>>), D, {}, S, 0, leak)
  <2>1. Computing(IntInstr(e.op))
    BY <1>8, ComputingOps DEF IntInstr
  <2>2. Into(bits, D)
    BY <1>3, <2>1, Into4
  <2>. QED
    BY <1>5, <2>2, PutOne
<1>9. ASSUME e.op \in {"<", ">", "<=", ">=", "==", "!="}
      PROVE  Emitting(c, Put(both, IntTest(e.op, dest, l)), D, {}, S, 0, leak)
  <2>1. IsCode(IntTest(e.op, dest, l)) /\ \A i \in Members(IntTest(e.op, dest, l)) : Into(i, D)
    BY <1>3, <1>9, IntTestInto
  <2>. QED
    BY <1>5, <2>1, PutInto
<1>10. Emitting(c, done, D, {}, S, 0, leak)
  <2>. HIDE DEF bits
  <2>. QED
    BY <1>6, <1>7, <1>8, <1>9
<1>. HIDE DEF done
<1>. QED
  BY <1>1, <1>10, Bracket DEF D, S, Emits

\* LogicalOperation keeps it, whichever the type of its left operand.
LEMMA LogicalEmits ==
  ASSUME NEW c, NEW leak, NEW e, NEW dest, IsContext(c),
         e.op \in {"<", ">", "<=", ">=", "==", "!=", "&", "|", "^", "&&", "||"},
         Keeps(e.left, leak), Keeps(e.right, leak)
  PROVE  Emits(c, EmitLogical(e, dest, c), {dest}, leak)
<1>1. Emitting(c, c, {dest}, {}, {}, 0, leak)
  BY EmittingStart DEF Emits
<1>2. Emits(c, FloatLogical(e, "FLOAT", dest, c), {dest}, leak)
  BY <1>1, FloatLogicalEmitting DEF Emits
<1>3. Emits(c, DoubleLogical(e, dest, c), {dest}, leak)
  BY DoubleLogicalEmitting DEF Emits
<1>4. Emits(c, IntLogical(e, dest, c), {dest}, leak)
  BY IntLogicalEmits
<1>. QED
  BY <1>2, <1>3, <1>4 DEF EmitLogical

\* A jump, then a label.
LEMMA PutTurn ==
  ASSUME NEW a, NEW b, NEW D, NEW P, NEW S, NEW n \in Nat, NEW leak, NEW i, NEW x, NEW l,
         IsContext(a), Emitting(a, b, D, P, S, n, leak), i[1] \in Jumps, i[Len(i)] \in P,
         x[1] = "label", x[2] = l, l \in P
  PROVE  Emitting(a, Put(b, <<i, x>>), D, P \ {l}, S, n, leak)
<1>. DEFINE is == <<i, x>>
<1>1. IsCode(is) /\ Members(is) = {i, x}
  BY List2
<1>2. i[1] # "label" /\ x[1] \notin Jumps
  BY DEF Jumps
<1>3. Labels(is) = {l} /\ Uses(is) \subseteq P
  BY <1>1, <1>2, UsesMembers DEF Labels
<1>4. Distinct(is)
  <2>1. DOMAIN is = {1, 2} /\ is[1] = i /\ is[2] = x
    OBVIOUS
  <2>. HIDE DEF is
  <2>. QED
    BY <1>2, <2>1 DEF Distinct
<1>5. b.thrown \/ \A j \in Members(is) : Tame(j, D, a)
  BY <1>1, JumpTame
<1>. HIDE DEF is
<1>6. Labels(is) \subseteq P
  BY <1>3
<1>7. Emitting(a, Put(b, is), D, P \ Labels(is), S, n, leak)
  BY <1>1, <1>3, <1>4, <1>5, <1>6, PutEmits
<1>. QED
  BY <1>3, <1>7 DEF is

\* Ternary keeps it: its branches write one register and meet.
LEMMA TernaryEmits ==
  ASSUME NEW c, NEW leak, NEW e, NEW dest, IsContext(c),
         Keeps(e.condition, leak), Keeps(e.left, leak), Keeps(e.right, leak)
  PROVE  Emits(c, EmitTernary(e, dest, c), {dest}, leak)
<1>. DEFINE true  == NewLabel(".L", 1, c)
            false == NewLabel(".L", 2, c)
            end   == NewLabel(".L", 3, c)
            k     == 3
            made  == MakeLabels(".L", k, c)
            lent  == AllocateReg(GetType(e.condition, c.syms), made)
            r     == lent.reg
            value == Emit(e.condition, r, lent)
            leave == <<"beqz", r, false>>
            onTrue == <<"label", true>>
            test  == Put(value, <<leave, onTrue>>)
            then  == Emit(e.left, dest, test)
            skip  == <<"j", end>>
            onFalse == <<"label", false>>
            left  == Put(then, <<skip, onFalse>>)
            right == Emit(e.right, dest, left)
            meet  == <<"label", end>>
            done  == Put(right, <<meet>>)
            L == {true, false, end}
            D == {dest} \cup {r}
            S == {} \cup {r}
<1>1. EmitTernary(e, dest, c) = DeallocateReg(r, done)
  BY DEF EmitTernary
<1>2. Emitting(c, c, {dest}, {}, {}, 0, leak) /\ ".L" \in LabelPrefixes
  BY EmittingStart DEF Emits, LabelPrefixes
<1>3. true # false /\ true # end /\ false # end
  BY <1>2, NewLabels
<1>4. L \subseteq {NewLabel(".L", i, c) : i \in 1 .. k} /\ {} \cup L = L /\ k \in Nat
  OBVIOUS
<1>5. leave[1] \in Jumps /\ leave[Len(leave)] = false
  BY BranchFacts DEF Branch, Jumps
<1>6. skip[1] \in Jumps /\ skip[Len(skip)] = end
  <2>1. skip[1] = "j" /\ Len(skip) = 2 /\ skip[2] = end
    OBVIOUS
  <2>. QED
    BY <2>1 DEF Jumps
<1>7. /\ onTrue[1] = "label" /\ onTrue[2] = true
      /\ onFalse[1] = "label" /\ onFalse[2] = false
      /\ meet[1] = "label" /\ meet[2] = end
  OBVIOUS
<1>. HIDE DEF true, false, end, k, leave, onTrue, skip, onFalse, meet
<1>8. /\ L \ {true} = {false, end} /\ {false, end} \ {false} = {end} /\ {end} \ {end} = {}
      /\ true \in L /\ false \in L
  BY <1>3
<1>. HIDE DEF L
<1>9. Emitting(c, made, {dest}, {} \cup L, {}, 0, leak)
  BY <1>2, <1>4, MakeLabelsEmitting
<1>. HIDE DEF made
<1>10. Emitting(c, lent, D, L, S, 0, leak)
  BY <1>4, <1>9, AllocateEmitting
<1>11. r \in D /\ dest \in D
  OBVIOUS
<1>. HIDE DEF lent, D, S
<1>12. Emitting(c, value, D, L, S, 0, leak)
  BY <1>10, <1>11, EmitEmitting
<1>. HIDE DEF value
<1>13. Emitting(c, test, D, L \ {true}, S, 0, leak)
  BY <1>5, <1>7, <1>8, <1>12, PutTurn
<1>14. Emitting(c, test, D, {false, end}, S, 0, leak)
  BY <1>8, <1>13
<1>. HIDE DEF test
<1>15. Emitting(c, then, D, {false, end}, S, 0, leak)
  BY <1>11, <1>14, EmitEmitting
<1>. HIDE DEF then
<1>16. Emitting(c, left, D, {false, end} \ {false}, S, 0, leak)
  BY <1>6, <1>7, <1>15, PutTurn
<1>17. Emitting(c, left, D, {end}, S, 0, leak)
  BY <1>8, <1>16
<1>. HIDE DEF left
<1>18. Emitting(c, right, D, {end}, S, 0, leak)
  BY <1>11, <1>17, EmitEmitting
<1>. HIDE DEF right
<1>19. Placing(<<meet>>, {end}, D, c)
  <2>1. IsCode(<<meet>>) /\ Members(<<meet>>) = {meet}
    BY List1
  <2>2. DOMAIN <<meet>> = {1}
    OBVIOUS
  <2>3. "label" \notin Jumps
    BY DEF Jumps
  <2>4. Distinct(<<meet>>)
    BY <2>2 DEF Distinct
  <2>5. Labels(<<meet>>) = {end} /\ Uses(<<meet>>) = {}
    BY <1>7, <2>1, <2>3, UsesMembers DEF Labels
  <2>6. Tame(meet, D, c)
    BY <1>7, JumpTame
  <2>. QED
    BY <2>1, <2>4, <2>5, <2>6 DEF Placing
<1>20. Emitting(c, done, D, {}, S, 0, leak)
  BY <1>18, <1>19, PutPlacing
<1>. HIDE DEF done
<1>. QED
  BY <1>1, <1>20, Bracket DEF D, S, Emits

-----------------------------------------------------------------------------

\* A subscript is emitted as a value, whatever is being done with the array.
LEMMA SubscriptEmits ==
  ASSUME NEW c, NEW leak, NEW e, NEW dest, IsContext(c), Keeps(e.index, leak)
  PROVE  Emits(c, EmitSubscript(e, dest, c), {dest}, leak)
<1>. DEFINE s == [c EXCEPT !.arrayIndex = TRUE]
<1>1. IsContext(s) => Emits(s, Emit(e.index, dest, s), {dest}, leak)
  BY DEF Keeps
<1>. QED
  BY <1>1, ArrayIndexEmits DEF EmitSubscript

\* The address of an element borrows a register and gives it back.
LEMMA ElementEmits ==
  ASSUME NEW c, NEW leak, NEW e, NEW dest, IsContext(c), Keeps(e.index, leak)
  PROVE  Emits(c, AddressOfElement(e, dest, c), {dest}, leak)
<1>. DEFINE x    == GetIdentifier(e)
            sub  == EmitSubscript(e, dest, c)
            lent == AllocateReg(Var(x, c).type, sub)
            base == Load(x, lent.reg, "", lent)
            scale == <<"slli", dest, dest, Log2Bytes(Var(x, c).type)>>
            add  == <<"add", dest, dest, lent.reg>>
            done == Put(base, <<scale, add>>)
            D == {dest} \cup {lent.reg}
            S == {} \cup {lent.reg}
<1>1. AddressOfElement(e, dest, c) = DeallocateReg(lent.reg, done)
  BY DEF AddressOfElement
<1>2. Emitting(c, sub, {dest}, {}, {}, 0, leak)
  BY SubscriptEmits DEF Emits
<1>. HIDE DEF sub
<1>3. Emitting(c, lent, D, {}, S, 0, leak)
  BY <1>2, AllocateEmitting
<1>4. lent.reg \in D /\ dest \in D
  OBVIOUS
<1>. HIDE DEF lent, D, S
<1>5. Emitting(c, base, D, {}, S, 0, leak)
  BY <1>3, <1>4, LoadEmitting
<1>6. Into(scale, D) /\ Into(add, D)
  BY <1>4, ComputingOps, Into4
<1>. HIDE DEF base, scale, add
<1>7. Emitting(c, done, D, {}, S, 0, leak)
  BY <1>5, <1>6, PutTwo
<1>. HIDE DEF done
<1>. QED
  BY <1>1, <1>7, Bracket DEF D, S, Emits

\* The operand of & keeps the contract.
LEMMA AddressEmits ==
  ASSUME NEW c, NEW leak, NEW e, NEW dest, IsContext(c), e.kind = "index" => Keeps(e.index, leak)
  PROVE  Emits(c, EmitAddress(e, dest, c), {dest}, leak)
<1>. DEFINE at == <<"addi", dest, "s0", Var(e.name, c).loc>>
<1>1. Emitting(c, c, {dest}, {}, {}, 0, leak) /\ Emits(c, c, {dest}, leak)
  BY EmittingStart DEF Emits
<1>2. Into(at, {dest})
  BY ComputingOps, Into4
<1>3. Emits(c, Put(c, <<at>>), {dest}, leak)
  BY <1>1, <1>2, PutOne DEF Emits
<1>4. e.kind = "index" => Emits(c, AddressOfElement(e, dest, c), {dest}, leak)
  BY ElementEmits
<1>. HIDE DEF at
<1>5. EmitAddress(e, dest, c) =
        CASE e.kind = "id" -> Put(c, <<at>>)
          [] e.kind = "index" -> AddressOfElement(e, dest, c)
          [] OTHER -> c
  BY DEF EmitAddress, at
<1>. QED
  BY <1>1, <1>3, <1>4, <1>5

\* The operand of * keeps it, and currentPointer is reset.
LEMMA DereferenceEmits ==
  ASSUME NEW c, NEW leak, NEW o, NEW type, NEW dest, IsContext(c), Keeps(o, leak)
  PROVE  LET address == Emit(o, dest, [c EXCEPT !.currentPointer = TRUE])
             pointed == IF address.leftOp THEN address
                        ELSE Put(address, << <<LoadInstr(type), dest, 0, dest, "">> >>)
         IN  Emits(c, [pointed EXCEPT !.currentPointer = FALSE], {dest}, leak)
<1>. DEFINE s == [c EXCEPT !.currentPointer = TRUE]
            address == Emit(o, dest, s)
            load == <<LoadInstr(type), dest, 0, dest, "">>
            pointed == IF address.leftOp THEN address ELSE Put(address, <<load>>)
<1>1. ASSUME IsContext(s) PROVE Emits(s, pointed, {dest}, leak)
  <2>1. Emitting(s, address, {dest}, {}, {}, 0, leak)
    BY <1>1 DEF Keeps, Emits
  <2>2. Into(load, {dest})
    BY Mnemonics, Into5
  <2>. HIDE DEF s, address, load
  <2>3. Emitting(s, Put(address, <<load>>), {dest}, {}, {}, 0, leak)
    BY <1>1, <2>1, <2>2, PutOne
  <2>. QED
    BY <2>1, <2>3 DEF Emits
<1>2. IsContext(s) => Emits(s, pointed, {dest}, leak)
  BY <1>1
<1>. HIDE DEF pointed
<1>3. Emits(c, [pointed EXCEPT !.currentPointer = FALSE], {dest}, leak)
  BY <1>2, CurrentPointerEmits
<1>. QED
  BY <1>3 DEF pointed

\* UnaryExpression keeps the contract.
LEMMA UnaryEmits ==
  ASSUME NEW c, NEW leak, NEW e, NEW dest, IsContext(c), e.op \in {"&", "*", "+", "-", "~", "!"},
         Keeps(e.operand, leak), e.operand.kind = "index" => Keeps(e.operand.index, leak)
  PROVE  Emits(c, EmitUnary(e, dest, c), {dest}, leak)
<1>. DEFINE type     == GetType(e.operand, c.syms)
            value    == Emit(e.operand, dest, c)
            address  == Emit(e.operand, dest, [c EXCEPT !.currentPointer = TRUE])
            pointed  == IF address.leftOp THEN address
                        ELSE Put(address, << <<LoadInstr(type), dest, 0, dest, "">> >>)
            negative == IF type \in {"FLOAT", "DOUBLE"} THEN <<"fneg", dest, dest, "", type>>
                        ELSE <<"neg", dest, dest>>
            not  == <<"not", dest, dest>>
            seqz == <<"seqz", dest, dest>>
            reset == [pointed EXCEPT !.currentPointer = FALSE]
<1>1. EmitUnary(e, dest, c) =
        CASE e.op = "&" -> EmitAddress(e.operand, dest, c)
          [] e.op = "*" -> reset
          [] e.op = "+" -> value
          [] e.op = "-" -> Put(value, <<negative>>)
          [] e.op = "~" -> ThrowIf(type # "INT", Put(value, <<not>>))
          [] e.op = "!" -> ThrowIf(type # "INT", Put(value, <<seqz>>))
  BY DEF EmitUnary
<1>2. Emits(c, EmitAddress(e.operand, dest, c), {dest}, leak)
  BY AddressEmits
<1>3. Emits(c, reset, {dest}, leak)
  BY DereferenceEmits
<1>4. Emits(c, value, {dest}, leak)
  BY DEF Keeps
<1>5. Into(negative, {dest}) /\ Into(not, {dest}) /\ Into(seqz, {dest})
  BY ComputingOps, Into3, Into5
<1>. HIDE DEF reset, value, negative, not, seqz
<1>6. /\ Emits(c, Put(value, <<negative>>), {dest}, leak)
      /\ Emits(c, Put(value, <<not>>), {dest}, leak)
      /\ Emits(c, Put(value, <<seqz>>), {dest}, leak)
  BY <1>4, <1>5, PutOne DEF Emits
<1>7. /\ Emits(c, ThrowIf(type # "INT", Put(value, <<not>>)), {dest}, leak)
      /\ Emits(c, ThrowIf(type # "INT", Put(value, <<seqz>>)), {dest}, leak)
  BY <1>6, ThrowIfEmitting DEF Emits
<1>. QED
  BY <1>1, <1>2, <1>3, <1>4, <1>6, <1>7

\* ArrayIndex keeps it.
LEMMA IndexEmits ==
  ASSUME NEW c, NEW leak, NEW e, NEW dest, IsContext(c), Keeps(e.index, leak)
  PROVE  Emits(c, EmitIndex(e, dest, c), {dest}, leak)
<1>. DEFINE x     == GetIdentifier(e)
            v     == Var(x, c)
            sub   == EmitSubscript(e, dest, c)
            scale == <<"slli", dest, dest, Log2Bytes(v.type)>>
            lent  == AllocateReg(v.type, sub)
            r     == lent.reg
            add   == <<"add", dest, dest, r>>
            found == Load(x, r, "", lent)
            base  == Put(found, <<scale, add>>)
            load  == <<LoadInstr(v.type), dest, 0, dest, "">>
            at    == <<"addi", dest, dest, v.loc>>
            frame == <<"add", dest, "s0", dest>>
            slot  == Put(sub, <<scale, at, frame>>)
            D == {dest} \cup {r}
            S == {} \cup {r}
<1>1. EmitIndex(e, dest, c) =
        IF v.isPointer THEN Put(DeallocateReg(r, base), <<load>>)
        ELSE IF slot.leftOp THEN slot
        ELSE Load(x, dest, dest, slot)
  BY DEF EmitIndex
<1>2. Emitting(c, sub, {dest}, {}, {}, 0, leak)
  BY SubscriptEmits DEF Emits
<1>. HIDE DEF sub
<1>3. Emitting(c, lent, D, {}, S, 0, leak)
  BY <1>2, AllocateEmitting
<1>4. r \in D /\ dest \in D /\ dest \in {dest}
  OBVIOUS
<1>. HIDE DEF lent, D, S
<1>5. Emitting(c, found, D, {}, S, 0, leak)
  BY <1>3, <1>4, LoadEmitting
<1>6. Into(scale, D) /\ Into(add, D) /\ Into(scale, {dest}) /\ Into(at, {dest}) /\ Into(frame, {dest})
  BY <1>4, ComputingOps, Into4
<1>7. Into(load, {dest})
  BY <1>4, Mnemonics, Into5
<1>. HIDE DEF found, scale, add, at, frame, load
<1>8. Emitting(c, base, D, {}, S, 0, leak)
  BY <1>5, <1>6, PutTwo
<1>. HIDE DEF base
<1>9. Emitting(c, DeallocateReg(r, base), {dest}, {}, {}, 0, leak)
  BY <1>8, Bracket DEF D, S
<1>10. Emitting(c, Put(DeallocateReg(r, base), <<load>>), {dest}, {}, {}, 0, leak)
  BY <1>7, <1>9, PutOne
<1>11. Emitting(c, slot, {dest}, {}, {}, 0, leak)
  <2>1. IsCode(<<scale, at, frame>>) /\ Members(<<scale, at, frame>>) = {scale, at, frame}
    BY List3
  <2>2. \A i \in Members(<<scale, at, frame>>) : Into(i, {dest})
    BY <1>6, <2>1
  <2>. QED
    BY <1>2, <2>1, <2>2, PutInto
<1>. HIDE DEF slot
<1>12. Emitting(c, Load(x, dest, dest, slot), {dest}, {}, {}, 0, leak)
  BY <1>4, <1>11, LoadEmitting
<1>. QED
  BY <1>1, <1>10, <1>11, <1>12 DEF Emits

\* = stores the value by the address it has computed.
LEMMA PlainAssignmentEmitting ==
  ASSUME NEW a, NEW b, NEW D, NEW P, NEW S, NEW n \in Nat, NEW leak, NEW e, NEW dest \in D, NEW r, NEW x,
         IsContext(a), Emitting(a, b, D, P, S, n, leak), x \in DOMAIN a.syms
  PROVE  Emitting(a, PlainAssignment(e, dest, r, x, b), D, P, S, n, leak)
<1>1. Emitting(a, Store(x, r, dest, b), D, P, S, n, leak) /\ Emitting(a, Store(x, r, "", b), D, P, S, n, leak)
  <2>1. dest \in D \cup {""} /\ "" \in D \cup {""}
    OBVIOUS
  <2>. QED
    BY <2>1, StoreEmitting
<1>2. Emitting(a, Put(b, << <<"sw", r, 0, dest, "">> >>), D, P, S, n, leak)
  <2>1. "sw" \in Stores
    BY DEF Stores
  <2>. QED
    BY <2>1, PutStore
<1>. QED
  BY <1>1, <1>2 DEF PlainAssignment

\* An operator with = loads, applies and stores.
LEMMA CompoundAssignmentEmitting ==
  ASSUME NEW a, NEW b, NEW D, NEW P, NEW S, NEW n \in Nat, NEW leak, NEW e, NEW dest \in D, NEW r \in D, NEW x,
         IsContext(a), Emitting(a, b, D, P, S, n, leak), x \in DOMAIN a.syms,
         e.op \in {"+", "-", "*", "/", "%", "<<", ">>", "&", "|", "^"}
  PROVE  Emitting(a, CompoundAssignment(e, dest, r, x, b), D, P, S, n, leak)
<1>. DEFINE type    == GetType(e.left, b.syms)
            lent    == AllocateReg(type, b)
            tmp     == lent.reg
            o       == IntInstr(e.op)
            scale   == <<"slli", r, r, Log2Bytes(type)>>
            step    == <<o, tmp, tmp, r>>
            move    == <<o, r, dest, r>>
            apply   == <<o, dest, dest, r>>
            store   == <<"sw", r, 0, dest, "">>
            found   == Load(x, tmp, dest, lent)
            element == Put(found, <<step>>)
            pointer == Put(lent, <<scale, move>>)
            value   == Put(lent, <<apply>>)
            done == IF IsArray(x, b.syms) THEN Store(x, tmp, dest, element)
                    ELSE IF GetIsPointer(x, b.syms) /\ e.op \in {"+", "-"} THEN Store(x, r, "", pointer)
                    ELSE IF GetIsPointer(x, b.syms) /\ e.op \in {"*", "/", "%"}
                    THEN Put(pointer, <<store>>)
                    ELSE Store(x, dest, "", value)
            C == D \cup {tmp}
            R == S \cup {tmp}
<1>1. CompoundAssignment(e, dest, r, x, b) = DeallocateReg(tmp, done)
  BY DEF CompoundAssignment
<1>2. Emitting(a, lent, C, P, R, n, leak)
  BY AllocateEmitting
<1>3. tmp \in C /\ dest \in C /\ r \in C /\ dest \in C \cup {""} /\ "" \in C \cup {""}
  OBVIOUS
<1>. HIDE DEF lent, C, R
<1>4. Into(scale, C) /\ Into(step, C) /\ Into(move, C) /\ Into(apply, C)
  <2>1. Computing(o) /\ Computing("slli")
    BY ComputingOps DEF IntInstr
  <2>. HIDE DEF o, tmp
  <2>. QED
    BY <1>3, <2>1, Into4
<1>5. Emitting(a, found, C, P, R, n, leak)
  BY <1>2, <1>3, LoadEmitting
<1>6. Emitting(a, Put(pointer, <<store>>), C, P, R, n, leak) /\ Emitting(a, pointer, C, P, R, n, leak)
  <2>1. "sw" \in Stores
    BY DEF Stores
  <2>. HIDE DEF scale, move
  <2>2. Emitting(a, pointer, C, P, R, n, leak)
    BY <1>2, <1>4, PutTwo
  <2>. HIDE DEF pointer
  <2>3. Emitting(a, Put(pointer, <<store>>), C, P, R, n, leak)
    BY <1>3, <2>1, <2>2, PutStore
  <2>. QED
    BY <2>2, <2>3
<1>. HIDE DEF found, step, apply
<1>7. Emitting(a, element, C, P, R, n, leak) /\ Emitting(a, value, C, P, R, n, leak)
  BY <1>2, <1>4, <1>5, PutOne
<1>. HIDE DEF element, value, pointer, store
<1>8. /\ Emitting(a, Store(x, tmp, dest, element), C, P, R, n, leak)
      /\ Emitting(a, Store(x, r, "", pointer), C, P, R, n, leak)
      /\ Emitting(a, Store(x, dest, "", value), C, P, R, n, leak)
  BY <1>3, <1>6, <1>7, StoreEmitting
<1>9. Emitting(a, done, C, P, R, n, leak)
  BY <1>6, <1>8
<1>. HIDE DEF done
<1>. QED
  BY <1>1, <1>9, Bracket DEF C, R

\* An assignment: the register of its right side leaks.
LEMMA AssignmentEmits ==
  ASSUME NEW c, NEW leak, NEW e, NEW dest, IsContext(c), leak,
         e.op \in {"=", "+", "-", "*", "/", "%", "<<", ">>", "&", "|", "^"},
         Keeps(e.left, leak), Keeps(e.right, leak)
  PROVE  Emits(c, EmitAssignment(e, dest, c), {dest}, leak)
<1>. DEFINE s      == [c EXCEPT !.leftOp = TRUE]
            aimed  == Emit(e.left, dest, s)
            target == [aimed EXCEPT !.leftOp = FALSE]
            left   == IF e.op = "=" THEN target ELSE Emit(e.left, dest, c)
            lent   == AllocateReg(GetType(e.left, c.syms), left)
            r      == lent.reg
            right  == Emit(e.right, r, lent)
            x      == GetIdentifier(e.left)
            done   == IF e.op = "=" THEN PlainAssignment(e, dest, r, x, right)
                      ELSE CompoundAssignment(e, dest, r, x, right)
            D == {dest} \cup {r}
            S == {} \cup {r}
<1>1. EmitAssignment(e, dest, c) = IF x \notin DOMAIN c.syms THEN Throw(right) ELSE done
  BY DEF EmitAssignment
<1>2. IsContext(s) => Emits(s, aimed, {dest}, leak)
  BY DEF Keeps
<1>3. Emits(c, target, {dest}, leak)
  <2>. HIDE DEF aimed
  <2>. QED
    BY <1>2, LeftOpEmits
<1>4. Emits(c, Emit(e.left, dest, c), {dest}, leak)
  BY DEF Keeps
<1>. HIDE DEF target
<1>5. Emitting(c, left, {dest}, {}, {}, 0, leak)
  BY <1>3, <1>4 DEF Emits
<1>. HIDE DEF left
<1>6. Emitting(c, lent, D, {}, S, 0, leak)
  BY <1>5, AllocateEmitting
<1>7. r \in D /\ dest \in D /\ r \in S /\ {} \subseteq S /\ D \subseteq {dest} \cup {r}
  OBVIOUS
<1>. HIDE DEF lent, D, S
<1>8. Emitting(c, right, D, {}, S, 0, leak)
  BY <1>6, <1>7, EmitEmitting
<1>. HIDE DEF right
<1>9. Emitting(c, Throw(right), {dest}, {}, {}, 0, leak)
  BY <1>8, ThrowEmitting DEF Emitting
<1>10. ASSUME x \in DOMAIN c.syms PROVE Emitting(c, done, D, {}, S, 0, leak)
  <2>1. CASE e.op = "="
    <3>1. Emitting(c, PlainAssignment(e, dest, r, x, right), D, {}, S, 0, leak)
      BY <1>7, <1>8, <1>10, PlainAssignmentEmitting
    <3>. QED
      BY <2>1, <3>1
  <2>2. CASE e.op # "="
    <3>1. Emitting(c, CompoundAssignment(e, dest, r, x, right), D, {}, S, 0, leak)
      BY <1>7, <1>8, <1>10, <2>2, CompoundAssignmentEmitting
    <3>. QED
      BY <2>2, <3>1
  <2>. QED
    BY <2>1, <2>2
<1>. HIDE DEF done
<1>11. ASSUME x \in DOMAIN c.syms PROVE Emitting(c, done, {dest}, {}, {}, 0, leak)
  <2>. DEFINE C == {dest}  R == {}
  <2>1. r \in S /\ R \subseteq S /\ D \subseteq C \cup {r}
    BY <1>7
  <2>. HIDE DEF C, R
  <2>2. Emitting(c, done, D, R, S, 0, leak)
    BY <1>10, <1>11 DEF R
  <2>3. Emitting(c, done, C, R, R, 0, leak)
    BY <2>1, <2>2, LeakEmitting
  <2>. QED
    BY <2>3 DEF C, R
<1>. QED
  BY <1>1, <1>9, <1>11 DEF Emits

-----------------------------------------------------------------------------
\* Every class keeps the contract, if the nodes below it do.
LEMMA NodeEmits ==
  ASSUME NEW c, NEW leak, NEW e, NEW dest, IsContext(c), IsNode(e),
         e.kind = "assignment" => leak,
         \A d \in Operands(e) : Keeps(d, leak) /\ \A f \in Operands(d) : Keeps(f, leak)
  PROVE  Emits(c, EmitNode(e, dest, c), {dest}, leak)
<1>1. CASE e.kind = "id"
  BY <1>1, IdentifierEmits DEF EmitNode
<1>2. CASE e.kind \in {"num", "chr"}
  BY <1>2, ConstantEmits DEF EmitNode
<1>3. CASE e.kind = "flt"
  BY <1>3, FloatConstantEmits DEF EmitNode
<1>4. CASE e.kind = "sizeof"
  BY <1>4, SizeofEmits DEF EmitNode
<1>5. CASE e.kind = "call"
  BY <1>5, CallEmits DEF EmitNode
<1>6. CASE e.kind = "operation"
  <2>1. Keeps(e.left, leak) /\ Keeps(e.right, leak)
    BY <1>6 DEF Operands
  <2>2. e.op \in {"+", "-", "*", "/", "%", "<<", ">>"}
    BY <1>6 DEF IsNode
  <2>3. Emits(c, EmitOperation(e, dest, c), {dest}, leak)
    BY <2>1, <2>2, OperationEmits
  <2>. QED
    BY <1>6, <2>3 DEF EmitNode
<1>7. CASE e.kind = "logical"
  <2>1. Keeps(e.left, leak) /\ Keeps(e.right, leak)
    BY <1>7 DEF Operands
  <2>2. e.op \in {"<", ">", "<=", ">=", "==", "!=", "&", "|", "^", "&&", "||"}
    BY <1>7 DEF IsNode
  <2>3. Emits(c, EmitLogical(e, dest, c), {dest}, leak)
    BY <2>1, <2>2, LogicalEmits
  <2>. QED
    BY <1>7, <2>3 DEF EmitNode
<1>8. CASE e.kind = "ternary"
  <2>1. Keeps(e.condition, leak) /\ Keeps(e.left, leak) /\ Keeps(e.right, leak)
    BY <1>8 DEF Operands
  <2>2. Emits(c, EmitTernary(e, dest, c), {dest}, leak)
    BY <2>1, TernaryEmits
  <2>. QED
    BY <1>8, <2>2 DEF EmitNode
<1>9. CASE e.kind = "unary"
  <2>1. e.operand \in Operands(e)
    BY <1>9 DEF Operands
  <2>2. e.operand.kind = "index" => e.operand.index \in Operands(e.operand)
    BY DEF Operands
  <2>3. Keeps(e.operand, leak) /\ (e.operand.kind = "index" => Keeps(e.operand.index, leak))
    BY <2>1, <2>2
  <2>4. e.op \in {"&", "*", "+", "-", "~", "!"}
    BY <1>9 DEF IsNode
  <2>5. Emits(c, EmitUnary(e, dest, c), {dest}, leak)
    BY <2>3, <2>4, UnaryEmits
  <2>. QED
    BY <1>9, <2>5 DEF EmitNode
<1>10. CASE e.kind = "index"
  <2>1. Keeps(e.index, leak)
    BY <1>10 DEF Operands
  <2>2. Emits(c, EmitIndex(e, dest, c), {dest}, leak)
    BY <2>1, IndexEmits
  <2>. QED
    BY <1>10, <2>2 DEF EmitNode
<1>11. CASE e.kind = "increment"
  <2>1. Keeps(e.operand, leak)
    BY <1>11 DEF Operands
  <2>2. Emits(c, EmitIncrement(e, dest, c), {dest}, leak)
    BY <2>1, IncrementEmits
  <2>. QED
    BY <1>11, <2>2 DEF EmitNode
<1>12. CASE e.kind = "preincrement"
  <2>1. Keeps(e.operand, leak)
    BY <1>12 DEF Operands
  <2>2. Emits(c, EmitPreIncrement(e, dest, c), {dest}, leak)
    BY <2>1, PreIncrementEmits
  <2>. QED
    BY <1>12, <2>2 DEF EmitNode
<1>13. CASE e.kind = "assignment"
  <2>1. Keeps(e.left, leak) /\ Keeps(e.right, leak)
    BY <1>13 DEF Operands
  <2>2. e.op \in {"=", "+", "-", "*", "/", "%", "<<", ">>", "&", "|", "^"}
    BY <1>13 DEF IsNode
  <2>3. Emits(c, EmitAssignment(e, dest, c), {dest}, leak)
    BY <1>13, <2>1, <2>2, AssignmentEmits
  <2>. QED
    BY <1>13, <2>3 DEF EmitNode
<1>14. e.kind \in {"id", "num", "chr", "flt", "sizeof", "call", "operation", "logical", "ternary", "unary",
                   "index", "increment", "preincrement", "assignment"}
  BY DEF IsNode
<1>. QED
  BY <1>1, <1>2, <1>3, <1>4, <1>5, <1>6, <1>7, <1>8, <1>9, <1>10, <1>11, <1>12, <1>13, <1>14

\* What a virtual function answers is what the class of the node does.
Ties == \A p \in Programs : \A e \in Parts(p.e) : \A dest, c : Emit(e, dest, c) = EmitNode(e, dest, c)

Leaks(p) == Has(p.e, {"assignment"})

\* One level of the induction: a node keeps the contract when all smaller ones
\* do.
LEMMA PartKeeps ==
  ASSUME Ties, NEW p \in Programs, NEW e \in Parts(p.e),
         \A d \in Parts(p.e) : Height(d) < Height(e) => Keeps(d, Leaks(p))
  PROVE  Keeps(e, Leaks(p))
<1>1. /\ IsNode(e) /\ Height(e) \in Nat
      /\ \A d \in Operands(e) : d \in Parts(p.e) /\ Height(d) < Height(e)
  BY ProgramsAssumption
<1>2. ASSUME NEW d \in Operands(e)
      PROVE  Keeps(d, Leaks(p)) /\ \A f \in Operands(d) : Keeps(f, Leaks(p))
  <2>1. d \in Parts(p.e) /\ Height(d) < Height(e)
    BY <1>1
  <2>2. /\ Height(d) \in Nat
        /\ \A f \in Operands(d) : f \in Parts(p.e) /\ Height(f) \in Nat /\ Height(f) < Height(d)
    BY <2>1, ProgramsAssumption
  <2>3. ASSUME NEW f \in Operands(d) PROVE Keeps(f, Leaks(p))
    <3>1. f \in Parts(p.e) /\ Height(f) \in Nat /\ Height(f) < Height(d)
      BY <2>2
    <3>2. Height(f) < Height(e)
      BY <1>1, <2>1, <2>2, <3>1
    <3>. QED
      BY <3>1, <3>2
  <2>. QED
    BY <2>1, <2>3
<1>3. e.kind = "assignment" => Leaks(p)
  BY DEF Leaks, Has
<1>4. ASSUME NEW dest, NEW c, IsContext(c) PROVE Emits(c, Emit(e, dest, c), {dest}, Leaks(p))
  <2>1. Emit(e, dest, c) = EmitNode(e, dest, c)
    BY DEF Ties
  <2>2. Emits(c, EmitNode(e, dest, c), {dest}, Leaks(p))
    BY <1>1, <1>2, <1>3, <1>4, NodeEmits
  <2>. QED
    BY <2>1, <2>2
<1>. QED
  BY <1>4 DEF Keeps

\* Every part of every program keeps the contract, in whatever Context it is
\* reached and into whatever register: the labels it makes are placed and its
\* own, what it parks and borrows is given back, it writes only registers that
\* were free, and its stores go to names or below the stack pointer. Registers
\* alone may leak, where the program assigns.
THEOREM EmissionsKeepTheContract ==
  ASSUME Ties, NEW p \in Programs
  PROVE  \A e \in Parts(p.e) : Keeps(e, Leaks(p))
<1>. DEFINE S == {n \in Nat : \A e \in Parts(p.e) : Height(e) <= n => Keeps(e, Leaks(p))}
<1>1. \A e \in Parts(p.e) : Height(e) \in Nat
  BY ProgramsAssumption
<1>2. 0 \in S
  <2>1. ASSUME NEW e \in Parts(p.e), Height(e) <= 0 PROVE Keeps(e, Leaks(p))
    <3>1. \A d \in Parts(p.e) : Height(d) < Height(e) => Keeps(d, Leaks(p))
      BY <1>1, <2>1
    <3>. QED
      BY <3>1, PartKeeps
  <2>. QED
    BY <2>1
<1>3. ASSUME NEW n \in Nat, n \in S PROVE n + 1 \in S
  <2>1. ASSUME NEW e \in Parts(p.e), Height(e) <= n + 1 PROVE Keeps(e, Leaks(p))
    <3>1. ASSUME NEW d \in Parts(p.e), Height(d) < Height(e) PROVE Keeps(d, Leaks(p))
      <4>1. Height(d) <= n
        BY <1>1, <2>1, <3>1
      <4>. QED
        BY <1>3, <4>1
    <3>. QED
      BY <3>1, PartKeeps
  <2>. QED
    BY <2>1
<1>. HIDE DEF S
<1>4. \A n \in Nat : n \in S
  BY <1>2, <1>3, SetInduction
<1>5. ASSUME NEW e \in Parts(p.e) PROVE Keeps(e, Leaks(p))
  <2>1. Height(e) \in Nat /\ Height(e) \in S
    BY <1>1, <1>4
  <2>. QED
    BY <2>1 DEF S
<1>. QED
  BY <1>5

-----------------------------------------------------------------------------
(***************************************************************************)
(* The function around the expression                                      *)
(***************************************************************************)

\* The instructions of longer code: those it had and the new ones.
LEMMA PrefixMembers ==
  ASSUME NEW s, NEW t, IsCode(s), IsCode(t), Prefix(s, t)
  PROVE  Members(t) = Members(s) \cup New(s, t)
<1>1. Len(s) \in Nat /\ Len(t) \in Nat /\ DOMAIN s = 1 .. Len(s) /\ DOMAIN t = 1 .. Len(t) /\ Len(s) <= Len(t)
  BY CodeFacts DEF Prefix
<1>2. \A k \in 1 .. Len(s) : t[k] = s[k] /\ k \in 1 .. Len(t)
  BY <1>1 DEF Prefix
<1>3. \A k \in 1 .. Len(t) : k \in 1 .. Len(s) \/ k \in Len(s) + 1 .. Len(t)
  BY <1>1
<1>4. \A k \in Len(s) + 1 .. Len(t) : k \in 1 .. Len(t)
  BY <1>1
<1>. QED
  BY <1>1, <1>2, <1>3, <1>4 DEF Members, New

\* Stored relative to s0.
OnFrame(i) == i[1] \in Stores /\ i[4] = "s0"
InPlace(i, syms, top) ==
  OnFrame(i) => (\E x \in DOMAIN syms : WritesVariable(i, syms[x])) \/ i[3] \in -FrameBytes .. top - Unit[i[1]]

\* Between prologue and epilogue no emitter writes ra, s0 or sp (a call writes
\* ra), and the function does not return.
Body(i)      == i[1] # "ret" /\ Clobbers(i) \cap FrameRegs = {}
Opened(code) == Prefix(Prologue, code) /\ \A i \in New(Prologue, code) : Body(i)
Closed(code) == \E s : IsCode(s) /\ Opened(s) /\ code = s \o Epilogue

\* Before the expression no label is used and nothing is stored by s0.
Fresh(b) ==
  /\ IsContext(b) /\ ~b.thrown /\ ~b.leftOp /\ ~b.arrayIndex /\ ~b.currentPointer
  /\ \A i \in Members(b.code) : Plain(i) /\ ~OnFrame(i)
  /\ Opened(b.code)

\* After it.
Settled(b, f, leak) ==
  /\ ~f.leftOp /\ ~f.arrayIndex /\ ~f.currentPointer
  /\ f.sp = b.sp
  /\ f.busy \subseteq b.busy \/ leak
  /\ IsCode(f.code) /\ Distinct(f.code) /\ Uses(f.code) \subseteq Labels(f.code)
  /\ \A i \in Members(f.code) : InPlace(i, f.syms, f.sp)
  /\ Closed(f.code)

\* The instructions of a list of four.
LEMMA List4 ==
  ASSUME NEW v, NEW x, NEW y, NEW z
  PROVE  IsCode(<<v, x, y, z>>) /\ Members(<<v, x, y, z>>) = {v, x, y, z}
<1>1. <<v, x, y, z>> \in Seq({v, x, y, z})
  OBVIOUS
<1>2. IsCode(<<v, x, y, z>>)
  BY <1>1 DEF IsCode
<1>. QED
  BY <1>2 DEF Members

\* init_stack stores relative to sp.
LEMMA PrologueFacts == IsCode(Prologue) /\ \A i \in Members(Prologue) : Plain(i) /\ ~OnFrame(i)
<1>. DEFINE v == <<"addi", "sp", "sp", -FrameBytes>>
            x == <<"sw", "ra", FrameBytes - 4, "sp", "">>
            y == <<"sw", "s0", FrameBytes - 8, "sp", "">>
            z == <<"addi", "s0", "sp", FrameBytes>>
<1>1. Plain(v) /\ Plain(x) /\ Plain(y) /\ Plain(z)
  BY DEF Plain, Jumps
<1>2. ~OnFrame(v) /\ ~OnFrame(x) /\ ~OnFrame(y) /\ ~OnFrame(z)
  BY DEF OnFrame, Stores
<1>3. Prologue = <<v, x, y, z>>
  BY DEF Prologue
<1>. HIDE DEF v, x, y, z
<1>. QED
  BY <1>1, <1>2, <1>3, List4

\* So end_stack does nothing by s0 and places no label.
LEMMA EpilogueFacts == IsCode(Epilogue) /\ \A i \in Members(Epilogue) : Plain(i) /\ ~OnFrame(i)
<1>. DEFINE v == <<"lw", "ra", FrameBytes - 4, "sp", "">>
            x == <<"lw", "s0", FrameBytes - 8, "sp", "">>
            y == <<"addi", "sp", "sp", FrameBytes>>
            z == <<"ret", "ra">>
<1>1. Plain(v) /\ Plain(x) /\ Plain(y) /\ Plain(z)
  BY DEF Plain, Jumps
<1>2. ~OnFrame(v) /\ ~OnFrame(x) /\ ~OnFrame(y) /\ ~OnFrame(z)
  BY DEF OnFrame, Stores
<1>3. Epilogue = <<v, x, y, z>>
  BY DEF Epilogue
<1>. HIDE DEF v, x, y, z
<1>. QED
  BY <1>1, <1>2, <1>3, List4

\* What an emission adds to opened code leaves it so.
LEMMA OpenedThen ==
  ASSUME NEW b, NEW v, NEW D, IsCode(b.code), IsCode(v.code), Opened(b.code), Writes(b, v, D),
         D \cap FrameRegs = {}
  PROVE  Opened(v.code)
<1>1. IsCode(Prologue)
  BY PrologueFacts
<1>2. Prefix(Prologue, v.code) /\ New(Prologue, v.code) = New(Prologue, b.code) \cup New(b.code, v.code)
  BY <1>1, PrefixTrans DEF Opened, Writes
<1>3. ASSUME NEW i \in New(b.code, v.code) PROVE Body(i)
  BY <1>3 DEF Writes, Tame, Body
<1>. QED
  BY <1>2, <1>3 DEF Opened

\* An emission into a register that is not the caller's, after code without
\* labels and followed by the epilogue, leaves the Context settled.
LEMMA EmitsSettled ==
  ASSUME NEW b, NEW v, NEW D, NEW leak, Fresh(b), Emits(b, v, D, leak), D \cap FrameRegs = {}, ~v.thrown
  PROVE  Settled(b, Put(v, Epilogue), leak)
<1>. DEFINE f == Put(v, Epilogue)
<1>1. /\ Restores(b, v, {}, 0, leak) /\ Writes(b, v, D) /\ Labelled(b, v, {}) /\ IsContext(v)
      /\ IsCode(b.code) /\ IsCode(v.code) /\ Distinct(v.code) /\ b.sp \in Int /\ v.sp \in Int
  BY DEF Emits, Emitting, IsContext, Fresh
<1>2. v.sp = b.sp /\ v.syms = b.syms /\ (v.busy \subseteq b.busy \/ leak)
  BY <1>1 DEF Restores
<1>3. Uses(v.code) \subseteq Labels(v.code)
  <2>1. Uses(b.code) = {}
    BY UsesMembers DEF Fresh, Plain
  <2>. QED
    BY <1>1, <2>1 DEF Labelled
<1>4. ASSUME NEW i \in Members(v.code) PROVE InPlace(i, v.syms, v.sp)
  <2>1. CASE i \in Members(b.code)
    BY <2>1 DEF Fresh, InPlace
  <2>2. CASE i \in New(b.code, v.code)
    <3>1. "s0" \notin D
      BY DEF FrameRegs
    <3>. QED
      BY <1>1, <1>2, <2>2, <3>1 DEF Writes, Tame, StoresInPlace, InPlace, OnFrame
  <2>. QED
    BY <1>1, <2>1, <2>2, PrefixMembers DEF Writes
<1>5. ~v.leftOp /\ ~v.arrayIndex /\ ~v.currentPointer
  BY <1>1 DEF Restores, Fresh
<1>6. /\ f.code = v.code \o Epilogue /\ f.syms = v.syms /\ f.sp = v.sp /\ f.busy = v.busy
      /\ f.leftOp = v.leftOp /\ f.arrayIndex = v.arrayIndex /\ f.currentPointer = v.currentPointer
  BY <1>1, PutFields
<1>. HIDE DEF f
<1>7. IsCode(Epilogue) /\ \A i \in Members(Epilogue) : Plain(i) /\ ~OnFrame(i)
  BY EpilogueFacts
<1>8. Distinct(Epilogue) /\ Labels(Epilogue) = {} /\ Uses(Epilogue) = {}
  BY <1>7, PlainCode DEF Plain
<1>9. /\ IsCode(f.code) /\ Members(f.code) = Members(v.code) \cup Members(Epilogue)
      /\ Labels(f.code) = Labels(v.code) \cup Labels(Epilogue)
      /\ Uses(f.code) = Uses(v.code) \cup Uses(Epilogue)
  BY <1>1, <1>6, <1>7, ConcatFacts, ConcatMembers, ConcatLabels, ConcatUses
<1>10. Distinct(f.code) /\ Uses(f.code) \subseteq Labels(f.code)
  BY <1>1, <1>3, <1>6, <1>7, <1>8, <1>9, ConcatDistinct
<1>11. \A i \in Members(f.code) : InPlace(i, f.syms, f.sp)
  BY <1>4, <1>6, <1>7, <1>9 DEF InPlace
<1>12. Closed(f.code)
  <2>1. Opened(v.code)
    BY <1>1, OpenedThen DEF Fresh
  <2>. QED
    BY <1>1, <1>6, <2>1 DEF Closed
<1>13. Settled(b, f, leak)
  BY <1>2, <1>5, <1>6, <1>9, <1>10, <1>11, <1>12 DEF Settled
<1>. QED
  BY <1>13 DEF f

\* The Context of a function that has begun is fresh.
LEMMA BegunFacts ==
  /\ Fresh(Begun) /\ Begun.sp = LocalsEnd
  /\ Begun.busy = {ReturnReg(IF input.use = "return" THEN input.type ELSE "VOID")}
<1>. DEFINE b == Begun
<1>1. /\ DOMAIN b = Fields /\ b.code = Prologue /\ b.sp = LocalsEnd /\ b.thrown = FALSE
      /\ b.labels = [p \in {".L", "L"} |-> 0]
      /\ b.leftOp = FALSE /\ b.arrayIndex = FALSE /\ b.currentPointer = FALSE
      /\ b.busy = {ReturnReg(IF input.use = "return" THEN input.type ELSE "VOID")}
  BY DEF Begun, Fields
<1>. HIDE DEF b
<1>2. b.labels \in [LabelPrefixes -> Nat]
  BY <1>1 DEF LabelPrefixes
<1>3. IsCode(b.code) /\ \A i \in Members(b.code) : Plain(i) /\ ~OnFrame(i)
  BY <1>1, PrologueFacts
<1>4. Distinct(b.code) /\ Labels(b.code) = {}
  BY <1>3, PlainCode DEF Plain
<1>5. IsContext(b)
  BY <1>1, <1>2, <1>3, <1>4, FrameAssumption DEF IsContext
<1>6. Opened(b.code)
  <2>1. Len(Prologue) \in Nat
    BY PrologueFacts, CodeFacts
  <2>. QED
    BY <1>1, <2>1 DEF Opened, Prefix, New
<1>7. Fresh(b)
  BY <1>1, <1>3, <1>5, <1>6 DEF Fresh
<1>. QED
  BY <1>1, <1>7 DEF b

\* A returned expression leaves the Context settled.
LEMMA ReturnSettled ==
  ASSUME NEW b, NEW leak, NEW e, NEW type, Fresh(b), Keeps(e, leak), ~EmitReturn(e, ReturnReg(type), b).thrown
  PROVE  Settled(b, EmitReturn(e, ReturnReg(type), b), leak)
<1>. DEFINE r == ReturnReg(type)  value == Emit(e, r, b)
<1>1. IsContext(b)
  BY DEF Fresh
<1>2. Emits(b, value, {r}, leak)
  BY <1>1 DEF Keeps
<1>3. {r} \cap FrameRegs = {}
  BY DEF ReturnReg, FrameRegs
<1>4. EmitReturn(e, r, b) = Put(value, Epilogue)
  BY DEF EmitReturn
<1>. HIDE DEF r, value
<1>5. ~value.thrown
  <2>1. IsContext(value)
    BY <1>2 DEF Emits, Emitting
  <2>. QED
    BY <1>4, <2>1, PutFields DEF r
<1>6. Settled(b, EmitReturn(e, r, b), leak)
  BY <1>2, <1>3, <1>4, <1>5, EmitsSettled
<1>. QED
  BY <1>6 DEF r

\* So does an expression that is a statement.
LEMMA EffectSettled ==
  ASSUME NEW b, NEW leak, NEW e, Fresh(b), Keeps(e, leak), ~Put(Emit(e, "a0", b), Epilogue).thrown
  PROVE  Settled(b, Put(Emit(e, "a0", b), Epilogue), leak)
<1>1. IsContext(b)
  BY DEF Fresh
<1>2. Emits(b, Emit(e, "a0", b), {"a0"}, leak)
  BY <1>1 DEF Keeps
<1>3. {"a0"} \cap FrameRegs = {}
  BY DEF FrameRegs
<1>4. ~Emit(e, "a0", b).thrown
  <2>1. IsContext(Emit(e, "a0", b))
    BY <1>2 DEF Emits, Emitting
  <2>. QED
    BY <2>1, PutFields
<1>. QED
  BY <1>2, <1>3, <1>4, EmitsSettled

-----------------------------------------------------------------------------
(***************************************************************************)
(* A declaration: its declarator is emitted, then it is declared, then its *)
(* initialiser is emitted                                                  *)
(***************************************************************************)
ResetPointer(c) == [c EXCEPT !.currentPointer = FALSE]

\* Resetting currentPointer keeps the contract.
LEMMA ResetPointerEmitting ==
  ASSUME NEW a, NEW b, NEW D, NEW P, NEW S, NEW n, NEW leak,
         IsContext(a), Emitting(a, b, D, P, S, n, leak)
  PROVE  Emitting(a, ResetPointer(b), D, P, S, n, leak) /\ ResetPointer(b).code = b.code
<1>. DEFINE e == ResetPointer(b)
<1>1. IsContext(b)
  BY DEF Emitting
<1>2. /\ DOMAIN e = Fields /\ e.sp = b.sp
      /\ e.code = b.code /\ e.syms = b.syms /\ e.busy = b.busy
      /\ e.leftOp = b.leftOp /\ e.arrayIndex = b.arrayIndex /\ e.currentPointer = FALSE
      /\ e.labels = b.labels /\ e.thrown = b.thrown
  BY <1>1 DEF IsContext, Fields, ResetPointer
<1>. HIDE DEF e
<1>3. Restores(a, b, S, n, leak) => Restores(a, e, S, n, leak)
  BY <1>2 DEF Restores
<1>4. Writes(a, b, D) => Writes(a, e, D)
  BY <1>2 DEF Writes
<1>5. Emitting(a, e, D, P, S, n, leak)
  BY <1>1, <1>2, <1>3, <1>4, SameCode DEF IsContext
<1>. QED
  BY <1>2, <1>5 DEF e

\* An identifier writes its destination, or throws.
LEMMA IdentifierCode ==
  ASSUME NEW e, NEW dest, NEW b
  PROVE  \E is : /\ IsCode(is) /\ \A i \in Members(is) : Into(i, {dest})
                 /\ EmitIdentifier(e, dest, b) \in {b, Put(b, is), Throw(Put(b, is))}
<1>1. CASE EmitIdentifier(e, dest, b) = b
  <2>1. IsCode(<< >>) /\ \A i \in Members(<< >>) : Into(i, {dest})
    BY List0
  <2>. QED
    BY <1>1, <2>1
<1>2. CASE EmitIdentifier(e, dest, b) = Load(e.name, dest, "", b)
  <2>1. PICK is : /\ IsCode(is) /\ \A i \in Members(is) : Into(i, {dest})
                  /\ Load(e.name, dest, "", b) \in {Put(b, is), Throw(Put(b, is))}
    BY LoadCode
  <2>. QED
    BY <1>2, <2>1
<1>. QED
  BY <1>1, <1>2 DEF EmitIdentifier

\* An exception writes no code.
LEMMA ThrowFields ==
  ASSUME NEW b, IsContext(b)
  PROVE  Throw(b).code = b.code /\ Throw(b).thrown
BY DEF Throw, IsContext, Fields

\* Nor does borrowing a register,
LEMMA AllocateCode ==
  ASSUME NEW b, NEW type, IsContext(b)
  PROVE  AllocateReg(type, b).code = b.code
<1>1. \A s : TakeFrom(s, b).code = b.code
  BY TakeFields
<1>. QED
  BY <1>1, ThrowFields DEF AllocateReg

\* or making room.
LEMMA PushCode ==
  ASSUME NEW b, NEW k, IsContext(b)
  PROVE  PushStack(k, b).code = b.code
<1>. DEFINE e == [b EXCEPT !.sp = @ - k]
<1>1. e.code = b.code /\ DOMAIN e = Fields
  BY DEF IsContext, Fields
<1>2. PushStack(k, b) = IF b.sp - k < -FrameBytes THEN Throw(e) ELSE e
  BY DEF PushStack, ThrowIf
<1>. HIDE DEF e
<1>3. Throw(e).code = e.code
  BY <1>1 DEF Throw, Fields
<1>. QED
  BY <1>1, <1>2, <1>3

\* Code that no label or store is added to.
Quiet(s, t) == \E is : t = s \o is /\ IsCode(is) /\ \A i \in Members(is) : Plain(i) /\ ~OnFrame(i)

\* The declarator of a variable adds neither label nor store.
LEMMA IdentifierQuiet ==
  ASSUME NEW e, NEW dest, NEW b, IsContext(b)
  PROVE  Quiet(b.code, EmitIdentifier(e, dest, b).code)
<1>1. PICK is : /\ IsCode(is) /\ \A i \in Members(is) : Into(i, {dest})
                /\ EmitIdentifier(e, dest, b) \in {b, Put(b, is), Throw(Put(b, is))}
  BY IdentifierCode
<1>2. \A i \in Members(is) : Plain(i) /\ ~OnFrame(i)
  BY <1>1, PlainOps DEF Into, OnFrame
<1>3. Put(b, is).code = b.code \o is /\ DOMAIN Put(b, is) = Fields
  BY PutFields
<1>4. Throw(Put(b, is)).code = Put(b, is).code
  BY <1>3 DEF Throw, Fields
<1>5. IsCode(<< >>) /\ Members(<< >>) = {} /\ b.code \o << >> = b.code
  <2>1. PICK S : b.code \in Seq(S)
    BY DEF IsContext, IsCode
  <2>. QED
    BY <2>1, List0
<1>6. Quiet(b.code, b.code)
  <2>. DEFINE none == << >>
  <2>1. b.code = b.code \o none /\ IsCode(none) /\ \A i \in Members(none) : Plain(i) /\ ~OnFrame(i)
    BY <1>5
  <2>. HIDE DEF none
  <2>. QED
    BY <2>1 DEF Quiet
<1>7. Quiet(b.code, b.code \o is)
  BY <1>1, <1>2 DEF Quiet
<1>. QED
  BY <1>1, <1>3, <1>4, <1>6, <1>7

\* The Context once the variable is declared.
Declared(x, type, e, c) ==
  LET lent   == AllocateReg(type, [c EXCEPT !.type = type])
      named  == EmitIdentifier(Id(x), lent.reg, [lent EXCEPT !.currentPointer = FALSE])
      placed == PushStack(GetBytes(type), [named EXCEPT !.currentPointer = FALSE])
      var    == [type |-> type, isPointer |-> FALSE, isArray |-> FALSE, scope |-> "LOCAL", loc |-> placed.sp]
  IN  [reg |-> lent.reg, placed |-> placed,
       known |-> [placed EXCEPT !.syms = [y \in DOMAIN @ \cup {x} |-> IF y = x THEN var ELSE @[y]]]]

\* When its initialiser is emitted a variable has its place, the frame is lower
\* by its size, and one register is borrowed.
LEMMA DeclaredFresh ==
  ASSUME NEW b, NEW leak, NEW x, NEW type, NEW e, Fresh(b)
  PROVE  LET d == Declared(x, type, e, b) IN
         /\ IsContext(d.known) /\ x \in DOMAIN d.known.syms
         /\ ~d.known.thrown =>
              /\ Fresh(d.known) /\ d.known.sp = b.sp - GetBytes(type) /\ d.reg \notin FrameRegs
              /\ leak \/ d.known.busy \subseteq b.busy \cup {d.reg}
<1>. DEFINE typed  == [b EXCEPT !.type = type]
            lent   == AllocateReg(type, typed)
            r      == lent.reg
            aimed  == ResetPointer(lent)
            named  == EmitIdentifier(Id(x), r, aimed)
            reset  == ResetPointer(named)
            bytes  == GetBytes(type)
            placed == PushStack(bytes, reset)
            var    == [type |-> type, isPointer |-> FALSE, isArray |-> FALSE, scope |-> "LOCAL", loc |-> placed.sp]
            syms   == [y \in DOMAIN placed.syms \cup {x} |-> IF y = x THEN var ELSE placed.syms[y]]
            known  == [placed EXCEPT !.syms = syms]
            D == {} \cup {r}
<1>1. Declared(x, type, e, b).reg = r /\ Declared(x, type, e, b).known = known
  BY DEF Declared, ResetPointer
<1>2. IsContext(b) /\ bytes \in Nat
  BY ParkedSizes DEF Fresh
<1>3. Emitting(b, typed, {}, {}, {}, 0, leak) /\ typed.code = b.code
  <2>1. Emitting(b, b, {}, {}, {}, 0, leak)
    BY <1>2, EmittingStart DEF Emits
  <2>2. typed.code = b.code
    BY <1>2 DEF IsContext, Fields
  <2>. HIDE DEF typed
  <2>. QED
    BY <1>2, <2>1, <2>2, SetTypeEmitting DEF typed
<1>. HIDE DEF typed, bytes
<1>4. Emitting(b, lent, D, {}, D, 0, leak) /\ lent.code = b.code
  <2>1. Emitting(b, lent, D, {}, D, 0, leak)
    BY <1>2, <1>3, AllocateEmitting
  <2>2. IsContext(typed)
    BY <1>3 DEF Emitting
  <2>. QED
    BY <1>3, <2>1, <2>2, AllocateCode
<1>5. r \in D /\ (r \in D => D \subseteq {r})
  OBVIOUS
<1>. HIDE DEF lent, D
<1>6. Emitting(b, aimed, D, {}, D, 0, leak) /\ aimed.code = b.code
  BY <1>2, <1>4, ResetPointerEmitting
<1>. HIDE DEF aimed
<1>7. Emitting(b, named, D, {}, D, 0, leak) /\ Quiet(b.code, named.code)
  <2>1. Emitting(b, named, D, {}, D, 0, leak)
    BY <1>2, <1>5, <1>6, IdentifierEmitting
  <2>2. IsContext(aimed)
    BY <1>6 DEF Emitting
  <2>. QED
    BY <1>6, <2>1, <2>2, IdentifierQuiet
<1>. HIDE DEF named
<1>8. Emitting(b, reset, D, {}, D, 0, leak) /\ reset.code = named.code
  BY <1>2, <1>7, ResetPointerEmitting
<1>. HIDE DEF reset
<1>9. Emitting(b, placed, D, {}, D, 0 + bytes, leak) /\ placed.code = named.code
  <2>1. Emitting(b, placed, D, {}, D, 0 + bytes, leak)
    BY <1>2, <1>8, PushEmitting
  <2>2. IsContext(reset)
    BY <1>8 DEF Emitting
  <2>. QED
    BY <1>8, <2>1, <2>2, PushCode
<1>10. IsContext(placed) /\ Quiet(b.code, placed.code) /\ 0 + bytes = bytes
  BY <1>2, <1>7, <1>9 DEF Emitting
<1>. HIDE DEF placed
<1>11. /\ DOMAIN known = Fields /\ known.syms = syms /\ known.code = placed.code /\ known.sp = placed.sp
       /\ known.busy = placed.busy /\ known.labels = placed.labels /\ known.thrown = placed.thrown
       /\ known.leftOp = placed.leftOp /\ known.arrayIndex = placed.arrayIndex
       /\ known.currentPointer = placed.currentPointer
  BY <1>10 DEF IsContext, Fields
<1>12. x \in DOMAIN syms
  OBVIOUS
<1>. HIDE DEF known, syms
<1>13. IsContext(known)
  <2>1. Made(known) = Made(placed)
    BY <1>11 DEF Made
  <2>. QED
    BY <1>10, <1>11, <2>1 DEF IsContext
<1>14. ASSUME ~known.thrown
       PROVE  /\ Fresh(known) /\ known.sp = b.sp - bytes /\ r \notin FrameRegs
              /\ leak \/ known.busy \subseteq b.busy \cup {r}
  <2>1. Restores(b, placed, D, bytes, leak)
    BY <1>9, <1>10, <1>11, <1>14 DEF Emitting
  <2>2. \A i \in Members(known.code) : Plain(i) /\ ~OnFrame(i)
    <3>1. PICK is : /\ placed.code = b.code \o is /\ IsCode(is)
                    /\ \A i \in Members(is) : Plain(i) /\ ~OnFrame(i)
      BY <1>10 DEF Quiet
    <3>2. Members(placed.code) = Members(b.code) \cup Members(is)
      BY <1>2, <3>1, ConcatMembers DEF IsContext
    <3>. QED
      BY <1>11, <3>1, <3>2 DEF Fresh
  <2>3. Opened(known.code)
    <3>1. Writes(b, placed, D) /\ D \cap FrameRegs = {}
      BY <1>9, <1>10, <1>11, <1>14, <2>1 DEF Emitting, Restores
    <3>. QED
      BY <1>2, <1>10, <1>11, <3>1, OpenedThen DEF Fresh, IsContext
  <2>4. Fresh(known)
    BY <1>11, <1>13, <1>14, <2>1, <2>2, <2>3 DEF Fresh, Restores
  <2>5. known.sp = b.sp - bytes /\ r \notin FrameRegs /\ (leak \/ known.busy \subseteq b.busy \cup D)
    BY <1>5, <1>11, <2>1 DEF Restores
  <2>. QED
    BY <2>4, <2>5 DEF D
<1>15. x \in DOMAIN known.syms
  BY <1>11, <1>12
<1>. QED
  BY <1>1, <1>13, <1>14, <1>15 DEF bytes

\* A declaration leaves the Context settled below the variable.
LEMMA DeclarationSettled ==
  ASSUME NEW b, NEW leak, NEW x, NEW type, NEW e, Fresh(b), Keeps(e, leak),
         ~Put(EmitDeclaration(x, type, FALSE, e, b), Epilogue).thrown
  PROVE  LET f == Put(EmitDeclaration(x, type, FALSE, e, b), Epilogue) IN
         /\ f.sp = b.sp - GetBytes(type)
         /\ Settled([b EXCEPT !.sp = @ - GetBytes(type)], f, leak)
<1>. DEFINE d == Declared(x, type, e, b)  known == d.known  r == d.reg
            value  == Emit(e, r, known)
            stored == Store(x, r, "", value)
            freed  == DeallocateReg(r, stored)
            g == Put(stored, Epilogue)
            f == Put(freed, Epilogue)
            start == [b EXCEPT !.sp = @ - GetBytes(type)]
<1>1. EmitDeclaration(x, type, FALSE, e, b) = freed
  BY DEF EmitDeclaration, Declared
<1>2. /\ IsContext(known) /\ x \in DOMAIN known.syms
      /\ ~known.thrown =>
           /\ Fresh(known) /\ known.sp = b.sp - GetBytes(type) /\ r \notin FrameRegs
           /\ leak \/ known.busy \subseteq b.busy \cup {r}
  BY DeclaredFresh
<1>3. start.sp = b.sp - GetBytes(type) /\ start.busy = b.busy
  BY DEF Fresh, IsContext, Fields
<1>. HIDE DEF d, start
<1>4. Emits(known, value, {r}, leak)
  BY <1>2 DEF Keeps
<1>. HIDE DEF value
<1>5. Emits(known, stored, {r}, leak)
  <2>1. "" \in {r} \cup {""} /\ Emitting(known, value, {r}, {}, {}, 0, leak) /\ 0 \in Nat
    BY <1>4 DEF Emits
  <2>2. Emitting(known, stored, {r}, {}, {}, 0, leak)
    BY <1>2, <2>1, StoreEmitting
  <2>. QED
    BY <2>2 DEF Emits
<1>. HIDE DEF stored, known, r
<1>6. IsContext(stored) /\ g.thrown = stored.thrown
  <2>1. IsContext(stored)
    BY <1>5 DEF Emits, Emitting
  <2>. QED
    BY <2>1, PutFields
<1>7. /\ f.code = g.code /\ f.syms = g.syms /\ f.sp = g.sp /\ f.thrown = g.thrown /\ f.busy = g.busy \ {r}
      /\ f.leftOp = g.leftOp /\ f.arrayIndex = g.arrayIndex /\ f.currentPointer = g.currentPointer
  BY <1>6 DEF Put, DeallocateReg, IsContext, Fields
<1>. HIDE DEF f, g
<1>8. ~stored.thrown
  BY <1>1, <1>6, <1>7 DEF f
<1>9. ~known.thrown
  BY <1>5, <1>8 DEF Emits, Emitting
<1>10. Settled(known, g, leak)
  <2>1. {r} \cap FrameRegs = {}
    BY <1>2, <1>9
  <2>. QED
    BY <1>2, <1>5, <1>8, <1>9, <2>1, EmitsSettled DEF g
<1>11. f.busy \subseteq start.busy \/ leak
  BY <1>2, <1>3, <1>7, <1>9, <1>10 DEF Settled
<1>12. f.sp = start.sp
  BY <1>2, <1>3, <1>7, <1>9, <1>10 DEF Settled
<1>13. Settled(start, f, leak)
  BY <1>7, <1>10, <1>11, <1>12 DEF Settled
<1>. QED
  BY <1>1, <1>3, <1>12, <1>13 DEF f, start

\* Labels defined once, and every one that is used, resolve every jump.
LEMMA DistinctResolved ==
  ASSUME NEW s, IsCode(s), Distinct(s), Uses(s) \subseteq Labels(s)
  PROVE  Resolved(s)
<1>1. ASSUME NEW l \in Uses(s) PROVE \E k \in DOMAIN s : Places(s, l) = {k}
  <2>1. l \in Labels(s)
    OBVIOUS
  <2>2. PICK k \in DOMAIN s : s[k][1] = "label" /\ s[k][2] = l
    BY <2>1 DEF Labels, Members
  <2>3. Places(s, l) = {k}
    BY <2>2 DEF Places, Distinct
  <2>. QED
    BY <2>2, <2>3
<1>. QED
  BY <1>1 DEF Resolved

\* The inductive invariant: what is compiled was settled in the one step that
\* writes it, and stays so while the machine runs.
IInv ==
  /\ input \in Inputs
  /\ phase = "input" => ctx = Begun
  /\ Compiled => Settled([Begun EXCEPT !.sp = VariablesEnd], ctx, Has(input.e, {"assignment"}))

\* Inputs are programs.
LEMMA InputFacts ==
  ASSUME NEW i \in Inputs
  PROVE  \E p \in Programs : i.use = p.use /\ i.e = p.e
BY DEF Inputs, Starts

\* The compiler leaves a settled Context or has thrown.
LEMMA WrittenSettled ==
  ASSUME Ties, input \in Inputs, ctx = Begun, ~Written.thrown
  PROVE  Settled([Begun EXCEPT !.sp = VariablesEnd], Written, Has(input.e, {"assignment"}))
<1>. DEFINE leak == Has(input.e, {"assignment"})
            bytes == IF input.use = "declare" THEN GetBytes(input.type) ELSE 0
            start == [Begun EXCEPT !.sp = VariablesEnd]
<1>1. PICK p \in Programs : input.use = p.use /\ input.e = p.e
  BY InputFacts
<1>2. Keeps(input.e, leak)
  <2>1. p.e \in Parts(p.e)
    BY ProgramsAssumption
  <2>2. leak = Leaks(p)
    BY <1>1 DEF Leaks
  <2>3. Keeps(p.e, Leaks(p))
    BY <2>1, EmissionsKeepTheContract
  <2>. QED
    BY <1>1, <2>2, <2>3
<1>3. Fresh(ctx) /\ ctx.sp = LocalsEnd
  BY BegunFacts
<1>4. input.use \in {"return", "effect", "declare"}
  BY <1>1, ProgramsAssumption
<1>5. /\ start.sp = VariablesEnd /\ start.busy = ctx.busy
      /\ [ctx EXCEPT !.sp = @ - GetBytes(input.type)].sp = LocalsEnd - GetBytes(input.type)
      /\ [ctx EXCEPT !.sp = @ - GetBytes(input.type)].busy = ctx.busy
  BY <1>3 DEF Begun
<1>. HIDE DEF leak, start
<1>6. CASE input.use = "return"
  <2>1. Written = EmitReturn(input.e, ReturnReg(input.type), ctx)
    BY <1>6 DEF Written
  <2>2. Settled(ctx, Written, leak)
    BY <1>2, <1>3, <2>1, ReturnSettled
  <2>3. VariablesEnd = LocalsEnd
    BY <1>6, FrameAssumption DEF VariablesEnd
  <2>. QED
    BY <1>3, <1>5, <2>2, <2>3 DEF Settled, start, leak
<1>7. CASE input.use = "effect"
  <2>1. Written = Put(Emit(input.e, "a0", ctx), Epilogue)
    BY <1>7 DEF Written
  <2>2. Settled(ctx, Written, leak)
    BY <1>2, <1>3, <2>1, EffectSettled
  <2>3. VariablesEnd = LocalsEnd
    BY <1>7, FrameAssumption DEF VariablesEnd
  <2>. QED
    BY <1>3, <1>5, <2>2, <2>3 DEF Settled, start, leak
<1>8. CASE input.use = "declare"
  <2>1. Written = Put(EmitDeclaration(Unnamed, input.type, FALSE, input.e, ctx), Epilogue)
    BY <1>8 DEF Written
  <2>2. Settled([ctx EXCEPT !.sp = @ - GetBytes(input.type)], Written, leak)
    BY <1>2, <1>3, <2>1, DeclarationSettled
  <2>3. VariablesEnd = LocalsEnd - GetBytes(input.type)
    BY <1>8 DEF VariablesEnd
  <2>. QED
    BY <1>5, <2>2, <2>3 DEF Settled, start, leak
<1>. QED
  BY <1>4, <1>6, <1>7, <1>8

\* Before the compiler runs nothing is compiled.
LEMMA InitIInv == Init => IInv
<1>. SUFFICES ASSUME Init PROVE IInv
  OBVIOUS
<1>1. phase = "input" /\ ctx = Begun /\ input \in Inputs
  BY DEF Init
<1>. QED
  BY <1>1 DEF IInv, Compiled

\* A step of the machine touches neither the program nor the Context.
LEMMA RunningKeepsIInv ==
  ASSUME IInv, phase # "input", phase # "thrown", UNCHANGED <<input, ctx>>, phase' # "input"
  PROVE  IInv'
<1>1. Settled([Begun EXCEPT !.sp = VariablesEnd], ctx, Has(input.e, {"assignment"})) /\ input \in Inputs
  BY DEF IInv, Compiled
<1>2. Begun' = Begun /\ VariablesEnd' = VariablesEnd
  BY DEF Begun, VariablesEnd
<1>. QED
  BY <1>1, <1>2 DEF IInv

\* Compile settles the Context; no instruction changes it.
LEMMA NextIInv ==
  ASSUME Ties, IInv, [Next]_vars
  PROVE  IInv'
<1>1. CASE Compile
  <2>1. /\ phase = "input" /\ ctx = Begun /\ input \in Inputs /\ ctx' = Written /\ input' = input
        /\ phase' = IF ctx'.thrown THEN "thrown" ELSE IF Assembles(ctx'.code) THEN "running" ELSE "rejected"
    BY <1>1 DEF Compile, IInv
  <2>2. Begun' = Begun /\ VariablesEnd' = VariablesEnd
    BY <2>1 DEF Begun, VariablesEnd
  <2>3. phase' # "input"
    BY <2>1
  <2>4. ASSUME Compiled' PROVE ~Written.thrown
    BY <2>1, <2>4 DEF Compiled
  <2>5. ASSUME Compiled'
        PROVE  Settled([Begun EXCEPT !.sp = VariablesEnd], Written, Has(input.e, {"assignment"}))
    BY <2>1, <2>4, <2>5, WrittenSettled
  <2>. QED
    BY <2>1, <2>2, <2>3, <2>5 DEF IInv
<1>2. CASE Calculate
  BY <1>2, RunningKeepsIInv DEF Calculate, At, Go
<1>3. CASE Access
  <2>1. phase' \in {phase, "trapped"}
    BY <1>3 DEF Access
  <2>. QED
    BY <1>3, <2>1, RunningKeepsIInv DEF Access, At, Go
<1>4. CASE Jump
  <2>1. phase' \in {phase, "trapped"}
    BY <1>4 DEF Jump
  <2>. QED
    BY <1>4, <2>1, RunningKeepsIInv DEF Jump, At, Go
<1>5. CASE CallFunction
  BY <1>5, RunningKeepsIInv DEF CallFunction, At, Go
<1>6. CASE Return
  BY <1>6, RunningKeepsIInv DEF Return, At, Go
<1>7. CASE UNCHANGED vars
  <2>1. UNCHANGED <<input, ctx, phase>>
    BY <1>7 DEF vars
  <2>2. Begun' = Begun /\ VariablesEnd' = VariablesEnd
    BY <2>1 DEF Begun, VariablesEnd
  <2>. QED
    BY <2>1, <2>2 DEF IInv, Compiled
<1>. QED
  BY <1>1, <1>2, <1>3, <1>4, <1>5, <1>6, <1>7 DEF Next

\* The inductive invariant says all three.
LEMMA IInvSays ==
  ASSUME IInv
  PROVE  ContextRestored /\ LabelsResolved /\ ParkedBelowVariables
<1>. SUFFICES ASSUME Compiled PROVE ContextRestored /\ LabelsResolved /\ ParkedBelowVariables
  BY DEF ContextRestored, LabelsResolved, ParkedBelowVariables
<1>1. Settled([Begun EXCEPT !.sp = VariablesEnd], ctx, Has(input.e, {"assignment"}))
  BY DEF IInv
<1>2. /\ [Begun EXCEPT !.sp = VariablesEnd].sp = VariablesEnd
      /\ [Begun EXCEPT !.sp = VariablesEnd].busy = Begun.busy
  BY DEF Begun
<1>3. ContextRestored
  BY <1>1, <1>2 DEF Settled, ContextRestored
<1>4. LabelsResolved
  BY <1>1, DistinctResolved DEF Settled, LabelsResolved
<1>5. ctx.sp = VariablesEnd /\ \A i \in Members(ctx.code) : InPlace(i, ctx.syms, ctx.sp)
  BY <1>1, <1>2 DEF Settled
<1>6. ASSUME NEW k \in DOMAIN ctx.code, ctx.code[k][1] \in Stores, ctx.code[k][4] = "s0"
      PROVE  \/ \E x \in DOMAIN ctx.syms : WritesVariable(ctx.code[k], ctx.syms[x])
             \/ ctx.code[k][3] \in -FrameBytes .. VariablesEnd - Unit[ctx.code[k][1]]
  <2>1. ctx.code[k] \in Members(ctx.code)
    BY DEF Members
  <2>. QED
    BY <1>5, <1>6, <2>1 DEF InPlace, OnFrame
<1>7. ParkedBelowVariables
  BY <1>6 DEF ParkedBelowVariables
<1>. QED
  BY <1>3, <1>4, <1>7

\* The invariant holds of every behaviour, of every program and frame.
LEMMA AlwaysIInv == ASSUME Ties PROVE Spec => []IInv
<1>1. Init => IInv
  BY InitIInv
<1>2. IInv /\ [Next]_vars => IInv'
  BY NextIInv
<1>. QED
  BY <1>1, <1>2, PTL DEF Spec

\* After any expression the flags, stack_frame_pointer and busy registers of
\* the Context are what the next statement expects (Operation, Assignment,
\* ArrayIndex, UnaryExpression, InitDeclarator), but for the register an
\* assignment keeps.
THEOREM AlwaysContextRestored == ASSUME Ties PROVE Spec => []ContextRestored
<1>1. IInv => ContextRestored
  BY IInvSays
<1>2. Spec => []IInv
  BY AlwaysIInv
<1>. QED
  BY <1>1, <1>2, PTL

\* Every jump of the code an expression compiles to has one target, whatever
\* its && || and ?: nest (makeUniqueLabel, LogicalOperation, Ternary).
THEOREM AlwaysLabelsResolved == ASSUME Ties PROVE Spec => []LabelsResolved
<1>1. IInv => LabelsResolved
  BY IInvSays
<1>2. Spec => []IInv
  BY AlwaysIInv
<1>. QED
  BY <1>1, <1>2, PTL

\* Every store relative to s0 goes to the place of a name or to the frame below
\* the variables, however deep the expression nests (push_stack, Operation).
THEOREM AlwaysParkedBelowVariables == ASSUME Ties PROVE Spec => []ParkedBelowVariables
<1>1. IInv => ParkedBelowVariables
  BY IInvSays
<1>2. Spec => []IInv
  BY AlwaysIInv
<1>. QED
  BY <1>1, <1>2, PTL

-----------------------------------------------------------------------------
(***************************************************************************)
(* The machine between prologue and epilogue                               *)
(***************************************************************************)
\* A sum that is wrapped may be wrapped before.
LEMMA WrapWrap ==
  ASSUME NEW x \in Int, NEW y \in Int
  PROVE  Wrap(Wrap(x, WordBits) + y, WordBits) = Wrap(x + y, WordBits)
<1>. DEFINE m == Power2[WordBits]  h == Power2[WordBits - 1]
            q == (x + h) \div m  r == (x + h) % m  w == Wrap(x, WordBits)
<1>1. Power2 = CHOOSE f : Powers(f, WordBits)
  BY Zenon DEF Power2, Powers
<1>2. m \in Nat /\ m > 0 /\ h \in Nat
  <2>1. WordBits \in Nat /\ WordBits \in 0 .. WordBits /\ WordBits - 1 \in 0 .. WordBits
    BY WidthAssumption
  <2>. HIDE DEF Power2
  <2>. QED
    BY <1>1, <2>1, PowersFacts
<1>3. \A n : Wrap(n, WordBits) = ((n + h) % m) - h
  BY DEF Wrap
<1>. HIDE DEF m, h
<1>4. q \in Int /\ r \in Int /\ x + h = m * q + r
  BY <1>2
<1>5. w = r - h
  BY <1>3
<1>. HIDE DEF q, r, w
<1>6. m * q \in Int /\ r = x + h - m * q
  BY <1>2, <1>4
<1>7. (w + y) + h = ((x + y) + h) - m * q
  BY <1>2, <1>4, <1>5, <1>6
<1>8. (x + y) + h \in Int
  BY <1>2
<1>9. (((x + y) + h) - m * q) % m = ((x + y) + h) % m
  BY <1>2, <1>4, <1>8, Congruent
<1>10. Wrap(w + y, WordBits) = Wrap(x + y, WordBits)
  BY <1>3, <1>7, <1>9
<1>. QED
  BY <1>10 DEF w

\* Adding to a word.
LEMMA WordAdd ==
  ASSUME NEW regs0, NEW r, NEW s, NEW x \in Int, NEW y \in Int, regs0[s] = Word(x)
  PROVE  Result(<<"addi", r, s, y>>, regs0) = Word(x + y)
<1>. DEFINE i == <<"addi", r, s, y>>
<1>1. i[1] = "addi" /\ i[3] = s /\ i[4] = y
  OBVIOUS
<1>. HIDE DEF i
<1>2. Word(x)[1] = "int" /\ Word(x)[2] = Wrap(x, WordBits)
  BY DEF Word
<1>3. Known(<<Word(x)>>)
  BY <1>2 DEF Known
<1>4. /\ "addi" \in Alui
      /\ "addi" \notin Alu \cup Alu1 \cup FAlu \cup FTest \cup {"fmv", "fneg", "fcvt"}
  BY DEF Alui, Alu, Alu1, FAlu, FTest
<1>5. Result(i, regs0) = Word(Compute("addi", Word(x)[2], y))
  <2>. HIDE DEF Compute
  <2>. QED
    BY <1>1, <1>3, <1>4 DEF Result
<1>6. Compute("addi", Word(x)[2], y) = Wrap(x, WordBits) + y
  BY <1>2 DEF Compute
<1>7. Word(Wrap(x, WordBits) + y) = Word(x + y)
  BY WrapWrap DEF Word
<1>. QED
  BY <1>5, <1>6, <1>7 DEF i

\* The code of a function, place by place.
Framed(code, n) ==
  /\ n \in Nat /\ n >= 8 /\ DOMAIN code = 1 .. n
  /\ code[1] = <<"addi", "sp", "sp", -FrameBytes>>
  /\ code[2] = <<"sw", "ra", FrameBytes - 4, "sp", "">>
  /\ code[3] = <<"sw", "s0", FrameBytes - 8, "sp", "">>
  /\ code[4] = <<"addi", "s0", "sp", FrameBytes>>
  /\ \A k \in 5 .. n - 4 : Body(code[k])
  /\ code[n - 3] = <<"lw", "ra", FrameBytes - 4, "sp", "">>
  /\ code[n - 2] = <<"lw", "s0", FrameBytes - 8, "sp", "">>
  /\ code[n - 1] = <<"addi", "sp", "sp", FrameBytes>>
  /\ code[n] = <<"ret", "ra">>

LEMMA ClosedFacts ==
  ASSUME NEW code, Closed(code)
  PROVE  Framed(code, Len(code))
<1>. DEFINE n == Len(code)
<1>1. PICK s : IsCode(s) /\ Opened(s) /\ code = s \o Epilogue
  BY DEF Closed
<1>2. /\ Len(Prologue) = 4
      /\ Prologue[1] = <<"addi", "sp", "sp", -FrameBytes>>
      /\ Prologue[2] = <<"sw", "ra", FrameBytes - 4, "sp", "">>
      /\ Prologue[3] = <<"sw", "s0", FrameBytes - 8, "sp", "">>
      /\ Prologue[4] = <<"addi", "s0", "sp", FrameBytes>>
  BY DEF Prologue
<1>3. /\ Len(Epilogue) = 4
      /\ Epilogue[1] = <<"lw", "ra", FrameBytes - 4, "sp", "">>
      /\ Epilogue[2] = <<"lw", "s0", FrameBytes - 8, "sp", "">>
      /\ Epilogue[3] = <<"addi", "sp", "sp", FrameBytes>>
      /\ Epilogue[4] = <<"ret", "ra">>
  BY DEF Epilogue
<1>0. Len(Prologue) = 4 /\ Len(Epilogue) = 4
  BY <1>2, <1>3
<1>. HIDE DEF n
<1>4. /\ IsCode(code) /\ n = Len(s) + Len(Epilogue)
      /\ \A k \in 1 .. Len(s) : code[k] = s[k]
      /\ \A k \in 1 .. Len(Epilogue) : code[Len(s) + k] = Epilogue[k]
  BY <1>1, EpilogueFacts, ConcatFacts DEF n
<1>5. Len(s) \in Nat /\ Len(s) >= 4 /\ \A k \in 1 .. 4 : s[k] = Prologue[k]
  BY <1>1, <1>2, CodeFacts DEF Opened, Prefix
<1>6. ASSUME NEW k \in 5 .. Len(s) PROVE Body(s[k])
  <2>1. k \in Len(Prologue) + 1 .. Len(s)
    BY <1>0
  <2>2. s[k] \in New(Prologue, s)
    BY <2>1 DEF New
  <2>. QED
    BY <1>1, <2>2 DEF Opened
<1>7. n \in Nat /\ n >= 8 /\ DOMAIN code = 1 .. n /\ Len(s) = n - 4
  <2>1. n \in Nat /\ DOMAIN code = 1 .. n
    BY <1>4, CodeFacts DEF n
  <2>2. n = Len(s) + 4 /\ Len(s) \in Nat /\ Len(s) >= 4
    BY <1>0, <1>4, <1>5
  <2>. QED
    BY <2>1, <2>2
<1>8. \A k \in 1 .. 4 : code[k] = Prologue[k]
  BY <1>4, <1>5
<1>9. \A k \in 5 .. n - 4 : Body(code[k])
  <2>1. ASSUME NEW k \in 5 .. n - 4 PROVE k \in 1 .. Len(s) /\ k \in 5 .. Len(s)
    BY <1>7
  <2>. QED
    BY <1>4, <1>6, <2>1
<1>10. code[n - 4 + 1] = Epilogue[1] /\ code[n - 4 + 2] = Epilogue[2]
       /\ code[n - 4 + 3] = Epilogue[3] /\ code[n - 4 + 4] = Epilogue[4]
  <2>1. \A k \in 1 .. 4 : code[n - 4 + k] = Epilogue[k]
    BY <1>0, <1>4, <1>7
  <2>. QED
    BY <2>1
<1>11. n - 4 + 1 = n - 3 /\ n - 4 + 2 = n - 2 /\ n - 4 + 3 = n - 1 /\ n - 4 + 4 = n
  BY <1>7
<1>12. code[1] = Prologue[1] /\ code[2] = Prologue[2] /\ code[3] = Prologue[3] /\ code[4] = Prologue[4]
  BY <1>8
<1>13. Framed(code, n)
  BY <1>2, <1>3, <1>7, <1>9, <1>10, <1>11, <1>12 DEF Framed
<1>. QED
  BY <1>13 DEF n

\* A place in the code: one of the prologue, of the body or of the epilogue.
LEMMA PlaceCases ==
  ASSUME NEW n \in Nat, n >= 8, NEW k \in 1 .. n
  PROVE  k \in {1, 2, 3, 4} \/ k \in 5 .. n - 4 \/ k \in {n - 3, n - 2, n - 1, n}
OBVIOUS

\* The frame while the function runs.
Held(n, k, regs0) ==
  /\ k \in 1 .. n
  /\ DOMAIN regs0 = IntRegs \cup FloatRegs
  /\ regs0["sp"] = IF k = 1 \/ k = n THEN Word(FrameTop) ELSE Word(FrameTop - FrameBytes)
  /\ k \in 5 .. n - 2 => regs0["s0"] = Word(FrameTop)

\* The inductive invariant of the machine.
MInv ==
  /\ IInv
  /\ phase = "running" => Held(Len(ctx.code), pc, regs)
  /\ phase = "returned" => regs["sp"] = Word(FrameTop)

\* The registers of the frame are registers and not those of a called function.
LEMMA CallerRegs ==
  /\ FrameRegs \subseteq IntRegs \cup FloatRegs
  /\ FrameRegs \cap CallerSaved = {} /\ "a0" \notin FrameRegs
  /\ "sp" \in FrameRegs /\ "s0" \in FrameRegs /\ "ra" \in FrameRegs
  /\ Caller["sp"] = Word(FrameTop)
<1>1. Members(Temps) \cap FrameRegs = {} /\ Members(Args) \cap FrameRegs = {}
      /\ Members(FTemps) \cap FrameRegs = {} /\ Members(FArgs) \cap FrameRegs = {}
  BY RegisterLists
<1>. QED
  BY <1>1 DEF FrameRegs, CallerSaved, IntRegs, FloatRegs, Caller

\* A step within the body leaves the frame as it is, wherever in the body it goes.
LEMMA HeldInBody ==
  ASSUME NEW n \in Nat, n >= 8, NEW k \in 5 .. n - 4, NEW j \in 5 .. n - 3, NEW regs0, NEW regs1,
         Held(n, k, regs0), DOMAIN regs1 = DOMAIN regs0,
         \A r \in {"sp", "s0"} : regs1[r] = regs0[r]
  PROVE  Held(n, j, regs1)
<1>1. regs1["sp"] = regs0["sp"] /\ regs1["s0"] = regs0["s0"]
  OBVIOUS
<1>2. k # 1 /\ k # n /\ k \in 5 .. n - 2 /\ j # 1 /\ j # n /\ j \in 1 .. n
  OBVIOUS
<1>. QED
  BY <1>1, <1>2 DEF Held

\* An instruction of the body that has a destination has another one than the
\* registers of the frame.
LEMMA BodyDest ==
  ASSUME NEW i, Body(i), i[1] \notin Stores \cup Jumps \cup {"label", "call", "ret"}
  PROVE  i[2] \notin FrameRegs
BY DEF Body, Clobbers

\* The mnemonics of the frame, and what its loads write.
LEMMA FramedFacts ==
  ASSUME NEW code, NEW n, Framed(code, n)
  PROVE  /\ code[1][1] = "addi" /\ code[2][1] = "sw" /\ code[3][1] = "sw" /\ code[4][1] = "addi"
         /\ code[n - 3][1] = "lw" /\ code[n - 2][1] = "lw" /\ code[n - 1][1] = "addi" /\ code[n][1] = "ret"
         /\ code[n - 3][2] = "ra" /\ code[n - 2][2] = "s0"
<1>. DEFINE p1 == <<"addi", "sp", "sp", -FrameBytes>>
            p2 == <<"sw", "ra", FrameBytes - 4, "sp", "">>
            p3 == <<"sw", "s0", FrameBytes - 8, "sp", "">>
            p4 == <<"addi", "s0", "sp", FrameBytes>>
            e1 == <<"lw", "ra", FrameBytes - 4, "sp", "">>
            e2 == <<"lw", "s0", FrameBytes - 8, "sp", "">>
            e3 == <<"addi", "sp", "sp", FrameBytes>>
            e4 == <<"ret", "ra">>
<1>1. /\ code[1] = p1 /\ code[2] = p2 /\ code[3] = p3 /\ code[4] = p4
      /\ code[n - 3] = e1 /\ code[n - 2] = e2 /\ code[n - 1] = e3 /\ code[n] = e4
  BY Zenon DEF Framed
<1>2. /\ p1[1] = "addi" /\ p2[1] = "sw" /\ p3[1] = "sw" /\ p4[1] = "addi"
      /\ e1[1] = "lw" /\ e2[1] = "lw" /\ e3[1] = "addi" /\ e4[1] = "ret"
      /\ e1[2] = "ra" /\ e2[2] = "s0"
  OBVIOUS
<1>. HIDE DEF p1, p2, p3, p4, e1, e2, e3, e4
<1>. QED
  BY <1>1, <1>2, Zenon

\* What Calculate executes.
Calculated == Alu \cup Alui \cup Alu1 \cup FAlu \cup FTest \cup {"fmv", "fneg", "fcvt", "li", "lui", "label"}

\* Which instruction can be at which place.
LEMMA PlaceOf ==
  ASSUME NEW code, NEW n, Framed(code, n), NEW k \in 1 .. n
  PROVE  /\ code[k][1] \in Calculated => k \in {1, 4, n - 1} \/ k \in 5 .. n - 4
         /\ code[k][1] \in Loads \cup Stores => k \in {2, 3, n - 3, n - 2} \/ k \in 5 .. n - 4
         /\ code[k][1] \in Jumps \cup {"call", "label"} => k \in 5 .. n - 4
         /\ code[k][1] = "ret" => k = n
<1>1. k \in {1, 2, 3, 4} \/ k \in 5 .. n - 4 \/ k \in {n - 3, n - 2, n - 1, n}
  BY PlaceCases DEF Framed
<1>2. /\ "addi" \notin Loads \cup Stores \cup Jumps \cup {"call", "label", "ret"}
      /\ "sw" \notin Calculated \cup Jumps \cup {"call", "label", "ret"}
      /\ "lw" \notin Calculated \cup Jumps \cup {"call", "label", "ret"}
      /\ "ret" \notin Calculated \cup Loads \cup Stores \cup Jumps \cup {"call", "label"}
  BY DEF Calculated, Alu, Alui, Alu1, FAlu, FTest, Loads, Stores, Jumps
<1>3. /\ code[1][1] = "addi" /\ code[2][1] = "sw" /\ code[3][1] = "sw" /\ code[4][1] = "addi"
      /\ code[n - 3][1] = "lw" /\ code[n - 2][1] = "lw" /\ code[n - 1][1] = "addi" /\ code[n][1] = "ret"
  BY FramedFacts
<1>4. k \in 5 .. n - 4 => code[k][1] # "ret"
  BY DEF Framed, Body
<1>. QED
  BY <1>1, <1>2, <1>3, <1>4

\* Results are written to the destination alone: addi to sp and s0 at three
\* places, and to no register of the frame in the body.
LEMMA CalculateHeld ==
  ASSUME NEW n, Framed(ctx.code, n), Held(n, pc, regs), Calculate
  PROVE  Held(n, pc', regs')
<1>. DEFINE i == ctx.code[pc]
<1>1. /\ n \in Nat /\ n >= 8 /\ pc \in 1 .. n /\ pc' = pc + 1
      /\ i[1] \in Calculated
      /\ regs' = CASE i[1] = "label" -> regs
                   [] i[1] = "li" -> [regs EXCEPT ![i[2]] = Word(i[3])]
                   [] i[1] = "lui" -> [regs EXCEPT ![i[2]] = <<"hi", i[3]>>]
                   [] OTHER -> [regs EXCEPT ![i[2]] = Result(i, regs)]
  BY DEF Calculate, At, Go, Instr, Framed, Held, Calculated
<1>2. pc \in {1, 4, n - 1} \/ pc \in 5 .. n - 4
  BY <1>1, PlaceOf
<1>3. /\ FrameTop \in Int /\ FrameBytes \in Int /\ -FrameBytes \in Int /\ FrameTop - FrameBytes \in Int
      /\ FrameTop + (-FrameBytes) = FrameTop - FrameBytes
      /\ (FrameTop - FrameBytes) + FrameBytes = FrameTop
  BY FrameAssumption
<1>4. /\ DOMAIN regs = IntRegs \cup FloatRegs
      /\ "sp" \in DOMAIN regs /\ "s0" \in DOMAIN regs
  BY CallerRegs DEF Held
<1>5. ASSUME NEW r, NEW s, NEW y, i = <<"addi", r, s, y>>
      PROVE  regs' = [regs EXCEPT ![r] = Result(<<"addi", r, s, y>>, regs)]
  <2>1. i[1] = "addi" /\ i[2] = r
    BY <1>5
  <2>2. i[1] \notin {"label", "li", "lui"}
    BY <2>1
  <2>3. regs' = [regs EXCEPT ![i[2]] = Result(i, regs)]
    BY <1>1, <2>2
  <2>. QED
    BY <1>5, <2>1, <2>3
<1>6. CASE pc = 1
  <2>1. i = <<"addi", "sp", "sp", -FrameBytes>> /\ regs["sp"] = Word(FrameTop)
    <3>1. i = <<"addi", "sp", "sp", -FrameBytes>>
      BY <1>6, Zenon DEF Framed
    <3>. QED
      BY <1>6, <3>1, Zenon DEF Held
  <2>2. Result(<<"addi", "sp", "sp", -FrameBytes>>, regs) = Word(FrameTop - FrameBytes)
    BY <1>3, <2>1, WordAdd
  <2>3. regs' = [regs EXCEPT !["sp"] = Word(FrameTop - FrameBytes)]
    BY <1>5, <2>1, <2>2
  <2>4. DOMAIN regs' = DOMAIN regs /\ regs'["sp"] = Word(FrameTop - FrameBytes)
    BY <1>4, <2>3
  <2>5. pc' = 2 /\ 2 \in 1 .. n /\ 2 # n
    BY <1>1, <1>6
  <2>. QED
    BY <1>4, <2>1, <2>4, <2>5 DEF Held
<1>7. CASE pc = 4
  <2>1. pc # 1 /\ pc # n
    BY <1>1, <1>7
  <2>2. i = <<"addi", "s0", "sp", FrameBytes>> /\ regs["sp"] = Word(FrameTop - FrameBytes)
    BY <1>1, <1>7, <2>1 DEF Framed, Held
  <2>3. Result(<<"addi", "s0", "sp", FrameBytes>>, regs) = Word(FrameTop)
    BY <1>3, <2>2, WordAdd
  <2>4. regs' = [regs EXCEPT !["s0"] = Word(FrameTop)]
    BY <1>5, <2>2, <2>3
  <2>5. DOMAIN regs' = DOMAIN regs /\ regs'["sp"] = regs["sp"] /\ regs'["s0"] = Word(FrameTop)
    BY <1>4, <2>4
  <2>6. pc' = 5 /\ 5 \in 1 .. n /\ 5 # n
    BY <1>1, <1>7
  <2>. QED
    BY <1>4, <2>2, <2>5, <2>6 DEF Held
<1>8. CASE pc = n - 1
  <2>1. pc # 1 /\ pc # n
    BY <1>1, <1>8
  <2>2. i = <<"addi", "sp", "sp", FrameBytes>> /\ regs["sp"] = Word(FrameTop - FrameBytes)
    BY <1>1, <1>8, <2>1 DEF Framed, Held
  <2>3. Result(<<"addi", "sp", "sp", FrameBytes>>, regs) = Word(FrameTop)
    BY <1>3, <2>2, WordAdd
  <2>4. regs' = [regs EXCEPT !["sp"] = Word(FrameTop)]
    BY <1>5, <2>2, <2>3
  <2>5. DOMAIN regs' = DOMAIN regs /\ regs'["sp"] = Word(FrameTop)
    BY <1>4, <2>4
  <2>6. pc' = n /\ n \in 1 .. n /\ n \notin 5 .. n - 2
    BY <1>1, <1>8
  <2>. QED
    BY <1>4, <2>5, <2>6 DEF Held
<1>9. CASE pc \in 5 .. n - 4
  <2>1. i[1] # "label" => i[2] \notin FrameRegs
    <3>1. i[1] \notin Stores \cup Jumps \cup {"call", "ret"}
      BY <1>1 DEF Calculated, Alu, Alui, Alu1, FAlu, FTest, Stores, Jumps
    <3>. QED
      BY <1>9, <3>1, BodyDest DEF Framed
  <2>2. \/ regs' = regs
        \/ i[1] # "label" /\ \E v : regs' = [regs EXCEPT ![i[2]] = v]
    BY <1>1
  <2>3. DOMAIN regs' = DOMAIN regs /\ \A r \in {"sp", "s0"} : regs'[r] = regs[r]
    BY <1>4, <2>1, <2>2, CallerRegs
  <2>4. pc' \in 5 .. n - 3 /\ n \in Nat /\ n >= 8
    BY <1>1, <1>9
  <2>. HIDE DEF i
  <2>. QED
    BY <1>9, <2>3, <2>4, HeldInBody
<1>. QED
  BY <1>2, <1>6, <1>7, <1>8, <1>9

\* Loads write ra and s0 at two places of the epilogue and no register of the
\* frame in the body; stores write memory.
LEMMA AccessHeld ==
  ASSUME NEW n, Framed(ctx.code, n), Held(n, pc, regs), Access
  PROVE  Held(n, pc', regs')
<1>. DEFINE i == ctx.code[pc]
<1>1. /\ n \in Nat /\ n >= 8 /\ pc \in 1 .. n /\ pc' = pc + 1 /\ i[1] \in Loads \cup Stores
  BY DEF Access, At, Go, Instr, Framed, Held
<1>2. regs' = regs \/ (i[1] \notin Stores /\ \E v : regs' = [regs EXCEPT ![i[2]] = v])
  BY DEF Access, Instr
<1>3. pc \in {2, 3, n - 3, n - 2} \/ pc \in 5 .. n - 4
  BY <1>1, PlaceOf
<1>4. /\ DOMAIN regs = IntRegs \cup FloatRegs
      /\ "sp" \in DOMAIN regs /\ "s0" \in DOMAIN regs
  BY CallerRegs DEF Held
<1>5. CASE pc \in {2, 3}
  <2>1. i[1] = "sw"
    BY <1>5, FramedFacts
  <2>2. regs' = regs
    BY <1>2, <2>1 DEF Stores
  <2>3. /\ pc # 1 /\ pc # n
        /\ pc' # 1 /\ pc' # n /\ pc' \in 1 .. n /\ pc' \notin 5 .. n - 2
    BY <1>1, <1>5
  <2>. QED
    BY <2>2, <2>3 DEF Held
<1>6. CASE pc = n - 3
  <2>1. i[2] = "ra"
    BY <1>6, FramedFacts
  <2>2. DOMAIN regs' = DOMAIN regs /\ regs'["sp"] = regs["sp"] /\ regs'["s0"] = regs["s0"]
    BY <1>2, <1>4, <2>1
  <2>3. /\ pc # 1 /\ pc # n /\ pc \in 5 .. n - 2
        /\ pc' # 1 /\ pc' # n /\ pc' \in 1 .. n
    BY <1>1, <1>6
  <2>. QED
    BY <2>2, <2>3 DEF Held
<1>7. CASE pc = n - 2
  <2>1. i[2] = "s0"
    BY <1>7, FramedFacts
  <2>2. DOMAIN regs' = DOMAIN regs /\ regs'["sp"] = regs["sp"]
    BY <1>2, <1>4, <2>1
  <2>3. /\ pc # 1 /\ pc # n
        /\ pc' # 1 /\ pc' # n /\ pc' \in 1 .. n /\ pc' \notin 5 .. n - 2
    BY <1>1, <1>7
  <2>. QED
    BY <2>2, <2>3 DEF Held
<1>8. CASE pc \in 5 .. n - 4
  <2>1. i[1] \notin Stores => i[2] \notin FrameRegs
    <3>1. i[1] \notin Jumps \cup {"label", "call", "ret"}
      BY <1>1 DEF Loads, Stores, Jumps
    <3>. QED
      BY <1>8, <3>1, BodyDest DEF Framed
  <2>2. DOMAIN regs' = DOMAIN regs /\ \A r \in {"sp", "s0"} : regs'[r] = regs[r]
    BY <1>2, <1>4, <2>1, CallerRegs
  <2>3. pc' \in 5 .. n - 3
    BY <1>1, <1>8
  <2>. QED
    BY <1>1, <1>8, <2>2, <2>3, HeldInBody
<1>. QED
  BY <1>3, <1>5, <1>6, <1>7, <1>8

\* A jump leads from the body to a label, and labels are in the body.
LEMMA JumpHeld ==
  ASSUME NEW n, Framed(ctx.code, n), Resolved(ctx.code), Held(n, pc, regs), Jump
  PROVE  Held(n, pc', regs')
<1>. DEFINE i == ctx.code[pc]  l == i[Len(i)]
<1>1. /\ n \in Nat /\ n >= 8 /\ pc \in 1 .. n /\ i[1] \in Jumps
      /\ pc' \in {pc + 1, Target(ctx.code, l)} /\ regs' = regs
      /\ DOMAIN ctx.code = 1 .. n
  BY DEF Jump, At, Go, Instr, Framed, Held
<1>2. pc \in 5 .. n - 4
  BY <1>1, PlaceOf
<1>3. l \in Uses(ctx.code)
  BY <1>1 DEF Uses
<1>4. PICK k \in DOMAIN ctx.code : Places(ctx.code, l) = {k}
  BY <1>3 DEF Resolved
<1>5. Target(ctx.code, l) = k /\ ctx.code[k][1] = "label"
  BY <1>4 DEF Target, Places
<1>6. k \in 5 .. n - 4
  BY <1>1, <1>5, PlaceOf
<1>7. pc' \in 5 .. n - 3
  BY <1>1, <1>2, <1>5, <1>6
<1>. QED
  BY <1>1, <1>2, <1>7, HeldInBody

\* A called function keeps sp and s0.
LEMMA CallHeld ==
  ASSUME NEW n, Framed(ctx.code, n), Held(n, pc, regs), CallFunction
  PROVE  Held(n, pc', regs')
<1>1. /\ n \in Nat /\ n >= 8 /\ pc \in 1 .. n /\ ctx.code[pc][1] = "call" /\ pc' = pc + 1
      /\ regs' = [r \in DOMAIN regs |->
                    CASE r = "a0" -> Word(CallValue)
                      [] r = "ra" -> <<"pc", pc + 1>>
                      [] OTHER -> IF r \in CallerSaved THEN Junk ELSE regs[r]]
      /\ DOMAIN regs = IntRegs \cup FloatRegs
  BY DEF CallFunction, At, Go, Instr, Framed, Held
<1>2. pc \in 5 .. n - 4
  BY <1>1, PlaceOf
<1>3. DOMAIN regs' = DOMAIN regs /\ \A r \in {"sp", "s0"} : regs'[r] = regs[r]
  <2>1. /\ "sp" \in DOMAIN regs /\ "sp" \notin CallerSaved
        /\ "s0" \in DOMAIN regs /\ "s0" \notin CallerSaved
    BY <1>1, CallerRegs
  <2>. QED
    BY <1>1, <2>1
<1>4. pc' \in 5 .. n - 3
  BY <1>1, <1>2
<1>. QED
  BY <1>1, <1>2, <1>3, <1>4, HeldInBody

\* The only return is the last instruction, after sp was put back.
LEMMA ReturnHeld ==
  ASSUME NEW n, Framed(ctx.code, n), Held(n, pc, regs), Return
  PROVE  regs'["sp"] = Word(FrameTop)
<1>1. n \in Nat /\ pc \in 1 .. n /\ ctx.code[pc][1] = "ret" /\ regs' = regs
  BY DEF Return, At, Go, Instr, Framed, Held
<1>2. pc = n
  BY <1>1, PlaceOf
<1>. QED
  BY <1>1, <1>2 DEF Held

\* What runs is the code of a function, with its jumps resolved.
LEMMA RunsFramed ==
  ASSUME IInv, phase = "running"
  PROVE  Framed(ctx.code, Len(ctx.code)) /\ Resolved(ctx.code)
<1>1. Compiled
  BY DEF Compiled
<1>2. Closed(ctx.code)
  BY <1>1 DEF IInv, Settled
<1>3. Resolved(ctx.code)
  BY <1>1, IInvSays DEF LabelsResolved
<1>. QED
  BY <1>2, <1>3, ClosedFacts

\* A function is entered at its first instruction with the registers of its caller.
LEMMA CompileHeld ==
  ASSUME Compile, NEW n, n \in Nat, n >= 8
  PROVE  Held(n, pc', regs')
<1>1. /\ pc' = 1
      /\ regs' = [r \in IntRegs \cup FloatRegs |->
                    IF r \in FrameRegs THEN Caller[r] ELSE IF r = "zero" THEN Word(0) ELSE Junk]
  BY DEF Compile
<1>2. DOMAIN regs' = IntRegs \cup FloatRegs /\ regs'["sp"] = Word(FrameTop)
  BY <1>1, CallerRegs
<1>3. 1 \in 1 .. n /\ 1 \notin 5 .. n - 2
  OBVIOUS
<1>. QED
  BY <1>1, <1>2, <1>3 DEF Held

\* Before the compiler runs no machine does.
LEMMA InitMInv == Init => MInv
<1>. SUFFICES ASSUME Init PROVE MInv
  OBVIOUS
<1>1. phase = "input"
  BY DEF Init
<1>. QED
  BY <1>1, InitIInv DEF MInv

\* Each instruction keeps the frame.
LEMMA NextMInv ==
  ASSUME Ties, MInv, [Next]_vars
  PROVE  MInv'
<1>. DEFINE n == Len(ctx.code)
<1>1. IInv /\ IInv'
  BY NextIInv DEF MInv
<1>2. ASSUME phase = "running"
      PROVE  Framed(ctx.code, n) /\ Resolved(ctx.code) /\ Held(n, pc, regs)
  BY <1>1, <1>2, RunsFramed DEF MInv
<1>3. ASSUME phase = "running", phase' \in {"running", "trapped"}, ctx' = ctx, Held(n, pc', regs')
      PROVE  MInv'
  BY <1>1, <1>3 DEF MInv
<1>4. CASE Compile
  <2>1. phase' \in {"thrown", "rejected", "running"}
    BY <1>4 DEF Compile
  <2>2. ASSUME phase' = "running" PROVE Held(Len(ctx'.code), pc', regs')
    <3>1. Framed(ctx'.code, Len(ctx'.code))
      <4>1. Compiled'
        BY <2>2 DEF Compiled
      <4>2. Closed(ctx'.code)
        BY <1>1, <4>1 DEF IInv, Settled
      <4>. QED
        BY <4>2, ClosedFacts
    <3>. QED
      BY <1>4, <3>1, CompileHeld DEF Framed
  <2>. QED
    BY <1>1, <2>1, <2>2 DEF MInv
<1>5. CASE Calculate
  <2>1. phase = "running" /\ phase' = "running" /\ ctx' = ctx
    BY <1>5 DEF Calculate, At, Go
  <2>. QED
    BY <1>2, <1>3, <1>5, <2>1, CalculateHeld
<1>6. CASE Access
  <2>1. phase = "running" /\ phase' \in {"running", "trapped"} /\ ctx' = ctx
    BY <1>6 DEF Access, At, Go
  <2>. QED
    BY <1>2, <1>3, <1>6, <2>1, AccessHeld
<1>7. CASE Jump
  <2>1. phase = "running" /\ phase' \in {"running", "trapped"} /\ ctx' = ctx
    BY <1>7 DEF Jump, At, Go
  <2>. QED
    BY <1>2, <1>3, <1>7, <2>1, JumpHeld
<1>8. CASE CallFunction
  <2>1. phase = "running" /\ phase' = "running" /\ ctx' = ctx
    BY <1>8 DEF CallFunction, At, Go
  <2>. QED
    BY <1>2, <1>3, <1>8, <2>1, CallHeld
<1>9. CASE Return
  <2>1. phase = "running" /\ phase' = "returned"
    BY <1>9 DEF Return, At
  <2>2. regs'["sp"] = Word(FrameTop)
    BY <1>2, <1>9, <2>1, ReturnHeld
  <2>. QED
    BY <1>1, <2>1, <2>2 DEF MInv
<1>10. CASE UNCHANGED vars
  <2>1. UNCHANGED <<phase, ctx, pc, regs>>
    BY <1>10 DEF vars
  <2>. QED
    BY <1>1, <2>1 DEF MInv
<1>. QED
  BY <1>4, <1>5, <1>6, <1>7, <1>8, <1>9, <1>10 DEF Next

\* The invariant of the machine says both.
LEMMA MInvSays ==
  ASSUME MInv
  PROVE  FrameHeld /\ StaysInCode
<1>. DEFINE n == Len(ctx.code)
<1>1. Len(Prologue) = 4 /\ Len(Epilogue) = 4
  BY DEF Prologue, Epilogue
<1>2. ASSUME phase = "running"
      PROVE  Held(n, pc, regs) /\ n \in Nat /\ n >= 8 /\ DOMAIN ctx.code = 1 .. n
  BY <1>2, RunsFramed DEF MInv, Framed
<1>3. StaysInCode
  BY <1>2 DEF StaysInCode, Held
<1>4. ASSUME phase = "running", pc \in Len(Prologue) + 1 .. Len(ctx.code) - Len(Epilogue) + 1
      PROVE  regs["sp"] = Word(FrameTop - FrameBytes) /\ regs["s0"] = Word(FrameTop)
  <2>1. pc \in 5 .. n - 3
    BY <1>1, <1>2, <1>4
  <2>2. pc # 1 /\ pc # n /\ pc \in 5 .. n - 2
    BY <1>2, <1>4, <2>1
  <2>. QED
    BY <1>2, <1>4, <2>2 DEF Held
<1>5. FrameHeld
  BY <1>4, CallerRegs DEF FrameHeld, MInv
<1>. QED
  BY <1>3, <1>5

LEMMA AlwaysMInv == ASSUME Ties PROVE Spec => []MInv
<1>1. Init => MInv
  BY InitMInv
<1>2. MInv /\ [Next]_vars => MInv'
  BY NextMInv
<1>. QED
  BY <1>1, <1>2, PTL DEF Spec

\* Whatever the expression and the memory it runs in, sp and s0 are the ends of
\* the frame from the prologue to the epilogue, whatever it calls, and the
\* function returns with the stack where it was (init_stack, end_stack).
THEOREM AlwaysFrameHeld == ASSUME Ties PROVE Spec => []FrameHeld
<1>1. MInv => FrameHeld
  BY MInvSays
<1>2. Spec => []MInv
  BY AlwaysMInv
<1>. QED
  BY <1>1, <1>2, PTL

\* Whatever the expression, control stays in the code of its function until it
\* returns (makeUniqueLabel, ReturnStatement, end_stack).
THEOREM AlwaysStaysInCode == ASSUME Ties PROVE Spec => []StaysInCode
<1>1. MInv => StaysInCode
  BY MInvSays
<1>2. Spec => []MInv
  BY AlwaysMInv
<1>. QED
  BY <1>1, <1>2, PTL

=============================================================================
