-------------------------- MODULE ControlFlowProofs --------------------------
(***************************************************************************)
(* Proofs about ControlFlow: for every nesting of statements and any       *)
(* number of labels, break and continue go where the nesting says; every   *)
(* jump has a target and no label is defined twice, provided no switch     *)
(* with a default stands in another one whose default is still to come.    *)
(***************************************************************************)
EXTENDS ControlFlow, DataLemmas

\* labels lists, in order, the marks of the sequence marks that are not 0.
Tracks(labels, marks) ==
  \E f \in [1..Len(labels) -> 1..Len(marks)] :
    /\ \A k, l \in 1..Len(labels) : k < l => f[k] < f[l]
    /\ \A k \in 1..Len(labels) : marks[f[k]] # 0 /\ labels[k] = marks[f[k]]
    /\ \A i \in 1..Len(marks) : marks[i] # 0 => \E k \in 1..Len(labels) : f[k] = i

\* break_label_ and continue_label_ follow the nesting of statements.
Nested ==
  /\ Tracks(breaks, BreakMarks(open))
  /\ Tracks(continues, ContinueMarks(open))

\* What every statement under way has kept of the labels it took.
Distinct(s) ==
  /\ s.kind \in Loops => s.continue # 0
  /\ s.kind = "if" => s.start # s.end
  /\ s.kind # "switch" => s.todo = {}
  /\ s.todo \subseteq DOMAIN s.cases
  /\ \A v, w \in DOMAIN s.cases : v # w => s.cases[v] # s.cases[w]
  /\ \A v \in DOMAIN s.cases : s.cases[v] # s.end /\ s.cases[v] # s.default
  /\ s.end # s.default
  /\ s.default # 0 => s.kind = "switch"

\* A loop can be entered again, and at most one default label is awaited: the
\* one in default_switch_label_.
Ready ==
  /\ \A i \in DOMAIN open : Distinct(open[i])
  /\ \A i \in DOMAIN open : open[i].kind \in Loops => open[i].start \in defined
  /\ \A i \in DOMAIN open : open[i].default # 0 => open[i].default = default
  /\ \A i, j \in DOMAIN open : open[i].default # 0 /\ open[j].default # 0 => i = j

\* Labels come from the counter.
Taken ==
  /\ defined \subseteq 1..count
  /\ \A i \in DOMAIN open : Pending(open[i]) \subseteq 1..count

Output == Taken /\ JumpsLand /\ LabelsUnique

IInv == TypeOK /\ Nested /\ Ready /\ Output

-----------------------------------------------------------------------------
(* The stacks of labels.                                                   *)

\* What Append leaves of a sequence.
LEMMA AppendKeeps ==
  ASSUME NEW S, NEW s \in Seq(S), NEW x \in S
  PROVE  /\ Append(s, x) \in Seq(S)
         /\ Len(s) \in Nat /\ Len(Append(s, x)) = Len(s) + 1
         /\ DOMAIN s = 1..Len(s)
         /\ DOMAIN Append(s, x) = 1..Len(Append(s, x))
         /\ Len(Append(s, x)) \in 1..Len(Append(s, x))
         /\ Append(s, x)[Len(Append(s, x))] = x
         /\ \A i \in 1..Len(s) : i \in 1..Len(Append(s, x)) /\ Append(s, x)[i] = s[i]
         /\ \A i \in 1..Len(Append(s, x)) : i # Len(Append(s, x)) => i \in 1..Len(s)
  <1>1. Len(s) \in Nat /\ DOMAIN s = 1..Len(s)
    BY LenProperties
  <1>2. /\ Append(s, x) \in Seq(S) /\ Len(Append(s, x)) = Len(s) + 1
        /\ \A i \in 1..Len(s) : Append(s, x)[i] = s[i]
        /\ Append(s, x)[Len(s) + 1] = x
    BY AppendProperties
  <1>3. DOMAIN Append(s, x) = 1..Len(Append(s, x))
    BY <1>2, LenProperties
  <1> QED
    BY <1>1, <1>2, <1>3

\* The last index and the ones before it.
LEMMA LastIndex ==
  ASSUME NEW n \in Nat, n # 0
  PROVE  /\ \A i \in 1..n - 1 : i \in 1..n /\ i # n
         /\ \A i \in 1..n : i # n => i \in 1..n - 1
         /\ n \in 1..n
  OBVIOUS

\* What Front leaves of a sequence.
LEMMA FrontKeeps ==
  ASSUME NEW S, NEW s \in Seq(S), s # << >>
  PROVE  /\ Front(s) \in Seq(S)
         /\ Len(s) \in Nat /\ Len(s) \in 1..Len(s) /\ Len(Front(s)) = Len(s) - 1
         /\ DOMAIN s = 1..Len(s) /\ DOMAIN Front(s) = 1..Len(Front(s))
         /\ Last(s) = s[Len(s)] /\ Last(s) \in S
         /\ \A i \in 1..Len(Front(s)) :
              i \in 1..Len(s) /\ i # Len(s) /\ Front(s)[i] = s[i]
         /\ \A i \in 1..Len(s) : i # Len(s) => i \in 1..Len(Front(s))
  <1>1. /\ Len(s) \in Nat /\ DOMAIN s = 1..Len(s)
        /\ \A i \in 1..Len(s) : s[i] \in S
    BY LenProperties
  <1>2. Len(s) # 0
    BY EmptySeq
  <1>3. /\ SubSeq(s, 1, Len(s) - 1) \in Seq(S)
        /\ Len(SubSeq(s, 1, Len(s) - 1)) = Len(s) - 1
        /\ \A i \in 1..Len(s) - 1 : SubSeq(s, 1, Len(s) - 1)[i] = s[i]
    <2>1. \A i \in 1..Len(s) - 1 : s[i] \in S
      BY <1>1
    <2>2. 1 \in Int /\ Len(s) - 1 \in Int
      BY <1>1
    <2>3. /\ SubSeq(s, 1, Len(s) - 1) \in Seq(S)
          /\ Len(SubSeq(s, 1, Len(s) - 1)) = IF 1 <= Len(s) - 1 THEN (Len(s) - 1) - 1 + 1 ELSE 0
          /\ \A i \in 1..(Len(s) - 1) - 1 + 1 : SubSeq(s, 1, Len(s) - 1)[i] = s[1 + i - 1]
      BY <2>1, <2>2, SubSeqProperties
    <2> QED
      BY <1>1, <1>2, <2>3
  <1>4. DOMAIN Front(s) = 1..Len(Front(s))
    BY <1>3, LenProperties DEF Front
  <1>5. Last(s) = s[Len(s)] /\ Last(s) \in S
    BY <1>1, <1>2 DEF Last
  <1>6. /\ Front(s) \in Seq(S) /\ Len(Front(s)) = Len(s) - 1
        /\ \A i \in 1..Len(s) - 1 : Front(s)[i] = s[i]
    BY <1>3 DEF Front
  <1>7. /\ \A i \in 1..Len(Front(s)) :
              i \in 1..Len(s) /\ i # Len(s) /\ Front(s)[i] = s[i]
        /\ \A i \in 1..Len(s) : i # Len(s) => i \in 1..Len(Front(s))
        /\ Len(s) \in 1..Len(s)
    <2>1. /\ \A i \in 1..Len(s) - 1 : i \in 1..Len(s) /\ i # Len(s)
          /\ \A i \in 1..Len(s) : i # Len(s) => i \in 1..Len(s) - 1
          /\ Len(s) \in 1..Len(s)
      BY <1>1, <1>2, LastIndex
    <2>2. Len(Front(s)) = Len(s) - 1
      BY <1>6
    <2> QED
      BY <1>6, <2>1, <2>2, Zenon
  <1> QED
    BY <1>1, <1>4, <1>5, <1>6, <1>7

\* A statement without a label of the kind leaves the stack as it is.
LEMMA TrackSkip ==
  ASSUME NEW labels \in Seq(Nat), NEW marks \in Seq(Nat), Tracks(labels, marks)
  PROVE  Tracks(labels, Append(marks, 0))
  <1> DEFINE more == Append(marks, 0)
  <1>1. PICK f \in [1..Len(labels) -> 1..Len(marks)] :
          /\ \A k, l \in 1..Len(labels) : k < l => f[k] < f[l]
          /\ \A k \in 1..Len(labels) : marks[f[k]] # 0 /\ labels[k] = marks[f[k]]
          /\ \A i \in 1..Len(marks) : marks[i] # 0 => \E k \in 1..Len(labels) : f[k] = i
    BY DEF Tracks
  <1>2. /\ Len(more) = Len(marks) + 1 /\ Len(marks) \in Nat
        /\ more[Len(more)] = 0
        /\ \A i \in 1..Len(marks) : more[i] = marks[i]
    OBVIOUS
  <1> HIDE DEF more
  <1>3. f \in [1..Len(labels) -> 1..Len(more)]
    BY <1>2
  <1>4. \A k \in 1..Len(labels) : more[f[k]] # 0 /\ labels[k] = more[f[k]]
    BY <1>1, <1>2
  <1>5. \A i \in 1..Len(more) : more[i] # 0 => \E k \in 1..Len(labels) : f[k] = i
    BY <1>1, <1>2
  <1>6. Tracks(labels, more)
    BY <1>1, <1>3, <1>4, <1>5 DEF Tracks
  <1> QED
    BY <1>6 DEF more

\* A statement with one pushes it.
LEMMA TrackPush ==
  ASSUME NEW labels \in Seq(Nat), NEW marks \in Seq(Nat), Tracks(labels, marks),
         NEW x \in Nat \ {0}
  PROVE  Tracks(Append(labels, x), Append(marks, x))
  <1> DEFINE more == Append(marks, x)
             list == Append(labels, x)
  <1>1. PICK f \in [1..Len(labels) -> 1..Len(marks)] :
          /\ \A k, l \in 1..Len(labels) : k < l => f[k] < f[l]
          /\ \A k \in 1..Len(labels) : marks[f[k]] # 0 /\ labels[k] = marks[f[k]]
          /\ \A i \in 1..Len(marks) : marks[i] # 0 => \E k \in 1..Len(labels) : f[k] = i
    BY DEF Tracks
  <1>2. /\ Len(more) = Len(marks) + 1 /\ Len(marks) \in Nat /\ Len(labels) \in Nat
        /\ Len(list) = Len(labels) + 1
        /\ more[Len(more)] = x /\ list[Len(list)] = x
        /\ \A i \in 1..Len(marks) : more[i] = marks[i]
        /\ \A k \in 1..Len(labels) : list[k] = labels[k]
    OBVIOUS
  <1> HIDE DEF more, list
  <1> DEFINE g == [k \in 1..Len(list) |-> IF k = Len(list) THEN Len(more) ELSE f[k]]
  <1>a. Len(list) \in 1..Len(list) /\ Len(more) \in 1..Len(more)
    BY <1>2
  <1>b. \A k \in 1..Len(list) : k # Len(list) => k \in 1..Len(labels)
    BY <1>2
  <1>f. \A i \in 1..Len(more) : i = Len(more) \/ i \in 1..Len(marks)
    BY <1>2
  <1>c. ASSUME NEW k \in 1..Len(labels)
        PROVE  /\ k \in 1..Len(list) /\ k # Len(list)
               /\ f[k] \in 1..Len(marks) /\ f[k] \in 1..Len(more)
    <2>1. f[k] \in 1..Len(marks)
      OBVIOUS
    <2> QED
      BY <1>2, <2>1
  <1>d. g[Len(list)] = Len(more)
    BY <1>a
  <1>e. \A k \in 1..Len(labels) : g[k] = f[k] /\ g[k] \in 1..Len(marks)
    BY <1>c
  <1>3. g \in [1..Len(list) -> 1..Len(more)]
    BY <1>a, <1>b, <1>c
  <1> HIDE DEF g
  <1>4. \A k, l \in 1..Len(list) : k < l => g[k] < g[l]
    <2> SUFFICES ASSUME NEW k \in 1..Len(list), NEW l \in 1..Len(list), k < l
                 PROVE  g[k] < g[l]
      OBVIOUS
    <2>1. k \in 1..Len(labels)
      BY <1>2
    <2>2. CASE l = Len(list)
      BY <1>2, <1>d, <1>e, <2>1, <2>2
    <2>3. CASE l \in 1..Len(labels)
      BY <1>1, <1>e, <2>1, <2>3
    <2> QED
      BY <1>b, <2>2, <2>3
  <1>5. ASSUME NEW k \in 1..Len(list)
        PROVE  more[g[k]] # 0 /\ list[k] = more[g[k]]
    <2>1. CASE k = Len(list)
      BY <1>2, <1>d, <2>1
    <2>2. CASE k \in 1..Len(labels)
      <3>1. g[k] = f[k] /\ more[g[k]] = marks[f[k]]
        BY <1>2, <1>e, <2>2
      <3> QED
        BY <1>1, <1>2, <2>2, <3>1
    <2> QED
      BY <1>b, <2>1, <2>2
  <1>6. ASSUME NEW i \in 1..Len(more), more[i] # 0
        PROVE  \E k \in 1..Len(list) : g[k] = i
    <2>1. CASE i = Len(more)
      BY <1>a, <1>d, <2>1
    <2>2. CASE i \in 1..Len(marks)
      <3>1. PICK k \in 1..Len(labels) : f[k] = i
        BY <1>1, <1>2, <1>6, <2>2
      <3> QED
        BY <1>c, <1>e, <3>1
    <2> QED
      BY <1>f, <2>1, <2>2
  <1>7. Tracks(list, more)
    BY <1>3, <1>4, <1>5, <1>6 DEF Tracks
  <1> QED
    BY <1>7 DEF more, list

\* Where a statement has one, the innermost is the last label.
LEMMA TrackTop ==
  ASSUME NEW labels \in Seq(Nat), NEW marks \in Seq(Nat), Tracks(labels, marks),
         NEW i \in 1..Len(marks), marks[i] # 0
  PROVE  /\ labels # << >>
         /\ \E j \in 1..Len(marks) : marks[j] # 0 /\ Last(labels) = marks[j]
  <1>1. PICK f \in [1..Len(labels) -> 1..Len(marks)] :
          /\ \A k \in 1..Len(labels) : marks[f[k]] # 0 /\ labels[k] = marks[f[k]]
          /\ \A j \in 1..Len(marks) : marks[j] # 0 => \E k \in 1..Len(labels) : f[k] = j
    BY DEF Tracks
  <1>2. PICK k \in 1..Len(labels) : f[k] = i
    BY <1>1
  <1>3. Len(labels) \in 1..Len(labels) /\ labels # << >>
    BY <1>2
  <1>4. f[Len(labels)] \in 1..Len(marks) /\ marks[f[Len(labels)]] # 0
        /\ labels[Len(labels)] = marks[f[Len(labels)]]
    BY <1>1, <1>3
  <1> QED
    BY <1>3, <1>4 DEF Last

\* A statement that ends and has a label pops it.
LEMMA TrackPop ==
  ASSUME NEW labels \in Seq(Nat), NEW marks \in Seq(Nat), Tracks(labels, marks),
         marks # << >>, Last(marks) # 0
  PROVE  labels # << >> /\ Tracks(Front(labels), Front(marks))
  <1> DEFINE fewer == Front(marks)
             list == Front(labels)
  <1>1. PICK f \in [1..Len(labels) -> 1..Len(marks)] :
          /\ \A k, l \in 1..Len(labels) : k < l => f[k] < f[l]
          /\ \A k \in 1..Len(labels) : marks[f[k]] # 0 /\ labels[k] = marks[f[k]]
          /\ \A i \in 1..Len(marks) : marks[i] # 0 => \E k \in 1..Len(labels) : f[k] = i
    BY DEF Tracks
  <1>2. Len(marks) \in 1..Len(marks) /\ marks[Len(marks)] # 0
    BY DEF Last
  <1>3. PICK k \in 1..Len(labels) : f[k] = Len(marks)
    BY <1>1, <1>2
  <1>4. labels # << >> /\ Len(labels) \in 1..Len(labels)
    BY <1>3
  <1>5. f[Len(labels)] = Len(marks)
    <2>1. f[Len(labels)] \in 1..Len(marks)
      BY <1>4
    <2>2. k < Len(labels) => f[k] < f[Len(labels)]
      BY <1>1, <1>4
    <2> QED
      BY <1>3, <1>4, <2>1, <2>2
  <1>6. /\ Len(fewer) = Len(marks) - 1
        /\ \A i \in 1..Len(fewer) : fewer[i] = marks[i] /\ i \in 1..Len(marks)
    BY FrontKeeps
  <1>7. /\ Len(list) = Len(labels) - 1
        /\ \A i \in 1..Len(list) : list[i] = labels[i] /\ i \in 1..Len(labels)
    BY <1>4, FrontKeeps
  <1> HIDE DEF fewer, list
  <1>8. ASSUME NEW l \in 1..Len(list)
        PROVE  f[l] \in 1..Len(fewer)
    <2>1. l \in 1..Len(labels) /\ l < Len(labels)
      BY <1>4, <1>7
    <2>2. f[l] < f[Len(labels)] /\ f[l] \in 1..Len(marks)
      BY <1>1, <1>4, <2>1
    <2> QED
      BY <1>2, <1>5, <1>6, <2>2
  <1> DEFINE g == [l \in 1..Len(list) |-> f[l]]
  <1>9. g \in [1..Len(list) -> 1..Len(fewer)] /\ \A l \in 1..Len(list) : g[l] = f[l]
    BY <1>8
  <1> HIDE DEF g
  <1>10. \A l, m \in 1..Len(list) : l < m => g[l] < g[m]
    BY <1>1, <1>7, <1>9
  <1>11. ASSUME NEW l \in 1..Len(list)
         PROVE  fewer[g[l]] # 0 /\ list[l] = fewer[g[l]]
    <2>1. g[l] = f[l] /\ f[l] \in 1..Len(fewer)
      BY <1>8, <1>9
    <2>2. l \in 1..Len(labels) /\ list[l] = labels[l]
      BY <1>7
    <2>3. fewer[f[l]] = marks[f[l]]
      BY <1>6, <2>1
    <2>4. marks[f[l]] # 0 /\ labels[l] = marks[f[l]]
      BY <1>1, <2>2
    <2> QED
      BY <2>1, <2>2, <2>3, <2>4
  <1>12. ASSUME NEW i \in 1..Len(fewer), fewer[i] # 0
         PROVE  \E l \in 1..Len(list) : g[l] = i
    <2>1. PICK l \in 1..Len(labels) : f[l] = i
      BY <1>1, <1>6, <1>12
    <2>2. l # Len(labels)
      BY <1>2, <1>5, <1>6, <2>1
    <2>3. l \in 1..Len(list)
      <3>1. l \in Int /\ 1 <= l /\ l <= Len(labels) /\ Len(labels) \in Int
        OBVIOUS
      <3>2. l <= Len(labels) - 1
        BY <2>2, <3>1
      <3> QED
        BY <1>7, <3>1, <3>2
    <2> QED
      BY <1>9, <2>1, <2>3
  <1>13. Tracks(list, fewer)
    BY <1>9, <1>10, <1>11, <1>12 DEF Tracks
  <1> QED
    BY <1>4, <1>13 DEF list, fewer

\* The label it pops is its own.
LEMMA TrackLast ==
  ASSUME NEW labels \in Seq(Nat), NEW marks \in Seq(Nat), Tracks(labels, marks),
         marks # << >>, Last(marks) # 0
  PROVE  Last(labels) = Last(marks)
  <1>1. PICK f \in [1..Len(labels) -> 1..Len(marks)] :
          /\ \A k, l \in 1..Len(labels) : k < l => f[k] < f[l]
          /\ \A k \in 1..Len(labels) : marks[f[k]] # 0 /\ labels[k] = marks[f[k]]
          /\ \A i \in 1..Len(marks) : marks[i] # 0 => \E k \in 1..Len(labels) : f[k] = i
    BY DEF Tracks
  <1>2. Len(marks) \in 1..Len(marks) /\ marks[Len(marks)] # 0
    BY DEF Last
  <1>3. PICK k \in 1..Len(labels) : f[k] = Len(marks)
    BY <1>1, <1>2
  <1>4. Len(labels) \in 1..Len(labels)
    BY <1>3
  <1>5. f[Len(labels)] \in 1..Len(marks)
    BY <1>4
  <1>6. k < Len(labels) => f[k] < f[Len(labels)]
    BY <1>1, <1>4
  <1>7. f[Len(labels)] = Len(marks)
    BY <1>3, <1>4, <1>5, <1>6
  <1> QED
    BY <1>1, <1>4, <1>7 DEF Last

\* A sequence is its front and its last element.
LEMMA Restores ==
  ASSUME NEW S, NEW s \in Seq(S), s # << >>
  PROVE  s = Append(Front(s), Last(s))
  <1> DEFINE t == Append(Front(s), Last(s))
  <1>1. /\ Front(s) \in Seq(S) /\ Last(s) \in S /\ Last(s) = s[Len(s)]
        /\ Len(s) \in Nat /\ Len(Front(s)) = Len(s) - 1 /\ Len(s) \in 1..Len(s)
        /\ \A i \in 1..Len(Front(s)) : Front(s)[i] = s[i]
    BY FrontKeeps
  <1>2. /\ t \in Seq(S) /\ Len(t) = Len(Front(s)) + 1
        /\ \A i \in 1..Len(Front(s)) : t[i] = Front(s)[i]
        /\ t[Len(Front(s)) + 1] = Last(s)
    BY <1>1, AppendProperties
  <1> HIDE DEF t
  <1>3. Len(t) = Len(s) /\ t[Len(s)] = s[Len(s)]
    BY <1>1, <1>2
  <1>4. \A i \in 1..Len(s) : i # Len(s) => i \in 1..Len(Front(s))
    BY <1>1
  <1>5. \A i \in 1..Len(s) : t[i] = s[i]
    BY <1>1, <1>2, <1>3, <1>4
  <1>6. t = s
    BY <1>2, <1>3, <1>5, SeqEqual
  <1> QED
    BY <1>6 DEF t

\* One without a label leaves the stack as it is.
LEMMA TrackDrop ==
  ASSUME NEW labels \in Seq(Nat), NEW marks \in Seq(Nat), Tracks(labels, marks),
         marks # << >>, Last(marks) = 0
  PROVE  Tracks(labels, Front(marks))
  <1> DEFINE fewer == Front(marks)
  <1>1. PICK f \in [1..Len(labels) -> 1..Len(marks)] :
          /\ \A k, l \in 1..Len(labels) : k < l => f[k] < f[l]
          /\ \A k \in 1..Len(labels) : marks[f[k]] # 0 /\ labels[k] = marks[f[k]]
          /\ \A i \in 1..Len(marks) : marks[i] # 0 => \E k \in 1..Len(labels) : f[k] = i
    BY DEF Tracks
  <1>2. Len(marks) \in 1..Len(marks) /\ marks[Len(marks)] = 0
    BY DEF Last
  <1>3. /\ Len(fewer) = Len(marks) - 1
        /\ \A i \in 1..Len(fewer) : fewer[i] = marks[i] /\ i \in 1..Len(marks)
    BY FrontKeeps
  <1> HIDE DEF fewer
  <1>4. ASSUME NEW k \in 1..Len(labels)
        PROVE  f[k] \in 1..Len(fewer)
    <2>1. f[k] \in 1..Len(marks) /\ f[k] # Len(marks)
      BY <1>1, <1>2
    <2> QED
      BY <1>2, <1>3, <2>1
  <1>5. f \in [1..Len(labels) -> 1..Len(fewer)]
    BY <1>4
  <1>6. \A k \in 1..Len(labels) : fewer[f[k]] # 0 /\ labels[k] = fewer[f[k]]
    BY <1>1, <1>3, <1>4
  <1>7. \A i \in 1..Len(fewer) : fewer[i] # 0 => \E k \in 1..Len(labels) : f[k] = i
    BY <1>1, <1>3
  <1>8. Tracks(labels, fewer)
    BY <1>1, <1>5, <1>6, <1>7 DEF Tracks
  <1> QED
    BY <1>8 DEF fewer

\* What is left of the marks is determined by them: it is the marks without 0.
LEMMA TracksDetermined ==
  ASSUME NEW labels \in Seq(Nat), NEW marks \in Seq(Nat), Tracks(labels, marks)
  PROVE  labels = Without(marks, {0})
  <1> DEFINE S == {n \in Nat : \A m, l \in Seq(Nat) :
                     Len(m) = n /\ Tracks(l, m) => l = Without(m, {0})}
  <1>1. 0 \in S
    <2> SUFFICES ASSUME NEW m \in Seq(Nat), NEW l \in Seq(Nat), Len(m) = 0, Tracks(l, m)
                 PROVE  l = Without(m, {0})
      OBVIOUS
    <2>1. m = << >>
      BY EmptySeq
    <2>2. PICK f \in [1..Len(l) -> 1..Len(m)] : TRUE
      BY DEF Tracks
    <2>3. Len(l) = 0
      <3>1. Len(l) \in Nat
        OBVIOUS
      <3>2. \A k \in 1..Len(l) : f[k] \in 1..Len(m)
        BY <2>2
      <3>3. \A k : k \notin 1..Len(m)
        OBVIOUS
      <3> QED
        BY <3>1, <3>2, <3>3
    <2>4. l = << >>
      BY <2>3, EmptySeq
    <2> QED
      BY <2>1, <2>4, WithoutEmpty
  <1>2. ASSUME NEW n \in Nat, n \in S
        PROVE  n + 1 \in S
    <2> SUFFICES ASSUME NEW m \in Seq(Nat), NEW l \in Seq(Nat), Len(m) = n + 1, Tracks(l, m)
                 PROVE  l = Without(m, {0})
      OBVIOUS
    <2> DEFINE fewer == Front(m)
    <2>1. m # << >>
      OBVIOUS
    <2>2. /\ fewer \in Seq(Nat) /\ Len(fewer) = n /\ Last(m) \in Nat
      <3>1. /\ Front(m) \in Seq(Nat) /\ Len(Front(m)) = Len(m) - 1
            /\ Last(m) \in Nat
        BY <2>1, FrontKeeps
      <3> QED
        BY <3>1
    <2>3. m = Append(fewer, Last(m))
      BY <2>1, Restores
    <2> HIDE DEF fewer
    <2>4. Without(m, {0}) = IF Last(m) \in {0} THEN Without(fewer, {0})
                            ELSE Append(Without(fewer, {0}), Last(m))
      <3>1. Without(Append(fewer, Last(m)), {0})
              = IF Last(m) \in {0} THEN Without(fewer, {0})
                ELSE Append(Without(fewer, {0}), Last(m))
        BY <2>2, WithoutAppend
      <3> QED
        BY <2>3, <3>1, Zenon
    <2>5. CASE Last(m) = 0
      <3>1. Tracks(l, fewer)
        BY <2>1, <2>5, TrackDrop DEF fewer
      <3>2. l = Without(fewer, {0})
        BY <1>2, <2>2, <3>1
      <3> QED
        BY <2>4, <2>5, <3>2
    <2>6. CASE Last(m) # 0
      <3>1. l # << >> /\ Tracks(Front(l), fewer)
        BY <2>1, <2>6, TrackPop DEF fewer
      <3>2. Front(l) = Without(fewer, {0})
        BY <1>2, <2>2, <3>1, FrontKeeps
      <3>3. l = Append(Front(l), Last(l))
        BY <3>1, Restores
      <3>4. Last(l) = Last(m)
        BY <2>1, <2>6, TrackLast
      <3> QED
        BY <2>4, <2>6, <3>2, <3>3, <3>4
    <2> QED
      BY <2>5, <2>6
  <1> HIDE DEF S
  <1>3. \A n \in Nat : n \in S
    BY <1>1, <1>2, SetInduction
  <1>4. Len(marks) \in S
    BY <1>3
  <1> QED
    BY <1>4 DEF S

-----------------------------------------------------------------------------
(* The stack of statements.                                                *)

\* The numbers that stand for labels.
LEMMA LabelIsNat ==
  /\ MaxLabel \in Nat
  /\ \A l \in Label : l \in Nat /\ l # 0
  /\ \A l \in Label \cup {0} : l \in Nat
  BY ControlFlowAssumption DEF ControlFlowAssumption, Label

\* break_label_ and continue_label_ as sequences of numbers.
LEMMA LabelStacks ==
  ASSUME TypeOK
  PROVE  breaks \in Seq(Nat) /\ continues \in Seq(Nat)
  <1>1. /\ breaks \in Seq(Label) /\ continues \in Seq(Label)
        /\ Len(breaks) \in Nat /\ Len(continues) \in Nat
    BY LenProperties DEF TypeOK
  <1>2. /\ \A i \in 1..Len(breaks) : breaks[i] \in Nat
        /\ \A i \in 1..Len(continues) : continues[i] \in Nat
    BY <1>1, LabelIsNat, ElementOfSeq
  <1> QED
    BY <1>1, <1>2

\* The marks of a type-correct stack of statements.
LEMMA MarksType ==
  ASSUME NEW stack \in Seq(Statement)
  PROVE  /\ Len(stack) \in Nat /\ DOMAIN stack = 1..Len(stack)
         /\ BreakMarks(stack) \in Seq(Nat) /\ ContinueMarks(stack) \in Seq(Nat)
         /\ Len(BreakMarks(stack)) = Len(stack) /\ Len(ContinueMarks(stack)) = Len(stack)
         /\ \A i \in 1..Len(stack) :
              /\ BreakMarks(stack)[i] = IF stack[i].kind \in Breakable THEN stack[i].end ELSE 0
              /\ ContinueMarks(stack)[i] = IF stack[i].kind \in Loops THEN stack[i].continue ELSE 0
  <1>1. Len(stack) \in Nat /\ DOMAIN stack = 1..Len(stack)
    BY LenProperties
  <1>2. \A i \in 1..Len(stack) : stack[i].end \in Nat /\ stack[i].continue \in Nat
    <2> SUFFICES ASSUME NEW i \in 1..Len(stack)
                 PROVE  stack[i].end \in Nat /\ stack[i].continue \in Nat
      OBVIOUS
    <2>1. stack[i] \in Statement
      BY ElementOfSeq
    <2>2. stack[i].end \in Label /\ stack[i].continue \in Label \cup {0}
      BY <2>1 DEF Statement
    <2> QED
      BY <2>2, LabelIsNat
  <1> DEFINE b(i) == IF stack[i].kind \in Breakable THEN stack[i].end ELSE 0
             c(i) == IF stack[i].kind \in Loops THEN stack[i].continue ELSE 0
  <1>3. \A i \in 1..Len(stack) : b(i) \in Nat /\ c(i) \in Nat
    BY <1>2
  <1> HIDE DEF b, c
  <1>4. /\ [i \in 1..Len(stack) |-> b(i)] \in Seq(Nat)
        /\ [i \in 1..Len(stack) |-> c(i)] \in Seq(Nat)
    BY <1>1, <1>3
  <1>5. /\ Len([i \in 1..Len(stack) |-> b(i)]) = Len(stack)
        /\ Len([i \in 1..Len(stack) |-> c(i)]) = Len(stack)
    BY <1>1
  <1> QED
    BY <1>1, <1>4, <1>5 DEF BreakMarks, ContinueMarks, b, c

\* The marks of a stack with one more statement.
LEMMA MarksAppend ==
  ASSUME NEW stack \in Seq(Statement), NEW s \in Statement
  PROVE  /\ BreakMarks(Append(stack, s))
              = Append(BreakMarks(stack), IF s.kind \in Breakable THEN s.end ELSE 0)
         /\ ContinueMarks(Append(stack, s))
              = Append(ContinueMarks(stack), IF s.kind \in Loops THEN s.continue ELSE 0)
  <1> DEFINE b == IF s.kind \in Breakable THEN s.end ELSE 0
             c == IF s.kind \in Loops THEN s.continue ELSE 0
             more == Append(stack, s)
             bs == Append(BreakMarks(stack), b)
             cs == Append(ContinueMarks(stack), c)
  <1>1. b \in Nat /\ c \in Nat
    <2>1. s.end \in Label /\ s.continue \in Label \cup {0}
      BY DEF Statement
    <2> QED
      BY <2>1, LabelIsNat
  <1>2. /\ more \in Seq(Statement) /\ Len(more) = Len(stack) + 1
        /\ more[Len(more)] = s
        /\ \A i \in 1..Len(stack) : more[i] = stack[i]
        /\ \A i \in 1..Len(more) : i # Len(more) => i \in 1..Len(stack)
    BY AppendKeeps
  <1>3. /\ Len(stack) \in Nat
        /\ BreakMarks(stack) \in Seq(Nat) /\ ContinueMarks(stack) \in Seq(Nat)
        /\ Len(BreakMarks(stack)) = Len(stack) /\ Len(ContinueMarks(stack)) = Len(stack)
        /\ \A i \in 1..Len(stack) :
              /\ BreakMarks(stack)[i] = IF stack[i].kind \in Breakable THEN stack[i].end ELSE 0
              /\ ContinueMarks(stack)[i] = IF stack[i].kind \in Loops THEN stack[i].continue ELSE 0
    BY MarksType
  <1>4. /\ BreakMarks(more) \in Seq(Nat) /\ ContinueMarks(more) \in Seq(Nat)
        /\ Len(BreakMarks(more)) = Len(more) /\ Len(ContinueMarks(more)) = Len(more)
        /\ \A i \in 1..Len(more) :
              /\ BreakMarks(more)[i] = IF more[i].kind \in Breakable THEN more[i].end ELSE 0
              /\ ContinueMarks(more)[i] = IF more[i].kind \in Loops THEN more[i].continue ELSE 0
    BY <1>2, MarksType
  <1>5. /\ bs \in Seq(Nat) /\ Len(bs) = Len(stack) + 1 /\ bs[Len(stack) + 1] = b
        /\ \A i \in 1..Len(stack) : bs[i] = BreakMarks(stack)[i]
    BY <1>1, <1>3, AppendProperties
  <1>6. /\ cs \in Seq(Nat) /\ Len(cs) = Len(stack) + 1 /\ cs[Len(stack) + 1] = c
        /\ \A i \in 1..Len(stack) : cs[i] = ContinueMarks(stack)[i]
    BY <1>1, <1>3, AppendProperties
  <1>7. BreakMarks(more)[Len(more)] = b /\ ContinueMarks(more)[Len(more)] = c
    BY <1>2, <1>3, <1>4
  <1> HIDE DEF b, c, bs, cs, more
  <1>8. \A i \in 1..Len(more) : BreakMarks(more)[i] = bs[i] /\ ContinueMarks(more)[i] = cs[i]
    <2> SUFFICES ASSUME NEW i \in 1..Len(more)
                 PROVE  BreakMarks(more)[i] = bs[i] /\ ContinueMarks(more)[i] = cs[i]
      OBVIOUS
    <2>1. CASE i = Len(more)
      BY <1>2, <1>5, <1>6, <1>7, <2>1
    <2>2. CASE i # Len(more)
      BY <1>2, <1>3, <1>4, <1>5, <1>6, <2>2
    <2> QED
      BY <2>1, <2>2
  <1>9. BreakMarks(more) = bs
    BY <1>2, <1>4, <1>5, <1>8, SeqEqual
  <1>10. ContinueMarks(more) = cs
    BY <1>2, <1>4, <1>6, <1>8, SeqEqual
  <1> QED
    BY <1>9, <1>10 DEF b, c, bs, cs, more

\* The marks of a stack with one statement less.
LEMMA MarksFront ==
  ASSUME NEW stack \in Seq(Statement), stack # << >>
  PROVE  /\ BreakMarks(stack) # << >> /\ ContinueMarks(stack) # << >>
         /\ BreakMarks(Front(stack)) = Front(BreakMarks(stack))
         /\ ContinueMarks(Front(stack)) = Front(ContinueMarks(stack))
         /\ Last(BreakMarks(stack))
              = IF Last(stack).kind \in Breakable THEN Last(stack).end ELSE 0
         /\ Last(ContinueMarks(stack))
              = IF Last(stack).kind \in Loops THEN Last(stack).continue ELSE 0
  <1> DEFINE less == Front(stack)
  <1>1. /\ less \in Seq(Statement) /\ Len(stack) \in 1..Len(stack) /\ Last(stack) = stack[Len(stack)]
        /\ Len(stack) \in Nat /\ Len(less) = Len(stack) - 1
        /\ \A i \in 1..Len(less) : i \in 1..Len(stack) /\ less[i] = stack[i]
    BY FrontKeeps
  <1>2. /\ BreakMarks(stack) \in Seq(Nat) /\ ContinueMarks(stack) \in Seq(Nat)
        /\ Len(BreakMarks(stack)) = Len(stack) /\ Len(ContinueMarks(stack)) = Len(stack)
        /\ \A i \in 1..Len(stack) :
              /\ BreakMarks(stack)[i] = IF stack[i].kind \in Breakable THEN stack[i].end ELSE 0
              /\ ContinueMarks(stack)[i] = IF stack[i].kind \in Loops THEN stack[i].continue ELSE 0
    BY MarksType
  <1>3. /\ BreakMarks(less) \in Seq(Nat) /\ ContinueMarks(less) \in Seq(Nat)
        /\ Len(BreakMarks(less)) = Len(less) /\ Len(ContinueMarks(less)) = Len(less)
        /\ \A i \in 1..Len(less) :
              /\ BreakMarks(less)[i] = IF less[i].kind \in Breakable THEN less[i].end ELSE 0
              /\ ContinueMarks(less)[i] = IF less[i].kind \in Loops THEN less[i].continue ELSE 0
    BY <1>1, MarksType
  <1>4. BreakMarks(stack) # << >> /\ ContinueMarks(stack) # << >>
    <2>1. Len(<< >>) = 0
      BY EmptySeq
    <2>2. Len(stack) # 0
      BY <1>1
    <2> QED
      BY <1>2, <2>1, <2>2
  <1> DEFINE bs == BreakMarks(stack)
             cs == ContinueMarks(stack)
  <1>a. bs \in Seq(Nat) /\ bs # << >> /\ Len(bs) = Len(stack)
    BY <1>2, <1>4
  <1>b. cs \in Seq(Nat) /\ cs # << >> /\ Len(cs) = Len(stack)
    BY <1>2, <1>4
  <1> HIDE DEF bs, cs
  <1>c. /\ Front(bs) \in Seq(Nat) /\ Len(Front(bs)) = Len(bs) - 1 /\ Last(bs) = bs[Len(bs)]
        /\ \A i \in 1..Len(Front(bs)) : Front(bs)[i] = bs[i]
    BY <1>a, FrontKeeps
  <1>d. /\ Front(cs) \in Seq(Nat) /\ Len(Front(cs)) = Len(cs) - 1 /\ Last(cs) = cs[Len(cs)]
        /\ \A i \in 1..Len(Front(cs)) : Front(cs)[i] = cs[i]
    BY <1>b, FrontKeeps
  <1>5. /\ Front(BreakMarks(stack)) \in Seq(Nat)
        /\ Len(Front(BreakMarks(stack))) = Len(stack) - 1
        /\ Last(BreakMarks(stack)) = BreakMarks(stack)[Len(stack)]
        /\ \A i \in 1..Len(stack) - 1 : Front(BreakMarks(stack))[i] = BreakMarks(stack)[i]
    BY <1>a, <1>c DEF bs
  <1>6. /\ Front(ContinueMarks(stack)) \in Seq(Nat)
        /\ Len(Front(ContinueMarks(stack))) = Len(stack) - 1
        /\ Last(ContinueMarks(stack)) = ContinueMarks(stack)[Len(stack)]
        /\ \A i \in 1..Len(stack) - 1 : Front(ContinueMarks(stack))[i] = ContinueMarks(stack)[i]
    BY <1>b, <1>d DEF cs
  <1> HIDE DEF less
  <1>7. \A i \in 1..Len(less) :
          /\ BreakMarks(less)[i] = Front(BreakMarks(stack))[i]
          /\ ContinueMarks(less)[i] = Front(ContinueMarks(stack))[i]
    <2> SUFFICES ASSUME NEW i \in 1..Len(less)
                 PROVE  /\ BreakMarks(less)[i] = Front(BreakMarks(stack))[i]
                        /\ ContinueMarks(less)[i] = Front(ContinueMarks(stack))[i]
      OBVIOUS
    <2>1. i \in 1..Len(stack) - 1 /\ i \in 1..Len(stack) /\ less[i] = stack[i]
      BY <1>1
    <2>2. BreakMarks(less)[i] = BreakMarks(stack)[i]
      BY <1>2, <1>3, <2>1
    <2>3. ContinueMarks(less)[i] = ContinueMarks(stack)[i]
      BY <1>2, <1>3, <2>1
    <2> QED
      BY <1>5, <1>6, <2>1, <2>2, <2>3
  <1>8. BreakMarks(less) = Front(BreakMarks(stack))
    BY <1>1, <1>3, <1>5, <1>7, SeqEqual
  <1>9. ContinueMarks(less) = Front(ContinueMarks(stack))
    BY <1>1, <1>3, <1>6, <1>7, SeqEqual
  <1> QED
    BY <1>1, <1>2, <1>4, <1>5, <1>6, <1>8, <1>9 DEF less

-----------------------------------------------------------------------------
(* What a step does to each part of the invariant, whatever the statement. *)

\* The steps on break_label_ and continue_label_ when a statement begins.
LEMMA BeginNests ==
  ASSUME TypeOK, Nested, NEW s \in Statement, open' = Append(open, s),
         s.kind \in Loops => s.continue # 0,
         breaks' = IF s.kind \in Breakable THEN Append(breaks, s.end) ELSE breaks,
         continues' = IF s.kind \in Loops THEN Append(continues, s.continue) ELSE continues
  PROVE  Nested'
  <1> DEFINE b == IF s.kind \in Breakable THEN s.end ELSE 0
             c == IF s.kind \in Loops THEN s.continue ELSE 0
             bs == BreakMarks(open)
             cs == ContinueMarks(open)
  <1>1. /\ s.end \in Nat \ {0} /\ s.continue \in Nat
    <2>1. s.end \in Label /\ s.continue \in Label \cup {0}
      BY DEF Statement
    <2> QED
      BY <2>1, LabelIsNat
  <1>2. open \in Seq(Statement)
    BY DEF TypeOK
  <1>3. BreakMarks(open') = Append(bs, b) /\ ContinueMarks(open') = Append(cs, c)
    BY <1>2, MarksAppend
  <1>4. bs \in Seq(Nat) /\ cs \in Seq(Nat)
    BY <1>2, MarksType
  <1>5. breaks \in Seq(Nat) /\ continues \in Seq(Nat)
    BY LabelStacks
  <1>6. Tracks(breaks, bs) /\ Tracks(continues, cs)
    BY DEF Nested
  <1> HIDE DEF bs, cs
  <1>7. Tracks(breaks', Append(bs, b))
    <2>1. CASE s.kind \in Breakable
      BY <1>1, <1>4, <1>5, <1>6, <2>1, TrackPush
    <2>2. CASE s.kind \notin Breakable
      BY <1>4, <1>5, <1>6, <2>2, TrackSkip
    <2> QED
      BY <2>1, <2>2
  <1>8. Tracks(continues', Append(cs, c))
    <2>1. CASE s.kind \in Loops
      BY <1>1, <1>4, <1>5, <1>6, <2>1, TrackPush
    <2>2. CASE s.kind \notin Loops
      BY <1>4, <1>5, <1>6, <2>2, TrackSkip
    <2> QED
      BY <2>1, <2>2
  <1> QED
    BY <1>3, <1>7, <1>8 DEF Nested

\* The same when the innermost statement ends.
LEMMA FinishNests ==
  ASSUME TypeOK, Nested, open # << >>, Finish,
         Top.kind \in Loops => Top.continue # 0,
         breaks' = IF Top.kind \in Breakable THEN Front(breaks) ELSE breaks,
         continues' = IF Top.kind \in Loops THEN Front(continues) ELSE continues
  PROVE  /\ Nested'
         /\ Top.kind \in Breakable => breaks # << >>
         /\ Top.kind \in Loops => continues # << >>
  <1> DEFINE b == IF Top.kind \in Breakable THEN Top.end ELSE 0
             c == IF Top.kind \in Loops THEN Top.continue ELSE 0
             bs == BreakMarks(open)
             cs == ContinueMarks(open)
  <1>1. open \in Seq(Statement)
    BY DEF TypeOK
  <1>2. Top = Last(open)
    BY DEF Top, Last
  <1>3. Top.end # 0
    <2>1. Last(open) \in Statement
      BY <1>1, FrontKeeps
    <2>2. Top.end \in Label
      BY <1>2, <2>1 DEF Statement
    <2> QED
      BY <2>2, LabelIsNat
  <1>4. /\ bs # << >> /\ cs # << >> /\ Last(bs) = b /\ Last(cs) = c
        /\ BreakMarks(open') = Front(bs) /\ ContinueMarks(open') = Front(cs)
    BY <1>1, <1>2, MarksFront DEF Finish
  <1>5. bs \in Seq(Nat) /\ cs \in Seq(Nat)
    BY <1>1, MarksType
  <1>6. breaks \in Seq(Nat) /\ continues \in Seq(Nat)
    BY LabelStacks
  <1>7. Tracks(breaks, bs) /\ Tracks(continues, cs)
    BY DEF Nested
  <1> HIDE DEF bs, cs
  <1>8. Tracks(breaks', Front(bs)) /\ (Top.kind \in Breakable => breaks # << >>)
    <2>1. CASE Top.kind \in Breakable
      BY <1>3, <1>4, <1>5, <1>6, <1>7, <2>1, TrackPop
    <2>2. CASE Top.kind \notin Breakable
      BY <1>4, <1>5, <1>6, <1>7, <2>2, TrackDrop
    <2> QED
      BY <2>1, <2>2
  <1>9. Tracks(continues', Front(cs)) /\ (Top.kind \in Loops => continues # << >>)
    <2>1. CASE Top.kind \in Loops
      BY <1>4, <1>5, <1>6, <1>7, <2>1, TrackPop
    <2>2. CASE Top.kind \notin Loops
      BY <1>4, <1>5, <1>6, <1>7, <2>2, TrackDrop
    <2> QED
      BY <2>1, <2>2
  <1> QED
    BY <1>4, <1>8, <1>9 DEF Nested

\* A statement begins: it defines the labels of D, and jumps to those of J; its
\* labels are fresh.
LEMMA BeginEmits ==
  ASSUME TypeOK, Output, NEW s \in Statement, NEW D, NEW J,
         open' = Append(open, s), Emit(D, J), count' \in Nat, count <= count',
         D \subseteq count + 1 .. count', Pending(s) \subseteq count + 1 .. count',
         D \cap Pending(s) = {}, J \subseteq defined \cup D \cup Pending(s)
  PROVE  Output'
  <1> DEFINE n == Len(open)
  <1>1. /\ n \in Nat /\ DOMAIN open = 1..n /\ Len(open') = n + 1
        /\ DOMAIN open' = 1..n + 1
        /\ open'[n + 1] = s /\ n + 1 \in 1..n + 1
        /\ \A i \in 1..n : i \in 1..n + 1 /\ open'[i] = open[i]
        /\ \A i \in 1..n + 1 : i # n + 1 => i \in 1..n
    BY AppendKeeps DEF TypeOK
  <1> HIDE DEF n
  <1>2. count \in Nat
    BY LabelIsNat DEF TypeOK
  <1>3. /\ defined \subseteq 1..count
        /\ \A i \in 1..n : Pending(open[i]) \subseteq 1..count
        /\ jumps \subseteq defined \cup UNION {Pending(open[i]) : i \in 1..n}
        /\ repeated = {}
        /\ \A i \in 1..n : Pending(open[i]) \cap defined = {}
        /\ \A i, j \in 1..n : i # j => Pending(open[i]) \cap Pending(open[j]) = {}
    BY <1>1 DEF Output, Taken, JumpsLand, LabelsUnique
  <1>4. /\ defined' = defined \cup D /\ repeated' = repeated \cup (defined \cap D)
        /\ jumps' = jumps \cup J
    BY DEF Emit
  <1>5. /\ (1..count) \cap (count + 1 .. count') = {}
        /\ 1..count \subseteq 1..count' /\ count + 1 .. count' \subseteq 1..count'
    BY <1>2
  <1>6. Pending(open'[n + 1]) = Pending(s)
    BY <1>1
  <1>7. \A i \in 1..n : Pending(open'[i]) = Pending(open[i])
    BY <1>1
  <1> HIDE DEF Pending
  <1>8. Taken'
    <2>1. defined' \subseteq 1..count'
      BY <1>3, <1>4, <1>5
    <2>2. ASSUME NEW i \in 1..n + 1
          PROVE  Pending(open'[i]) \subseteq 1..count'
      BY <1>1, <1>3, <1>5, <1>6, <1>7
    <2> QED
      BY <1>1, <2>1, <2>2 DEF Taken
  <1>9. JumpsLand'
    <2> SUFFICES ASSUME NEW l \in jumps'
                 PROVE  l \in defined' \/ \E i \in 1..n + 1 : l \in Pending(open'[i])
      BY <1>1 DEF JumpsLand
    <2>1. CASE l \in jumps
      <3>1. l \in defined \/ \E i \in 1..n : l \in Pending(open[i])
        BY <1>3, <2>1
      <3> QED
        BY <1>1, <1>4, <1>7, <3>1
    <2>2. CASE l \in J
      BY <1>1, <1>4, <1>6, <2>2
    <2> QED
      BY <1>4, <2>1, <2>2
  <1>10. LabelsUnique'
    <2>1. repeated' = {}
      BY <1>3, <1>4, <1>5
    <2>2. ASSUME NEW i \in 1..n + 1
          PROVE  Pending(open'[i]) \cap defined' = {}
      <3>1. CASE i = n + 1
        BY <1>3, <1>4, <1>5, <1>6, <3>1
      <3>2. CASE i # n + 1
        BY <1>1, <1>3, <1>4, <1>5, <1>7, <3>2
      <3> QED
        BY <3>1, <3>2
    <2>3. ASSUME NEW i \in 1..n + 1, NEW j \in 1..n + 1, i # j
          PROVE  Pending(open'[i]) \cap Pending(open'[j]) = {}
      <3>1. CASE i = n + 1
        <4>1. j \in 1..n
          BY <1>1, <2>3, <3>1
        <4> QED
          BY <1>3, <1>5, <1>6, <1>7, <3>1, <4>1
      <3>2. CASE j = n + 1
        <4>1. i \in 1..n
          BY <1>1, <2>3, <3>2
        <4> QED
          BY <1>3, <1>5, <1>6, <1>7, <3>2, <4>1
      <3>3. CASE i \in 1..n /\ j \in 1..n
        BY <1>3, <1>7, <2>3, <3>3
      <3> QED
        BY <1>1, <3>1, <3>2, <3>3
    <2> QED
      BY <1>1, <2>1, <2>2, <2>3 DEF LabelsUnique
  <1> QED
    BY <1>8, <1>9, <1>10 DEF Output

\* The innermost statement becomes t.
TopBecomes(t) == open' = [open EXCEPT ![Len(open)] = t]

\* The innermost statement goes on: it defines some of the labels it awaits.
LEMMA TopEmits ==
  ASSUME TypeOK, Output, open # << >>, NEW t, NEW D, NEW J,
         TopBecomes(t), Emit(D, J), count' = count,
         D \subseteq Pending(Top), Pending(t) = Pending(Top) \ D,
         J \subseteq defined \cup D \cup Pending(t)
  PROVE  Output'
  <1> DEFINE n == Len(open)
  <1>1. /\ n \in Nat /\ DOMAIN open = 1..n /\ n \in 1..n
        /\ DOMAIN open' = 1..n
        /\ open'[n] = t /\ Top = open[n]
        /\ \A i \in 1..n : i # n => open'[i] = open[i]
    BY FrontKeeps DEF TypeOK, Top, TopBecomes
  <1> HIDE DEF n
  <1>3. /\ defined \subseteq 1..count
        /\ \A i \in 1..n : Pending(open[i]) \subseteq 1..count
        /\ jumps \subseteq defined \cup UNION {Pending(open[i]) : i \in 1..n}
        /\ repeated = {}
        /\ \A i \in 1..n : Pending(open[i]) \cap defined = {}
        /\ \A i, j \in 1..n : i # j => Pending(open[i]) \cap Pending(open[j]) = {}
    BY <1>1 DEF Output, Taken, JumpsLand, LabelsUnique
  <1>4. /\ defined' = defined \cup D /\ repeated' = repeated \cup (defined \cap D)
        /\ jumps' = jumps \cup J
    BY DEF Emit
  <1>5. /\ Pending(open'[n]) = Pending(open[n]) \ D
        /\ D \subseteq Pending(open[n])
    BY <1>1
  <1>6. \A i \in 1..n : i # n => Pending(open'[i]) = Pending(open[i])
    BY <1>1
  <1>7. \A i \in 1..n : Pending(open'[i]) \subseteq Pending(open[i])
    BY <1>5, <1>6
  <1> HIDE DEF Pending
  <1>8. Taken'
    <2>1. defined' \subseteq 1..count'
      BY <1>1, <1>3, <1>4, <1>5
    <2>2. ASSUME NEW i \in 1..n
          PROVE  Pending(open'[i]) \subseteq 1..count'
      BY <1>3, <1>7
    <2> QED
      BY <1>1, <2>1, <2>2 DEF Taken
  <1>9. JumpsLand'
    <2> SUFFICES ASSUME NEW l \in jumps'
                 PROVE  l \in defined' \/ \E i \in 1..n : l \in Pending(open'[i])
      BY <1>1 DEF JumpsLand
    <2>1. CASE l \in jumps
      <3>1. CASE l \in defined
        BY <1>4, <3>1
      <3>2. CASE \E i \in 1..n : l \in Pending(open[i])
        <4>1. PICK i \in 1..n : l \in Pending(open[i])
          BY <3>2
        <4>2. CASE i = n
          BY <1>4, <1>5, <4>1, <4>2
        <4>3. CASE i # n
          BY <1>6, <4>1, <4>3
        <4> QED
          BY <4>2, <4>3
      <3> QED
        BY <1>3, <2>1, <3>1, <3>2
    <2>2. CASE l \in J
      <3>1. l \in defined' \/ l \in Pending(open'[n])
        BY <1>1, <1>4, <2>2
      <3> QED
        BY <1>1, <3>1
    <2> QED
      BY <1>4, <2>1, <2>2
  <1>10. LabelsUnique'
    <2>1. repeated' = {}
      <3>1. Pending(open[n]) \cap defined = {}
        BY <1>1, <1>3
      <3> QED
        BY <1>3, <1>4, <1>5, <3>1
    <2>2. ASSUME NEW i \in 1..n
          PROVE  Pending(open'[i]) \cap defined' = {}
      <3>1. Pending(open[i]) \cap defined = {}
        BY <1>3
      <3>2. CASE i = n
        BY <1>4, <1>5, <3>1, <3>2
      <3>3. CASE i # n
        <4>1. Pending(open[i]) \cap Pending(open[n]) = {}
          BY <1>1, <1>3, <3>3
        <4> QED
          BY <1>4, <1>5, <1>6, <3>1, <3>3, <4>1
      <3> QED
        BY <3>2, <3>3
    <2>3. ASSUME NEW i \in 1..n, NEW j \in 1..n, i # j
          PROVE  Pending(open'[i]) \cap Pending(open'[j]) = {}
      <3>1. Pending(open[i]) \cap Pending(open[j]) = {}
        BY <1>3, <2>3
      <3> QED
        BY <1>7, <3>1
    <2> QED
      <3>1. DOMAIN open' = 1..n
        BY <1>1
      <3> QED
        BY <2>1, <2>2, <2>3, <3>1, Zenon DEF LabelsUnique
  <1> QED
    BY <1>8, <1>9, <1>10 DEF Output

\* The innermost statement ends: it defines the labels it still awaits.
LEMMA FinishEmits ==
  ASSUME TypeOK, Output, open # << >>, NEW J, Finish,
         Emit(Pending(Top), J), count' = count, J \subseteq defined \cup Pending(Top)
  PROVE  Output'
  <1> DEFINE n == Len(open)
             D == Pending(Top)
  <1>1. /\ n \in Nat /\ DOMAIN open = 1..n /\ n \in 1..n
        /\ Len(open') = n - 1 /\ DOMAIN open' = 1..Len(open')
        /\ Top = open[n]
        /\ \A i \in 1..Len(open') : i \in 1..n /\ i # n /\ open'[i] = open[i]
        /\ \A i \in 1..n : i # n => i \in 1..Len(open')
    BY FrontKeeps DEF TypeOK, Top, Finish
  <1> HIDE DEF n
  <1>3. /\ defined \subseteq 1..count
        /\ \A i \in 1..n : Pending(open[i]) \subseteq 1..count
        /\ jumps \subseteq defined \cup UNION {Pending(open[i]) : i \in 1..n}
        /\ repeated = {}
        /\ \A i \in 1..n : Pending(open[i]) \cap defined = {}
        /\ \A i, j \in 1..n : i # j => Pending(open[i]) \cap Pending(open[j]) = {}
    BY <1>1 DEF Output, Taken, JumpsLand, LabelsUnique
  <1>4. /\ defined' = defined \cup D /\ repeated' = repeated \cup (defined \cap D)
        /\ jumps' = jumps \cup J
    BY DEF Emit
  <1>5. D = Pending(open[n])
    BY <1>1
  <1>6. \A i \in 1..Len(open') : Pending(open'[i]) = Pending(open[i])
    BY <1>1
  <1> HIDE DEF Pending, D
  <1>7. J \subseteq defined \cup D
    BY DEF D
  <1>8. Taken'
    <2>1. defined' \subseteq 1..count'
      BY <1>1, <1>3, <1>4, <1>5
    <2>2. ASSUME NEW i \in 1..Len(open')
          PROVE  Pending(open'[i]) \subseteq 1..count'
      BY <1>1, <1>3, <1>6
    <2> QED
      BY <1>1, <2>1, <2>2, Zenon DEF Taken
  <1>9. JumpsLand'
    <2> SUFFICES ASSUME NEW l \in jumps'
                 PROVE  l \in defined' \/ \E i \in 1..Len(open') : l \in Pending(open'[i])
      BY <1>1 DEF JumpsLand
    <2>1. CASE l \in jumps
      <3>1. CASE l \in defined
        BY <1>4, <3>1
      <3>2. CASE \E i \in 1..n : l \in Pending(open[i])
        <4>1. PICK i \in 1..n : l \in Pending(open[i])
          BY <3>2
        <4>2. CASE i = n
          BY <1>4, <1>5, <4>1, <4>2
        <4>3. CASE i # n
          BY <1>1, <1>6, <4>1, <4>3
        <4> QED
          BY <4>2, <4>3
      <3> QED
        BY <1>3, <2>1, <3>1, <3>2
    <2>2. CASE l \in J
      BY <1>4, <1>7, <2>2
    <2> QED
      BY <1>4, <2>1, <2>2
  <1>10. LabelsUnique'
    <2>1. repeated' = {}
      <3>1. Pending(open[n]) \cap defined = {}
        BY <1>1, <1>3
      <3> QED
        BY <1>3, <1>4, <1>5, <3>1
    <2>2. ASSUME NEW i \in 1..Len(open')
          PROVE  Pending(open'[i]) \cap defined' = {}
      <3>1. i \in 1..n /\ i # n
        BY <1>1
      <3>2. Pending(open[i]) \cap defined = {} /\ Pending(open[i]) \cap Pending(open[n]) = {}
        BY <1>1, <1>3, <3>1
      <3> QED
        BY <1>4, <1>5, <1>6, <3>2
    <2>3. ASSUME NEW i \in 1..Len(open'), NEW j \in 1..Len(open'), i # j
          PROVE  Pending(open'[i]) \cap Pending(open'[j]) = {}
      BY <1>1, <1>3, <1>6, <2>3
    <2>4. DOMAIN open' = 1..Len(open')
      BY <1>1
    <2> QED
      BY <2>1, <2>2, <2>3, <2>4, Zenon DEF LabelsUnique
  <1> QED
    BY <1>8, <1>9, <1>10 DEF Output

\* No statement begins or ends: an expression defines fresh labels of its own,
\* or a jump goes where the output or a statement under way has a label.
LEMMA StayEmits ==
  ASSUME TypeOK, Output, NEW D, NEW J, open' = open, Emit(D, J),
         count' \in Nat, count <= count', D \subseteq count + 1 .. count',
         \A l \in J : \/ l \in defined \cup D
                      \/ \E i \in DOMAIN open : l \in Pending(open[i])
  PROVE  Output'
  <1>1. count \in Nat
    BY LabelIsNat DEF TypeOK
  <1>2. /\ defined \subseteq 1..count
        /\ \A i \in DOMAIN open : Pending(open[i]) \subseteq 1..count
        /\ jumps \subseteq defined \cup UNION {Pending(open[i]) : i \in DOMAIN open}
        /\ repeated = {}
        /\ \A i \in DOMAIN open : Pending(open[i]) \cap defined = {}
        /\ \A i, j \in DOMAIN open : i # j => Pending(open[i]) \cap Pending(open[j]) = {}
    BY DEF Output, Taken, JumpsLand, LabelsUnique
  <1>3. /\ defined' = defined \cup D /\ repeated' = repeated \cup (defined \cap D)
        /\ jumps' = jumps \cup J
    BY DEF Emit
  <1>4. /\ (1..count) \cap (count + 1 .. count') = {}
        /\ 1..count \subseteq 1..count' /\ count + 1 .. count' \subseteq 1..count'
    BY <1>1
  <1>5. \A i : Pending(open[i])' = Pending(open[i])
    BY DEF Pending
  <1> HIDE DEF Pending
  <1>6. Taken'
    BY <1>2, <1>3, <1>4, <1>5 DEF Taken
  <1>7. JumpsLand'
    <2> SUFFICES ASSUME NEW l \in jumps'
                 PROVE  l \in defined' \/ \E i \in DOMAIN open : l \in Pending(open[i])
      BY DEF JumpsLand
    <2>1. CASE l \in jumps
      BY <1>2, <1>3, <2>1
    <2>2. CASE l \in J
      BY <1>3, <2>2
    <2> QED
      BY <1>3, <2>1, <2>2
  <1>8. LabelsUnique'
    <2>1. repeated' = {}
      BY <1>2, <1>3, <1>4
    <2>2. ASSUME NEW i \in DOMAIN open
          PROVE  Pending(open[i]) \cap defined' = {}
      BY <1>2, <1>3, <1>4
    <2> QED
      BY <1>2, <2>1, <2>2 DEF LabelsUnique
  <1> QED
    BY <1>6, <1>7, <1>8 DEF Output

-----------------------------------------------------------------------------
(* The statements under way.                                               *)

\* A statement begins with what Ready asks of it.
LEMMA BeginReady ==
  ASSUME TypeOK, Ready, NEW s \in Statement, open' = Append(open, s),
         defined \subseteq defined', Distinct(s), s.kind \in Loops => s.start \in defined',
         IF s.default = 0 THEN default' = default
         ELSE default' = s.default /\ ~DefaultToCome
  PROVE  Ready'
  <1> DEFINE n == Len(open)
  <1>1. /\ n \in Nat /\ DOMAIN open = 1..n /\ DOMAIN open' = 1..n + 1
        /\ open'[n + 1] = s /\ n + 1 \in 1..n + 1
        /\ \A i \in 1..n : i \in 1..n + 1 /\ open'[i] = open[i]
        /\ \A i \in 1..n + 1 : i # n + 1 => i \in 1..n
    BY AppendKeeps DEF TypeOK
  <1> HIDE DEF n
  <1>2. /\ \A i \in 1..n : Distinct(open[i])
        /\ \A i \in 1..n : open[i].kind \in Loops => open[i].start \in defined
        /\ \A i \in 1..n : open[i].default # 0 => open[i].default = default
        /\ \A i, j \in 1..n : open[i].default # 0 /\ open[j].default # 0 => i = j
    BY <1>1 DEF Ready
  <1>3. s.default # 0 => \A i \in 1..n : open[i].default = 0
    BY <1>1 DEF DefaultToCome
  <1>4. ASSUME NEW i \in 1..n + 1
        PROVE  /\ Distinct(open'[i])
               /\ open'[i].kind \in Loops => open'[i].start \in defined'
               /\ open'[i].default # 0 => open'[i].default = default'
    <2>1. CASE i = n + 1
      BY <1>1, <2>1
    <2>2. CASE i # n + 1
      BY <1>1, <1>2, <1>3, <2>2
    <2> QED
      BY <2>1, <2>2
  <1>5. ASSUME NEW i \in 1..n + 1, NEW j \in 1..n + 1,
               open'[i].default # 0, open'[j].default # 0
        PROVE  i = j
    <2>1. CASE i = n + 1 \/ j = n + 1
      BY <1>1, <1>3, <1>5, <2>1
    <2>2. CASE i # n + 1 /\ j # n + 1
      BY <1>1, <1>2, <1>5, <2>2
    <2> QED
      BY <2>1, <2>2
  <1>6. DOMAIN open' = 1..n + 1
    BY <1>1
  <1> QED
    BY <1>4, <1>5, <1>6, Zenon DEF Ready

\* The innermost statement goes on, with the default it had or none.
LEMMA TopReady ==
  ASSUME TypeOK, Ready, open # << >>, NEW t, TopBecomes(t),
         defined \subseteq defined', Distinct(t), t.kind \in Loops => t.start \in defined',
         t.default \in {0, Top.default}, default' = default
  PROVE  Ready'
  <1> DEFINE n == Len(open)
  <1>1. /\ DOMAIN open = 1..n /\ n \in 1..n /\ DOMAIN open' = 1..n
        /\ open'[n] = t /\ Top = open[n]
        /\ \A i \in 1..n : i # n => open'[i] = open[i]
    BY FrontKeeps DEF TypeOK, Top, TopBecomes
  <1> HIDE DEF n
  <1>2. /\ \A i \in 1..n : Distinct(open[i])
        /\ \A i \in 1..n : open[i].kind \in Loops => open[i].start \in defined
        /\ \A i \in 1..n : open[i].default # 0 => open[i].default = default
        /\ \A i, j \in 1..n : open[i].default # 0 /\ open[j].default # 0 => i = j
    BY <1>1 DEF Ready
  <1>3. ASSUME NEW i \in 1..n
        PROVE  open'[i].default # 0 => open'[i].default = open[i].default
    BY <1>1
  <1>4. ASSUME NEW i \in 1..n
        PROVE  /\ Distinct(open'[i])
               /\ open'[i].kind \in Loops => open'[i].start \in defined'
               /\ open'[i].default # 0 => open'[i].default = default'
    <2>1. CASE i = n
      BY <1>1, <1>2, <1>3, <2>1
    <2>2. CASE i # n
      BY <1>1, <1>2, <2>2
    <2> QED
      BY <2>1, <2>2
  <1>5. ASSUME NEW i \in 1..n, NEW j \in 1..n,
               open'[i].default # 0, open'[j].default # 0
        PROVE  i = j
    BY <1>2, <1>3, <1>5
  <1>6. DOMAIN open' = 1..n
    BY <1>1
  <1> QED
    BY <1>4, <1>5, <1>6, Zenon DEF Ready

\* The innermost statement ends.
LEMMA FinishReady ==
  ASSUME TypeOK, Ready, open # << >>, Finish, defined \subseteq defined', default' = default
  PROVE  Ready'
  <1>1. /\ DOMAIN open' = 1..Len(open')
        /\ \A i \in 1..Len(open') : i \in DOMAIN open /\ open'[i] = open[i]
    <2>1. open \in Seq(Statement)
      BY DEF TypeOK
    <2>2. /\ DOMAIN open = 1..Len(open) /\ DOMAIN Front(open) = 1..Len(Front(open))
          /\ \A i \in 1..Len(Front(open)) : i \in 1..Len(open) /\ Front(open)[i] = open[i]
      BY <2>1, FrontKeeps
    <2> QED
      BY <2>2 DEF Finish
  <1>2. /\ \A i \in DOMAIN open : Distinct(open[i])
        /\ \A i \in DOMAIN open : open[i].kind \in Loops => open[i].start \in defined
        /\ \A i \in DOMAIN open : open[i].default # 0 => open[i].default = default
        /\ \A i, j \in DOMAIN open : open[i].default # 0 /\ open[j].default # 0 => i = j
    BY DEF Ready
  <1>3. ASSUME NEW i \in 1..Len(open')
        PROVE  /\ Distinct(open'[i])
               /\ open'[i].kind \in Loops => open'[i].start \in defined'
               /\ open'[i].default # 0 => open'[i].default = default'
    BY <1>1, <1>2
  <1>4. ASSUME NEW i \in 1..Len(open'), NEW j \in 1..Len(open'),
               open'[i].default # 0, open'[j].default # 0
        PROVE  i = j
    BY <1>1, <1>2, <1>4
  <1>5. DOMAIN open' = 1..Len(open')
    BY <1>1
  <1> QED
    BY <1>3, <1>4, <1>5, Zenon DEF Ready

\* The innermost statement goes on as a loop, a switch or neither, as before.
LEMMA TopNests ==
  ASSUME TypeOK, Nested, open # << >>, NEW t \in Statement, TopBecomes(t),
         t.end = Top.end, t.continue = Top.continue,
         t.kind \in Breakable <=> Top.kind \in Breakable,
         t.kind \in Loops <=> Top.kind \in Loops,
         breaks' = breaks, continues' = continues
  PROVE  Nested'
  <1> DEFINE n == Len(open)
  <1>1. /\ open \in Seq(Statement) /\ n \in Nat /\ n \in 1..n /\ Top = open[n]
    BY FrontKeeps DEF TypeOK, Top
  <1>2. /\ Len(open') = n /\ open'[n] = t
        /\ \A i \in 1..n : i # n => open'[i] = open[i]
    BY <1>1, ExceptSeq DEF TopBecomes
  <1> HIDE DEF n
  <1>3. \A i \in 1..n :
          /\ open'[i].kind \in Breakable <=> open[i].kind \in Breakable
          /\ open'[i].kind \in Loops <=> open[i].kind \in Loops
          /\ open'[i].end = open[i].end /\ open'[i].continue = open[i].continue
    BY <1>1, <1>2
  <1>4. BreakMarks(open') = BreakMarks(open)
    BY <1>2, <1>3 DEF BreakMarks, n
  <1>5. ContinueMarks(open') = ContinueMarks(open)
    BY <1>2, <1>3 DEF ContinueMarks, n
  <1> QED
    BY <1>4, <1>5, Zenon DEF Nested

-----------------------------------------------------------------------------
(* What a step does to the invariant, whatever the statement.              *)

\* Labels taken from the counter are labels.
LEMMA OutputType ==
  ASSUME Output', count' \in 0..MaxLabel
  PROVE  /\ defined' \subseteq Label /\ repeated' \subseteq Label
         /\ jumps' \subseteq Label \cup {0}
  <1>1. 1..count' \subseteq Label
    BY LabelIsNat DEF Label
  <1>2. defined' \subseteq 1..count' /\ repeated' = {}
    BY DEF Output, Taken, LabelsUnique
  <1>3. \A i \in DOMAIN open' : Pending(open[i])' \subseteq 1..count'
    BY DEF Output, Taken
  <1>4. jumps' \subseteq defined' \cup UNION {Pending(open[i])' : i \in DOMAIN open'}
    BY DEF Output, JumpsLand
  <1> HIDE DEF Pending
  <1>5. jumps' \subseteq 1..count'
    BY <1>2, <1>3, <1>4
  <1> QED
    BY <1>1, <1>2, <1>5

\* A statement begins.
LEMMA BeginKeeps ==
  ASSUME IInv, NEW s \in Statement, NEW D, NEW J,
         phase' = phase, open' = Append(open, s), Emit(D, J), count' \in count..MaxLabel,
         D \subseteq count + 1 .. count', Pending(s) \subseteq count + 1 .. count',
         D \cap Pending(s) = {}, J \subseteq defined \cup D \cup Pending(s),
         Distinct(s), s.kind \in Loops => s.start \in D,
         breaks' = IF s.kind \in Breakable THEN Append(breaks, s.end) ELSE breaks,
         continues' = IF s.kind \in Loops THEN Append(continues, s.continue) ELSE continues,
         IF s.default = 0 THEN default' = default
         ELSE default' = s.default /\ ~DefaultToCome
  PROVE  IInv'
  <1>1. TypeOK /\ Nested /\ Ready /\ Output
    BY DEF IInv
  <1>2. count \in Nat /\ count' \in Nat /\ count <= count' /\ count' \in 0..MaxLabel
    BY <1>1, LabelIsNat DEF TypeOK
  <1>3. D \subseteq defined' /\ defined \subseteq defined'
    BY DEF Emit
  <1>4. Output'
    BY <1>1, <1>2, BeginEmits
  <1>5. s.kind \in Loops => s.continue # 0
    BY DEF Distinct
  <1>6. Nested'
    BY <1>1, <1>5, BeginNests
  <1>7. s.kind \in Loops => s.start \in defined'
    BY <1>3
  <1>8. Ready'
    BY <1>1, <1>3, <1>7, BeginReady
  <1>9. TypeOK'
    <2>1. open' \in Seq(Statement)
      BY <1>1, AppendKeeps DEF TypeOK
    <2>2. s.end \in Label /\ s.default \in Label \cup {0} /\ s.continue \in Label \cup {0}
      BY DEF Statement
    <2>3. breaks' \in Seq(Label)
      BY <1>1, <2>2, AppendKeeps DEF TypeOK
    <2>4. continues' \in Seq(Label)
      <3>1. s.kind \in Loops => s.continue \in Label
        BY <1>5, <2>2
      <3> QED
        BY <1>1, <3>1, AppendKeeps DEF TypeOK
    <2>5. default' \in Label \cup {0} /\ phase' \in {"statements", "aborted"}
      BY <1>1, <2>2 DEF TypeOK
    <2>6. /\ defined' \subseteq Label /\ repeated' \subseteq Label
          /\ jumps' \subseteq Label \cup {0}
      BY <1>2, <1>4, OutputType
    <2> QED
      BY <1>2, <2>1, <2>3, <2>4, <2>5, <2>6 DEF TypeOK
  <1> QED
    BY <1>4, <1>6, <1>8, <1>9 DEF IInv

\* The innermost statement goes on.
LEMMA TopKeeps ==
  ASSUME IInv, open # << >>, NEW t \in Statement, NEW D, NEW J, TopBecomes(t), Emit(D, J),
         D \subseteq Pending(Top), Pending(t) = Pending(Top) \ D,
         J \subseteq defined \cup D \cup Pending(t),
         Distinct(t), t.kind \in Loops <=> Top.kind \in Loops,
         t.kind \in Breakable <=> Top.kind \in Breakable,
         t.end = Top.end, t.continue = Top.continue, t.start = Top.start,
         t.default \in {0, Top.default},
         UNCHANGED <<phase, count, breaks, continues, default>>
  PROVE  IInv'
  <1>1. TypeOK /\ Nested /\ Ready /\ Output
    BY DEF IInv
  <1>2. /\ phase' = phase /\ count' = count /\ breaks' = breaks
        /\ continues' = continues /\ default' = default
    OBVIOUS
  <1>3. open \in Seq(Statement) /\ Len(open) \in 1..Len(open) /\ DOMAIN open = 1..Len(open)
    BY <1>1, FrontKeeps DEF TypeOK
  <1>4. Output'
    BY <1>1, <1>2, TopEmits
  <1>5. Nested'
    BY <1>1, <1>2, TopNests
  <1>6. defined \subseteq defined'
    BY DEF Emit
  <1>7. t.kind \in Loops => t.start \in defined'
    BY <1>1, <1>3, <1>6 DEF Ready, Top
  <1>8. Ready'
    BY <1>1, <1>2, <1>6, <1>7, TopReady
  <1>9. TypeOK'
    <2>1. open' \in Seq(Statement)
      BY <1>3, ExceptSeq DEF TopBecomes
    <2>2. count' \in 0..MaxLabel
      BY <1>1, <1>2 DEF TypeOK
    <2>3. /\ defined' \subseteq Label /\ repeated' \subseteq Label
          /\ jumps' \subseteq Label \cup {0}
      BY <1>4, <2>2, OutputType
    <2> QED
      BY <1>1, <1>2, <2>1, <2>2, <2>3 DEF TypeOK
  <1> QED
    BY <1>4, <1>5, <1>8, <1>9 DEF IInv

\* The innermost statement ends.
LEMMA FinishKeeps ==
  ASSUME IInv, open # << >>, NEW J, Finish,
         Emit(Pending(Top), J), J \subseteq defined \cup Pending(Top),
         breaks' = IF Top.kind \in Breakable THEN Front(breaks) ELSE breaks,
         continues' = IF Top.kind \in Loops THEN Front(continues) ELSE continues,
         UNCHANGED <<phase, count, default>>
  PROVE  IInv'
  <1>1. TypeOK /\ Nested /\ Ready /\ Output
    BY DEF IInv
  <1>2. phase' = phase /\ count' = count /\ default' = default
    OBVIOUS
  <1>3. open \in Seq(Statement) /\ Len(open) \in 1..Len(open) /\ DOMAIN open = 1..Len(open)
        /\ Front(open) \in Seq(Statement)
    BY <1>1, FrontKeeps DEF TypeOK
  <1>4. Output'
    BY <1>1, <1>2, FinishEmits
  <1>5. Top.kind \in Loops => Top.continue # 0
    BY <1>1, <1>3 DEF Ready, Distinct, Top
  <1>6. /\ Nested'
        /\ Top.kind \in Breakable => breaks # << >>
        /\ Top.kind \in Loops => continues # << >>
    BY <1>1, <1>5, FinishNests
  <1>7. defined \subseteq defined'
    BY DEF Emit
  <1>8. Ready'
    BY <1>1, <1>2, <1>7, FinishReady
  <1>9. TypeOK'
    <2>1. open' \in Seq(Statement)
      BY <1>3 DEF Finish
    <2>2. count' \in 0..MaxLabel
      BY <1>1, <1>2 DEF TypeOK
    <2>3. /\ defined' \subseteq Label /\ repeated' \subseteq Label
          /\ jumps' \subseteq Label \cup {0}
      BY <1>4, <2>2, OutputType
    <2>4. breaks' \in Seq(Label)
      BY <1>1, <1>6, FrontKeeps DEF TypeOK
    <2>5. continues' \in Seq(Label)
      BY <1>1, <1>6, FrontKeeps DEF TypeOK
    <2> QED
      BY <1>1, <1>2, <2>1, <2>2, <2>3, <2>4, <2>5 DEF TypeOK
  <1> QED
    BY <1>4, <1>6, <1>8, <1>9 DEF IInv

\* No statement begins or ends.
LEMMA StayKeeps ==
  ASSUME IInv, NEW D, NEW J, Emit(D, J), count' \in count..MaxLabel,
         D \subseteq count + 1 .. count',
         \A l \in J : \/ l \in defined \cup D
                      \/ \E i \in DOMAIN open : l \in Pending(open[i]),
         UNCHANGED <<phase, open, breaks, continues, default>>
  PROVE  IInv'
  <1>1. TypeOK /\ Nested /\ Ready /\ Output
    BY DEF IInv
  <1>2. /\ phase' = phase /\ open' = open /\ breaks' = breaks
        /\ continues' = continues /\ default' = default
    OBVIOUS
  <1>3. count \in Nat /\ count' \in Nat /\ count <= count' /\ count' \in 0..MaxLabel
    BY <1>1, LabelIsNat DEF TypeOK
  <1>4. Output'
    BY <1>1, <1>2, <1>3, StayEmits
  <1>5. Nested'
    BY <1>1, <1>2 DEF Nested
  <1>6. defined \subseteq defined'
    BY DEF Emit
  <1>7. Ready'
    BY <1>1, <1>2, <1>6 DEF Ready
  <1>8. TypeOK'
    <2>1. /\ defined' \subseteq Label /\ repeated' \subseteq Label
          /\ jumps' \subseteq Label \cup {0}
      BY <1>3, <1>4, OutputType
    <2> QED
      BY <1>1, <1>2, <1>3, <2>1 DEF TypeOK
  <1> QED
    BY <1>4, <1>5, <1>7, <1>8 DEF IInv

-----------------------------------------------------------------------------
(* Every action keeps the invariant.                                       *)

\* The cases of a statement that has none.
LEMMA NoCases == << >> \in UNION {[V -> Label] : V \in SUBSET Value}
  <1>1. << >> \in [{} -> Label]
    OBVIOUS
  <1> QED
    BY <1>1

\* A statement that is not a switch.
LEMMA SimpleFacts ==
  ASSUME NEW kind \in {"if", "else", "while", "do", "for"}, NEW end \in Label,
         NEW continue \in Label \cup {0}, NEW start \in Label \cup {0}
  PROVE  LET s == Simple(kind, end, continue, start) IN
         /\ s \in Statement
         /\ s.kind = kind /\ s.end = end /\ s.continue = continue /\ s.start = start
         /\ s.default = 0 /\ s.todo = {} /\ DOMAIN s.cases = {}
         /\ Pending(s) = {end} \cup (IF kind \in Loops THEN {continue} ELSE {})
                               \cup (IF kind = "for" THEN {start + 1} ELSE {})
                               \cup (IF kind = "if" THEN {start} \ {0} ELSE {})
  <1> DEFINE s == Simple(kind, end, continue, start)
  <1>1. /\ s.kind = kind /\ s.end = end /\ s.continue = continue /\ s.start = start
        /\ s.default = 0 /\ s.todo = {} /\ s.cases = << >>
    BY DEF Simple
  <1>2. DOMAIN << >> = {}
    OBVIOUS
  <1>4. s \in Statement
    BY NoCases DEF Simple, Statement
  <1>5. Pending(s) = {end} \cup (IF kind \in Loops THEN {continue} ELSE {})
                           \cup (IF kind = "for" THEN {start + 1} ELSE {})
                           \cup (IF kind = "if" THEN {start} \ {0} ELSE {})
    BY <1>1 DEF Pending
  <1> QED
    BY <1>1, <1>2, <1>4, <1>5

\* The labels a step takes.
LEMMA TakeFacts ==
  ASSUME IInv, NEW n \in Nat, TakeLabels(n)
  PROVE  /\ count \in Nat /\ MaxLabel \in Nat /\ count + n <= MaxLabel
         /\ count' = count + n /\ count' \in count..MaxLabel
         /\ \A l \in count + 1 .. count + n : l \in Label
  BY LabelIsNat DEF IInv, TypeOK, TakeLabels, Label

\* While takes three labels, and awaits its condition and its end.
LEMMA BeginWhileKeeps == IInv /\ BeginWhile => IInv'
  <1> SUFFICES ASSUME IInv, BeginWhile PROVE IInv'
    OBVIOUS
  <1> DEFINE s == Simple("while", count + 3, count + 2, count + 1)
  <1>1. /\ TakeLabels(3)
        /\ breaks' = Append(breaks, count + 3) /\ continues' = Append(continues, count + 2)
        /\ Emit({count + 1}, {count + 2})
        /\ open' = Append(open, s) /\ phase' = phase /\ default' = default
    BY DEF BeginWhile, Begin
  <1>2. /\ count \in Nat /\ count' = count + 3 /\ count' \in count..MaxLabel
        /\ \A i \in 1..3 : count + i \in Label /\ count + i \in count + 1 .. count'
    BY <1>1, TakeFacts
  <1>3. /\ s \in Statement
        /\ s.kind = "while" /\ s.end = count + 3 /\ s.continue = count + 2
        /\ s.start = count + 1
        /\ s.default = 0 /\ s.todo = {} /\ DOMAIN s.cases = {}
        /\ Pending(s) = {count + 3, count + 2}
    BY <1>2, SimpleFacts DEF Loops
  <1> HIDE DEF s
  <1>4. Distinct(s)
    BY <1>2, <1>3 DEF Distinct
  <1>5. /\ {count + 1} \subseteq count + 1 .. count'
        /\ Pending(s) \subseteq count + 1 .. count'
        /\ {count + 1} \cap Pending(s) = {}
        /\ {count + 2} \subseteq defined \cup {count + 1} \cup Pending(s)
    BY <1>2, <1>3
  <1>6. /\ s.kind \in Loops => s.start \in {count + 1}
        /\ breaks' = IF s.kind \in Breakable THEN Append(breaks, s.end) ELSE breaks
        /\ continues' = IF s.kind \in Loops THEN Append(continues, s.continue) ELSE continues
        /\ IF s.default = 0 THEN default' = default
           ELSE default' = s.default /\ ~DefaultToCome
    BY <1>1, <1>3 DEF Loops, Breakable
  <1> QED
    BY <1>1, <1>2, <1>3, <1>4, <1>5, <1>6, BeginKeeps

\* DoWhile likewise.
LEMMA BeginDoWhileKeeps == IInv /\ BeginDoWhile => IInv'
  <1> SUFFICES ASSUME IInv, BeginDoWhile PROVE IInv'
    OBVIOUS
  <1> DEFINE s == Simple("do", count + 3, count + 2, count + 1)
  <1>1. /\ TakeLabels(3)
        /\ breaks' = Append(breaks, count + 3) /\ continues' = Append(continues, count + 2)
        /\ Emit({count + 1}, {})
        /\ open' = Append(open, s) /\ phase' = phase /\ default' = default
    BY DEF BeginDoWhile, Begin
  <1>2. /\ count \in Nat /\ count' = count + 3 /\ count' \in count..MaxLabel
        /\ \A i \in 1..3 : count + i \in Label /\ count + i \in count + 1 .. count'
    BY <1>1, TakeFacts
  <1>3. /\ s \in Statement
        /\ s.kind = "do" /\ s.end = count + 3 /\ s.continue = count + 2
        /\ s.start = count + 1
        /\ s.default = 0 /\ s.todo = {} /\ DOMAIN s.cases = {}
        /\ Pending(s) = {count + 3, count + 2}
    BY <1>2, SimpleFacts DEF Loops
  <1> HIDE DEF s
  <1>4. Distinct(s)
    BY <1>2, <1>3 DEF Distinct
  <1>5. /\ {count + 1} \subseteq count + 1 .. count'
        /\ Pending(s) \subseteq count + 1 .. count'
        /\ {count + 1} \cap Pending(s) = {}
        /\ {} \subseteq defined \cup {count + 1} \cup Pending(s)
    BY <1>2, <1>3
  <1>6. /\ s.kind \in Loops => s.start \in {count + 1}
        /\ breaks' = IF s.kind \in Breakable THEN Append(breaks, s.end) ELSE breaks
        /\ continues' = IF s.kind \in Loops THEN Append(continues, s.continue) ELSE continues
        /\ IF s.default = 0 THEN default' = default
           ELSE default' = s.default /\ ~DefaultToCome
    BY <1>1, <1>3 DEF Loops, Breakable
  <1> QED
    BY <1>1, <1>2, <1>3, <1>4, <1>5, <1>6, BeginKeeps

\* For awaits its iteration, its condition and its end.
LEMMA BeginForKeeps == IInv /\ BeginFor => IInv'
  <1> SUFFICES ASSUME IInv, BeginFor PROVE IInv'
    OBVIOUS
  <1> DEFINE s == Simple("for", count + 3, count + 4, count + 1)
  <1>1. /\ TakeLabels(4)
        /\ breaks' = Append(breaks, count + 3) /\ continues' = Append(continues, count + 4)
        /\ Emit({count + 1}, {count + 2})
        /\ open' = Append(open, s) /\ phase' = phase /\ default' = default
    BY DEF BeginFor, Begin
  <1>2. /\ count \in Nat /\ count' = count + 4 /\ count' \in count..MaxLabel
        /\ \A i \in 1..4 : count + i \in Label /\ count + i \in count + 1 .. count'
    BY <1>1, TakeFacts
  <1>3. /\ s \in Statement
        /\ s.kind = "for" /\ s.end = count + 3 /\ s.continue = count + 4
        /\ s.start = count + 1
        /\ s.default = 0 /\ s.todo = {} /\ DOMAIN s.cases = {}
        /\ Pending(s) = {count + 3, count + 4, count + 2}
    BY <1>2, SimpleFacts DEF Loops
  <1> HIDE DEF s
  <1>4. Distinct(s)
    BY <1>2, <1>3 DEF Distinct
  <1>5. /\ {count + 1} \subseteq count + 1 .. count'
        /\ Pending(s) \subseteq count + 1 .. count'
        /\ {count + 1} \cap Pending(s) = {}
        /\ {count + 2} \subseteq defined \cup {count + 1} \cup Pending(s)
    BY <1>2, <1>3
  <1>6. /\ s.kind \in Loops => s.start \in {count + 1}
        /\ breaks' = IF s.kind \in Breakable THEN Append(breaks, s.end) ELSE breaks
        /\ continues' = IF s.kind \in Loops THEN Append(continues, s.continue) ELSE continues
        /\ IF s.default = 0 THEN default' = default
           ELSE default' = s.default /\ ~DefaultToCome
    BY <1>1, <1>3 DEF Loops, Breakable
  <1> QED
    BY <1>1, <1>2, <1>3, <1>4, <1>5, <1>6, BeginKeeps

\* What the invariant says of the innermost statement.
LEMMA TopFacts ==
  ASSUME IInv, open # << >>
  PROVE  /\ Top \in Statement /\ Distinct(Top) /\ Len(open) \in DOMAIN open
         /\ Top.kind \in Loops => Top.start \in defined
         /\ Top.default # 0 => Top.default = default
         /\ Top.kind # "switch" => Top.todo = {} /\ Top.default = 0
  <1>1. open \in Seq(Statement) /\ Ready
    BY DEF IInv, TypeOK
  <1>2. DOMAIN open = 1..Len(open) /\ Len(open) \in DOMAIN open /\ Top \in Statement
    BY <1>1, FrontKeeps, ElementOfSeq DEF Top
  <1>3. /\ Distinct(Top)
        /\ Top.kind \in Loops => Top.start \in defined
        /\ Top.default # 0 => Top.default = default
    BY <1>1, <1>2 DEF Ready, Top
  <1> QED
    BY <1>2, <1>3 DEF Distinct

\* A loop ends with every label it still awaits.
LEMMA EndLoopKeeps == IInv /\ EndLoop => IInv'
  <1> SUFFICES ASSUME IInv, EndLoop PROVE IInv'
    OBVIOUS
  <1> DEFINE D == {Top.continue, Top.end}
                    \cup (IF Top.kind = "for" THEN {Top.start + 1} ELSE {})
  <1>1. /\ open # << >> /\ Top.kind \in Loops /\ Finish
        /\ \E back \in {{Top.start}, {}} : Emit(D, back)
        /\ breaks' = Front(breaks) /\ continues' = Front(continues)
        /\ UNCHANGED <<phase, count, default>>
    BY DEF EndLoop, Back
  <1>b. PICK back \in {{Top.start}, {}} : Emit(D, back)
    BY <1>1
  <1>2. /\ Top.start \in defined /\ Top.todo = {} /\ Top.default = 0 /\ Top.kind # "if"
    BY <1>1, TopFacts DEF Loops
  <1>3. Pending(Top) = D
    BY <1>1, <1>2 DEF Pending
  <1> HIDE DEF D
  <1>4. /\ breaks' = IF Top.kind \in Breakable THEN Front(breaks) ELSE breaks
        /\ continues' = IF Top.kind \in Loops THEN Front(continues) ELSE continues
    BY <1>1 DEF Breakable
  <1>5. back \subseteq defined \cup Pending(Top) /\ Emit(Pending(Top), back)
    BY <1>b, <1>2, <1>3
  <1> QED
    BY <1>1, <1>4, <1>5, FinishKeeps

\* The statement of an IfElse.
LEMMA IfFacts ==
  ASSUME NEW end \in Label, NEW start \in Label \cup {0}
  PROVE  LET s == Simple("if", end, 0, start) IN
         /\ s \in Statement /\ s.kind = "if" /\ s.end = end /\ s.start = start
         /\ s.default = 0 /\ s.todo = {} /\ DOMAIN s.cases = {}
         /\ Pending(s) = {end} \cup ({start} \ {0})
  <1> DEFINE s == Simple("if", end, 0, start)
  <1>1. /\ s.kind = "if" /\ s.end = end /\ s.start = start
        /\ s.default = 0 /\ s.todo = {} /\ s.cases = << >> /\ DOMAIN << >> = {}
    BY DEF Simple
  <1>2. s \in Statement
    BY NoCases DEF Simple, Statement
  <1>3. Pending(s) = {end} \cup ({start} \ {0})
    BY <1>1 DEF Pending, Loops
  <1> QED
    BY <1>1, <1>2, <1>3

\* IfElse awaits its end, and its else while it is to come.
LEMMA BeginIfKeeps ==
  ASSUME IInv, NEW b \in BOOLEAN, BeginIf(b)
  PROVE  IInv'
  <1> DEFINE n == IF b THEN 2 ELSE 1
             e == IF b THEN count + 2 ELSE 0
             J == {IF b THEN count + 2 ELSE count + 1}
             s == Simple("if", count + 1, 0, e)
  <1>1. /\ TakeLabels(n) /\ Emit({}, J)
        /\ open' = Append(open, s) /\ phase' = phase /\ default' = default
        /\ breaks' = breaks /\ continues' = continues
    BY DEF BeginIf, Begin
  <1>2. /\ count \in Nat /\ count' = count + n /\ count' \in count..MaxLabel
        /\ \A i \in 1..n : count + i \in Label /\ count + i \in count + 1 .. count'
    BY <1>1, TakeFacts
  <1>3. count + 1 \in Label /\ e \in Label \cup {0} /\ e # count + 1
    BY <1>2
  <1>a. e \in {0} \cup (count + 1 .. count') /\ J \subseteq {e, count + 1} \ {0}
    BY <1>2
  <1> HIDE DEF e, J
  <1>4. /\ s \in Statement /\ s.kind = "if" /\ s.end = count + 1 /\ s.start = e
        /\ s.default = 0 /\ s.todo = {} /\ DOMAIN s.cases = {}
        /\ Pending(s) = {count + 1} \cup ({e} \ {0})
    BY <1>3, IfFacts
  <1> HIDE DEF s
  <1>5. Distinct(s)
    BY <1>2, <1>3, <1>4 DEF Distinct, Loops
  <1>6. /\ {} \subseteq count + 1 .. count'
        /\ Pending(s) \subseteq count + 1 .. count'
        /\ {} \cap Pending(s) = {}
        /\ J \subseteq defined \cup {} \cup Pending(s)
    BY <1>2, <1>4, <1>a
  <1>7. /\ s.kind \in Loops => s.start \in {}
        /\ breaks' = IF s.kind \in Breakable THEN Append(breaks, s.end) ELSE breaks
        /\ continues' = IF s.kind \in Loops THEN Append(continues, s.continue) ELSE continues
        /\ IF s.default = 0 THEN default' = default
           ELSE default' = s.default /\ ~DefaultToCome
    BY <1>1, <1>4 DEF Loops, Breakable
  <1> QED
    BY <1>1, <1>2, <1>4, <1>5, <1>6, <1>7, BeginKeeps

\* The else label is defined where the first part ends.
LEMMA ElseKeeps == IInv /\ Else => IInv'
  <1> SUFFICES ASSUME IInv, Else PROVE IInv'
    OBVIOUS
  <1> DEFINE t == [Top EXCEPT !.kind = "else"]
  <1>1. /\ open # << >> /\ Top.kind = "if" /\ Top.start # 0
        /\ Emit({Top.start}, {Top.end}) /\ TopBecomes(t)
        /\ UNCHANGED <<phase, count, breaks, continues, default>>
    BY DEF Else, TopBecomes, Top
  <1>2. /\ Top \in Statement /\ Distinct(Top) /\ Top.todo = {} /\ Top.default = 0
    BY <1>1, TopFacts
  <1>3. /\ t \in Statement /\ t.kind = "else" /\ t.end = Top.end /\ t.start = Top.start
        /\ t.continue = Top.continue /\ t.cases = Top.cases /\ t.todo = {} /\ t.default = 0
    BY <1>2 DEF Statement
  <1> HIDE DEF t
  <1>4. Pending(Top) = {Top.end, Top.start} /\ Pending(t) = {Top.end}
    BY <1>1, <1>2, <1>3 DEF Pending, Loops
  <1>5. Top.start # Top.end
    BY <1>1, <1>2 DEF Distinct
  <1>6. Distinct(t)
    BY <1>2, <1>3 DEF Distinct, Loops
  <1>7. /\ {Top.start} \subseteq Pending(Top) /\ Pending(t) = Pending(Top) \ {Top.start}
        /\ {Top.end} \subseteq defined \cup {Top.start} \cup Pending(t)
    BY <1>4, <1>5
  <1>8. /\ t.kind \in Loops <=> Top.kind \in Loops
        /\ t.kind \in Breakable <=> Top.kind \in Breakable
        /\ t.default \in {0, Top.default}
    BY <1>1, <1>3 DEF Loops, Breakable
  <1> QED
    BY <1>1, <1>3, <1>6, <1>7, <1>8, TopKeeps

\* IfElse ends with its end label.
LEMMA EndIfKeeps == IInv /\ EndIf => IInv'
  <1> SUFFICES ASSUME IInv, EndIf PROVE IInv'
    OBVIOUS
  <1>1. /\ open # << >> /\ (Top.kind = "else" \/ (Top.kind = "if" /\ Top.start = 0))
        /\ Emit({Top.end}, {}) /\ Finish
        /\ UNCHANGED <<phase, count, breaks, continues, default>>
    BY DEF EndIf
  <1>2. Top.todo = {} /\ Top.default = 0
    BY <1>1, TopFacts
  <1>3. Pending(Top) = {Top.end}
    BY <1>1, <1>2 DEF Pending, Loops
  <1>4. /\ breaks' = IF Top.kind \in Breakable THEN Front(breaks) ELSE breaks
        /\ continues' = IF Top.kind \in Loops THEN Front(continues) ELSE continues
    BY <1>1 DEF Breakable, Loops
  <1>5. Emit(Pending(Top), {}) /\ {} \subseteq defined \cup Pending(Top)
    BY <1>1, <1>3
  <1> QED
    BY <1>1, <1>4, <1>5, FinishKeeps

\* The label of the value at position i is the i-th label taken.
LEMMA CaseLabels ==
  ASSUME NEW V \in SUBSET Value, NEW written \in SetToSeqs(V)
  PROVE  /\ Len(written) \in Nat /\ ToSet(written) \subseteq V
         /\ \A v \in ToSet(written) :
              SelectInSeq(written, LAMBDA w : w = v) \in 1..Len(written)
         /\ \A u, v \in ToSet(written) :
              SelectInSeq(written, LAMBDA w : w = u) = SelectInSeq(written, LAMBDA w : w = v)
                => u = v
  <1>1. Cardinality(V) \in Nat
    <2>1. IsFiniteSet(V)
      BY ControlFlowAssumption, FS_Subset DEF ControlFlowAssumption
    <2> QED
      BY <2>1, FS_CardinalityType
  <1>2. /\ written \in [1..Cardinality(V) -> V]
        /\ \A i, j \in 1..Cardinality(V) : i # j => written[i] # written[j]
    BY DEF SetToSeqs
  <1>3. Len(written) = Cardinality(V) /\ DOMAIN written = 1..Len(written)
    BY <1>1, <1>2
  <1>4. ToSet(written) \subseteq V
    BY <1>2, <1>3 DEF ToSet
  <1>5. ASSUME NEW v \in ToSet(written)
        PROVE  /\ SelectInSeq(written, LAMBDA w : w = v) \in 1..Len(written)
               /\ written[SelectInSeq(written, LAMBDA w : w = v)] = v
    <2>1. PICK i \in 1..Len(written) : written[i] = v
      BY <1>3, <1>5 DEF ToSet
    <2> DEFINE I == {k \in 1..Len(written) : written[k] = v}
    <2>2. I = {i}
      BY <1>2, <1>3, <2>1
    <2>3. Min({i}) = i
      BY <2>1 DEF Min
    <2>4. SelectInSeq(written, LAMBDA w : w = v) = IF I # {} THEN Min(I) ELSE 0
      BY DEF SelectInSeq
    <2> HIDE DEF I
    <2>5. SelectInSeq(written, LAMBDA w : w = v) = i
      BY <2>2, <2>3, <2>4
    <2> QED
      BY <2>1, <2>5
  <1>6. ASSUME NEW u \in ToSet(written), NEW v \in ToSet(written),
               SelectInSeq(written, LAMBDA w : w = u) = SelectInSeq(written, LAMBDA w : w = v)
        PROVE  u = v
    BY <1>5, <1>6
  <1> QED
    BY <1>1, <1>3, <1>4, <1>5, <1>6

\* Switch awaits its cases, its end and its default, all of them fresh.
LEMMA BeginSwitchKeeps ==
  ASSUME ~NestedDefaults, IInv, NEW V \in SUBSET Value, NEW written \in SetToSeqs(V),
         NEW b \in BOOLEAN, BeginSwitch(written, b), phase = "statements"
  PROVE  IInv'
  <1> DEFINE n == Len(written)
             at(v) == SelectInSeq(written, LAMBDA w : w = v)
             S == ToSet(written)
             cases == [v \in S |-> count + at(v)]
             end == count + n + 1
             label == IF b THEN count + n + 2 ELSE 0
             s == [kind |-> "switch", end |-> end, continue |-> 0, start |-> 0,
                   cases |-> cases, todo |-> S, default |-> label]
             J == {cases[v] : v \in DOMAIN cases} \cup {IF b THEN label ELSE end}
             taken == IF b THEN n + 2 ELSE n + 1
  <1>1. /\ b /\ DefaultToCome => NestedDefaults
        /\ TakeLabels(taken)
        /\ breaks' = Append(breaks, end) /\ continues' = continues /\ phase' = phase
        /\ default' = IF b THEN label ELSE default
        /\ Emit({}, J) /\ open' = Append(open, s)
    BY DEF BeginSwitch, Begin
  <1>2. /\ n \in Nat /\ S \subseteq Value
        /\ \A v \in S : at(v) \in 1..n
        /\ \A u, v \in S : at(u) = at(v) => u = v
    BY CaseLabels
  <1> HIDE DEF n, at, S
  <1>3. /\ count \in Nat /\ count' = count + taken /\ count' \in count..MaxLabel
        /\ \A l \in count + 1 .. count + taken : l \in Label
    BY <1>1, <1>2, TakeFacts
  <1>4. /\ end \in count + 1 .. count' /\ end \in Label
        /\ label \in {0} \cup (count + 1 .. count') /\ label \in Label \cup {0}
        /\ label # end /\ (b <=> label # 0)
    BY <1>2, <1>3
  <1>5. ASSUME NEW v \in S
        PROVE  /\ cases[v] = count + at(v) /\ cases[v] \in count + 1 .. count'
               /\ cases[v] \in Label /\ cases[v] # end /\ cases[v] # label
    BY <1>2, <1>3
  <1>6. \A u, v \in S : u # v => cases[u] # cases[v]
    BY <1>2, <1>3
  <1>7. DOMAIN cases = S /\ cases \in [S -> Label]
    BY <1>5
  <1> HIDE DEF cases, end, label, taken
  <1>8. /\ s.kind = "switch" /\ s.end = end /\ s.continue = 0 /\ s.start = 0
        /\ s.cases = cases /\ s.todo = S /\ s.default = label
    OBVIOUS
  <1>9. s \in Statement
    <2>1. cases \in UNION {[W -> Label] : W \in SUBSET Value}
      BY <1>2, <1>7
    <2> QED
      BY <1>2, <1>4, <2>1 DEF Statement
  <1> HIDE DEF s
  <1>10. Pending(s) = {end} \cup {cases[v] : v \in S} \cup ({label} \ {0})
    BY <1>8 DEF Pending, Loops
  <1>11. Distinct(s)
    BY <1>4, <1>5, <1>6, <1>7, <1>8 DEF Distinct, Loops
  <1>12. /\ {} \subseteq count + 1 .. count'
         /\ Pending(s) \subseteq count + 1 .. count'
         /\ {} \cap Pending(s) = {}
    BY <1>4, <1>5, <1>10
  <1>13. J \subseteq defined \cup {} \cup Pending(s)
    BY <1>4, <1>7, <1>10
  <1>14. /\ s.kind \in Loops => s.start \in {}
         /\ breaks' = IF s.kind \in Breakable THEN Append(breaks, s.end) ELSE breaks
         /\ continues' = IF s.kind \in Loops THEN Append(continues, s.continue) ELSE continues
    BY <1>1, <1>8 DEF Loops, Breakable
  <1>15. IF s.default = 0 THEN default' = default
         ELSE default' = s.default /\ ~DefaultToCome
    BY <1>1, <1>4, <1>8
  <1> HIDE DEF J
  <1> QED
    BY <1>1, <1>3, <1>9, <1>11, <1>12, <1>13, <1>14, <1>15, BeginKeeps

\* A case defines its own label, which no other label of the switch is.
LEMMA EmitCaseKeeps ==
  ASSUME IInv, NEW v, EmitCase(v)
  PROVE  IInv'
  <1> DEFINE t == [Top EXCEPT !.todo = Top.todo \ {v}]
  <1>1. /\ open # << >> /\ Top.kind = "switch" /\ v \in Top.todo
        /\ Emit({Top.cases[v]}, {}) /\ TopBecomes(t)
        /\ UNCHANGED <<phase, count, breaks, continues, default>>
    BY DEF EmitCase, InSwitch, TopBecomes, Top
  <1>2. Top \in Statement /\ Distinct(Top)
    BY <1>1, TopFacts
  <1>3. /\ t \in Statement /\ t.kind = "switch" /\ t.end = Top.end /\ t.start = Top.start
        /\ t.continue = Top.continue /\ t.cases = Top.cases /\ t.default = Top.default
        /\ t.todo = Top.todo \ {v}
    BY <1>1, <1>2 DEF Statement
  <1> HIDE DEF t
  <1>4. /\ Pending(Top) = {Top.end} \cup {Top.cases[w] : w \in Top.todo} \cup ({Top.default} \ {0})
        /\ Pending(t) = {Top.end} \cup {Top.cases[w] : w \in Top.todo \ {v}}
                                  \cup ({Top.default} \ {0})
    BY <1>1, <1>3 DEF Pending, Loops
  <1>5. /\ Top.cases[v] # Top.end /\ Top.cases[v] # Top.default
        /\ \A w \in Top.todo \ {v} : Top.cases[w] # Top.cases[v]
    BY <1>1, <1>2 DEF Distinct
  <1>6. Distinct(t)
    BY <1>2, <1>3 DEF Distinct, Loops
  <1>7. /\ {Top.cases[v]} \subseteq Pending(Top)
        /\ Pending(t) = Pending(Top) \ {Top.cases[v]}
        /\ {} \subseteq defined \cup {Top.cases[v]} \cup Pending(t)
    BY <1>1, <1>4, <1>5
  <1>8. /\ t.kind \in Loops <=> Top.kind \in Loops
        /\ t.kind \in Breakable <=> Top.kind \in Breakable
        /\ t.default \in {0, Top.default}
    BY <1>1, <1>3
  <1> QED
    BY <1>1, <1>3, <1>6, <1>7, <1>8, TopKeeps

\* default_switch_label_ is the label of the default of the innermost switch.
LEMMA EmitDefaultKeeps == IInv /\ EmitDefault => IInv'
  <1> SUFFICES ASSUME IInv, EmitDefault PROVE IInv'
    OBVIOUS
  <1> DEFINE t == [Top EXCEPT !.default = 0]
  <1>1. /\ open # << >> /\ Top.kind = "switch" /\ Top.default # 0
        /\ Emit({default}, {}) /\ TopBecomes(t)
        /\ UNCHANGED <<phase, count, breaks, continues, default>>
    BY DEF EmitDefault, InSwitch, TopBecomes, Top
  <1>2. Top \in Statement /\ Distinct(Top) /\ Top.default = default
    BY <1>1, TopFacts
  <1>3. /\ t \in Statement /\ t.kind = "switch" /\ t.end = Top.end /\ t.start = Top.start
        /\ t.continue = Top.continue /\ t.cases = Top.cases /\ t.todo = Top.todo
        /\ t.default = 0
    BY <1>1, <1>2 DEF Statement
  <1>a. /\ Top.end # 0 /\ Top.todo \subseteq DOMAIN Top.cases
        /\ \A w \in DOMAIN Top.cases : Top.cases[w] # 0
    <2>1. Top.end \in Label /\ Top.cases \in UNION {[V -> Label] : V \in SUBSET Value}
      BY <1>2 DEF Statement
    <2>2. \A w \in DOMAIN Top.cases : Top.cases[w] \in Label
      BY <2>1
    <2> QED
      BY <1>2, <2>1, <2>2, LabelIsNat DEF Distinct
  <1> HIDE DEF t
  <1>4. /\ Pending(Top) = {Top.end} \cup {Top.cases[w] : w \in Top.todo} \cup {Top.default}
        /\ Pending(t) = {Top.end} \cup {Top.cases[w] : w \in Top.todo}
    BY <1>1, <1>3 DEF Pending, Loops
  <1>5. /\ Top.end # Top.default
        /\ \A w \in Top.todo : Top.cases[w] # Top.default
    BY <1>2 DEF Distinct
  <1>6. Distinct(t)
    BY <1>2, <1>3, <1>a DEF Distinct, Loops
  <1>7. /\ {default} \subseteq Pending(Top)
        /\ Pending(t) = Pending(Top) \ {default}
        /\ {} \subseteq defined \cup {default} \cup Pending(t)
    BY <1>2, <1>4, <1>5
  <1>8. /\ t.kind \in Loops <=> Top.kind \in Loops
        /\ t.kind \in Breakable <=> Top.kind \in Breakable
        /\ t.default \in {0, Top.default}
    BY <1>1, <1>3
  <1> QED
    BY <1>1, <1>3, <1>6, <1>7, <1>8, TopKeeps

\* A switch whose cases are done ends with its end label.
LEMMA EndSwitchKeeps == IInv /\ EndSwitch => IInv'
  <1> SUFFICES ASSUME IInv, EndSwitch PROVE IInv'
    OBVIOUS
  <1>1. /\ open # << >> /\ Top.kind = "switch" /\ Top.todo = {} /\ Top.default = 0
        /\ Emit({Top.end}, {}) /\ Finish /\ breaks' = Front(breaks)
        /\ UNCHANGED <<phase, count, continues, default>>
    BY DEF EndSwitch, InSwitch
  <1>2. Pending(Top) = {Top.end}
    BY <1>1 DEF Pending, Loops
  <1>3. /\ breaks' = IF Top.kind \in Breakable THEN Front(breaks) ELSE breaks
        /\ continues' = IF Top.kind \in Loops THEN Front(continues) ELSE continues
    BY <1>1 DEF Breakable, Loops
  <1>4. Emit(Pending(Top), {}) /\ {} \subseteq defined \cup Pending(Top)
    BY <1>1, <1>2
  <1> QED
    BY <1>1, <1>3, <1>4, FinishKeeps

\* break goes to the end of a statement under way.
LEMMA BreakKeeps == IInv /\ Break => IInv'
  <1> SUFFICES ASSUME IInv, Break PROVE IInv'
    OBVIOUS
  <1>1. /\ \E i \in DOMAIN open : open[i].kind \in Breakable
        /\ Emit({}, {LastOr0(breaks)})
        /\ UNCHANGED <<phase, open, count, breaks, continues, default>>
    BY DEF Break, Within, Breakable
  <1>2. /\ open \in Seq(Statement) /\ Tracks(breaks, BreakMarks(open)) /\ count' \in count..MaxLabel
    <2>1. count \in 0..MaxLabel /\ count' = count
      BY <1>1 DEF IInv, TypeOK
    <2> QED
      BY <2>1, LabelIsNat DEF IInv, TypeOK, Nested
  <1>3. breaks \in Seq(Nat)
    BY LabelStacks DEF IInv
  <1>4. /\ BreakMarks(open) \in Seq(Nat) /\ Len(BreakMarks(open)) = Len(open)
        /\ DOMAIN open = 1..Len(open)
        /\ \A i \in 1..Len(open) :
             BreakMarks(open)[i] = IF open[i].kind \in Breakable THEN open[i].end ELSE 0
    BY <1>2, MarksType
  <1>5. PICK i \in 1..Len(open) : BreakMarks(open)[i] # 0
    <2>1. PICK i \in 1..Len(open) : open[i].kind \in Breakable
      BY <1>1, <1>4
    <2>2. open[i] \in Statement
      BY <1>2, ElementOfSeq
    <2>3. open[i].end \in Label
      BY <2>2 DEF Statement
    <2> QED
      BY <1>4, <2>1, <2>3, LabelIsNat
  <1>6. /\ breaks # << >>
        /\ \E j \in 1..Len(open) : BreakMarks(open)[j] # 0 /\ Last(breaks) = BreakMarks(open)[j]
    BY <1>2, <1>3, <1>4, <1>5, TrackTop
  <1>7. PICK j \in 1..Len(open) : LastOr0(breaks) = open[j].end
    BY <1>4, <1>6 DEF LastOr0
  <1>8. LastOr0(breaks) \in Pending(open[j])
    BY <1>7 DEF Pending
  <1>9. ASSUME NEW l \in {LastOr0(breaks)}
        PROVE  \/ l \in defined \cup {}
               \/ \E k \in DOMAIN open : l \in Pending(open[k])
    BY <1>4, <1>8
  <1>10. {} \subseteq count + 1 .. count'
    OBVIOUS
  <1>11. UNCHANGED <<phase, open, breaks, continues, default>>
    BY <1>1
  <1> QED
    BY <1>1, <1>2, <1>9, <1>10, <1>11, StayKeeps

\* continue goes to the label where a loop under way goes on.
LEMMA ContinueKeeps == IInv /\ Continue => IInv'
  <1> SUFFICES ASSUME IInv, Continue PROVE IInv'
    OBVIOUS
  <1>1. /\ \E i \in DOMAIN open : open[i].kind \in Loops
        /\ Emit({}, {LastOr0(continues)})
        /\ UNCHANGED <<phase, open, count, breaks, continues, default>>
    BY DEF Continue, Within
  <1>2. /\ open \in Seq(Statement) /\ Tracks(continues, ContinueMarks(open))
        /\ count' \in count..MaxLabel
    <2>1. count \in 0..MaxLabel /\ count' = count
      BY <1>1 DEF IInv, TypeOK
    <2> QED
      BY <2>1, LabelIsNat DEF IInv, TypeOK, Nested
  <1>3. continues \in Seq(Nat)
    BY LabelStacks DEF IInv
  <1>4. /\ ContinueMarks(open) \in Seq(Nat) /\ Len(ContinueMarks(open)) = Len(open)
        /\ DOMAIN open = 1..Len(open)
        /\ \A i \in 1..Len(open) :
             ContinueMarks(open)[i] = IF open[i].kind \in Loops THEN open[i].continue ELSE 0
    BY <1>2, MarksType
  <1>5. PICK i \in 1..Len(open) : ContinueMarks(open)[i] # 0
    <2>1. PICK i \in 1..Len(open) : open[i].kind \in Loops
      BY <1>1, <1>4
    <2>2. open[i].continue # 0
      BY <1>4, <2>1 DEF IInv, Ready, Distinct
    <2> QED
      BY <1>4, <2>1, <2>2
  <1>6. /\ continues # << >>
        /\ \E j \in 1..Len(open) :
             ContinueMarks(open)[j] # 0 /\ Last(continues) = ContinueMarks(open)[j]
    BY <1>2, <1>3, <1>4, <1>5, TrackTop
  <1>7. PICK j \in 1..Len(open) : open[j].kind \in Loops /\ LastOr0(continues) = open[j].continue
    BY <1>4, <1>6 DEF LastOr0
  <1>8. LastOr0(continues) \in Pending(open[j])
    BY <1>7 DEF Pending
  <1>9. ASSUME NEW l \in {LastOr0(continues)}
        PROVE  \/ l \in defined \cup {}
               \/ \E k \in DOMAIN open : l \in Pending(open[k])
    BY <1>4, <1>8
  <1>10. {} \subseteq count + 1 .. count'
    OBVIOUS
  <1>11. UNCHANGED <<phase, open, breaks, continues, default>>
    BY <1>1
  <1> QED
    BY <1>1, <1>2, <1>9, <1>10, <1>11, StayKeeps

\* The labels of an expression are fresh, and defined at once.
LEMMA ExpressionKeeps == IInv /\ (Ternary \/ ShortCircuit) => IInv'
  <1> SUFFICES ASSUME IInv, Ternary \/ ShortCircuit PROVE IInv'
    OBVIOUS
  <1>1. CASE Ternary
    <2> DEFINE D == count + 1 .. count + 3
               J == {count + 2, count + 3}
    <2>1. TakeLabels(3) /\ Emit(D, J) /\ UNCHANGED <<phase, open, breaks, continues, default>>
      BY <1>1 DEF Ternary
    <2>2. count \in Nat /\ count' = count + 3 /\ count' \in count..MaxLabel
      BY <2>1, TakeFacts
    <2>3. D \subseteq count + 1 .. count' /\ J \subseteq D
      BY <2>2
    <2> HIDE DEF D, J
    <2> QED
      BY <2>1, <2>2, <2>3, StayKeeps
  <1>2. CASE ShortCircuit
    <2> DEFINE D == {count + 1, count + 2}
    <2>1. TakeLabels(2) /\ Emit(D, D) /\ UNCHANGED <<phase, open, breaks, continues, default>>
      BY <1>2 DEF ShortCircuit
    <2>2. count \in Nat /\ count' = count + 2 /\ count' \in count..MaxLabel
      BY <2>1, TakeFacts
    <2>3. D \subseteq count + 1 .. count'
      BY <2>2
    <2> HIDE DEF D
    <2> QED
      BY <2>1, <2>2, <2>3, StayKeeps
  <1> QED
    BY <1>1, <1>2

\* Nothing is emitted any more.
LEMMA StopKeeps ==
  ASSUME IInv, phase' \in {"statements", "aborted"},
         UNCHANGED <<open, count, breaks, continues, default, output>>
  PROVE  IInv'
  <1>1. /\ open' = open /\ count' = count /\ breaks' = breaks /\ continues' = continues
        /\ default' = default /\ defined' = defined /\ jumps' = jumps /\ repeated' = repeated
    BY DEF output
  <1>2. TypeOK'
    BY <1>1 DEF IInv, TypeOK
  <1>3. Nested' /\ Ready'
    BY <1>1 DEF IInv, Nested, Ready
  <1>4. Output'
    BY <1>1 DEF IInv, Output, Taken, JumpsLand, LabelsUnique, Pending
  <1> QED
    BY <1>2, <1>3, <1>4 DEF IInv

\* Nothing has been emitted.
LEMMA InitKeeps == Init => IInv
  <1> SUFFICES ASSUME Init PROVE IInv
    OBVIOUS
  <1>1. /\ open = << >> /\ count = 0 /\ phase = "statements" /\ default = 0
        /\ breaks = << >> /\ continues = << >>
        /\ defined = {} /\ jumps = {} /\ repeated = {}
    BY DEF Init
  <1>2. DOMAIN open = {} /\ Len(open) = 0 /\ Len(breaks) = 0 /\ Len(continues) = 0
    BY <1>1
  <1>3. TypeOK
    BY <1>1, LabelIsNat DEF TypeOK
  <1>4. Nested
    <2>1. Len(BreakMarks(open)) = 0 /\ Len(ContinueMarks(open)) = 0
      BY <1>1, <1>3, MarksType DEF TypeOK
    <2> DEFINE f == [k \in 1..0 |-> 0]
    <2>2. f \in [1..0 -> 1..0]
      OBVIOUS
    <2> HIDE DEF f
    <2>3. \A k : k \notin 1..0
      OBVIOUS
    <2>4. Tracks(breaks, BreakMarks(open)) /\ Tracks(continues, ContinueMarks(open))
      BY <1>2, <2>1, <2>2, <2>3 DEF Tracks
    <2> QED
      BY <2>4 DEF Nested
  <1>5. Ready
    BY <1>2 DEF Ready
  <1>6. Output
    BY <1>1, <1>2 DEF Output, Taken, JumpsLand, LabelsUnique
  <1> QED
    BY <1>3, <1>4, <1>5, <1>6 DEF IInv

\* Every step.
LEMMA NextKeeps ==
  ASSUME ~NestedDefaults, IInv, [Next]_vars
  PROVE  IInv'
  <1>a. phase \in {"statements", "aborted"}
    BY DEF IInv, TypeOK
  <1>1. CASE UNCHANGED vars
    BY <1>1, <1>a, StopKeeps DEF vars, output
  <1>2. CASE BeginWhile \/ BeginDoWhile \/ BeginFor
    BY <1>2, BeginWhileKeeps, BeginDoWhileKeeps, BeginForKeeps
  <1>3. CASE \E b \in BOOLEAN : BeginIf(b)
    BY <1>3, BeginIfKeeps
  <1>4. CASE /\ phase = "statements"
             /\ \E V \in SUBSET Value : \E written \in SetToSeqs(V), b \in BOOLEAN :
                  BeginSwitch(written, b)
    BY <1>4, BeginSwitchKeeps
  <1>5. CASE EndLoop \/ Else \/ EndIf \/ EmitDefault \/ EndSwitch
    BY <1>5, EndLoopKeeps, ElseKeeps, EndIfKeeps, EmitDefaultKeeps, EndSwitchKeeps
  <1>6. CASE \E v \in Value : EmitCase(v)
    BY <1>6, EmitCaseKeeps
  <1>7. CASE \E v \in Value : EmitStackedCase(v)
    <2>1. phase' = "aborted" /\ UNCHANGED <<open, count, breaks, continues, default, output>>
      BY <1>7 DEF EmitStackedCase
    <2> QED
      BY <2>1, StopKeeps
  <1>8. CASE Break \/ Continue
    BY <1>8, BreakKeeps, ContinueKeeps
  <1>9. CASE Ternary \/ ShortCircuit
    BY <1>9, ExpressionKeeps
  <1>10. CASE Stopped
    BY <1>1, <1>10 DEF Stopped
  <1> QED
    BY <1>1, <1>2, <1>3, <1>4, <1>5, <1>6, <1>7, <1>8, <1>9, <1>10 DEF Next

\* Unless a switch with a default stands in one whose default is to come, the
\* invariant holds of every function.
THEOREM Invariance ==
  ASSUME ~NestedDefaults
  PROVE  Spec => []IInv
  <1>1. Init => IInv
    BY InitKeeps
  <1>2. IInv /\ [Next]_vars => IInv'
    BY NextKeeps
  <1> QED
    BY <1>1, <1>2, PTL DEF Spec

\* Then every branch and jump written, by a break or continue in any nesting, by
\* a condition or by a switch, has its target in the output or in a statement
\* that is still to define it.
THEOREM JumpsAlwaysLand ==
  ASSUME ~NestedDefaults
  PROVE  Spec => []JumpsLand
  <1>1. IInv => JumpsLand
    BY DEF IInv, Output
  <1> QED
    BY <1>1, Invariance, PTL

\* And no label is defined twice, or awaited by two statements.
THEOREM LabelsAlwaysUnique ==
  ASSUME ~NestedDefaults
  PROVE  Spec => []LabelsUnique
  <1>1. IInv => LabelsUnique
    BY DEF IInv, Output
  <1> QED
    BY <1>1, Invariance, PTL

-----------------------------------------------------------------------------
(* What holds of nested defaults too.                                      *)

\* What every statement under way has kept, whatever became of its default.
Kept(s) ==
  /\ s.kind \in Loops => s.continue # 0
  /\ s.kind = "for" => s.start + 1 \in Label
  /\ s.todo \subseteq DOMAIN s.cases

\* default_switch_label_ may be the label of another switch, and is not empty
\* while a default is to come.
Sound ==
  /\ \A i \in DOMAIN open : Kept(open[i])
  /\ \A i \in DOMAIN open : open[i].default # 0 => default # 0

FInv == TypeOK /\ Nested /\ Sound

\* The labels a step takes are labels.
LEMMA TakenLabels ==
  ASSUME TypeOK, NEW n \in Nat, TakeLabels(n)
  PROVE  /\ count \in Nat /\ count' = count + n /\ count' \in count..MaxLabel
         /\ \A l \in count + 1 .. count + n : l \in Label /\ l # 0
  BY LabelIsNat DEF TypeOK, TakeLabels, Label

\* The innermost statement.
LEMMA TopKept ==
  ASSUME FInv, open # << >>
  PROVE  /\ open \in Seq(Statement) /\ Len(open) \in 1..Len(open)
         /\ DOMAIN open = 1..Len(open)
         /\ Top \in Statement /\ Kept(Top) /\ (Top.default # 0 => default # 0)
         /\ Top.end \in Label /\ Top.continue \in Label \cup {0}
         /\ Top.start \in Label \cup {0}
         /\ \A v \in DOMAIN Top.cases : Top.cases[v] \in Label
  <1>1. open \in Seq(Statement) /\ Sound
    BY DEF FInv, TypeOK
  <1>2. DOMAIN open = 1..Len(open) /\ Len(open) \in 1..Len(open)
    BY <1>1, FrontKeeps
  <1>3. Top \in Statement
    BY <1>1, <1>2, ElementOfSeq DEF Top
  <1>4. Kept(Top) /\ (Top.default # 0 => default # 0)
    BY <1>1, <1>2 DEF Sound, Top
  <1>5. /\ Top.end \in Label /\ Top.continue \in Label \cup {0}
        /\ Top.start \in Label \cup {0}
        /\ Top.cases \in UNION {[V -> Label] : V \in SUBSET Value}
    BY <1>3 DEF Statement
  <1>6. \A v \in DOMAIN Top.cases : Top.cases[v] \in Label
    BY <1>5
  <1> QED
    BY <1>1, <1>2, <1>3, <1>4, <1>5, <1>6

\* The output of a step is of labels.
LEMMA EmitType ==
  ASSUME TypeOK, NEW D \in SUBSET Label, NEW J \in SUBSET (Label \cup {0}), Emit(D, J)
  PROVE  /\ defined' \subseteq Label /\ repeated' \subseteq Label
         /\ jumps' \subseteq Label \cup {0}
  BY DEF TypeOK, Emit

\* A statement begins.
LEMMA BeginHolds ==
  ASSUME FInv, NEW s \in Statement, NEW D \in SUBSET Label, NEW J \in SUBSET (Label \cup {0}),
         open' = Append(open, s), Emit(D, J), phase' = phase, count' \in count..MaxLabel,
         Kept(s), default' \in Label \cup {0},
         default # 0 \/ s.default # 0 => default' # 0,
         breaks' = IF s.kind \in Breakable THEN Append(breaks, s.end) ELSE breaks,
         continues' = IF s.kind \in Loops THEN Append(continues, s.continue) ELSE continues
  PROVE  FInv'
  <1>1. TypeOK /\ Nested /\ Sound
    BY DEF FInv
  <1>2. s.kind \in Loops => s.continue # 0
    BY DEF Kept
  <1>3. Nested'
    BY <1>1, <1>2, BeginNests
  <1>4. TypeOK'
    <2>1. open' \in Seq(Statement)
      BY <1>1, AppendKeeps DEF TypeOK
    <2>2. s.end \in Label /\ s.continue \in Label \cup {0}
      BY DEF Statement
    <2>3. breaks' \in Seq(Label)
      BY <1>1, <2>2, AppendKeeps DEF TypeOK
    <2>4. continues' \in Seq(Label)
      <3>1. s.kind \in Loops => s.continue \in Label
        BY <1>2, <2>2
      <3> QED
        BY <1>1, <3>1, AppendKeeps DEF TypeOK
    <2>5. count' \in 0..MaxLabel /\ phase' \in {"statements", "aborted"}
      BY <1>1, LabelIsNat DEF TypeOK
    <2>6. /\ defined' \subseteq Label /\ repeated' \subseteq Label
          /\ jumps' \subseteq Label \cup {0}
      BY <1>1, EmitType
    <2> QED
      BY <2>1, <2>3, <2>4, <2>5, <2>6 DEF TypeOK
  <1>5. Sound'
    <2> DEFINE n == Len(open)
    <2>1. /\ DOMAIN open = 1..n /\ DOMAIN open' = 1..n + 1 /\ open'[n + 1] = s
          /\ \A i \in 1..n : open'[i] = open[i]
          /\ \A i \in 1..n + 1 : i # n + 1 => i \in 1..n
      BY <1>1, AppendKeeps DEF TypeOK
    <2> HIDE DEF n
    <2>2. ASSUME NEW i \in 1..n + 1
          PROVE  Kept(open'[i]) /\ (open'[i].default # 0 => default' # 0)
      <3>1. CASE i = n + 1
        BY <2>1, <3>1
      <3>2. CASE i # n + 1
        <4>1. i \in DOMAIN open /\ open'[i] = open[i]
          BY <2>1, <3>2
        <4>2. Kept(open[i]) /\ (open[i].default # 0 => default # 0)
          BY <1>1, <4>1 DEF Sound
        <4> QED
          BY <4>1, <4>2
      <3> QED
        BY <3>1, <3>2
    <2>3. DOMAIN open' = 1..n + 1
      BY <2>1
    <2> QED
      BY <2>2, <2>3, Zenon DEF Sound
  <1> QED
    BY <1>3, <1>4, <1>5 DEF FInv

\* The innermost statement goes on.
LEMMA TopHolds ==
  ASSUME FInv, open # << >>, NEW t \in Statement,
         NEW D \in SUBSET Label, NEW J \in SUBSET (Label \cup {0}),
         TopBecomes(t), Emit(D, J), Kept(t),
         t.end = Top.end, t.continue = Top.continue,
         t.kind \in Breakable <=> Top.kind \in Breakable,
         t.kind \in Loops <=> Top.kind \in Loops,
         t.default \in {0, Top.default},
         UNCHANGED <<phase, count, breaks, continues, default>>
  PROVE  FInv'
  <1>1. TypeOK /\ Nested /\ Sound
    BY DEF FInv
  <1>2. /\ phase' = phase /\ count' = count /\ breaks' = breaks
        /\ continues' = continues /\ default' = default
    OBVIOUS
  <1>3. Nested'
    BY <1>1, <1>2, TopNests
  <1>4. TypeOK'
    <2>1. open' \in Seq(Statement)
      BY TopKept, ExceptSeq DEF TopBecomes
    <2>2. /\ defined' \subseteq Label /\ repeated' \subseteq Label
          /\ jumps' \subseteq Label \cup {0}
      BY <1>1, EmitType
    <2> QED
      BY <1>1, <1>2, <2>1, <2>2 DEF TypeOK
  <1>5. Sound'
    <2> DEFINE n == Len(open)
    <2>1. /\ DOMAIN open = 1..n /\ n \in 1..n /\ DOMAIN open' = 1..n /\ open'[n] = t
          /\ \A i \in 1..n : i # n => open'[i] = open[i]
      BY TopKept DEF TopBecomes
    <2>2. Top.default # 0 => default # 0
      BY TopKept
    <2> HIDE DEF n
    <2>3. ASSUME NEW i \in 1..n
          PROVE  Kept(open'[i]) /\ (open'[i].default # 0 => default' # 0)
      <3>1. CASE i = n
        BY <1>2, <2>1, <2>2, <3>1
      <3>2. CASE i # n
        <4>1. Kept(open[i]) /\ (open[i].default # 0 => default # 0)
          BY <1>1, <2>1 DEF Sound
        <4> QED
          BY <1>2, <2>1, <3>2, <4>1
      <3> QED
        BY <3>1, <3>2
    <2>4. DOMAIN open' = 1..n
      BY <2>1
    <2> QED
      BY <2>3, <2>4, Zenon DEF Sound
  <1> QED
    BY <1>3, <1>4, <1>5 DEF FInv

\* The innermost statement ends.
LEMMA FinishHolds ==
  ASSUME FInv, open # << >>, NEW D \in SUBSET Label, NEW J \in SUBSET (Label \cup {0}),
         Finish, Emit(D, J),
         breaks' = IF Top.kind \in Breakable THEN Front(breaks) ELSE breaks,
         continues' = IF Top.kind \in Loops THEN Front(continues) ELSE continues,
         UNCHANGED <<phase, count, default>>
  PROVE  FInv'
  <1>1. TypeOK /\ Nested /\ Sound
    BY DEF FInv
  <1>2. phase' = phase /\ count' = count /\ default' = default
    OBVIOUS
  <1>3. Top.kind \in Loops => Top.continue # 0
    BY TopKept DEF Kept
  <1>4. /\ Nested'
        /\ Top.kind \in Breakable => breaks # << >>
        /\ Top.kind \in Loops => continues # << >>
    BY <1>1, <1>3, FinishNests
  <1>5. /\ open' \in Seq(Statement) /\ DOMAIN open' = 1..Len(open')
        /\ \A i \in 1..Len(open') : i \in DOMAIN open /\ open'[i] = open[i]
    <2>1. /\ Front(open) \in Seq(Statement) /\ DOMAIN open = 1..Len(open)
          /\ DOMAIN Front(open) = 1..Len(Front(open))
          /\ \A i \in 1..Len(Front(open)) : i \in 1..Len(open) /\ Front(open)[i] = open[i]
      BY <1>1, FrontKeeps DEF TypeOK
    <2> QED
      BY <2>1 DEF Finish
  <1>6. TypeOK'
    <2>1. /\ defined' \subseteq Label /\ repeated' \subseteq Label
          /\ jumps' \subseteq Label \cup {0}
      BY <1>1, EmitType
    <2>2. breaks' \in Seq(Label)
      BY <1>1, <1>4, FrontKeeps DEF TypeOK
    <2>3. continues' \in Seq(Label)
      BY <1>1, <1>4, FrontKeeps DEF TypeOK
    <2> QED
      BY <1>1, <1>2, <1>5, <2>1, <2>2, <2>3 DEF TypeOK
  <1>7. Sound'
    <2>1. ASSUME NEW i \in 1..Len(open')
          PROVE  Kept(open'[i]) /\ (open'[i].default # 0 => default' # 0)
      <3>1. i \in DOMAIN open /\ open'[i] = open[i]
        BY <1>5
      <3>2. Kept(open[i]) /\ (open[i].default # 0 => default # 0)
        BY <1>1, <3>1 DEF Sound
      <3> QED
        BY <1>2, <3>1, <3>2
    <2>2. DOMAIN open' = 1..Len(open')
      BY <1>5
    <2> QED
      BY <2>1, <2>2, Zenon DEF Sound
  <1> QED
    BY <1>4, <1>6, <1>7 DEF FInv

\* No statement begins or ends.
LEMMA StayHolds ==
  ASSUME FInv, NEW D \in SUBSET Label, NEW J \in SUBSET (Label \cup {0}), Emit(D, J),
         phase' \in {"statements", "aborted"}, count' \in count..MaxLabel,
         UNCHANGED <<open, breaks, continues, default>>
  PROVE  FInv'
  <1>1. TypeOK /\ Nested /\ Sound
    BY DEF FInv
  <1>2. open' = open /\ breaks' = breaks /\ continues' = continues /\ default' = default
    OBVIOUS
  <1>3. count' \in 0..MaxLabel
    BY <1>1, LabelIsNat DEF TypeOK
  <1>4. /\ defined' \subseteq Label /\ repeated' \subseteq Label
        /\ jumps' \subseteq Label \cup {0}
    BY <1>1, EmitType
  <1>5. TypeOK'
    BY <1>1, <1>2, <1>3, <1>4 DEF TypeOK
  <1>6. Nested' /\ Sound'
    BY <1>1, <1>2 DEF Nested, Sound
  <1> QED
    BY <1>5, <1>6 DEF FInv

\* A loop begins.
LEMMA LoopBeginHolds ==
  ASSUME FInv, BeginWhile \/ BeginDoWhile \/ BeginFor, phase = "statements"
  PROVE  FInv'
  <1>a. TypeOK
    BY DEF FInv
  <1>1. CASE BeginWhile \/ BeginDoWhile
    <2> DEFINE kind == IF BeginWhile THEN "while" ELSE "do"
               J == IF BeginWhile THEN {count + 2} ELSE {}
               s == Simple(kind, count + 3, count + 2, count + 1)
    <2>1. /\ TakeLabels(3)
          /\ breaks' = Append(breaks, count + 3) /\ continues' = Append(continues, count + 2)
          /\ Emit({count + 1}, J)
          /\ open' = Append(open, s) /\ phase' = phase /\ default' = default
      BY <1>1 DEF BeginWhile, BeginDoWhile, Begin
    <2>2. kind \in {"while", "do"} /\ J \subseteq {count + 2}
      OBVIOUS
    <2> HIDE DEF kind, J
    <2>3. /\ count \in Nat /\ count' \in count..MaxLabel
          /\ \A i \in 1..3 : count + i \in Label /\ count + i # 0
      <3>1. /\ count \in Nat /\ count' \in count..MaxLabel
            /\ \A l \in count + 1 .. count + 3 : l \in Label
        BY <1>a, <2>1, TakenLabels
      <3>2. \A i \in 1..3 : count + i \in count + 1 .. count + 3 /\ count + i # 0
        BY <3>1
      <3> QED
        BY <3>1, <3>2
    <2>4. /\ s \in Statement /\ s.kind = kind /\ s.end = count + 3 /\ s.continue = count + 2
          /\ s.default = 0 /\ s.todo = {}
      BY <2>2, <2>3, SimpleFacts
    <2> HIDE DEF s
    <2>5. Kept(s)
      BY <2>2, <2>3, <2>4 DEF Kept
    <2>6. s.kind \in Loops /\ s.kind \in Breakable
      BY <2>2, <2>4 DEF Loops, Breakable
    <2>7. {count + 1} \in SUBSET Label /\ J \in SUBSET (Label \cup {0})
      BY <2>2, <2>3
    <2>8. default' \in Label \cup {0} /\ (default # 0 \/ s.default # 0 => default' # 0)
      BY <1>a, <2>1, <2>4 DEF TypeOK
    <2> QED
      BY <2>1, <2>3, <2>4, <2>5, <2>6, <2>7, <2>8, BeginHolds
  <1>2. CASE BeginFor
    <2> DEFINE s == Simple("for", count + 3, count + 4, count + 1)
    <2>1. /\ TakeLabels(4)
          /\ breaks' = Append(breaks, count + 3) /\ continues' = Append(continues, count + 4)
          /\ Emit({count + 1}, {count + 2})
          /\ open' = Append(open, s) /\ phase' = phase /\ default' = default
      BY <1>2 DEF BeginFor, Begin
    <2>3. /\ count \in Nat /\ count' \in count..MaxLabel
          /\ \A i \in 1..4 : count + i \in Label /\ count + i # 0
      <3>1. /\ count \in Nat /\ count' \in count..MaxLabel
            /\ \A l \in count + 1 .. count + 4 : l \in Label
        BY <1>a, <2>1, TakenLabels
      <3>2. \A i \in 1..4 : count + i \in count + 1 .. count + 4 /\ count + i # 0
        BY <3>1
      <3> QED
        BY <3>1, <3>2
    <2>4. /\ s \in Statement /\ s.kind = "for" /\ s.end = count + 3 /\ s.continue = count + 4
          /\ s.start = count + 1 /\ s.default = 0 /\ s.todo = {}
      BY <2>3, SimpleFacts
    <2> HIDE DEF s
    <2>5. Kept(s)
      BY <2>3, <2>4 DEF Kept
    <2>6. s.kind \in Loops /\ s.kind \in Breakable
      BY <2>4 DEF Loops, Breakable
    <2>7. {count + 1} \in SUBSET Label /\ {count + 2} \in SUBSET (Label \cup {0})
      BY <2>3
    <2>8. default' \in Label \cup {0} /\ (default # 0 \/ s.default # 0 => default' # 0)
      BY <1>a, <2>1, <2>4 DEF TypeOK
    <2> QED
      BY <2>1, <2>3, <2>4, <2>5, <2>6, <2>7, <2>8, BeginHolds
  <1> QED
    BY <1>1, <1>2

\* A conditional begins.
LEMMA IfBeginHolds ==
  ASSUME FInv, NEW b \in BOOLEAN, BeginIf(b)
  PROVE  FInv'
  <1> DEFINE n == IF b THEN 2 ELSE 1
             e == IF b THEN count + 2 ELSE 0
             J == {IF b THEN count + 2 ELSE count + 1}
             s == Simple("if", count + 1, 0, e)
  <1>a. TypeOK
    BY DEF FInv
  <1>1. /\ TakeLabels(n) /\ Emit({}, J)
        /\ open' = Append(open, s) /\ phase' = phase /\ default' = default
        /\ breaks' = breaks /\ continues' = continues
    BY DEF BeginIf, Begin
  <1>2. /\ count \in Nat /\ count' \in count..MaxLabel
        /\ \A i \in 1..n : count + i \in Label
    BY <1>a, <1>1, TakenLabels
  <1>3. count + 1 \in Label /\ e \in Label \cup {0} /\ J \in SUBSET (Label \cup {0})
    BY <1>2
  <1> HIDE DEF e, J
  <1>4. /\ s \in Statement /\ s.kind = "if" /\ s.default = 0 /\ s.todo = {}
    BY <1>3, IfFacts
  <1> HIDE DEF s
  <1>5. Kept(s) /\ s.kind \notin Loops /\ s.kind \notin Breakable
    BY <1>4 DEF Kept, Loops, Breakable
  <1>6. default' \in Label \cup {0} /\ (default # 0 \/ s.default # 0 => default' # 0)
    BY <1>a, <1>1, <1>4 DEF TypeOK
  <1>7. {} \in SUBSET Label
    OBVIOUS
  <1> QED
    BY <1>1, <1>2, <1>3, <1>4, <1>5, <1>6, <1>7, BeginHolds

\* A switch begins, in another one or not.
LEMMA SwitchBeginHolds ==
  ASSUME FInv, NEW V \in SUBSET Value, NEW written \in SetToSeqs(V),
         NEW b \in BOOLEAN, BeginSwitch(written, b), phase = "statements"
  PROVE  FInv'
  <1> DEFINE n == Len(written)
             at(v) == SelectInSeq(written, LAMBDA w : w = v)
             S == ToSet(written)
             cases == [v \in S |-> count + at(v)]
             end == count + n + 1
             label == IF b THEN count + n + 2 ELSE 0
             s == [kind |-> "switch", end |-> end, continue |-> 0, start |-> 0,
                   cases |-> cases, todo |-> S, default |-> label]
             J == {cases[v] : v \in DOMAIN cases} \cup {IF b THEN label ELSE end}
             taken == IF b THEN n + 2 ELSE n + 1
  <1>a. TypeOK
    BY DEF FInv
  <1>1. /\ TakeLabels(taken)
        /\ breaks' = Append(breaks, end) /\ continues' = continues /\ phase' = phase
        /\ default' = IF b THEN label ELSE default
        /\ Emit({}, J) /\ open' = Append(open, s)
    BY DEF BeginSwitch, Begin
  <1>2. /\ n \in Nat /\ S \subseteq Value
        /\ \A v \in S : at(v) \in 1..n
    BY CaseLabels
  <1> HIDE DEF n, at, S
  <1>3. /\ count \in Nat /\ count' = count + taken /\ count' \in count..MaxLabel
        /\ \A l \in count + 1 .. count + taken : l \in Label /\ l # 0
    <2>1. taken \in Nat
      BY <1>2
    <2> QED
      BY <1>a, <1>1, <2>1, TakenLabels
  <1>4. end \in Label /\ label \in Label \cup {0} /\ (b <=> label # 0)
    BY <1>2, <1>3
  <1>5. ASSUME NEW v \in S
        PROVE  cases[v] = count + at(v) /\ cases[v] \in Label
    BY <1>2, <1>3
  <1>6. DOMAIN cases = S /\ cases \in [S -> Label]
    BY <1>5
  <1> HIDE DEF cases, end, label, taken
  <1>7. J \in SUBSET (Label \cup {0})
    BY <1>4, <1>6
  <1>8. /\ s.kind = "switch" /\ s.end = end /\ s.cases = cases /\ s.todo = S
        /\ s.default = label
    OBVIOUS
  <1>9. s \in Statement
    <2>1. cases \in UNION {[W -> Label] : W \in SUBSET Value}
      BY <1>2, <1>6
    <2> QED
      BY <1>2, <1>4, <2>1 DEF Statement
  <1> HIDE DEF s, J
  <1>10. Kept(s) /\ s.kind \notin Loops /\ s.kind \in Breakable
    BY <1>6, <1>8 DEF Kept, Loops, Breakable
  <1>11. default' \in Label \cup {0} /\ (default # 0 \/ s.default # 0 => default' # 0)
    BY <1>a, <1>1, <1>4, <1>8 DEF TypeOK
  <1>12. {} \in SUBSET Label
    OBVIOUS
  <1> QED
    BY <1>1, <1>3, <1>7, <1>8, <1>9, <1>10, <1>11, <1>12, BeginHolds

\* A statement comes to its else, a case or its default.
LEMMA GoesOnHolds ==
  ASSUME FInv, NEW v, Else \/ EmitCase(v) \/ EmitDefault
  PROVE  FInv'
  <1>1. CASE Else
    <2> DEFINE t == [Top EXCEPT !.kind = "else"]
    <2>1. /\ open # << >> /\ Top.kind = "if" /\ Top.start # 0
          /\ Emit({Top.start}, {Top.end}) /\ TopBecomes(t)
          /\ UNCHANGED <<phase, count, breaks, continues, default>>
      BY <1>1 DEF Else, TopBecomes, Top
    <2>2. /\ Top \in Statement /\ Kept(Top) /\ Top.end \in Label
          /\ Top.start \in Label \cup {0}
      BY <2>1, TopKept
    <2>3. /\ t \in Statement /\ t.kind = "else" /\ t.end = Top.end
          /\ t.continue = Top.continue /\ t.default = Top.default
          /\ t.cases = Top.cases /\ t.todo = Top.todo
      BY <2>2 DEF Statement
    <2> HIDE DEF t
    <2>4. /\ Kept(t)
          /\ t.kind \in Breakable <=> Top.kind \in Breakable
          /\ t.kind \in Loops <=> Top.kind \in Loops
      BY <2>1, <2>2, <2>3 DEF Kept, Loops, Breakable
    <2>5. {Top.start} \in SUBSET Label /\ {Top.end} \in SUBSET (Label \cup {0})
      BY <2>1, <2>2
    <2>6. t.default \in {0, Top.default}
      BY <2>3
    <2> QED
      BY <2>1, <2>3, <2>4, <2>5, <2>6, TopHolds
  <1>2. CASE EmitCase(v)
    <2> DEFINE t == [Top EXCEPT !.todo = Top.todo \ {v}]
    <2>1. /\ open # << >> /\ v \in Top.todo
          /\ Emit({Top.cases[v]}, {}) /\ TopBecomes(t)
          /\ UNCHANGED <<phase, count, breaks, continues, default>>
      BY <1>2 DEF EmitCase, InSwitch, TopBecomes, Top
    <2>2. /\ Top \in Statement /\ Kept(Top)
          /\ \A w \in DOMAIN Top.cases : Top.cases[w] \in Label
      BY <2>1, TopKept
    <2>3. /\ t \in Statement /\ t.kind = Top.kind /\ t.end = Top.end
          /\ t.start = Top.start
          /\ t.continue = Top.continue /\ t.default = Top.default
          /\ t.cases = Top.cases /\ t.todo = Top.todo \ {v}
      BY <2>2 DEF Statement
    <2> HIDE DEF t
    <2>4. /\ Kept(t)
          /\ t.kind \in Breakable <=> Top.kind \in Breakable
          /\ t.kind \in Loops <=> Top.kind \in Loops
      BY <2>2, <2>3 DEF Kept
    <2>5. {Top.cases[v]} \in SUBSET Label /\ {} \in SUBSET (Label \cup {0})
      BY <2>1, <2>2 DEF Kept
    <2>6. t.default \in {0, Top.default}
      BY <2>3
    <2> QED
      BY <2>1, <2>3, <2>4, <2>5, <2>6, TopHolds
  <1>3. CASE EmitDefault
    <2> DEFINE t == [Top EXCEPT !.default = 0]
    <2>1. /\ open # << >> /\ Top.default # 0
          /\ Emit({default}, {}) /\ TopBecomes(t)
          /\ UNCHANGED <<phase, count, breaks, continues, default>>
      BY <1>3 DEF EmitDefault, InSwitch, TopBecomes, Top
    <2>2. /\ Top \in Statement /\ Kept(Top) /\ default # 0
      BY <2>1, TopKept
    <2>3. /\ t \in Statement /\ t.kind = Top.kind /\ t.end = Top.end
          /\ t.start = Top.start
          /\ t.continue = Top.continue /\ t.default = 0
          /\ t.cases = Top.cases /\ t.todo = Top.todo
      BY <2>2 DEF Statement
    <2> HIDE DEF t
    <2>4. /\ Kept(t)
          /\ t.kind \in Breakable <=> Top.kind \in Breakable
          /\ t.kind \in Loops <=> Top.kind \in Loops
      BY <2>2, <2>3 DEF Kept
    <2>5. {default} \in SUBSET Label /\ {} \in SUBSET (Label \cup {0})
      BY <2>2 DEF FInv, TypeOK
    <2>6. t.default \in {0, Top.default}
      BY <2>3
    <2> QED
      BY <2>1, <2>3, <2>4, <2>5, <2>6, TopHolds
  <1> QED
    BY <1>1, <1>2, <1>3

\* A statement ends.
LEMMA EndHolds ==
  ASSUME FInv, EndLoop \/ EndIf \/ EndSwitch
  PROVE  FInv'
  <1>a. /\ open # << >>
        /\ Kept(Top) /\ Top.end \in Label /\ Top.continue \in Label \cup {0}
        /\ Top.start \in Label \cup {0}
    BY TopKept DEF EndLoop, EndIf, EndSwitch, InSwitch
  <1>1. CASE EndLoop
    <2> DEFINE D == {Top.continue, Top.end}
                      \cup (IF Top.kind = "for" THEN {Top.start + 1} ELSE {})
    <2>1. /\ Top.kind \in Loops /\ Finish
          /\ \E back \in {{Top.start}, {}} : Emit(D, back)
          /\ breaks' = Front(breaks) /\ continues' = Front(continues)
          /\ UNCHANGED <<phase, count, default>>
      BY <1>1 DEF EndLoop, Back
    <2>b. PICK back \in {{Top.start}, {}} : Emit(D, back)
      BY <2>1
    <2>2. D \in SUBSET Label /\ back \in SUBSET (Label \cup {0})
      BY <1>a, <2>1, <2>b DEF Kept
    <2> HIDE DEF D
    <2>3. Top.kind \in Breakable
      BY <2>1 DEF Breakable
    <2> QED
      BY <1>a, <2>1, <2>b, <2>2, <2>3, FinishHolds
  <1>2. CASE EndIf
    <2>1. /\ Top.kind \in {"if", "else"} /\ Finish /\ Emit({Top.end}, {})
          /\ UNCHANGED <<phase, count, breaks, continues, default>>
      BY <1>2 DEF EndIf
    <2>2. {Top.end} \in SUBSET Label /\ {} \in SUBSET (Label \cup {0})
      BY <1>a
    <2>3. Top.kind \notin Breakable /\ Top.kind \notin Loops
      BY <2>1 DEF Breakable, Loops
    <2> QED
      BY <1>a, <2>1, <2>2, <2>3, FinishHolds
  <1>3. CASE EndSwitch
    <2>1. /\ Top.kind = "switch" /\ Finish /\ Emit({Top.end}, {})
          /\ breaks' = Front(breaks)
          /\ UNCHANGED <<phase, count, continues, default>>
      BY <1>3 DEF EndSwitch, InSwitch
    <2>2. {Top.end} \in SUBSET Label /\ {} \in SUBSET (Label \cup {0})
      BY <1>a
    <2>3. Top.kind \in Breakable /\ Top.kind \notin Loops
      BY <2>1 DEF Breakable, Loops
    <2> QED
      BY <1>a, <2>1, <2>2, <2>3, FinishHolds
  <1> QED
    BY <1>1, <1>2, <1>3

\* A jump, an expression, or the end.
LEMMA StepHolds ==
  ASSUME FInv, Break \/ Continue \/ Ternary \/ ShortCircuit
  PROVE  FInv'
  <1>a. TypeOK /\ MaxLabel \in Nat /\ count \in 0..MaxLabel
    BY LabelIsNat DEF FInv, TypeOK
  <1>1. CASE Break \/ Continue
    <2> DEFINE J == {IF Break THEN LastOr0(breaks) ELSE LastOr0(continues)}
    <2>1. /\ Emit({}, J) /\ phase = "statements"
          /\ UNCHANGED <<phase, open, count, breaks, continues, default>>
      BY <1>1 DEF Break, Continue
    <2>2. LastOr0(breaks) \in Label \cup {0} /\ LastOr0(continues) \in Label \cup {0}
      <3>1. breaks \in Seq(Label) /\ continues \in Seq(Label)
        BY <1>a DEF TypeOK
      <3>2. breaks # << >> => Last(breaks) \in Label
        BY <3>1, FrontKeeps
      <3>3. continues # << >> => Last(continues) \in Label
        BY <3>1, FrontKeeps
      <3> QED
        BY <3>2, <3>3 DEF LastOr0
    <2>3. {} \in SUBSET Label /\ J \in SUBSET (Label \cup {0})
      BY <2>2
    <2> HIDE DEF J
    <2>4. count' \in count..MaxLabel /\ phase' \in {"statements", "aborted"}
      BY <1>a, <2>1
    <2>5. UNCHANGED <<open, breaks, continues, default>>
      BY <2>1
    <2> QED
      BY <2>1, <2>3, <2>4, <2>5, StayHolds
  <1>2. CASE Ternary
    <2>1. /\ TakeLabels(3) /\ Emit(count + 1 .. count + 3, {count + 2, count + 3})
          /\ phase' \in {"statements", "aborted"}
          /\ UNCHANGED <<open, breaks, continues, default>>
      BY <1>2 DEF Ternary
    <2>2. /\ count \in Nat /\ count' \in count..MaxLabel
          /\ \A l \in count + 1 .. count + 3 : l \in Label
      BY <1>a, <2>1, TakenLabels
    <2>3. /\ count + 1 .. count + 3 \in SUBSET Label
          /\ {count + 2, count + 3} \in SUBSET (Label \cup {0})
      BY <2>2
    <2> QED
      BY <2>1, <2>2, <2>3, StayHolds
  <1>3. CASE ShortCircuit
    <2>1. /\ TakeLabels(2) /\ Emit({count + 1, count + 2}, {count + 1, count + 2})
          /\ phase' \in {"statements", "aborted"}
          /\ UNCHANGED <<open, breaks, continues, default>>
      BY <1>3 DEF ShortCircuit
    <2>2. /\ count \in Nat /\ count' \in count..MaxLabel
          /\ \A l \in count + 1 .. count + 2 : l \in Label
      BY <1>a, <2>1, TakenLabels
    <2>3. /\ {count + 1, count + 2} \in SUBSET Label
          /\ {count + 1, count + 2} \in SUBSET (Label \cup {0})
      BY <2>2
    <2> QED
      BY <2>1, <2>2, <2>3, StayHolds
  <1> QED
    BY <1>1, <1>2, <1>3

\* Whatever the defaults, what the labels of the statements under way are is
\* an invariant.
THEOREM FollowsNesting == Spec => []FInv
  <1>1. Init => FInv
    <2> SUFFICES ASSUME Init PROVE FInv
      OBVIOUS
    <2>1. TypeOK /\ Nested
      BY InitKeeps DEF IInv
    <2>2. DOMAIN open = {}
      BY DEF Init
    <2> QED
      BY <2>1, <2>2 DEF FInv, Sound
  <1>2. FInv /\ [Next]_vars => FInv'
    <2> SUFFICES ASSUME FInv, [Next]_vars PROVE FInv'
      OBVIOUS
    <2>a. phase \in {"statements", "aborted"}
      BY DEF FInv, TypeOK
    <2>1. ASSUME UNCHANGED <<open, count, breaks, continues, default, output>>,
                 phase' \in {"statements", "aborted"}
          PROVE  FInv'
      <3>1. /\ open' = open /\ count' = count /\ breaks' = breaks
            /\ continues' = continues /\ default' = default
            /\ defined' = defined /\ jumps' = jumps /\ repeated' = repeated
        BY <2>1 DEF output
      <3> QED
        BY <2>1, <3>1 DEF FInv, TypeOK, Nested, Sound
    <2>2. CASE /\ phase = "statements"
               /\ \/ BeginWhile \/ BeginDoWhile \/ BeginFor
                  \/ \E b \in BOOLEAN : BeginIf(b)
                  \/ \E V \in SUBSET Value : \E written \in SetToSeqs(V), b \in BOOLEAN :
                       BeginSwitch(written, b)
      BY <2>2, LoopBeginHolds, IfBeginHolds, SwitchBeginHolds
    <2>3. CASE EndLoop \/ EndIf \/ EndSwitch
      BY <2>3, EndHolds
    <2>4. CASE Else \/ EmitDefault \/ \E v \in Value : EmitCase(v)
      BY <2>4, GoesOnHolds
    <2>5. CASE \E v \in Value : EmitStackedCase(v)
      BY <2>1, <2>5 DEF EmitStackedCase
    <2>6. CASE Break \/ Continue \/ Ternary \/ ShortCircuit
      BY <2>6, StepHolds
    <2>7. CASE UNCHANGED vars \/ Stopped
      <3>1. UNCHANGED vars
        BY <2>7 DEF Stopped
      <3> QED
        BY <2>1, <2>a, <3>1 DEF vars, output
    <2> QED
      BY <2>2, <2>3, <2>4, <2>5, <2>6, <2>7 DEF Next
  <1> QED
    BY <1>1, <1>2, PTL DEF Spec

\* Every variable has its type.
THEOREM TypeCorrect == Spec => []TypeOK
  <1>1. FInv => TypeOK
    BY DEF FInv
  <1> QED
    BY <1>1, FollowsNesting, PTL

\* At every moment break_label_ and continue_label_ are the ends of the loops
\* and switches under way and the labels the loops under way go on at, from the
\* outermost to the innermost: a break or continue, in any nesting, goes where
\* C has it go.
THEOREM TargetsAlwaysMirror == Spec => []TargetsMirrorNesting
  <1>1. ASSUME FInv PROVE TargetsMirrorNesting
    <2>1. breaks \in Seq(Nat) /\ continues \in Seq(Nat)
      BY <1>1, LabelStacks DEF FInv
    <2>2. BreakMarks(open) \in Seq(Nat) /\ ContinueMarks(open) \in Seq(Nat)
      BY <1>1, MarksType DEF FInv, TypeOK
    <2>3. Tracks(breaks, BreakMarks(open)) /\ Tracks(continues, ContinueMarks(open))
      BY <1>1 DEF FInv, Nested
    <2> QED
      BY <2>1, <2>2, <2>3, TracksDetermined DEF TargetsMirrorNesting
  <1>2. FInv => TargetsMirrorNesting
    BY <1>1
  <1> QED
    BY <1>2, FollowsNesting, PTL

=============================================================================
