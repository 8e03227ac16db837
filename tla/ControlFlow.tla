----------------------------- MODULE ControlFlow -----------------------------
(***************************************************************************)
(* The labels and jumps of statements: While, DoWhile, For, IfElse, Switch,*)
(* Case, DefaultCase, Break, Continue, Ternary and &&.  Each EmitRISC takes*)
(* fresh labels, emits the statement it holds, and defines its last labels *)
(* when that is done; `open` is the C++ call stack of those methods.  The  *)
(* statements are chosen one by one, so every nesting of them is explored. *)
(***************************************************************************)
EXTENDS Integers, FiniteSets, SequencesExt, SequenceFilter

CONSTANTS
  Value,           \* the values of case labels
  NestedDefaults,  \* explore a switch with a default in one whose default is to come
  MaxOpen,         \* bound: nesting of statements
  MaxLabel         \* bound: labels taken

ASSUME ControlFlowAssumption ==
  /\ IsFiniteSet(Value) /\ NestedDefaults \in BOOLEAN
  /\ MaxOpen \in Nat /\ MaxLabel \in Nat

VARIABLES
  phase,     \* "statements", or "aborted" by an exception
  open,      \* the statements being emitted, innermost last
  count,     \* label_map[".L"]: labels taken so far
  breaks,    \* break_label_
  continues, \* continue_label_
  default,   \* default_switch_label_, 0 for the empty string
  defined,   \* the labels defined in the output so far
  jumps,     \* the labels the output so far jumps to
  repeated   \* history: the labels defined more than once

vars == <<phase, open, count, breaks, continues, default, defined, jumps, repeated>>
output == <<defined, jumps, repeated>>

Label == 1..MaxLabel

\* A statement under way: where its end is, where its continue statements go
\* and where its back edge goes (0 if nowhere); for a switch, the top of
\* cases_map_stack_, the cases not emitted yet, and the label of the default
\* still to come.
Statement == [kind : {"if", "else", "while", "do", "for", "switch"},
              end : Label, continue : Label \cup {0}, start : Label \cup {0},
              cases : UNION {[V -> Label] : V \in SUBSET Value},
              todo : SUBSET Value, default : Label \cup {0}]

Simple(kind, end, continue, start) ==
  [kind |-> kind, end |-> end, continue |-> continue, start |-> start,
   cases |-> << >>, todo |-> {}, default |-> 0]

Top == open[Len(open)]
Loops == {"while", "do", "for"}

-----------------------------------------------------------------------------

Init ==
  /\ phase = "statements"
  /\ open = << >> /\ count = 0
  /\ breaks = << >> /\ continues = << >> /\ default = 0
  /\ defined = {} /\ jumps = {} /\ repeated = {}

\* Mutant: the counter is one short.
TakeOverlapping(n) == count + n <= MaxLabel /\ count' = count + n - 1

\* The label set taken by n calls of makeUniqueLabel is count+1 .. count+n.
TakeLabels(n) == count + n <= MaxLabel /\ count' = count + n

\* The output grows by definitions of the labels of D and jumps to those of J.
Emit(D, J) ==
  /\ defined' = defined \cup D
  /\ repeated' = repeated \cup (defined \cap D)
  /\ jumps' = jumps \cup J

Begin(s) == Len(open) < MaxOpen /\ open' = Append(open, s)
Finish == open' = Front(open)

BeginWhile ==
  LET start == count + 1  condition == count + 2  end == count + 3 IN
  /\ TakeLabels(3)
  /\ breaks' = Append(breaks, end) /\ continues' = Append(continues, condition)
  /\ Emit({start}, {condition})
  /\ Begin(Simple("while", end, condition, start))
  /\ UNCHANGED <<phase, default>>

BeginDoWhile ==
  LET start == count + 1  condition == count + 2  end == count + 3 IN
  /\ TakeLabels(3)
  /\ breaks' = Append(breaks, end) /\ continues' = Append(continues, condition)
  /\ Emit({start}, {})
  /\ Begin(Simple("do", end, condition, start))
  /\ UNCHANGED <<phase, default>>

\* The label of the condition is the second one; EndFor finds it from start.
BeginFor ==
  LET start == count + 1  condition == count + 2
      end == count + 3  iteration == count + 4
  IN
  /\ TakeLabels(4)
  /\ breaks' = Append(breaks, end) /\ continues' = Append(continues, iteration)
  /\ Emit({start}, {condition})
  /\ Begin(Simple("for", end, iteration, start))
  /\ UNCHANGED <<phase, default>>

\* The branch back to the start of the loop; a For has none without a condition.
Back == IF Top.kind = "for" THEN {{Top.start}, {}} ELSE {{Top.start}}

\* Mutant: the condition label of a For is emitted with the condition only.
EndLoopWithoutCondition ==
  /\ phase = "statements" /\ open # << >> /\ Top.kind \in Loops
  /\ \E back \in Back :
       Emit({Top.continue, Top.end}
              \cup (IF Top.kind = "for" /\ back # {} THEN {Top.start + 1} ELSE {}),
            back)
  /\ breaks' = Front(breaks) /\ continues' = Front(continues)
  /\ Finish
  /\ UNCHANGED <<phase, count, default>>

\* While and DoWhile end with the condition, For with the iteration expression
\* and then the label of the condition and the condition, if there is one.
EndLoop ==
  /\ phase = "statements" /\ open # << >> /\ Top.kind \in Loops
  /\ \E back \in Back :
       Emit({Top.continue, Top.end}
              \cup (IF Top.kind = "for" THEN {Top.start + 1} ELSE {}),
            back)
  /\ breaks' = Front(breaks) /\ continues' = Front(continues)
  /\ Finish
  /\ UNCHANGED <<phase, count, default>>

\* Mutant: the else label is used without being taken.
BeginIfSharing(hasElse) ==
  LET end == count + 1  else == count + 2 IN
  /\ TakeLabels(1)
  /\ Emit({}, {IF hasElse THEN else ELSE end})
  /\ Begin(Simple("if", end, 0, IF hasElse THEN else ELSE 0))
  /\ UNCHANGED <<phase, breaks, continues, default>>

\* The end label is taken first; start holds the else label, if there is one.
BeginIf(hasElse) ==
  LET end == count + 1  else == count + 2 IN
  /\ TakeLabels(IF hasElse THEN 2 ELSE 1)
  /\ Emit({}, {IF hasElse THEN else ELSE end})
  /\ Begin(Simple("if", end, 0, IF hasElse THEN else ELSE 0))
  /\ UNCHANGED <<phase, breaks, continues, default>>

Else ==
  /\ phase = "statements" /\ open # << >> /\ Top.kind = "if" /\ Top.start # 0
  /\ Emit({Top.start}, {Top.end})
  /\ open' = [open EXCEPT ![Len(open)].kind = "else"]
  /\ UNCHANGED <<phase, count, breaks, continues, default>>

EndIf ==
  /\ phase = "statements" /\ open # << >>
  /\ Top.kind = "else" \/ (Top.kind = "if" /\ Top.start = 0)
  /\ Emit({Top.end}, {})
  /\ Finish
  /\ UNCHANGED <<phase, count, breaks, continues, default>>

DefaultToCome == \E i \in DOMAIN open : open[i].default # 0

\* getCases takes the labels of the cases at the top of the body, in the order
\* they are written; then come the end label and the default label.
BeginSwitch(written, hasDefault) ==
  LET n     == Len(written)
      cases == [v \in ToSet(written) |-> count + SelectInSeq(written, LAMBDA w : w = v)]
      end   == count + n + 1
      label == IF hasDefault THEN count + n + 2 ELSE 0
  IN
  /\ hasDefault /\ DefaultToCome => NestedDefaults
  /\ TakeLabels(IF hasDefault THEN n + 2 ELSE n + 1)
  /\ breaks' = Append(breaks, end)
  /\ default' = IF hasDefault THEN label ELSE default
  /\ Emit({}, {cases[v] : v \in DOMAIN cases} \cup {IF hasDefault THEN label ELSE end})
  /\ Begin([kind |-> "switch", end |-> end, continue |-> 0, start |-> 0,
            cases |-> cases, todo |-> ToSet(written), default |-> label])
  /\ UNCHANGED <<phase, continues>>

InSwitch == phase = "statements" /\ open # << >> /\ Top.kind = "switch"

EmitCase(v) ==
  /\ InSwitch /\ v \in Top.todo
  /\ Emit({Top.cases[v]}, {})
  /\ open' = [open EXCEPT ![Len(open)].todo = @ \ {v}]
  /\ UNCHANGED <<phase, count, breaks, continues, default>>

\* "case 1: case 2: s": the second label is the statement of the first Case,
\* where getCases does not look, so getLabelCase throws.
EmitStackedCase(v) ==
  /\ InSwitch /\ v \notin DOMAIN Top.cases
  /\ \E w \in DOMAIN Top.cases : w \notin Top.todo
  /\ phase' = "aborted"
  /\ UNCHANGED <<open, count, breaks, continues, default, output>>

EmitDefault ==
  /\ InSwitch /\ Top.default # 0
  /\ Emit({default}, {})
  /\ open' = [open EXCEPT ![Len(open)].default = 0]
  /\ UNCHANGED <<phase, count, breaks, continues, default>>

\* Mutant: popBreakLabel is forgotten.
EndSwitchKeepingBreak ==
  /\ InSwitch /\ Top.todo = {} /\ Top.default = 0
  /\ Emit({Top.end}, {})
  /\ Finish
  /\ UNCHANGED <<phase, count, breaks, continues, default>>

EndSwitch ==
  /\ InSwitch /\ Top.todo = {} /\ Top.default = 0
  /\ Emit({Top.end}, {})
  /\ breaks' = Front(breaks)
  /\ Finish
  /\ UNCHANGED <<phase, count, continues, default>>

Within(kinds) == \E i \in DOMAIN open : open[i].kind \in kinds
LastOr0(labels) == IF labels = << >> THEN 0 ELSE Last(labels)

\* A valid program has break only in a loop or switch, continue only in a loop.
Break ==
  /\ phase = "statements" /\ Within(Loops \cup {"switch"})
  /\ Emit({}, {LastOr0(breaks)})
  /\ UNCHANGED <<phase, open, count, breaks, continues, default>>

Continue ==
  /\ phase = "statements" /\ Within(Loops)
  /\ Emit({}, {LastOr0(continues)})
  /\ UNCHANGED <<phase, open, count, breaks, continues, default>>

\* An expression holds no statement: its labels come and go in one step.
Ternary ==
  /\ phase = "statements"
  /\ TakeLabels(3)
  /\ Emit(count + 1 .. count + 3, {count + 2, count + 3})
  /\ UNCHANGED <<phase, open, breaks, continues, default>>

\* "l && r" on operands of type int; "||" takes its labels under another prefix.
ShortCircuit ==
  /\ phase = "statements"
  /\ TakeLabels(2)
  /\ Emit({count + 1, count + 2}, {count + 1, count + 2})
  /\ UNCHANGED <<phase, open, breaks, continues, default>>

\* The function is complete, or there is none any more.
Stopped == (phase = "aborted" \/ open = << >>) /\ UNCHANGED vars

Next ==
  \/ /\ phase = "statements"
     /\ \/ BeginWhile \/ BeginDoWhile \/ BeginFor
        \/ \E b \in BOOLEAN : BeginIf(b)
        \/ \E V \in SUBSET Value : \E written \in SetToSeqs(V), b \in BOOLEAN :
             BeginSwitch(written, b)
  \/ EndLoop \/ Else \/ EndIf \/ EmitDefault \/ EndSwitch
  \/ \E v \in Value : EmitCase(v) \/ EmitStackedCase(v)
  \/ Break \/ Continue \/ Ternary \/ ShortCircuit \/ Stopped

Spec == Init /\ [][Next]_vars

-----------------------------------------------------------------------------
(* Properties.                                                             *)

TypeOK ==
  /\ phase \in {"statements", "aborted"}
  /\ open \in Seq(Statement)
  /\ count \in 0..MaxLabel
  /\ breaks \in Seq(Label) /\ continues \in Seq(Label)
  /\ default \in Label \cup {0}
  /\ defined \subseteq Label /\ repeated \subseteq Label
  /\ jumps \subseteq Label \cup {0}

\* Where break leaves each statement of a stack and where continue goes on with
\* it, 0 for a statement that is no target.
Breakable == Loops \cup {"switch"}
BreakMarks(stack) ==
  [i \in 1..Len(stack) |-> IF stack[i].kind \in Breakable THEN stack[i].end ELSE 0]
ContinueMarks(stack) ==
  [i \in 1..Len(stack) |-> IF stack[i].kind \in Loops THEN stack[i].continue ELSE 0]

\* The labels a statement under way has yet to define.
Pending(s) ==
  {s.end} \cup {s.cases[v] : v \in s.todo}
          \cup (IF s.kind \in Loops THEN {s.continue} ELSE {})
          \cup (IF s.kind = "for" THEN {s.start + 1} ELSE {})
          \cup (IF s.kind = "if" THEN {s.start} \ {0} ELSE {})
          \cup ({s.default} \ {0})

\* Whatever statements lie in between, break leaves the innermost loop or
\* switch, and continue goes on with the innermost loop: a switch hides the
\* break label of the loop around it and not its continue label.
TargetsMirrorNesting ==
  /\ breaks = Without(BreakMarks(open), {0})
  /\ continues = Without(ContinueMarks(open), {0})

\* Every label jumped to is in the output, or a statement under way is going to
\* define it: the assembler finds every target.
JumpsLand == jumps \subseteq defined \cup UNION {Pending(open[i]) : i \in DOMAIN open}

\* No label is defined twice, and none that is still to come is there already
\* or awaited by two statements.
LabelsUnique ==
  /\ repeated = {}
  /\ \A i \in DOMAIN open :
       /\ Pending(open[i]) \cap defined = {}
       /\ \A j \in DOMAIN open : i # j => Pending(open[i]) \cap Pending(open[j]) = {}

=============================================================================
