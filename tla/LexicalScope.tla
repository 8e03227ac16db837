---------------------------- MODULE LexicalScope ----------------------------
(***************************************************************************)
(* What the symbol tables are for: every name has one meaning, that of its *)
(* innermost declaration; a declaration changes the meaning of the name it *)
(* declares and of no other, and leaving a scope brings back the meaning   *)
(* every name had on entry.                                                *)
(***************************************************************************)
EXTENDS Integers, Sequences

CONSTANTS
  Name,     \* identifiers
  Type,     \* type specifiers, "int" among them
  NoType,   \* no declaration is being read
  Unknown   \* the meaning of an undeclared name

VARIABLES
  meaning,   \* the meaning of every name
  saved,     \* the meanings at the entry of each open scope, outermost first
  declaring  \* the type the current declaration was written with

vars == <<meaning, saved, declaring>>

Object(t, place, pointer) == [type |-> t, place |-> place, pointer |-> pointer]
Enumerator == Object("int", "none", FALSE)

Init == meaning = [n \in Name |-> Unknown] /\ saved = << >> /\ declaring = NoType

Bind(n, d) == meaning' = [meaning EXCEPT ![n] = d]

Place == IF saved = << >> THEN "global" ELSE "local"

Enter == saved' = Append(saved, meaning) /\ UNCHANGED <<meaning, declaring>>

Leave(k) ==
  /\ meaning' = saved[Len(saved) + 1 - k]
  /\ saved' = SubSeq(saved, 1, Len(saved) - k)
  /\ UNCHANGED declaring

Begin(t) == declaring' = t /\ UNCHANGED <<meaning, saved>>
End == declaring' = NoType /\ UNCHANGED <<meaning, saved>>

Variable(n, t, pointer) ==
  Bind(n, Object(t, Place, pointer)) /\ UNCHANGED <<saved, declaring>>

Constant(n) == Bind(n, Enumerator) /\ UNCHANGED <<saved, declaring>>

Next ==
  \/ Enter \/ End
  \/ \E k \in 1..Len(saved) : Leave(k)
  \/ \E t \in Type : Begin(t)
  \/ \E n \in Name :
       \/ Constant(n)
       \/ \E pointer \in BOOLEAN :
            \* A parameter is written with a type of its own.
            \/ declaring # NoType /\ Variable(n, declaring, pointer)
            \/ \E t \in Type : declaring = NoType /\ Variable(n, t, pointer)

Spec == Init /\ [][Next]_vars

=============================================================================
