-------------------------------- MODULE Tape --------------------------------
(***************************************************************************)
(* What the adjoint code is promised by wrftladj/adStack.c: a stack of     *)
(* arrays.  PUSH puts an array on top, POP returns the last array that was *)
(* pushed and not yet popped, LOOK returns what the next POPs would return *)
(* without popping it ("LOOKing is just like POPping, except that the main *)
(* pointer remains in place", adStack.c:149).  A push or a pop starts the  *)
(* LOOKs over again.                                                       *)
(***************************************************************************)
EXTENDS Integers, Sequences, SequencesExt

CONSTANTS Items,     \* what may be pushed
          Nothing    \* the result before anything was fetched

VARIABLES stack,     \* the items pushed and not popped, the last one on top
          looked,    \* how many of them were looked at since the last push or pop
          out        \* what the last pop or look returned

Init == stack = <<>> /\ looked = 0 /\ out = Nothing

Push(x) ==
  /\ stack' = Append(stack, x)
  /\ looked' = 0
  /\ UNCHANGED out

Pop ==
  /\ stack # <<>>
  /\ stack' = Front(stack)
  /\ out' = Last(stack)
  /\ looked' = 0

Look ==
  /\ looked < Len(stack)
  /\ out' = stack[Len(stack) - looked]
  /\ looked' = looked + 1
  /\ UNCHANGED stack

ResetLook ==
  /\ looked' = 0
  /\ UNCHANGED <<stack, out>>

Next ==
  \/ \E x \in Items : Push(x)
  \/ Pop
  \/ Look
  \/ ResetLook

Spec == Init /\ [][Next]_<<stack, looked, out>>
=============================================================================
