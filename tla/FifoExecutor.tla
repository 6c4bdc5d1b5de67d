---------------------------- MODULE FifoExecutor ----------------------------
(***************************************************************************)
(* What an operation queue promises: operations are begun in the order in  *)
(* which they were added, each at most once, and never two at a time.      *)
(***************************************************************************)
EXTENDS Naturals, Sequences

CONSTANTS Ops, NoOp

VARIABLES
  added,      \* the operations added, in order
  executed,   \* the operations that have returned, in order
  current     \* the operation being executed, or NoOp

Init ==
  /\ added = <<>>
  /\ executed = <<>>
  /\ current = NoOp

Submit(op) ==
  /\ added' = Append(added, op)
  /\ UNCHANGED <<executed, current>>

Begin ==
  /\ current = NoOp
  /\ Len(executed) < Len(added)
  /\ current' = added[Len(executed) + 1]
  /\ UNCHANGED <<added, executed>>

End ==
  /\ current # NoOp
  /\ executed' = Append(executed, current)
  /\ current' = NoOp
  /\ UNCHANGED added

Next == (\E op \in Ops : Submit(op)) \/ Begin \/ End

Spec == Init /\ [][Next]_<<added, executed, current>>
=============================================================================
