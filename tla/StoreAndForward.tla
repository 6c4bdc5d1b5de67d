-------------------------- MODULE StoreAndForward --------------------------
(***************************************************************************)
(* What the relay promises about messages, with connections, handlers and  *)
(* table entries left out.  The n-th message submitted is addressed to     *)
(* to[n].  It is stored, or relayed, or (when it is the first thing ever   *)
(* heard of its addressee) lost; a stored message can only become a        *)
(* relayed one, together with everything stored for the same user.         *)
(***************************************************************************)
EXTENDS Naturals, Sequences

CONSTANTS Users, MaxMsgs

VARIABLES
  to,       \* the addressee of each message submitted, in order
  seen,     \* the users the relay has heard of
  stored,   \* the numbers of the messages kept for an offline user
  relayed   \* the numbers of the messages given to a connection

Init ==
  /\ to = <<>>
  /\ seen = {}
  /\ stored = {}
  /\ relayed = {}

Submit(u) ==
  LET n == Len(to) + 1
  IN  /\ n <= MaxMsgs
      /\ to' = Append(to, u)
      /\ seen' = seen \cup {u}
      /\ \/ u \notin seen /\ UNCHANGED <<stored, relayed>>
         \/ u \in seen /\ stored' = stored \cup {n} /\ UNCHANGED relayed
         \/ u \in seen /\ relayed' = relayed \cup {n} /\ UNCHANGED stored

Meet(u) ==
  /\ seen' = seen \cup {u}
  /\ UNCHANGED <<to, stored, relayed>>

Forward(u) ==
  LET S == {n \in stored : to[n] = u}
  IN  /\ stored' = stored \ S
      /\ relayed' = relayed \cup S
      /\ UNCHANGED <<to, seen>>

Next == \E u \in Users : Submit(u) \/ Meet(u) \/ Forward(u)

Spec == Init /\ [][Next]_<<to, seen, stored, relayed>>
=============================================================================
