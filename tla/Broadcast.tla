----------------------------- MODULE Broadcast -----------------------------
(***************************************************************************)
(* What the observers of a messenger are promised: an event is told to all *)
(* observers registered at one moment, to no other, and in one order.      *)
(***************************************************************************)
EXTENDS Sequences

CONSTANTS Clients, Observers, Events

VARIABLES
  observers,  \* the observers registered with each client
  told        \* what each of them has been told, in order

Init ==
  /\ observers = [c \in Clients |-> {}]
  /\ told = [c \in Clients |-> [o \in Observers |-> <<>>]]

Register(c, o) ==
  /\ observers' = [observers EXCEPT ![c] = @ \cup {o}]
  /\ UNCHANGED told

Unregister(c, o) ==
  /\ observers' = [observers EXCEPT ![c] = @ \ {o}]
  /\ UNCHANGED told

Tell(c, e) ==
  /\ told' = [told EXCEPT ![c] =
       [o \in Observers |-> IF o \in observers[c] THEN Append(@[o], e) ELSE @[o]]]
  /\ UNCHANGED observers

Next ==
  \E c \in Clients :
    \/ \E o \in Observers : Register(c, o) \/ Unregister(c, o)
    \/ \E e \in Events : Tell(c, e)

Spec == Init /\ [][Next]_<<observers, told>>
=============================================================================
