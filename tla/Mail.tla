-------------------------------- MODULE Mail --------------------------------
(***************************************************************************)
(* What users may rely on, whatever happens to connections and sessions: a  *)
(* message is told to the user it is addressed to, once at most, and its   *)
(* sender is told at most once that it was delivered, and only if it was.  *)
(***************************************************************************)
EXTENDS Naturals, Sequences

CONSTANTS Users, MaxChats

VARIABLES
  sent,      \* sender and addressee of each message, in the order of SendMessage
  told,      \* of each message, the users that were told of it
  confirmed  \* of each message, how often its sender was told Delivered

Init ==
  /\ sent = <<>>
  /\ told = [m \in 1 .. MaxChats |-> <<>>]
  /\ confirmed = [m \in 1 .. MaxChats |-> 0]

Submit(u, v) ==
  /\ Len(sent) < MaxChats
  /\ sent' = Append(sent, [from |-> u, to |-> v])
  /\ UNCHANGED <<told, confirmed>>

Tell(m) ==
  /\ told[m] = <<>>
  /\ told' = [told EXCEPT ![m] = <<sent[m].to>>]
  /\ UNCHANGED <<sent, confirmed>>

Confirm(m) ==
  /\ told[m] # <<>>
  /\ confirmed[m] = 0
  /\ confirmed' = [confirmed EXCEPT ![m] = 1]
  /\ UNCHANGED <<sent, told>>

Next ==
  \/ \E u, v \in Users : Submit(u, v)
  \/ \E m \in DOMAIN sent : Tell(m) \/ Confirm(m)

Spec == Init /\ [][Next]_<<sent, told, confirmed>>
=============================================================================
