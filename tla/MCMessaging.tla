---------------------------- MODULE MCMessaging ----------------------------
(* Two clients: one sends two messages, the other answers and changes its    *)
(* observers twice, registering two or one of them for a while.              *)
EXTENDS Messaging, TLC

CONSTANTS a, b

TwoMessages == a :> 2 @@ b :> 0
TwoChanges  == a :> 0 @@ b :> 2
=============================================================================
