-------------------------- MODULE MCOperationQueue --------------------------
(* Small instances of the operation queue. *)
EXTENDS OperationQueue
=============================================================================
