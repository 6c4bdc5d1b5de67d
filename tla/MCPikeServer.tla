---------------------------- MODULE MCPikeServer ----------------------------
(* Small instances of the relay.  Users and connections are interchangeable: *)
(* no handler compares two of them except for equality.                      *)
EXTENDS PikeServer, TLC

Permuted == Permutations(Users) \cup Permutations(Conns)
=============================================================================
