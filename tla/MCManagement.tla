---------------------------- MODULE MCManagement ----------------------------
(* Small instances of Management for TLC.                                  *)
EXTENDS Management, TLC

\* Clients are interchangeable.
Symmetric == Permutations(Clients)

=============================================================================
