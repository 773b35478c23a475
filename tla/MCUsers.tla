-------------------------------- MODULE MCUsers --------------------------------
(***************************************************************************)
(* A small instance of the users adapter for TLC.                          *)
(***************************************************************************)
EXTENDS Users, TLC

\* No definition of Users tells two callers or two profiles apart.
Symmetric == Permutations(Caller) \cup Permutations(Profile)
=============================================================================
