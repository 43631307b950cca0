-------------------------------- MODULE MCCopy --------------------------------
(* An instance of Copy for TLC. *)
EXTENDS Copy

CONSTANT d1

=============================================================================
