------------------------------ MODULE MCEscrow ------------------------------
(* Constants for model-checking the escrow contract alone. *)
EXTENDS Escrow, TLC

MCEarlyLists == {{}, Parties}
NoEarlyLists == {{}}
=============================================================================
