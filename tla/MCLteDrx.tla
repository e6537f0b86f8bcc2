------------------------------ MODULE MCLteDrx ------------------------------
(* Model-checking instances of LteDrx. *)
EXTENDS LteDrx
=============================================================================
