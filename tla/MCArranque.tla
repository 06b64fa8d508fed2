----------------------------- MODULE MCArranque -----------------------------
(* Instances of Arranque for TLC. *)
EXTENDS Arranque

CONSTANTS i1, i2

MCInterfaces == {i1, i2}
=============================================================================
