---------------------------- MODULE MCInterfaces ----------------------------
(* Two interfaces of different types. *)
EXTENDS Interfaces, TLC

CONSTANTS i1, i2, basura

MCDos == {i1, i2}
MCTipo == i1 :> "GENERICA" @@ i2 :> "STDIN"
=============================================================================
