----------------------------- MODULE MCMemoria -----------------------------
(* Instances of Memoria for TLC. *)
EXTENDS Memoria

CONSTANTS k, o1, o2

MCClientes == {k, o1, o2}
MCKernels == {k}
=============================================================================
