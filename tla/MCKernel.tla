------------------------------ MODULE MCKernel ------------------------------
(* Instances of Kernel for TLC. *)
EXTENDS Kernel

CONSTANTS r1, r2, basura

MCRutas == {r1, r2}
MCUnaRuta == {r1}
MCGrados == {0, 3}
MCGuion == <<Otra, r1>>
MCGuionVacio == <<r1, Vacia>>
=============================================================================
