---------------------------- MODULE MCProtocolo ----------------------------
(* Instances of Protocolo for TLC. *)
EXTENDS Protocolo

(* Two texts of different lengths, the second longer than an integer.      *)
MCTextos == {<<65, 0>>, <<65, 66, 67, 68, 0>>}

(* An instruction without parameters and one with two. *)
MCInstrucciones == {<< <<65, 0>>, <<>>, <<>>, <<>> >>,
                    << <<65, 66, 67, 68, 0>>, <<65, 0>>, <<65, 0>>, <<>> >>}

(* A pid that takes two bytes. *)
MCPids == {258}

MCSobras == {[k \in 1..12 |-> k]}
=============================================================================
