---------------------------- MODULE Planificacion ----------------------------
(***************************************************************************)
(* What the kernel's scheduler promises, without threads, semaphores or    *)
(* lists: processes are numbered as they are created, admitted to READY in *)
(* that order, and the oldest READY process is dispatched, once.  A queue  *)
(* damaged while a process was being taken out may lose processes          *)
(* afterwards; an undamaged one never does.                                *)
(***************************************************************************)
EXTENDS Integers

VARIABLES creados, nuevos, listos, ejecutando, danadas
avars == <<creados, nuevos, listos, ejecutando, danadas>>

Nadie == -1

Primero(S, p) == p \in S /\ \A q \in S : p <= q

Init == creados = 0 /\ nuevos = {} /\ listos = {} /\ ejecutando = Nadie /\ danadas = {}

Crear ==
  /\ creados' = creados + 1
  /\ nuevos' = nuevos \union {creados}
  /\ UNCHANGED <<listos, ejecutando, danadas>>

Admitir ==
  /\ \E p \in nuevos : /\ Primero(nuevos, p)
                       /\ nuevos' = nuevos \ {p}
                       /\ listos' = listos \union {p}
  /\ danadas' \in {danadas, danadas \union {"new"}}
  /\ UNCHANGED <<creados, ejecutando>>

Despachar ==
  /\ ejecutando = Nadie
  /\ \E p \in listos : /\ Primero(listos, p)
                       /\ listos' = listos \ {p}
                       /\ ejecutando' = p
  /\ danadas' \in {danadas, danadas \union {"ready"}}
  /\ UNCHANGED <<creados, nuevos>>

Perder ==
  /\ \/ "new" \in danadas /\ nuevos' \subseteq nuevos /\ listos' = listos
     \/ "ready" \in danadas /\ listos' \subseteq listos /\ nuevos' = nuevos
  /\ UNCHANGED <<creados, ejecutando, danadas>>

Next == Crear \/ Admitir \/ Despachar \/ Perder

Spec == Init /\ [][Next]_avars
=============================================================================
