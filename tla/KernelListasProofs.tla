------------------------- MODULE KernelListasProofs -------------------------
(***************************************************************************)
(* Proofs about the two lists of the kernel's scheduler: what they hold    *)
(* when the semaphores let a thread take from them, which processes they   *)
(* hold together, and that the threads implement Planificacion.            *)
(***************************************************************************)
EXTENDS KernelProofs

USE DEF Nulo, Buffers, Colas, semaforos, colas, procesos, pedido, deConsola,
        deLargo, deFifo, salidas

(* What the proofs of KernelProofs leave to build on. *)
Base == Tipos /\ AjusteExacto /\ Despacho

LEMMA BaseSiempre == Spec => []Base
  <1>1. Tipos /\ AjusteExacto /\ Despacho <=> Base
    BY DEF Base
  <1> QED BY <1>1, TiposSiempre, AjusteCorrecto, DespachoSiempre, PTL

(* What list_add and list_remove do to the length of a list. *)
LEMMA LargoAlAgregar ==
  ASSUME NEW S, NEW l \in Seq(S), NEW x \in S, NEW q, uso[q] # "danada",
         NEW m \in ResultadosDeAgregar(l, x, q)
  PROVE  m = Append(l, x) /\ Len(m) = Len(l) + 1
  <1>1. m = Append(l, x)
    BY DEF ResultadosDeAgregar, Encolar
  <1> QED BY <1>1

LEMMA LargoAlQuitar ==
  ASSUME NEW S, NEW l \in Seq(S), l # <<>>
  PROVE  Len(SinPrimero(l)) = Len(l) - 1 /\ Len(l) \in Nat /\ Len(l) >= 1
  BY DEF SinPrimero

(* A list never comes back from the damage of a race. *)
LEMMA UsoDeListas ==
  ASSUME Tipos, NEW q \in Colas, NEW d \in Colas
  PROVE  /\ EmpezarUso(uso, d)[q] = "danada" <=> uso[q] = "danada"
         /\ TerminarUso(uso, d)[q] = "danada" <=> uso[q] = "danada"
         /\ Interferir(uso, d)[q] = "danada" <=>
              (uso[q] = "danada" \/ (q = d /\ uso[q] = "agregando"))
         /\ EmpezarUso(Interferir(uso, "new"), "ready")[q] = "danada" <=>
              Interferir(uso, "new")[q] = "danada"
  BY DEF Tipos, TypeOK, EmpezarUso, TerminarUso, Interferir
-----------------------------------------------------------------------------
(* While a list is whole, what has been posted for it and not taken is in  *)
(* it: cantidad_procesos_new counts procesos_new but for the process whose *)
(* turn the long-term scheduler has, and whoever leads to FIFO's one       *)
(* list_remove keeps a process in procesos_ready.                          *)
CuentaDeNew ==
  uso["new"] # "danada" =>
    Len(procesos_new) = cantidad_procesos_new
                        + (IF largo \in {"grado", "quitar"} THEN 1 ELSE 0)

CuentaDeReady ==
  uso["ready"] # "danada" =>
    /\ corto = "primero" => Len(procesos_ready) >= cantidad_procesos_ready
    /\ (corto = "despertar" \/ proceso_ejecutando > 0 \/ fifo = "quitar")
         => Len(procesos_ready) > 0

Cuentas == CuentaDeNew /\ CuentaDeReady /\ CaidaDeListaPorCarrera

LEMMA PasoCuentas == Base /\ Cuentas /\ [Next]_vars => Cuentas'
  <1> SUFFICES ASSUME Base, Cuentas, [Next]_vars PROVE Cuentas'
    OBVIOUS
  <1> USE DEF SinCarreras, CaidaDeListaPorCarrera
  <1>0. /\ cantidad_procesos_new \in Nat /\ cantidad_procesos_ready \in Nat
        /\ proceso_ejecutando \in Nat
        /\ procesos_new \in Seq(0..pid-1) /\ procesos_ready \in Seq(0..pid-1)
        /\ Len(procesos_new) \in Nat /\ Len(procesos_ready) \in Nat
        /\ Tipos /\ AjusteExacto /\ Despacho
    BY DEF Base, Tipos, TypeOK
  <1>1. CASE ConsolaCrea
    <2>1. /\ uso' = EmpezarUso(uso, "new")
          /\ UNCHANGED <<semaforos, procesos_new, procesos_ready, deLargo, corto, deFifo, falla>>
      BY <1>1 DEF ConsolaCrea, CrearPcb
    <2>2. \A q \in Colas : uso'[q] = "danada" <=> uso[q] = "danada"
      BY <1>0, <2>1, UsoDeListas
    <2> QED BY <2>1, <2>2 DEF Cuentas, CuentaDeNew, CuentaDeReady
  <1>2. CASE ConsolaAgrega
    <2>1. /\ uso' = TerminarUso(uso, "new")
          /\ procesos_new' \in ResultadosDeAgregar(procesos_new, pid - 1, "new")
          /\ pid - 1 \in 0..pid-1
          /\ cantidad_procesos_new' = cantidad_procesos_new + 1
          /\ UNCHANGED <<cantidad_procesos_ready, proceso_ejecutando, procesos_ready,
                         deLargo, corto, deFifo, falla>>
      BY <1>0, <1>2 DEF ConsolaAgrega, Tipos, TypeOK, Lugares
    <2>2. \A q \in Colas : uso'[q] = "danada" <=> uso[q] = "danada"
      BY <1>0, <2>1, UsoDeListas
    <2>3. uso["new"] # "danada" => Len(procesos_new') = Len(procesos_new) + 1
      BY <1>0, <2>1, LargoAlAgregar
    <2>4. CuentaDeNew'
      BY <1>0, <2>1, <2>2, <2>3 DEF Cuentas, CuentaDeNew
    <2> QED BY <2>1, <2>2, <2>4 DEF Cuentas, CuentaDeReady
  <1>3. CASE ConsolaAjusta \/ ConsolaQuieta
    BY <1>3 DEF ConsolaAjusta, ConsolaQuieta, Cuentas, CuentaDeNew, CuentaDeReady
  <1>4. CASE LargoEsperarNuevo \/ LargoEsperarGrado
    BY <1>0, <1>4 DEF LargoEsperarNuevo, LargoEsperarGrado, EnLargo, Cuentas,
       CuentaDeNew, CuentaDeReady
  <1>5. CASE LargoQuitar
    <2>1. CASE procesos_new = <<>> /\ Caer("lista_vacia")
      <3>1. uso["new"] = "danada"
        BY <1>0, <1>5, <2>1 DEF LargoQuitar, EnLargo, Cuentas, CuentaDeNew
      <3> QED BY <2>1, <3>1 DEF Caer, Cuentas, CuentaDeNew, CuentaDeReady
    <2>2. CASE ~(procesos_new = <<>> /\ Caer("lista_vacia"))
      <3>1. /\ procesos_new # <<>> /\ procesos_new' = SinPrimero(procesos_new)
            /\ uso' = EmpezarUso(Interferir(uso, "new"), "ready")
            /\ largo = "quitar" /\ largo' = "agregar" /\ Vivo
            /\ UNCHANGED <<semaforos, procesos_ready, corto, deFifo, falla>>
        BY <1>5, <2>2 DEF LargoQuitar, EnLargo
      <3>2. \A q \in Colas : uso[q] = "danada" => uso'[q] = "danada"
        BY <1>0, <3>1, UsoDeListas
      <3>3. uso'["ready"] = "danada" <=> uso["ready"] = "danada"
        BY <1>0, <3>1, UsoDeListas
      <3>4. Len(procesos_new') = Len(procesos_new) - 1
        BY <1>0, <3>1, LargoAlQuitar
      <3>5. CuentaDeNew'
        BY <1>0, <3>1, <3>2, <3>4 DEF Cuentas, CuentaDeNew
      <3> QED BY <3>1, <3>2, <3>3, <3>5 DEF Cuentas, CuentaDeReady, Vivo
    <2> QED BY <2>1, <2>2
  <1>6. CASE LargoAgregar
    <2>1. CASE uso["ready"] = "danada" /\ Caer("lista_danada")
      BY <2>1 DEF Caer, Cuentas, CuentaDeNew, CuentaDeReady
    <2>2. CASE ~(uso["ready"] = "danada" /\ Caer("lista_danada"))
      <3>1. /\ procesos_ready' \in ResultadosDeAgregar(procesos_ready, tomado, "ready")
            /\ uso' = TerminarUso(uso, "ready") /\ tomado \in 0..pid-1
            /\ cantidad_procesos_ready' = cantidad_procesos_ready + 1
            /\ largo = "agregar" /\ largo' = "nuevo"
            /\ UNCHANGED <<cantidad_procesos_new, proceso_ejecutando, procesos_new,
                           corto, deFifo, falla>>
        BY <1>0, <1>6, <2>2 DEF LargoAgregar, EnLargo, Tipos, TypeOK, Lugares
      <3>2. \A q \in Colas : uso'[q] = "danada" <=> uso[q] = "danada"
        BY <1>0, <3>1, UsoDeListas
      <3>3. uso["ready"] # "danada" => Len(procesos_ready') = Len(procesos_ready) + 1
        BY <1>0, <3>1, LargoAlAgregar
      <3>4. CuentaDeReady'
        BY <1>0, <3>1, <3>2, <3>3 DEF Cuentas, CuentaDeReady
      <3> QED BY <3>1, <3>2, <3>4 DEF Cuentas, CuentaDeNew
    <2> QED BY <2>1, <2>2
  <1>7. CASE CortoPlazo
    BY <1>0, <1>7 DEF CortoPlazo, CortoEsperarPrimero, CortoDespertar, CortoConsumir,
       Cuentas, CuentaDeNew, CuentaDeReady
  <1>8. CASE FifoQuitar
    <2>1. CASE procesos_ready = <<>> /\ Caer("lista_vacia")
      <3>1. uso["ready"] = "danada"
        BY <1>0, <1>8, <2>1 DEF FifoQuitar, EnFifo, Cuentas, CuentaDeReady
      <3> QED BY <2>1, <3>1 DEF Caer, Cuentas, CuentaDeNew, CuentaDeReady
    <2>2. CASE ~(procesos_ready = <<>> /\ Caer("lista_vacia"))
      <3>1. /\ procesos_ready # <<>> /\ procesos_ready' = SinPrimero(procesos_ready)
            /\ uso' = Interferir(uso, "ready")
            /\ fifo = "quitar" /\ fifo' = "largo_path" /\ Vivo
            /\ UNCHANGED <<semaforos, procesos_new, deLargo, corto, falla>>
        BY <1>8, <2>2 DEF FifoQuitar, EnFifo
      <3>2. /\ \A q \in Colas : uso[q] = "danada" => uso'[q] = "danada"
            /\ uso'["new"] = "danada" <=> uso["new"] = "danada"
        BY <1>0, <3>1, UsoDeListas
      <3>3. corto \notin {"primero", "despertar"} /\ proceso_ejecutando = 0
        BY <1>0, <3>1 DEF Despacho
      <3> QED BY <3>1, <3>2, <3>3 DEF Cuentas, CuentaDeNew, CuentaDeReady, Vivo
    <2> QED BY <2>1, <2>2
  <1>9. CASE FifoEsperar \/ FifoEnviarLargo \/ FifoEnviarPath \/ FifoEnviarPcb
    BY <1>0, <1>9 DEF FifoEsperar, FifoEnviarLargo, FifoEnviarPath, FifoEnviarPcb,
       EnviarPath, Caer, Cuentas, CuentaDeNew, CuentaDeReady
  <1>10. CASE UNCHANGED vars
    BY <1>10 DEF vars, Cuentas, CuentaDeNew, CuentaDeReady
  <1> QED BY <1>0, <1>1, <1>2, <1>3, <1>4, <1>5, <1>6, <1>7, <1>8, <1>9, <1>10,
             ConsolaCasos
          DEF Next, LargoPlazo, FIFO

(* list_remove never finds a list empty, and list_add never finds one      *)
(* broken, unless two threads have raced on it: the semaphores are posted  *)
(* after list_add and waited for before list_remove.                       *)
THEOREM CaidaDeListaCorrecta == Spec => []CaidaDeListaPorCarrera
  <1>1. Init => Cuentas
    BY DEF Init, Cuentas, CuentaDeNew, CuentaDeReady, CaidaDeListaPorCarrera
  <1>2. Cuentas => CaidaDeListaPorCarrera
    BY DEF Cuentas
  <1> QED BY <1>1, <1>2, PasoCuentas, BaseSiempre, PTL DEF Spec
-----------------------------------------------------------------------------
(* SinAvisoPerdido is not inductive: while the long-term scheduler is past *)
(* its first sem_wait the semaphore counts one less.  A damaged list can   *)
(* only hold fewer than what was posted for it.                            *)
Avisos ==
  /\ Len(procesos_new) <= cantidad_procesos_new
                          + (IF largo \in {"grado", "quitar"} THEN 1 ELSE 0)
  /\ corto = "primero" => Len(procesos_ready) <= cantidad_procesos_ready
  /\ corto = "consumir" /\ fifo = "esperar" /\ proceso_en_ejecucion = Nulo
       => proceso_ejecutando > 0

(* list_add makes a list one longer at most, whatever has been done to it. *)
LEMMA LargoMaximoAlAgregar ==
  ASSUME NEW S, NEW l \in Seq(S), NEW x \in S, NEW q,
         NEW m \in ResultadosDeAgregar(l, x, q)
  PROVE  Len(m) \in Nat /\ Len(m) <= Len(l) + 1
  <1>1. CASE m = Append(l, x) \/ m = l
    BY <1>1
  <1>2. ASSUME NEW k \in 0..Len(l), m = Append(SubSeq(l, 1, k), x)
        PROVE  Len(m) \in Nat /\ Len(m) <= Len(l) + 1
    <2>1. SubSeq(l, 1, k) \in Seq(S) /\ Len(SubSeq(l, 1, k)) = k
      BY <1>2
    <2> QED BY <1>2, <2>1
  <1> QED BY <1>1, <1>2 DEF ResultadosDeAgregar, Encolar

LEMMA PasoAvisos == Base /\ Avisos /\ [Next]_vars => Avisos'
  <1> SUFFICES ASSUME Base, Avisos, [Next]_vars PROVE Avisos'
    OBVIOUS
  <1>0. /\ cantidad_procesos_new \in Nat /\ cantidad_procesos_ready \in Nat
        /\ proceso_ejecutando \in Nat
        /\ procesos_new \in Seq(0..pid-1) /\ procesos_ready \in Seq(0..pid-1)
        /\ Len(procesos_new) \in Nat /\ Len(procesos_ready) \in Nat
        /\ Tipos /\ AjusteExacto /\ Despacho
    BY DEF Base, Tipos, TypeOK
  <1>1. CASE ConsolaCrea
    BY <1>1 DEF ConsolaCrea, Avisos
  <1>2. CASE ConsolaAgrega
    <2>1. /\ procesos_new' \in ResultadosDeAgregar(procesos_new, pid - 1, "new")
          /\ pid - 1 \in 0..pid-1
          /\ cantidad_procesos_new' = cantidad_procesos_new + 1
          /\ UNCHANGED <<cantidad_procesos_ready, proceso_ejecutando, procesos_ready,
                         deLargo, corto, deFifo>>
      BY <1>0, <1>2 DEF ConsolaAgrega, Tipos, TypeOK, Lugares
    <2>2. Len(procesos_new') \in Nat /\ Len(procesos_new') <= Len(procesos_new) + 1
      BY <1>0, <2>1, LargoMaximoAlAgregar
    <2> QED BY <1>0, <2>1, <2>2 DEF Avisos
  <1>3. CASE ConsolaAjusta \/ ConsolaQuieta
    BY <1>3 DEF ConsolaAjusta, ConsolaQuieta, Avisos
  <1>4. CASE LargoEsperarNuevo \/ LargoEsperarGrado
    BY <1>0, <1>4 DEF LargoEsperarNuevo, LargoEsperarGrado, EnLargo, Avisos
  <1>5. CASE LargoQuitar
    <2>1. CASE Caer("lista_vacia")
      BY <2>1 DEF Caer, Avisos
    <2>2. CASE ~Caer("lista_vacia")
      <3>1. /\ procesos_new # <<>> /\ procesos_new' = SinPrimero(procesos_new)
            /\ largo = "quitar" /\ largo' = "agregar"
            /\ UNCHANGED <<semaforos, procesos_ready, corto, deFifo>>
        BY <1>5, <2>2 DEF LargoQuitar, EnLargo
      <3>2. Len(procesos_new') = Len(procesos_new) - 1
        BY <1>0, <3>1, LargoAlQuitar
      <3> QED BY <1>0, <3>1, <3>2 DEF Avisos
    <2> QED BY <2>1, <2>2
  <1>6. CASE LargoAgregar
    <2>1. CASE Caer("lista_danada")
      BY <2>1 DEF Caer, Avisos
    <2>2. CASE ~Caer("lista_danada")
      <3>1. /\ procesos_ready' \in ResultadosDeAgregar(procesos_ready, tomado, "ready")
            /\ tomado \in 0..pid-1
            /\ cantidad_procesos_ready' = cantidad_procesos_ready + 1
            /\ largo = "agregar" /\ largo' = "nuevo"
            /\ UNCHANGED <<cantidad_procesos_new, proceso_ejecutando, procesos_new,
                           corto, deFifo>>
        BY <1>0, <1>6, <2>2 DEF LargoAgregar, EnLargo, Tipos, TypeOK, Lugares
      <3>2. Len(procesos_ready') \in Nat /\ Len(procesos_ready') <= Len(procesos_ready) + 1
        BY <1>0, <3>1, LargoMaximoAlAgregar
      <3> QED BY <1>0, <3>1, <3>2 DEF Avisos
    <2> QED BY <2>1, <2>2
  <1>7. CASE CortoPlazo
    BY <1>0, <1>7 DEF CortoPlazo, CortoEsperarPrimero, CortoDespertar, CortoConsumir, Avisos
  <1>8. CASE FifoQuitar
    <2>1. CASE Caer("lista_vacia")
      BY <2>1 DEF Caer, Avisos
    <2>2. CASE ~Caer("lista_vacia")
      <3>1. /\ procesos_ready # <<>> /\ procesos_ready' = SinPrimero(procesos_ready)
            /\ fifo = "quitar" /\ fifo' = "largo_path"
            /\ UNCHANGED <<semaforos, procesos_new, deLargo, corto>>
        BY <1>8, <2>2 DEF FifoQuitar, EnFifo
      <3>2. corto # "primero"
        BY <1>0, <3>1 DEF Despacho
      <3> QED BY <3>1, <3>2 DEF Avisos
    <2> QED BY <2>1, <2>2
  <1>9. CASE FifoEsperar
    BY <1>0, <1>9 DEF FifoEsperar, Avisos
  <1>10. CASE FifoEnviarLargo \/ FifoEnviarPath \/ FifoEnviarPcb
    <2>1. proceso_en_ejecucion # Nulo
      BY <1>0, <1>10 DEF FifoEnviarLargo, FifoEnviarPath, FifoEnviarPcb, EnFifo,
         Tipos, Lugares
    <2>2. UNCHANGED <<semaforos, colas, procesos, deLargo, corto, proceso_en_ejecucion>>
      BY <1>10 DEF FifoEnviarLargo, FifoEnviarPath, FifoEnviarPcb, EnviarPath, Caer
    <2> QED BY <2>1, <2>2 DEF Avisos
  <1>11. CASE UNCHANGED vars
    BY <1>11 DEF vars, Avisos
  <1> QED BY <1>0, <1>1, <1>2, <1>3, <1>4, <1>5, <1>6, <1>7, <1>8, <1>9, <1>10, <1>11,
             ConsolaCasos
          DEF Next, LargoPlazo, FIFO

(* No sem_post of the schedulers is lost, for any number of processes and  *)
(* even after a race: nobody sleeps on a semaphore at zero while there is  *)
(* a process it should have been woken for.                                *)
THEOREM SinAvisoPerdidoCorrecto == Spec => []SinAvisoPerdido
  <1>1. Init => Avisos
    BY ConstantesOK DEF Init, Avisos
  <1>2. Base /\ Avisos => SinAvisoPerdido
    <2> SUFFICES ASSUME Base, Avisos PROVE SinAvisoPerdido
      OBVIOUS
    <2>1. /\ \A S : \A l \in Seq(S) : l # <<>> => Len(l) > 0
          /\ procesos_new \in Seq(0..pid-1) /\ procesos_ready \in Seq(0..pid-1)
          /\ cantidad_procesos_new \in Nat /\ cantidad_procesos_ready \in Nat
      BY EmptySeq, LenProperties DEF Base, Tipos, TypeOK
    <2>2. /\ Len(procesos_new) \in Nat /\ Len(procesos_ready) \in Nat
          /\ procesos_new # <<>> => Len(procesos_new) > 0
          /\ procesos_ready # <<>> => Len(procesos_ready) > 0
      BY <2>1, LenProperties
    <2> QED BY <2>1, <2>2 DEF Avisos, SinAvisoPerdido
  <1> QED BY <1>1, <1>2, PasoAvisos, BaseSiempre, PTL DEF Spec
-----------------------------------------------------------------------------
(* What list_add and list_remove do to the processes in a list.            *)
LEMMA ElementosAlAgregar ==
  ASSUME NEW S, NEW l \in Seq(S), NEW x \in S, NEW q, uso[q] # "danada",
         NEW m \in ResultadosDeAgregar(l, x, q)
  PROVE  Elementos(m) = Elementos(l) \union {x}
  <1>1. m = Append(l, x)
    BY LargoAlAgregar
  <1>2. /\ Len(l) \in Nat /\ DOMAIN l = 1..Len(l) /\ DOMAIN m = 1..(Len(l) + 1)
        /\ m[Len(l) + 1] = x /\ \A k \in 1..Len(l) : m[k] = l[k]
    BY <1>1
  <1>3. \A k \in 1..(Len(l) + 1) : k \in 1..Len(l) \/ k = Len(l) + 1
    BY <1>2
  <1>4. 1..Len(l) \subseteq 1..(Len(l) + 1) /\ Len(l) + 1 \in 1..(Len(l) + 1)
    BY <1>2
  <1> QED BY <1>2, <1>3, <1>4 DEF Elementos

LEMMA ElementosAlQuitar ==
  ASSUME NEW n \in Int, NEW l \in Seq(0..n), l # <<>>, Creciente(l)
  PROVE  /\ Elementos(l) = {Head(l)} \union Elementos(SinPrimero(l))
         /\ Elementos(SinPrimero(l)) = Elementos(l) \ {Head(l)}
         /\ Head(l) \in 0..n
  <1>1. /\ Head(l) \in Elementos(l)
        /\ Elementos(SinPrimero(l)) \subseteq Elementos(l)
        /\ \A p \in Elementos(SinPrimero(l)) : Head(l) < p
        /\ Elementos(l) \subseteq {Head(l)} \union Elementos(SinPrimero(l))
    BY QuitarOrden
  <1>2. Head(l) \in 0..n
    OBVIOUS
  <1>3. Head(l) \notin Elementos(SinPrimero(l))
    BY <1>1, <1>2
  <1> QED BY <1>1, <1>2, <1>3

LEMMA PasoNadieSePierde ==
  Base /\ OrdenDeLlegada /\ NadieSePierde /\ [Next]_vars => NadieSePierde'
  <1> SUFFICES ASSUME Base, OrdenDeLlegada, NadieSePierde, [Next]_vars
               PROVE  NadieSePierde'
    OBVIOUS
  <1>0. /\ procesos_new \in Seq(0..pid-1) /\ procesos_ready \in Seq(0..pid-1)
        /\ pid \in Nat /\ pid - 1 \in Int
        /\ Creciente(procesos_new) /\ Creciente(procesos_ready)
        /\ Tipos /\ AjusteExacto /\ Despacho
    BY DEF Base, Tipos, TypeOK, OrdenDeLlegada
  <1>a. SUFFICES ASSUME SinCarreras'
                 PROVE  (Nuevos \union Listos \union ({proceso_en_ejecucion} \ {Nulo}) = 0..pid-1)'
    BY DEF NadieSePierde
  <1> DEFINE Todos == Nuevos \union Listos \union ({proceso_en_ejecucion} \ {Nulo})
  <1>b. SUFFICES Todos' = 0..pid'-1
    OBVIOUS
  <1>c. ASSUME SinCarreras PROVE Todos = 0..pid-1
    BY <1>c DEF NadieSePierde
  <1>d. ASSUME UNCHANGED <<procesos_new, procesos_ready, tomado, proceso_en_ejecucion, pid, uso>>,
               Creando' = Creando
        PROVE  Todos' = 0..pid'-1
    <2>1. SinCarreras
      BY <1>a, <1>d DEF SinCarreras
    <2>2. Todos' = Todos
      BY <1>d DEF Nuevos, Listos, Elementos
    <2> QED BY <1>c, <1>d, <2>1, <2>2
  <1> HIDE DEF Todos
  <1>1. CASE ConsolaCrea
    <2>1. /\ uso' = EmpezarUso(uso, "new") /\ pid' = pid + 1
          /\ Creando' = {pid} /\ Creando = {}
          /\ UNCHANGED <<procesos_new, procesos_ready, tomado, proceso_en_ejecucion>>
      BY <1>0, <1>1 DEF ConsolaCrea, CrearPcb, Creando
    <2>2. SinCarreras
      BY <1>0, <1>a, <2>1, UsoDeListas DEF SinCarreras
    <2>3. Todos' = Todos \union {pid}
      BY <2>1 DEF Todos, Nuevos, Listos, Elementos
    <2>4. 0..pid'-1 = (0..pid-1) \union {pid}
      BY <1>0, <2>1
    <2> QED BY <1>c, <2>2, <2>3, <2>4
  <1>2. CASE ConsolaAgrega
    <2>1. /\ uso' = TerminarUso(uso, "new")
          /\ procesos_new' \in ResultadosDeAgregar(procesos_new, pid - 1, "new")
          /\ pid - 1 \in 0..pid-1 /\ Creando' = {} /\ Creando = {pid - 1}
          /\ UNCHANGED <<procesos_ready, tomado, proceso_en_ejecucion, pid>>
      BY <1>0, <1>2 DEF ConsolaAgrega, Creando, Tipos, TypeOK, Lugares
    <2>2. SinCarreras
      BY <1>0, <1>a, <2>1, UsoDeListas DEF SinCarreras
    <2>3. Elementos(procesos_new') = Elementos(procesos_new) \union {pid - 1}
      <3> DEFINE S == 0..pid-1
      <3>1. /\ uso["new"] # "danada" /\ procesos_new \in Seq(S) /\ pid - 1 \in S
            /\ procesos_new' \in ResultadosDeAgregar(procesos_new, pid - 1, "new")
        BY <1>0, <2>1, <2>2 DEF SinCarreras
      <3> HIDE DEF S
      <3> QED BY ONLY <3>1, ElementosAlAgregar
    <2>4. Todos' = Todos
      BY <2>1, <2>3 DEF Todos, Nuevos, Listos, Elementos
    <2> QED BY <1>c, <2>1, <2>2, <2>4
  <1>3. CASE LargoQuitar
    <2>1. CASE Caer("lista_vacia")
      BY <1>d, <2>1 DEF Caer, Creando
    <2>2. CASE ~Caer("lista_vacia")
      <3>1. /\ procesos_new # <<>> /\ tomado = Nulo
            /\ procesos_new' = SinPrimero(procesos_new)
            /\ tomado' = Head(procesos_new)
            /\ uso' = EmpezarUso(Interferir(uso, "new"), "ready")
            /\ UNCHANGED <<procesos_ready, proceso_en_ejecucion, pid, consola>>
        BY <1>0, <1>3, <2>2 DEF LargoQuitar, EnLargo, Tipos, Lugares
      <3>2. SinCarreras
        BY <1>0, <1>a, <3>1, UsoDeListas DEF SinCarreras
      <3>3. /\ Elementos(procesos_new) = {tomado'} \union Elementos(procesos_new')
            /\ tomado' # Nulo
        BY <1>0, <3>1, ElementosAlQuitar
      <3>4. Todos' = Todos
        <4> DEFINE N == Elementos(procesos_new)
                   R == Elementos(procesos_ready)
        <4>1. Creando' = Creando
          BY <3>1 DEF Creando
        <4>2. R' = R
          BY <3>1 DEF Elementos
        <4>3. N = {tomado'} \union N'
          BY <3>3
        <4>4. /\ Todos = N \union Creando \union R \union ({tomado} \ {Nulo})
                          \union ({proceso_en_ejecucion} \ {Nulo})
              /\ Todos' = N' \union Creando' \union R' \union ({tomado'} \ {Nulo})
                           \union ({proceso_en_ejecucion'} \ {Nulo})
          BY DEF Todos, Nuevos, Listos, Nulo
        <4> HIDE DEF N, R, Creando
        <4> QED BY <3>1, <3>3, <4>1, <4>2, <4>3, <4>4
      <3> QED BY <1>c, <3>1, <3>2, <3>4
    <2> QED BY <2>1, <2>2
  <1>4. CASE LargoAgregar
    <2>1. CASE Caer("lista_danada")
      BY <1>d, <2>1 DEF Caer, Creando
    <2>2. CASE ~Caer("lista_danada")
      <3>1. /\ procesos_ready' \in ResultadosDeAgregar(procesos_ready, tomado, "ready")
            /\ tomado # Nulo /\ tomado' = Nulo /\ tomado \in 0..pid-1
            /\ uso' = TerminarUso(uso, "ready")
            /\ UNCHANGED <<procesos_new, proceso_en_ejecucion, pid, consola>>
        BY <1>0, <1>4, <2>2 DEF LargoAgregar, EnLargo, Tipos, TypeOK, Lugares
      <3>2. SinCarreras
        BY <1>0, <1>a, <3>1, UsoDeListas DEF SinCarreras
      <3>3. Elementos(procesos_ready') = Elementos(procesos_ready) \union {tomado}
        <4> DEFINE S == 0..pid-1
        <4>1. /\ uso["ready"] # "danada" /\ procesos_ready \in Seq(S) /\ tomado \in S
              /\ procesos_ready' \in ResultadosDeAgregar(procesos_ready, tomado, "ready")
          BY <1>0, <3>1, <3>2 DEF SinCarreras
        <4> HIDE DEF S
        <4> QED BY ONLY <4>1, ElementosAlAgregar
      <3>4. Todos' = Todos
        BY <3>1, <3>3 DEF Todos, Nuevos, Listos, Creando, Elementos
      <3> QED BY <1>c, <3>1, <3>2, <3>4
    <2> QED BY <2>1, <2>2
  <1>5. CASE FifoQuitar
    <2>1. CASE Caer("lista_vacia")
      BY <1>d, <2>1 DEF Caer, Creando
    <2>2. CASE ~Caer("lista_vacia")
      <3>1. /\ procesos_ready # <<>> /\ proceso_en_ejecucion = Nulo
            /\ procesos_ready' = SinPrimero(procesos_ready)
            /\ proceso_en_ejecucion' = Head(procesos_ready)
            /\ uso' = Interferir(uso, "ready")
            /\ UNCHANGED <<procesos_new, tomado, pid, consola>>
        BY <1>0, <1>5, <2>2 DEF FifoQuitar, EnFifo, Despacho
      <3>2. SinCarreras
        BY <1>0, <1>a, <3>1, UsoDeListas DEF SinCarreras
      <3>3. /\ Elementos(procesos_ready) = {proceso_en_ejecucion'} \union Elementos(procesos_ready')
            /\ proceso_en_ejecucion' # Nulo
        BY <1>0, <3>1, ElementosAlQuitar
      <3>4. Todos' = Todos
        <4> DEFINE N == Elementos(procesos_new)
                   R == Elementos(procesos_ready)
        <4>1. Creando' = Creando
          BY <3>1 DEF Creando
        <4>2. N' = N
          BY <3>1 DEF Elementos
        <4>3. R = {proceso_en_ejecucion'} \union R'
          BY <3>3
        <4>4. /\ Todos = N \union Creando \union R \union ({tomado} \ {Nulo})
                          \union ({proceso_en_ejecucion} \ {Nulo})
              /\ Todos' = N' \union Creando' \union R' \union ({tomado'} \ {Nulo})
                           \union ({proceso_en_ejecucion'} \ {Nulo})
          BY DEF Todos, Nuevos, Listos, Nulo
        <4> HIDE DEF N, R, Creando
        <4> QED BY <3>1, <3>3, <4>1, <4>2, <4>3, <4>4
      <3> QED BY <1>c, <3>1, <3>2, <3>4
    <2> QED BY <2>1, <2>2
  <1>6. CASE ConsolaAjusta \/ ConsolaQuieta
    BY <1>6, <1>d DEF ConsolaAjusta, ConsolaQuieta, Creando
  <1>7. CASE LargoEsperarNuevo \/ LargoEsperarGrado
    BY <1>7, <1>d DEF LargoEsperarNuevo, LargoEsperarGrado, Creando
  <1>8. CASE CortoPlazo
    BY <1>8, <1>d DEF CortoPlazo, CortoEsperarPrimero, CortoDespertar, CortoConsumir, Creando
  <1>9. CASE FifoEsperar \/ FifoEnviarLargo \/ FifoEnviarPath \/ FifoEnviarPcb
    BY <1>9, <1>d DEF FifoEsperar, FifoEnviarLargo, FifoEnviarPath, FifoEnviarPcb,
       EnviarPath, Caer, Creando
  <1>10. CASE UNCHANGED vars
    BY <1>10, <1>d DEF vars, Creando
  <1> QED BY <1>0, <1>1, <1>2, <1>3, <1>4, <1>5, <1>6, <1>7, <1>8, <1>9, <1>10,
             ConsolaCasos
          DEF Next, LargoPlazo, FIFO

(* Without a race every process ever created is in a list, in a thread's   *)
(* hands or in EXEC, and nowhere else.                                     *)
THEOREM NadieSePierdeCorrecto == Spec => []NadieSePierde
  <1>1. Init => NadieSePierde
    BY DEF Init, NadieSePierde, Nuevos, Listos, Creando, Elementos
  <1> QED BY <1>1, PasoNadieSePierde, BaseSiempre, OrdenDeLlegadaCorrecto, PTL DEF Spec
-----------------------------------------------------------------------------
(* PROCESO_ESTADO between its test and its list_get: the index is still in *)
(* the list unless a scheduler has taken a process out of it.              *)
Caminata ==
  /\ uso["ready"] = "danada" => proceso_en_ejecucion # Nulo
  /\ uso["new"] = "danada" => admitidos > 0
  /\ largo = "quitar" => admitidos > 0
  /\ consola = "obtener_ready" => i < Len(procesos_ready) \/ proceso_en_ejecucion # Nulo
  /\ consola = "obtener_new" => i < Len(procesos_new) \/ admitidos > 0
  /\ CaidaDeEstado

(* Every command but PROCESO_ESTADO leaves the walk alone. *)
LEMMA ConsolaCaminata ==
  ASSUME Base, Caminata, Operador \/ Consola
  PROVE  Caminata'
  <1> USE DEF EnConsola, Vivo, CaidaDeEstado
  <1>0. /\ Tipos /\ AjusteExacto /\ Despacho
        /\ procesos_new \in Seq(0..pid-1) /\ procesos_ready \in Seq(0..pid-1)
        /\ Len(procesos_new) \in Nat /\ Len(procesos_ready) \in Nat /\ i \in Nat
    BY DEF Base, Tipos, TypeOK
  <1>1. ASSUME NEW motivo \in {"linea_vacia", "lista_danada"}, Caer(motivo), Vivo
        PROVE  Caminata'
    BY <1>1 DEF Caer, Caminata
  <1>2. ASSUME uso' = EmpezarUso(uso, "new") \/ uso' = TerminarUso(uso, "new") \/ uso' = uso,
               consola' \in {"agregar", "leer", "guion", "ver_ready", "ajustar", "fin"},
               UNCHANGED <<procesos_ready, deLargo, deFifo, falla>>
        PROVE  Caminata'
    <2>1. \A q \in Colas : uso'[q] = "danada" <=> uso[q] = "danada"
      BY <1>0, <1>2, UsoDeListas
    <2> QED BY <1>2, <2>1 DEF Caminata
  <1>3. ASSUME NEW r \in Rutas, LeerIniciarProceso(r) \/ LeerEjecutarScript(r)
        PROVE  Caminata'
    BY <1>2, <1>3 DEF LeerIniciarProceso, LeerEjecutarScript, CrearPcb
  <1>4. CASE RenglonIniciar
    BY <1>2, <1>4 DEF RenglonIniciar, CrearPcb
  <1>5. CASE TerminarIniciar
    <2>1. CASE Caer("lista_danada")
      BY <1>1, <1>5, <2>1 DEF TerminarIniciar
    <2>2. CASE ~Caer("lista_danada")
      BY <1>2, <1>5, <2>2 DEF TerminarIniciar
    <2> QED BY <2>1, <2>2
  <1>6. CASE RenglonVacio \/ LeerVacia
    BY <1>1, <1>6 DEF RenglonVacio, LeerVacia
  <1>7. CASE RenglonOtro \/ TerminarScript \/ LeerOtra \/ LeerProcesoEstado
    BY <1>2, <1>7 DEF RenglonOtro, TerminarScript, LeerOtra, LeerProcesoEstado
  <1>8. ASSUME NEW v \in Grados, LeerMultiprogramacion(v) PROVE Caminata'
    BY <1>2, <1>8 DEF LeerMultiprogramacion
  <1>9. CASE AjustarPost \/ AjustarWait \/ TerminarAjuste
    BY <1>2, <1>9 DEF AjustarPost, AjustarWait, TerminarAjuste
  <1>10. CASE ImprimirReady
    <2>1. CASE VerCola("ready", procesos_ready, "ver_ready", "obtener_ready", "ver_new")
      BY <1>0, <2>1 DEF VerCola, Caminata
    <2>2. CASE ObtenerDeCola(procesos_ready, "ver_ready", "obtener_ready")
      <3>1. CASE i >= Len(procesos_ready) /\ Caer("lista_encogida")
        BY <1>0, <2>2, <3>1 DEF ObtenerDeCola, Caer, Caminata
      <3>2. CASE ~(i >= Len(procesos_ready) /\ Caer("lista_encogida"))
        BY <1>0, <2>2, <3>2 DEF ObtenerDeCola, Caminata
      <3> QED BY <3>1, <3>2
    <2> QED BY <1>10, <2>1, <2>2 DEF ImprimirReady
  <1>11. CASE ImprimirNew
    <2>1. CASE VerCola("new", procesos_new, "ver_new", "obtener_new", "ver_exec")
      BY <1>0, <2>1 DEF VerCola, Caminata
    <2>2. CASE ObtenerDeCola(procesos_new, "ver_new", "obtener_new")
      <3>1. CASE i >= Len(procesos_new) /\ Caer("lista_encogida")
        BY <1>0, <2>2, <3>1 DEF ObtenerDeCola, Caer, Caminata
      <3>2. CASE ~(i >= Len(procesos_new) /\ Caer("lista_encogida"))
        BY <1>0, <2>2, <3>2 DEF ObtenerDeCola, Caminata
      <3> QED BY <3>1, <3>2
    <2> QED BY <1>11, <2>1, <2>2 DEF ImprimirNew
  <1>12. CASE ImprimirExec
    <2>1. CASE proceso_en_ejecucion = Nulo /\ Caer("sin_ejecucion")
      <3>1. Len(conexion_memoria) = 0 /\ conexion_memoria \in Seq({"len", "str"} \X (Rutas \union {Basura}))
        BY <1>0, <2>1 DEF Despacho, Tipos, TypeOK
      <3>2. conexion_memoria = <<>>
        BY <3>1
      <3> QED BY <1>12, <2>1, <3>2 DEF ImprimirExec, Caer, Caminata
    <2>2. CASE ~(proceso_en_ejecucion = Nulo /\ Caer("sin_ejecucion"))
      BY <1>2, <1>12, <2>2 DEF ImprimirExec
    <2> QED BY <2>1, <2>2
  <1> QED BY <1>3, <1>4, <1>5, <1>6, <1>7, <1>8, <1>9, <1>10, <1>11, <1>12
          DEF Operador, Consola

LEMMA PasoCaminata == Base /\ Caminata /\ [Next]_vars => Caminata'
  <1> SUFFICES ASSUME Base, Caminata, [Next]_vars PROVE Caminata'
    OBVIOUS
  <1> USE DEF CaidaDeEstado, Vivo
  <1>0. /\ Tipos /\ AjusteExacto /\ Despacho
        /\ procesos_new \in Seq(0..pid-1) /\ procesos_ready \in Seq(0..pid-1)
        /\ Len(procesos_new) \in Nat /\ Len(procesos_ready) \in Nat /\ i \in Nat
        /\ admitidos \in Nat
    BY DEF Base, Tipos, TypeOK
  <1>1. CASE LargoEsperarNuevo
    BY <1>1 DEF LargoEsperarNuevo, Caminata
  <1>2. CASE LargoEsperarGrado
    BY <1>0, <1>2 DEF LargoEsperarGrado, EnLargo, Caminata
  <1>3. CASE LargoQuitar
    <2>1. CASE Caer("lista_vacia")
      BY <2>1 DEF Caer, Caminata
    <2>2. CASE ~Caer("lista_vacia")
      <3>1. /\ uso' = EmpezarUso(Interferir(uso, "new"), "ready") /\ admitidos > 0
            /\ largo' = "agregar"
            /\ UNCHANGED <<semaforos, procesos_ready, deConsola, admitidos, deFifo, falla>>
        BY <1>3, <2>2 DEF LargoQuitar, EnLargo, Caminata
      <3>2. uso'["ready"] = "danada" <=> uso["ready"] = "danada"
        BY <1>0, <3>1, UsoDeListas
      <3> QED BY <3>1, <3>2 DEF Caminata
    <2> QED BY <2>1, <2>2
  <1>4. CASE LargoAgregar
    <2>1. CASE Caer("lista_danada")
      BY <2>1 DEF Caer, Caminata
    <2>2. CASE ~Caer("lista_danada")
      <3>1. /\ procesos_ready' \in ResultadosDeAgregar(procesos_ready, tomado, "ready")
            /\ uso' = TerminarUso(uso, "ready") /\ tomado \in 0..pid-1
            /\ largo' = "nuevo"
            /\ UNCHANGED <<procesos_new, deConsola, admitidos, deFifo, falla>>
        BY <1>0, <1>4, <2>2 DEF LargoAgregar, EnLargo, Tipos, TypeOK, Lugares
      <3>2. \A q \in Colas : uso'[q] = "danada" <=> uso[q] = "danada"
        BY <1>0, <3>1, UsoDeListas
      <3>3. uso["ready"] # "danada" => Len(procesos_ready') = Len(procesos_ready) + 1
        BY <1>0, <3>1, LargoAlAgregar
      <3> QED BY <1>0, <3>1, <3>2, <3>3 DEF Caminata
    <2> QED BY <2>1, <2>2
  <1>5. CASE CortoPlazo
    BY <1>5 DEF CortoPlazo, CortoEsperarPrimero, CortoDespertar, CortoConsumir, Caminata
  <1>6. CASE FifoEsperar
    BY <1>6 DEF FifoEsperar, Caminata
  <1>7. CASE FifoQuitar
    <2>1. CASE Caer("lista_vacia")
      BY <2>1 DEF Caer, Caminata
    <2>2. CASE ~Caer("lista_vacia")
      <3>1. /\ uso' = Interferir(uso, "ready") /\ proceso_en_ejecucion' = Head(procesos_ready)
            /\ procesos_ready # <<>> /\ falla = "ninguna"
            /\ UNCHANGED <<procesos_new, deConsola, deLargo, falla>>
        BY <1>7, <2>2 DEF FifoQuitar, EnFifo
      <3>2. uso'["new"] = "danada" <=> uso["new"] = "danada"
        BY <1>0, <3>1, UsoDeListas
      <3>3. proceso_en_ejecucion' # Nulo
        <4> DEFINE S == 0..pid-1
        <4>1. procesos_ready \in Seq(S) /\ procesos_ready # <<>>
          BY <1>0, <3>1
        <4> HIDE DEF S
        <4>2. Head(procesos_ready) \in S
          BY ONLY <4>1, QuitarTipo
        <4> QED BY <3>1, <4>2 DEF S
      <3> QED BY <3>1, <3>2, <3>3 DEF Caminata
    <2> QED BY <2>1, <2>2
  <1>8. CASE FifoEnviarLargo \/ FifoEnviarPath
    BY <1>8 DEF FifoEnviarLargo, FifoEnviarPath, EnFifo, EnviarPath, Caminata
  <1>9. CASE FifoEnviarPcb
    BY <1>9 DEF FifoEnviarPcb, Caer, Caminata
  <1>10. CASE UNCHANGED vars
    BY <1>10 DEF vars, Caminata
  <1> QED BY <1>1, <1>2, <1>3, <1>4, <1>5, <1>6, <1>7, <1>8, <1>9, <1>10, ConsolaCaminata
          DEF Next, LargoPlazo, FIFO

(* PROCESO_ESTADO kills the kernel only in a list a scheduler has          *)
(* shortened, or before the one dispatch.                                  *)
THEOREM CaidaDeEstadoCorrecta == Spec => []CaidaDeEstado
  <1>1. Init => Caminata
    BY DEF Init, Caminata, CaidaDeEstado
  <1>2. Caminata => CaidaDeEstado
    BY DEF Caminata
  <1> QED BY <1>1, <1>2, PasoCaminata, BaseSiempre, PTL DEF Spec
-----------------------------------------------------------------------------
(* The refinement of Planificacion.  Each thread's step that moves a       *)
(* process is one step of the life cycle; list_add on a damaged list may   *)
(* lose processes, and nothing else is visible.                            *)
Danadas == {q \in Colas : uso[q] = "danada"}

LEMMA PasoInvisible ==
  ASSUME UNCHANGED <<pid, procesos_new, procesos_ready, tomado, proceso_en_ejecucion, uso>>,
         Creando' = Creando
  PROVE  UNCHANGED Abstracta!avars
  BY DEF Abstracta!avars, Nuevos, Listos, Elementos

LEMMA PasoPlanificacion ==
  Base /\ OrdenDeLlegada /\ [Next]_vars => [Abstracta!Next]_(Abstracta!avars)
  <1> SUFFICES ASSUME Base, OrdenDeLlegada, [Next]_vars
               PROVE  Abstracta!Next \/ UNCHANGED Abstracta!avars
    OBVIOUS
  <1>0. /\ procesos_new \in Seq(0..pid-1) /\ procesos_ready \in Seq(0..pid-1)
        /\ pid \in Nat /\ pid - 1 \in Int
        /\ Creciente(procesos_new) /\ Creciente(procesos_ready)
        /\ Tipos /\ AjusteExacto /\ Despacho
    BY DEF Base, Tipos, TypeOK, OrdenDeLlegada
  <1>1. CASE ConsolaCrea
    <2>1. /\ uso' = EmpezarUso(uso, "new") /\ pid' = pid + 1
          /\ Creando' = {pid} /\ Creando = {}
          /\ UNCHANGED <<procesos_new, procesos_ready, tomado, proceso_en_ejecucion>>
      BY <1>0, <1>1 DEF ConsolaCrea, CrearPcb, Creando
    <2>2. Danadas' = Danadas
      BY <1>0, <2>1, UsoDeListas DEF Danadas
    <2>3. Nuevos' = Nuevos \union {pid} /\ Listos' = Listos
      BY <2>1 DEF Nuevos, Listos, Elementos
    <2>4. Abstracta!Crear
      BY <2>1, <2>2, <2>3 DEF Abstracta!Crear, Danadas
    <2> QED BY <2>4 DEF Abstracta!Next
  <1>2. CASE ConsolaAgrega
    <2>1. /\ uso' = TerminarUso(uso, "new")
          /\ procesos_new' \in ResultadosDeAgregar(procesos_new, pid - 1, "new")
          /\ pid - 1 \in 0..pid-1 /\ Creando' = {} /\ Creando = {pid - 1}
          /\ UNCHANGED <<procesos_ready, tomado, proceso_en_ejecucion, pid>>
      BY <1>0, <1>2 DEF ConsolaAgrega, Creando, Tipos, TypeOK, Lugares
    <2>2. Danadas' = Danadas /\ Listos' = Listos
      BY <1>0, <2>1, UsoDeListas DEF Danadas, Listos, Elementos
    <2>3. CASE uso["new"] = "danada"
      <3>1. \A p \in Elementos(procesos_new) : p < pid - 1
        BY <2>1 DEF OrdenDeLlegada
      <3>2. Elementos(procesos_new') \subseteq Elementos(procesos_new) \union {pid - 1}
        BY <1>0, <2>1, <3>1, AgregarOrden
      <3>3. Nuevos' \subseteq Nuevos
        BY <2>1, <3>2 DEF Nuevos
      <3>4. Abstracta!Perder
        BY <2>1, <2>2, <2>3, <3>3 DEF Abstracta!Perder, Danadas
      <3> QED BY <3>4 DEF Abstracta!Next
    <2>4. CASE uso["new"] # "danada"
      <3> DEFINE S == 0..pid-1
      <3>1. /\ procesos_new \in Seq(S) /\ pid - 1 \in S
            /\ procesos_new' \in ResultadosDeAgregar(procesos_new, pid - 1, "new")
        BY <1>0, <2>1
      <3> HIDE DEF S
      <3>2. Elementos(procesos_new') = Elementos(procesos_new) \union {pid - 1}
        BY ONLY <2>4, <3>1, ElementosAlAgregar
      <3>3. Nuevos' = Nuevos
        BY <2>1, <3>2 DEF Nuevos
      <3> QED BY <2>1, <2>2, <3>3 DEF Abstracta!avars, Danadas
    <2> QED BY <2>3, <2>4
  <1>3. CASE LargoQuitar
    <2>1. CASE Caer("lista_vacia")
      BY <2>1, PasoInvisible DEF Caer, Creando
    <2>2. CASE ~Caer("lista_vacia")
      <3>1. /\ procesos_new # <<>> /\ tomado = Nulo
            /\ procesos_new' = SinPrimero(procesos_new)
            /\ tomado' = Head(procesos_new)
            /\ uso' = EmpezarUso(Interferir(uso, "new"), "ready")
            /\ UNCHANGED <<procesos_ready, proceso_en_ejecucion, pid, consola>>
        BY <1>0, <1>3, <2>2 DEF LargoQuitar, EnLargo, Tipos, Lugares
      <3>2. /\ Elementos(procesos_new') = Elementos(procesos_new) \ {tomado'}
            /\ tomado' \in Elementos(procesos_new) /\ tomado' \in 0..pid-1
            /\ \A p \in Elementos(procesos_new') : tomado' < p
            /\ Elementos(procesos_new) = {tomado'} \union Elementos(procesos_new')
        BY <1>0, <3>1, ElementosAlQuitar, QuitarOrden
      <3>3. \A p \in Creando : tomado' < p /\ p \in Int
        BY <1>0, <3>2 DEF OrdenDeLlegada, Creando
      <3>4. Nuevos' = Nuevos \ {tomado'} /\ Listos' = Listos \union {tomado'}
        BY <3>1, <3>2, <3>3 DEF Nuevos, Listos, Creando, Elementos
      <3>5. tomado' \in Nuevos /\ \A p \in Nuevos : tomado' <= p
        BY <1>0, <3>2, <3>3, RangosDeListas DEF Nuevos
      <3>6. Danadas' \in {Danadas, Danadas \union {"new"}}
        <4>1. uso'["ready"] = "danada" <=> uso["ready"] = "danada"
          BY <1>0, <3>1, UsoDeListas
        <4>2. uso["new"] = "danada" => uso'["new"] = "danada"
          BY <1>0, <3>1, UsoDeListas
        <4> QED BY <4>1, <4>2 DEF Danadas
      <3>7. Abstracta!Admitir
        BY <3>1, <3>4, <3>5, <3>6 DEF Abstracta!Admitir, Abstracta!Primero, Danadas
      <3> QED BY <3>7 DEF Abstracta!Next
    <2> QED BY <2>1, <2>2
  <1>4. CASE LargoAgregar
    <2>1. CASE Caer("lista_danada")
      BY <2>1, PasoInvisible DEF Caer, Creando
    <2>2. CASE ~Caer("lista_danada")
      <3>1. /\ procesos_ready' \in ResultadosDeAgregar(procesos_ready, tomado, "ready")
            /\ tomado # Nulo /\ tomado' = Nulo /\ tomado \in 0..pid-1
            /\ uso' = TerminarUso(uso, "ready")
            /\ UNCHANGED <<procesos_new, proceso_en_ejecucion, pid, consola>>
        BY <1>0, <1>4, <2>2 DEF LargoAgregar, EnLargo, Tipos, TypeOK, Lugares
      <3>2. Danadas' = Danadas /\ Nuevos' = Nuevos
        BY <1>0, <3>1, UsoDeListas DEF Danadas, Nuevos, Creando, Elementos
      <3>3. CASE uso["ready"] = "danada"
        <4>1. \A p \in Elementos(procesos_ready) : p < tomado
          BY <3>1 DEF OrdenDeLlegada
        <4>2. Elementos(procesos_ready') \subseteq Elementos(procesos_ready) \union {tomado}
          BY <1>0, <3>1, <4>1, AgregarOrden
        <4>3. Listos' \subseteq Listos
          BY <3>1, <4>2 DEF Listos
        <4>4. Abstracta!Perder
          BY <3>1, <3>2, <3>3, <4>3 DEF Abstracta!Perder, Danadas
        <4> QED BY <4>4 DEF Abstracta!Next
      <3>4. CASE uso["ready"] # "danada"
        <4> DEFINE S == 0..pid-1
        <4>1. /\ procesos_ready \in Seq(S) /\ tomado \in S
              /\ procesos_ready' \in ResultadosDeAgregar(procesos_ready, tomado, "ready")
          BY <1>0, <3>1
        <4> HIDE DEF S
        <4>2. Elementos(procesos_ready') = Elementos(procesos_ready) \union {tomado}
          BY ONLY <3>4, <4>1, ElementosAlAgregar
        <4>3. Listos' = Listos
          BY <3>1, <4>2 DEF Listos
        <4> QED BY <3>1, <3>2, <4>3 DEF Abstracta!avars, Danadas
      <3> QED BY <3>3, <3>4
    <2> QED BY <2>1, <2>2
  <1>5. CASE FifoQuitar
    <2>1. CASE Caer("lista_vacia")
      BY <2>1, PasoInvisible DEF Caer, Creando
    <2>2. CASE ~Caer("lista_vacia")
      <3>1. /\ procesos_ready # <<>> /\ proceso_en_ejecucion = Nulo
            /\ procesos_ready' = SinPrimero(procesos_ready)
            /\ proceso_en_ejecucion' = Head(procesos_ready)
            /\ uso' = Interferir(uso, "ready")
            /\ UNCHANGED <<procesos_new, tomado, pid, consola>>
        BY <1>0, <1>5, <2>2 DEF FifoQuitar, EnFifo, Despacho
      <3>2. /\ Elementos(procesos_ready') = Elementos(procesos_ready) \ {proceso_en_ejecucion'}
            /\ proceso_en_ejecucion' \in Elementos(procesos_ready)
            /\ proceso_en_ejecucion' \in 0..pid-1
            /\ \A p \in Elementos(procesos_ready') : proceso_en_ejecucion' < p
            /\ Elementos(procesos_ready) =
                 {proceso_en_ejecucion'} \union Elementos(procesos_ready')
        BY <1>0, <3>1, ElementosAlQuitar, QuitarOrden
      <3>3. tomado # Nulo => proceso_en_ejecucion' < tomado /\ tomado \in Int
        BY <1>0, <3>2 DEF OrdenDeLlegada, Tipos, TypeOK
      <3>4. Listos' = Listos \ {proceso_en_ejecucion'} /\ Nuevos' = Nuevos
        BY <3>1, <3>2, <3>3 DEF Nuevos, Listos, Creando, Elementos
      <3>5. /\ proceso_en_ejecucion' \in Listos
            /\ \A p \in Listos : proceso_en_ejecucion' <= p
        BY <1>0, <3>2, <3>3, RangosDeListas DEF Listos
      <3>6. Danadas' \in {Danadas, Danadas \union {"ready"}}
        <4>1. uso'["new"] = "danada" <=> uso["new"] = "danada"
          BY <1>0, <3>1, UsoDeListas
        <4>2. uso["ready"] = "danada" => uso'["ready"] = "danada"
          BY <1>0, <3>1, UsoDeListas
        <4> QED BY <4>1, <4>2 DEF Danadas
      <3>7. Abstracta!Despachar
        BY <3>1, <3>4, <3>5, <3>6
           DEF Abstracta!Despachar, Abstracta!Primero, Abstracta!Nadie, Danadas
      <3> QED BY <3>7 DEF Abstracta!Next
    <2> QED BY <2>1, <2>2
  <1>6. CASE ConsolaAjusta \/ ConsolaQuieta
    BY <1>6, PasoInvisible DEF ConsolaAjusta, ConsolaQuieta, Creando
  <1>7. CASE LargoEsperarNuevo \/ LargoEsperarGrado
    BY <1>7, PasoInvisible DEF LargoEsperarNuevo, LargoEsperarGrado, Creando
  <1>8. CASE CortoPlazo
    BY <1>8, PasoInvisible DEF CortoPlazo, CortoEsperarPrimero, CortoDespertar,
       CortoConsumir, Creando
  <1>9. CASE FifoEsperar \/ FifoEnviarLargo \/ FifoEnviarPath \/ FifoEnviarPcb
    BY <1>9, PasoInvisible DEF FifoEsperar, FifoEnviarLargo, FifoEnviarPath,
       FifoEnviarPcb, EnviarPath, Caer, Creando
  <1>10. CASE UNCHANGED vars
    BY <1>10, PasoInvisible DEF vars, Creando
  <1> QED BY <1>0, <1>1, <1>2, <1>3, <1>4, <1>5, <1>6, <1>7, <1>8, <1>9, <1>10,
             ConsolaCasos
          DEF Next, LargoPlazo, FIFO

(* The threads, semaphores and unlocked lists of the kernel implement the  *)
(* life cycle of processes that Planificacion states.                      *)
THEOREM Refinamiento == Spec => CumplePlanificacion
  <1>1. Init => Abstracta!Init
    BY DEF Init, Abstracta!Init, Abstracta!Nadie, Nuevos, Listos, Creando, Elementos
  <1> QED BY <1>1, PasoPlanificacion, BaseSiempre, OrdenDeLlegadaCorrecto, PTL
          DEF Spec, CumplePlanificacion, Abstracta!Spec
=============================================================================
