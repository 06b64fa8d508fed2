---------------------------- MODULE KernelProofs ----------------------------
(***************************************************************************)
(* Proofs about the kernel's scheduler, for any number of processes, any   *)
(* script and any degree of multiprogramming.                              *)
(***************************************************************************)
EXTENDS Kernel, SequenceTheorems, TLAPS

USE DEF Nulo, Buffers, Colas, semaforos, colas, procesos, pedido, deConsola,
        deLargo, deFifo, salidas

(* What the place of a thread says of the data it works on; with it TypeOK *)
(* is inductive.                                                           *)
Lugares ==
  /\ consola = "agregar" => pid > 0
  /\ largo = "agregar" <=> tomado # Nulo
  /\ fifo \in {"largo_path", "path", "pcb"} => proceso_en_ejecucion # Nulo
  /\ consola # "ajustar" => ajuste = 0

Tipos == TypeOK /\ Lugares

(* Every element list_add can leave in a list was in it or is the new one. *)
LEMMA AgregarTipo ==
  ASSUME NEW S, NEW l \in Seq(S), NEW x \in S, NEW q,
         NEW m \in ResultadosDeAgregar(l, x, q)
  PROVE  m \in Seq(S)
  <1>1. CASE m = Encolar(l, x)
    BY <1>1 DEF Encolar
  <1>2. CASE m = l
    BY <1>2
  <1>3. ASSUME NEW k \in 0..Len(l), m = Encolar(SubSeq(l, 1, k), x)
        PROVE  m \in Seq(S)
    <2>1. SubSeq(l, 1, k) \in Seq(S)
      BY <1>3
    <2> QED BY <1>3, <2>1 DEF Encolar
  <1> QED BY <1>1, <1>2, <1>3 DEF ResultadosDeAgregar

(* A process that dies leaves every datum as it was. *)
LEMMA CaerTipos ==
  ASSUME Tipos, NEW motivo, Caer(motivo),
         motivo \in {"linea_vacia", "lista_vacia", "lista_danada",
                "lista_encogida", "sin_ejecucion", "pcb_liberado"}
  PROVE  Tipos'
  BY DEF Tipos, TypeOK, Lugares, Caer

LEMMA InitTipos == Init => Tipos
  BY ConstantesOK DEF Init, Tipos, TypeOK, Lugares

LEMMA UsoTipo ==
  ASSUME NEW u \in [Colas -> {"libre", "agregando", "danada"}], NEW q \in Colas
  PROVE  /\ EmpezarUso(u, q)  \in [Colas -> {"libre", "agregando", "danada"}]
         /\ TerminarUso(u, q) \in [Colas -> {"libre", "agregando", "danada"}]
         /\ Interferir(u, q)  \in [Colas -> {"libre", "agregando", "danada"}]
  BY DEF EmpezarUso, TerminarUso, Interferir

LEMMA QuitarTipo ==
  ASSUME NEW S, NEW l \in Seq(S), l # <<>>
  PROVE  Head(l) \in S /\ SinPrimero(l) \in Seq(S)
  BY DEF SinPrimero
LEMMA ConsolaTipos == ASSUME Tipos, Operador \/ Consola PROVE Tipos'
  <1> USE ConstantesOK DEF Tipos, TypeOK, Lugares, EnConsola
  <1>1. ASSUME NEW r \in Rutas, LeerIniciarProceso(r) PROVE Tipos'
    BY <1>1 DEF LeerIniciarProceso, CrearPcb, EmpezarUso
  <1>2. CASE TerminarIniciar
    <2>1. CASE Caer("lista_danada")
      BY <2>1, CaerTipos
    <2>2. CASE ~Caer("lista_danada")
      <3>1. procesos_new' \in Seq(0..pid-1)
        BY <1>2, <2>2, AgregarTipo, pid - 1 \in 0..pid-1 DEF TerminarIniciar
      <3>2. uso' \in [Colas -> {"libre", "agregando", "danada"}]
        <4>1. uso' = TerminarUso(uso, "new")
          BY <1>2, <2>2 DEF TerminarIniciar
        <4> QED BY <4>1, UsoTipo
      <3>3. cantidad_procesos_new' = cantidad_procesos_new + 1
        BY <1>2, <2>2 DEF TerminarIniciar
      <3>4. cantidad_procesos_new' \in Nat
        BY <3>3
      <3>5. /\ consola = "agregar" /\ consola' \in {"leer", "guion"}
            /\ UNCHANGED <<semaforo_multiprogramacion, cantidad_procesos_ready,
                 proceso_ejecutando, procesos_ready, procesos, linea, i, renglon,
                 ajuste, pedido, deLargo, corto, deFifo, falla>>
        BY <1>2, <2>2 DEF TerminarIniciar
      <3> QED BY <3>1, <3>2, <3>4, <3>5
    <2> QED BY <2>1, <2>2
  <1>3. ASSUME NEW r \in Rutas, LeerEjecutarScript(r) PROVE Tipos'
    BY <1>3 DEF LeerEjecutarScript
  <1>4. CASE RenglonIniciar
    BY <1>4 DEF RenglonIniciar, CrearPcb, EmpezarUso
  <1>5. CASE RenglonOtro
    BY <1>5 DEF RenglonOtro
  <1>6. CASE RenglonVacio \/ LeerVacia
    BY <1>6, CaerTipos DEF RenglonVacio, LeerVacia
  <1>7a. CASE TerminarScript
    BY <1>7a DEF TerminarScript
  <1>7b. CASE LeerOtra
    BY <1>7b DEF LeerOtra
  <1>7c. CASE LeerProcesoEstado
    BY <1>7c DEF LeerProcesoEstado
  <1>8. ASSUME NEW v \in Grados, LeerMultiprogramacion(v) PROVE Tipos'
    BY <1>8 DEF LeerMultiprogramacion, Diferencia
  <1>9a. CASE AjustarPost
    BY <1>9a DEF AjustarPost
  <1>9b. CASE AjustarWait
    BY <1>9b DEF AjustarWait
  <1>9c. CASE TerminarAjuste
    BY <1>9c DEF TerminarAjuste
  <1>10. CASE ImprimirReady \/ ImprimirNew
    <2>1. ASSUME NEW q, NEW l, NEW ver \in {"ver_ready", "ver_new"},
                 NEW o \in {"obtener_ready", "obtener_new"},
                 NEW luego \in {"ver_new", "ver_exec"}, VerCola(q, l, ver, o, luego)
          PROVE  Tipos'
      BY <2>1 DEF VerCola
    <2>2. ASSUME NEW l, NEW ver \in {"ver_ready", "ver_new"},
                 NEW o \in {"obtener_ready", "obtener_new"}, ObtenerDeCola(l, ver, o)
          PROVE  Tipos'
      <3>1. CASE Caer("lista_encogida")
        BY <3>1, CaerTipos
      <3>2. CASE ~Caer("lista_encogida")
        <4>1. i' = i + 1
          BY <2>2, <3>2 DEF ObtenerDeCola
        <4>2. i' \in Nat
          BY <4>1
        <4>3. /\ consola # "ajustar" /\ consola' \in {"ver_ready", "ver_new"}
              /\ UNCHANGED <<semaforos, colas, procesos, linea, renglon, ajuste,
                   pedido, deLargo, corto, deFifo, falla>>
          BY <2>2, <3>2 DEF ObtenerDeCola
        <4> QED BY <4>2, <4>3
      <3> QED BY <3>1, <3>2
    <2> QED BY <1>10, <2>1, <2>2 DEF ImprimirReady, ImprimirNew
  <1>11. CASE ImprimirExec
    <2>1. CASE Caer("sin_ejecucion")
      BY <2>1, CaerTipos
    <2>2. CASE ~Caer("sin_ejecucion")
      <3>1. /\ consola = "ver_exec" /\ consola' = "leer"
            /\ UNCHANGED <<semaforos, colas, procesos, linea, i, renglon, ajuste,
                 pedido, deLargo, corto, deFifo, falla>>
        BY <1>11, <2>2 DEF ImprimirExec
      <3> QED BY <3>1
    <2> QED BY <2>1, <2>2
  <1> QED BY <1>1, <1>2, <1>3, <1>4, <1>5, <1>6, <1>7a, <1>7b, <1>7c,
         <1>8, <1>9a, <1>9b, <1>9c, <1>10, <1>11
          DEF Operador, Consola

LEMMA LargoTipos == ASSUME Tipos, LargoPlazo PROVE Tipos'
  <1> USE DEF Tipos, TypeOK, Lugares, EnLargo
  <1>1a. CASE LargoEsperarNuevo
    BY <1>1a DEF LargoEsperarNuevo
  <1>1b. CASE LargoEsperarGrado
    BY <1>1b DEF LargoEsperarGrado
  <1>2. CASE LargoQuitar
    <2>1. CASE Caer("lista_vacia")
      BY <2>1, CaerTipos
    <2>2. CASE ~Caer("lista_vacia")
      <3>1. /\ Head(procesos_new) \in 0..pid-1
            /\ procesos_new' \in Seq(0..pid-1)
        <4>1. procesos_new # <<>> /\ procesos_new' = SinPrimero(procesos_new)
          BY <1>2, <2>2 DEF LargoQuitar
        <4>2. procesos_new \in Seq(0..pid-1)
          OBVIOUS
        <4> QED BY ONLY <4>1, <4>2, QuitarTipo
      <3>2. uso' \in [Colas -> {"libre", "agregando", "danada"}]
        <4>1. uso' = EmpezarUso(Interferir(uso, "new"), "ready")
          BY <1>2, <2>2 DEF LargoQuitar
        <4> QED BY <4>1, UsoTipo
      <3>3. pcb' \in [0..pid-1 -> [estado : {"NEW", "READY", "EXEC"}, path : Buffers]]
        <4>1. pcb' = [pcb EXCEPT ![Head(procesos_new)].estado = "READY"]
          BY <1>2, <2>2 DEF LargoQuitar
        <4>2. pcb \in [0..pid-1 -> [estado : {"NEW", "READY", "EXEC"}, path : Buffers]]
          OBVIOUS
        <4> QED BY ONLY <3>1, <4>1, <4>2
      <3>4. tomado' = Head(procesos_new) /\ pid' = pid
        BY <1>2, <2>2 DEF LargoQuitar
      <3>5. tomado' \in Nulo..pid'-1 /\ tomado' # Nulo
        BY <3>1, <3>4
      <3>6. /\ largo' = "agregar"
            /\ UNCHANGED <<semaforos, procesos_ready, pid, pedida, deConsola,
                 admitidos, corto, deFifo, falla>>
        BY <1>2, <2>2 DEF LargoQuitar
      <3> QED BY <3>1, <3>2, <3>3, <3>5, <3>6
    <2> QED BY <2>1, <2>2
  <1>3. CASE LargoAgregar
    <2>1. CASE Caer("lista_danada")
      BY <2>1, CaerTipos
    <2>2. CASE ~Caer("lista_danada")
      <3>1. procesos_ready' \in Seq(0..pid-1)
        BY <1>3, <2>2, AgregarTipo, tomado \in 0..pid-1 DEF LargoAgregar
      <3>2. uso' \in [Colas -> {"libre", "agregando", "danada"}]
        <4>1. uso' = TerminarUso(uso, "ready")
          BY <1>3, <2>2 DEF LargoAgregar
        <4> QED BY <4>1, UsoTipo
      <3>3. /\ tomado' = Nulo /\ pid' = pid
            /\ cantidad_procesos_ready' = cantidad_procesos_ready + 1
        BY <1>3, <2>2 DEF LargoAgregar
      <3>4. tomado' \in Nulo..pid'-1 /\ cantidad_procesos_ready' \in Nat
        BY <3>3
      <3>5. /\ largo' = "nuevo"
            /\ UNCHANGED <<semaforo_multiprogramacion, cantidad_procesos_new,
                 proceso_ejecutando, procesos_new, procesos, deConsola, admitidos,
                 corto, deFifo, falla>>
        BY <1>3, <2>2 DEF LargoAgregar
      <3> QED BY <3>1, <3>2, <3>4, <3>5, <3>3
    <2> QED BY <2>1, <2>2
  <1> QED BY <1>1a, <1>1b, <1>2, <1>3 DEF LargoPlazo

LEMMA CortoTipos == ASSUME Tipos, CortoPlazo PROVE Tipos'
  <1> USE DEF Tipos, TypeOK, Lugares
  <1>1. CASE CortoEsperarPrimero
    BY <1>1 DEF CortoEsperarPrimero
  <1>2. CASE CortoDespertar
    BY <1>2 DEF CortoDespertar
  <1>3. CASE CortoConsumir
    BY <1>3 DEF CortoConsumir
  <1> QED BY <1>1, <1>2, <1>3 DEF CortoPlazo

LEMMA FifoTipos == ASSUME Tipos, FIFO PROVE Tipos'
  <1> USE DEF Tipos, TypeOK, Lugares, EnFifo
  <1>1. CASE FifoEsperar
    BY <1>1 DEF FifoEsperar
  <1>2. CASE FifoQuitar
    <2>1. CASE Caer("lista_vacia")
      BY <2>1, CaerTipos
    <2>2. CASE ~Caer("lista_vacia")
      <3>1. /\ Head(procesos_ready) \in 0..pid-1
            /\ procesos_ready' \in Seq(0..pid-1)
        <4>1. procesos_ready # <<>> /\ procesos_ready' = SinPrimero(procesos_ready)
          BY <1>2, <2>2 DEF FifoQuitar
        <4>2. procesos_ready \in Seq(0..pid-1)
          OBVIOUS
        <4> QED BY ONLY <4>1, <4>2, QuitarTipo
      <3>2. uso' \in [Colas -> {"libre", "agregando", "danada"}]
        <4>1. uso' = Interferir(uso, "ready")
          BY <1>2, <2>2 DEF FifoQuitar
        <4> QED BY <4>1, UsoTipo
      <3>3. pcb' \in [0..pid-1 -> [estado : {"NEW", "READY", "EXEC"}, path : Buffers]]
        <4>1. pcb' = [pcb EXCEPT ![Head(procesos_ready)].estado = "EXEC"]
          BY <1>2, <2>2 DEF FifoQuitar
        <4>2. pcb \in [0..pid-1 -> [estado : {"NEW", "READY", "EXEC"}, path : Buffers]]
          OBVIOUS
        <4> QED BY ONLY <3>1, <4>1, <4>2
      <3>4. proceso_en_ejecucion' = Head(procesos_ready) /\ pid' = pid
        BY <1>2, <2>2 DEF FifoQuitar
      <3>5. proceso_en_ejecucion' \in Nulo..pid'-1 /\ proceso_en_ejecucion' # Nulo
        BY <3>1, <3>4
      <3>6. /\ fifo' = "largo_path"
            /\ UNCHANGED <<semaforos, procesos_new, pid, pedida, deConsola,
                 deLargo, corto, salidas, falla>>
        BY <1>2, <2>2 DEF FifoQuitar
      <3> QED BY <3>1, <3>2, <3>3, <3>5, <3>6
    <2> QED BY <2>1, <2>2
  <1>3. CASE FifoEnviarLargo \/ FifoEnviarPath
    <2>1. proceso_en_ejecucion \in 0..pid-1
      BY <1>3 DEF FifoEnviarLargo, FifoEnviarPath
    <2>2. Apuntado(proceso_en_ejecucion) \subseteq Rutas \union {Basura}
      BY <2>1 DEF Apuntado
    <2>3. ASSUME NEW campo \in {"len", "str"}, NEW luego \in {"path", "pcb"},
                 EnviarPath(campo, luego)
          PROVE  Tipos'
      <3>1. conexion_memoria' \in Seq({"len", "str"} \X (Rutas \union {Basura}))
        BY <2>2, <2>3 DEF EnviarPath
      <3> QED BY <2>1, <2>3, <3>1 DEF EnviarPath
    <2> QED BY <1>3, <2>3 DEF FifoEnviarLargo, FifoEnviarPath
  <1>4. CASE FifoEnviarPcb
    <2>1. CASE Caer("pcb_liberado")
      BY <2>1, CaerTipos
    <2>2. CASE ~Caer("pcb_liberado")
      <3>1. proceso_en_ejecucion \in 0..pid-1
        BY <1>4 DEF FifoEnviarPcb
      <3>2. Apuntado(proceso_en_ejecucion) \subseteq Rutas \union {Basura}
        BY <3>1 DEF Apuntado
      <3>3. conexion_cpu_dispatch'
              \in Seq({Basura} \union ((0..pid-1) \X (Rutas \union {Basura})))
        <4>1. \E r \in Apuntado(proceso_en_ejecucion) : conexion_cpu_dispatch' \in
                {conexion_cpu_dispatch, Append(conexion_cpu_dispatch, Basura),
                 Append(conexion_cpu_dispatch, <<proceso_en_ejecucion, r>>)}
          BY <1>4, <2>2 DEF FifoEnviarPcb
        <4>2. conexion_cpu_dispatch
                \in Seq({Basura} \union ((0..pid-1) \X (Rutas \union {Basura})))
          OBVIOUS
        <4> DEFINE S == {Basura} \union ((0..pid-1) \X (Rutas \union {Basura}))
        <4>3. PICK e \in S : conexion_cpu_dispatch' \in
                {conexion_cpu_dispatch, Append(conexion_cpu_dispatch, Basura),
                 Append(conexion_cpu_dispatch, e)}
          BY <3>1, <3>2, <4>1
        <4>4. Basura \in S /\ conexion_cpu_dispatch \in Seq(S)
          BY <4>2
        <4> HIDE DEF S
        <4>6. conexion_cpu_dispatch' \in Seq(S)
          BY ONLY <4>3, <4>4
        <4> QED BY <4>6 DEF S
      <3>4. TypeOK'
        BY <1>4, <2>2, <3>3 DEF FifoEnviarPcb
      <3>5. Lugares'
        BY <1>4, <2>2 DEF FifoEnviarPcb
      <3> QED BY <3>4, <3>5
    <2> QED BY <2>1, <2>2
  <1> QED BY <1>1, <1>2, <1>3, <1>4 DEF FIFO

LEMMA PasoTipos == Tipos /\ [Next]_vars => Tipos'
  <1>1. Tipos /\ UNCHANGED vars => Tipos'
    BY DEF Tipos, TypeOK, Lugares, vars
  <1> QED BY <1>1, ConsolaTipos, LargoTipos, CortoTipos, FifoTipos DEF Next

LEMMA TiposSiempre == Spec => []Tipos
  BY InitTipos, PasoTipos, PTL DEF Spec

(* Every variable keeps its type whatever the threads interleave. *)
THEOREM TypeCorrect == Spec => []TypeOK
  <1>1. Tipos => TypeOK
    BY DEF Tipos
  <1> QED BY <1>1, TiposSiempre, PTL
-----------------------------------------------------------------------------
(* What a step of the console can be for the other threads: it starts to   *)
(* add a process, ends adding it, moves the semaphore of the degree, or    *)
(* leaves lists, semaphores and processes alone.                           *)
ConsolaCrea ==
  /\ \E b \in Buffers, r \in Rutas : CrearPcb(b, r)
  /\ consola # "agregar"
  /\ UNCHANGED <<semaforos, procesos_new, procesos_ready, ajuste, pedido, deLargo,
                 corto, deFifo, falla>>

ConsolaAgrega ==
  /\ consola = "agregar" /\ consola' \in {"leer", "guion"}
  /\ procesos_new' \in ResultadosDeAgregar(procesos_new, pid - 1, "new")
  /\ uso' = TerminarUso(uso, "new")
  /\ cantidad_procesos_new' = cantidad_procesos_new + 1
  /\ UNCHANGED <<semaforo_multiprogramacion, cantidad_procesos_ready,
       proceso_ejecutando, procesos_ready, procesos, ajuste, pedido, deLargo, corto,
       deFifo, falla>>

ConsolaAjusta ==
  /\ consola # "agregar" /\ consola' = "ajustar"
  /\ ajuste' + semaforo_multiprogramacion' = grado_pedido' - (admitidos - medidos')
  /\ UNCHANGED <<cantidad_procesos_new, cantidad_procesos_ready,
       proceso_ejecutando, colas, procesos, deLargo, corto, deFifo, falla>>

(* The console dies of a list only if it is damaged. *)
ConsolaQuieta ==
  /\ consola' = consola \/ (consola # "agregar" /\ consola' # "agregar")
  /\ \/ falla' = falla
     \/ falla' \notin {"lista_vacia", "lista_danada"}
     \/ falla' = "lista_danada" /\ uso["new"] = "danada"
  /\ UNCHANGED <<semaforos, colas, procesos, ajuste, pedido, deLargo, corto, deFifo>>

LEMMA ConsolaCasos ==
  ASSUME Tipos, AjusteExacto, Operador \/ Consola
  PROVE  ConsolaCrea \/ ConsolaAgrega \/ ConsolaAjusta \/ ConsolaQuieta
  <1> USE DEF EnConsola
  <1>1. ASSUME NEW motivo \in {"linea_vacia", "lista_encogida", "sin_ejecucion"}, Caer(motivo)
        PROVE  ConsolaQuieta
    BY <1>1 DEF Caer, ConsolaQuieta
  <1>2. ASSUME NEW r \in Rutas, LeerIniciarProceso(r) PROVE ConsolaCrea
    BY <1>2 DEF LeerIniciarProceso, ConsolaCrea
  <1>3. CASE RenglonIniciar
    BY <1>3 DEF RenglonIniciar, ConsolaCrea
  <1>4. CASE TerminarIniciar
    <2>1. CASE uso["new"] = "danada" /\ Caer("lista_danada")
      BY <2>1 DEF Caer, ConsolaQuieta
    <2>2. CASE ~(uso["new"] = "danada" /\ Caer("lista_danada"))
      BY <1>4, <2>2 DEF TerminarIniciar, ConsolaAgrega
    <2> QED BY <2>1, <2>2
  <1>5. ASSUME NEW r \in Rutas, LeerEjecutarScript(r) PROVE ConsolaQuieta
    BY <1>5 DEF LeerEjecutarScript, ConsolaQuieta
  <1>6. CASE RenglonOtro
    BY <1>6 DEF RenglonOtro, ConsolaQuieta
  <1>7. CASE RenglonVacio \/ LeerVacia
    BY <1>7, <1>1 DEF RenglonVacio, LeerVacia
  <1>8. CASE TerminarScript
    BY <1>8 DEF TerminarScript, ConsolaQuieta
  <1>9. CASE LeerOtra
    BY <1>9 DEF LeerOtra, ConsolaQuieta
  <1>10. CASE LeerProcesoEstado
    BY <1>10 DEF LeerProcesoEstado, ConsolaQuieta
  <1>11. ASSUME NEW v \in Grados, LeerMultiprogramacion(v) PROVE ConsolaAjusta
    <2>1. v \in Int /\ semaforo_multiprogramacion \in Nat /\ admitidos \in Nat
      BY ConstantesOK DEF Tipos, TypeOK
    <2> QED BY <1>11, <2>1 DEF LeerMultiprogramacion, Diferencia, ConsolaAjusta
  <1>12. CASE AjustarPost \/ AjustarWait
    <2>1. /\ semaforo_multiprogramacion \in Nat /\ ajuste \in Int
          /\ admitidos \in Nat /\ medidos \in Nat /\ grado_pedido \in Int
      BY DEF Tipos, TypeOK
    <2>2. semaforo_multiprogramacion + ajuste = grado_pedido - (admitidos - medidos)
      BY <1>12 DEF AjusteExacto, AjustarPost, AjustarWait
    <2> QED BY <1>12, <2>1, <2>2 DEF AjustarPost, AjustarWait, ConsolaAjusta
  <1>13. CASE TerminarAjuste
    BY <1>13 DEF TerminarAjuste, ConsolaQuieta
  <1>14. CASE ImprimirReady \/ ImprimirNew
    <2>1. ASSUME NEW q, NEW l, NEW ver \in {"ver_ready", "ver_new"},
                 NEW o \in {"obtener_ready", "obtener_new"},
                 NEW luego \in {"ver_new", "ver_exec"}, VerCola(q, l, ver, o, luego)
          PROVE  ConsolaQuieta
      BY <2>1 DEF VerCola, ConsolaQuieta
    <2>2. ASSUME NEW l, NEW ver \in {"ver_ready", "ver_new"},
                 NEW o \in {"obtener_ready", "obtener_new"}, ObtenerDeCola(l, ver, o)
          PROVE  ConsolaQuieta
      <3>1. CASE Caer("lista_encogida")
        BY <3>1, <1>1
      <3>2. CASE ~Caer("lista_encogida")
        BY <2>2, <3>2 DEF ObtenerDeCola, ConsolaQuieta
      <3> QED BY <3>1, <3>2
    <2> QED BY <1>14, <2>1, <2>2 DEF ImprimirReady, ImprimirNew
  <1>15. CASE ImprimirExec
    <2>1. CASE Caer("sin_ejecucion")
      BY <2>1, <1>1
    <2>2. CASE ~Caer("sin_ejecucion")
      BY <1>15, <2>2 DEF ImprimirExec, ConsolaQuieta
    <2> QED BY <2>1, <2>2
  <1> QED BY <1>2, <1>3, <1>4, <1>5, <1>6, <1>7, <1>8, <1>9, <1>10, <1>11, <1>12,
             <1>13, <1>14, <1>15 DEF Operador, Consola

(* The arithmetic of MULTIPROGRAMACION: whatever the long-term scheduler   *)
(* takes while the console posts or waits, and after it, slots and pending *)
(* adjustments add up to the degree asked for less what was taken.         *)
LEMMA PasoAjuste == Tipos /\ AjusteExacto /\ [Next]_vars => AjusteExacto'
  <1> SUFFICES ASSUME Tipos, AjusteExacto, [Next]_vars PROVE AjusteExacto'
    OBVIOUS
  <1>1. CASE Operador \/ Consola
    <2>1. CASE ConsolaCrea
      BY <2>1 DEF ConsolaCrea, CrearPcb, AjusteExacto
    <2>2. CASE ConsolaAgrega
      BY <2>2 DEF ConsolaAgrega, AjusteExacto
    <2>3. CASE ConsolaAjusta
      <3>1. /\ semaforo_multiprogramacion' \in Nat /\ ajuste' \in Int
        BY PasoTipos DEF Tipos, TypeOK
      <3> QED BY <2>3, <3>1 DEF ConsolaAjusta, AjusteExacto
    <2>4. CASE ConsolaQuieta
      BY <2>4 DEF ConsolaQuieta, AjusteExacto
    <2> QED BY <1>1, <2>1, <2>2, <2>3, <2>4, ConsolaCasos
  <1>2. CASE LargoPlazo
    <2>1. CASE LargoEsperarGrado
      <3>1. /\ semaforo_multiprogramacion \in Nat /\ ajuste \in Int
            /\ admitidos \in Nat /\ medidos \in Nat /\ grado_pedido \in Int
        BY DEF Tipos, TypeOK
      <3> QED BY <2>1, <3>1 DEF LargoEsperarGrado, AjusteExacto
    <2>2. CASE LargoEsperarNuevo
      BY <2>2 DEF LargoEsperarNuevo, AjusteExacto
    <2>3. CASE LargoQuitar
      BY <2>3 DEF LargoQuitar, Caer, AjusteExacto
    <2>4. CASE LargoAgregar
      BY <2>4 DEF LargoAgregar, Caer, AjusteExacto
    <2> QED BY <1>2, <2>1, <2>2, <2>3, <2>4 DEF LargoPlazo
  <1>3. CASE CortoPlazo
    BY <1>3 DEF CortoPlazo, CortoEsperarPrimero, CortoDespertar, CortoConsumir,
                AjusteExacto
  <1>4. CASE FIFO
    BY <1>4 DEF FIFO, FifoEsperar, FifoQuitar, FifoEnviarLargo, FifoEnviarPath,
                FifoEnviarPcb, EnviarPath, Caer, AjusteExacto
  <1>5. CASE UNCHANGED vars
    BY <1>5 DEF vars, AjusteExacto
  <1> QED BY <1>1, <1>2, <1>3, <1>4, <1>5 DEF Next

(* Whatever the threads interleave, the free slots and what                *)
(* MULTIPROGRAMACION has still to do are the degree asked for less what    *)
(* has been taken since the command read the semaphore.                    *)
THEOREM AjusteCorrecto == Spec => []AjusteExacto
  <1>1. Init => AjusteExacto
    BY ConstantesOK DEF Init, AjusteExacto
  <1> QED BY <1>1, PasoAjuste, TiposSiempre, PTL DEF Spec

(* Whatever degree is asked for, and whatever had been let in before, no   *)
(* more processes than that are let in from when the command reads the     *)
(* semaphore until the next command: the slots that are left are a         *)
(* semaphore's value, and so not negative.                                 *)
THEOREM CupoCorrecto == Spec => []CupoDelPedido
  <1>1. Tipos /\ AjusteExacto => CupoDelPedido
    <2> SUFFICES ASSUME Tipos, AjusteExacto, consola # "ajustar"
                 PROVE  admitidos - medidos <= grado_pedido
      BY DEF CupoDelPedido
    <2>1. ajuste = 0
      BY DEF Tipos, Lugares
    <2>2. /\ semaforo_multiprogramacion \in Nat /\ grado_pedido \in Int
          /\ admitidos \in Nat /\ medidos \in Nat
      BY DEF Tipos, TypeOK
    <2> QED BY <2>1, <2>2 DEF AjusteExacto
  <1> QED BY <1>1, TiposSiempre, AjusteCorrecto, PTL
-----------------------------------------------------------------------------
(* UnSoloDespacho is not inductive: it rests on where the one post of      *)
(* proceso_ejecutando is, in the short-term scheduler's hands, in the      *)
(* semaphore or in FIFO's, and on what FIFO has sent at each place.        *)
Despacho ==
  /\ corto \in {"primero", "despertar"} =>
       proceso_ejecutando = 0 /\ fifo = "esperar" /\ proceso_en_ejecucion = Nulo
  /\ proceso_ejecutando <= 1
  /\ proceso_ejecutando = 1 => fifo = "esperar" /\ proceso_en_ejecucion = Nulo
  /\ fifo = "quitar" => proceso_en_ejecucion = Nulo
  /\ \A p \in 0..pid-1 : pcb[p].estado = "EXEC" => p = proceso_en_ejecucion
  /\ proceso_en_ejecucion = Nulo \/ fifo = "largo_path" => Len(conexion_memoria) = 0
  /\ fifo = "path" => Len(conexion_memoria) = 1
  /\ Len(conexion_memoria) <= 2
  /\ proceso_en_ejecucion = Nulo \/ fifo # "esperar" => Len(conexion_cpu_dispatch) = 0
  /\ Len(conexion_cpu_dispatch) <= 1

LEMMA PasoDespacho == Tipos /\ AjusteExacto /\ Despacho /\ [Next]_vars => Despacho'
  <1> SUFFICES ASSUME Tipos, AjusteExacto, Despacho, [Next]_vars PROVE Despacho'
    OBVIOUS
  <1>1. CASE Operador \/ Consola
    <2>1. CASE ConsolaCrea
      BY <2>1 DEF ConsolaCrea, CrearPcb, Despacho, Tipos, TypeOK
    <2>2. CASE ConsolaAgrega
      BY <2>2 DEF ConsolaAgrega, Despacho
    <2>3. CASE ConsolaAjusta
      BY <2>3 DEF ConsolaAjusta, Despacho
    <2>4. CASE ConsolaQuieta
      BY <2>4 DEF ConsolaQuieta, Despacho
    <2> QED BY <1>1, <2>1, <2>2, <2>3, <2>4, ConsolaCasos
  <1>2. CASE LargoPlazo
    <2>1. CASE LargoEsperarGrado
      BY <2>1 DEF LargoEsperarGrado, Despacho
    <2>2. CASE LargoEsperarNuevo
      BY <2>2 DEF LargoEsperarNuevo, Despacho
    <2>3. CASE LargoQuitar
      <3>1. CASE Caer("lista_vacia")
        BY <3>1 DEF Caer, Despacho
      <3>2. CASE ~Caer("lista_vacia")
        <4>1. /\ pcb' = [pcb EXCEPT ![Head(procesos_new)].estado = "READY"]
              /\ UNCHANGED <<proceso_ejecutando, pid, corto, deFifo>>
          BY <2>3, <3>2 DEF LargoQuitar
        <4>2. pcb \in [0..pid-1 -> [estado : {"NEW", "READY", "EXEC"}, path : Buffers]]
          BY DEF Tipos, TypeOK
        <4>3. \A p \in 0..pid-1 : pcb'[p].estado = "EXEC" => pcb[p].estado = "EXEC"
          BY ONLY <4>1, <4>2
        <4> QED BY <4>1, <4>3 DEF Despacho
      <3> QED BY <3>1, <3>2
    <2>4. CASE LargoAgregar
      BY <2>4 DEF LargoAgregar, Caer, Despacho
    <2> QED BY <1>2, <2>1, <2>2, <2>3, <2>4 DEF LargoPlazo
  <1>3. CASE CortoPlazo
    BY <1>3 DEF CortoPlazo, CortoEsperarPrimero, CortoDespertar, CortoConsumir,
                Despacho
  <1>4. CASE FIFO
    <2>1. CASE FifoEsperar
      <3>1. proceso_ejecutando \in Nat
        BY DEF Tipos, TypeOK
      <3> QED BY <2>1, <3>1 DEF FifoEsperar, EnFifo, Despacho
    <2>2. CASE FifoQuitar
      <3>1. CASE Caer("lista_vacia")
        BY <3>1 DEF Caer, Despacho
      <3>2. CASE ~Caer("lista_vacia")
        <4>1. \A p \in 0..pid-1 : pcb[p].estado # "EXEC"
          BY <2>2 DEF FifoQuitar, EnFifo, Despacho
        <4>2. /\ pid' = pid
              /\ pcb' = [pcb EXCEPT ![proceso_en_ejecucion'].estado = "EXEC"]
          BY <2>2, <3>2 DEF FifoQuitar
        <4>3. pcb \in [0..pid-1 -> [estado : {"NEW", "READY", "EXEC"}, path : Buffers]]
          BY DEF Tipos, TypeOK
        <4>4. \A p \in 0..pid'-1 : pcb'[p].estado = "EXEC" => p = proceso_en_ejecucion'
          BY ONLY <4>1, <4>2, <4>3
        <4> QED BY <2>2, <3>2, <4>4 DEF FifoQuitar, EnFifo, Despacho
      <3> QED BY <3>1, <3>2
    <2>3. CASE FifoEnviarLargo \/ FifoEnviarPath
      <3>1. Len(conexion_memoria') = Len(conexion_memoria) + 1
        BY <2>3 DEF FifoEnviarLargo, FifoEnviarPath, EnviarPath, Tipos, TypeOK
      <3>2. CASE FifoEnviarLargo
        <4>1. fifo = "largo_path" /\ fifo' = "path"
          BY <3>2 DEF FifoEnviarLargo, EnFifo, EnviarPath
        <4>2. UNCHANGED <<corto, proceso_ejecutando, pid, pcb, proceso_en_ejecucion,
                          conexion_cpu_dispatch>>
          BY <3>2 DEF FifoEnviarLargo, EnviarPath
        <4>3. proceso_en_ejecucion # Nulo
          BY <4>1 DEF Tipos, Lugares
        <4>4. Len(conexion_memoria) = 0
          BY <4>1 DEF Despacho
        <4>5. Len(conexion_memoria') = 1
          BY ONLY <3>1, <4>4
        <4> QED BY <4>1, <4>2, <4>3, <4>5 DEF Despacho
      <3>3. CASE FifoEnviarPath
        <4>1. fifo = "path" /\ fifo' = "pcb"
          BY <3>3 DEF FifoEnviarPath, EnFifo, EnviarPath
        <4>2. UNCHANGED <<corto, proceso_ejecutando, pid, pcb, proceso_en_ejecucion,
                          conexion_cpu_dispatch>>
          BY <3>3 DEF FifoEnviarPath, EnviarPath
        <4>3. proceso_en_ejecucion # Nulo
          BY <4>1 DEF Tipos, Lugares
        <4>4. Len(conexion_memoria) = 1
          BY <4>1 DEF Despacho
        <4>5. Len(conexion_memoria') = 2
          BY ONLY <3>1, <4>4
        <4> QED BY <4>1, <4>2, <4>3, <4>5 DEF Despacho
      <3> QED BY <2>3, <3>2, <3>3
    <2>4. CASE FifoEnviarPcb
      <3>1. CASE Caer("pcb_liberado")
        BY <3>1 DEF Caer, Despacho
      <3>2. CASE ~Caer("pcb_liberado")
        <4>1. Len(conexion_cpu_dispatch) = 0
          BY <2>4 DEF FifoEnviarPcb, EnFifo, Despacho
        <4>2. PICK e : conexion_cpu_dispatch' \in
                {conexion_cpu_dispatch, Append(conexion_cpu_dispatch, Basura),
                 Append(conexion_cpu_dispatch, e)}
          BY <2>4, <3>2 DEF FifoEnviarPcb
        <4>3. \E S : conexion_cpu_dispatch \in Seq(S)
          BY DEF Tipos, TypeOK
        <4>4. Len(conexion_cpu_dispatch') <= 1
          <5>1. \A x : Len(Append(conexion_cpu_dispatch, x)) = Len(conexion_cpu_dispatch) + 1
            BY ONLY <4>3
          <5> QED BY ONLY <4>1, <4>2, <5>1
        <4>5. proceso_en_ejecucion # Nulo /\ corto \notin {"primero", "despertar"}
          BY <2>4 DEF FifoEnviarPcb, EnFifo, Despacho, Tipos, Lugares
        <4>6. fifo = "pcb" /\ fifo' = "esperar"
          BY <2>4, <3>2 DEF FifoEnviarPcb, EnFifo
        <4>7. UNCHANGED <<corto, proceso_ejecutando, pid, pcb, proceso_en_ejecucion,
                          conexion_memoria>>
          BY <2>4, <3>2 DEF FifoEnviarPcb
        <4> QED BY <4>4, <4>5, <4>6, <4>7 DEF Despacho
      <3> QED BY <3>1, <3>2
    <2> QED BY <1>4, <2>1, <2>2, <2>3, <2>4 DEF FIFO
  <1>5. CASE UNCHANGED vars
    BY <1>5 DEF vars, Despacho
  <1> QED BY <1>1, <1>2, <1>3, <1>4, <1>5 DEF Next

LEMMA DespachoSiempre == Spec => []Despacho
  <1>1. Init => Despacho
    BY DEF Init, Despacho
  <1>2. Init => AjusteExacto
    BY ConstantesOK DEF Init, AjusteExacto
  <1> QED BY <1>1, <1>2, PasoDespacho, PasoAjuste, TiposSiempre, PTL DEF Spec

(* However many processes are created and however long the kernel runs,    *)
(* one process at most is in EXEC and one path and one PCB are sent.       *)
THEOREM UnSoloDespachoCorrecto == Spec => []UnSoloDespacho
  <1>1. Tipos /\ Despacho => UnSoloDespacho
    BY DEF Despacho, UnSoloDespacho, Tipos, TypeOK
  <1> QED BY <1>1, TiposSiempre, DespachoSiempre, PTL
-----------------------------------------------------------------------------
(* What the lists keep of the order of arrival.                            *)
LEMMA QuitarOrden ==
  ASSUME NEW n \in Int, NEW l \in Seq(0..n), l # <<>>, Creciente(l)
  PROVE  /\ Creciente(SinPrimero(l))
         /\ Head(l) \in Elementos(l)
         /\ Elementos(SinPrimero(l)) \subseteq Elementos(l)
         /\ \A p \in Elementos(SinPrimero(l)) : Head(l) < p
         /\ Elementos(l) \subseteq {Head(l)} \union Elementos(SinPrimero(l))
  <1>1. /\ Head(l) = l[1] /\ 1 \in DOMAIN l /\ Len(l) \in Nat /\ Len(l) >= 1
        /\ DOMAIN l = 1..Len(l)
    OBVIOUS
  <1>2. /\ SinPrimero(l) \in Seq(0..n) /\ Len(SinPrimero(l)) = Len(l) - 1
        /\ DOMAIN SinPrimero(l) = 1..(Len(l) - 1)
        /\ \A k \in 1..(Len(l) - 1) : SinPrimero(l)[k] = l[k + 1]
    BY DEF SinPrimero
  <1>3. \A a, b \in 1..Len(l) : a < b => l[a] < l[b]
    BY <1>1 DEF Creciente
  <1>4. Creciente(SinPrimero(l))
    <2> SUFFICES ASSUME NEW a \in 1..(Len(l) - 1), NEW b \in 1..(Len(l) - 1), a < b
                 PROVE  SinPrimero(l)[a] < SinPrimero(l)[b]
      BY <1>2 DEF Creciente
    <2>1. a + 1 \in 1..Len(l) /\ b + 1 \in 1..Len(l) /\ a + 1 < b + 1
      BY <1>1
    <2>2. l[a + 1] < l[b + 1]
      BY <1>3, <2>1
    <2> QED BY <1>2, <2>2
  <1>5. \A k \in 1..(Len(l) - 1) : k + 1 \in 1..Len(l) /\ l[1] < l[k + 1]
    <2> SUFFICES ASSUME NEW k \in 1..(Len(l) - 1)
                 PROVE  k + 1 \in 1..Len(l) /\ l[1] < l[k + 1]
      OBVIOUS
    <2>1. k + 1 \in 1..Len(l) /\ 1 < k + 1 /\ 1 \in 1..Len(l)
      BY <1>1
    <2> QED BY <1>3, <2>1
  <1>6. \A k \in 1..Len(l) : k = 1 \/ (k - 1 \in 1..(Len(l) - 1) /\ (k - 1) + 1 = k)
    BY <1>1
  <1>7. Elementos(l) \subseteq {Head(l)} \union Elementos(SinPrimero(l))
    <2> SUFFICES ASSUME NEW k \in 1..Len(l), k # 1
                 PROVE  l[k] \in Elementos(SinPrimero(l))
      BY <1>1 DEF Elementos
    <2>1. k - 1 \in DOMAIN SinPrimero(l) /\ SinPrimero(l)[k - 1] = l[k]
      BY <1>2, <1>6
    <2> QED BY <2>1 DEF Elementos
  <1>8. ASSUME NEW p \in Elementos(SinPrimero(l))
        PROVE  p \in Elementos(l) /\ Head(l) < p
    <2>1. PICK k \in 1..(Len(l) - 1) : p = SinPrimero(l)[k]
      BY <1>2 DEF Elementos
    <2>2. p = l[k + 1] /\ k + 1 \in DOMAIN l /\ l[1] < l[k + 1]
      BY <1>1, <1>2, <1>5, <2>1
    <2> QED BY <1>1, <2>2 DEF Elementos
  <1>9. Head(l) \in Elementos(l)
    BY <1>1 DEF Elementos
  <1> QED BY <1>4, <1>7, <1>8, <1>9

LEMMA AgregarOrden ==
  ASSUME NEW n \in Int, NEW l \in Seq(0..n), NEW x \in 0..n, NEW q,
         NEW m \in ResultadosDeAgregar(l, x, q),
         Creciente(l), \A p \in Elementos(l) : p < x
  PROVE  Creciente(m) /\ Elementos(m) \subseteq Elementos(l) \union {x}
  <1>1. ASSUME NEW k \in 0..Len(l), m = Encolar(SubSeq(l, 1, k), x)
        PROVE  Creciente(m) /\ Elementos(m) \subseteq Elementos(l) \union {x}
    <2> DEFINE s == SubSeq(l, 1, k)
    <2>0. Len(l) \in Nat /\ DOMAIN l = 1..Len(l)
      OBVIOUS
    <2>1. s \in Seq(0..n) /\ Len(s) = k /\ \A j \in 1..k : s[j] = l[j]
      BY <2>0
    <2> HIDE DEF s
    <2>2. /\ DOMAIN m = 1..(k + 1) /\ m[k + 1] = x
          /\ \A j \in 1..k : m[j] = s[j]
      BY <1>1, <2>1 DEF Encolar, s
    <2>3. \A j \in 1..k : j \in 1..Len(l) /\ m[j] = l[j] /\ l[j] < x
      <3> SUFFICES ASSUME NEW j \in 1..k
                   PROVE  j \in 1..Len(l) /\ m[j] = l[j] /\ l[j] < x
        OBVIOUS
      <3>1. j \in DOMAIN l /\ m[j] = l[j]
        BY <2>0, <2>1, <2>2
      <3>2. l[j] \in Elementos(l)
        BY <3>1 DEF Elementos
      <3> QED BY <2>0, <3>1, <3>2
    <2>4. \A j \in 1..(k + 1) : j \in 1..k \/ j = k + 1
      OBVIOUS
    <2>5. Elementos(m) \subseteq Elementos(l) \union {x}
      BY <2>0, <2>2, <2>3, <2>4 DEF Elementos
    <2>6. ASSUME NEW a \in 1..(k + 1), NEW b \in 1..(k + 1), a < b PROVE m[a] < m[b]
      <3>1. a \in 1..k
        BY <2>6
      <3>2. CASE b \in 1..k
        BY <2>0, <2>3, <2>6, <3>1, <3>2 DEF Creciente
      <3>3. CASE b = k + 1
        BY <2>2, <2>3, <3>1, <3>3
      <3> QED BY <2>4, <3>2, <3>3
    <2> QED BY <2>2, <2>5, <2>6 DEF Creciente
  <1>2. CASE m = Encolar(l, x)
    <2>1. SubSeq(l, 1, Len(l)) = l /\ Len(l) \in 0..Len(l)
      OBVIOUS
    <2> QED BY <1>1, <1>2, <2>1
  <1>3. CASE m = l
    BY <1>3
  <1> QED BY <1>1, <1>2, <1>3 DEF ResultadosDeAgregar

LEMMA RangosDeListas ==
  ASSUME Tipos
  PROVE  /\ Elementos(procesos_new) \subseteq 0..pid-1
         /\ Elementos(procesos_ready) \subseteq 0..pid-1
         /\ Nuevos \subseteq 0..pid-1 /\ Listos \subseteq 0..pid-1
         /\ pid \in Nat /\ proceso_en_ejecucion \in Nulo..pid-1
  <1> USE DEF Tipos, TypeOK, Lugares
  <1>1. ASSUME NEW n \in Int, NEW l \in Seq(0..n) PROVE Elementos(l) \subseteq 0..n
    BY ONLY <1>1 DEF Elementos
  <1>2. pid \in Nat /\ pid - 1 \in Int
    OBVIOUS
  <1>3. /\ Elementos(procesos_new) \subseteq 0..pid-1
        /\ Elementos(procesos_ready) \subseteq 0..pid-1
    BY <1>1, <1>2
  <1> QED BY <1>2, <1>3 DEF Nuevos, Listos, Creando

LEMMA OrdenIgual ==
  ASSUME OrdenDeLlegada,
         UNCHANGED <<procesos_new, procesos_ready, tomado, proceso_en_ejecucion>>,
         Creando' = Creando
  PROVE  OrdenDeLlegada'
  BY DEF OrdenDeLlegada, Nuevos, Listos, Elementos, Creciente

LEMMA PasoOrden == Tipos /\ AjusteExacto /\ OrdenDeLlegada /\ [Next]_vars => OrdenDeLlegada'
  <1> SUFFICES ASSUME Tipos, AjusteExacto, OrdenDeLlegada, [Next]_vars
               PROVE  OrdenDeLlegada'
    OBVIOUS
  <1>0. pid \in Nat /\ pid - 1 \in Int
    BY RangosDeListas
  <1>1. CASE ConsolaCrea
    <2>1. /\ Creando' = {pid} /\ Creando = {}
          /\ UNCHANGED <<procesos_new, procesos_ready, tomado, proceso_en_ejecucion>>
      BY <1>0, <1>1 DEF ConsolaCrea, CrearPcb, Creando
    <2>2. /\ Listos' = Listos /\ Nuevos' = Nuevos \union {pid}
          /\ Nuevos = Elementos(procesos_new)
      BY <2>1 DEF Listos, Nuevos, Elementos
    <2>3. \A p \in Listos \union Nuevos \union {proceso_en_ejecucion} : p < pid
      BY RangosDeListas
    <2> QED BY <2>1, <2>2, <2>3 DEF OrdenDeLlegada, Creciente, Elementos
  <1>2. CASE ConsolaAgrega
    <2>1. /\ Creando' = {} /\ Creando = {pid - 1} /\ pid - 1 \in 0..pid-1
          /\ procesos_new' \in ResultadosDeAgregar(procesos_new, pid - 1, "new")
          /\ UNCHANGED <<procesos_ready, tomado, proceso_en_ejecucion>>
      BY <1>2 DEF ConsolaAgrega, Creando, Tipos, TypeOK, Lugares
    <2>2. procesos_new \in Seq(0..pid-1)
      BY DEF Tipos, TypeOK
    <2>3. Creciente(procesos_new) /\ \A p \in Elementos(procesos_new) : p < pid - 1
      BY <2>1 DEF OrdenDeLlegada
    <2>4. /\ Creciente(procesos_new')
          /\ Elementos(procesos_new') \subseteq Elementos(procesos_new) \union {pid - 1}
      BY <1>0, <2>1, <2>2, <2>3, AgregarOrden
    <2>5. Listos' = Listos /\ Nuevos' \subseteq Nuevos
      BY <2>1, <2>4 DEF Listos, Nuevos, Elementos
    <2> QED BY <2>1, <2>4, <2>5 DEF OrdenDeLlegada, Creciente, Elementos
  <1>3. CASE LargoQuitar
    <2>1. CASE Caer("lista_vacia")
      BY <2>1, OrdenIgual DEF Caer, Creando
    <2>2. CASE ~Caer("lista_vacia")
      <3>1. /\ procesos_new # <<>> /\ tomado = Nulo
            /\ procesos_new' = SinPrimero(procesos_new)
            /\ tomado' = Head(procesos_new)
            /\ UNCHANGED <<procesos_ready, proceso_en_ejecucion, pid, consola>>
        BY <1>3, <2>2 DEF LargoQuitar, EnLargo, Tipos, Lugares
      <3>2. procesos_new \in Seq(0..pid-1) /\ Creciente(procesos_new)
        BY DEF Tipos, TypeOK, OrdenDeLlegada
      <3>3. /\ Creciente(procesos_new') /\ tomado' \in Elementos(procesos_new)
            /\ Elementos(procesos_new') \subseteq Elementos(procesos_new)
            /\ \A p \in Elementos(procesos_new') : tomado' < p
        BY <1>0, <3>1, <3>2, QuitarOrden
      <3>4. /\ Listos' = Listos \union {tomado'} /\ Listos = Elementos(procesos_ready)
            /\ Creando' = Creando /\ Nuevos' \subseteq Nuevos /\ tomado' \in Nuevos
        <4>1. tomado' # Nulo
          BY <3>3, RangosDeListas
        <4> QED BY <3>1, <3>3, <4>1 DEF Listos, Nuevos, Creando, Elementos
      <3>5. \A p \in Creando : tomado' < p
        BY <3>3 DEF OrdenDeLlegada
      <3>6. \A p \in Nuevos' : tomado' < p
        BY <3>3, <3>4, <3>5 DEF Nuevos
      <3> QED BY <3>1, <3>3, <3>4, <3>6 DEF OrdenDeLlegada, Creciente, Elementos
    <2> QED BY <2>1, <2>2
  <1>4. CASE LargoAgregar
    <2>1. CASE Caer("lista_danada")
      BY <2>1, OrdenIgual DEF Caer, Creando
    <2>2. CASE ~Caer("lista_danada")
      <3>1. /\ procesos_ready' \in ResultadosDeAgregar(procesos_ready, tomado, "ready")
            /\ tomado # Nulo /\ tomado' = Nulo
            /\ UNCHANGED <<procesos_new, proceso_en_ejecucion, pid, consola>>
        BY <1>4, <2>2 DEF LargoAgregar, EnLargo, Tipos, Lugares
      <3>2. /\ procesos_ready \in Seq(0..pid-1) /\ Creciente(procesos_ready)
            /\ tomado \in 0..pid-1
            /\ \A p \in Elementos(procesos_ready) : p < tomado
        BY <3>1 DEF Tipos, TypeOK, OrdenDeLlegada
      <3>3. /\ Creciente(procesos_ready')
            /\ Elementos(procesos_ready') \subseteq Elementos(procesos_ready) \union {tomado}
        BY <1>0, <3>1, <3>2, AgregarOrden
      <3>4. /\ Listos' \subseteq Listos /\ Nuevos' = Nuevos /\ Creando' = Creando
        BY <3>1, <3>3 DEF Listos, Nuevos, Creando, Elementos
      <3> QED BY <3>1, <3>3, <3>4 DEF OrdenDeLlegada, Creciente, Elementos
    <2> QED BY <2>1, <2>2
  <1>5. CASE FifoQuitar
    <2>1. CASE Caer("lista_vacia")
      BY <2>1, OrdenIgual DEF Caer, Creando
    <2>2. CASE ~Caer("lista_vacia")
      <3>1. /\ procesos_ready # <<>>
            /\ procesos_ready' = SinPrimero(procesos_ready)
            /\ proceso_en_ejecucion' = Head(procesos_ready)
            /\ UNCHANGED <<procesos_new, tomado, pid, consola>>
        BY <1>5, <2>2 DEF FifoQuitar
      <3>2. procesos_ready \in Seq(0..pid-1) /\ Creciente(procesos_ready)
        BY DEF Tipos, TypeOK, OrdenDeLlegada
      <3>3. /\ Creciente(procesos_ready')
            /\ proceso_en_ejecucion' \in Elementos(procesos_ready)
            /\ Elementos(procesos_ready') \subseteq Elementos(procesos_ready)
            /\ \A p \in Elementos(procesos_ready') : proceso_en_ejecucion' < p
        BY <1>0, <3>1, <3>2, QuitarOrden
      <3>4. /\ Listos' \subseteq Listos /\ Nuevos' = Nuevos /\ Creando' = Creando
            /\ proceso_en_ejecucion' \in Listos
        BY <3>1, <3>3 DEF Listos, Nuevos, Creando, Elementos
      <3>5. \A p \in Listos' : proceso_en_ejecucion' < p
        BY <3>1, <3>3 DEF OrdenDeLlegada, Listos
      <3> QED BY <3>1, <3>3, <3>4, <3>5 DEF OrdenDeLlegada, Creciente, Elementos
    <2> QED BY <2>1, <2>2
  <1>6. CASE ConsolaAjusta \/ ConsolaQuieta
    BY <1>6, OrdenIgual DEF ConsolaAjusta, ConsolaQuieta, Creando
  <1>7. CASE LargoEsperarNuevo \/ LargoEsperarGrado
    BY <1>7, OrdenIgual DEF LargoEsperarNuevo, LargoEsperarGrado, Creando
  <1>8. CASE CortoPlazo
    BY <1>8, OrdenIgual DEF CortoPlazo, CortoEsperarPrimero, CortoDespertar,
       CortoConsumir, Creando
  <1>9. CASE FifoEsperar \/ FifoEnviarLargo \/ FifoEnviarPath \/ FifoEnviarPcb
    BY <1>9, OrdenIgual DEF FifoEsperar, FifoEnviarLargo, FifoEnviarPath,
       FifoEnviarPcb, EnviarPath, Caer, Creando
  <1>10. CASE UNCHANGED vars
    BY <1>10, OrdenIgual DEF vars, Creando
  <1> QED BY <1>1, <1>2, <1>3, <1>4, <1>5, <1>6, <1>7, <1>8, <1>9, <1>10, ConsolaCasos
          DEF Next, LargoPlazo, FIFO

(* First come, first served from the console to the CPU, for any number of *)
(* processes, with and without races on the lists.                         *)
THEOREM OrdenDeLlegadaCorrecto == Spec => []OrdenDeLlegada
  <1>1. Init => OrdenDeLlegada
    BY DEF Init, OrdenDeLlegada, Creciente, Elementos, Nuevos, Listos, Creando
  <1>2. Init => AjusteExacto
    BY ConstantesOK DEF Init, AjusteExacto
  <1> QED BY <1>1, <1>2, PasoOrden, PasoAjuste, TiposSiempre, PTL DEF Spec
=============================================================================
