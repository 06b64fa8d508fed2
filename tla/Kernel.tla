------------------------------- MODULE Kernel -------------------------------
(***************************************************************************)
(* The process scheduler of the kernel (kernel/src/main.c): the console    *)
(* that creates processes and changes the degree of multiprogramming, the  *)
(* long-term scheduler that moves a process from NEW to READY, the         *)
(* short-term scheduler, and the thread FIFO that sends a process to the   *)
(* memory and to the CPU.  Four threads share two lists that no lock       *)
(* protects and four semaphores.                                           *)
(*                                                                         *)
(* A step is the code between two accesses to shared state.  A race on a   *)
(* list is a choice between what the unsynchronised code can do; a         *)
(* dereference of NULL ends the whole process (variable falla).            *)
(***************************************************************************)
EXTENDS Integers, Sequences

CONSTANTS
  Rutas,         (* paths an operator can type                                *)
  Basura,        (* any bytes that are not the path a pointer should lead to  *)
  Grados,        (* values given to MULTIPROGRAMACION (atoi: any integer)     *)
  Guion,         (* the lines of comandos.txt: a path, Otra or Vacia          *)
  GradoInicial,  (* grado_maximo_multiprogramacion                            *)
  MaxProcesos,   (* bound: processes created                                  *)
  MaxPedidos     (* bound: MULTIPROGRAMACION commands                         *)

Otra  == "otra"     \* a script line that starts no process
Vacia == "vacia"    \* an empty line

ASSUME ConstantesOK ==
  /\ {Basura, Otra, Vacia} \intersect Rutas = {}
  /\ Grados \subseteq Int
  /\ Guion \in Seq(Rutas \union {Otra, Vacia})
  /\ GradoInicial \in Nat
  /\ MaxProcesos \in Nat
  /\ MaxPedidos \in Nat

VARIABLES
  consola, largo, corto, fifo,   \* where each thread is
  semaforo_multiprogramacion, cantidad_procesos_new,
  cantidad_procesos_ready, proceso_ejecutando,
  procesos_new, procesos_ready,  \* the two lists, of pids
  uso,          \* per list: "libre", "agregando", or "danada" for good once a
                \* list_remove has cut into a list_add
  pid,          \* the pid of the next process
  pcb,          \* per pid: estado, and the stack buffer its path points into
  linea,        \* per buffer: the bytes at the place where a path begins
  proceso_en_ejecucion,
  tomado,       \* the pcb the long-term scheduler holds between the two lists
  ajuste,       \* posts (> 0) or waits (< 0) MULTIPROGRAMACION still has to do
  i,            \* loop index of imprimir_estado_procesos
  renglon,      \* line of the script being run, 0 outside leerScript
  conexion_memoria, conexion_cpu_dispatch,  \* what was sent on each socket
  falla,        \* why the kernel died, "ninguna" while it runs
  pedida,       \* history: per pid, the path given to INICIAR_PROCESO
  grado_pedido, \* history: the last degree the operator asked for
  admitidos,    \* history: slots the long-term scheduler has taken
  medidos,      \* history: admitidos when MULTIPROGRAMACION read the semaphore
  pedidos       \* history: MULTIPROGRAMACION commands so far

semaforos == <<semaforo_multiprogramacion, cantidad_procesos_new,
               cantidad_procesos_ready, proceso_ejecutando>>
colas     == <<procesos_new, procesos_ready, uso>>
procesos  == <<pid, pcb, pedida>>
pedido    == <<grado_pedido, medidos, pedidos>>
salidas   == <<conexion_memoria, conexion_cpu_dispatch>>
deConsola == <<consola, linea, i, renglon, ajuste, pedido>>
deLargo   == <<largo, tomado, admitidos>>
deFifo    == <<fifo, proceso_en_ejecucion, salidas>>
vars      == <<semaforos, colas, procesos, deConsola, deLargo, corto, deFifo, falla>>

Nulo == -1        \* NULL where a pcb is expected
Buffers == {"consola", "guion"}
Colas == {"new", "ready"}

Init ==
  /\ consola = "leer" /\ largo = "nuevo" /\ corto = "primero" /\ fifo = "esperar"
  /\ semaforo_multiprogramacion = GradoInicial
  /\ cantidad_procesos_new = 0 /\ cantidad_procesos_ready = 0
  /\ proceso_ejecutando = 0
  /\ procesos_new = <<>> /\ procesos_ready = <<>>
  /\ uso = [q \in Colas |-> "libre"]
  /\ pid = 0 /\ pcb = [p \in {} |-> Nulo] /\ pedida = [p \in {} |-> Basura]
  /\ linea = [b \in Buffers |-> Basura]
  /\ proceso_en_ejecucion = Nulo /\ tomado = Nulo
  /\ ajuste = 0 /\ i = 0 /\ renglon = 0
  /\ conexion_memoria = <<>> /\ conexion_cpu_dispatch = <<>>
  /\ falla = "ninguna"
  /\ grado_pedido = GradoInicial /\ admitidos = 0 /\ medidos = 0 /\ pedidos = 0

-----------------------------------------------------------------------------
(* so-commons' t_list, as these threads use it: list_add(l, x) appends in  *)
(* two steps (find the end, then link the node and count it) and           *)
(* list_remove(l, 0) takes the head.  A list_remove between the two steps  *)
(* leaves the links and the element count out of step: from then on a      *)
(* list_add may cut the tail off, lose its own node, or die.               *)

Encolar(l, x) == Append(l, x)
SinPrimero(l) == Tail(l)

EmpezarUso(u, q)  == [u EXCEPT ![q] = IF @ = "danada" THEN @ ELSE "agregando"]
TerminarUso(u, q) == [u EXCEPT ![q] = IF @ = "danada" THEN @ ELSE "libre"]
Interferir(u, q)  == [u EXCEPT ![q] = IF @ = "agregando" THEN "danada" ELSE @]

(* What the list can be when list_add ends. *)
ResultadosDeAgregar(l, x, q) ==
  {Encolar(l, x)} \union
  (IF uso[q] = "danada" THEN {l} \union {Encolar(SubSeq(l, 1, k), x) : k \in 0..Len(l)}
                        ELSE {})

(* The process ends: SIGSEGV. *)
Caer(motivo) == /\ falla' = motivo
                /\ UNCHANGED <<semaforos, colas, procesos, deConsola, deLargo,
                     corto, deFifo>>

Vivo == falla = "ninguna"
-----------------------------------------------------------------------------
(* Console thread: consola3, leerScript, iniciar_proceso.                  *)

EnConsola(donde) == Vivo /\ consola = donde

(* iniciar_proceso up to the middle of list_add(procesos_new, pcb): the    *)
(* path is the pointer into the caller's stack buffer b, not a copy.       *)
CrearPcb(b, r) ==
  /\ pid < MaxProcesos
  /\ pid' = pid + 1
  /\ pcb' = [p \in 0..pid |-> IF p = pid THEN [estado |-> "NEW", path |-> b] ELSE pcb[p]]
  /\ pedida' = [p \in 0..pid |-> IF p = pid THEN r ELSE pedida[p]]
  /\ uso' = EmpezarUso(uso, "new")
  /\ consola' = "agregar"

LeerIniciarProceso(r) ==
  /\ EnConsola("leer")
  /\ linea' = [linea EXCEPT !["consola"] = r]
  /\ CrearPcb("consola", r)
  /\ UNCHANGED <<semaforos, procesos_new, procesos_ready, i, renglon,
       ajuste, pedido, deLargo, corto, deFifo, falla>>

(* A mutant: sem_post only when the list was empty. *)
TerminarIniciarAhorrando ==
  /\ EnConsola("agregar")
  /\ \/ uso["new"] = "danada" /\ Caer("lista_danada")
     \/ /\ procesos_new' \in ResultadosDeAgregar(procesos_new, pid - 1, "new")
        /\ uso' = TerminarUso(uso, "new")
        /\ cantidad_procesos_new' =
             cantidad_procesos_new + (IF procesos_new = <<>> THEN 1 ELSE 0)
        /\ consola' = IF renglon = 0 THEN "leer" ELSE "guion"
        /\ UNCHANGED <<semaforo_multiprogramacion, cantidad_procesos_ready,
             proceso_ejecutando, procesos_ready, procesos, linea, i, renglon,
             ajuste, pedido, deLargo, corto, deFifo, falla>>

(* The rest of iniciar_proceso: the node is linked and sem_post wakes the  *)
(* long-term scheduler.                                                    *)
TerminarIniciar ==
  /\ EnConsola("agregar")
  /\ \/ uso["new"] = "danada" /\ Caer("lista_danada")
     \/ /\ procesos_new' \in ResultadosDeAgregar(procesos_new, pid - 1, "new")
        /\ uso' = TerminarUso(uso, "new")
        /\ cantidad_procesos_new' = cantidad_procesos_new + 1
        /\ consola' = IF renglon = 0 THEN "leer" ELSE "guion"
        /\ UNCHANGED <<semaforo_multiprogramacion, cantidad_procesos_ready,
             proceso_ejecutando, procesos_ready, procesos, linea, i, renglon,
             ajuste, pedido, deLargo, corto, deFifo, falla>>

(* EJECUTAR_SCRIPT [PATH] opens comandos.txt whatever its argument, which  *)
(* lies where an earlier path of INICIAR_PROCESO lay in the buffer.        *)
LeerEjecutarScript(r) ==
  /\ EnConsola("leer")
  /\ linea' = [linea EXCEPT !["consola"] = r]
  /\ renglon' = 1
  /\ consola' = "guion"
  /\ UNCHANGED <<semaforos, colas, procesos, i, ajuste, pedido, deLargo,
       corto, deFifo, falla>>

RenglonIniciar ==
  /\ EnConsola("guion") /\ renglon <= Len(Guion)
  /\ Guion[renglon] \in Rutas
  /\ linea' = [linea EXCEPT !["guion"] = Guion[renglon]]
  /\ CrearPcb("guion", Guion[renglon])
  /\ renglon' = renglon + 1
  /\ UNCHANGED <<semaforos, procesos_new, procesos_ready, i, ajuste,
       pedido, deLargo, corto, deFifo, falla>>

RenglonOtro ==
  /\ EnConsola("guion") /\ renglon <= Len(Guion)
  /\ Guion[renglon] = Otra
  /\ linea' \in {linea, [linea EXCEPT !["guion"] = Basura]}
  /\ renglon' = renglon + 1
  /\ UNCHANGED <<semaforos, colas, procesos, consola, i, ajuste, pedido,
       deLargo, corto, deFifo, falla>>

(* strtok of an empty line is NULL and strcmp dereferences it. *)
RenglonVacio ==
  /\ EnConsola("guion") /\ renglon <= Len(Guion)
  /\ Guion[renglon] = Vacia
  /\ Caer("linea_vacia")

(* After the script consola3 returns: there is no console any more. *)
TerminarScript ==
  /\ EnConsola("guion") /\ renglon > Len(Guion)
  /\ consola' = "fin"
  /\ UNCHANGED <<semaforos, colas, procesos, linea, i, renglon, ajuste,
       pedido, deLargo, corto, deFifo, falla>>

(* A command that only prints.  It overwrites the path of an earlier       *)
(* INICIAR_PROCESO unless it is shorter than that word.                    *)
LeerOtra ==
  /\ EnConsola("leer")
  /\ linea' \in {linea, [linea EXCEPT !["consola"] = Basura]}
  /\ UNCHANGED <<semaforos, colas, procesos, consola, i, renglon, ajuste,
       pedido, deLargo, corto, deFifo, falla>>

LeerVacia == EnConsola("leer") /\ Caer("linea_vacia")

-----------------------------------------------------------------------------
(* MULTIPROGRAMACION [VALOR] compares the value with the free slots it     *)
(* reads once, then posts or waits the difference one at a time.           *)

DiferenciaConElInicial(nuevo_grado, valor_semaforo) == nuevo_grado - GradoInicial   \* a mutant

Diferencia(nuevo_grado, valor_semaforo) == nuevo_grado - valor_semaforo

LeerMultiprogramacion(v) ==
  /\ EnConsola("leer") /\ pedidos < MaxPedidos
  /\ linea' = [linea EXCEPT !["consola"] = Basura]
  /\ ajuste' = Diferencia(v, semaforo_multiprogramacion)
  /\ grado_pedido' = v /\ medidos' = admitidos /\ pedidos' = pedidos + 1
  /\ consola' = "ajustar"
  /\ UNCHANGED <<semaforos, colas, procesos, i, renglon, deLargo, corto,
       deFifo, falla>>

AjustarPost ==
  /\ EnConsola("ajustar") /\ ajuste > 0
  /\ semaforo_multiprogramacion' = semaforo_multiprogramacion + 1
  /\ ajuste' = ajuste - 1
  /\ UNCHANGED <<cantidad_procesos_new, cantidad_procesos_ready,
       proceso_ejecutando, colas, procesos, consola, linea, i, renglon,
       pedido, deLargo, corto, deFifo, falla>>

(* Mutants: a sem_wait that does not block, and one that keeps a last slot. *)
AjustarTomando(minimo) ==
  /\ EnConsola("ajustar") /\ ajuste < 0
  /\ semaforo_multiprogramacion > minimo
  /\ semaforo_multiprogramacion' = semaforo_multiprogramacion - 1
  /\ ajuste' = ajuste + 1
  /\ UNCHANGED <<cantidad_procesos_new, cantidad_procesos_ready,
       proceso_ejecutando, colas, procesos, consola, linea, i, renglon,
       pedido, deLargo, corto, deFifo, falla>>
AjustarSinBloqueo == AjustarTomando(-2)
AjustarHastaUno   == AjustarTomando(1)

AjustarWait ==
  /\ EnConsola("ajustar") /\ ajuste < 0
  /\ semaforo_multiprogramacion > 0
  /\ semaforo_multiprogramacion' = semaforo_multiprogramacion - 1
  /\ ajuste' = ajuste + 1
  /\ UNCHANGED <<cantidad_procesos_new, cantidad_procesos_ready,
       proceso_ejecutando, colas, procesos, consola, linea, i, renglon,
       pedido, deLargo, corto, deFifo, falla>>

TerminarAjuste ==
  /\ EnConsola("ajustar") /\ ajuste = 0
  /\ consola' = "leer"
  /\ UNCHANGED <<semaforos, colas, procesos, linea, i, renglon, ajuste,
       pedido, deLargo, corto, deFifo, falla>>
-----------------------------------------------------------------------------
(* PROCESO_ESTADO: imprimir_estado_procesos walks READY, then NEW, then    *)
(* prints proceso_en_ejecucion.  list_size and list_get are two calls.     *)

LeerProcesoEstado ==
  /\ EnConsola("leer")
  /\ i' = 0 /\ consola' = "ver_ready"
  /\ UNCHANGED <<semaforos, colas, procesos, linea, renglon, ajuste, pedido,
       deLargo, corto, deFifo, falla>>

(* A mutant: i <= list_size(lista). *)
VerColaDeMas(q, lista, ver, obtener, luego) ==
  /\ EnConsola(ver)
  /\ \/ i <= Len(lista) /\ consola' = obtener /\ i' = i
     \/ i > Len(lista) /\ consola' = luego /\ i' = 0
  /\ UNCHANGED <<semaforos, colas, procesos, linea, renglon, ajuste, pedido,
       deLargo, corto, deFifo, falla>>

(* The loop test, i < list_size(lista): the count of a damaged list is off. *)
VerCola(q, lista, ver, obtener, luego) ==
  /\ EnConsola(ver)
  /\ \/ /\ i < Len(lista) \/ (i = Len(lista) /\ uso[q] = "danada")
        /\ consola' = obtener /\ i' = i
     \/ /\ i >= Len(lista) \/ uso[q] = "danada"
        /\ consola' = luego /\ i' = 0
  /\ UNCHANGED <<semaforos, colas, procesos, linea, renglon, ajuste, pedido,
       deLargo, corto, deFifo, falla>>

(* The loop body, list_get(lista, i)->pid: list_get is NULL past the end.  *)
ObtenerDeCola(lista, ver, obtener) ==
  /\ EnConsola(obtener)
  /\ \/ /\ i < Len(lista)
        /\ i' = i + 1 /\ consola' = ver
        /\ UNCHANGED <<semaforos, colas, procesos, linea, renglon, ajuste,
             pedido, deLargo, corto, deFifo, falla>>
     \/ i >= Len(lista) /\ Caer("lista_encogida")

ImprimirReady ==
  \/ VerCola("ready", procesos_ready, "ver_ready", "obtener_ready", "ver_new")
  \/ ObtenerDeCola(procesos_ready, "ver_ready", "obtener_ready")
ImprimirNew ==
  \/ VerCola("new", procesos_new, "ver_new", "obtener_new", "ver_exec")
  \/ ObtenerDeCola(procesos_new, "ver_new", "obtener_new")

ImprimirExec ==
  /\ EnConsola("ver_exec")
  /\ \/ /\ proceso_en_ejecucion # Nulo
        /\ consola' = "leer"
        /\ UNCHANGED <<semaforos, colas, procesos, linea, i, renglon, ajuste,
             pedido, deLargo, corto, deFifo, falla>>
     \/ proceso_en_ejecucion = Nulo /\ Caer("sin_ejecucion")
-----------------------------------------------------------------------------
(* Long-term scheduler: planificador_largo_plazo.                          *)

EnLargo(donde) == Vivo /\ largo = donde

LargoEsperarNuevo ==
  /\ EnLargo("nuevo") /\ cantidad_procesos_new > 0
  /\ cantidad_procesos_new' = cantidad_procesos_new - 1
  /\ largo' = "grado"
  /\ UNCHANGED <<semaforo_multiprogramacion, cantidad_procesos_ready,
       proceso_ejecutando, colas, procesos, deConsola, tomado, admitidos,
       corto, deFifo, falla>>

LargoEsperarGrado ==
  /\ EnLargo("grado") /\ semaforo_multiprogramacion > 0
  /\ semaforo_multiprogramacion' = semaforo_multiprogramacion - 1
  /\ admitidos' = admitidos + 1
  /\ largo' = "quitar"
  /\ UNCHANGED <<cantidad_procesos_new, cantidad_procesos_ready,
       proceso_ejecutando, colas, procesos, deConsola, tomado, corto, deFifo,
       falla>>

(* A mutant: list_remove of the last one.                                  *)
LargoQuitarUltimo ==
  /\ EnLargo("quitar")
  /\ \/ procesos_new = <<>> /\ Caer("lista_vacia")
     \/ LET n == Len(procesos_new) IN
        /\ n > 0
        /\ tomado' = procesos_new[n]
        /\ procesos_new' = SubSeq(procesos_new, 1, n - 1)
        /\ uso' = EmpezarUso(Interferir(uso, "new"), "ready")
        /\ pcb' = [pcb EXCEPT ![procesos_new[n]].estado = "READY"]
        /\ largo' = "agregar"
        /\ UNCHANGED <<semaforos, procesos_ready, pid, pedida, deConsola,
             admitidos, corto, deFifo, falla>>

(* list_remove(procesos_new, 0), estado = READY, list_add(procesos_ready)  *)
(* begins.                                                                 *)
LargoQuitar ==
  /\ EnLargo("quitar")
  /\ \/ procesos_new = <<>> /\ Caer("lista_vacia")
     \/ /\ procesos_new # <<>>
        /\ tomado' = Head(procesos_new)
        /\ procesos_new' = SinPrimero(procesos_new)
        /\ uso' = EmpezarUso(Interferir(uso, "new"), "ready")
        /\ pcb' = [pcb EXCEPT ![Head(procesos_new)].estado = "READY"]
        /\ largo' = "agregar"
        /\ UNCHANGED <<semaforos, procesos_ready, pid, pedida, deConsola,
             admitidos, corto, deFifo, falla>>

(* A mutant: the list_add is missing.                                      *)
LargoAvisarSinAgregar ==
  /\ EnLargo("agregar")
  /\ uso' = TerminarUso(uso, "ready")
  /\ cantidad_procesos_ready' = cantidad_procesos_ready + 1
  /\ tomado' = Nulo
  /\ largo' = "nuevo"
  /\ UNCHANGED <<semaforo_multiprogramacion, cantidad_procesos_new,
       proceso_ejecutando, procesos_new, procesos_ready, procesos, deConsola,
       admitidos, corto, deFifo, falla>>

LargoAgregar ==
  /\ EnLargo("agregar")
  /\ \/ uso["ready"] = "danada" /\ Caer("lista_danada")
     \/ /\ procesos_ready' \in ResultadosDeAgregar(procesos_ready, tomado, "ready")
        /\ uso' = TerminarUso(uso, "ready")
        /\ cantidad_procesos_ready' = cantidad_procesos_ready + 1
        /\ tomado' = Nulo
        /\ largo' = "nuevo"
        /\ UNCHANGED <<semaforo_multiprogramacion, cantidad_procesos_new,
             proceso_ejecutando, procesos_new, procesos, deConsola, admitidos,
             corto, deFifo, falla>>
-----------------------------------------------------------------------------
(* Short-term scheduler: planificador_corto_plazo.  It wakes FIFO for the  *)
(* first READY process only; from then on it just consumes the semaphore.  *)

(* A mutant: the first sem_wait is missing. *)
CortoSinEsperar ==
  /\ Vivo /\ corto = "primero"
  /\ corto' = "despertar"
  /\ UNCHANGED <<semaforos, colas, procesos, deConsola, deLargo, deFifo, falla>>

CortoEsperarPrimero ==
  /\ Vivo /\ corto = "primero" /\ cantidad_procesos_ready > 0
  /\ cantidad_procesos_ready' = cantidad_procesos_ready - 1
  /\ corto' = "despertar"
  /\ UNCHANGED <<semaforo_multiprogramacion, cantidad_procesos_new,
       proceso_ejecutando, colas, procesos, deConsola, deLargo, deFifo, falla>>

(* A mutant: the sem_post before the loop is missing. *)
CortoSinDespertar ==
  /\ Vivo /\ corto = "despertar"
  /\ corto' = "consumir"
  /\ UNCHANGED <<semaforos, colas, procesos, deConsola, deLargo, deFifo, falla>>

CortoDespertar ==
  /\ Vivo /\ corto = "despertar"
  /\ proceso_ejecutando' = proceso_ejecutando + 1
  /\ corto' = "consumir"
  /\ UNCHANGED <<semaforo_multiprogramacion, cantidad_procesos_new,
       cantidad_procesos_ready, colas, procesos, deConsola, deLargo, deFifo, falla>>

(* A mutant: the sem_post is inside the loop. *)
CortoDespertarSiempre ==
  /\ Vivo /\ corto = "consumir" /\ cantidad_procesos_ready > 0
  /\ cantidad_procesos_ready' = cantidad_procesos_ready - 1
  /\ proceso_ejecutando' = proceso_ejecutando + 1
  /\ UNCHANGED <<semaforo_multiprogramacion, cantidad_procesos_new, colas,
       procesos, deConsola, deLargo, corto, deFifo, falla>>

CortoConsumir ==
  /\ Vivo /\ corto = "consumir" /\ cantidad_procesos_ready > 0
  /\ cantidad_procesos_ready' = cantidad_procesos_ready - 1
  /\ UNCHANGED <<semaforo_multiprogramacion, cantidad_procesos_new,
       proceso_ejecutando, colas, procesos, deConsola, deLargo, corto, deFifo, falla>>
-----------------------------------------------------------------------------
(* FIFO: takes the oldest READY process, sends its path to the memory and  *)
(* its PCB to the CPU.                                                     *)

EnFifo(donde) == Vivo /\ fifo = donde

(* The bytes a path pointer leads to now.  Once consola3 has returned its  *)
(* stack is free and may hold anything.                                    *)
Apuntado(p) == {linea[pcb[p].path]} \union (IF consola = "fin" THEN {Basura} ELSE {})

FifoEsperar ==
  /\ EnFifo("esperar") /\ proceso_ejecutando > 0
  /\ proceso_ejecutando' = proceso_ejecutando - 1
  /\ fifo' = "quitar"
  /\ UNCHANGED <<semaforo_multiprogramacion, cantidad_procesos_new,
       cantidad_procesos_ready, colas, procesos, deConsola, deLargo, corto,
       proceso_en_ejecucion, salidas, falla>>

(* A mutant: list_get for list_remove, the process stays in READY.         *)
FifoObtener ==
  /\ EnFifo("quitar")
  /\ \/ procesos_ready = <<>> /\ Caer("lista_vacia")
     \/ /\ procesos_ready # <<>>
        /\ proceso_en_ejecucion' = Head(procesos_ready)
        /\ pcb' = [pcb EXCEPT ![Head(procesos_ready)].estado = "EXEC"]
        /\ fifo' = "largo_path"
        /\ UNCHANGED <<semaforos, colas, pid, pedida, deConsola, deLargo, corto,
             salidas, falla>>

FifoQuitar ==
  /\ EnFifo("quitar")
  /\ \/ procesos_ready = <<>> /\ Caer("lista_vacia")
     \/ /\ procesos_ready # <<>>
        /\ proceso_en_ejecucion' = Head(procesos_ready)
        /\ procesos_ready' = SinPrimero(procesos_ready)
        /\ uso' = Interferir(uso, "ready")
        /\ pcb' = [pcb EXCEPT ![Head(procesos_ready)].estado = "EXEC"]
        /\ fifo' = "largo_path"
        /\ UNCHANGED <<semaforos, procesos_new, pid, pedida, deConsola,
             deLargo, corto, salidas, falla>>

(* enviar_path: the length is measured and sent, then the string is read   *)
(* again and sent.                                                         *)
EnviarPath(campo, luego) ==
  /\ \E r \in Apuntado(proceso_en_ejecucion) :
       conexion_memoria' = Append(conexion_memoria, <<campo, r>>)
  /\ fifo' = luego
  /\ UNCHANGED <<semaforos, colas, procesos, deConsola, deLargo, corto,
       proceso_en_ejecucion, conexion_cpu_dispatch, falla>>

FifoEnviarLargo == EnFifo("largo_path") /\ EnviarPath("len", "path")
FifoEnviarPath  == EnFifo("path") /\ EnviarPath("str", "pcb")

(* serializar_pcb returns a packet it has freed, and enviar_pcb reads it:  *)
(* the PCB leaves intact, as garbage, not at all, or the kernel dies.      *)
FifoEnviarPcb ==
  /\ EnFifo("pcb")
  /\ \/ Caer("pcb_liberado")
     \/ /\ \E r \in Apuntado(proceso_en_ejecucion) :
             conexion_cpu_dispatch' \in
               {conexion_cpu_dispatch, Append(conexion_cpu_dispatch, Basura),
                Append(conexion_cpu_dispatch, <<proceso_en_ejecucion, r>>)}
        /\ fifo' = "esperar"
        /\ UNCHANGED <<semaforos, colas, procesos, deConsola, deLargo, corto,
             proceso_en_ejecucion, conexion_memoria, falla>>
-----------------------------------------------------------------------------
Operador ==
  \/ \E r \in Rutas : LeerIniciarProceso(r) \/ LeerEjecutarScript(r)
  \/ \E v \in Grados : LeerMultiprogramacion(v)
  \/ LeerProcesoEstado \/ LeerOtra \/ LeerVacia

Consola == \/ TerminarIniciar
           \/ RenglonIniciar \/ RenglonOtro \/ RenglonVacio \/ TerminarScript
           \/ AjustarPost \/ AjustarWait \/ TerminarAjuste
           \/ ImprimirReady \/ ImprimirNew \/ ImprimirExec

LargoPlazo == LargoEsperarNuevo \/ LargoEsperarGrado \/ LargoQuitar \/ LargoAgregar
CortoPlazo == CortoEsperarPrimero \/ CortoDespertar \/ CortoConsumir
FIFO == FifoEsperar \/ FifoQuitar \/ FifoEnviarLargo \/ FifoEnviarPath \/ FifoEnviarPcb

Next == Operador \/ Consola \/ LargoPlazo \/ CortoPlazo \/ FIFO

Spec == Init /\ [][Next]_vars

(* The operating system runs every thread that is not blocked; the         *)
(* operator owes the kernel no command.                                    *)
FairSpec == Spec /\ WF_vars(Consola) /\ WF_vars(LargoPlazo)
                 /\ WF_vars(CortoPlazo) /\ WF_vars(FIFO)
-----------------------------------------------------------------------------
TypeOK ==
  /\ consola \in {"leer", "agregar", "guion", "ajustar", "ver_ready", "obtener_ready",
                  "ver_new", "obtener_new", "ver_exec", "fin"}
  /\ largo \in {"nuevo", "grado", "quitar", "agregar"}
  /\ corto \in {"primero", "despertar", "consumir"}
  /\ fifo \in {"esperar", "quitar", "largo_path", "path", "pcb"}
  /\ semaforo_multiprogramacion \in Nat /\ cantidad_procesos_new \in Nat
  /\ cantidad_procesos_ready \in Nat /\ proceso_ejecutando \in Nat
  /\ pid \in 0..MaxProcesos
  /\ procesos_new \in Seq(0..pid-1) /\ procesos_ready \in Seq(0..pid-1)
  /\ uso \in [Colas -> {"libre", "agregando", "danada"}]
  /\ pcb \in [0..pid-1 -> [estado : {"NEW", "READY", "EXEC"}, path : Buffers]]
  /\ pedida \in [0..pid-1 -> Rutas]
  /\ linea \in [Buffers -> Rutas \union {Basura}]
  /\ proceso_en_ejecucion \in Nulo..pid-1 /\ tomado \in Nulo..pid-1
  /\ ajuste \in Int /\ i \in Nat /\ renglon \in Nat
  /\ conexion_memoria \in Seq({"len", "str"} \X (Rutas \union {Basura}))
  /\ conexion_cpu_dispatch \in Seq({Basura} \union ((0..pid-1) \X (Rutas \union {Basura})))
  /\ falla \in {"ninguna", "linea_vacia", "lista_vacia", "lista_danada",
                "lista_encogida", "sin_ejecucion", "pcb_liberado"}
  /\ grado_pedido \in Int /\ admitidos \in Nat /\ medidos \in Nat /\ pedidos \in 0..MaxPedidos

(* The places a process goes through, oldest first.                        *)
Elementos(l) == {l[k] : k \in DOMAIN l}
Creando == IF consola = "agregar" THEN {pid - 1} ELSE {}
Nuevos  == Elementos(procesos_new) \union Creando
Listos  == Elementos(procesos_ready) \union ({tomado} \ {Nulo})
Creciente(l) == \A a, b \in DOMAIN l : a < b => l[a] < l[b]

(* Processes are admitted and dispatched in the order in which they were   *)
(* created, and none is in two places: the lists and the pcb in a thread's *)
(* hands are in pid order from proceso_en_ejecucion back to the one being  *)
(* created.  This holds even after the lists have been damaged by a race.  *)
OrdenDeLlegada ==
  /\ Creciente(procesos_ready) /\ Creciente(procesos_new)
  /\ \A p \in Listos : proceso_en_ejecucion < p
  /\ \A p \in Listos, q \in Nuevos : p < q
  /\ \A p \in Nuevos : proceso_en_ejecucion < p
  /\ \A p \in Elementos(procesos_ready) : tomado # Nulo => p < tomado
  /\ \A p \in Elementos(procesos_new), q \in Creando : p < q

SinCarreras == \A q \in Colas : uso[q] # "danada"

(* No process created with INICIAR_PROCESO is lost, unless a list_remove   *)
(* of one thread has cut into a list_add of another.                       *)
NadieSePierde ==
  SinCarreras => Nuevos \union Listos \union ({proceso_en_ejecucion} \ {Nulo}) = 0..pid-1

(* list_remove finds a process whenever the semaphores let a scheduler     *)
(* call it: the kernel dies of an empty or broken list only after a race.  *)
CaidaDeListaPorCarrera == falla \in {"lista_vacia", "lista_danada"} => ~SinCarreras

(* PROCESO_ESTADO runs past the end of a list only if a scheduler has been *)
(* taking processes out of it, and finds nothing in EXEC only before the   *)
(* one dispatch: it never dies of a list that only grows.                  *)
CaidaDeEstado ==
  /\ falla = "lista_encogida" /\ consola = "obtener_ready" => proceso_en_ejecucion # Nulo
  /\ falla = "lista_encogida" /\ consola = "obtener_new" => admitidos > 0
  /\ falla = "sin_ejecucion" => conexion_memoria = <<>>

(* The short-term scheduler wakes FIFO once, before its loop: at most one  *)
(* process ever leaves READY and at most one path and one PCB are sent.    *)
UnSoloDespacho ==
  /\ \A p, q \in 0..pid-1 : pcb[p].estado = "EXEC" /\ pcb[q].estado = "EXEC" => p = q
  /\ Len(conexion_memoria) <= 2 /\ Len(conexion_cpu_dispatch) <= 1

(* MULTIPROGRAMACION compares with a semaphore value it read once: the free *)
(* slots and what its loop has still to do are the value asked for less    *)
(* what the long-term scheduler has taken since the read, whenever it does.*)
AjusteExacto ==
  semaforo_multiprogramacion + ajuste = grado_pedido - (admitidos - medidos)

(* What a degree does bound: once its loop is over MULTIPROGRAMACION [n]    *)
(* lets n processes in, counted from when it read the semaphore, and until *)
(* the next one no more, however many had been let in before.              *)
CupoDelPedido == consola # "ajustar" => admitidos - medidos <= grado_pedido

(* No sem_post is lost: while a process is in NEW the long-term scheduler  *)
(* does not sleep on a semaphore at zero, nor the short-term one before    *)
(* the first READY process, nor FIFO once it has to be sent.  This holds   *)
(* even after the lists have been damaged by a race.                       *)
SinAvisoPerdido ==
  /\ procesos_new # <<>> /\ largo = "nuevo" => cantidad_procesos_new > 0
  /\ procesos_ready # <<>> /\ corto = "primero" => cantidad_procesos_ready > 0
  /\ corto = "consumir" /\ fifo = "esperar" /\ proceso_en_ejecucion = Nulo
       => proceso_ejecutando > 0

(* The path sent to the memory is the one the process was started with.    *)
RutaFiel ==
  \A k \in DOMAIN conexion_memoria :
    conexion_memoria[k][2] = pedida[proceso_en_ejecucion]

(* After the console has announced a new degree, no process is admitted    *)
(* while that many are in memory already.                                  *)
AdmisionDentroDelGrado ==
  [][(admitidos' > admitidos /\ consola # "ajustar") => admitidos < grado_pedido]_vars

(* The first process created reaches the memory, unless the operator has   *)
(* left no slot for it or the kernel dies.                                 *)
PrimeroSeDespacha ==
  pid > 0 ~> \/ Len(conexion_memoria) = 2
             \/ ~Vivo
             \/ admitidos = 0 /\ semaforo_multiprogramacion = 0

(* A process stays in NEW for ever only for want of a slot.                *)
NewEsperaSoloCupo ==
  <>[](Vivo /\ procesos_new # <<>>) => <>[](semaforo_multiprogramacion = 0)

(* The console hangs in MULTIPROGRAMACION only in sem_wait, for a slot     *)
(* nobody is going to return.                                              *)
ConsolaSoloEsperaCupo ==
  <>[](Vivo /\ consola = "ajustar") => <>[](ajuste < 0 /\ semaforo_multiprogramacion = 0)

Abstracta == INSTANCE Planificacion WITH
  creados <- pid, nuevos <- Nuevos, listos <- Listos,
  ejecutando <- proceso_en_ejecucion, danadas <- {q \in Colas : uso[q] = "danada"}

(* The threads, semaphores and lists implement the life cycle NEW, READY,  *)
(* EXEC in order of arrival that Planificacion states.                     *)
CumplePlanificacion == Abstracta!Spec
=============================================================================
