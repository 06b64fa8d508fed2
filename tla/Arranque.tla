------------------------------ MODULE Arranque ------------------------------
(***************************************************************************)
(* How the four programs find each other: memoria opens a server and three *)
(* threads accept one client each, in turns; the CPU connects to memoria   *)
(* and opens two servers; the kernel connects to memoria and to both       *)
(* servers of the CPU, then opens its own; an interface connects to        *)
(* memoria and to the kernel, then opens a server nobody connects to.      *)
(* Programs are started in any order and at any time.                      *)
(***************************************************************************)
EXTENDS Integers, Sequences, FiniteSets

CONSTANT Interfaces     \* the programs entradasalida the operator may start

ASSUME InterfacesOK == Interfaces \intersect {"kernel", "cpu", "nadie"} = {}

VARIABLES
  memoria,     \* main of memoria
  hilo,        \* its three threads
  semaforo,    \* one per thread: semaforo_hilo_cpu, _kernel, _entradasalida
  atiende,     \* the client each thread accepted
  kernel,      \* main of kernel
  atendidas,   \* interfaces that got a thread of the kernel
  cpu,         \* the three threads of the CPU
  interfaz,    \* main of each interface
  escucha,     \* ports with a listening socket
  cola,        \* per port: clients connected and not yet accepted
  llegadas     \* history: clients of memoria in the order they connected

deMemoria == <<memoria, hilo, semaforo, atiende>>
deKernel  == <<kernel, atendidas>>
red       == <<escucha, cola, llegadas>>
vars      == <<deMemoria, deKernel, cpu, interfaz, red>>

Hilos    == {"cpu", "kernel", "io"}
Clientes == {"kernel", "cpu"} \union Interfaces
Puertos  == {"memoria", "dispatch", "interrupt", "kernel", "interfaz"}

Init ==
  /\ memoria = "apagada" /\ kernel = "apagado"
  /\ hilo = [h \in Hilos |-> "apagado"]
  /\ semaforo = [h \in Hilos |-> IF h = "cpu" THEN 1 ELSE 0]
  /\ atiende = [h \in Hilos |-> "nadie"]
  /\ atendidas = {}
  /\ cpu = [t \in {"memoria", "dispatch", "interrupt"} |-> "apagado"]
  /\ interfaz = [x \in Interfaces |-> "apagada"]
  /\ escucha = {} /\ cola = [p \in Puertos |-> <<>>] /\ llegadas = <<>>
-----------------------------------------------------------------------------
(* crear_conexion: connect until the port listens.  The client is through  *)
(* as soon as it is in the queue; accept comes later or never.             *)
Conectar(c, p) ==
  /\ p \in escucha
  /\ cola' = [cola EXCEPT ![p] = Append(@, c)]
  /\ llegadas' = IF p = "memoria" THEN Append(llegadas, c) ELSE llegadas
  /\ UNCHANGED escucha

(* iniciar_servidor on a free port. *)
AbrirServidor(p) ==
  /\ p \notin escucha
  /\ escucha' = escucha \union {p}
  /\ UNCHANGED <<cola, llegadas>>

(* esperar_cliente *)
Aceptar(p, c) ==
  /\ cola[p] # <<>> /\ c = Head(cola[p])
  /\ cola' = [cola EXCEPT ![p] = Tail(@)]
  /\ UNCHANGED <<escucha, llegadas>>
-----------------------------------------------------------------------------
MemoriaEncender ==
  /\ memoria = "apagada" /\ memoria' = "config"
  /\ UNCHANGED <<hilo, semaforo, atiende, deKernel, cpu, interfaz, red>>

(* leer_config never finds PATH_INSTRUCCIONES, which is no number: it      *)
(* destroys logger and configuration and returns, and main goes on using   *)
(* both.  Memoria dies of it or gets away with it.                         *)
MemoriaLeerConfig ==
  /\ memoria = "config" /\ memoria' \in {"abrir", "muerta"}
  /\ UNCHANGED <<hilo, semaforo, atiende, deKernel, cpu, interfaz, red>>

MemoriaAbrir ==
  /\ memoria = "abrir" /\ memoria' = "hilos"
  /\ AbrirServidor("memoria")
  /\ hilo' = [h \in Hilos |-> "semaforo"]
  /\ UNCHANGED <<semaforo, atiende, deKernel, cpu, interfaz>>

(* Mutants: a thread that does not wait for its turn, and one that takes a *)
(* turn the semaphore does not have.                                       *)
HiloSinTurno(h) ==
  /\ hilo[h] = "semaforo" /\ hilo' = [hilo EXCEPT ![h] = "aceptar"]
  /\ UNCHANGED <<memoria, semaforo, atiende, deKernel, cpu, interfaz, red>>
HiloTurnoPrestado(h) ==
  /\ hilo[h] = "semaforo" /\ hilo' = [hilo EXCEPT ![h] = "aceptar"]
  /\ semaforo' = [semaforo EXCEPT ![h] = @ - 1]
  /\ UNCHANGED <<memoria, atiende, deKernel, cpu, interfaz, red>>

HiloEsperarTurno(h) ==
  /\ hilo[h] = "semaforo" /\ semaforo[h] > 0
  /\ semaforo' = [semaforo EXCEPT ![h] = @ - 1]
  /\ hilo' = [hilo EXCEPT ![h] = "aceptar"]
  /\ UNCHANGED <<memoria, atiende, deKernel, cpu, interfaz, red>>

(* A mutant: conexion_Kernel posts its own semaphore. *)
SiguienteErrado(h) == "kernel"

(* The thread whose turn comes when h has a client.                        *)
Siguiente(h) == CASE h = "cpu" -> "kernel" [] h = "kernel" -> "io" [] h = "io" -> "kernel"

HiloAceptar(h) ==
  /\ hilo[h] = "aceptar"
  /\ \E c \in Clientes : Aceptar("memoria", c) /\ atiende' = [atiende EXCEPT ![h] = c]
  /\ semaforo' = [semaforo EXCEPT ![Siguiente(h)] = @ + 1]
  /\ hilo' = [hilo EXCEPT ![h] = "atender"]
  /\ UNCHANGED <<memoria, deKernel, cpu, interfaz>>
-----------------------------------------------------------------------------
KernelEncender ==
  /\ kernel = "apagado" /\ kernel' = "memoria"
  /\ UNCHANGED <<deMemoria, atendidas, cpu, interfaz, red>>

(* A mutant: no retry, the kernel exits when nobody listens. *)
KernelConectarUnaVez(p, luego) ==
  /\ kernel = p
  /\ \/ Conectar("kernel", p) /\ kernel' = luego
     \/ p \notin escucha /\ kernel' = "muerto" /\ UNCHANGED red
  /\ UNCHANGED <<deMemoria, atendidas, cpu, interfaz>>

KernelConectar(p, luego) ==
  /\ kernel = p /\ kernel' = luego
  /\ Conectar("kernel", p)
  /\ UNCHANGED <<deMemoria, atendidas, cpu, interfaz>>

KernelConectarMemoria == KernelConectar("memoria", "dispatch")
KernelConectarDispatch == KernelConectar("dispatch", "interrupt")

(* A mutant: the server opens without the interrupt connection. *)
KernelSaltarInterrupt ==
  /\ kernel = "interrupt" /\ kernel' = "abrir"
  /\ UNCHANGED <<deMemoria, atendidas, cpu, interfaz, red>>

KernelConectarInterrupt == KernelConectar("interrupt", "abrir")

(* The server, then the console and the schedulers' threads. *)
KernelAbrir ==
  /\ kernel = "abrir" /\ kernel' = "aceptar"
  /\ AbrirServidor("kernel")
  /\ UNCHANGED <<deMemoria, atendidas, cpu, interfaz>>

KernelAceptar ==
  /\ kernel = "aceptar"
  /\ \E x \in Interfaces : Aceptar("kernel", x) /\ atendidas' = atendidas \union {x}
  /\ UNCHANGED <<deMemoria, kernel, cpu, interfaz>>
-----------------------------------------------------------------------------
CpuEncender ==
  /\ cpu["memoria"] = "apagado"
  /\ cpu' = [t \in DOMAIN cpu |-> IF t = "memoria" THEN "conectar" ELSE "abrir"]
  /\ UNCHANGED <<deMemoria, deKernel, interfaz, red>>

CpuConectarMemoria ==
  /\ cpu["memoria"] = "conectar"
  /\ Conectar("cpu", "memoria")
  /\ cpu' = [cpu EXCEPT !["memoria"] = "listo"]
  /\ UNCHANGED <<deMemoria, deKernel, interfaz>>

CpuAbrir(t) ==
  /\ cpu[t] = "abrir"
  /\ AbrirServidor(t)
  /\ cpu' = [cpu EXCEPT ![t] = "esperar"]
  /\ UNCHANGED <<deMemoria, deKernel, interfaz>>

CpuEsperarCliente(t) ==
  /\ cpu[t] = "esperar"
  /\ Aceptar(t, "kernel")
  /\ cpu' = [cpu EXCEPT ![t] = "atender"]
  /\ UNCHANGED <<deMemoria, deKernel, interfaz>>
-----------------------------------------------------------------------------
InterfazEncender(x) ==
  /\ interfaz[x] = "apagada"
  /\ interfaz' = [interfaz EXCEPT ![x] = "memoria"]
  /\ UNCHANGED <<deMemoria, deKernel, cpu, red>>

(* A mutant: no retry, the interface exits when memoria does not listen. *)
InterfazConectarUnaVez(x) ==
  /\ interfaz[x] = "memoria"
  /\ \/ Conectar(x, "memoria") /\ interfaz' = [interfaz EXCEPT ![x] = "kernel"]
     \/ /\ "memoria" \notin escucha
        /\ interfaz' = [interfaz EXCEPT ![x] = "muerta"] /\ UNCHANGED red
  /\ UNCHANGED <<deMemoria, deKernel, cpu>>

InterfazConectarMemoria(x) ==
  /\ interfaz[x] = "memoria"
  /\ Conectar(x, "memoria")
  /\ interfaz' = [interfaz EXCEPT ![x] = "kernel"]
  /\ UNCHANGED <<deMemoria, deKernel, cpu>>

InterfazConectarKernel(x) ==
  /\ interfaz[x] = "kernel"
  /\ Conectar(x, "kernel")
  /\ interfaz' = [interfaz EXCEPT ![x] = "abrir"]
  /\ UNCHANGED <<deMemoria, deKernel, cpu>>

(* Every interface reads the same configuration file and so the same port: *)
(* iniciar_servidor exits when bind fails.                                 *)
InterfazAbrir(x) ==
  /\ interfaz[x] = "abrir"
  /\ \/ AbrirServidor("interfaz") /\ interfaz' = [interfaz EXCEPT ![x] = "servir"]
     \/ /\ "interfaz" \in escucha
        /\ interfaz' = [interfaz EXCEPT ![x] = "muerta"] /\ UNCHANGED red
  /\ UNCHANGED <<deMemoria, deKernel, cpu>>
-----------------------------------------------------------------------------
Operador == \/ MemoriaEncender \/ KernelEncender \/ CpuEncender
            \/ \E x \in Interfaces : InterfazEncender(x)

Memoria == MemoriaLeerConfig \/ MemoriaAbrir
Hilo(h) == HiloEsperarTurno(h) \/ HiloAceptar(h)
Kernel == \/ KernelConectarMemoria \/ KernelConectarDispatch
          \/ KernelConectarInterrupt \/ KernelAbrir \/ KernelAceptar
CpuServidor(t) == CpuAbrir(t) \/ CpuEsperarCliente(t)
Interfaz(x) == \/ InterfazConectarMemoria(x) \/ InterfazConectarKernel(x)
               \/ InterfazAbrir(x)

Next == \/ Operador \/ Memoria \/ Kernel \/ CpuConectarMemoria
        \/ \E h \in Hilos : Hilo(h)
        \/ \E t \in {"dispatch", "interrupt"} : CpuServidor(t)
        \/ \E x \in Interfaces : Interfaz(x)

Spec == Init /\ [][Next]_vars

(* Programs and threads run; connect is retried for ever every two         *)
(* seconds.  Nobody has to start a program.                                *)
FairSpec == /\ Spec
            /\ WF_vars(Memoria) /\ WF_vars(Kernel) /\ WF_vars(CpuConectarMemoria)
            /\ \A h \in Hilos : WF_vars(Hilo(h))
            /\ \A t \in {"dispatch", "interrupt"} : WF_vars(CpuServidor(t))
            /\ \A x \in Interfaces : WF_vars(Interfaz(x))
-----------------------------------------------------------------------------
TypeOK ==
  /\ memoria \in {"apagada", "config", "abrir", "hilos", "muerta"}
  /\ hilo \in [Hilos -> {"apagado", "semaforo", "aceptar", "atender"}]
  /\ semaforo \in [Hilos -> Nat]
  /\ atiende \in [Hilos -> Clientes \union {"nadie"}]
  /\ kernel \in {"apagado", "memoria", "dispatch", "interrupt", "abrir", "aceptar"}
  /\ atendidas \subseteq Interfaces
  /\ cpu \in [{"memoria", "dispatch", "interrupt"} ->
                {"apagado", "conectar", "listo", "abrir", "esperar", "atender"}]
  /\ interfaz \in [Interfaces -> {"apagada", "memoria", "kernel", "abrir", "servir", "muerta"}]
  /\ escucha \subseteq Puertos
  /\ cola \in [Puertos -> Seq(Clientes)] /\ llegadas \in Seq(Clientes)

Atendido(h) == IF atiende[h] = "nadie" THEN <<>> ELSE <<atiende[h]>>
Atendidos == Atendido("cpu") \o Atendido("kernel") \o Atendido("io")

(* The semaphores make memoria's threads take turns: clients are given to  *)
(* conexion_CPU, conexion_Kernel and conexion_entradasalida in the order   *)
(* in which they connected, each to one thread.                            *)
AtencionPorLlegada == Atendidos \o cola["memoria"] = llegadas

(* The kernel plans no process before it is connected to memoria and to    *)
(* both servers of the CPU, and an interface serves (or dies of the busy   *)
(* port) only when memoria and the kernel already know it.                 *)
Elementos(l) == {l[k] : k \in DOMAIN l}
ConectadosAntesDeServir ==
  /\ kernel \in {"abrir", "aceptar"} =>
       /\ "kernel" \in Elementos(llegadas)
       /\ \A t \in {"dispatch", "interrupt"} : cola[t] = <<"kernel">> \/ cpu[t] = "atender"
  /\ \A x \in Interfaces : interfaz[x] \in {"servir", "muerta"} =>
       /\ x \in Elementos(llegadas)
       /\ x \in atendidas \union Elementos(cola["kernel"])

(* The thread of memoria called after a program serves that program.       *)
HiloDelCliente ==
  /\ atiende["cpu"] \in {"nadie", "cpu"}
  /\ atiende["kernel"] \in {"nadie", "kernel"}

(* Started in whatever order, the kernel gets to its accept loop, unless   *)
(* memoria has died.                                                       *)
KernelArranca ==
  (kernel # "apagado" /\ cpu["memoria"] # "apagado" /\ memoria # "apagada")
    ~> (kernel = "aceptar" \/ memoria = "muerta")

(* Once the kernel listens, of the interfaces started one ends up serving  *)
(* and no other does: the rest die of the busy port.                       *)
UnaInterfazSirve ==
  (kernel = "aceptar" /\ \E x \in Interfaces : interfaz[x] # "apagada")
    ~> [](\E x \in Interfaces : /\ interfaz[x] = "servir"
                                /\ \A y \in Interfaces \ {x} : interfaz[y] # "servir")

(* With one interface at most, every program that connects to memoria gets *)
(* a thread.  With two, the kernel itself may be the one left out.         *)
TodosAtendidos ==
  [](Cardinality({x \in Interfaces : interfaz[x] # "apagada"}) <= 1) =>
    \A c \in Clientes : (c \in Elementos(llegadas)) ~> (\E h \in Hilos : atiende[h] = c)
=============================================================================
