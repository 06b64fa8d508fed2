# A TLA+ model of tp-2024-1c-GFALT

The repository is a student operating system in five C modules: four programs
(`kernel`, `cpu`, `memoria`, `entradasalida`) that talk over TCP on one machine,
and a library (`utils`) that each of them includes. This directory models the
behaviour of that code, checks it with TLC and proves with TLAPS, for every
value of the constants, every safety property that the passing runs check
(section 4).
Paths below are relative to `src/tp-2024-1c-GFALT/`.

## 1. Inventory

| component | state | operations | talks to |
|---|---|---|---|
| **kernel, process scheduler** `kernel/src/main.c` | lists `procesos_new`, `procesos_ready`; semaphores `semaforo_multiprogramacion`, `cantidad_procesos_new`, `cantidad_procesos_ready`, `proceso_ejecutando`; `pid`, `proceso_en_ejecucion`; the line buffers of `consola3` and `leerScript` | console commands (`consola3`, `leerScript`, `iniciar_proceso`, `imprimir_estado_procesos`), `planificador_largo_plazo`, `planificador_corto_plazo`, `FIFO` | memoria (paths), cpu (PCBs) |
| **kernel, interface threads** `kernel/src/main.c` | one thread and one descriptor number per interface; global `interfaz_info` | accept loop of `main`, `conexion_entradasalida`, `enviar_operacion_io` | entradasalida |
| **memoria, message threads** `memoria/src/main.c` | server socket, three turn semaphores | `conexion_CPU`, `conexion_Kernel`, `conexion_entradasalida`, `leer_config` | all the others |
| **memoria, instruction store** | dictionary pid -> instructions | `leer_archivopseudocode`, `enviar_instruccion_a_cpu`, `instruccion_destroyer` (no caller) | cpu |
| **cpu** `cpu/src/main.c` | two server sockets, one client socket | `recibir_kernel_dispatch`, `recibir_kernel_interrupt`, `conectar_a_memoria`; the instruction cycle is commented out | kernel, memoria |
| **entradasalida** `entradasalida/src/main.c` | name, type, server socket | `main`, `conectar_kernel`; `recibir_operacion_kernel` and `validar_operacion`, never reached | memoria, kernel |
| **utils** `utils/src/utils/*.c` | none | `crear_conexion`, `iniciar_servidor`, `esperar_cliente`, packets, paths, PCBs, `recibir_operacion` | |

What is hard in each, and what makes it correct:

- *Scheduler.* Four threads share two unlocked lists and four semaphores. A
  process has to go from NEW to READY to EXEC in order of arrival, in one place
  at a time, and none may be lost; the semaphores have to count what the lists
  hold; changing the degree of multiprogramming while processes are admitted
  has to end at the value asked for. Paths are pointers into buffers that other
  commands overwrite.
- *Interface threads.* A thread keeps the number of a descriptor that has been
  closed, `accept` hands the number out again, and `interfaz_info` is one global
  for all threads. An interface should be registered with its own name and type,
  told its operation, and its connection closed only when it has gone.
- *Start-up.* Programs are started in any order and connect for ever; memoria
  gives roles to clients by order of arrival. Everybody should be served and
  nobody should serve too early.
- *memoria, cpu, wire protocol.* Byte streams read with the wrong framing, the
  CPU reading its listening socket, descriptors reread after they are closed.

The full list of hazards with their lines is in `PROJECT.json`.

## 2. Modules

| module | what it is |
|---|---|
| `Planificacion` | abstract life cycle of processes: numbered at creation, admitted and dispatched oldest first |
| `Kernel` | the scheduler: console, long-term and short-term schedulers, `FIFO` |
| `Arranque` | how the four programs connect to each other |
| `Interfaces` | the interfaces and the kernel's threads that serve them |
| `Memoria` | the three threads of memoria, the messages and paths they read and the descriptor numbers they close and reread |
| `Protocolo` | the bytes on one connection: what each function writes and its receiver reads |
| `KernelProofs`, `KernelListasProofs` | theorems about `Kernel`: the counters and the order; the lists and the refinement |
| `ArranqueProofs`, `InterfacesProofs` | theorems about these |
| `TramasProofs`, `ProtocoloProofs` | theorems about `Protocolo`: the frames and their bytes; the connection |
| `MemoriaProofs`, `MemoriaRutasProofs` | theorems about `Memoria`: the descriptors; the paths |
| `MCKernel`, `MCArranque`, `MCInterfaces`, `MCMemoria`, `MCProtocolo` | instances for TLC |

`Kernel` and `Interfaces` are two parts of one process that share no variable:
`main` starts the scheduler's threads and then only accepts interfaces, and the
thread of an interface touches no list or semaphore. What joins them is that a
death of the kernel in one ends the other. `Arranque` says in which states of
the other programs they begin: connected to memoria and to both servers of the
CPU. `Memoria` takes over where `Arranque` ends, at the accepts of memoria's
threads, and repeats its turns because the descriptor a thread gets depends on
them; its words are the sends whose bytes `Protocolo` follows one by one.
Names of variables and actions are the source's where it has one;
the rest is in Spanish, as the source is.

### Kernel

| code | model |
|---|---|
| a thread between two accesses to shared state | one step; `consola`, `largo`, `corto`, `fifo` say where each thread is |
| `sem_wait`, `sem_post`, `sem_getvalue` | a guard and a counter |
| `list_add` | two steps (find the end; link and count); a `list_remove` between them leaves the list `"danada"` and from then on `list_add` may cut it, lose its node or die |
| `pcb->path` | the buffer it points into (`pcb[p].path`), with `linea` the bytes there now |
| use of a freed packet (`serializar_pcb`, `enviar_pcb`) | the PCB is sent, garbage is sent, nothing is sent, or the kernel dies |
| a dereference of NULL | `falla` names the cause and no thread moves again |

Abstractions. Command lines have the words of the menu separated by one space,
so a command overwrites the place where an earlier path lies, or is too short
to reach it (`LeerOtra`). A line is read into the buffer in one step. The walk
of a list is one step, its loop test and `list_get` two. `sem_post` after
`list_add` is merged with the end of `list_add`: whoever it wakes can only run
later. End of file on the console leaves the last line in the buffer and
repeats a command: `LeerOtra` and the others cover it. memoria and the CPU do
not die, so the sends of `FIFO` do not fail.

### Arranque

A client is connected as soon as it is in the queue of a listening port, and
`accept` comes later or never: that is all `Conectar` and `Aceptar` are. `bind`
and `listen` are one step (`AbrirServidor`): of two programs that open a port
one gets it and the other ends. (`SO_REUSEADDR` lets both interfaces bind before
either listens; then the second `listen` fails unseen, the `accept` after it
fails too, and the thread `main` starts all the same dies as under *Protocolo*.)
The retry of `crear_conexion` every two seconds is the action waiting for its guard.
`leer_config` never finds `IP_ESCUCHA` and reads `PATH_INSTRUCCIONES` as a
number, so it always destroys the logger and the configuration that `main` goes
on using: memoria survives or dies, and the model allows both.

### Interfaces

The registration is four words: length, name, length, type. A `recv` in
progress holds the connection its descriptor led to when it was called
(`leyendo`), whatever happens to the number meanwhile. `accept` reserves the
lowest free number when it is called, as Linux does, and returns it when a
connection comes. Words read out of step are garbage, and what stays in the
connection is out of step as well (`desalineadas`). The stores through
`interfaz_info` may go to the structure the thread has just allocated or to
the one the global leads to by then, since the compiler may or may not
read the global again. A `recv` gets the whole word of one `send`, which the
loopback interface gives for words this short. The kernel sends a second word to
an interface that has gone: the reset may have come (an error, or SIGPIPE) or not.

### Memoria

| code | model |
|---|---|
| `socket_cliente_cpu`, ... | `numero[h]`: the number the thread goes on using after `close` |
| descriptors of the process | `tabla`: a connection, `"reservado"` by an `accept` in progress, or free |
| `enviar_mensaje`, `enviar_path` | `Envio`: one send of code, length and text; two sends, of length and text |
| `recibir_operacion` | `LeerOperacion`, or `Fallar` and then `Cerrar`, between which other threads run |
| `recibir_mensaje`, `recibir_path` | `LeerLargo` and `LeerTexto`; out of step `LeerDesalineado` |

A connection is a sequence of words, each with the client and the frame it
belongs to. In step a read takes a word; out of step (the number is shared, and
two threads take turns at one stream) it takes part of a text, words and parts
of words, or waits, and what it logs is garbage; a text without its zero may
kill memoria (`viva`). `recv` looks its number up when it is called: a thread
that waits on a connection which another thread closes goes on with it
(`leyendo`), a thread that has not called yet finds what the number leads to by
then, and `Cerrar` chooses which. The `recv` with `MSG_PEEK` of
`recibir_operacion` and the one that follows are one step, as nothing the model
tells apart can come between them. `accept` reserves the lowest free number. A
send to a connection memoria has closed is lost and may kill the client. The
handler of SIGINT ends memoria and is left out.

### Protocolo

The bytes are real: integers are four bytes, low first, and texts are bytes
ended by a zero. `canal` says which of the seven pairs of functions is at the
two ends. The sender makes one send at a time and may end between two; TCP keeps
the order and cuts anywhere, of which `Cortes` takes the cuts a receiver tells
apart: fewer bytes than its `recv` wants, as many, and more. A `recv` without
`MSG_WAITALL` returns what there is, and `recibir_PCB` gives up when that is a
part (`LeerParcial`).

The real connections are `memoria`, `rutas`, `dispatch` and `interrupt`. The
pairs `operacion`, `pcb` and `paquete` are written for each other but no program
puts them at the two ends of one connection; what holds of them is what the
functions do when it does. What `conectar_kernel` does is die: its first
statement logs through the global `logger`, which nothing sets, since `main`
assigns the log it creates to a local of the same name
(`entradasalida/src/main.c:23`, `:66`, `:102-106`). That is `HiloSinLogger`:
nothing sent to an interface is received, `recibir_operacion_kernel` is never
called, and what the properties say of `operacion` is that nothing is received
that was not sent.

`enviar_pcb` always writes the code `PCB`, so `DeserializarPcb` begins after the
check of the code in `deserializar_paquete_pcb`, which cannot fail.
`crear_pcb` never sets `edx`, `si` and `di` (it sets `dx` twice), so what
`malloc` left there is a constant, `Sobras`. The loop of `recibir_paquete` is
one step a turn (`LeerPaquete`, `SiguienteValor`, `DevolverValores`): a length
that is itself in the packet says where the next one is. That `enviar_pcb` reads a packet
already freed is in `Kernel` and is left out here.

## 3. Runs

| run | instance | what it shows |
|---|---|---|
| `scheduler` | 3 processes, 1 path, degrees {0, 3}, script with one other line and one path, 1 change of degree | `TypeOK`; `OrdenDeLlegada`; `NadieSePierde`; `CaidaDeListaPorCarrera`; `CaidaDeEstado`; `UnSoloDespacho`; `AjusteExacto`; `CupoDelPedido`; `SinAvisoPerdido`; `CumplePlanificacion` |
| `scheduler_liveness` | 2 processes, script with a path and an empty line, fair threads | `PrimeroSeDespacha`, `NewEsperaSoloCupo`, `ConsolaSoloEsperaCupo` |
| `scheduler_path` | 2 paths | violates `RutaFiel`: the memory gets the text of a later line |
| `scheduler_degree` | 5 processes | violates `AdmisionDentroDelGrado`: `MULTIPROGRAMACION 3` with two admitted admits three more |
| `startup` | 2 interfaces, fair | `TypeOK`, `AtencionPorLlegada`, `ConectadosAntesDeServir`, `KernelArranca`, `UnaInterfazSirve`, `TodosAtendidos` |
| `startup_thread` | 2 interfaces | violates `HiloDelCliente`: the thread named after the CPU serves another program |
| `interfaces` | 2 interfaces of different types | `TypeOK`, `RegistroPropio`, `CierreAjenoSoloPorReuso` |
| `interfaces_close` | the same | violates `CierraLaCerrada`: the thread of a dead interface closes the connection of a live one |
| `interfaces_global` | the same | violates `InterfazCoherente`: the name of one interface with the type of another |
| `interfaces_send` | the same | violates `SobreviveAlEnvio`: SIGPIPE instead of the error the code logs |
| `memoria` | a kernel with one path and two other clients, fair `conexion_Kernel` | `TypeOK`, `RutasEnOrden`, `CompartenSoloTrasIda`, `CierreSoloTrasIda`, `RutaLlega` |
| `protocolo` | 2 texts, 2 instructions, 1 PCB, 2 sends a connection, fair network and receiver | `TypeOK`, `Fiel`, `EsperaLoDebido`, `DispatchSordo`, `TodoLlega`, `InterruptTermina` |

The runs marked *violates* each check one property that a comment or a message
of the code states and the code does not keep; `PROJECT.json` quotes the line.

**Bounds.** `MaxProcesos` bounds the processes, `MaxPedidos` the
`MULTIPROGRAMACION` commands; nothing else is cut. Three processes are one in
each of EXEC, READY and NEW, with the initial degree 2 below them so that one
waits for a slot; degree 0 makes the console wait, degree 3 makes it post. One
change of degree is enough for every overlap with an admission, since each
change reads the semaphore afresh. With two interfaces one can die and leave
its number to the other; the third client of memoria's single interface turn in
`startup` is the kernel. Where interfaces are started in `Interfaces` each is
started once: a restart is another interface with another name.

In `memoria` three clients are one for each thread, and the fourth accept, the
second turn of a thread, does not exist: each accepts once. One path is two
sends, so that a kernel may leave before, between and after them; that several
paths keep their order is left to the theorem `RutasCorrectas`, which holds for
any number. `CONSTRAINT KernelSolo` stops the exploration, not the checks,
at the states where another thread has got the number of `conexion_Kernel`:
sharing never ends, and from there on every property of the run but
`CierreSoloTrasIda` and `CompartenSoloTrasIda` says nothing of the paths; those
two are proved without the constraint. In `protocolo` one text is longer than an
integer, one pid takes two bytes, and two sends let the bytes of one frame reach
into the next.

**Deadlock** is not checked: in `protocolo` and `memoria` a client may send
nothing more, and the kernel stops for good when it dies, when
`consola3` returns after a script, or when every thread waits for a semaphore,
and an operator may start or type nothing more. The liveness properties say
which of these waits are right.

**Fairness.** Weak fairness of every thread and program (`FairSpec`): the
operating system runs whatever is not blocked, each semaphore has one thread
that waits on it at a time except `semaforo_multiprogramacion`, and nothing
checked depends on which of its two waiters wins. The operator has no fairness:
no command need be typed and no program started. `TodosAtendidos` assumes one
interface at most because with two memoria may have no accept left
for the kernel. `RutaLlega` needs only the thread `conexion_Kernel`; in
`Protocolo` the network delivers and the receiver runs, and no sender has to
send, finish or close.

What the passing runs say of the code:

- First come, first served holds even after a race has damaged a list
  (`OrdenDeLlegada`). What a race can do is lose processes or kill the kernel;
  without one, nothing is lost (`NadieSePierde`) and no list is found empty
  (`CaidaDeListaPorCarrera`).
- Only one process is ever dispatched (`UnSoloDespacho`): the short-term
  scheduler posts `proceso_ejecutando` once.
- `MULTIPROGRAMACION` heads for the value asked for less what has been admitted
  since it read the semaphore (`AjusteExacto`). So `MULTIPROGRAMACION [n]` bounds
  the processes let in after it, by n, until the next command (`CupoDelPedido`);
  it does not bound, as announced, the processes in memory
  (`AdmisionDentroDelGrado`).
- No wake-up between the threads is lost, even after a race (`SinAvisoPerdido`).
- A process waits in NEW for ever, and the console in `MULTIPROGRAMACION`, only
  for a slot, which nobody returns.
- The kernel gets to its accept loop in whatever order programs are started, and
  of several interfaces exactly one ends up serving.
- An interface that runs is misregistered or cut off only if its descriptor
  number was another thread's.
- PROCESO_ESTADO kills the kernel on a list that shrinks under it only after
  `FIFO`, or the long-term scheduler, has taken from it, and for want of a
  process in EXEC only before any has been dispatched (`CaidaDeEstado`).
- memoria logs the paths of the client `conexion_Kernel` accepted whole and in
  order, those still on the way when the kernel ends included, until another
  thread gets its number; and that, or the close of a live connection, happens
  only after a client accepted with the number has left.
- Messages and paths arrive as they were sent however TCP cuts them: their
  receivers use `MSG_WAITALL`. `recibir_PCB` does not: it returns nothing, and
  never a wrong PCB, when a `recv` is short (`Fiel`, `TodoLlega`). When all that
  was sent has arrived no receiver waits for more and no byte is left over
  (`EsperaLoDebido`). An interface receives nothing at all: it dies.
- The CPU receives no PCB: after the greeting its dispatch server reads the
  socket it listens on, and does not end when the kernel does. The interrupt
  server does.

## 4. Proofs

Every theorem holds for any value of the constants that the assumptions of its
module allow (`ConstantesOK`, `InterfacesOK`, `ProgramasOK`, `ClientesOK`,
...): names that are distinct, naturals where there are counts. `LargosOK` of
`Protocolo` says that the size of a PCB and of a packet fits in an `int`, which
is the type the code keeps it in and sends. No other assumption is made.

| module | theorem | states |
|---|---|---|
| `KernelProofs` | `TypeCorrect` | `Spec => []TypeOK` |
| | `AjusteCorrecto` | `Spec => []AjusteExacto` |
| | `CupoCorrecto` | `Spec => []CupoDelPedido` |
| | `UnSoloDespachoCorrecto` | `Spec => []UnSoloDespacho` |
| | `OrdenDeLlegadaCorrecto` | `Spec => []OrdenDeLlegada` |
| `KernelListasProofs` | `NadieSePierdeCorrecto` | `Spec => []NadieSePierde` |
| | `CaidaDeListaCorrecta` | `Spec => []CaidaDeListaPorCarrera` |
| | `SinAvisoPerdidoCorrecto` | `Spec => []SinAvisoPerdido` |
| | `CaidaDeEstadoCorrecta` | `Spec => []CaidaDeEstado` |
| | `Refinamiento` | `Spec => CumplePlanificacion` |
| `ArranqueProofs` | `TypeCorrect` | `Spec => []TypeOK` |
| | `AtencionCorrecta` | `Spec => []AtencionPorLlegada` |
| | `ConectadosCorrecto` | `Spec => []ConectadosAntesDeServir` |
| `InterfacesProofs` | `TypeCorrect` | `Spec => []TypeOK` |
| | `RegistroCorrecto` | `Spec => []RegistroPropio` |
| | `CierreCorrecto` | `Spec => CierreAjenoSoloPorReuso` |
| `MemoriaProofs` | `TypeCorrect` | `Spec => []TypeOK` |
| | `CompartenCorrecto` | `Spec => []CompartenSoloTrasIda` |
| | `CierreCorrecto` | `Spec => CierreSoloTrasIda` |
| `MemoriaRutasProofs` | `RutasCorrectas` | `Spec => []RutasEnOrden` |
| `TramasProofs` | `PcbIdaYVuelta` | `DeserializarPcb(SerializarPcb(p)) = p` for every PCB of the kernel |
| `ProtocoloProofs` | `TypeCorrect` | `Spec => []TypeOK` |
| | `FielCorrecto` | `Spec => []Fiel` |
| | `EsperaCorrecta` | `Spec => []EsperaLoDebido` |
| | `DispatchSordoCorrecto` | `Spec => []DispatchSordo` |

The arguments.

*Kernel.* `TypeOK` is not inductive: `proceso_en_ejecucion`, `tomado` and
the last `pid` have to exist where a thread uses them, which `Lugares` says;
`Tipos == TypeOK /\ Lugares` is, and every other proof rests on it. `Lugares`
also says that nothing is left to adjust outside `MULTIPROGRAMACION`, so that
`CupoDelPedido` follows from `AjusteExacto` and from a semaphore being at least
zero. For
`AjusteExacto` the console's actions fall into four kinds (`ConsolaCasos`:
it begins a process, ends adding it, adjusts the semaphore, or leaves all of
them alone), so that later proofs have one case per kind and not one per
command. `UnSoloDespacho` needs `Despacho`, which ties the place of the
short-term scheduler, the value of `proceso_ejecutando` and the place of `FIFO`
to what has been sent. `OrdenDeLlegada` is inductive with `Tipos`; its two
lemmas say that taking the head of an increasing list (`QuitarOrden`) and any
outcome of an addition, damaged or not (`AgregarOrden`), leave it increasing.
`CaidaDeListaPorCarrera` needs `Cuentas`: as long as a list is whole, what has
been posted for it and not taken is in it. `SinAvisoPerdido` needs the converse,
`Avisos`, damage or not: a list never holds more than what was posted for it and
not taken, since an addition makes it one longer at most. `CaidaDeEstado` needs `Caminata`,
where the console is in a list and what must have happened for the list to be
shorter than that. For the refinement each action is shown to be `Crear`,
`Admitir` or `Despachar` of `Planificacion`, or to leave its variables alone.

*Arranque.* `Turnos` says how memoria's semaphores pass the turn: no thread runs
before `hilos`, a thread has a client exactly while it attends, the kernel's
turn comes only after the CPU's thread has accepted and io's only after the
kernel's; so the order of the accepts is the order of the queue. `Conexiones` says where each client of each port is.

*Interfaces.* `Reparto` says who owns each descriptor number, and that threads
share one only after a death; `Bienes`, what an interface whose number is its
own has received, word by word, at each place of its thread.

*Memoria.* `Cuidado` says of each number that is free, shared, about to be closed
or held by a `recv` in progress that a client accepted with it has left
(`Gastado`). For the paths, `Sitios` says that nobody reads a connection before
its client is accepted and that a connection has one number; `Seguido`, that
while `conexion_Kernel` shares its number with nobody it is in step
(`EnFase`: the connection holds exactly what its client sent after the words
read) or its connection has nothing more to give (`Cortada`). Sharing never
ends (`SoloAntes`), so the invariant need not say anything once it has begun.

*Protocolo.* `TramasProofs` is about bytes alone: four bytes give back the
integer (`ValorDeEntero`), and each kind of send is a header that ends in the
length of its body and then the body (`TramaDeEnvio`), from which the slices its
receiver takes are the fields that were written. `Comienza` carries a slice of a
part over to the whole, so that a PCB of seven fields and a packet of four
values take one step a field. `EnPaso(B, r, av, E)` says that the bytes `B` on
their way are what is left of the sends `E` after `r` of them and `av` bytes of
the next. It gives the place where each send begins in `B` instead of joining
them, since a join of any number of sends could only be reasoned about by
induction; the lemmas `EnPasoAl...` say that it survives a send, a read and the
end of a frame.

The invariant of `ProtocoloProofs` is `IInv`. `Flujo` is what has arrived, what
is in the network and what the sender has still to send of the call it is in:
sending a piece and delivering some bytes leave it alone, whatever the cut.
`Historia` says what has been sent is what its place on the connection calls
for, `Sitio` that a receiver stays in its own places, `Recibido` that what was
received is the beginning of what was sent, and `AlDia` that `Flujo` is in step
with it, that a length just read is the length of the body to come, and, in
`Vuelta`, that the loop of `recibir_paquete` stands at the end of a value. What
is asked for are `Fiel` and `EsperaLoDebido`, but neither is inductive without
the rest: that the next body is the one that was sent follows from the length
read before it, and that from the bytes being in step. `TypeOK` needs them as well, because a value of a
packet is cut by a length found inside it. After a short `recv` the receiver
reads no more, so `AlDia` has nothing to say of it.
`Despacho` says where the dispatch server can be.

Only model-checked: the liveness properties, since the prover has no rule for
fairness here. Of those of the scheduler, `SinAvisoPerdido` is the part that is
safety, and of `TodoLlega` it is `EsperaLoDebido`; both are proved.

## 5. Not modelled

- The instruction cycle of the CPU and the other code in comments: there is
  nothing that runs.
- The instruction store of memoria. `leer_archivopseudocode`,
  `enviar_instruccion_a_cpu`, `recibir_pc`, `recibir_path_y_pid` and
  `instruccion_destroyer` are called by nobody, and the dictionary
  `lista_instruccion_pid` is never created: no state of the program reaches them.
  Only the packet they would send is in `Protocolo`. (A line with more than three
  parameters writes past `parametros`, and `list_get(..., pc-1)` fails at 0.)
- `recibir_operacion_kernel` and `validar_operacion`: `conectar_kernel` dies
  before it calls them.
- Logs, configuration parsing, the menu's wording, `so-commons` beyond the list
  operations, and memory exhaustion.
- `leerScript` opens a file that takes a descriptor number, which a looping
  interface thread may close; `Kernel` and `Interfaces` do not share descriptors.
- The frames of the wire in `Memoria` are words and in `Protocolo` bytes; the
  bytes two threads of memoria would get from one connection are not followed.

## 6. What could come next

1. `Kernel` and `Interfaces` over one table of descriptors, for the file of
   `leerScript`.
2. The instruction store, if some program comes to call it.
