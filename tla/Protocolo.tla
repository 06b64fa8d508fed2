----------------------------- MODULE Protocolo -----------------------------
(***************************************************************************)
(* The wire formats of utils.c, byte by byte, on one connection: a sender  *)
(* that makes the sends its program makes, a network that cuts the bytes   *)
(* as it likes, and the receiver that the code puts at the other end.      *)
(*                                                                         *)
(*   memoria    a program greets memoria; conexion_CPU reads messages      *)
(*   rutas      the kernel greets memoria, then sends paths to             *)
(*              conexion_Kernel                                            *)
(*   dispatch   the kernel greets the CPU, then sends PCBs                 *)
(*   interrupt  the kernel greets the CPU                                  *)
(*   operacion  enviar_operacion_io against conectar_kernel, which dies    *)
(*              before its first recv                                      *)
(*   pcb        enviar_pcb against recibir_PCB                             *)
(*   paquete    the packet of enviar_instruccion_a_cpu against             *)
(*              recibir_operacion and recibir_paquete                      *)
(*                                                                         *)
(* The last three pairs are written for each other, but no program puts    *)
(* them at the two ends of one connection.                                 *)
(***************************************************************************)
EXTENDS Integers, Sequences, SequencesExt

CONSTANTS
  Textos,         (* messages, paths and operations: bytes ended by 0       *)
  Instrucciones,  (* what leer_archivopseudocode makes of a line: an opcode *)
                  (* and three parameters, the missing ones empty           *)
  Pids,           (* pids of the processes sent                             *)
  Sobras,         (* what malloc leaves in the registers crear_pcb forgets  *)
  MaxEnvios       (* bound: messages, paths, PCBs, ... sent                 *)

Byte == 0..255
MaxInt == 2147483647

ASSUME TextosOK == \A t \in Textos : t \in Seq(Byte) /\ Len(t) > 0 /\ Last(t) = 0
ASSUME InstruccionesOK == \A l \in Instrucciones : Len(l) = 4 /\ l \in Seq(Textos \union {<<>>})
ASSUME SobrasOK == \A s \in Sobras : s \in Seq(Byte) /\ Len(s) = 12
ASSUME NumerosOK == Pids \subseteq 0..MaxInt /\ MaxEnvios \in Nat

(* The size of a PCB or of a packet is an int of the program. *)
ASSUME LargosOK ==
  /\ \A t \in Textos : 48 + Len(t) <= MaxInt
  /\ \A l \in Instrucciones : 16 + Len(l[1]) + Len(l[2]) + Len(l[3]) + Len(l[4]) <= MaxInt

VARIABLES
  canal,      \* which of the connections this is
  porEnviar,  \* sends still to make of what is being sent
  enRed,      \* bytes sent and not arrived
  llegado,    \* bytes arrived and not read
  cerrado,    \* the sender has ended
  lector,     \* where the receiver is
  tam,        \* the last length it has read
  buffer,     \* recibir_paquete: the body of the packet, how far it has
  desplazamiento, \* been read and the values found in it
  valores,
  enviados,   \* history: what was given to the functions that send
  recibidos   \* history: what the functions that receive returned

paquete == <<buffer, desplazamiento, valores>>
vars == <<canal, porEnviar, enRed, llegado, cerrado, lector, tam, paquete,
          enviados, recibidos>>

Canales == {"memoria", "rutas", "dispatch", "interrupt", "operacion", "pcb", "paquete"}
-----------------------------------------------------------------------------
(* A mutant: the bytes are not cut to a byte. *)
EnteroSinCortar(n) == <<n, n \div 256, n \div 65536, n \div 16777216>>

(* Integers are four bytes, the lowest first.                              *)
Entero(n) == <<n % 256, (n \div 256) % 256, (n \div 65536) % 256, (n \div 16777216) % 256>>
Valor(b)  == b[1] + 256 * b[2] + 65536 * b[3] + 16777216 * b[4]

(* The code of an operation, in op_code. *)
MENSAJE == 0
INSTRUCCION == 1
PCB == 3

(* A mutant: a path goes without its 0. *)
EnviarPathSinCero(t) == <<Entero(Len(t) - 1), t>>

SerializarPaquete(op, stream) == Entero(op) \o Entero(Len(stream)) \o stream

EnviarPath(t) == <<Entero(Len(t)), t>>

AgregarAPaquete(stream, valor) == stream \o Entero(Len(valor)) \o valor

(* The packet of an instruction: its code and its three parameters.        *)
StreamDe(l) ==
  AgregarAPaquete(AgregarAPaquete(AgregarAPaquete(AgregarAPaquete(<<>>, l[1]), l[2]), l[3]), l[4])

(* A PCB as crear_pcb leaves it, once FIFO has put it in EXEC: edx, si and *)
(* di are never given a value.                                             *)
CrearPcb(pid, path, sobra) ==
  [pid |-> pid, pc |-> 0, path |-> path, quantum |-> 0, estado |-> 2,
   registros |-> [k \in 1..16 |-> 0] \o sobra]

SerializarPcb(p) ==
  Entero(p.pid) \o Entero(p.pc) \o Entero(Len(p.path)) \o p.path
    \o Entero(p.quantum) \o Entero(p.estado) \o p.registros

(* The operation code of a PCB is one byte on the wire, and always PCB: of *)
(* deserializar_paquete_pcb only what follows its check of the code is     *)
(* below.  What Kernel models is left out here: that serializar_pcb has    *)
(* freed what is sent.                                                     *)
EnviarPcb(p) == <<PCB>> \o Entero(Len(SerializarPcb(p))) \o SerializarPcb(p)

DeserializarPcb(s) ==
  LET n == Valor(SubSeq(s, 9, 12)) IN
  [pid |-> Valor(SubSeq(s, 1, 4)), pc |-> Valor(SubSeq(s, 5, 8)),
   path |-> SubSeq(s, 13, 12 + n),
   quantum |-> Valor(SubSeq(s, 13 + n, 16 + n)), estado |-> Valor(SubSeq(s, 17 + n, 20 + n)),
   registros |-> SubSeq(s, 21 + n, 48 + n)]
-----------------------------------------------------------------------------
(* The sends each function makes.                                          *)
Envios(tipo, v) ==
  CASE tipo = "mensaje" -> <<SerializarPaquete(MENSAJE, v)>>
    [] tipo \in {"path", "operacion"} -> EnviarPath(v)
    [] tipo = "pcb" -> <<EnviarPcb(v)>>
    [] tipo = "paquete" ->
         <<SerializarPaquete(INSTRUCCION, StreamDe(v))>>

(* What is sent n-th on each connection.                                   *)
Tipo(n) ==
  CASE canal \in {"operacion", "pcb", "paquete"} -> canal
    [] n > 1 /\ canal = "rutas" -> "path"
    [] n > 1 /\ canal = "dispatch" -> "pcb"
    [] OTHER -> "mensaje"

Valores(tipo) ==
  CASE tipo = "pcb" -> {CrearPcb(p, t, s) : p \in Pids, t \in Textos, s \in Sobras}
    [] tipo = "paquete" -> Instrucciones
    [] OTHER -> Textos

(* A program greets once; the kernel sends an interface one operation.     *)
Limite == IF canal \in {"memoria", "interrupt", "operacion"} THEN 1 ELSE MaxEnvios

Empezar ==
  /\ ~cerrado /\ porEnviar = <<>> /\ Len(enviados) < Limite
  /\ LET tipo == Tipo(Len(enviados) + 1) IN
     \E v \in Valores(tipo) :
       /\ porEnviar' = Envios(tipo, v)
       /\ enviados' = Append(enviados, <<tipo, v>>)
  /\ UNCHANGED <<canal, enRed, llegado, cerrado, lector, tam, paquete, recibidos>>

Enviar ==
  /\ ~cerrado /\ porEnviar # <<>>
  /\ enRed' = enRed \o Head(porEnviar)
  /\ porEnviar' = Tail(porEnviar)
  /\ UNCHANGED <<canal, llegado, cerrado, lector, tam, paquete, enviados, recibidos>>

(* The program of the sender ends, between two sends.                      *)
Cerrar ==
  /\ ~cerrado /\ cerrado' = TRUE
  /\ UNCHANGED <<canal, porEnviar, enRed, llegado, lector, tam, paquete, enviados, recibidos>>

-----------------------------------------------------------------------------
(* The receivers.  Where a receiver is says how many bytes its recv wants. *)
Inicio == CASE canal = "operacion" -> "hilo" [] canal = "pcb" -> "pcbop" [] OTHER -> "op"

Pedido ==
  CASE lector = "pcbop" -> 1
    [] lector \in {"cuerpo", "ptexto", "pcbcuerpo"} -> tam
    [] OTHER -> 4

(* These recv have no MSG_WAITALL: they return what there is. *)
SinEspera == {"pcbop", "pcbtam", "pcbcuerpo"}
EnRecv == SinEspera \union {"op", "size", "cuerpo", "plen", "ptexto"}

Completo == lector \in EnRecv /\ Len(llegado) >= Pedido
Parcial  == lector \in SinEspera /\ llegado # <<>> /\ Len(llegado) < Pedido
Nada     == /\ lector \in EnRecv /\ cerrado /\ enRed = <<>>
            /\ ~Completo /\ ~Parcial

Bytes == SubSeq(llegado, 1, Pedido)

(* TCP keeps the order of the bytes and nothing else.  Of the ways to cut  *)
(* them a receiver tells apart only these: part of what its recv wants,    *)
(* all of that, and more.                                                  *)
Cortes == {1, Pedido - Len(llegado), Len(enRed)} \intersect 1..Len(enRed)

Entregar ==
  /\ \E n \in Cortes :
       /\ llegado' = llegado \o SubSeq(enRed, 1, n)
       /\ enRed' = SubSeq(enRed, n + 1, Len(enRed))
  /\ UNCHANGED <<canal, porEnviar, cerrado, lector, tam, paquete, enviados, recibidos>>

Leer(luego) ==
  /\ Completo
  /\ llegado' = SubSeq(llegado, Pedido + 1, Len(llegado))
  /\ lector' = luego
  /\ UNCHANGED <<canal, porEnviar, enRed, cerrado, enviados>>

(* A length, and with it where to read the bytes it announces.             *)
LeerLargo ==
  \E paso \in {<<"size", "cuerpo">>, <<"plen", "ptexto">>, <<"pcbtam", "pcbcuerpo">>} :
    /\ lector = paso[1] /\ Leer(paso[2])
    /\ tam' = Valor(Bytes)
    /\ UNCHANGED <<paquete, recibidos>>

(* recibir_operacion.  The threads of memoria do not look at the code; the *)
(* servers of the CPU take a message and warn of anything else.            *)
LeerOperacion ==
  /\ lector = "op"
  /\ Leer(IF canal \notin {"dispatch", "interrupt"} \/ Valor(Bytes) = MENSAJE THEN "size"
          ELSE IF canal = "dispatch" THEN "escucha" ELSE "op")
  /\ UNCHANGED <<tam, paquete, recibidos>>

LeerOperacionPcb ==
  /\ lector = "pcbop" /\ Leer("pcbtam")
  /\ UNCHANGED <<tam, paquete, recibidos>>

Recibir(tipo, v, luego) ==
  /\ Leer(luego)
  /\ recibidos' = Append(recibidos, <<tipo, v>>)
  /\ UNCHANGED <<tam, paquete>>

(* Mutants: the dispatch server goes on with the connection, and           *)
(* conexion_Kernel waits for another message.                              *)
TrasMensajeSiguiendo ==
  CASE canal = "rutas" -> "plen" [] canal = "dispatch" -> "pcbop" [] OTHER -> "op"
TrasMensajeSinRutas == IF canal = "dispatch" THEN "escucha" ELSE "op"

(* Where a receiver goes on: conexion_Kernel to its paths, the dispatch    *)
(* server to the socket it listens on.                                     *)
TrasMensaje ==
  CASE canal = "rutas" -> "plen" [] canal = "dispatch" -> "escucha" [] OTHER -> "op"

LeerCuerpo == lector = "cuerpo" /\ canal # "paquete" /\ Recibir("mensaje", Bytes, TrasMensaje)
LeerPath   == lector = "ptexto" /\ Recibir("path", Bytes, "plen")
LeerPcb    == lector = "pcbcuerpo" /\ Recibir("pcb", DeserializarPcb(Bytes), "pcbop")

(* recibir_paquete walks the body: a length, a value, a length, ...        *)
LeerPaquete ==
  /\ lector = "cuerpo" /\ canal = "paquete" /\ Leer("valores")
  /\ buffer' = Bytes /\ desplazamiento' = 0 /\ valores' = <<>>
  /\ UNCHANGED <<tam, recibidos>>

SiguienteValor ==
  /\ lector = "valores" /\ desplazamiento < Len(buffer)
  /\ LET tamanio == Valor(SubSeq(buffer, desplazamiento + 1, desplazamiento + 4)) IN
       /\ valores' = Append(valores, SubSeq(buffer, desplazamiento + 5, desplazamiento + 4 + tamanio))
       /\ desplazamiento' = desplazamiento + 4 + tamanio
  /\ UNCHANGED <<canal, porEnviar, enRed, llegado, cerrado, lector, tam, buffer,
                 enviados, recibidos>>

DevolverValores ==
  /\ lector = "valores" /\ desplazamiento >= Len(buffer)
  /\ lector' = "op"
  /\ recibidos' = Append(recibidos, <<"paquete", valores>>)
  /\ UNCHANGED <<canal, porEnviar, enRed, llegado, cerrado, tam, paquete, enviados>>

(* recibir_PCB returns NULL when a recv is short, having taken a part.     *)
LeerParcial ==
  /\ Parcial /\ llegado' = <<>> /\ lector' = "corto"
  /\ UNCHANGED <<canal, porEnviar, enRed, cerrado, tam, paquete, enviados, recibidos>>

(* The thread of an interface logs before its first recv, and the logger   *)
(* it uses, the global one, is NULL: main has set one of its own.          *)
HiloSinLogger ==
  /\ lector = "hilo" /\ lector' = "muerto"
  /\ UNCHANGED <<canal, porEnviar, enRed, llegado, cerrado, tam, paquete, enviados, recibidos>>

(* A mutant: -1 is an unknown operation like any other. *)
TrasCierreSinCaso ==
  IF canal \in {"memoria", "paquete", "interrupt"} THEN "perdido" ELSE "fin"

(* The sender has ended.  A thread of memoria closes the descriptor and    *)
(* tries it again for ever, conexion_Kernel asks for ever for a path, the  *)
(* servers of the CPU end.                                                 *)
TrasCierre == IF canal \in {"memoria", "rutas", "paquete"} THEN "perdido" ELSE "fin"

LeerCierre ==
  /\ Nada
  /\ lector' = TrasCierre
  /\ llegado' = <<>>
  /\ UNCHANGED <<canal, porEnviar, enRed, cerrado, tam, paquete, enviados, recibidos>>

(* recibir_paquete on the listening socket: recv fails, and the size it    *)
(* leaves unset sends the CPU round the loop or to its end.                *)
EscucharMal ==
  /\ lector = "escucha" /\ lector' = "muerto"
  /\ UNCHANGED <<canal, porEnviar, enRed, llegado, cerrado, tam, paquete, enviados, recibidos>>
-----------------------------------------------------------------------------
Init ==
  /\ canal \in Canales
  /\ porEnviar = <<>> /\ enRed = <<>> /\ llegado = <<>> /\ cerrado = FALSE
  /\ lector = Inicio /\ tam = 0
  /\ buffer = <<>> /\ desplazamiento = 0 /\ valores = <<>>
  /\ enviados = <<>> /\ recibidos = <<>>

Emisor == Empezar \/ Enviar \/ Cerrar

Receptor == \/ LeerLargo \/ LeerOperacion \/ LeerOperacionPcb \/ LeerCuerpo \/ LeerPath
            \/ LeerPaquete \/ SiguienteValor \/ DevolverValores \/ LeerPcb \/ LeerParcial \/ LeerCierre
            \/ HiloSinLogger

Next == Emisor \/ Entregar \/ Receptor \/ EscucharMal

Spec == Init /\ [][Next]_vars

(* The network delivers and the receiver runs; the sender may stop at any  *)
(* time.  Nothing has to kill the CPU.                                     *)
FairSpec == Spec /\ WF_vars(Entregar) /\ WF_vars(Receptor)
-----------------------------------------------------------------------------
TypeOK ==
  /\ canal \in Canales
  /\ porEnviar \in Seq(Seq(Byte)) /\ enRed \in Seq(Byte) /\ llegado \in Seq(Byte)
  /\ cerrado \in BOOLEAN
  /\ lector \in EnRecv \union {"hilo", "valores", "escucha", "perdido", "corto", "fin", "muerto"}
  /\ tam \in Nat /\ desplazamiento \in Nat
  /\ buffer \in Seq(Byte) /\ valores \in Seq(Seq(Byte))

(* What is received is what was sent, whole and in order, however the      *)
(* bytes are cut on the way: a receiver that calls recv without            *)
(* MSG_WAITALL and gets a part gives it to nobody.                         *)
Fiel == IsPrefix(recibidos, enviados)

(* No receiver waits for bytes nobody owes it, and no byte is left over:   *)
(* when all that was sent has arrived, a receiver that has something to    *)
(* receive can go on, and one that has nothing has read every byte.        *)
EsperaLoDebido ==
  porEnviar = <<>> /\ enRed = <<>> /\ lector \in EnRecv =>
    IF Len(recibidos) < Len(enviados) THEN Completo ELSE llegado = <<>>

(* The dispatch server of the CPU takes the greeting of the kernel and     *)
(* nothing else: it never gets a PCB, and once greeted it does not end     *)
(* when the kernel does.                                                   *)
DispatchSordo ==
  canal = "dispatch" =>
    /\ Len(recibidos) <= 1
    /\ recibidos # <<>> => lector # "fin"

(* Whatever is sent whole is received, unless a recv was short: except     *)
(* PCBs by the dispatch server, and operations by an interface, which dies *)
(* before it receives any.                                                 *)
TodoLlega ==
  \A n \in 1..MaxEnvios :
    (Len(enviados) >= n /\ porEnviar = <<>>)
      ~> \/ Len(recibidos) >= n \/ lector = "corto"
         \/ canal = "operacion" \/ (canal = "dispatch" /\ n > 1)

(* The interrupt server of the CPU ends when the kernel does. *)
InterruptTermina == (canal = "interrupt" /\ cerrado) ~> lector = "fin"
=============================================================================
