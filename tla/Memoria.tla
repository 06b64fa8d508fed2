------------------------------ MODULE Memoria ------------------------------
(***************************************************************************)
(* The three threads of memoria (memoria/src/main.c): each accepts one     *)
(* client in turn and reads its socket for ever, by the number of its      *)
(* descriptor.  conexion_CPU and conexion_entradasalida read messages;     *)
(* conexion_Kernel reads one message and then paths.  A thread whose       *)
(* client has left closes the descriptor and goes on using the number,     *)
(* which accept may by then have given to another thread.                  *)
(*                                                                         *)
(* A connection is named by its client and carries words: an operation     *)
(* code, a length or a text, with the frame they belong to.  Frame 0 is    *)
(* the message every client sends, the others are the paths of a kernel.   *)
(***************************************************************************)
EXTENDS Integers, Sequences

CONSTANTS
  Clientes,     (* the programs that may connect, each once                 *)
  Kernels,      (* those of them that send paths                            *)
  MaxRutas      (* bound: paths sent on a connection                        *)

ASSUME ClientesOK ==
  /\ Kernels \subseteq Clientes
  /\ {"nadie", "libre", "reservado"} \intersect Clientes = {}
  /\ MaxRutas \in Nat

VARIABLES
  hilo,        \* where each thread is
  semaforo,    \* semaforo_hilo_cpu, _kernel, _entradasalida
  numero,      \* socket_cliente_cpu, _kernel, _entradasalida; 0 before accept
  leyendo,     \* the closed connection that a recv in progress still holds
  anunciado,   \* the frame whose length a thread has read, until its text is
  tabla,       \* per descriptor number: a connection, reserved or free
  cola,        \* clients connected and not yet accepted
  cliente,     \* "afuera", "dentro" or "ido"
  enviados,    \* sends each client has made
  flujo,       \* words sent on each connection and not yet read
  atiende,     \* history: the client each thread accepted
  rutas,       \* history: the paths conexion_Kernel logged, to the first garbage
  viva         \* FALSE once memoria has died of an unterminated text

propias == <<hilo, semaforo, numero, leyendo, anunciado>>
red     == <<cola, cliente, enviados, flujo>>
vars    == <<propias, tabla, red, atiende, rutas, viva>>

Hilos   == {"cpu", "kernel", "io"}
Numeros == 1..3
Tramas  == 0..MaxRutas
Palabras(c) == {"op", "largo", "texto", "resto"} \X {c} \X Tramas
Desconocido == <<"nadie", 0>>
Basura  == <<"basura", 0>>

Init ==
  /\ hilo = [h \in Hilos |-> "semaforo"]
  /\ semaforo = [h \in Hilos |-> IF h = "cpu" THEN 1 ELSE 0]
  /\ numero = [h \in Hilos |-> 0]
  /\ leyendo = [h \in Hilos |-> "nadie"]
  /\ anunciado = [h \in Hilos |-> Desconocido]
  /\ tabla = [n \in Numeros |-> "libre"]
  /\ cola = <<>>
  /\ cliente = [c \in Clientes |-> "afuera"]
  /\ enviados = [c \in Clientes |-> 0]
  /\ flujo = [c \in Clientes |-> <<>>]
  /\ atiende = [h \in Hilos |-> "nadie"]
  /\ rutas = <<>>
  /\ viva = TRUE
-----------------------------------------------------------------------------
(* The clients.                                                            *)

Conectar(c) ==
  /\ cliente[c] = "afuera"
  /\ cliente' = [cliente EXCEPT ![c] = "dentro"]
  /\ cola' = Append(cola, c)
  /\ UNCHANGED <<propias, tabla, enviados, flujo, atiende, rutas, viva>>

Elementos(l) == {l[j] : j \in DOMAIN l}

(* A descriptor of memoria still leads to the connection. *)
Abierta(c) ==
  \/ c \in Elementos(cola)
  \/ \E n \in Numeros : tabla[n] = c
  \/ \E h \in Hilos : leyendo[h] = c

(* The n-th send: enviar_mensaje makes one, enviar_path two, the length    *)
(* and the text.                                                           *)
Envio(c, n) ==
  IF n = 0 THEN << <<"op", c, 0>>, <<"largo", c, 0>>, <<"texto", c, 0>> >>
  ELSE << <<IF n % 2 = 1 THEN "largo" ELSE "texto", c, (n + 1) \div 2>> >>

Envios(c) == IF c \in Kernels THEN 1 + 2 * MaxRutas ELSE 1

(* What is sent to a connection memoria has closed is lost, and the reset  *)
(* that answers it kills the client at one of its next sends.              *)
Enviar(c) ==
  /\ cliente[c] = "dentro" /\ enviados[c] < Envios(c)
  /\ enviados' = [enviados EXCEPT ![c] = @ + 1]
  /\ \/ /\ Abierta(c)
        /\ flujo' = [flujo EXCEPT ![c] = @ \o Envio(c, enviados[c])]
        /\ UNCHANGED cliente
     \/ /\ ~Abierta(c)
        /\ cliente' \in {cliente, [cliente EXCEPT ![c] = "ido"]}
        /\ UNCHANGED flujo
  /\ UNCHANGED <<propias, tabla, cola, atiende, rutas, viva>>

(* The program ends, at any time: it crashes, its operator stops it, or it *)
(* finds its port busy.                                                    *)
Irse(c) ==
  /\ cliente[c] = "dentro"
  /\ cliente' = [cliente EXCEPT ![c] = "ido"]
  /\ UNCHANGED <<propias, tabla, cola, enviados, flujo, atiende, rutas, viva>>
-----------------------------------------------------------------------------
EnHilo(h, donde) == viva /\ hilo[h] = donde

(* A mutant: the turn is taken without waiting for it. *)
EsperarTurnoPrestado(h) ==
  /\ EnHilo(h, "semaforo")
  /\ semaforo' = [semaforo EXCEPT ![h] = @ - 1]
  /\ hilo' = [hilo EXCEPT ![h] = "accept"]
  /\ UNCHANGED <<numero, leyendo, anunciado, tabla, red, atiende, rutas, viva>>

EsperarTurno(h) ==
  /\ EnHilo(h, "semaforo") /\ semaforo[h] > 0
  /\ semaforo' = [semaforo EXCEPT ![h] = @ - 1]
  /\ hilo' = [hilo EXCEPT ![h] = "accept"]
  /\ UNCHANGED <<numero, leyendo, anunciado, tabla, red, atiende, rutas, viva>>

Libres == {n \in Numeros : tabla[n] = "libre"}

(* accept takes the lowest free number when it is called ...               *)
Reservar(h) ==
  /\ EnHilo(h, "accept")
  /\ \E n \in Libres : /\ \A m \in Libres : n <= m
                       /\ numero' = [numero EXCEPT ![h] = n]
                       /\ tabla' = [tabla EXCEPT ![n] = "reservado"]
  /\ hilo' = [hilo EXCEPT ![h] = "aceptar"]
  /\ UNCHANGED <<semaforo, leyendo, anunciado, red, atiende, rutas, viva>>

Siguiente(h) == CASE h = "cpu" -> "kernel" [] h = "kernel" -> "io" [] h = "io" -> "kernel"

(* ... and gives it to the oldest client; then the next thread is let in.  *)
Aceptar(h) ==
  /\ EnHilo(h, "aceptar") /\ cola # <<>>
  /\ tabla' = [tabla EXCEPT ![numero[h]] = Head(cola)]
  /\ atiende' = [atiende EXCEPT ![h] = Head(cola)]
  /\ cola' = Tail(cola)
  /\ semaforo' = [semaforo EXCEPT ![Siguiente(h)] = @ + 1]
  /\ hilo' = [hilo EXCEPT ![h] = "operacion"]
  /\ UNCHANGED <<numero, leyendo, anunciado, cliente, enviados, flujo, rutas, viva>>
-----------------------------------------------------------------------------
(* recv looks the number up once, when it is called, and waits on the      *)
(* connection it finds.  As long as the number leads there it does not     *)
(* matter whether the call has been made: leyendo is set only when another *)
(* thread closes the number under a recv in progress.                      *)
Lecturas == {"operacion", "largo", "texto", "largo_path", "texto_path"}

EnLectura(h) == viva /\ hilo[h] \in Lecturas

Conexion(h) == IF leyendo[h] = "nadie" THEN tabla[numero[h]] ELSE leyendo[h]

(* A mutant: without while (1) a thread ends after the first message. *)
TrasMensajeFin(h) == "fin"

(* Where a thread goes when a message is read, and when the operation is   *)
(* not: conexion_Kernel does not retry.                                    *)
TrasMensaje(h) == IF h = "kernel" THEN "largo_path" ELSE "operacion"
TrasError(h)   == IF h = "kernel" THEN "largo" ELSE "operacion"

(* A mutant: no data yet is taken for the end of the connection. *)
SinDatosTodavia(h) == Conexion(h) \in Clientes => flujo[Conexion(h)] = <<>>

(* recv returns -1 (bad number) or 0 (the peer has left).  In the size of  *)
(* recibir_buffer nobody looks, and what was in memory is logged as text.  *)
SinDatos(h) ==
  Conexion(h) \in Clientes =>
    flujo[Conexion(h)] = <<>> /\ cliente[Conexion(h)] = "ido"

Despues(donde, h) ==
  CASE donde = "operacion" -> "cerrar"
    [] donde = "largo" -> "texto"
    [] donde = "texto" -> TrasMensaje(h)
    [] OTHER -> "largo_path"

Fallar(h) ==
  /\ EnLectura(h) /\ SinDatos(h)
  /\ hilo' = [hilo EXCEPT ![h] = Despues(hilo[h], h)]
  /\ leyendo' = [leyendo EXCEPT ![h] = "nadie"]
  /\ anunciado' = [anunciado EXCEPT ![h] =
       IF hilo[h] = "largo" THEN Basura ELSE Desconocido]
  /\ viva' \in {TRUE, hilo[h] # "texto"}
  /\ UNCHANGED <<semaforo, numero, tabla, red, atiende, rutas>>

(* close(socket) in recibir_operacion, which returns -1. *)
Atrapados(h) == {g \in Hilos \ {h} : /\ EnLectura(g) /\ leyendo[g] = "nadie"
                                     /\ numero[g] = numero[h]}

Cerrar(h) ==
  /\ EnHilo(h, "cerrar")
  /\ IF tabla[numero[h]] \in Clientes
     THEN /\ tabla' = [tabla EXCEPT ![numero[h]] = "libre"]
          /\ \E S \in SUBSET Atrapados(h) :
               leyendo' = [g \in Hilos |-> IF g \in S THEN tabla[numero[h]] ELSE leyendo[g]]
     ELSE UNCHANGED <<tabla, leyendo>>
  /\ hilo' = [hilo EXCEPT ![h] = TrasError(h)]
  /\ UNCHANGED <<semaforo, numero, anunciado, red, atiende, rutas, viva>>
-----------------------------------------------------------------------------
Leyendo(h, donde) ==
  EnHilo(h, donde) /\ Conexion(h) \in Clientes /\ flujo[Conexion(h)] # <<>>

Frente(h) == Head(flujo[Conexion(h)])

(* The first word with some of its bytes gone. *)
Empezado(s) == << <<"resto", Head(s)[2], Head(s)[3]>> >> \o Tail(s)
Sobras(s) == {s} \union (IF s = <<>> THEN {} ELSE {Empezado(s)})

(* Four bytes off the connection: an operation code, a length, or, out of  *)
(* step, part of a text or its end and part of what follows.               *)
Palabra(h, luego) ==
  /\ flujo' \in {[flujo EXCEPT ![Conexion(h)] = s] :
       s \in IF Frente(h)[1] \in {"op", "largo"} THEN {Tail(flujo[Conexion(h)])}
             ELSE {Empezado(flujo[Conexion(h)])} \union Sobras(Tail(flujo[Conexion(h)]))}
  /\ leyendo' = [leyendo EXCEPT ![h] = "nadie"]
  /\ hilo' = [hilo EXCEPT ![h] = luego]
  /\ UNCHANGED <<semaforo, numero, tabla, cola, cliente, enviados, atiende, rutas, viva>>

(* A mutant: conexion_Kernel reads no message before the paths. *)
LeerOperacionSola(h) ==
  /\ Leyendo(h, "operacion")
  /\ Palabra(h, IF h = "kernel" THEN "largo_path" ELSE "largo")
  /\ UNCHANGED anunciado

(* Whatever the code is, a message is expected after it. *)
LeerOperacion(h) ==
  Leyendo(h, "operacion") /\ Palabra(h, "largo") /\ UNCHANGED anunciado

LeerLargo(h) ==
  \E donde \in {"largo", "largo_path"} :
    /\ Leyendo(h, donde)
    /\ Palabra(h, IF donde = "largo" THEN "texto" ELSE "texto_path")
    /\ anunciado' = [anunciado EXCEPT ![h] =
         IF Frente(h)[1] = "largo" THEN <<Frente(h)[2], Frente(h)[3]>> ELSE Basura]

Anotar(r) == IF Basura \in Elementos(rutas) THEN rutas ELSE Append(rutas, r)

Justo(h) == Frente(h) = <<"texto", anunciado[h][1], anunciado[h][2]>>

(* A mutant: the descriptor is closed once the message is read. *)
LeerTextoYCerrar(h) ==
  /\ Leyendo(h, "texto") /\ Justo(h)
  /\ tabla' = [tabla EXCEPT ![numero[h]] = "libre"]
  /\ hilo' = [hilo EXCEPT ![h] = TrasMensaje(h)]
  /\ flujo' = [flujo EXCEPT ![Conexion(h)] = Tail(@)]
  /\ anunciado' = [anunciado EXCEPT ![h] = Desconocido]
  /\ UNCHANGED <<semaforo, numero, leyendo, cola, cliente, enviados, atiende, rutas, viva>>

(* The text the length announced. *)
LeerTexto(h) ==
  \E donde \in {"texto", "texto_path"} :
    /\ Leyendo(h, donde) /\ Justo(h)
    /\ flujo' = [flujo EXCEPT ![Conexion(h)] = Tail(@)]
    /\ rutas' = IF donde = "texto_path" THEN Anotar(anunciado[h]) ELSE rutas
    /\ leyendo' = [leyendo EXCEPT ![h] = "nadie"]
    /\ anunciado' = [anunciado EXCEPT ![h] = Desconocido]
    /\ hilo' = [hilo EXCEPT ![h] = TrasMensaje(h)]
    /\ UNCHANGED <<semaforo, numero, tabla, cola, cliente, enviados, atiende, viva>>

(* A length that is not that of the text to come: recv takes some of what  *)
(* there is and waits for more, or is content, and the bytes go to the log *)
(* as if they were a text that ends.                                       *)
LeerDesalineado(h) ==
  \E donde \in {"texto", "texto_path"} :
    /\ Leyendo(h, donde) /\ ~Justo(h)
    /\ \E n \in 0..Len(flujo[Conexion(h)]) :
         flujo' \in {[flujo EXCEPT ![Conexion(h)] = s] :
                      s \in Sobras(SubSeq(flujo[Conexion(h)], n + 1, Len(flujo[Conexion(h)])))}
    /\ \/ UNCHANGED <<hilo, leyendo, anunciado, rutas, viva>>
       \/ /\ hilo' = [hilo EXCEPT ![h] = TrasMensaje(h)]
          /\ leyendo' = [leyendo EXCEPT ![h] = "nadie"]
          /\ anunciado' = [anunciado EXCEPT ![h] = Desconocido]
          /\ rutas' \in {rutas} \union
                        (IF donde = "texto_path" THEN {Anotar(Basura)} ELSE {})
          /\ viva' \in BOOLEAN
    /\ UNCHANGED <<semaforo, numero, tabla, cola, cliente, enviados, atiende>>
-----------------------------------------------------------------------------
Cliente(c) == Conectar(c) \/ Enviar(c) \/ Irse(c)

Lectura(h) == LeerOperacion(h) \/ LeerLargo(h) \/ LeerTexto(h) \/ LeerDesalineado(h)

Hilo(h) == \/ EsperarTurno(h) \/ Reservar(h) \/ Aceptar(h)
           \/ Fallar(h) \/ Cerrar(h) \/ Lectura(h)

(* What the clients do once memoria has died is not followed. *)
Next == (viva /\ \E c \in Clientes : Cliente(c)) \/ (\E h \in Hilos : Hilo(h))

Spec == Init /\ [][Next]_vars

(* The operating system runs conexion_Kernel: RutaLlega needs no more.  No *)
(* program has to connect, send or stay.                                   *)
FairSpec == Spec /\ WF_vars(Hilo("kernel"))
-----------------------------------------------------------------------------
TypeOK ==
  /\ hilo \in [Hilos -> {"semaforo", "accept", "aceptar", "cerrar"} \union Lecturas]
  /\ semaforo \in [Hilos -> Nat]
  /\ numero \in [Hilos -> {0} \union Numeros]
  /\ leyendo \in [Hilos -> Clientes \union {"nadie"}]
  /\ anunciado \in [Hilos -> (Clientes \X Tramas) \union {Desconocido, Basura}]
  /\ tabla \in [Numeros -> Clientes \union {"libre", "reservado"}]
  /\ cola \in Seq(Clientes)
  /\ cliente \in [Clientes -> {"afuera", "dentro", "ido"}]
  /\ enviados \in [Clientes -> Nat]
  /\ \A c \in Clientes : flujo[c] \in Seq(Palabras(c))
  /\ atiende \in [Hilos -> Clientes \union {"nadie"}]
  /\ rutas \in Seq((Clientes \X Tramas) \union {Basura})
  /\ viva \in BOOLEAN

(* Two threads use the same descriptor number. *)
Comparten(h, g) == h # g /\ numero[h] = numero[g] /\ numero[h] # 0

KernelSolo == \A h \in Hilos : ~Comparten(h, "kernel")

(* As long as conexion_Kernel shares its number with no other thread, it   *)
(* logs as paths the paths of its client, in the order sent, and nothing   *)
(* else.                                                                   *)
RutasEnOrden ==
  KernelSolo => rutas = [k \in 1..Len(rutas) |-> <<atiende["kernel"], k>>]

(* accept hands a number out again only when a client accepted with that   *)
(* number has left: threads never share one before.                        *)
CompartenSoloTrasIda ==
  \A h, g \in Hilos : Comparten(h, g) =>
    \E x \in Hilos : /\ numero[x] = numero[h] /\ atiende[x] # "nadie"
                      /\ cliente[atiende[x]] = "ido"

(* memoria never closes the connection of a client that is still there,    *)
(* unless two threads use its number.                                      *)
CierreSoloTrasIda ==
  [][\A n \in Numeros, c \in Clientes :
       (tabla[n] = c /\ tabla'[n] # c) =>
         \/ cliente[c] = "ido"
         \/ \E h, g \in Hilos : Comparten(h, g) /\ numero[h] = n]_vars

(* A path sent whole to conexion_Kernel is logged, even if the kernel ends *)
(* at once, unless another thread shares its number.                       *)
RutaLlega ==
  \A c \in Kernels, k \in 1..MaxRutas :
    (atiende["kernel"] = c /\ enviados[c] >= 1 + 2 * k)
       ~> (Len(rutas) >= k \/ ~KernelSolo \/ ~viva)
=============================================================================
