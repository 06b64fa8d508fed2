----------------------------- MODULE Interfaces -----------------------------
(***************************************************************************)
(* The interfaces of entradasalida and the kernel threads that serve them  *)
(* (conexion_entradasalida).  The kernel's main accepts a connection and   *)
(* gives it a thread; the thread reads the name and the type, stores them  *)
(* in the global interfaz_info, sends IO_GEN_SLEEP and loops receiving.    *)
(* When its interface goes away the thread closes the descriptor and loops *)
(* on its number, which a later accept hands out again.                    *)
(***************************************************************************)
EXTENDS Integers, Sequences, FiniteSets

CONSTANTS
  Programas,     \* the interfaces started, each with its own name
  Tipo,          \* the TIPO_INTERFAZ each one read from the configuration
  Basura         \* any bytes that are not the name or type sent

ASSUME ProgramasOK ==
  /\ IsFiniteSet(Programas) /\ Basura \notin Programas
  /\ {"no", "libre", "nulo"} \intersect Programas = {}
  /\ \A x \in Programas : Tipo[x] # Basura

VARIABLES
  interfaz,        \* main of each interface
  enviadas,        \* words sent by each: 1 and 3 are lengths, 2 name, 4 type
  leidas,          \* words the kernel has taken from each connection
  desalineadas,    \* connections read out of step: only garbage from then on
  cola,            \* connections the kernel has not accepted yet
  reservado,       \* the descriptor the accept in progress will return, or 0
  fd,              \* the kernel's descriptors: a connection or "libre"
  hilo,            \* where the thread created for each connection is
  descriptor,      \* the descriptor number that thread works with
  leyendo,         \* the connection its recv in progress is on, or "no"
  largo,           \* whether the last length it read is the one sent
  nombre, tipo,    \* what it read
  interfaz_info,   \* which thread's structure the global points to
  registro,        \* the structures, by the thread that allocated them
  respuesta,       \* words sent by the kernel on each connection
  falla,           \* why the kernel died, "ninguna" while it runs
  compartidas      \* history: connections whose descriptor another thread had

deInterfaz == <<interfaz, enviadas>>
flujo      == <<leidas, desalineadas>>
aceptacion == <<cola, reservado, descriptor, compartidas>>
locales    == <<largo, nombre, tipo>>
global     == <<interfaz_info, registro>>
vars == <<deInterfaz, flujo, aceptacion, fd, hilo, leyendo, locales, global,
          respuesta, falla>>

Descriptores == 1..(Cardinality(Programas) + 1)
Vacio == [nombre |-> Basura, tipo |-> Basura]     \* a structure just allocated

Init ==
  /\ interfaz = [x \in Programas |-> "apagada"] /\ enviadas = [x \in Programas |-> 0]
  /\ leidas = [x \in Programas |-> 0] /\ desalineadas = {}
  /\ cola = <<>> /\ reservado = 0 /\ fd = [d \in Descriptores |-> "libre"]
  /\ hilo = [x \in Programas |-> "no"] /\ descriptor = [x \in Programas |-> 0]
  /\ leyendo = [x \in Programas |-> "no"] /\ largo = [x \in Programas |-> FALSE]
  /\ nombre = [x \in Programas |-> Basura] /\ tipo = [x \in Programas |-> Basura]
  /\ interfaz_info = "nulo" /\ registro = [x \in Programas |-> Vacio]
  /\ respuesta = [x \in Programas |-> <<>>]
  /\ falla = "ninguna" /\ compartidas = {}

Vivo == falla = "ninguna"
Muertas == {y \in Programas : interfaz[y] = "muerta"}
-----------------------------------------------------------------------------
(* main of entradasalida, from its connection to the kernel, which already *)
(* listens, to the server it opens next.                                   *)
InterfazConectar(x) ==
  /\ Vivo /\ interfaz[x] = "apagada"
  /\ interfaz' = [interfaz EXCEPT ![x] = "registrar"]
  /\ cola' = Append(cola, x)
  /\ UNCHANGED <<enviadas, flujo, reservado, descriptor, compartidas, fd, hilo,
       leyendo, locales, global, respuesta, falla>>

(* A mutant: one word more than the registration has.                      *)
InterfazEnviarDeMas(x) ==
  /\ interfaz[x] = "registrar"
  /\ enviadas' = [enviadas EXCEPT ![x] = @ + 1]
  /\ interfaz' = [interfaz EXCEPT ![x] = IF enviadas[x] = 4 THEN "servir" ELSE @]
  /\ UNCHANGED <<flujo, aceptacion, fd, hilo, leyendo, locales, global, respuesta, falla>>

InterfazEnviar(x) ==
  /\ interfaz[x] = "registrar"
  /\ enviadas' = [enviadas EXCEPT ![x] = @ + 1]
  /\ interfaz' = [interfaz EXCEPT ![x] = IF enviadas[x] = 3 THEN "servir" ELSE @]
  /\ UNCHANGED <<flujo, aceptacion, fd, hilo, leyendo, locales, global, respuesta, falla>>

(* The operator stops the interface, its iniciar_servidor finds the port   *)
(* taken (exit(1), see Arranque), or its send raises SIGPIPE because the   *)
(* kernel has closed the connection.                                       *)
InterfazMorir(x) ==
  /\ interfaz[x] \in {"registrar", "servir"}
  /\ interfaz' = [interfaz EXCEPT ![x] = "muerta"]
  /\ UNCHANGED <<enviadas, flujo, aceptacion, fd, hilo, leyendo, locales, global,
       respuesta, falla>>
-----------------------------------------------------------------------------
(* The kernel's main: accept takes the lowest free descriptor when it is   *)
(* called and returns it when a connection comes.                          *)
Libre(d) == fd[d] = "libre" /\ \A e \in Descriptores : fd[e] = "libre" => d <= e

AceptarLlamar ==
  /\ Vivo /\ reservado = 0
  /\ \E d \in Descriptores : Libre(d) /\ reservado' = d
  /\ UNCHANGED <<deInterfaz, flujo, cola, descriptor, compartidas, fd, hilo, leyendo,
       locales, global, respuesta, falla>>

(* A mutant: every thread is given the address of one variable, and those  *)
(* that have not read it yet see the last connection.                      *)
AceptarEnUnaVariable ==
  /\ Vivo /\ reservado # 0 /\ cola # <<>>
  /\ LET x == Head(cola) IN
       /\ fd' = [fd EXCEPT ![reservado] = x]
       /\ descriptor' = [z \in Programas |->
            IF z = x \/ hilo[z] = "nombre_length" THEN reservado ELSE descriptor[z]]
       /\ hilo' = [hilo EXCEPT ![x] = "nombre_length"]
  /\ cola' = Tail(cola) /\ reservado' = 0
  /\ UNCHANGED <<deInterfaz, flujo, leyendo, locales, global, respuesta, falla, compartidas>>

AceptarVolver ==
  /\ Vivo /\ reservado # 0 /\ cola # <<>>
  /\ LET x == Head(cola) IN
       /\ fd' = [fd EXCEPT ![reservado] = x]
       /\ descriptor' = [descriptor EXCEPT ![x] = reservado]
       /\ hilo' = [hilo EXCEPT ![x] = "nombre_length"]
       /\ compartidas' = IF \E z \in Programas : descriptor[z] = reservado
                         THEN compartidas \union {x} ELSE compartidas
  /\ cola' = Tail(cola) /\ reservado' = 0
  /\ UNCHANGED <<deInterfaz, flujo, leyendo, locales, global, respuesta, falla>>
-----------------------------------------------------------------------------
(* The thread conexion_entradasalida of x.  What it works on is whatever   *)
(* its descriptor number leads to when it calls.                           *)
En(x, donde) == Vivo /\ hilo[x] = donde
Conexion(x)  == fd[descriptor[x]]
Ir(x, luego) == hilo' = [hilo EXCEPT ![x] = luego]

HiloLlamarRecv(x) ==
  /\ Vivo /\ leyendo[x] = "no"
  /\ hilo[x] \in {"nombre_length", "nombre", "tipo_length", "tipo", "operacion", "mensaje"}
  /\ leyendo' = [leyendo EXCEPT ![x] = Conexion(x)]
  /\ UNCHANGED <<deInterfaz, flujo, aceptacion, fd, hilo, locales, global, respuesta, falla>>

(* The recv in progress of x returns and the thread goes on.               *)
Volver(x, donde, luego) ==
  /\ En(x, donde) /\ leyendo[x] # "no"
  /\ leyendo' = [leyendo EXCEPT ![x] = "no"] /\ Ir(x, luego)
  /\ UNCHANGED <<deInterfaz, aceptacion, fd, global, respuesta, falla>>

Hay(c)      == c \in {y \in Programas : leidas[y] < enviadas[y]}
Rota(c)     == c \in {"libre"} \union {y \in Muertas : leidas[y] = enviadas[y]}
Justo(c, k) == Hay(c) /\ leidas[c] = k - 1 /\ c \notin desalineadas

Tomar(c, k) == leidas' = [leidas EXCEPT ![c] = k] /\ UNCHANGED desalineadas
Derramar(c) == /\ \E n \in leidas[c]..enviadas[c] : leidas' = [leidas EXCEPT ![c] = n]
               /\ desalineadas' = desalineadas \union {c}

(* recv of word k on c: the word itself; garbage out of step, or nothing (0 *)
(* or -1, which nobody looks at) when the peer is gone or c is closed.      *)
RecibirBien(c, k) == Justo(c, k) /\ Tomar(c, k)
RecibirMal(c, k)  == \/ Rota(c) /\ UNCHANGED flujo
                     \/ Hay(c) /\ ~Justo(c, k) /\ Derramar(c)

(* A string whose length was never read (an uninitialised local): recv     *)
(* takes nothing or anything.                                              *)
RecibirSinLargo(c) == UNCHANGED flujo \/ (Hay(c) /\ Derramar(c))

RecibirTexto(x, k, bien) ==
  IF largo[x] THEN (IF bien THEN RecibirBien(leyendo[x], k) ELSE RecibirMal(leyendo[x], k))
              ELSE ~bien /\ RecibirSinLargo(leyendo[x])

HiloRecibirLargo(x, donde, k, luego) ==
  /\ Volver(x, donde, luego)
  /\ \E bien \in BOOLEAN :
       /\ IF bien THEN RecibirBien(leyendo[x], k) ELSE RecibirMal(leyendo[x], k)
       /\ largo' = [largo EXCEPT ![x] = bien]
  /\ UNCHANGED <<nombre, tipo>>

HiloRecibirNombre(x) ==
  /\ Volver(x, "nombre", "tipo_length")
  /\ \E bien \in BOOLEAN :
       /\ RecibirTexto(x, 2, bien)
       /\ nombre' = [nombre EXCEPT ![x] = IF bien THEN leyendo[x] ELSE Basura]
  /\ UNCHANGED <<largo, tipo>>

HiloRecibirTipo(x) ==
  /\ Volver(x, "tipo", "guardar")
  /\ \E bien \in BOOLEAN :
       /\ RecibirTexto(x, 4, bien)
       /\ tipo' = [tipo EXCEPT ![x] = IF bien THEN Tipo[leyendo[x]] ELSE Basura]
  /\ UNCHANGED <<largo, nombre>>

(* interfaz_info = malloc(...) and the two stores through the global, which *)
(* the build may read again or keep in a register.                         *)
HiloGuardar(x) ==
  /\ En(x, "guardar") /\ Ir(x, "guardar_nombre")
  /\ interfaz_info' = x
  /\ UNCHANGED <<deInterfaz, flujo, aceptacion, fd, leyendo, locales, registro,
       respuesta, falla>>

HiloGuardarNombre(x) ==
  /\ En(x, "guardar_nombre") /\ Ir(x, "guardar_tipo")
  /\ \E s \in {x, interfaz_info} : registro' = [registro EXCEPT ![s].nombre = nombre[x]]
  /\ UNCHANGED <<deInterfaz, flujo, aceptacion, fd, leyendo, locales, interfaz_info,
       respuesta, falla>>

HiloGuardarTipo(x) ==
  /\ En(x, "guardar_tipo") /\ Ir(x, "enviar_largo")
  /\ \E s \in {x, interfaz_info} : registro' = [registro EXCEPT ![s].tipo = tipo[x]]
  /\ UNCHANGED <<deInterfaz, flujo, aceptacion, fd, leyendo, locales, interfaz_info,
       respuesta, falla>>

(* enviar_operacion_io: one send.  A closed descriptor is an error, which  *)
(* ends the function.  The first send to an interface that is gone is      *)
(* accepted; it answers with a reset, after which a send is an error or    *)
(* raises SIGPIPE, which ends the kernel.                                  *)
Respondidas == {y \in Muertas : respuesta[y] # <<>>}

EnviarPalabra(x, palabra, luego) ==
  \/ /\ Conexion(x) # "libre"
     /\ respuesta' = [respuesta EXCEPT ![Conexion(x)] = Append(@, palabra)]
     /\ Ir(x, luego) /\ UNCHANGED falla
  \/ /\ Conexion(x) \in {"libre"} \union Respondidas
     /\ Ir(x, "operacion") /\ UNCHANGED <<respuesta, falla>>
  \/ /\ Conexion(x) \in Respondidas
     /\ falla' = "sigpipe" /\ UNCHANGED <<respuesta, hilo>>

HiloEnviar(x) ==
  /\ \/ En(x, "enviar_largo") /\ EnviarPalabra(x, "largo", "enviar_operacion")
     \/ En(x, "enviar_operacion") /\ EnviarPalabra(x, "IO_GEN_SLEEP", "operacion")
  /\ UNCHANGED <<deInterfaz, flujo, aceptacion, fd, leyendo, locales, global>>

(* A mutant: nothing to read is taken for the end of the connection.       *)
HiloVerVacia(x) ==
  /\ Volver(x, "operacion", "cerrar")
  /\ ~Hay(leyendo[x]) /\ UNCHANGED <<flujo, locales>>

(* recibir_operacion: at the end of the connection, or at an error, it     *)
(* closes the descriptor by its number, and the thread tries again for     *)
(* ever; data is somebody else's registration.                             *)
HiloVerCerrada(x) ==
  /\ Volver(x, "operacion", "cerrar")
  /\ Rota(leyendo[x]) /\ UNCHANGED <<flujo, locales>>

HiloCerrar(x) ==
  /\ En(x, "cerrar") /\ Ir(x, "operacion")
  /\ fd' = [fd EXCEPT ![descriptor[x]] = "libre"]
  /\ UNCHANGED <<deInterfaz, flujo, aceptacion, leyendo, locales, global, respuesta, falla>>

HiloRecibirOperacion(x) ==
  /\ Volver(x, "operacion", "mensaje")
  /\ Hay(leyendo[x]) /\ Derramar(leyendo[x]) /\ UNCHANGED locales

(* recibir_mensaje with a size that is no size.                            *)
HiloRecibirMensaje(x) ==
  /\ Volver(x, "mensaje", "operacion")
  /\ RecibirSinLargo(leyendo[x]) /\ UNCHANGED locales
-----------------------------------------------------------------------------
Aceptar == AceptarLlamar \/ AceptarVolver

Hilo(x) == \/ HiloLlamarRecv(x)
           \/ HiloRecibirLargo(x, "nombre_length", 1, "nombre") \/ HiloRecibirNombre(x)
           \/ HiloRecibirLargo(x, "tipo_length", 3, "tipo") \/ HiloRecibirTipo(x)
           \/ HiloGuardar(x) \/ HiloGuardarNombre(x) \/ HiloGuardarTipo(x)
           \/ HiloEnviar(x)
           \/ HiloVerCerrada(x) \/ HiloCerrar(x)
           \/ HiloRecibirOperacion(x) \/ HiloRecibirMensaje(x)

Next == \/ \E x \in Programas : InterfazConectar(x) \/ InterfazEnviar(x) \/ InterfazMorir(x)
        \/ \E x \in Programas : Hilo(x)
        \/ Aceptar

Spec == Init /\ [][Next]_vars
-----------------------------------------------------------------------------
TypeOK ==
  /\ interfaz \in [Programas -> {"apagada", "registrar", "servir", "muerta"}]
  /\ enviadas \in [Programas -> 0..4] /\ leidas \in [Programas -> 0..4]
  /\ desalineadas \subseteq Programas /\ compartidas \subseteq Programas
  /\ cola \in Seq(Programas) /\ reservado \in {0} \union Descriptores
  /\ fd \in [Descriptores -> Programas \union {"libre"}]
  /\ hilo \in [Programas -> {"no", "nombre_length", "nombre", "tipo_length", "tipo",
       "guardar", "guardar_nombre", "guardar_tipo", "enviar_largo",
       "enviar_operacion", "operacion", "cerrar", "mensaje"}]
  /\ descriptor \in [Programas -> {0} \union Descriptores]
  /\ leyendo \in [Programas -> Programas \union {"no", "libre"}]
  /\ largo \in [Programas -> BOOLEAN]
  /\ interfaz_info \in Programas \union {"nulo"}
  /\ \A x \in Programas :
       /\ {nombre[x], registro[x].nombre} \subseteq Programas \union {Basura}
       /\ {tipo[x], registro[x].tipo} \subseteq {Tipo[y] : y \in Programas} \union {Basura}
       /\ respuesta[x] \in Seq({"largo", "IO_GEN_SLEEP"})
  /\ falla \in {"ninguna", "sigpipe"}

(* Reuse of a descriptor number is the only way a running interface is     *)
(* misserved: otherwise its thread works on its connection, has its name   *)
(* and type, and sends it one operation, whole.                            *)
RegistroPropio ==
  \A x \in Programas \ (compartidas \union Muertas) : hilo[x] # "no" =>
    /\ Conexion(x) = x
    /\ hilo[x] \notin {"nombre_length", "nombre"} => nombre[x] = x
    /\ hilo[x] \notin {"nombre_length", "nombre", "tipo_length", "tipo"} => tipo[x] = Tipo[x]
    /\ hilo[x] \in {"operacion", "cerrar", "mensaje"} =>
         respuesta[x] = <<"largo", "IO_GEN_SLEEP">>

(* The loop of a thread whose interface died closes a running interface's  *)
(* connection only through a reused descriptor, and reuse needs that death. *)
CierreAjenoSoloPorReuso ==
  [][\A d \in Descriptores : fd[d] \in Programas /\ fd'[d] = "libre" =>
       fd[d] \in Muertas \/ (fd[d] \in compartidas /\ Muertas # {})]_vars

(* recibir_operacion closes the descriptor of a connection its other end   *)
(* has closed.                                                             *)
CierraLaCerrada ==
  [][\A d \in Descriptores : fd[d] \in Programas /\ fd'[d] = "libre" =>
       fd[d] \in Muertas]_vars

(* interfaz_info holds the name of an interface together with its type     *)
(* once no thread is storing.                                              *)
InterfazCoherente ==
  (interfaz_info # "nulo" /\ \A x \in Programas :
     hilo[x] \notin {"guardar_nombre", "guardar_tipo"}) =>
  LET r == registro[interfaz_info] IN
    r.nombre # Basura /\ r.tipo # Basura => r.tipo = Tipo[r.nombre]

(* A failed send is an error the kernel logs, not its end. *)
SobreviveAlEnvio == falla # "sigpipe"
=============================================================================
