-------------------------- MODULE InterfacesProofs --------------------------
(***************************************************************************)
(* Proofs about the threads of the kernel that serve interfaces, for any   *)
(* number of interfaces.                                                   *)
(***************************************************************************)
EXTENDS Interfaces, FiniteSetTheorems, SequenceTheorems, TLAPS

USE DEF deInterfaz, flujo, aceptacion, locales, global

Nombres == Programas \union {Basura}
Clases  == {Tipo[y] : y \in Programas} \union {Basura}
Lugar   == {"no", "nombre_length", "nombre", "tipo_length", "tipo", "guardar",
            "guardar_nombre", "guardar_tipo", "enviar_largo", "enviar_operacion",
            "operacion", "cerrar", "mensaje"}

(* What the place of a thread says of its descriptor and of the global.    *)
Lugares ==
  /\ nombre \in [Programas -> Nombres] /\ tipo \in [Programas -> Clases]
  /\ registro \in [Programas -> [nombre : Nombres, tipo : Clases]]
  /\ respuesta \in [Programas -> Seq({"largo", "IO_GEN_SLEEP"})]
  /\ \A x \in Programas :
       /\ interfaz[x] \in {"apagada", "registrar"} => enviadas[x] <= 3
       /\ hilo[x] # "no" => descriptor[x] \in Descriptores
       /\ hilo[x] \in {"guardar_nombre", "guardar_tipo"} => interfaz_info \in Programas

Tipos == TypeOK /\ Lugares

LEMMA Nombrados ==
  /\ Basura \notin Programas /\ "no" \notin Programas /\ "libre" \notin Programas
  /\ "nulo" \notin Programas /\ 0 \notin Descriptores
  <1>1. Cardinality(Programas) \in Nat
    BY ProgramasOK, FS_CardinalityType
  <1> QED BY <1>1, ProgramasOK DEF Descriptores

LEMMA InitTipos == Init => Tipos
  BY DEF Init, Tipos, TypeOK, Lugares, Nombres, Clases, Vacio

LEMMA DosPalabras ==
  ASSUME NEW a, NEW b
  PROVE  Append(<<a>>, b) = <<a, b>>
  <1> DEFINE S == {a, b}
             s == Append(<<a>>, b)
             t == <<a, b>>
  <1>1. <<a>> \in Seq(S) /\ t \in Seq(S) /\ b \in S
    OBVIOUS
  <1>2. s \in Seq(S) /\ Len(s) = 2 /\ s[1] = a /\ s[2] = b
    BY <1>1
  <1>3. Len(t) = 2 /\ t[1] = a /\ t[2] = b
    OBVIOUS
  <1> HIDE DEF S, s, t
  <1>4. \A i \in 1..Len(s) : s[i] = t[i]
    BY <1>2, <1>3
  <1>5. s = t
    BY <1>1, <1>2, <1>3, <1>4, SeqEqual
  <1> QED BY <1>5 DEF s, t

(* The connections a recv can read. *)
LEMMA PasoFlujo ==
  ASSUME Tipos, NEW c \in Programas \union {"libre"}, NEW k \in 1..4,
         \/ RecibirBien(c, k) \/ RecibirMal(c, k) \/ RecibirSinLargo(c)
         \/ (Hay(c) /\ Derramar(c)) \/ UNCHANGED flujo
  PROVE  /\ leidas' \in [Programas -> 0..4] /\ desalineadas' \subseteq Programas
         /\ \A x \in Programas : x # c => leidas'[x] = leidas[x]
         /\ \A x \in Programas : x # c => (x \in desalineadas' <=> x \in desalineadas)
  <1>1. /\ leidas \in [Programas -> 0..4] /\ enviadas \in [Programas -> 0..4]
        /\ desalineadas \subseteq Programas
    BY DEF Tipos, TypeOK
  <1>2. CASE Hay(c) /\ Derramar(c)
    <2>1. c \in Programas
      BY <1>2 DEF Hay
    <2>2. PICK n \in leidas[c]..enviadas[c] : leidas' = [leidas EXCEPT ![c] = n]
      BY <1>2 DEF Derramar
    <2>3. n \in 0..4
      BY <1>1, <2>1, <2>2
    <2>4. desalineadas' = desalineadas \union {c}
      BY <1>2 DEF Derramar
    <2> QED BY <1>1, <2>1, <2>2, <2>3, <2>4
  <1>3. CASE RecibirBien(c, k)
    <2>1. c \in Programas /\ leidas' = [leidas EXCEPT ![c] = k] /\ desalineadas' = desalineadas
      BY <1>3 DEF RecibirBien, Justo, Hay, Tomar
    <2>2. k \in 0..4
      OBVIOUS
    <2> QED BY <1>1, <2>1, <2>2
  <1>4. CASE UNCHANGED flujo
    BY <1>1, <1>4
  <1> QED BY <1>2, <1>3, <1>4 DEF RecibirMal, RecibirSinLargo

(* What a step of the thread of y does, whatever it is: it changes only    *)
(* what is y's, the connection its recv is on and the one its descriptor   *)
(* leads to.                                                               *)
Paso(y) ==
  /\ hilo[y] # "no" /\ hilo' \in [Programas -> Lugar] /\ hilo'[y] # "no"
  /\ leyendo' \in [Programas -> Programas \union {"no", "libre"}]
  /\ leyendo'[y] \in {"no", leyendo[y], Conexion(y)}
  /\ \A x \in Programas \ {y} :
       /\ hilo'[x] = hilo[x] /\ leyendo'[x] = leyendo[x] /\ largo'[x] = largo[x]
       /\ nombre'[x] = nombre[x] /\ tipo'[x] = tipo[x]
  /\ \A x \in Programas : x # leyendo[y] =>
       leidas'[x] = leidas[x] /\ (x \in desalineadas' <=> x \in desalineadas)
  /\ \A x \in Programas : x # Conexion(y) => respuesta'[x] = respuesta[x]
  /\ \A d \in Descriptores : \/ fd'[d] = fd[d]
                             \/ hilo[y] = "cerrar" /\ d = descriptor[y] /\ fd'[d] = "libre"
  /\ UNCHANGED <<deInterfaz, aceptacion>>

LEMMA DeHilo ==
  ASSUME Tipos
  PROVE  /\ hilo \in [Programas -> Lugar]
         /\ leyendo \in [Programas -> Programas \union {"no", "libre"}]
         /\ largo \in [Programas -> BOOLEAN]
         /\ nombre \in [Programas -> Nombres] /\ tipo \in [Programas -> Clases]
         /\ leidas \in [Programas -> 0..4] /\ enviadas \in [Programas -> 0..4]
         /\ desalineadas \subseteq Programas
         /\ fd \in [Descriptores -> Programas \union {"libre"}]
         /\ respuesta \in [Programas -> Seq({"largo", "IO_GEN_SLEEP"})]
         /\ registro \in [Programas -> [nombre : Nombres, tipo : Clases]]
         /\ \A x \in Programas : hilo[x] # "no" =>
              descriptor[x] \in Descriptores /\ Conexion(x) \in Programas \union {"libre"}
  BY DEF Tipos, TypeOK, Lugares, Lugar, Conexion

(* Tipos speaks of what a step may leave alone one variable at a time. *)
LEMMA TiposDe ==
  ASSUME Tipos, NEW y \in Programas, Paso(y),
         largo' \in [Programas -> BOOLEAN],
         nombre' \in [Programas -> Nombres], tipo' \in [Programas -> Clases],
         leidas' \in [Programas -> 0..4], desalineadas' \subseteq Programas,
         fd' \in [Descriptores -> Programas \union {"libre"}],
         respuesta' \in [Programas -> Seq({"largo", "IO_GEN_SLEEP"})],
         registro' \in [Programas -> [nombre : Nombres, tipo : Clases]],
         interfaz_info' \in Programas \/ interfaz_info' = interfaz_info,
         hilo'[y] \in {"guardar_nombre", "guardar_tipo"} => interfaz_info' \in Programas,
         falla' \in {"ninguna", "sigpipe"}
  PROVE  Tipos'
  <1>1. TypeOK'
    <2>1. \A x \in Programas :
            /\ {nombre'[x], registro'[x].nombre} \subseteq Programas \union {Basura}
            /\ {tipo'[x], registro'[x].tipo} \subseteq {Tipo[z] : z \in Programas} \union {Basura}
            /\ respuesta'[x] \in Seq({"largo", "IO_GEN_SLEEP"})
      <3> TAKE x \in Programas
      <3>1. /\ nombre'[x] \in Nombres /\ tipo'[x] \in Clases
            /\ registro'[x].nombre \in Nombres /\ registro'[x].tipo \in Clases
        OBVIOUS
      <3> QED BY <3>1 DEF Nombres, Clases
    <2>2. UNCHANGED <<deInterfaz, aceptacion>> /\ hilo' \in [Programas -> Lugar]
          /\ leyendo' \in [Programas -> Programas \union {"no", "libre"}]
      BY DEF Paso
    <2> QED BY <2>1, <2>2 DEF Tipos, TypeOK, Lugar
  <1>2. Lugares'
    <2>1. /\ UNCHANGED <<deInterfaz, aceptacion>> /\ hilo[y] # "no"
          /\ \A x \in Programas : x # y => hilo'[x] = hilo[x]
      BY DEF Paso
    <2> QED BY <2>1 DEF Tipos, Lugares
  <1> QED BY <1>1, <1>2 DEF Tipos

LEMMA PasoVolver ==
  ASSUME Tipos, NEW y \in Programas, NEW donde \in Lugar \ {"no"}, NEW luego \in Lugar \ {"no"},
         Volver(y, donde, luego)
  PROVE  /\ hilo[y] = donde /\ hilo' \in [Programas -> Lugar] /\ hilo'[y] = luego
         /\ leyendo' \in [Programas -> Programas \union {"no", "libre"}] /\ leyendo'[y] = "no"
         /\ \A x \in Programas \ {y} : hilo'[x] = hilo[x] /\ leyendo'[x] = leyendo[x]
         /\ leyendo[y] \in Programas \union {"libre"} /\ leyendo[y] # "no"
         /\ UNCHANGED <<deInterfaz, aceptacion, fd, global, respuesta, falla>>
  <1>1. /\ hilo[y] = donde /\ leyendo[y] # "no"
        /\ leyendo' = [leyendo EXCEPT ![y] = "no"] /\ hilo' = [hilo EXCEPT ![y] = luego]
        /\ UNCHANGED <<deInterfaz, aceptacion, fd, global, respuesta, falla>>
    BY DEF Volver, En, Ir
  <1> QED BY <1>1, DeHilo

(* The steps that read. *)
Lee(y) ==
  \/ HiloRecibirLargo(y, "nombre_length", 1, "nombre") \/ HiloRecibirNombre(y)
  \/ HiloRecibirLargo(y, "tipo_length", 3, "tipo") \/ HiloRecibirTipo(y)
  \/ HiloVerCerrada(y) \/ HiloRecibirOperacion(y) \/ HiloRecibirMensaje(y)

LEMMA PasoLee ==
  ASSUME Tipos, NEW y \in Programas, Lee(y)
  PROVE  Paso(y) /\ Tipos'
  <1> DEFINE c == leyendo[y]
  <1>1. PICK donde \in Lugar \ {"no"}, luego \in Lugar \ {"no", "guardar_nombre", "guardar_tipo"} :
          Volver(y, donde, luego)
    BY DEF Lee, HiloRecibirLargo, HiloRecibirNombre, HiloRecibirTipo, HiloVerCerrada,
           HiloRecibirOperacion, HiloRecibirMensaje, Lugar
  <1>2. /\ hilo[y] = donde /\ hilo' \in [Programas -> Lugar] /\ hilo'[y] = luego
        /\ leyendo' \in [Programas -> Programas \union {"no", "libre"}] /\ leyendo'[y] = "no"
        /\ \A x \in Programas \ {y} : hilo'[x] = hilo[x] /\ leyendo'[x] = leyendo[x]
        /\ c \in Programas \union {"libre"} /\ c # "no"
        /\ UNCHANGED <<deInterfaz, aceptacion, fd, global, respuesta, falla>>
    BY <1>1, PasoVolver
  <1>3. \E k \in 1..4 : \/ RecibirBien(c, k) \/ RecibirMal(c, k) \/ RecibirSinLargo(c)
                        \/ (Hay(c) /\ Derramar(c)) \/ UNCHANGED flujo
    <2>1. CASE HiloRecibirLargo(y, "nombre_length", 1, "nombre")
                 \/ HiloRecibirLargo(y, "tipo_length", 3, "tipo")
      BY <2>1 DEF HiloRecibirLargo
    <2>2. CASE HiloRecibirNombre(y) \/ HiloRecibirTipo(y)
      BY <2>2 DEF HiloRecibirNombre, HiloRecibirTipo, RecibirTexto
    <2>3. CASE HiloVerCerrada(y) \/ HiloRecibirOperacion(y) \/ HiloRecibirMensaje(y)
      BY <2>3 DEF HiloVerCerrada, HiloRecibirOperacion, HiloRecibirMensaje
    <2> QED BY <2>1, <2>2, <2>3 DEF Lee
  <1>4. /\ leidas' \in [Programas -> 0..4] /\ desalineadas' \subseteq Programas
        /\ \A x \in Programas : x # c => leidas'[x] = leidas[x]
        /\ \A x \in Programas : x # c => (x \in desalineadas' <=> x \in desalineadas)
    BY <1>2, <1>3, PasoFlujo
  <1>5. /\ largo' \in [Programas -> BOOLEAN]
        /\ nombre' \in [Programas -> Nombres] /\ tipo' \in [Programas -> Clases]
        /\ \A x \in Programas \ {y} :
             largo'[x] = largo[x] /\ nombre'[x] = nombre[x] /\ tipo'[x] = tipo[x]
    <2>1. CASE HiloRecibirLargo(y, "nombre_length", 1, "nombre")
                 \/ HiloRecibirLargo(y, "tipo_length", 3, "tipo")
      BY <2>1, DeHilo DEF HiloRecibirLargo
    <2>2. CASE HiloRecibirNombre(y)
      <3>1. PICK bien \in BOOLEAN :
              /\ RecibirTexto(y, 2, bien)
              /\ nombre' = [nombre EXCEPT ![y] = IF bien THEN c ELSE Basura]
        BY <2>2 DEF HiloRecibirNombre
      <3>2. bien => c \in Programas
        BY <3>1 DEF RecibirTexto, RecibirBien, Justo, Hay
      <3> QED BY <2>2, <3>1, <3>2, DeHilo DEF HiloRecibirNombre, Nombres
    <2>3. CASE HiloRecibirTipo(y)
      <3>1. PICK bien \in BOOLEAN :
              /\ RecibirTexto(y, 4, bien)
              /\ tipo' = [tipo EXCEPT ![y] = IF bien THEN Tipo[c] ELSE Basura]
        BY <2>3 DEF HiloRecibirTipo
      <3>2. bien => Tipo[c] \in Clases
        BY <3>1 DEF RecibirTexto, RecibirBien, Justo, Hay, Clases
      <3>3. (IF bien THEN Tipo[c] ELSE Basura) \in Clases
        BY <3>2 DEF Clases
      <3> QED BY <2>3, <3>1, <3>3, DeHilo DEF HiloRecibirTipo
    <2>4. CASE HiloVerCerrada(y) \/ HiloRecibirOperacion(y) \/ HiloRecibirMensaje(y)
      BY <2>4, DeHilo DEF HiloVerCerrada, HiloRecibirOperacion, HiloRecibirMensaje
    <2> QED BY <2>1, <2>2, <2>3, <2>4 DEF Lee
  <1>6. Paso(y)
    BY <1>2, <1>4, <1>5 DEF Paso
  <1>7. falla' \in {"ninguna", "sigpipe"} /\ hilo'[y] \notin {"guardar_nombre", "guardar_tipo"}
    BY <1>2 DEF Tipos, TypeOK
  <1> HIDE DEF c
  <1> QED BY <1>2, <1>4, <1>5, <1>6, <1>7, DeHilo, TiposDe

LEMMA PasoLlamar ==
  ASSUME Tipos, NEW y \in Programas, HiloLlamarRecv(y)
  PROVE  Paso(y) /\ Tipos'
  <1>1. /\ hilo[y] # "no" /\ leyendo' = [leyendo EXCEPT ![y] = Conexion(y)]
        /\ hilo[y] \notin {"guardar_nombre", "guardar_tipo"}
        /\ UNCHANGED <<deInterfaz, flujo, aceptacion, fd, hilo, locales, global, respuesta, falla>>
    BY DEF HiloLlamarRecv
  <1>2. Conexion(y) \in Programas \union {"libre"}
    BY <1>1, DeHilo
  <1>3. Paso(y)
    BY <1>1, <1>2, DeHilo DEF Paso
  <1>4. falla \in {"ninguna", "sigpipe"}
    BY DEF Tipos, TypeOK
  <1> QED BY <1>1, <1>3, <1>4, DeHilo, TiposDe

LEMMA PasoGuardar ==
  ASSUME Tipos, NEW y \in Programas,
         HiloGuardar(y) \/ HiloGuardarNombre(y) \/ HiloGuardarTipo(y)
  PROVE  Paso(y) /\ Tipos'
  <1>1. PICK luego \in {"guardar_nombre", "guardar_tipo", "enviar_largo"} :
          hilo' = [hilo EXCEPT ![y] = luego]
    BY DEF HiloGuardar, HiloGuardarNombre, HiloGuardarTipo, Ir
  <1>2. /\ hilo[y] \in {"guardar", "guardar_nombre", "guardar_tipo"}
        /\ UNCHANGED <<deInterfaz, flujo, aceptacion, fd, leyendo, locales, respuesta, falla>>
        /\ interfaz_info' \in {y, interfaz_info}
        /\ hilo[y] = "guardar" => interfaz_info' = y
    BY DEF HiloGuardar, HiloGuardarNombre, HiloGuardarTipo, En
  <1>3. /\ luego \in Lugar /\ hilo' \in [Programas -> Lugar] /\ hilo'[y] = luego
        /\ \A x \in Programas \ {y} : hilo'[x] = hilo[x]
    BY <1>1, DeHilo DEF Lugar
  <1>4. Paso(y)
    BY <1>2, <1>3, DeHilo DEF Paso
  <1>5. hilo[y] \in {"guardar_nombre", "guardar_tipo"} => interfaz_info \in Programas
    BY DEF Tipos, Lugares
  <1>6. registro' \in [Programas -> [nombre : Nombres, tipo : Clases]]
    <2>1. CASE HiloGuardar(y)
      BY <2>1, DeHilo DEF HiloGuardar
    <2>2. CASE HiloGuardarNombre(y)
      <3>1. PICK s \in {y, interfaz_info} : registro' = [registro EXCEPT ![s].nombre = nombre[y]]
        BY <2>2 DEF HiloGuardarNombre
      <3>2. s \in Programas /\ nombre[y] \in Nombres
        BY <1>5, <2>2, <3>1, DeHilo DEF HiloGuardarNombre, En
      <3> QED BY <3>1, <3>2, DeHilo
    <2>3. CASE HiloGuardarTipo(y)
      <3>1. PICK s \in {y, interfaz_info} : registro' = [registro EXCEPT ![s].tipo = tipo[y]]
        BY <2>3 DEF HiloGuardarTipo
      <3>2. s \in Programas /\ tipo[y] \in Clases
        BY <1>5, <2>3, <3>1, DeHilo DEF HiloGuardarTipo, En
      <3> QED BY <3>1, <3>2, DeHilo
    <2> QED BY <2>1, <2>2, <2>3
  <1>7. falla \in {"ninguna", "sigpipe"}
    BY DEF Tipos, TypeOK
  <1> QED BY <1>2, <1>4, <1>5, <1>6, <1>7, DeHilo, TiposDe

LEMMA PasoEnviar ==
  ASSUME Tipos, NEW y \in Programas, HiloEnviar(y)
  PROVE  Paso(y) /\ Tipos'
  <1>1. PICK palabra \in {"largo", "IO_GEN_SLEEP"}, luego \in {"enviar_operacion", "operacion"} :
          EnviarPalabra(y, palabra, luego)
    BY DEF HiloEnviar
  <1>2. /\ hilo[y] \in {"enviar_largo", "enviar_operacion"}
        /\ UNCHANGED <<deInterfaz, flujo, aceptacion, fd, leyendo, locales, global>>
    BY DEF HiloEnviar, En
  <1>3. Conexion(y) \in Programas \union {"libre"}
    BY <1>2, DeHilo
  <1>4. /\ hilo' \in [Programas -> Lugar] /\ hilo'[y] \in {"enviar_largo", "enviar_operacion", "operacion"}
        /\ \A x \in Programas \ {y} : hilo'[x] = hilo[x]
    <2>1. hilo' \in {hilo, [hilo EXCEPT ![y] = luego], [hilo EXCEPT ![y] = "operacion"]}
      BY <1>1 DEF EnviarPalabra, Ir
    <2> QED BY <1>2, <2>1, DeHilo DEF Lugar
  <1>5. /\ respuesta' \in [Programas -> Seq({"largo", "IO_GEN_SLEEP"})]
        /\ \A x \in Programas : x # Conexion(y) => respuesta'[x] = respuesta[x]
    <2>1. CASE respuesta' = respuesta
      BY <2>1, DeHilo
    <2>2. CASE Conexion(y) # "libre"
               /\ respuesta' = [respuesta EXCEPT ![Conexion(y)] = Append(@, palabra)]
      <3>1. Append(respuesta[Conexion(y)], palabra) \in Seq({"largo", "IO_GEN_SLEEP"})
        BY <1>3, <2>2, DeHilo
      <3> QED BY <1>3, <2>2, <3>1, DeHilo
    <2> QED BY <1>1, <2>1, <2>2 DEF EnviarPalabra
  <1>6. Paso(y)
    BY <1>2, <1>4, <1>5, DeHilo DEF Paso
  <1>7. falla' \in {"ninguna", "sigpipe"}
    BY <1>1 DEF EnviarPalabra, Tipos, TypeOK
  <1> QED BY <1>2, <1>4, <1>5, <1>6, <1>7, DeHilo, TiposDe

LEMMA PasoCerrar ==
  ASSUME Tipos, NEW y \in Programas, HiloCerrar(y)
  PROVE  Paso(y) /\ Tipos'
  <1>1. /\ hilo[y] = "cerrar" /\ hilo' = [hilo EXCEPT ![y] = "operacion"]
        /\ fd' = [fd EXCEPT ![descriptor[y]] = "libre"]
        /\ UNCHANGED <<deInterfaz, flujo, aceptacion, leyendo, locales, global, respuesta, falla>>
    BY DEF HiloCerrar, En, Ir
  <1>2. Paso(y)
    BY <1>1, DeHilo DEF Paso, Lugar
  <1>3. falla \in {"ninguna", "sigpipe"} /\ hilo'[y] = "operacion"
    BY <1>1, DeHilo DEF Tipos, TypeOK
  <1> QED BY <1>1, <1>2, <1>3, DeHilo, TiposDe

LEMMA PasoHilo ==
  ASSUME Tipos, NEW y \in Programas, Hilo(y)
  PROVE  Paso(y) /\ Tipos'
  BY PasoLee, PasoLlamar, PasoGuardar, PasoEnviar, PasoCerrar DEF Hilo, Lee

LEMMA PasoTipos == Tipos /\ [Next]_vars => Tipos'
  <1> SUFFICES ASSUME Tipos, [Next]_vars PROVE Tipos'
    OBVIOUS
  <1>1. CASE UNCHANGED vars
    BY <1>1 DEF vars, Tipos, TypeOK, Lugares
  <1>2. ASSUME NEW x \in Programas, InterfazConectar(x) PROVE Tipos'
    <2>1. Append(cola, x) \in Seq(Programas)
      BY DEF Tipos, TypeOK
    <2> QED BY <1>2, <2>1 DEF InterfazConectar, Tipos, TypeOK, Lugares
  <1>3. ASSUME NEW x \in Programas, InterfazEnviar(x) PROVE Tipos'
    <2>1. /\ interfaz[x] = "registrar" /\ enviadas' = [enviadas EXCEPT ![x] = enviadas[x] + 1]
          /\ interfaz' = [interfaz EXCEPT ![x] = IF enviadas[x] = 3 THEN "servir" ELSE "registrar"]
          /\ UNCHANGED <<flujo, aceptacion, fd, hilo, leyendo, locales, global, respuesta, falla>>
      BY <1>3 DEF InterfazEnviar
    <2>2. enviadas[x] \in 0..3
      BY <2>1 DEF Tipos, TypeOK, Lugares
    <2>3. enviadas' \in [Programas -> 0..4]
      BY <2>1, <2>2 DEF Tipos, TypeOK
    <2>4. /\ interfaz' \in [Programas -> {"apagada", "registrar", "servir", "muerta"}]
          /\ \A z \in Programas : interfaz'[z] \in {"apagada", "registrar"} => enviadas'[z] <= 3
      BY <2>1, <2>2 DEF Tipos, TypeOK, Lugares
    <2> QED BY <2>1, <2>3, <2>4 DEF Tipos, TypeOK, Lugares
  <1>4. ASSUME NEW x \in Programas, InterfazMorir(x) PROVE Tipos'
    BY <1>4 DEF InterfazMorir, Tipos, TypeOK, Lugares
  <1>5. CASE AceptarLlamar
    BY <1>5 DEF AceptarLlamar, Tipos, TypeOK, Lugares
  <1>6. CASE AceptarVolver
    <2>1. Head(cola) \in Programas /\ Tail(cola) \in Seq(Programas)
      BY <1>6 DEF AceptarVolver, Tipos, TypeOK
    <2> QED BY <1>6, <2>1 DEF AceptarVolver, Tipos, TypeOK, Lugares
  <1>7. ASSUME NEW x \in Programas, Hilo(x) PROVE Tipos'
    BY <1>7, PasoHilo
  <1> QED BY <1>1, <1>2, <1>3, <1>4, <1>5, <1>6, <1>7 DEF Next, Aceptar

LEMMA TiposSiempre == Spec => []Tipos
  BY InitTipos, PasoTipos, PTL DEF Spec

(* Every variable keeps its type, whatever interfaces do. *)
THEOREM TypeCorrect == Spec => []TypeOK
  <1>1. Tipos => TypeOK
    BY DEF Tipos
  <1> QED BY <1>1, TiposSiempre, PTL
-----------------------------------------------------------------------------
(* Who has which number: a free one is reserved, an interface is at one    *)
(* number at most, and nothing has been done with one not accepted yet.    *)
Reparto ==
  /\ reservado # 0 => fd[reservado] = "libre"
  /\ \A x \in Programas, d \in Descriptores : fd[d] = x => descriptor[x] = d
  /\ \A x \in Programas : hilo[x] = "no" =>
       /\ descriptor[x] = 0 /\ leyendo[x] = "no" /\ leidas[x] = 0
       /\ x \notin desalineadas /\ respuesta[x] = <<>>
       /\ \A y \in Programas : leyendo[y] # x
  /\ \A k \in 1..Len(cola) : hilo[cola[k]] = "no" /\ interfaz[cola[k]] # "apagada"
  /\ \A j, k \in 1..Len(cola) : cola[j] = cola[k] => j = k
  /\ \A x \in Programas : interfaz[x] = "apagada" => hilo[x] = "no"
  /\ compartidas # {} => Muertas # {}

Propio(x) == hilo[x] # "no" /\ x \notin compartidas /\ interfaz[x] # "muerta"

Lleva(donde) == CASE donde = "nombre_length" -> 0 [] donde = "nombre" -> 1
                  [] donde = "tipo_length" -> 2 [] donde = "tipo" -> 3 [] OTHER -> 4

Dicho(donde) == CASE donde = "operacion" -> <<"largo", "IO_GEN_SLEEP">>
                  [] donde = "enviar_operacion" -> <<"largo">> [] OTHER -> <<>>

(* The thread of x is alone on its connection and in step with it.         *)
Bien(x) ==
  /\ fd[descriptor[x]] = x
  /\ \A y \in Programas \ {x} : descriptor[y] # descriptor[x] /\ leyendo[y] # x
  /\ leyendo[x] \in {"no", x} /\ hilo[x] \notin {"cerrar", "mensaje"}
  /\ x \notin desalineadas /\ leidas[x] = Lleva(hilo[x])
  /\ hilo[x] \in {"nombre", "tipo"} => largo[x]
  /\ hilo[x] \notin {"nombre_length", "nombre"} => nombre[x] = x
  /\ hilo[x] \notin {"nombre_length", "nombre", "tipo_length", "tipo"} => tipo[x] = Tipo[x]
  /\ respuesta[x] = Dicho(hilo[x])

Bienes == \A x \in Programas : Propio(x) => Bien(x)

LEMMA InitReparto == Init => Reparto /\ Bienes
  <1> SUFFICES ASSUME Init PROVE Reparto /\ Bienes
    OBVIOUS
  <1>1. \A x \in Programas : hilo[x] = "no" /\ ~Propio(x)
    BY DEF Init, Propio
  <1>2. Reparto
    BY Nombrados DEF Init, Reparto
  <1> QED BY <1>1, <1>2 DEF Bienes

(* What other threads do: they have neither x's number nor its connection. *)
LEMMA PasoAjeno ==
  ASSUME Tipos, Reparto, NEW x \in Programas, NEW y \in Programas \ {x}, Paso(y),
         hilo[x] # "no", Bien(x)
  PROVE  Bien(x)'
  <1>1. /\ descriptor[x] \in Descriptores /\ descriptor[y] \in Descriptores
        /\ descriptor[y] # descriptor[x] /\ leyendo[y] # x /\ "no" \notin Programas
    BY DeHilo, Nombrados DEF Bien, Paso
  <1>2. Conexion(y) # x
    BY <1>1 DEF Conexion, Reparto
  <1>3. /\ hilo'[x] = hilo[x] /\ leyendo'[x] = leyendo[x] /\ largo'[x] = largo[x]
        /\ nombre'[x] = nombre[x] /\ tipo'[x] = tipo[x]
        /\ leidas'[x] = leidas[x] /\ (x \in desalineadas' <=> x \in desalineadas)
        /\ respuesta'[x] = respuesta[x] /\ fd'[descriptor[x]] = fd[descriptor[x]]
        /\ descriptor' = descriptor
    BY <1>1, <1>2 DEF Paso
  <1>4. \A z \in Programas \ {x} : leyendo'[z] # x
    BY <1>1, <1>2 DEF Paso, Bien
  <1> QED BY <1>3, <1>4 DEF Bien

(* What its own thread does: each read gets the word it waits for.         *)
LEMMA PasoMio ==
  ASSUME Tipos, Reparto, NEW x \in Programas, Hilo(x), Propio(x), Bien(x)
  PROVE  Bien(x)'
  <1>1. Paso(x) /\ x # "no" /\ x # "libre" /\ Conexion(x) = x /\ hilo[x] # "no"
    BY PasoHilo, Nombrados DEF Bien, Conexion, Propio
  <1>2. ~Rota(x)
    BY <1>1 DEF Rota, Muertas, Propio
  <1>3. \A z \in Programas \ {x} : /\ leyendo'[z] # x /\ descriptor'[z] # descriptor'[x]
    BY <1>1 DEF Paso, Bien
  <1>4. ASSUME NEW donde \in {"nombre_length", "tipo_length"}, NEW k \in {1, 3},
               NEW luego \in {"nombre", "tipo"}, HiloRecibirLargo(x, donde, k, luego),
               Lleva(donde) = k - 1, Lleva(luego) = k,
               donde = "nombre_length" => luego = "nombre",
               donde = "tipo_length" => luego = "tipo"
        PROVE  Bien(x)'
    <2>1. /\ hilo[x] = donde /\ leyendo[x] = x /\ hilo'[x] = luego /\ leyendo'[x] = "no"
          /\ UNCHANGED <<nombre, tipo, descriptor, fd, respuesta>>
      BY <1>4, PasoVolver DEF HiloRecibirLargo, Bien, Lugar
    <2>2. PICK bien \in BOOLEAN :
            /\ IF bien THEN RecibirBien(x, k) ELSE RecibirMal(x, k)
            /\ largo' = [largo EXCEPT ![x] = bien]
      BY <1>4, <2>1 DEF HiloRecibirLargo
    <2>3. leidas[x] = k - 1 /\ x \notin desalineadas
      BY <1>4, <2>1 DEF Bien
    <2>4. bien
      BY <1>2, <2>2, <2>3 DEF RecibirMal, Justo
    <2>5. leidas'[x] = k /\ desalineadas' = desalineadas /\ largo'[x] = TRUE
      BY <2>2, <2>4, DeHilo DEF RecibirBien, Tomar
    <2> QED BY <1>3, <1>4, <2>1, <2>3, <2>5 DEF Bien, Dicho
  <1>5. CASE HiloRecibirNombre(x)
    <2>1. /\ hilo[x] = "nombre" /\ leyendo[x] = x /\ hilo'[x] = "tipo_length"
          /\ leyendo'[x] = "no" /\ UNCHANGED <<tipo, descriptor, fd, respuesta>>
      BY <1>5, PasoVolver DEF HiloRecibirNombre, Bien, Lugar
    <2>2. PICK bien \in BOOLEAN :
            /\ RecibirTexto(x, 2, bien)
            /\ nombre' = [nombre EXCEPT ![x] = IF bien THEN leyendo[x] ELSE Basura]
      BY <1>5 DEF HiloRecibirNombre
    <2>3. leidas[x] = 1 /\ x \notin desalineadas /\ largo[x]
      BY <2>1 DEF Bien, Lleva
    <2>4. bien /\ RecibirBien(x, 2)
      BY <1>2, <2>1, <2>2, <2>3 DEF RecibirTexto, RecibirMal, Justo
    <2>5. leidas'[x] = 2 /\ desalineadas' = desalineadas /\ nombre'[x] = x
      BY <2>1, <2>2, <2>4, DeHilo DEF RecibirBien, Tomar
    <2> QED BY <1>3, <2>1, <2>3, <2>5 DEF Bien, Dicho, Lleva
  <1>6. CASE HiloRecibirTipo(x)
    <2>1. /\ hilo[x] = "tipo" /\ leyendo[x] = x /\ hilo'[x] = "guardar"
          /\ leyendo'[x] = "no" /\ UNCHANGED <<nombre, descriptor, fd, respuesta>>
      BY <1>6, PasoVolver DEF HiloRecibirTipo, Bien, Lugar
    <2>2. PICK bien \in BOOLEAN :
            /\ RecibirTexto(x, 4, bien)
            /\ tipo' = [tipo EXCEPT ![x] = IF bien THEN Tipo[leyendo[x]] ELSE Basura]
      BY <1>6 DEF HiloRecibirTipo
    <2>3. leidas[x] = 3 /\ x \notin desalineadas /\ largo[x]
      BY <2>1 DEF Bien, Lleva
    <2>4. bien /\ RecibirBien(x, 4)
      BY <1>2, <2>1, <2>2, <2>3 DEF RecibirTexto, RecibirMal, Justo
    <2>5. leidas'[x] = 4 /\ desalineadas' = desalineadas /\ tipo'[x] = Tipo[x]
      BY <2>1, <2>2, <2>4, DeHilo DEF RecibirBien, Tomar
    <2> QED BY <1>3, <2>1, <2>3, <2>5 DEF Bien, Dicho, Lleva
  <1>7. CASE HiloLlamarRecv(x)
    <2>1. /\ leyendo'[x] = x
          /\ UNCHANGED <<flujo, descriptor, fd, hilo, locales, respuesta>>
      BY <1>1, <1>7, DeHilo DEF HiloLlamarRecv
    <2> QED BY <1>3, <2>1 DEF Bien
  <1>8. CASE HiloGuardar(x) \/ HiloGuardarNombre(x) \/ HiloGuardarTipo(x)
    <2>1. PICK luego \in {"guardar_nombre", "guardar_tipo", "enviar_largo"} :
            hilo' = [hilo EXCEPT ![x] = luego]
      BY <1>8 DEF HiloGuardar, HiloGuardarNombre, HiloGuardarTipo, Ir
    <2>2. /\ hilo[x] \in {"guardar", "guardar_nombre", "guardar_tipo"} /\ hilo'[x] = luego
          /\ UNCHANGED <<flujo, descriptor, fd, leyendo, locales, respuesta>>
      BY <1>8, <2>1, DeHilo DEF HiloGuardar, HiloGuardarNombre, HiloGuardarTipo, En
    <2> QED BY <1>3, <2>2 DEF Bien, Dicho, Lleva
  <1>9. CASE HiloEnviar(x)
    <2>1. x \notin Respondidas
      BY DEF Respondidas, Muertas, Propio
    <2>2. PICK palabra \in {"largo", "IO_GEN_SLEEP"}, luego \in {"enviar_operacion", "operacion"} :
            /\ EnviarPalabra(x, palabra, luego)
            /\ \/ hilo[x] = "enviar_largo" /\ palabra = "largo" /\ luego = "enviar_operacion"
               \/ hilo[x] = "enviar_operacion" /\ palabra = "IO_GEN_SLEEP" /\ luego = "operacion"
      BY <1>9 DEF HiloEnviar, En
    <2>3. /\ respuesta' = [respuesta EXCEPT ![x] = Append(@, palabra)]
          /\ hilo' = [hilo EXCEPT ![x] = luego]
      BY <1>1, <2>1, <2>2 DEF EnviarPalabra, Ir
    <2>4. /\ hilo'[x] = luego /\ respuesta'[x] = Append(respuesta[x], palabra)
          /\ UNCHANGED <<flujo, descriptor, fd, leyendo, locales>>
      BY <1>9, <2>3, DeHilo DEF HiloEnviar
    <2>5. respuesta'[x] = Dicho(luego)
      <3>1. CASE luego = "enviar_operacion"
        <4>1. respuesta[x] = <<>> /\ palabra = "largo"
          BY <2>2, <3>1 DEF Bien, Dicho
        <4>2. Append(<<>>, "largo") = <<"largo">>
          OBVIOUS
        <4> QED BY <2>4, <3>1, <4>1, <4>2 DEF Dicho
      <3>2. CASE luego = "operacion"
        <4>1. respuesta[x] = <<"largo">> /\ palabra = "IO_GEN_SLEEP"
          BY <2>2, <3>2 DEF Bien, Dicho
        <4>2. Append(<<"largo">>, "IO_GEN_SLEEP") = <<"largo", "IO_GEN_SLEEP">>
          BY DosPalabras
        <4> QED BY <2>4, <3>2, <4>1, <4>2 DEF Dicho
      <3> QED BY <3>1, <3>2
    <2> QED BY <1>3, <2>2, <2>4, <2>5 DEF Bien, Lleva
  <1>10. ~HiloVerCerrada(x)
    <2>1. ASSUME HiloVerCerrada(x) PROVE FALSE
      <3>1. leyendo[x] = x
        BY <2>1 DEF HiloVerCerrada, Volver, Bien
      <3> QED BY <1>2, <2>1, <3>1 DEF HiloVerCerrada
    <2> QED BY <2>1
  <1>11. ~HiloRecibirOperacion(x)
    <2>1. ASSUME HiloRecibirOperacion(x) PROVE FALSE
      <3>1. leyendo[x] = x /\ hilo[x] = "operacion" /\ Hay(x)
        BY <2>1 DEF HiloRecibirOperacion, Volver, En, Bien
      <3>2. leidas[x] = 4 /\ leidas[x] < enviadas[x] /\ enviadas[x] \in 0..4
        BY <3>1, DeHilo DEF Bien, Lleva, Hay
      <3> QED BY <3>2
    <2> QED BY <2>1
  <1>12. ~HiloRecibirMensaje(x) /\ ~HiloCerrar(x)
    BY DEF HiloRecibirMensaje, Volver, En, HiloCerrar, Bien
  <1>13. /\ Lleva("nombre_length") = 1 - 1 /\ Lleva("nombre") = 1
         /\ Lleva("tipo_length") = 3 - 1 /\ Lleva("tipo") = 3
    BY DEF Lleva
  <1> QED BY <1>4, <1>5, <1>6, <1>7, <1>8, <1>9, <1>10, <1>11, <1>12, <1>13 DEF Hilo

LEMMA PasoRepartoHilo ==
  ASSUME Tipos, Reparto, NEW y \in Programas, Paso(y)
  PROVE  Reparto'
  <1>1. /\ UNCHANGED <<interfaz, cola, reservado, descriptor, compartidas>>
        /\ \A x \in Programas : (hilo'[x] = "no") <=> (hilo[x] = "no")
        /\ \A d \in Descriptores : fd'[d] = fd[d] \/ fd'[d] = "libre"
        /\ reservado \in {0} \union Descriptores
    BY DEF Paso, Tipos, TypeOK
  <1>2. cola \in Seq(Programas) /\ "libre" \notin Programas /\ "no" \notin Programas
    BY Nombrados DEF Tipos, TypeOK
  <1>3. ASSUME NEW x \in Programas, hilo'[x] = "no"
        PROVE  /\ descriptor'[x] = 0 /\ leyendo'[x] = "no" /\ leidas'[x] = 0
               /\ x \notin desalineadas' /\ respuesta'[x] = <<>>
               /\ \A z \in Programas : leyendo'[z] # x
    <2>1. /\ hilo[x] = "no" /\ descriptor[x] = 0 /\ leyendo[x] = "no" /\ leidas[x] = 0
          /\ x \notin desalineadas /\ respuesta[x] = <<>>
          /\ \A z \in Programas : leyendo[z] # x
      BY <1>1, <1>3 DEF Reparto
    <2>2. x # y /\ x # leyendo[y] /\ descriptor[y] \in Descriptores
      BY <2>1, DeHilo DEF Paso
    <2>3. x # Conexion(y)
      BY <2>1, <2>2, Nombrados DEF Conexion, Reparto
    <2> QED BY <1>1, <1>2, <2>1, <2>2, <2>3 DEF Paso
  <1>4. \A k \in 1..Len(cola) : cola[k] \in Programas
    BY <1>2
  <1>5. \A x \in Programas, d \in Descriptores : fd'[d] = x => descriptor'[x] = d
    BY <1>1, <1>2 DEF Reparto
  <1>6. Muertas' = Muertas
    BY <1>1 DEF Muertas
  <1> QED BY <1>1, <1>3, <1>4, <1>5, <1>6 DEF Reparto

LEMMA PasoAceptarVolver ==
  ASSUME Tipos, Reparto, Bienes, AceptarVolver
  PROVE  Reparto' /\ Bienes'
  <1>0. Head(cola) \in Programas /\ reservado \in Descriptores
    BY DEF AceptarVolver, Tipos, TypeOK
  <1> PICK x \in Programas, d \in Descriptores : x = Head(cola) /\ d = reservado
    BY <1>0
  <1>1. /\ d # 0 /\ cola # <<>> /\ x = cola[1] /\ x \in Programas /\ d \in Descriptores
        /\ cola \in Seq(Programas) /\ fd[d] = "libre" /\ hilo[x] = "no"
        /\ "libre" \notin Programas /\ 0 \notin Descriptores
    BY Nombrados DEF AceptarVolver, Tipos, TypeOK, Reparto
  <1>2. /\ cola' = Tail(cola) /\ reservado' = 0
        /\ UNCHANGED <<deInterfaz, flujo, leyendo, locales, global, respuesta, falla>>
        /\ \A e \in Descriptores : fd'[e] = IF e = d THEN x ELSE fd[e]
        /\ \A z \in Programas : descriptor'[z] = IF z = x THEN d ELSE descriptor[z]
        /\ \A z \in Programas : hilo'[z] = IF z = x THEN "nombre_length" ELSE hilo[z]
        /\ compartidas' = IF \E z \in Programas : descriptor[z] = d
                          THEN compartidas \union {x} ELSE compartidas
    BY <1>1 DEF AceptarVolver, Tipos, TypeOK
  <1>3. /\ descriptor[x] = 0 /\ leyendo[x] = "no" /\ leidas[x] = 0
        /\ x \notin desalineadas /\ respuesta[x] = <<>>
        /\ \A y \in Programas : leyendo[y] # x
    BY <1>1 DEF Reparto
  <1>4. /\ Len(Tail(cola)) = Len(cola) - 1 /\ Len(cola) \in Nat
        /\ \A k \in 1..Len(Tail(cola)) : /\ Tail(cola)[k] = cola[k+1] /\ k+1 \in 1..Len(cola)
                                         /\ Tail(cola)[k] \in Programas
    BY <1>1
  <1>5. ASSUME NEW z \in Programas, z # x, Propio(z)' PROVE Bien(z)'
    <2>1. Propio(z)
      BY <1>2, <1>5 DEF Propio
    <2>2. Bien(z) /\ descriptor[z] \in Descriptores
      BY <2>1, DeHilo DEF Bienes, Propio
    <2>3. descriptor[z] # d
      BY <1>1, <2>2 DEF Bien
    <2> QED BY <1>2, <1>3, <1>5, <2>2, <2>3 DEF Bien
  <1>6. ASSUME Propio(x)' PROVE Bien(x)'
    <2>1. \A z \in Programas : descriptor[z] # d
      BY <1>2, <1>6 DEF Propio
    <2>2. hilo'[x] = "nombre_length" /\ descriptor'[x] = d /\ fd'[d] = x
      BY <1>1, <1>2
    <2> QED BY <1>1, <1>2, <1>3, <2>1, <2>2 DEF Bien, Lleva, Dicho
  <1>7. compartidas' # {} => Muertas' # {}
    <2>1. Muertas' = Muertas
      BY <1>2 DEF Muertas
    <2>2. ASSUME NEW z \in Programas, descriptor[z] = d, Muertas = {} PROVE FALSE
      <3>1. hilo[z] # "no" /\ compartidas = {}
        BY <1>1, <2>2 DEF Reparto
      <3>2. Propio(z)
        BY <2>2, <3>1 DEF Propio, Muertas
      <3>3. fd[d] = z
        BY <2>2, <3>2 DEF Bienes, Bien
      <3> QED BY <1>1, <3>3
    <2> QED BY <1>2, <2>1, <2>2 DEF Reparto
  <1>8. \A z \in Programas, e \in Descriptores : fd'[e] = z => descriptor'[z] = e
    BY <1>1, <1>2, <1>3 DEF Reparto
  <1>9. \A z \in Programas : hilo'[z] = "no" =>
           /\ descriptor'[z] = 0 /\ leyendo'[z] = "no" /\ leidas'[z] = 0
           /\ z \notin desalineadas' /\ respuesta'[z] = <<>>
           /\ \A y \in Programas : leyendo'[y] # z
    BY <1>2 DEF Reparto
  <1>10. \A k \in 1..Len(cola') : hilo'[cola'[k]] = "no" /\ interfaz'[cola'[k]] # "apagada"
    <2>1. \A k \in 1..Len(cola') : cola[k+1] # x
      BY <1>1, <1>2, <1>4 DEF Reparto
    <2> QED BY <1>2, <1>4, <2>1 DEF Reparto
  <1>11. \A j, k \in 1..Len(cola') : cola'[j] = cola'[k] => j = k
    BY <1>2, <1>4 DEF Reparto
  <1>12. \A z \in Programas : interfaz'[z] = "apagada" => hilo'[z] = "no"
    <2>1. interfaz[x] # "apagada"
      BY <1>1 DEF Reparto
    <2> QED BY <1>2, <2>1 DEF Reparto
  <1>13. Reparto'
    BY <1>2, <1>7, <1>8, <1>9, <1>10, <1>11, <1>12 DEF Reparto
  <1> QED BY <1>5, <1>6, <1>13 DEF Bienes

(* What neither accepts nor is a thread leaves the numbers alone.          *)
LEMMA PasoBienesQuieto ==
  ASSUME Tipos, Reparto, Bienes,
         UNCHANGED <<flujo, descriptor, compartidas, fd, hilo, leyendo, locales, respuesta>>,
         \A x \in Programas : interfaz[x] = "muerta" => interfaz'[x] = "muerta"
  PROVE  Bienes'
  <1> SUFFICES ASSUME NEW x \in Programas, Propio(x)' PROVE Bien(x)'
    BY DEF Bienes
  <1>1. Propio(x)
    BY DEF Propio
  <1> QED BY <1>1 DEF Bienes, Bien

LEMMA PasoReparto == Tipos /\ Reparto /\ Bienes /\ [Next]_vars => Reparto' /\ Bienes'
  <1> SUFFICES ASSUME Tipos, Reparto, Bienes, [Next]_vars PROVE Reparto' /\ Bienes'
    OBVIOUS
  <1>0. /\ cola \in Seq(Programas) /\ Len(cola) \in Nat
        /\ interfaz \in [Programas -> {"apagada", "registrar", "servir", "muerta"}]
    BY DEF Tipos, TypeOK
  <1>1. CASE UNCHANGED vars
    <2>1. Reparto'
      BY <1>1 DEF vars, Reparto, Muertas
    <2> QED BY <1>1, <2>1, PasoBienesQuieto DEF vars
  <1>2. ASSUME NEW x \in Programas, InterfazConectar(x) PROVE Reparto' /\ Bienes'
    <2>1. /\ interfaz[x] = "apagada" /\ cola' = Append(cola, x)
          /\ \A z \in Programas : interfaz'[z] = IF z = x THEN "registrar" ELSE interfaz[z]
          /\ UNCHANGED <<enviadas, flujo, reservado, descriptor, compartidas, fd, hilo,
                         leyendo, locales, global, respuesta, falla>>
      BY <1>0, <1>2 DEF InterfazConectar
    <2>2. /\ Len(cola') = Len(cola) + 1 /\ cola'[Len(cola) + 1] = x
          /\ \A k \in 1..Len(cola) : cola'[k] = cola[k] /\ cola[k] \in Programas
      BY <1>0, <2>1
    <2>3. \A k \in 1..Len(cola) : cola[k] # x
      BY <2>1 DEF Reparto
    <2>4. hilo[x] = "no"
      BY <2>1 DEF Reparto
    <2>5. \A k \in 1..Len(cola') : hilo'[cola'[k]] = "no" /\ interfaz'[cola'[k]] # "apagada"
      BY <1>0, <2>1, <2>2, <2>4 DEF Reparto
    <2>6. \A j, k \in 1..Len(cola') : cola'[j] = cola'[k] => j = k
      BY <1>0, <2>2, <2>3 DEF Reparto
    <2>7. Muertas' = Muertas
      BY <2>1 DEF Muertas
    <2>8. Reparto'
      BY <2>1, <2>5, <2>6, <2>7 DEF Reparto
    <2> QED BY <2>1, <2>8, PasoBienesQuieto
  <1>3. ASSUME NEW x \in Programas, InterfazEnviar(x) \/ InterfazMorir(x) PROVE Reparto' /\ Bienes'
    <2>1. /\ interfaz[x] # "apagada"
          /\ \A z \in Programas : z # x => interfaz'[z] = interfaz[z]
          /\ interfaz'[x] # "apagada" /\ (interfaz[x] = "muerta" => interfaz'[x] = "muerta")
          /\ UNCHANGED <<flujo, aceptacion, fd, hilo, leyendo, locales, global, respuesta, falla>>
      BY <1>0, <1>3 DEF InterfazEnviar, InterfazMorir
    <2>2. Muertas \subseteq Muertas'
      BY <2>1 DEF Muertas
    <2>3. \A k \in 1..Len(cola) : cola[k] \in Programas
      BY <1>0
    <2>4. Reparto'
      BY <2>1, <2>2, <2>3 DEF Reparto
    <2> QED BY <2>1, <2>4, PasoBienesQuieto
  <1>4. CASE AceptarLlamar
    <2>1. Reparto'
      BY <1>4 DEF AceptarLlamar, Libre, Reparto, Muertas
    <2> QED BY <1>4, <2>1, PasoBienesQuieto DEF AceptarLlamar
  <1>5. CASE AceptarVolver
    BY <1>5, PasoAceptarVolver
  <1>6. ASSUME NEW y \in Programas, Hilo(y) PROVE Reparto' /\ Bienes'
    <2>1. Paso(y)
      BY <1>6, PasoHilo
    <2>2. Reparto'
      BY <2>1, PasoRepartoHilo
    <2>3. ASSUME NEW x \in Programas, Propio(x)' PROVE Bien(x)'
      <3>1. Propio(x) /\ Bien(x) /\ hilo[x] # "no"
        BY <2>1, <2>3 DEF Propio, Paso, Bienes
      <3> QED BY <1>6, <2>1, <3>1, PasoMio, PasoAjeno
    <2> QED BY <2>2, <2>3 DEF Bienes
  <1> QED BY <1>1, <1>2, <1>3, <1>4, <1>5, <1>6 DEF Next, Aceptar

LEMMA RepartoSiempre == Spec => [](Tipos /\ Reparto /\ Bienes)
  BY InitTipos, InitReparto, PasoTipos, PasoReparto, PTL DEF Spec

(* The registration of an interface that runs is its own, unless its       *)
(* number was another thread's.                                            *)
THEOREM RegistroCorrecto == Spec => []RegistroPropio
  <1>1. Tipos /\ Reparto /\ Bienes => RegistroPropio
    <2> SUFFICES ASSUME Bienes, NEW x \in Programas \ (compartidas \union Muertas), hilo[x] # "no"
                 PROVE  /\ Conexion(x) = x
                        /\ hilo[x] \notin {"nombre_length", "nombre"} => nombre[x] = x
                        /\ hilo[x] \notin {"nombre_length", "nombre", "tipo_length", "tipo"}
                             => tipo[x] = Tipo[x]
                        /\ hilo[x] \in {"operacion", "cerrar", "mensaje"} =>
                             respuesta[x] = <<"largo", "IO_GEN_SLEEP">>
      BY DEF RegistroPropio
    <2>1. Bien(x)
      BY DEF Bienes, Propio, Muertas
    <2> QED BY <2>1 DEF Bien, Conexion, Dicho
  <1> QED BY <1>1, RepartoSiempre, PTL

LEMMA PasoCierre ==
  ASSUME Tipos, Reparto, Bienes, [Next]_vars, NEW d \in Descriptores,
         fd[d] \in Programas, fd'[d] = "libre"
  PROVE  fd[d] \in Muertas \/ (fd[d] \in compartidas /\ Muertas # {})
  <1> DEFINE c == fd[d]
  <1>1. c \in Programas /\ c # "libre" /\ descriptor[c] = d
    BY Nombrados DEF Reparto
  <1>2. fd'[d] # fd[d]
    BY <1>1
  <1>3. PICK y \in Programas : Hilo(y)
    <2>1. ~AceptarVolver
      <3>1. ASSUME AceptarVolver PROVE FALSE
        <4>1. fd' = [fd EXCEPT ![reservado] = Head(cola)] /\ Head(cola) \in Programas
          BY <3>1 DEF AceptarVolver, Tipos, TypeOK
        <4>2. fd \in [Descriptores -> Programas \union {"libre"}]
          BY DeHilo
        <4> QED BY <1>2, <4>1, <4>2, Nombrados
      <3> QED BY <3>1
    <2> QED BY <1>2, <2>1 DEF Next, Aceptar, vars, InterfazConectar, InterfazEnviar,
             InterfazMorir, AceptarLlamar
  <1>4. Paso(y)
    BY <1>3, PasoHilo
  <1>5. hilo[y] = "cerrar" /\ descriptor[y] = d
    BY <1>2, <1>4 DEF Paso
  <1>6. hilo[c] # "no"
    BY <1>1, Nombrados DEF Reparto
  <1>7. ~Propio(c)
    <2>1. ASSUME Bien(c) PROVE FALSE
      <3>1. CASE y = c
        BY <1>5, <2>1, <3>1 DEF Bien
      <3>2. CASE y # c
        BY <1>1, <1>5, <2>1, <3>2 DEF Bien
      <3> QED BY <3>1, <3>2
    <2> QED BY <1>1, <2>1 DEF Bienes
  <1>8. c \in compartidas \/ c \in Muertas
    BY <1>1, <1>6, <1>7 DEF Propio, Muertas
  <1> QED BY <1>8 DEF Reparto

(* The kernel closes the connection of an interface that runs only when    *)
(* its number was another thread's, and then some interface has died.      *)
THEOREM CierreCorrecto == Spec => CierreAjenoSoloPorReuso
  <1>1. Tipos /\ Reparto /\ Bienes /\ [Next]_vars =>
          [\A d \in Descriptores : fd[d] \in Programas /\ fd'[d] = "libre" =>
             fd[d] \in Muertas \/ (fd[d] \in compartidas /\ Muertas # {})]_vars
    BY PasoCierre
  <1> QED BY <1>1, RepartoSiempre, PTL DEF Spec, CierreAjenoSoloPorReuso
=============================================================================
