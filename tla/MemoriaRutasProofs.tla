------------------------- MODULE MemoriaRutasProofs -------------------------
(***************************************************************************)
(* Proof that conexion_Kernel logs the paths of its client in order, for   *)
(* any programs that connect and any number of paths.                      *)
(***************************************************************************)
EXTENDS MemoriaProofs

USE DEF propias, red

(* The i-th word a client sends, and how many it has sent.                 *)
Termino(c, i) ==
  IF i = 1 THEN <<"op", c, 0>>
  ELSE <<IF i % 2 = 0 THEN "largo" ELSE "texto", c, (i - 2) \div 2>>

Mandadas(c) == IF enviados[c] = 0 THEN 0 ELSE enviados[c] + 2

(* What is on the connection is what was sent but the first p words.       *)
Derecho(c, p) ==
  /\ p + Len(flujo[c]) = Mandadas(c)
  /\ \A j \in 1..Len(flujo[c]) : flujo[c][j] = Termino(c, p + j)

(* A client nobody has accepted: its connection is whole, and no thread    *)
(* can read it.  A connection has one number.                              *)
EnCola(c) == \E j \in 1..Len(cola) : cola[j] = c
SinAtender(c) == EnCola(c) \/ cliente[c] = "afuera"

Sitios ==
  /\ \A c \in Clientes : SinAtender(c) =>
       /\ Derecho(c, 0)
       /\ \A m \in Numeros : tabla[m] # c
       /\ \A h \in Hilos : leyendo[h] # c /\ atiende[h] # c
  /\ \A c \in Clientes : EnCola(c) => cliente[c] # "afuera"
  /\ \A j, k \in 1..Len(cola) : cola[j] = cola[k] => j = k
  /\ \A m, n \in Numeros : tabla[m] \in Clientes /\ tabla[m] = tabla[n] => m = n

(* The words conexion_Kernel has read, and the frame it has been told of.  *)
Leidas ==
  CASE hilo["kernel"] = "operacion" -> 0
    [] hilo["kernel"] = "largo" -> 1
    [] hilo["kernel"] = "texto" -> 2
    [] hilo["kernel"] = "largo_path" -> 3 + 2 * Len(rutas)
    [] OTHER -> 4 + 2 * Len(rutas)

Sabido ==
  /\ hilo["kernel"] \notin {"largo_path", "texto_path"} => rutas = <<>>
  /\ hilo["kernel"] = "texto" => anunciado["kernel"] = <<atiende["kernel"], 0>>
  /\ hilo["kernel"] = "texto_path" =>
       anunciado["kernel"] = <<atiende["kernel"], Len(rutas) + 1>>

(* conexion_Kernel reads in step, alone; or it has nothing left to read.   *)
EnFase ==
  /\ hilo["kernel"] \in Lecturas
  /\ tabla[numero["kernel"]] = atiende["kernel"]
  /\ \A h \in Hilos : leyendo[h] # atiende["kernel"]
  /\ Derecho(atiende["kernel"], Leidas)
  /\ Sabido

Cortada ==
  \/ tabla[numero["kernel"]] = "libre"
  \/ /\ tabla[numero["kernel"]] = atiende["kernel"]
     /\ cliente[atiende["kernel"]] = "ido" /\ flujo[atiende["kernel"]] = <<>>

Seguido ==
  /\ atiende["kernel"] = "nadie" => rutas = <<>>
  /\ KernelSolo =>
       /\ leyendo["kernel"] = "nadie"
       /\ rutas = [k \in 1..Len(rutas) |-> <<atiende["kernel"], k>>]
       /\ atiende["kernel"] # "nadie" => EnFase \/ Cortada
-----------------------------------------------------------------------------
LEMMA InitSeguido == Init => Sitios /\ Seguido
  <1> SUFFICES ASSUME Init PROVE Sitios /\ Seguido
    OBVIOUS
  <1>1. /\ \A h \in Hilos : leyendo[h] = "nadie" /\ atiende[h] = "nadie"
        /\ \A n \in Numeros : tabla[n] = "libre"
        /\ \A c \in Clientes : flujo[c] = <<>> /\ enviados[c] = 0
        /\ cola = <<>> /\ rutas = <<>> /\ "kernel" \in Hilos
    BY DEF Init, Hilos
  <1>2. "libre" \notin Clientes /\ "nadie" \notin Clientes
    BY ClientesOK
  <1>3. ASSUME NEW c \in Clientes PROVE Derecho(c, 0)
    <2>1. flujo[c] = <<>> /\ Mandadas(c) = 0
      BY <1>1 DEF Mandadas
    <2>2. Len(<<>>) = 0 /\ 1..0 = {}
      OBVIOUS
    <2> QED BY <2>1, <2>2 DEF Derecho
  <1>4. Sitios
    BY <1>1, <1>2, <1>3 DEF Sitios, EnCola
  <1>5. rutas = [k \in 1..Len(rutas) |-> <<atiende["kernel"], k>>]
    BY <1>1
  <1> QED BY <1>1, <1>4, <1>5 DEF Seguido

LEMMA Paridad ==
  ASSUME NEW e \in Nat
  PROVE  e + 3 # 1 /\ (e + 3) - 2 = e + 1 /\ ((e + 3) % 2 = 0 <=> e % 2 = 1)
  OBVIOUS

(* A send adds the next words. *)
LEMMA EnvioDerecho ==
  ASSUME Tipos, NEW c \in Clientes, NEW p \in Nat, Derecho(c, p),
         enviados' = [enviados EXCEPT ![c] = @ + 1],
         flujo' = [flujo EXCEPT ![c] = @ \o Envio(c, enviados[c])]
  PROVE  Derecho(c, p)'
  <1> PICK e \in Nat : e = enviados[c]
    BY DEF Tipos, TypeOK
  <1> PICK s \in Seq(Palabras(c)) : s = flujo[c]
    BY DEF Tipos, TypeOK
  <1>1. enviados'[c] = e + 1 /\ flujo'[c] = s \o Envio(c, e)
    BY DEF Tipos, TypeOK, Lugares
  <1>2. p + Len(s) = (IF e = 0 THEN 0 ELSE e + 2) /\ Len(s) \in Nat
        /\ \A j \in 1..Len(s) : s[j] = Termino(c, p + j)
    BY DEF Derecho, Mandadas
  <1>3. /\ p + Len(s \o Envio(c, e)) = e + 3
        /\ \A j \in 1..Len(s \o Envio(c, e)) : (s \o Envio(c, e))[j] = Termino(c, p + j)
    <2>1. CASE e = 0
      <3>1. p = 0 /\ Len(s) = 0
        BY <1>2, <2>1
      <3>2. s = <<>>
        BY <3>1
      <3> DEFINE t == << <<"op", c, 0>>, <<"largo", c, 0>>, <<"texto", c, 0>> >>
      <3>3. s \o Envio(c, e) = t
        BY <2>1, <3>2 DEF Envio
      <3>4. /\ Len(t) = 3 /\ t[1] = <<"op", c, 0>> /\ t[2] = <<"largo", c, 0>>
            /\ t[3] = <<"texto", c, 0>>
        OBVIOUS
      <3>5. /\ Termino(c, 1) = <<"op", c, 0>> /\ Termino(c, 2) = <<"largo", c, 0>>
            /\ Termino(c, 3) = <<"texto", c, 0>>
        BY DEF Termino
      <3> HIDE DEF t
      <3>6. \A j \in 1..3 : t[j] = Termino(c, j)
        BY <3>4, <3>5
      <3>7. \A j \in 1..3 : p + j = j
        BY <3>1
      <3> QED BY <2>1, <3>1, <3>3, <3>4, <3>6, <3>7
    <2>2. CASE e # 0
      <3> DEFINE w == <<IF e % 2 = 1 THEN "largo" ELSE "texto", c, (e + 1) \div 2>>
      <3>1. Envio(c, e) = <<w>>
        BY <2>2 DEF Envio
      <3>2. w = Termino(c, e + 3)
        <4>1. e + 3 # 1 /\ (e + 3) - 2 = e + 1 /\ ((e + 3) % 2 = 0 <=> e % 2 = 1)
          BY Paridad
        <4> QED BY <4>1 DEF Termino
      <3>3. w \in Palabras(c) \/ w \notin Palabras(c)
        OBVIOUS
      <3> HIDE DEF w
      <3>4. /\ Len(s \o <<w>>) = Len(s) + 1
            /\ \A j \in 1..Len(s) : (s \o <<w>>)[j] = s[j]
            /\ (s \o <<w>>)[Len(s) + 1] = w
        OBVIOUS
      <3>5. p + (Len(s) + 1) = e + 3
        BY <1>2, <2>2
      <3> QED BY <1>2, <3>1, <3>2, <3>4, <3>5
    <2> QED BY <2>1, <2>2
  <1>4. Mandadas(c)' = e + 3
    <2>1. e + 1 # 0 /\ (e + 1) + 2 = e + 3
      OBVIOUS
    <2> QED BY <1>1, <2>1 DEF Mandadas
  <1> QED BY <1>1, <1>3, <1>4 DEF Derecho

(* A read takes the next word. *)
LEMMA LeerDerecho ==
  ASSUME Tipos, NEW c \in Clientes, NEW p \in Nat, Derecho(c, p), flujo[c] # <<>>
  PROVE  /\ Head(flujo[c]) = Termino(c, p + 1)
         /\ flujo'[c] = Tail(flujo[c]) /\ enviados' = enviados => Derecho(c, p + 1)'
  <1> PICK s \in Seq(Palabras(c)) : s = flujo[c]
    BY DEF Tipos, TypeOK
  <1>1. /\ p + Len(s) = Mandadas(c) /\ Len(s) \in Nat /\ Len(s) > 0 /\ Head(s) = s[1]
        /\ \A j \in 1..Len(s) : s[j] = Termino(c, p + j)
    BY DEF Derecho
  <1>2. Len(Tail(s)) = Len(s) - 1 /\ \A j \in 1..Len(Tail(s)) : Tail(s)[j] = s[j + 1]
    BY <1>1
  <1>3. \A j \in 1..Len(Tail(s)) : Tail(s)[j] = Termino(c, (p + 1) + j)
    <2> SUFFICES ASSUME NEW j \in 1..Len(Tail(s)) PROVE Tail(s)[j] = Termino(c, (p + 1) + j)
      OBVIOUS
    <2>1. j + 1 \in 1..Len(s) /\ p + (j + 1) = (p + 1) + j
      BY <1>1, <1>2
    <2> QED BY <1>1, <1>2, <2>1
  <1>4. (p + 1) + Len(Tail(s)) = p + Len(s)
    <2>1. PICK l \in Nat : l = Len(s)
      BY <1>1
    <2>2. (p + 1) + (l - 1) = p + l
      OBVIOUS
    <2> QED BY <1>2, <2>1, <2>2
  <1>5. ASSUME flujo'[c] = Tail(s), enviados' = enviados PROVE Derecho(c, p + 1)'
    <2>1. Mandadas(c)' = Mandadas(c)
      BY <1>5 DEF Mandadas
    <2> QED BY <1>1, <1>3, <1>4, <1>5, <2>1 DEF Derecho
  <1>6. 1 \in 1..Len(s)
    BY <1>1
  <1> QED BY <1>1, <1>5, <1>6
-----------------------------------------------------------------------------
(* What an action of a client does to a connection. *)
LEMMA ClienteDerecho ==
  ASSUME Tipos, NEW d \in Clientes, Cliente(d), NEW c \in Clientes, NEW p \in Nat,
         Derecho(c, p), Abierta(c) \/ cliente[c] = "afuera"
  PROVE  Derecho(c, p)'
  <1>1. CASE Enviar(d) /\ d = c
    <2>1. Abierta(c)
      BY <1>1 DEF Enviar
    <2> QED BY <1>1, <2>1, EnvioDerecho DEF Enviar
  <1>2. CASE ~Enviar(d) \/ d # c
    <2>1. flujo'[c] = flujo[c] /\ enviados'[c] = enviados[c]
      <3>1. enviados \in [Clientes -> Nat] /\ flujo = [x \in Clientes |-> flujo[x]]
        BY DEF Tipos, TypeOK, Lugares
      <3> QED BY <1>2, <3>1 DEF Cliente, Conectar, Enviar, Irse
    <2> QED BY <2>1 DEF Derecho, Mandadas
  <1> QED BY <1>1, <1>2

LEMMA ClienteSinAtender ==
  ASSUME Tipos, Sitios, NEW d \in Clientes, Cliente(d)
  PROVE  /\ \A c \in Clientes : SinAtender(c)' => SinAtender(c)
         /\ \A c \in Clientes : EnCola(c)' => cliente'[c] # "afuera"
         /\ \A j, k \in 1..Len(cola') : cola'[j] = cola'[k] => j = k
  <1>1. cliente \in [Clientes -> {"afuera", "dentro", "ido"}] /\ cola \in Seq(Clientes)
    BY DEF Tipos, TypeOK
  <1>2. CASE Conectar(d)
    <2>1. /\ cola' = Append(cola, d) /\ cliente[d] = "afuera"
          /\ \A c \in Clientes : cliente'[c] = IF c = d THEN "dentro" ELSE cliente[c]
      BY <1>1, <1>2 DEF Conectar
    <2>2. /\ Len(cola') = Len(cola) + 1 /\ Len(cola) \in Nat
          /\ \A j \in 1..Len(cola) : cola'[j] = cola[j]
          /\ cola'[Len(cola) + 1] = d
      BY <1>1, <2>1
    <2>3. \A j \in 1..Len(cola) : cola[j] # d
      BY <2>1 DEF Sitios, EnCola
    <2>4. \A c \in Clientes : EnCola(c)' => EnCola(c) \/ c = d
      BY <2>2 DEF EnCola
    <2>5. \A j, k \in 1..Len(cola') : cola'[j] = cola'[k] => j = k
      BY <2>2, <2>3 DEF Sitios
    <2> QED BY <2>1, <2>4, <2>5 DEF Sitios, SinAtender
  <1>3. CASE Enviar(d) \/ Irse(d)
    <2>1. cola' = cola /\ \A c \in Clientes : cliente'[c] = "afuera" <=> cliente[c] = "afuera"
      BY <1>1, <1>3 DEF Enviar, Irse
    <2> QED BY <2>1 DEF Sitios, SinAtender, EnCola
  <1> QED BY <1>2, <1>3 DEF Cliente

LEMMA PasoSitiosCliente ==
  ASSUME Tipos, Sitios, NEW d \in Clientes, Cliente(d)
  PROVE  Sitios'
  <1>1. UNCHANGED <<tabla, leyendo, atiende>>
    BY PasoCliente
  <1>2. ASSUME NEW c \in Clientes, SinAtender(c)'
        PROVE  /\ Derecho(c, 0)' /\ \A m \in Numeros : tabla[m] # c
               /\ \A h \in Hilos : leyendo[h] # c /\ atiende[h] # c
    <2>1. SinAtender(c)
      BY <1>2, ClienteSinAtender
    <2>2. Abierta(c) \/ cliente[c] = "afuera"
      <3>1. cola \in Seq(Clientes)
        BY DEF Tipos, TypeOK
      <3> QED BY <2>1, <3>1 DEF SinAtender, EnCola, Abierta, Elementos
    <2> QED BY <2>1, <2>2, ClienteDerecho DEF Sitios
  <1> QED BY <1>1, <1>2, ClienteSinAtender DEF Sitios

(* The step of a thread that does not accept. *)
LEMMA PasoSitiosHilo ==
  ASSUME Tipos, Sitios, UNCHANGED <<cola, cliente, enviados, atiende>>,
         \A c \in Clientes : SinAtender(c) => flujo'[c] = flujo[c],
         \A c \in Clientes, m \in Numeros : tabla'[m] = c => tabla[m] = c,
         \A c \in Clientes, h \in Hilos : leyendo'[h] = c =>
            leyendo[h] = c \/ \E m \in Numeros : tabla[m] = c
  PROVE  Sitios'
  <1>1. \A c \in Clientes : SinAtender(c)' <=> SinAtender(c)
    BY DEF SinAtender, EnCola
  <1>2. \A c \in Clientes : SinAtender(c) => Derecho(c, 0)'
    BY DEF Sitios, Derecho, Mandadas
  <1>3. \A m, n \in Numeros : tabla'[m] \in Clientes /\ tabla'[m] = tabla'[n] => m = n
    BY DEF Sitios
  <1> QED BY <1>1, <1>2, <1>3 DEF Sitios, EnCola

LEMMA PasoSitiosAceptar ==
  ASSUME Tipos, Sitios, NEW h \in Hilos, Aceptar(h)
  PROVE  Sitios'
  <1> PICK n \in Numeros : n = numero[h]
    BY DeHilo DEF Aceptar, EnHilo
  <1> PICK d \in Clientes : d = Head(cola) /\ cola # <<>>
    BY DeHilo DEF Aceptar
  <1>1. /\ cola' = Tail(cola) /\ UNCHANGED <<leyendo, cliente, enviados, flujo>>
        /\ \A m \in Numeros : tabla'[m] = IF m = n THEN d ELSE tabla[m]
        /\ \A x \in Hilos : atiende'[x] = IF x = h THEN d ELSE atiende[x]
    BY DeHilo DEF Aceptar
  <1>2. /\ Len(Tail(cola)) = Len(cola) - 1 /\ Len(cola) \in Nat /\ Len(cola) > 0 /\ cola[1] = d
        /\ \A j \in 1..Len(Tail(cola)) : Tail(cola)[j] = cola[j + 1] /\ j + 1 \in 1..Len(cola)
    BY DeHilo
  <1>3. EnCola(d)
    BY <1>2 DEF EnCola
  <1>4. \A j \in 1..Len(cola') : cola'[j] # d
    BY <1>1, <1>2 DEF Sitios
  <1>5. \A c \in Clientes : EnCola(c)' => EnCola(c) /\ c # d
    BY <1>1, <1>2, <1>4 DEF EnCola
  <1>6. \A c \in Clientes : SinAtender(c)' => SinAtender(c) /\ c # d
    BY <1>1, <1>3, <1>5 DEF SinAtender, Sitios
  <1>7. \A c \in Clientes : SinAtender(c) => Derecho(c, 0)'
    BY <1>1 DEF Sitios, Derecho, Mandadas
  <1>8. \A j, k \in 1..Len(cola') : cola'[j] = cola'[k] => j = k
    BY <1>1, <1>2 DEF Sitios
  <1>9. \A m, k \in Numeros : tabla'[m] \in Clientes /\ tabla'[m] = tabla'[k] => m = k
    BY <1>1, <1>3 DEF Sitios, SinAtender
  <1> QED BY <1>1, <1>5, <1>6, <1>7, <1>8, <1>9 DEF Sitios

(* A thread reads no connection that nobody has accepted. *)
LEMMA ConexionAtendida ==
  ASSUME Tipos, Sitios, NEW h \in Hilos, hilo[h] \in Lecturas, NEW c \in Clientes, SinAtender(c)
  PROVE  Conexion(h) # c
  <1>1. numero[h] \in Numeros
    BY DeHilo DEF Lecturas
  <1> QED BY <1>1 DEF Conexion, Sitios

LEMMA PasoSitios == Tipos /\ Sitios /\ [Next]_vars => Sitios'
  <1> SUFFICES ASSUME Tipos, Sitios, [Next]_vars PROVE Sitios'
    OBVIOUS
  <1>1. CASE UNCHANGED vars
    BY <1>1 DEF vars, Sitios, SinAtender, EnCola, Derecho, Mandadas
  <1>2. ASSUME NEW c \in Clientes, Cliente(c) PROVE Sitios'
    BY <1>2, PasoSitiosCliente
  <1>3. ASSUME NEW h \in Hilos, Hilo(h) PROVE Sitios'
    <2>1. CASE EsperarTurno(h)
      BY <2>1, PasoSitiosHilo DEF EsperarTurno
    <2>2. CASE Reservar(h)
      <3>1. PICK n \in Numeros : tabla' = [tabla EXCEPT ![n] = "reservado"]
        BY <2>2 DEF Reservar, Libres
      <3>2. \A c \in Clientes, m \in Numeros : tabla'[m] = c => tabla[m] = c
        BY <3>1, DeHilo, ClientesOK
      <3> QED BY <2>2, <3>2, PasoSitiosHilo DEF Reservar
    <2>3. CASE Aceptar(h)
      BY <2>3, PasoSitiosAceptar
    <2>4. CASE Cerrar(h)
      <3>1. numero[h] \in Numeros /\ "libre" \notin Clientes
        BY <2>4, DeHilo, ClientesOK DEF Cerrar, EnHilo
      <3>2. \A c \in Clientes, m \in Numeros : tabla'[m] = c => tabla[m] = c
        BY <2>4, <3>1, DeHilo DEF Cerrar
      <3>3. \A c \in Clientes, g \in Hilos : leyendo'[g] = c =>
               leyendo[g] = c \/ \E m \in Numeros : tabla[m] = c
        BY <2>4, <3>1 DEF Cerrar
      <3> QED BY <2>4, <3>2, <3>3, PasoSitiosHilo DEF Cerrar
    <2>5. CASE Lectura(h) \/ Fallar(h)
      <3>1. PasoDeLectura(h)
        BY <2>5, LecturaCasos
      <3>2. \A c \in Clientes : SinAtender(c) => flujo'[c] = flujo[c]
        BY <3>1, ConexionAtendida DEF PasoDeLectura
      <3>3. \A c \in Clientes, g \in Hilos : leyendo'[g] = c => leyendo[g] = c
        BY <3>1, DeHilo, ClientesOK DEF PasoDeLectura
      <3> QED BY <3>1, <3>2, <3>3, PasoSitiosHilo DEF PasoDeLectura
    <2> QED BY <1>3, <2>1, <2>2, <2>3, <2>4, <2>5 DEF Hilo
  <1> QED BY <1>1, <1>2, <1>3 DEF Next
-----------------------------------------------------------------------------
(* Who shares a number goes on sharing it. *)
LEMMA SoloAntes ==
  ASSUME Tipos, NEW h \in Hilos, Hilo(h), KernelSolo'
  PROVE  KernelSolo
  <1>1. "kernel" \in Hilos
    BY DEF Hilos
  <1> QED BY <1>1, PasoHilo DEF KernelSolo, Comparten

(* What leaves conexion_Kernel and its connection alone leaves it in step, *)
(* or with nothing to read.                                                *)
LEMMA FaseQueda ==
  ASSUME Tipos, NEW c \in Clientes, c = atiende["kernel"], c = atiende'["kernel"],
         hilo'["kernel"] = hilo["kernel"], numero'["kernel"] = numero["kernel"],
         anunciado'["kernel"] = anunciado["kernel"], rutas' = rutas,
         tabla'[numero["kernel"]] = tabla[numero["kernel"]],
         EnFase => /\ \A h \in Hilos : leyendo'[h] # c
                   /\ \A p \in Nat : Derecho(c, p) => Derecho(c, p)',
         tabla[numero["kernel"]] = c /\ cliente[c] = "ido" /\ flujo[c] = <<>> =>
            cliente'[c] = "ido" /\ flujo'[c] = <<>>,
         EnFase \/ Cortada
  PROVE  EnFase' \/ Cortada'
  <1>1. CASE EnFase
    <2>1. PICK p \in Nat : p = Leidas
      BY DEF Leidas, Tipos, TypeOK
    <2>2. Derecho(c, p)
      BY <1>1, <2>1 DEF EnFase
    <2>3. Derecho(c, p)'
      BY <1>1, <2>2
    <2>4. Leidas' = p
      BY <2>1 DEF Leidas
    <2>5. Derecho(atiende["kernel"], Leidas)'
      BY <2>3, <2>4 DEF Derecho, Mandadas
    <2>6. Sabido'
      BY <1>1 DEF EnFase, Sabido
    <2> QED BY <1>1, <2>5, <2>6 DEF EnFase
  <1>2. CASE Cortada
    BY <1>2 DEF Cortada
  <1> QED BY <1>1, <1>2

LEMMA PasoSeguidoCliente ==
  ASSUME Tipos, Seguido, NEW d \in Clientes, Cliente(d)
  PROVE  Seguido'
  <1>1. /\ UNCHANGED <<propias, tabla, atiende, rutas, viva>>
        /\ \A c \in Clientes : cliente[c] = "ido" => cliente'[c] = "ido"
    BY PasoCliente
  <1>2. KernelSolo' <=> KernelSolo
    BY <1>1 DEF KernelSolo, Comparten
  <1>3. ASSUME KernelSolo, atiende["kernel"] # "nadie" PROVE EnFase' \/ Cortada'
    <2>1. "kernel" \in Hilos
      BY DEF Hilos
    <2>2. PICK c \in Clientes : c = atiende["kernel"]
      BY <1>3, <2>1, DeHilo
    <2>3. ASSUME EnFase, NEW p \in Nat, Derecho(c, p) PROVE Derecho(c, p)'
      <3>1. numero["kernel"] \in Numeros
        BY <1>3, <2>1, DeHilo DEF Lecturas
      <3>2. Abierta(c)
        BY <2>2, <2>3, <3>1 DEF EnFase, Abierta
      <3> QED BY <2>3, <3>2, ClienteDerecho
    <2>4. cliente[c] = "ido" => flujo'[c] = flujo[c]
      <3>1. flujo = [x \in Clientes |-> flujo[x]]
        BY DEF Tipos, Lugares
      <3> QED BY <3>1 DEF Cliente, Conectar, Enviar, Irse
    <2>5. EnFase \/ Cortada
      BY <1>3 DEF Seguido
    <2>6. EnFase => \A h \in Hilos : leyendo'[h] # c
      BY <1>1, <2>2 DEF EnFase
    <2> QED BY <1>1, <2>2, <2>3, <2>4, <2>5, <2>6, FaseQueda
  <1> QED BY <1>1, <1>2, <1>3 DEF Seguido
-----------------------------------------------------------------------------
(* The steps of the other threads. *)
LEMMA LecturaAjena ==
  ASSUME Tipos, NEW h \in Hilos, h # "kernel", Lectura(h) \/ Fallar(h)
  PROVE  /\ UNCHANGED <<numero, tabla, cliente, enviados, atiende, rutas>>
         /\ hilo'["kernel"] = hilo["kernel"] /\ anunciado'["kernel"] = anunciado["kernel"]
         /\ \A g \in Hilos : leyendo'[g] \in {leyendo[g], "nadie"}
         /\ \A c \in Clientes : c # Conexion(h) => flujo'[c] = flujo[c]
         /\ hilo[h] \in Lecturas
  <1>1. PasoDeLectura(h)
    BY LecturaCasos
  <1>2. /\ hilo[h] # "texto_path" /\ "kernel" \in Hilos
        /\ hilo \in [Hilos -> Lugar] /\ leyendo \in [Hilos -> Clientes \union {"nadie"}]
        /\ anunciado \in [Hilos -> Anuncio]
    BY DEF Tipos, TypeOK, Lugares, Lugar, Anuncio, Trama, Hilos
  <1>3. rutas' = rutas /\ anunciado'["kernel"] = anunciado["kernel"]
    <2>1. CASE Fallar(h)
      BY <1>2, <2>1 DEF Fallar
    <2>2. CASE LeerOperacion(h)
      BY <2>2 DEF LeerOperacion, Palabra
    <2>3. CASE LeerLargo(h)
      BY <1>2, <2>3 DEF LeerLargo, Palabra
    <2>4. CASE LeerTexto(h)
      BY <1>2, <2>4 DEF LeerTexto, Leyendo, EnHilo
    <2>5. CASE LeerDesalineado(h)
      BY <1>2, <2>5 DEF LeerDesalineado, Leyendo, EnHilo
    <2> QED BY <2>1, <2>2, <2>3, <2>4, <2>5 DEF Lectura
  <1>4. hilo'["kernel"] = hilo["kernel"]
    BY <1>1, <1>2 DEF PasoDeLectura
  <1>5. \A g \in Hilos : leyendo'[g] \in {leyendo[g], "nadie"}
    BY <1>1, <1>2 DEF PasoDeLectura
  <1> QED BY <1>1, <1>3, <1>4, <1>5 DEF PasoDeLectura

(* All of what conexion_Kernel has stays, but its connection may be read.  *)
LEMMA PasoAjeno ==
  ASSUME Tipos, Sitios, NEW h \in Hilos, h # "kernel", Hilo(h), KernelSolo'
  PROVE  /\ hilo'["kernel"] = hilo["kernel"] /\ numero'["kernel"] = numero["kernel"]
         /\ anunciado'["kernel"] = anunciado["kernel"] /\ rutas' = rutas
         /\ atiende'["kernel"] = atiende["kernel"] /\ cliente' = cliente
         /\ leyendo["kernel"] = "nadie" => leyendo'["kernel"] = "nadie"
         /\ numero["kernel"] # 0 => tabla'[numero["kernel"]] = tabla[numero["kernel"]]
  <1>1. "kernel" \in Hilos /\ 0 \notin Numeros /\ KernelSolo
    BY SoloAntes DEF Hilos, Numeros
  <1>2. CASE EsperarTurno(h)
    BY <1>1, <1>2, DeHilo DEF EsperarTurno
  <1>3. CASE Reservar(h)
    <2>1. PICK n \in Numeros : /\ tabla' = [tabla EXCEPT ![n] = "reservado"]
                               /\ numero' = [numero EXCEPT ![h] = n]
      BY <1>3 DEF Reservar, Libres
    <2>2. numero'[h] = n /\ numero'["kernel"] = numero["kernel"]
      BY <1>1, <2>1, DeHilo
    <2>3. numero["kernel"] # n
      BY <1>1, <2>1, <2>2 DEF KernelSolo, Comparten
    <2> QED BY <1>1, <1>3, <2>1, <2>2, <2>3, DeHilo DEF Reservar
  <1>4. CASE Aceptar(h)
    <2>1. numero[h] # numero["kernel"] \/ numero["kernel"] = 0
      BY <1>1 DEF KernelSolo, Comparten
    <2> QED BY <1>1, <1>4, <2>1, DeHilo DEF Aceptar
  <1>5. CASE Cerrar(h)
    <2>1. numero[h] # numero["kernel"]
      <3>1. numero[h] # 0
        BY <1>5, DeHilo DEF Cerrar, EnHilo
      <3> QED BY <1>1, <3>1 DEF KernelSolo, Comparten
    <2>2. "kernel" \notin Atrapados(h)
      BY <2>1 DEF Atrapados
    <2>3. leyendo'["kernel"] = leyendo["kernel"]
      BY <1>1, <1>5, <2>2 DEF Cerrar
    <2> QED BY <1>1, <1>5, <2>1, <2>3, DeHilo DEF Cerrar
  <1>6. CASE Lectura(h) \/ Fallar(h)
    BY <1>1, <1>6, LecturaAjena
  <1> QED BY <1>2, <1>3, <1>4, <1>5, <1>6 DEF Hilo

(* Nor is its connection read while it is in step. *)
LEMMA PasoAjenoEnFase ==
  ASSUME Tipos, Sitios, NEW h \in Hilos, h # "kernel", Hilo(h), KernelSolo', EnFase,
         NEW c \in Clientes, c = atiende["kernel"]
  PROVE  /\ flujo'[c] = flujo[c] /\ enviados'[c] = enviados[c]
         /\ \A g \in Hilos : leyendo'[g] # c
  <1>1. /\ "kernel" \in Hilos /\ KernelSolo /\ "nadie" \notin Clientes
        /\ \A g \in Hilos : leyendo[g] # c
        /\ tabla[numero["kernel"]] = c /\ numero["kernel"] \in Numeros
    BY SoloAntes, DeHilo, ClientesOK DEF Hilos, EnFase, Lecturas
  <1>2. CASE EsperarTurno(h)
    BY <1>1, <1>2 DEF EsperarTurno
  <1>3. CASE Reservar(h)
    BY <1>1, <1>3 DEF Reservar
  <1>4. CASE Aceptar(h)
    BY <1>1, <1>4 DEF Aceptar
  <1>5. ASSUME hilo[h] \in Lecturas \union {"cerrar"} PROVE tabla[numero[h]] # c
    <2>1. numero[h] \in Numeros
      BY <1>5, DeHilo DEF Lecturas
    <2>2. numero[h] # numero["kernel"]
      BY <1>1, <2>1, DeHilo DEF KernelSolo, Comparten
    <2> QED BY <1>1, <2>1, <2>2 DEF Sitios
  <1>6. CASE Cerrar(h)
    BY <1>1, <1>5, <1>6 DEF Cerrar, EnHilo
  <1>7. CASE Lectura(h) \/ Fallar(h)
    BY <1>1, <1>5, <1>7, LecturaAjena DEF Conexion
  <1> QED BY <1>2, <1>3, <1>4, <1>6, <1>7 DEF Hilo

LEMMA PasoSeguidoAjeno ==
  ASSUME Tipos, Sitios, Seguido, NEW h \in Hilos, h # "kernel", Hilo(h)
  PROVE  Seguido'
  <1>1. CASE ~KernelSolo'
    <2>1. rutas' = rutas /\ atiende'["kernel"] = atiende["kernel"]
      <3>1. ~Lectura(h) /\ ~Fallar(h) => rutas' = rutas /\ atiende'["kernel"] = atiende["kernel"]
        BY DeHilo DEF Hilo, EsperarTurno, Reservar, Aceptar, Cerrar, Hilos
      <3> QED BY <3>1, LecturaAjena
    <2> QED BY <1>1, <2>1 DEF Seguido
  <1>2. CASE KernelSolo'
    <2>1. KernelSolo /\ "kernel" \in Hilos
      BY <1>2, SoloAntes DEF Hilos
    <2>2. /\ hilo'["kernel"] = hilo["kernel"] /\ numero'["kernel"] = numero["kernel"]
          /\ anunciado'["kernel"] = anunciado["kernel"] /\ rutas' = rutas
          /\ atiende'["kernel"] = atiende["kernel"] /\ cliente' = cliente
          /\ leyendo'["kernel"] = "nadie"
          /\ numero["kernel"] # 0 => tabla'[numero["kernel"]] = tabla[numero["kernel"]]
      BY <1>2, <2>1, PasoAjeno DEF Seguido
    <2>3. ASSUME atiende["kernel"] # "nadie" PROVE EnFase' \/ Cortada'
      <3>1. PICK c \in Clientes : c = atiende["kernel"]
        BY <2>1, <2>3, DeHilo
      <3>2. tabla'[numero["kernel"]] = tabla[numero["kernel"]] /\ numero["kernel"] \in Numeros
        BY <2>1, <2>2, <2>3, DeHilo
      <3>3. EnFase \/ Cortada
        BY <2>1, <2>3 DEF Seguido
      <3>4. EnFase => /\ \A g \in Hilos : leyendo'[g] # c
                      /\ \A p \in Nat : Derecho(c, p) => Derecho(c, p)'
        BY <1>2, <3>1, PasoAjenoEnFase DEF Derecho, Mandadas
      <3>5. tabla[numero["kernel"]] = c /\ flujo[c] = <<>> => flujo'[c] = <<>>
        <4>1. ASSUME tabla[numero["kernel"]] = c, flujo[c] = <<>>, flujo'[c] # flujo[c]
              PROVE FALSE
          <5>1. Lectura(h)
            BY <4>1 DEF Hilo, EsperarTurno, Reservar, Aceptar, Cerrar, Fallar
          <5>2. Conexion(h) = c
            BY <4>1, <5>1, LecturaAjena
          <5>3. flujo[Conexion(h)] # <<>>
            BY <5>1 DEF Lectura, LeerOperacion, LeerLargo, LeerTexto, LeerDesalineado, Leyendo
          <5> QED BY <4>1, <5>2, <5>3
        <4> QED BY <4>1
      <3> QED BY <2>2, <3>1, <3>2, <3>3, <3>4, <3>5, FaseQueda
    <2>4. rutas' = [k \in 1..Len(rutas') |-> <<atiende'["kernel"], k>>]
      BY <2>1, <2>2 DEF Seguido
    <2> QED BY <2>2, <2>3, <2>4 DEF Seguido
  <1> QED BY <1>1, <1>2
-----------------------------------------------------------------------------
(* The steps of conexion_Kernel. *)
LEMMA PasoAceptarKernel ==
  ASSUME Tipos, Sitios, Seguido, Aceptar("kernel"), KernelSolo
  PROVE  /\ leyendo'["kernel"] = "nadie" /\ EnFase'
         /\ rutas' = <<>>
  <1>1. /\ "kernel" \in Hilos /\ atiende["kernel"] = "nadie" /\ cola # <<>>
        /\ numero["kernel"] \in Numeros /\ cola \in Seq(Clientes)
    BY DeHilo DEF Aceptar, EnHilo, Hilos
  <1> PICK c \in Clientes : c = Head(cola)
    BY <1>1
  <1>2. SinAtender(c)
    <2>1. 1 \in 1..Len(cola) /\ cola[1] = c
      BY <1>1
    <2> QED BY <2>1 DEF SinAtender, EnCola
  <1>3. rutas = <<>> /\ leyendo["kernel"] = "nadie"
    BY <1>1 DEF Seguido
  <1>4. /\ tabla'[numero["kernel"]] = c /\ atiende'["kernel"] = c /\ hilo'["kernel"] = "operacion"
        /\ UNCHANGED <<numero, leyendo, anunciado, cliente, enviados, flujo, rutas>>
    BY <1>1, DeHilo DEF Aceptar
  <1>5. Leidas' = 0 /\ Derecho(c, 0) /\ \A h \in Hilos : leyendo[h] # c
    BY <1>2, <1>4 DEF Leidas, Sitios
  <1>6. Derecho(atiende["kernel"], Leidas)'
    BY <1>4, <1>5 DEF Derecho, Mandadas
  <1> QED BY <1>3, <1>4, <1>5, <1>6 DEF EnFase, Sabido, Lecturas

LEMMA PasoCerrarKernel ==
  ASSUME Tipos, Seguido, Cerrar("kernel"), KernelSolo
  PROVE  /\ leyendo'["kernel"] = "nadie" /\ Cortada'
         /\ rutas' = rutas /\ atiende' = atiende
  <1>1. /\ "kernel" \in Hilos /\ atiende["kernel"] \in Clientes
        /\ numero["kernel"] \in Numeros /\ hilo["kernel"] = "cerrar"
    BY DeHilo DEF Cerrar, EnHilo, Hilos
  <1>2. Cortada
    BY <1>1, ClientesOK DEF Seguido, EnFase, Lecturas
  <1>3. tabla'[numero["kernel"]] = "libre" /\ numero' = numero
    BY <1>1, <1>2, DeHilo DEF Cortada, Cerrar
  <1>4. leyendo'["kernel"] = leyendo["kernel"]
    BY <1>1 DEF Cerrar, Atrapados
  <1> QED BY <1>3, <1>4 DEF Cortada, Seguido, Cerrar

LEMMA PasoFallarKernel ==
  ASSUME Tipos, Seguido, Fallar("kernel"), KernelSolo
  PROVE  /\ leyendo'["kernel"] = "nadie" /\ Cortada'
         /\ rutas' = rutas /\ atiende' = atiende
  <1>1. /\ "kernel" \in Hilos /\ atiende["kernel"] \in Clientes /\ atiende["kernel"] # "nadie"
        /\ leyendo \in [Hilos -> Clientes \union {"nadie"}]
    BY DeHilo, ClientesOK DEF Fallar, EnLectura, Hilos, Lecturas
  <1>2. leyendo["kernel"] = "nadie" /\ (EnFase \/ Cortada)
    BY <1>1 DEF Seguido
  <1>3. Cortada
    BY <1>1, <1>2 DEF EnFase, Cortada, Fallar, SinDatos, Conexion
  <1> QED BY <1>1, <1>3 DEF Fallar, Cortada

(* What conexion_Kernel reads is the next word of its client. *)
LEMMA FrenteKernel ==
  ASSUME Tipos, Seguido, KernelSolo, NEW donde \in Lecturas, Leyendo("kernel", donde),
         NEW c \in Clientes \union {"nadie"}, c = atiende["kernel"], NEW p, p = Leidas
  PROVE  /\ EnFase /\ Conexion("kernel") = c /\ c \in Clientes /\ p \in Nat
         /\ hilo["kernel"] = donde /\ leyendo["kernel"] = "nadie"
         /\ Frente("kernel") = Termino(c, p + 1)
         /\ flujo'[c] = Tail(flujo[c]) /\ enviados' = enviados => Derecho(c, p + 1)'
  <1>1. /\ "kernel" \in Hilos /\ hilo["kernel"] = donde /\ c \in Clientes
        /\ c # "nadie" /\ "libre" \notin Clientes
    BY DeHilo, ClientesOK DEF Leyendo, EnHilo, Hilos, Lecturas
  <1>2. leyendo["kernel"] = "nadie" /\ (EnFase \/ Cortada)
    BY <1>1 DEF Seguido
  <1>3. Conexion("kernel") = tabla[numero["kernel"]]
    BY <1>2 DEF Conexion
  <1>4. EnFase /\ Conexion("kernel") = c
    BY <1>1, <1>2, <1>3 DEF EnFase, Cortada, Leyendo
  <1>5. p \in Nat
    BY DEF Leidas, Tipos, TypeOK
  <1>6. Derecho(c, p) /\ flujo[c] # <<>>
    BY <1>4, <1>5 DEF EnFase, Leyendo
  <1>7. /\ Head(flujo[c]) = Termino(c, p + 1)
        /\ flujo'[c] = Tail(flujo[c]) /\ enviados' = enviados => Derecho(c, p + 1)'
    BY <1>1, <1>5, <1>6, LeerDerecho
  <1> QED BY <1>1, <1>2, <1>4, <1>5, <1>7 DEF Frente

(* The next word, by the place where conexion_Kernel is. *)
LEMMA Terminos ==
  ASSUME NEW c, NEW r \in Nat
  PROVE  /\ Termino(c, 1) = <<"op", c, 0>> /\ Termino(c, 2) = <<"largo", c, 0>>
         /\ Termino(c, 3) = <<"texto", c, 0>>
         /\ Termino(c, (3 + 2 * r) + 1) = <<"largo", c, r + 1>>
         /\ Termino(c, (4 + 2 * r) + 1) = <<"texto", c, r + 1>>
  <1>1. /\ Termino(c, 1) = <<"op", c, 0>> /\ Termino(c, 2) = <<"largo", c, 0>>
        /\ Termino(c, 3) = <<"texto", c, 0>>
    BY DEF Termino
  <1>2. /\ (3 + 2 * r) + 1 # 1 /\ ((3 + 2 * r) + 1) % 2 = 0
        /\ (((3 + 2 * r) + 1) - 2) \div 2 = r + 1
    OBVIOUS
  <1>3. /\ (4 + 2 * r) + 1 # 1 /\ ((4 + 2 * r) + 1) % 2 = 1
        /\ (((4 + 2 * r) + 1) - 2) \div 2 = r + 1
    OBVIOUS
  <1> QED BY <1>1, <1>2, <1>3 DEF Termino

LEMMA PasoOperacionKernel ==
  ASSUME Tipos, Seguido, KernelSolo, LeerOperacion("kernel")
  PROVE  leyendo'["kernel"] = "nadie" /\ EnFase' /\ rutas' = rutas /\ atiende' = atiende
  <1> PICK c \in Clientes \union {"nadie"} : c = atiende["kernel"]
    BY DeHilo DEF Hilos
  <1> PICK p : p = Leidas
    OBVIOUS
  <1>1. Leyendo("kernel", "operacion") /\ Palabra("kernel", "largo") /\ anunciado' = anunciado
    BY DEF LeerOperacion
  <1>2. /\ EnFase /\ Conexion("kernel") = c /\ c \in Clientes /\ hilo["kernel"] = "operacion"
        /\ leyendo["kernel"] = "nadie" /\ Frente("kernel") = Termino(c, p + 1)
        /\ flujo'[c] = Tail(flujo[c]) /\ enviados' = enviados => Derecho(c, p + 1)'
    BY <1>1, FrenteKernel DEF Lecturas
  <1>3. p = 0 /\ Frente("kernel") = <<"op", c, 0>>
    BY <1>2, Terminos DEF Leidas
  <1>4. flujo' = [flujo EXCEPT ![c] = Tail(flujo[c])]
    <2>1. Frente("kernel")[1] \in {"op", "largo"}
      BY <1>3
    <2> QED BY <1>1, <1>2, <2>1 DEF Palabra
  <1>5. Derecho(c, 1)'
    BY <1>1, <1>2, <1>3, <1>4 DEF Palabra, Tipos, Lugares
  <1>6. /\ hilo'["kernel"] = "largo" /\ leyendo' = [leyendo EXCEPT !["kernel"] = "nadie"]
        /\ UNCHANGED <<numero, tabla, atiende, rutas>>
    BY <1>1, DeHilo DEF Palabra, Hilos
  <1>7. leyendo'["kernel"] = "nadie" /\ \A h \in Hilos : leyendo'[h] # c
    BY <1>2, <1>6, DeHilo, ClientesOK DEF EnFase, Hilos
  <1>8. Derecho(atiende["kernel"], Leidas)'
    BY <1>5, <1>6 DEF Leidas, Derecho, Mandadas
  <1>9. Sabido'
    BY <1>2, <1>6 DEF EnFase, Sabido
  <1> QED BY <1>2, <1>6, <1>7, <1>8, <1>9 DEF EnFase, Lecturas

LEMMA PasoLargoKernel ==
  ASSUME Tipos, Seguido, KernelSolo, LeerLargo("kernel")
  PROVE  leyendo'["kernel"] = "nadie" /\ EnFase' /\ rutas' = rutas /\ atiende' = atiende
  <1> PICK c \in Clientes \union {"nadie"} : c = atiende["kernel"]
    BY DeHilo DEF Hilos
  <1> PICK p : p = Leidas
    OBVIOUS
  <1>0. Len(rutas) \in Nat
    BY DEF Tipos, TypeOK
  <1> PICK r \in Nat : r = Len(rutas)
    BY <1>0
  <1>1. PICK donde \in {"largo", "largo_path"} :
          /\ Leyendo("kernel", donde)
          /\ Palabra("kernel", IF donde = "largo" THEN "texto" ELSE "texto_path")
          /\ anunciado' = [anunciado EXCEPT !["kernel"] =
               IF Frente("kernel")[1] = "largo" THEN <<Frente("kernel")[2], Frente("kernel")[3]>>
               ELSE Basura]
    BY DEF LeerLargo
  <1>2. /\ EnFase /\ Conexion("kernel") = c /\ c \in Clientes /\ hilo["kernel"] = donde
        /\ leyendo["kernel"] = "nadie" /\ Frente("kernel") = Termino(c, p + 1)
        /\ flujo'[c] = Tail(flujo[c]) /\ enviados' = enviados => Derecho(c, p + 1)'
    BY <1>1, FrenteKernel DEF Lecturas
  <1>3. /\ p = IF donde = "largo" THEN 1 ELSE 3 + 2 * r
        /\ Frente("kernel") = <<"largo", c, IF donde = "largo" THEN 0 ELSE r + 1>>
    <2>1. CASE donde = "largo"
      <3>1. p = 1 /\ p + 1 = 2
        BY <1>2, <2>1 DEF Leidas
      <3> QED BY <1>2, <2>1, <3>1, Terminos
    <2>2. CASE donde = "largo_path"
      BY <1>2, <2>2, Terminos DEF Leidas
    <2> QED BY <2>1, <2>2
  <1>4. flujo' = [flujo EXCEPT ![c] = Tail(flujo[c])]
    <2>1. Frente("kernel")[1] \in {"op", "largo"}
      BY <1>3
    <2> QED BY <1>1, <1>2, <2>1 DEF Palabra
  <1>5. Derecho(c, p + 1)'
    BY <1>1, <1>2, <1>4 DEF Palabra, Tipos, Lugares
  <1>6. /\ hilo'["kernel"] = IF donde = "largo" THEN "texto" ELSE "texto_path"
        /\ leyendo' = [leyendo EXCEPT !["kernel"] = "nadie"]
        /\ UNCHANGED <<numero, tabla, atiende, rutas>>
    BY <1>1, DeHilo DEF Palabra, Hilos
  <1>7. leyendo'["kernel"] = "nadie" /\ \A h \in Hilos : leyendo'[h] # c
    BY <1>2, <1>6, DeHilo, ClientesOK DEF EnFase, Hilos
  <1>8. Leidas' = p + 1
    <2>1. (3 + 2 * r) + 1 = 4 + 2 * r
      OBVIOUS
    <2> QED BY <1>3, <1>6, <2>1 DEF Leidas
  <1>9. Derecho(atiende["kernel"], Leidas)'
    BY <1>5, <1>6, <1>8 DEF Derecho, Mandadas
  <1>10. anunciado'["kernel"] = <<c, IF donde = "largo" THEN 0 ELSE r + 1>>
    <2>1. anunciado \in [Hilos -> Anuncio] /\ "kernel" \in Hilos
      BY DEF Tipos, TypeOK, Anuncio, Trama, Hilos
    <2> QED BY <1>1, <1>3, <2>1
  <1>11. Sabido'
    BY <1>2, <1>6, <1>10 DEF EnFase, Sabido
  <1> QED BY <1>2, <1>6, <1>7, <1>9, <1>11 DEF EnFase, Lecturas

(* It has been told of the frame the text is of. *)
LEMMA TextoJusto ==
  ASSUME Tipos, Seguido, KernelSolo, NEW donde \in {"texto", "texto_path"},
         Leyendo("kernel", donde),
         NEW c \in Clientes \union {"nadie"}, c = atiende["kernel"], NEW p, p = Leidas,
         NEW r \in Nat, r = Len(rutas)
  PROVE  /\ Justo("kernel") /\ p = IF donde = "texto" THEN 2 ELSE 4 + 2 * r
         /\ anunciado["kernel"] = <<c, IF donde = "texto" THEN 0 ELSE r + 1>>
  <1>1. /\ EnFase /\ hilo["kernel"] = donde /\ Frente("kernel") = Termino(c, p + 1)
    BY FrenteKernel DEF Lecturas
  <1>2. anunciado["kernel"] = <<c, IF donde = "texto" THEN 0 ELSE r + 1>>
    BY <1>1 DEF EnFase, Sabido
  <1>3. /\ p = IF donde = "texto" THEN 2 ELSE 4 + 2 * r
        /\ Frente("kernel") = <<"texto", c, IF donde = "texto" THEN 0 ELSE r + 1>>
    <2>1. CASE donde = "texto"
      <3>1. p = 2 /\ p + 1 = 3
        BY <1>1, <2>1 DEF Leidas
      <3> QED BY <1>1, <2>1, <3>1, Terminos
    <2>2. CASE donde = "texto_path"
      BY <1>1, <2>2, Terminos DEF Leidas
    <2> QED BY <2>1, <2>2
  <1> QED BY <1>2, <1>3 DEF Justo

LEMMA PasoTextoKernel ==
  ASSUME Tipos, Seguido, KernelSolo, LeerTexto("kernel") \/ LeerDesalineado("kernel")
  PROVE  /\ leyendo'["kernel"] = "nadie" /\ EnFase' /\ atiende' = atiende
         /\ rutas' = [k \in 1..Len(rutas') |-> <<atiende["kernel"], k>>]
         /\ atiende["kernel"] # "nadie"
  <1> PICK c \in Clientes \union {"nadie"} : c = atiende["kernel"]
    BY DeHilo DEF Hilos
  <1> PICK p : p = Leidas
    OBVIOUS
  <1>0. Len(rutas) \in Nat /\ rutas \in Seq(Trama \union {Basura})
    BY DEF Tipos, TypeOK, Trama
  <1> PICK r \in Nat : r = Len(rutas)
    BY <1>0
  <1>1. PICK donde \in {"texto", "texto_path"} : Leyendo("kernel", donde)
    BY DEF LeerTexto, LeerDesalineado
  <1>2. /\ Justo("kernel") /\ p = IF donde = "texto" THEN 2 ELSE 4 + 2 * r
        /\ anunciado["kernel"] = <<c, IF donde = "texto" THEN 0 ELSE r + 1>>
    BY <1>1, TextoJusto
  <1>3. /\ EnFase /\ Conexion("kernel") = c /\ c \in Clientes /\ hilo["kernel"] = donde
        /\ leyendo["kernel"] = "nadie"
        /\ flujo'[c] = Tail(flujo[c]) /\ enviados' = enviados => Derecho(c, p + 1)'
    BY <1>1, FrenteKernel DEF Lecturas
  <1>4. LeerTexto("kernel")
    BY <1>2 DEF LeerDesalineado
  <1>5. /\ flujo' = [flujo EXCEPT ![c] = Tail(@)]
        /\ rutas' = IF donde = "texto_path" THEN Anotar(<<c, r + 1>>) ELSE rutas
        /\ leyendo' = [leyendo EXCEPT !["kernel"] = "nadie"]
        /\ hilo' = [hilo EXCEPT !["kernel"] = "largo_path"]
        /\ UNCHANGED <<numero, tabla, enviados, atiende>>
    BY <1>2, <1>3, <1>4 DEF LeerTexto, Leyendo, EnHilo, TrasMensaje
  <1>6. Derecho(c, p + 1)'
    BY <1>3, <1>5 DEF Tipos, Lugares
  <1>7. rutas = [k \in 1..r |-> <<c, k>>]
    BY <1>3, ClientesOK DEF Seguido
  <1>8. /\ rutas' = [k \in 1..Len(rutas') |-> <<c, k>>]
        /\ Len(rutas') = IF donde = "texto_path" THEN r + 1 ELSE r
    <2>1. CASE donde = "texto"
      BY <1>5, <1>7, <2>1
    <2>2. CASE donde = "texto_path"
      <3>1. Basura \notin Elementos(rutas)
        <4> SUFFICES ASSUME NEW j \in 1..r PROVE <<c, j>> # Basura
          BY <1>7 DEF Elementos
        <4> QED BY DEF Basura
      <3>2. rutas' = Append(rutas, <<c, r + 1>>)
        BY <1>5, <2>2, <3>1 DEF Anotar
      <3>3. Append(rutas, <<c, r + 1>>) = [k \in 1..(r + 1) |-> <<c, k>>]
        BY <1>0, <1>7
      <3>4. Len(rutas') = r + 1
        BY <1>0, <3>2
      <3> QED BY <2>2, <3>2, <3>3, <3>4
    <2> QED BY <2>1, <2>2
  <1>9. Leidas' = p + 1
    <2>1. hilo'["kernel"] = "largo_path"
      BY <1>5, DeHilo DEF Hilos
    <2>2. Leidas' = 3 + 2 * Len(rutas')
      BY <2>1 DEF Leidas
    <2>3. CASE donde = "texto"
      <3>1. r = 0
        BY <1>3, <2>3 DEF EnFase, Sabido
      <3> QED BY <1>2, <1>8, <2>2, <2>3, <3>1
    <2>4. CASE donde = "texto_path"
      <3>1. 3 + 2 * (r + 1) = (4 + 2 * r) + 1
        OBVIOUS
      <3> QED BY <1>2, <1>8, <2>2, <2>4, <3>1
    <2> QED BY <2>3, <2>4
  <1>10. Derecho(atiende["kernel"], Leidas)'
    BY <1>5, <1>6, <1>9 DEF Derecho, Mandadas
  <1>11. hilo'["kernel"] = "largo_path" /\ leyendo'["kernel"] = "nadie"
         /\ \A h \in Hilos : leyendo'[h] # c
    BY <1>3, <1>5, DeHilo, ClientesOK DEF EnFase, Hilos
  <1>12. EnFase'
    BY <1>3, <1>5, <1>10, <1>11 DEF EnFase, Sabido, Lecturas
  <1> QED BY <1>3, <1>5, <1>8, <1>11, <1>12, ClientesOK

LEMMA PasoSeguidoKernel ==
  ASSUME Tipos, Sitios, Seguido, Hilo("kernel"), KernelSolo'
  PROVE  /\ leyendo'["kernel"] = "nadie"
         /\ rutas' = [k \in 1..Len(rutas') |-> <<atiende'["kernel"], k>>]
         /\ atiende'["kernel"] # "nadie" => EnFase' \/ Cortada'
  <1>1. KernelSolo /\ "kernel" \in Hilos
    BY SoloAntes DEF Hilos
  <1>2. /\ leyendo["kernel"] = "nadie"
        /\ rutas = [k \in 1..Len(rutas) |-> <<atiende["kernel"], k>>]
    BY <1>1 DEF Seguido
  <1>3. CASE EsperarTurno("kernel")
    BY <1>1, <1>2, <1>3, DeHilo DEF EsperarTurno, EnHilo
  <1>4. CASE Reservar("kernel")
    BY <1>1, <1>2, <1>4, DeHilo DEF Reservar, EnHilo
  <1>5. CASE Aceptar("kernel")
    BY <1>1, <1>5, PasoAceptarKernel
  <1>6. CASE Cerrar("kernel")
    BY <1>1, <1>2, <1>6, PasoCerrarKernel
  <1>7. CASE Fallar("kernel")
    BY <1>1, <1>2, <1>7, PasoFallarKernel
  <1>8. CASE LeerOperacion("kernel")
    BY <1>1, <1>2, <1>8, PasoOperacionKernel
  <1>9. CASE LeerLargo("kernel")
    BY <1>1, <1>2, <1>9, PasoLargoKernel
  <1>10. CASE LeerTexto("kernel") \/ LeerDesalineado("kernel")
    BY <1>1, <1>10, PasoTextoKernel
  <1> QED BY <1>3, <1>4, <1>5, <1>6, <1>7, <1>8, <1>9, <1>10 DEF Hilo, Lectura

(* Nothing is logged before a client is accepted. *)
LEMMA RutasTrasAceptar ==
  ASSUME Tipos, Seguido, Hilo("kernel"), atiende'["kernel"] = "nadie"
  PROVE  rutas' = <<>>
  <1>1. "kernel" \in Hilos /\ atiende["kernel"] = "nadie"
    BY PasoHilo DEF Hilos
  <1>2. rutas = <<>> /\ hilo["kernel"] \notin Lecturas
    BY <1>1, DeHilo DEF Seguido, Lecturas
  <1>3. ~Lectura("kernel")
    BY <1>2 DEF Lectura, LeerOperacion, LeerLargo, LeerTexto, LeerDesalineado, Leyendo,
       EnHilo, Lecturas
  <1> QED BY <1>2, <1>3 DEF Hilo, EsperarTurno, Reservar, Aceptar, Cerrar, Fallar

LEMMA PasoSeguido == Tipos /\ Sitios /\ Seguido /\ [Next]_vars => Seguido'
  <1> SUFFICES ASSUME Tipos, Sitios, Seguido, [Next]_vars PROVE Seguido'
    OBVIOUS
  <1>1. CASE UNCHANGED vars
    BY <1>1 DEF vars, Seguido, KernelSolo, Comparten, EnFase, Cortada, Leidas, Sabido,
       Derecho, Mandadas
  <1>2. ASSUME NEW c \in Clientes, Cliente(c) PROVE Seguido'
    BY <1>2, PasoSeguidoCliente
  <1>3. ASSUME NEW h \in Hilos, Hilo(h) PROVE Seguido'
    <2>1. CASE h = "kernel"
      BY <1>3, <2>1, PasoSeguidoKernel, RutasTrasAceptar DEF Seguido
    <2>2. CASE h # "kernel"
      BY <1>3, <2>2, PasoSeguidoAjeno
    <2> QED BY <2>1, <2>2
  <1> QED BY <1>1, <1>2, <1>3 DEF Next

(* As long as conexion_Kernel shares its number with no other thread, it   *)
(* logs the paths of its client, whole, in the order sent, and nothing     *)
(* else.                                                                   *)
THEOREM RutasCorrectas == Spec => []RutasEnOrden
  <1>1. Spec => [](Tipos /\ Sitios /\ Seguido)
    BY InitTipos, InitSeguido, PasoTipos, PasoSitios, PasoSeguido, PTL DEF Spec
  <1>2. Seguido => RutasEnOrden
    BY DEF Seguido, RutasEnOrden
  <1> QED BY <1>1, <1>2, PTL
=============================================================================
