--------------------------- MODULE MemoriaProofs ---------------------------
(***************************************************************************)
(* Proofs about the threads of memoria, for any programs that connect and  *)
(* any number of paths.                                                    *)
(***************************************************************************)
EXTENDS Memoria, SequenceTheorems, TLAPS

USE DEF propias, red

Lugar == {"semaforo", "accept", "aceptar", "cerrar"} \union Lecturas
Trama == Clientes \X Tramas
Anuncio == Trama \union {Desconocido, Basura}

(* What the place of a thread says of its descriptor.                      *)
Lugares ==
  /\ \A h \in Hilos : numero[h] = 0 <=> hilo[h] \in {"semaforo", "accept"}
  /\ \A h \in Hilos : atiende[h] = "nadie" <=> hilo[h] \in {"semaforo", "accept", "aceptar"}
  /\ \A h \in Hilos : leyendo[h] # "nadie" => hilo[h] \in Lecturas
  /\ \A h \in Hilos : hilo[h] \in {"largo_path", "texto_path"} => h = "kernel"
  /\ \A c \in Clientes : enviados[c] <= 1 + 2 * MaxRutas
  /\ flujo = [c \in Clientes |-> flujo[c]]

Tipos == TypeOK /\ Lugares

LEMMA InitTipos == Init => Tipos
  BY ClientesOK DEF Init, Tipos, TypeOK, Lugares, Hilos, Numeros, Lecturas, Desconocido,
     Basura, Palabras

LEMMA EnvioTipo ==
  ASSUME NEW c \in Clientes, NEW n \in Nat, n < Envios(c)
  PROVE  Envio(c, n) \in Seq(Palabras(c)) /\ n + 1 <= 1 + 2 * MaxRutas
  <1>1. MaxRutas \in Nat /\ n < 1 + 2 * MaxRutas
    BY ClientesOK DEF Envios
  <1>2. 0 \in Tramas /\ (n # 0 => (n + 1) \div 2 \in Tramas)
    BY <1>1 DEF Tramas
  <1>3. CASE n = 0
    <2>1. /\ <<"op", c, 0>> \in Palabras(c) /\ <<"largo", c, 0>> \in Palabras(c)
          /\ <<"texto", c, 0>> \in Palabras(c)
      BY <1>2 DEF Palabras
    <2>2. Envio(c, n) = << <<"op", c, 0>>, <<"largo", c, 0>>, <<"texto", c, 0>> >>
      BY <1>3 DEF Envio
    <2> HIDE DEF Palabras
    <2> QED BY <1>1, <2>1, <2>2
  <1>4. CASE n # 0
    <2> DEFINE w == <<IF n % 2 = 1 THEN "largo" ELSE "texto", c, (n + 1) \div 2>>
    <2>1. w \in Palabras(c)
      BY <1>2, <1>4 DEF Palabras
    <2>2. Envio(c, n) = <<w>>
      BY <1>4 DEF Envio
    <2> HIDE DEF w
    <2> QED BY <1>1, <2>1, <2>2
  <1> QED BY <1>3, <1>4

LEMMA ClienteTipos == ASSUME Tipos, NEW c \in Clientes, Cliente(c) PROVE Tipos'
  <1> USE DEF Tipos, TypeOK, Lugares
  <1>1. CASE Conectar(c)
    BY <1>1 DEF Conectar
  <1>2. CASE Irse(c)
    BY <1>2 DEF Irse
  <1>3. CASE Enviar(c)
    <2>1. Envio(c, enviados[c]) \in Seq(Palabras(c)) /\ enviados[c] + 1 <= 1 + 2 * MaxRutas
      BY <1>3, EnvioTipo DEF Enviar
    <2>2. enviados' \in [Clientes -> Nat] /\ \A d \in Clientes : enviados'[d] <= 1 + 2 * MaxRutas
      BY <1>3, <2>1 DEF Enviar
    <2>3. cliente' \in [Clientes -> {"afuera", "dentro", "ido"}]
      BY <1>3 DEF Enviar
    <2>4. /\ \A d \in Clientes : flujo'[d] \in Seq(Palabras(d))
          /\ flujo' = [d \in Clientes |-> flujo'[d]]
      <3>1. CASE flujo' = [flujo EXCEPT ![c] = @ \o Envio(c, enviados[c])]
        <4>1. flujo[c] \o Envio(c, enviados[c]) \in Seq(Palabras(c))
          BY <2>1
        <4> QED BY <3>1, <4>1
      <3>2. CASE flujo' = flujo
        BY <3>2
      <3> QED BY <1>3, <3>1, <3>2 DEF Enviar
    <2>5. UNCHANGED <<propias, tabla, cola, atiende, rutas, viva>>
      BY <1>3 DEF Enviar
    <2> QED BY <2>2, <2>3, <2>4, <2>5
  <1> QED BY <1>1, <1>2, <1>3 DEF Cliente

LEMMA SobrasTipo ==
  ASSUME NEW c \in Clientes, NEW s \in Seq(Palabras(c))
  PROVE  /\ s # <<>> => /\ Head(s) \in Palabras(c) /\ Tail(s) \in Seq(Palabras(c))
                        /\ Empezado(s) \in Seq(Palabras(c))
         /\ Sobras(s) \subseteq Seq(Palabras(c))
  <1>1. ASSUME s # <<>>
        PROVE  /\ Head(s) \in Palabras(c) /\ Tail(s) \in Seq(Palabras(c))
               /\ Empezado(s) \in Seq(Palabras(c))
    <2>1. Head(s) \in Palabras(c) /\ Tail(s) \in Seq(Palabras(c))
      BY <1>1
    <2> DEFINE w == <<"resto", Head(s)[2], Head(s)[3]>>
    <2>2. w \in Palabras(c)
      BY <2>1 DEF Palabras
    <2>3. Empezado(s) = <<w>> \o Tail(s)
      BY DEF Empezado
    <2> HIDE DEF w
    <2>4. <<w>> \in Seq(Palabras(c))
      BY <2>2
    <2> QED BY ONLY <2>1, <2>3, <2>4
  <1> QED BY <1>1 DEF Sobras

(* The four bytes and the texts that are read leave a connection typed. *)
LEMMA PalabraTipo ==
  ASSUME Tipos, NEW h \in Hilos, NEW luego, Conexion(h) \in Clientes,
         flujo[Conexion(h)] # <<>>, Palabra(h, luego)
  PROVE  /\ flujo' = [c \in Clientes |-> flujo'[c]]
         /\ \A c \in Clientes : flujo'[c] \in Seq(Palabras(c))
         /\ \A c \in Clientes : c # Conexion(h) => flujo'[c] = flujo[c]
  <1> DEFINE k == Conexion(h)
  <1>0. /\ flujo = [c \in Clientes |-> flujo[c]] /\ k \in Clientes
        /\ \A c \in Clientes : flujo[c] \in Seq(Palabras(c))
    BY DEF Tipos, TypeOK, Lugares
  <1>1. /\ Tail(flujo[k]) \in Seq(Palabras(k)) /\ Empezado(flujo[k]) \in Seq(Palabras(k))
    BY <1>0, SobrasTipo
  <1>2. Sobras(Tail(flujo[k])) \subseteq Seq(Palabras(k))
    BY <1>0, <1>1, SobrasTipo
  <1>3. PICK s \in Seq(Palabras(k)) : flujo' = [flujo EXCEPT ![k] = s]
    BY <1>1, <1>2 DEF Palabra
  <1> HIDE DEF k
  <1>4. /\ flujo' = [c \in Clientes |-> flujo'[c]]
        /\ \A c \in Clientes : flujo'[c] \in Seq(Palabras(c))
        /\ \A c \in Clientes : c # k => flujo'[c] = flujo[c]
    BY ONLY <1>0, <1>3
  <1> QED BY <1>4 DEF k

LEMMA HeadTipo ==
  ASSUME Tipos, NEW h \in Hilos, NEW donde, Leyendo(h, donde)
  PROVE  /\ Conexion(h) \in Clientes /\ flujo[Conexion(h)] # <<>>
         /\ flujo[Conexion(h)] \in Seq(Palabras(Conexion(h)))
         /\ Frente(h) \in Palabras(Conexion(h))
  <1>1. Conexion(h) \in Clientes /\ flujo[Conexion(h)] # <<>>
    BY DEF Leyendo
  <1>2. flujo[Conexion(h)] \in Seq(Palabras(Conexion(h)))
    BY <1>1 DEF Tipos, TypeOK
  <1> QED BY <1>1, <1>2, SobrasTipo DEF Frente

(* What a read can do, whatever it finds: the thread stays among its reads *)
(* or goes on to close, and of the connections only the one it reads from  *)
(* changes.                                                                *)
PasoDeLectura(h) ==
  /\ hilo[h] \in Lecturas
  /\ \E d \in Lecturas \union {"cerrar"} :
       /\ hilo' \in {hilo, [hilo EXCEPT ![h] = d]}
       /\ d \in {"largo_path", "texto_path"} => h = "kernel"
       /\ leyendo' \in {leyendo, [leyendo EXCEPT ![h] = "nadie"]}
       /\ d = "cerrar" => leyendo' = [leyendo EXCEPT ![h] = "nadie"]
  /\ anunciado' \in [Hilos -> Anuncio] /\ rutas' \in Seq(Trama \union {Basura})
  /\ viva' \in BOOLEAN
  /\ flujo' = [c \in Clientes |-> flujo'[c]]
  /\ \A c \in Clientes : flujo'[c] \in Seq(Palabras(c))
  /\ \A c \in Clientes : c # Conexion(h) => flujo'[c] = flujo[c]
  /\ UNCHANGED <<semaforo, numero, tabla, cola, cliente, enviados, atiende>>

LEMMA TrasMensajeLugar ==
  ASSUME NEW h \in Hilos
  PROVE  /\ TrasMensaje(h) \in Lecturas
         /\ TrasMensaje(h) \in {"largo_path", "texto_path"} => h = "kernel"
  BY DEF TrasMensaje, Lecturas

LEMMA AnotarTipo ==
  ASSUME Tipos, NEW r \in Trama \union {Basura}
  PROVE  Anotar(r) \in Seq(Trama \union {Basura})
  <1>1. rutas \in Seq(Trama \union {Basura})
    BY DEF Tipos, TypeOK, Trama
  <1> QED BY <1>1 DEF Anotar

LEMMA LecturaCasos ==
  ASSUME Tipos, NEW h \in Hilos, Lectura(h) \/ Fallar(h)
  PROVE  PasoDeLectura(h)
  <1>0. /\ hilo \in [Hilos -> Lugar] /\ anunciado \in [Hilos -> Anuncio]
        /\ leyendo \in [Hilos -> Clientes \union {"nadie"}]
        /\ rutas \in Seq(Trama \union {Basura}) /\ viva \in BOOLEAN
        /\ flujo = [c \in Clientes |-> flujo[c]]
        /\ \A c \in Clientes : flujo[c] \in Seq(Palabras(c))
        /\ \A g \in Hilos : hilo[g] \in {"largo_path", "texto_path"} => g = "kernel"
    BY DEF Tipos, TypeOK, Lugares, Lugar, Anuncio, Trama
  <1>1. CASE Fallar(h)
    <2>1. /\ Despues(hilo[h], h) \in Lecturas \union {"cerrar"}
          /\ Despues(hilo[h], h) \in {"largo_path", "texto_path"} => h = "kernel"
          /\ hilo[h] \in Lecturas
      BY <1>0, <1>1, TrasMensajeLugar DEF Fallar, EnLectura, Despues, Lecturas
    <2>2. anunciado' \in [Hilos -> Anuncio]
      BY <1>0, <1>1 DEF Fallar, Anuncio
    <2>3. viva' \in BOOLEAN
      BY <1>1 DEF Fallar
    <2> QED BY <1>0, <1>1, <2>1, <2>2, <2>3 DEF Fallar, PasoDeLectura
  <1>2. CASE LeerOperacion(h)
    <2>1. Leyendo(h, "operacion") /\ Palabra(h, "largo") /\ anunciado' = anunciado
      BY <1>2 DEF LeerOperacion
    <2>2. hilo[h] = "operacion"
      BY <2>1 DEF Leyendo, EnHilo
    <2>3. "largo" \in Lecturas /\ "operacion" \in Lecturas
      BY DEF Lecturas
    <2> QED BY <1>0, <2>1, <2>2, <2>3, HeadTipo, PalabraTipo DEF PasoDeLectura, Palabra
  <1>3. CASE LeerLargo(h)
    <2>1. PICK donde \in {"largo", "largo_path"} :
            /\ Leyendo(h, donde)
            /\ Palabra(h, IF donde = "largo" THEN "texto" ELSE "texto_path")
            /\ anunciado' = [anunciado EXCEPT ![h] =
                 IF Frente(h)[1] = "largo" THEN <<Frente(h)[2], Frente(h)[3]>> ELSE Basura]
      BY <1>3 DEF LeerLargo
    <2>2. hilo[h] = donde /\ (donde = "largo_path" => h = "kernel")
      BY <1>0, <2>1 DEF Leyendo, EnHilo
    <2>3. Frente(h) \in Palabras(Conexion(h)) /\ Conexion(h) \in Clientes
      BY <2>1, HeadTipo
    <2>4. <<Frente(h)[2], Frente(h)[3]>> \in Trama
      BY <2>3 DEF Palabras, Trama
    <2>5. anunciado' \in [Hilos -> Anuncio]
      BY <1>0, <2>1, <2>4 DEF Anuncio
    <2>6. donde \in Lecturas /\ "texto" \in Lecturas /\ "texto_path" \in Lecturas
      BY DEF Lecturas
    <2>7. /\ flujo' = [c \in Clientes |-> flujo'[c]]
          /\ \A c \in Clientes : flujo'[c] \in Seq(Palabras(c))
          /\ \A c \in Clientes : c # Conexion(h) => flujo'[c] = flujo[c]
      BY <2>1, HeadTipo, PalabraTipo
    <2> QED BY <1>0, <2>1, <2>2, <2>5, <2>6, <2>7 DEF PasoDeLectura, Palabra
  <1>4. CASE LeerTexto(h)
    <2>1. PICK donde \in {"texto", "texto_path"} :
            /\ Leyendo(h, donde) /\ Justo(h)
            /\ flujo' = [flujo EXCEPT ![Conexion(h)] = Tail(@)]
            /\ rutas' = IF donde = "texto_path" THEN Anotar(anunciado[h]) ELSE rutas
            /\ leyendo' = [leyendo EXCEPT ![h] = "nadie"]
            /\ anunciado' = [anunciado EXCEPT ![h] = Desconocido]
            /\ hilo' = [hilo EXCEPT ![h] = TrasMensaje(h)]
            /\ UNCHANGED <<semaforo, numero, tabla, cola, cliente, enviados, atiende, viva>>
      BY <1>4 DEF LeerTexto
    <2>2. hilo[h] \in Lecturas
      BY <2>1 DEF Leyendo, EnHilo, Lecturas
    <2>3. /\ Conexion(h) \in Clientes /\ flujo[Conexion(h)] # <<>>
          /\ Frente(h) \in Palabras(Conexion(h))
          /\ Tail(flujo[Conexion(h)]) \in Seq(Palabras(Conexion(h)))
      BY <2>1, HeadTipo, SobrasTipo
    <2>4. anunciado[h] \in Trama \union {Basura}
      <3>1. anunciado[h][1] = Conexion(h)
        BY <2>1, <2>3 DEF Justo, Palabras
      <3>2. anunciado[h] # Desconocido
        BY <2>3, <3>1, ClientesOK DEF Desconocido
      <3> QED BY <1>0, <3>2 DEF Anuncio
    <2>5. rutas' \in Seq(Trama \union {Basura})
      BY <1>0, <2>1, <2>4, AnotarTipo
    <2>6. anunciado' \in [Hilos -> Anuncio]
      BY <1>0, <2>1 DEF Anuncio
    <2>7. /\ flujo' = [c \in Clientes |-> flujo'[c]]
          /\ \A c \in Clientes : flujo'[c] \in Seq(Palabras(c))
          /\ \A c \in Clientes : c # Conexion(h) => flujo'[c] = flujo[c]
      <3> DEFINE k == Conexion(h)
      <3>1. flujo' = [flujo EXCEPT ![k] = Tail(flujo[k])] /\ Tail(flujo[k]) \in Seq(Palabras(k))
        BY <2>1, <2>3
      <3> HIDE DEF k
      <3>2. /\ flujo' = [c \in Clientes |-> flujo'[c]]
            /\ \A c \in Clientes : flujo'[c] \in Seq(Palabras(c))
            /\ \A c \in Clientes : c # k => flujo'[c] = flujo[c]
        BY ONLY <1>0, <3>1
      <3> QED BY <3>2 DEF k
    <2> QED BY <1>0, <2>1, <2>2, <2>5, <2>6, <2>7, TrasMensajeLugar DEF PasoDeLectura
  <1>5. CASE LeerDesalineado(h)
    <2>1. PICK donde \in {"texto", "texto_path"} :
            /\ Leyendo(h, donde)
            /\ \E n \in 0..Len(flujo[Conexion(h)]) :
                 flujo' \in {[flujo EXCEPT ![Conexion(h)] = s] :
                   s \in Sobras(SubSeq(flujo[Conexion(h)], n + 1, Len(flujo[Conexion(h)])))}
            /\ \/ UNCHANGED <<hilo, leyendo, anunciado, rutas, viva>>
               \/ /\ hilo' = [hilo EXCEPT ![h] = TrasMensaje(h)]
                  /\ leyendo' = [leyendo EXCEPT ![h] = "nadie"]
                  /\ anunciado' = [anunciado EXCEPT ![h] = Desconocido]
                  /\ rutas' \in {rutas, Anotar(Basura)}
                  /\ viva' \in BOOLEAN
            /\ UNCHANGED <<semaforo, numero, tabla, cola, cliente, enviados, atiende>>
      BY <1>5 DEF LeerDesalineado
    <2>2. hilo[h] \in Lecturas
      BY <2>1 DEF Leyendo, EnHilo, Lecturas
    <2>3. Conexion(h) \in Clientes /\ flujo[Conexion(h)] \in Seq(Palabras(Conexion(h)))
      BY <2>1, HeadTipo
    <2>4. /\ flujo' = [c \in Clientes |-> flujo'[c]]
          /\ \A c \in Clientes : flujo'[c] \in Seq(Palabras(c))
          /\ \A c \in Clientes : c # Conexion(h) => flujo'[c] = flujo[c]
      <3> DEFINE k == Conexion(h)
      <3>1. PICK n \in 0..Len(flujo[k]) :
              flujo' \in {[flujo EXCEPT ![k] = s] : s \in Sobras(SubSeq(flujo[k], n + 1, Len(flujo[k])))}
        BY <2>1
      <3>2. SubSeq(flujo[k], n + 1, Len(flujo[k])) \in Seq(Palabras(k))
        BY <2>3
      <3>3. Sobras(SubSeq(flujo[k], n + 1, Len(flujo[k]))) \subseteq Seq(Palabras(k))
        BY <2>3, <3>2, SobrasTipo
      <3>4. PICK s \in Seq(Palabras(k)) : flujo' = [flujo EXCEPT ![k] = s]
        BY <3>1, <3>3
      <3> HIDE DEF k
      <3>5. /\ flujo' = [c \in Clientes |-> flujo'[c]]
            /\ \A c \in Clientes : flujo'[c] \in Seq(Palabras(c))
            /\ \A c \in Clientes : c # k => flujo'[c] = flujo[c]
        BY ONLY <1>0, <3>4
      <3> QED BY <3>5 DEF k
    <2>5. /\ anunciado' \in [Hilos -> Anuncio] /\ rutas' \in Seq(Trama \union {Basura})
          /\ viva' \in BOOLEAN
      BY <1>0, <2>1, AnotarTipo DEF Anuncio
    <2>6. /\ TrasMensaje(h) \in Lecturas \union {"cerrar"} /\ TrasMensaje(h) # "cerrar"
          /\ TrasMensaje(h) \in {"largo_path", "texto_path"} => h = "kernel"
      BY DEF TrasMensaje, Lecturas
    <2>7. /\ hilo' \in {hilo, [hilo EXCEPT ![h] = TrasMensaje(h)]}
          /\ leyendo' \in {leyendo, [leyendo EXCEPT ![h] = "nadie"]}
          /\ UNCHANGED <<semaforo, numero, tabla, cola, cliente, enviados, atiende>>
      BY <2>1
    <2> QED BY <2>2, <2>4, <2>5, <2>6, <2>7 DEF PasoDeLectura
  <1> QED BY <1>1, <1>2, <1>3, <1>4, <1>5 DEF Lectura

LEMMA HiloTipos == ASSUME Tipos, NEW h \in Hilos, Hilo(h) PROVE Tipos'
  <1> USE DEF Tipos, TypeOK, Lugares
  <1>1. CASE EsperarTurno(h)
    BY <1>1 DEF EsperarTurno, EnHilo, Lecturas
  <1>2. CASE Reservar(h)
    BY <1>2 DEF Reservar, EnHilo, Libres, Numeros, Lecturas
  <1>3. CASE Aceptar(h)
    <2>1. Head(cola) \in Clientes /\ Tail(cola) \in Seq(Clientes) /\ Siguiente(h) \in Hilos
      BY <1>3 DEF Aceptar, Siguiente, Hilos
    <2>2. Head(cola) # "nadie"
      BY <2>1, ClientesOK
    <2>3. hilo[h] = "aceptar" /\ numero[h] \in Numeros
      BY <1>3 DEF Aceptar, EnHilo
    <2>4. /\ tabla' \in [Numeros -> Clientes \union {"libre", "reservado"}]
          /\ atiende' \in [Hilos -> Clientes \union {"nadie"}]
          /\ cola' \in Seq(Clientes)
          /\ semaforo' \in [Hilos -> Nat]
      BY <1>3, <2>1, <2>3 DEF Aceptar
    <2>5. /\ hilo' \in [Hilos -> {"semaforo", "accept", "aceptar", "cerrar"} \union Lecturas]
          /\ \A g \in Hilos : numero[g] = 0 <=> hilo'[g] \in {"semaforo", "accept"}
          /\ \A g \in Hilos : leyendo[g] # "nadie" => hilo'[g] \in Lecturas
          /\ \A g \in Hilos : hilo'[g] \in {"largo_path", "texto_path"} => g = "kernel"
          /\ \A g \in Hilos : atiende'[g] = "nadie" <=> hilo'[g] \in {"semaforo", "accept", "aceptar"}
      <3>1. /\ \A g \in Hilos : hilo'[g] = IF g = h THEN "operacion" ELSE hilo[g]
            /\ \A g \in Hilos : atiende'[g] = IF g = h THEN Head(cola) ELSE atiende[g]
            /\ "operacion" \in Lecturas
        BY <1>3 DEF Aceptar, Lecturas
      <3>2. hilo' \in [Hilos -> {"semaforo", "accept", "aceptar", "cerrar"} \union Lecturas]
        BY <1>3, <3>1 DEF Aceptar
      <3>3. /\ \A g \in Hilos : numero[g] = 0 <=> hilo[g] \in {"semaforo", "accept"}
            /\ \A g \in Hilos : leyendo[g] # "nadie" => hilo[g] \in Lecturas
            /\ \A g \in Hilos : hilo[g] \in {"largo_path", "texto_path"} => g = "kernel"
            /\ \A g \in Hilos : atiende[g] = "nadie" <=> hilo[g] \in {"semaforo", "accept", "aceptar"}
        OBVIOUS
      <3> QED BY ONLY <2>2, <2>3, <3>1, <3>2, <3>3
    <2>6. UNCHANGED <<numero, leyendo, anunciado, cliente, enviados, flujo, rutas, viva>>
      BY <1>3 DEF Aceptar
    <2> QED BY <2>4, <2>5, <2>6
  <1>4. CASE Cerrar(h)
    <2>1. TrasError(h) \in Lecturas /\ TrasError(h) \notin {"largo_path", "texto_path"}
      BY DEF TrasError, Lecturas
    <2>2. hilo[h] = "cerrar" /\ hilo' = [hilo EXCEPT ![h] = TrasError(h)]
      BY <1>4 DEF Cerrar, EnHilo
    <2>5. /\ hilo' \in [Hilos -> {"semaforo", "accept", "aceptar", "cerrar"} \union Lecturas]
          /\ \A g \in Hilos : numero[g] = 0 <=> hilo'[g] \in {"semaforo", "accept"}
          /\ \A g \in Hilos : hilo'[g] \in {"largo_path", "texto_path"} => g = "kernel"
          /\ \A g \in Hilos : atiende[g] = "nadie" <=> hilo'[g] \in {"semaforo", "accept", "aceptar"}
      <3>1. \A g \in Hilos : hilo'[g] = IF g = h THEN TrasError(h) ELSE hilo[g]
        BY <2>2
      <3>2. TrasError(h) \notin {"semaforo", "accept", "aceptar", "largo_path", "texto_path"}
        BY <2>1 DEF Lecturas
      <3>3. hilo' \in [Hilos -> {"semaforo", "accept", "aceptar", "cerrar"} \union Lecturas]
        BY <2>1, <2>2
      <3>4. \A g \in Hilos : \/ (g = h /\ hilo[g] = "cerrar" /\ hilo'[g] = TrasError(h))
                              \/ hilo'[g] = hilo[g]
        BY <2>2, <3>1
      <3>5. /\ \A g \in Hilos : numero[g] = 0 <=> hilo[g] \in {"semaforo", "accept"}
            /\ \A g \in Hilos : hilo[g] \in {"largo_path", "texto_path"} => g = "kernel"
            /\ \A g \in Hilos : atiende[g] = "nadie" <=> hilo[g] \in {"semaforo", "accept", "aceptar"}
        OBVIOUS
      <3> QED BY ONLY <3>2, <3>3, <3>4, <3>5
    <2>6. UNCHANGED <<semaforo, numero, anunciado, red, atiende, rutas, viva>>
      BY <1>4 DEF Cerrar
    <2>3. CASE tabla[numero[h]] \in Clientes
      <3>1. PICK S \in SUBSET Atrapados(h) :
              leyendo' = [g \in Hilos |-> IF g \in S THEN tabla[numero[h]] ELSE leyendo[g]]
        BY <1>4, <2>3 DEF Cerrar
      <3>2. \A g \in S : g # h /\ hilo[g] \in Lecturas
        BY <3>1 DEF Atrapados, EnLectura
      <3>3. leyendo' \in [Hilos -> Clientes \union {"nadie"}]
        BY <2>3, <3>1
      <3>4. \A g \in Hilos : leyendo'[g] # "nadie" => hilo'[g] \in Lecturas
        BY <2>1, <2>2, <3>1, <3>2 DEF Lecturas
      <3>5. tabla' \in [Numeros -> Clientes \union {"libre", "reservado"}]
        BY <1>4, <2>3 DEF Cerrar
      <3> QED BY <2>5, <2>6, <3>3, <3>4, <3>5
    <2>4. CASE tabla[numero[h]] \notin Clientes
      <3>1. UNCHANGED <<tabla, leyendo>>
        BY <1>4, <2>4 DEF Cerrar
      <3>2. \A g \in Hilos : leyendo[g] # "nadie" => hilo'[g] \in Lecturas
        BY <2>1, <2>2, <3>1 DEF Lecturas
      <3> QED BY <2>5, <2>6, <3>1, <3>2
    <2> QED BY <2>3, <2>4
  <1>5. CASE Lectura(h) \/ Fallar(h)
    <2>1. PasoDeLectura(h)
      BY <1>5, LecturaCasos
    <2>2. PICK d \in Lecturas \union {"cerrar"} :
             /\ hilo' \in {hilo, [hilo EXCEPT ![h] = d]}
             /\ d \in {"largo_path", "texto_path"} => h = "kernel"
             /\ leyendo' \in {leyendo, [leyendo EXCEPT ![h] = "nadie"]}
             /\ d = "cerrar" => leyendo' = [leyendo EXCEPT ![h] = "nadie"]
      BY <2>1 DEF PasoDeLectura
    <2>3. hilo' \in [Hilos -> Lugar] /\ leyendo' \in [Hilos -> Clientes \union {"nadie"}]
      <3>1. d \in Lugar /\ hilo \in [Hilos -> Lugar]
        BY <2>2 DEF Lugar
      <3>2. [hilo EXCEPT ![h] = d] \in [Hilos -> Lugar]
        BY <3>1
      <3> QED BY <2>2, <3>1, <3>2
    <2>4. /\ \A g \in Hilos : leyendo'[g] # "nadie" => hilo'[g] \in Lecturas
          /\ \A g \in Hilos : hilo'[g] \in {"largo_path", "texto_path"} => g = "kernel"
          /\ \A g \in Hilos : hilo'[g] \in {"semaforo", "accept"} <=> hilo[g] \in {"semaforo", "accept"}
          /\ \A g \in Hilos : hilo'[g] \in {"semaforo", "accept", "aceptar"}
                                <=> hilo[g] \in {"semaforo", "accept", "aceptar"}
      <3>1. hilo[h] \in Lecturas /\ hilo \in [Hilos -> Lugar]
        BY <2>1 DEF PasoDeLectura, Lugar
      <3>2. CASE hilo' = hilo
        <4>1. \A g \in Hilos : leyendo'[g] # "nadie" => leyendo[g] # "nadie"
          BY <2>2
        <4> QED BY <3>2, <4>1
      <3>3. CASE hilo' = [hilo EXCEPT ![h] = d]
        <4>1. \A g \in Hilos : hilo'[g] = IF g = h THEN d ELSE hilo[g]
          BY <3>1, <3>3
        <4>2. \A g \in Hilos : leyendo'[g] # "nadie" => leyendo[g] # "nadie"
          BY <2>2
        <4>3. d = "cerrar" => leyendo'[h] = "nadie"
          BY <2>2
        <4> QED BY <2>2, <3>1, <4>1, <4>2, <4>3 DEF Lecturas
      <3> QED BY <2>2, <3>2, <3>3
    <2> QED BY <2>1, <2>3, <2>4 DEF PasoDeLectura, Lugar, Anuncio, Trama
  <1> QED BY <1>1, <1>2, <1>3, <1>4, <1>5 DEF Hilo

LEMMA PasoTipos == Tipos /\ [Next]_vars => Tipos'
  <1>1. Tipos /\ UNCHANGED vars => Tipos'
    BY DEF Tipos, TypeOK, Lugares, vars
  <1> QED BY <1>1, ClienteTipos, HiloTipos DEF Next

LEMMA TiposSiempre == Spec => []Tipos
  BY InitTipos, PasoTipos, PTL DEF Spec

(* Every variable of memoria keeps its type, whoever connects and leaves.  *)
THEOREM TypeCorrect == Spec => []TypeOK
  <1>1. Tipos => TypeOK
    BY DEF Tipos
  <1> QED BY <1>1, TiposSiempre, PTL
-----------------------------------------------------------------------------
(* The client accepted with a number has left: only then does the number   *)
(* come free, and can another thread get it.                               *)
Gastado(n) == \E x \in Hilos : /\ numero[x] = n /\ atiende[x] # "nadie"
                               /\ cliente[atiende[x]] = "ido"

Cuidado ==
  /\ \A n \in Numeros, h \in Hilos : tabla[n] = "libre" /\ numero[h] = n => Gastado(n)
  /\ \A n \in Numeros : tabla[n] \in Clientes =>
        \E x \in Hilos : numero[x] = n /\ atiende[x] = tabla[n]
  /\ \A n \in Numeros : tabla[n] = "reservado" =>
        \E x \in Hilos : numero[x] = n /\ hilo[x] = "aceptar"
  /\ \A h \in Hilos : hilo[h] = "cerrar" => Gastado(numero[h])
  /\ \A h \in Hilos : leyendo[h] # "nadie" => Gastado(numero[h])
  /\ \A h, g \in Hilos : Comparten(h, g) => Gastado(numero[h])
  /\ \A h \in Hilos : hilo[h] = "aceptar" => tabla[numero[h]] = "reservado"
  /\ \A h, g \in Hilos : hilo[h] = "aceptar" /\ hilo[g] = "aceptar" /\ h # g
                           => numero[h] # numero[g]

LEMMA InitCuidado == Init => Cuidado
  <1> SUFFICES ASSUME Init PROVE Cuidado
    OBVIOUS
  <1>1. /\ \A h \in Hilos : numero[h] = 0 /\ hilo[h] = "semaforo" /\ leyendo[h] = "nadie"
        /\ \A n \in Numeros : tabla[n] = "libre" /\ n # 0
    BY DEF Init, Numeros
  <1>2. "libre" \notin Clientes
    BY ClientesOK
  <1> QED BY <1>1, <1>2 DEF Cuidado, Comparten

(* What the types say of a thread, whatever it does. *)
LEMMA DeHilo ==
  ASSUME Tipos
  PROVE  /\ hilo \in [Hilos -> Lugar] /\ numero \in [Hilos -> {0} \union Numeros]
         /\ leyendo \in [Hilos -> Clientes \union {"nadie"}]
         /\ tabla \in [Numeros -> Clientes \union {"libre", "reservado"}]
         /\ atiende \in [Hilos -> Clientes \union {"nadie"}]
         /\ cola \in Seq(Clientes)
         /\ \A x \in Hilos : numero[x] = 0 <=> hilo[x] \in {"semaforo", "accept"}
         /\ \A x \in Hilos : atiende[x] = "nadie"
                               <=> hilo[x] \in {"semaforo", "accept", "aceptar"}
         /\ \A x \in Hilos : leyendo[x] # "nadie" => hilo[x] \in Lecturas
         /\ 0 \notin Numeros
  BY DEF Tipos, TypeOK, Lugares, Lugar, Numeros

(* What the clients do leaves the threads and their descriptors alone, and *)
(* who has left stays away.                                                *)
LEMMA PasoCliente ==
  ASSUME Tipos, NEW c \in Clientes, Cliente(c)
  PROVE  /\ UNCHANGED <<propias, tabla, atiende, rutas, viva>>
         /\ \A d \in Clientes : cliente[d] = "ido" => cliente'[d] = "ido"
  <1>1. cliente \in [Clientes -> {"afuera", "dentro", "ido"}]
    BY DEF Tipos, TypeOK
  <1> QED BY <1>1 DEF Cliente, Conectar, Enviar, Irse

(* A thread has a number from accept on, and a client from then on. *)
LEMMA PasoHilo ==
  ASSUME Tipos, NEW h \in Hilos, Hilo(h)
  PROVE  /\ \A x \in Hilos : numero[x] # 0 => numero'[x] = numero[x]
         /\ \A x \in Hilos : atiende[x] # "nadie" => numero[x] # 0 /\ atiende'[x] = atiende[x]
         /\ cliente' = cliente
  <1>1. /\ \A x \in Hilos : numero[x] = 0 <=> hilo[x] \in {"semaforo", "accept"}
        /\ \A x \in Hilos : atiende[x] = "nadie" <=> hilo[x] \in {"semaforo", "accept", "aceptar"}
        /\ numero \in [Hilos -> {0} \union Numeros] /\ atiende \in [Hilos -> Clientes \union {"nadie"}]
    BY DEF Tipos, TypeOK, Lugares
  <1>2. CASE EsperarTurno(h)
    BY <1>1, <1>2 DEF EsperarTurno
  <1>3. CASE Reservar(h)
    BY <1>1, <1>3 DEF Reservar, EnHilo
  <1>4. CASE Aceptar(h)
    BY <1>1, <1>4 DEF Aceptar, EnHilo
  <1>5. CASE Cerrar(h)
    BY <1>1, <1>5 DEF Cerrar
  <1>6. CASE Lectura(h) \/ Fallar(h)
    BY <1>1, <1>6, LecturaCasos DEF PasoDeLectura
  <1> QED BY <1>2, <1>3, <1>4, <1>5, <1>6 DEF Hilo

LEMMA GastadoQueda ==
  ASSUME Tipos, [Next]_vars, NEW n, Gastado(n)
  PROVE  Gastado(n)'
  <1>1. PICK x \in Hilos : numero[x] = n /\ atiende[x] # "nadie" /\ cliente[atiende[x]] = "ido"
    BY DEF Gastado
  <1>2. atiende[x] \in Clientes
    BY <1>1 DEF Tipos, TypeOK
  <1>3. CASE UNCHANGED vars
    BY <1>1, <1>3 DEF vars, Gastado
  <1>4. ASSUME NEW c \in Clientes, Cliente(c) PROVE Gastado(n)'
    BY <1>1, <1>2, <1>4, PasoCliente DEF Gastado
  <1>5. ASSUME NEW h \in Hilos, Hilo(h) PROVE Gastado(n)'
    BY <1>1, <1>2, <1>5, PasoHilo DEF Gastado
  <1> QED BY <1>3, <1>4, <1>5 DEF Next

LEMMA PasoCuidadoCliente ==
  ASSUME Tipos, Cuidado, [Next]_vars, UNCHANGED <<propias, tabla, atiende>>
  PROVE  Cuidado'
  <1>1. \A n : Gastado(n) => Gastado(n)'
    BY GastadoQueda
  <1> QED BY <1>1 DEF Cuidado, Comparten

LEMMA PasoCuidadoReservar ==
  ASSUME Tipos, Cuidado, NEW h \in Hilos, Reservar(h)
  PROVE  Cuidado'
  <1>1. \A n : Gastado(n) => Gastado(n)'
    BY GastadoQueda DEF Next, Hilo
  <1>2. PICK n \in Numeros : /\ tabla[n] = "libre"
                             /\ numero' = [numero EXCEPT ![h] = n]
                             /\ tabla' = [tabla EXCEPT ![n] = "reservado"]
    BY DEF Reservar, Libres
  <1>3. /\ hilo[h] = "accept" /\ numero[h] = 0 /\ atiende[h] = "nadie" /\ leyendo[h] = "nadie"
        /\ numero' \in [Hilos -> {0} \union Numeros]
        /\ \A x \in Hilos : numero'[x] = IF x = h THEN n ELSE numero[x]
        /\ \A x \in Hilos : hilo'[x] = IF x = h THEN "aceptar" ELSE hilo[x]
        /\ \A m \in Numeros : tabla'[m] = IF m = n THEN "reservado" ELSE tabla[m]
        /\ \A x \in Hilos : numero[x] = 0 <=> hilo[x] \in {"semaforo", "accept"}
        /\ numero \in [Hilos -> {0} \union Numeros]
        /\ leyendo' = leyendo /\ atiende' = atiende
    BY <1>2, DeHilo DEF Reservar, EnHilo, Lecturas
  <1>4. 0 \notin Numeros /\ "reservado" \notin Clientes /\ "nadie" \notin Clientes
    BY ClientesOK DEF Numeros
  <1>5. \A m \in Numeros, g \in Hilos : tabla'[m] = "libre" /\ numero'[g] = m => Gastado(m)'
    BY <1>1, <1>2, <1>3 DEF Cuidado
  <1>6. \A m \in Numeros : tabla'[m] \in Clientes =>
          \E x \in Hilos : numero'[x] = m /\ atiende'[x] = tabla'[m]
    BY <1>3, <1>4 DEF Cuidado
  <1>7. \A m \in Numeros : tabla'[m] = "reservado" =>
          \E x \in Hilos : numero'[x] = m /\ hilo'[x] = "aceptar"
    BY <1>3 DEF Cuidado
  <1>8. \A g \in Hilos : hilo'[g] = "cerrar" => Gastado(numero[g])'
    BY <1>1, <1>3 DEF Cuidado
  <1>9. \A g \in Hilos : leyendo'[g] # "nadie" => Gastado(numero[g])'
    BY <1>1, <1>3 DEF Cuidado
  <1>10. ASSUME NEW f \in Hilos, NEW g \in Hilos, Comparten(f, g)'
         PROVE  Gastado(numero[f])'
    <2>1. f # g /\ numero'[f] = numero'[g] /\ numero'[f] # 0
      BY <1>10 DEF Comparten
    <2>2. CASE f # h /\ g # h
      BY <1>1, <1>3, <2>1, <2>2 DEF Cuidado, Comparten
    <2>3. CASE f = h \/ g = h
      <3>1. Gastado(n)
        BY <1>2, <1>3, <2>1, <2>3 DEF Cuidado
      <3> QED BY <1>1, <1>3, <2>1, <2>3, <3>1
    <2> QED BY <2>2, <2>3
  <1>11. \A g \in Hilos : hilo'[g] = "aceptar" => tabla'[numero'[g]] = "reservado"
    BY <1>2, <1>3, <1>4 DEF Cuidado
  <1>12. \A f, g \in Hilos : hilo'[f] = "aceptar" /\ hilo'[g] = "aceptar" /\ f # g
                             => numero'[f] # numero'[g]
    BY <1>2, <1>3 DEF Cuidado
  <1> QED BY <1>5, <1>6, <1>7, <1>8, <1>9, <1>10, <1>11, <1>12 DEF Cuidado

LEMMA PasoCuidadoAceptar ==
  ASSUME Tipos, Cuidado, NEW h \in Hilos, Aceptar(h)
  PROVE  Cuidado'
  <1>1. \A n : Gastado(n) => Gastado(n)'
    BY GastadoQueda DEF Next, Hilo
  <1> DEFINE n == numero[h]
             c == Head(cola)
  <1>2. /\ hilo[h] = "aceptar" /\ atiende[h] = "nadie" /\ leyendo[h] = "nadie"
        /\ n \in Numeros /\ c \in Clientes
        /\ numero' = numero /\ leyendo' = leyendo
        /\ \A x \in Hilos : hilo'[x] = IF x = h THEN "operacion" ELSE hilo[x]
        /\ \A x \in Hilos : atiende'[x] = IF x = h THEN c ELSE atiende[x]
        /\ \A m \in Numeros : tabla'[m] = IF m = n THEN c ELSE tabla[m]
    <2>1. hilo[h] = "aceptar" /\ cola # <<>>
      BY DEF Aceptar, EnHilo
    <2>2. atiende[h] = "nadie" /\ leyendo[h] = "nadie" /\ n \in Numeros /\ c \in Clientes
      BY <2>1, DeHilo DEF Lecturas
    <2> QED BY <2>1, <2>2, DeHilo DEF Aceptar
  <1>3. "reservado" \notin Clientes /\ "nadie" \notin Clientes /\ "libre" \notin Clientes
    BY ClientesOK
  <1>4. \A g \in Hilos : hilo[g] = "aceptar" => numero[g] \in Numeros
    BY DEF Tipos, TypeOK, Lugares
  <1> HIDE DEF n, c
  <1>5. \A m \in Numeros, g \in Hilos : tabla'[m] = "libre" /\ numero'[g] = m => Gastado(m)'
    BY <1>1, <1>2, <1>3 DEF Cuidado
  <1>6. \A m \in Numeros : tabla'[m] \in Clientes =>
          \E x \in Hilos : numero'[x] = m /\ atiende'[x] = tabla'[m]
    BY <1>2, <1>3 DEF Cuidado, n
  <1>7. \A m \in Numeros : tabla'[m] = "reservado" =>
          \E x \in Hilos : numero'[x] = m /\ hilo'[x] = "aceptar"
    BY <1>2, <1>3 DEF Cuidado, n
  <1>8. \A g \in Hilos : hilo'[g] = "cerrar" => Gastado(numero[g])'
    BY <1>1, <1>2 DEF Cuidado
  <1>9. \A g \in Hilos : leyendo'[g] # "nadie" => Gastado(numero[g])'
    BY <1>1, <1>2 DEF Cuidado
  <1>10. \A f, g \in Hilos : Comparten(f, g)' => Gastado(numero[f])'
    BY <1>1, <1>2 DEF Cuidado, Comparten
  <1>11. \A g \in Hilos : hilo'[g] = "aceptar" => tabla'[numero'[g]] = "reservado"
    BY <1>2, <1>4 DEF Cuidado, n
  <1>12. \A f, g \in Hilos : hilo'[f] = "aceptar" /\ hilo'[g] = "aceptar" /\ f # g
                             => numero'[f] # numero'[g]
    BY <1>2 DEF Cuidado
  <1> QED BY <1>5, <1>6, <1>7, <1>8, <1>9, <1>10, <1>11, <1>12 DEF Cuidado

LEMMA PasoCuidadoCerrar ==
  ASSUME Tipos, Cuidado, NEW h \in Hilos, Cerrar(h)
  PROVE  Cuidado'
  <1>1. \A n : Gastado(n) => Gastado(n)'
    BY GastadoQueda DEF Next, Hilo
  <1> DEFINE n == numero[h]
  <1>2. /\ hilo[h] = "cerrar" /\ n \in Numeros
        /\ numero' = numero /\ atiende' = atiende
        /\ hilo'[h] \in Lecturas /\ \A x \in Hilos : x # h => hilo'[x] = hilo[x]
    <2>1. hilo[h] = "cerrar" /\ TrasError(h) \in Lecturas
      BY DEF Cerrar, EnHilo, TrasError, Lecturas
    <2> QED BY <2>1, DeHilo DEF Cerrar
  <1>3. /\ "reservado" \notin Clientes /\ "nadie" \notin Clientes /\ "libre" \notin Clientes
        /\ "aceptar" \notin Lecturas /\ "cerrar" \notin Lecturas
    BY ClientesOK DEF Lecturas
  <1>4. \A g \in Hilos : hilo[g] = "aceptar" => numero[g] \in Numeros
    BY DEF Tipos, TypeOK, Lugares
  <1>5. Gastado(n)
    BY <1>2 DEF Cuidado
  <1>6. /\ \A m \in Numeros : \/ tabla'[m] = tabla[m]
                              \/ m = n /\ tabla[m] \in Clientes /\ tabla'[m] = "libre"
        /\ \A g \in Hilos : leyendo'[g] = leyendo[g] \/ numero[g] = n
    <2>1. CASE tabla[n] \in Clientes
      <3>1. PICK S \in SUBSET Atrapados(h) :
              leyendo' = [g \in Hilos |-> IF g \in S THEN tabla[n] ELSE leyendo[g]]
        BY <2>1 DEF Cerrar
      <3>2. \A g \in S : numero[g] = n
        BY <3>1 DEF Atrapados
      <3>3. \A m \in Numeros : tabla'[m] = IF m = n THEN "libre" ELSE tabla[m]
        BY <1>2, <2>1, DeHilo DEF Cerrar
      <3>4. \A g \in Hilos : leyendo'[g] = leyendo[g] \/ numero[g] = n
        BY <3>1, <3>2
      <3> HIDE DEF n
      <3> QED BY <2>1, <3>3, <3>4
    <2>2. CASE tabla[n] \notin Clientes
      <3>1. tabla' = tabla /\ leyendo' = leyendo
        BY <2>2 DEF Cerrar
      <3> QED BY <3>1
    <2> QED BY <2>1, <2>2
  <1> HIDE DEF n
  <1>7. \A m \in Numeros, g \in Hilos : tabla'[m] = "libre" /\ numero'[g] = m => Gastado(m)'
    BY <1>1, <1>2, <1>5, <1>6 DEF Cuidado
  <1>8. \A m \in Numeros : tabla'[m] \in Clientes =>
          \E x \in Hilos : numero'[x] = m /\ atiende'[x] = tabla'[m]
    BY <1>2, <1>3, <1>6 DEF Cuidado
  <1>9. \A m \in Numeros : tabla'[m] = "reservado" =>
          \E x \in Hilos : numero'[x] = m /\ hilo'[x] = "aceptar"
    BY <1>2, <1>6 DEF Cuidado
  <1>10. \A g \in Hilos : hilo'[g] = "cerrar" => Gastado(numero[g])'
    BY <1>1, <1>2, <1>3 DEF Cuidado
  <1>11. \A g \in Hilos : leyendo'[g] # "nadie" => Gastado(numero[g])'
    BY <1>1, <1>2, <1>5, <1>6 DEF Cuidado
  <1>12. \A f, g \in Hilos : Comparten(f, g)' => Gastado(numero[f])'
    BY <1>1, <1>2 DEF Cuidado, Comparten
  <1>13. \A g \in Hilos : hilo'[g] = "aceptar" => tabla'[numero'[g]] = "reservado"
    BY <1>2, <1>3, <1>4, <1>6 DEF Cuidado
  <1>14. \A f, g \in Hilos : hilo'[f] = "aceptar" /\ hilo'[g] = "aceptar" /\ f # g
                             => numero'[f] # numero'[g]
    BY <1>2, <1>3 DEF Cuidado
  <1> QED BY <1>7, <1>8, <1>9, <1>10, <1>11, <1>12, <1>13, <1>14 DEF Cuidado

(* recv has nothing to return only on a number whose client has left. *)
LEMMA SinDatosGastado ==
  ASSUME Tipos, Cuidado, NEW h \in Hilos, hilo[h] \in Lecturas, SinDatos(h)
  PROVE  Gastado(numero[h])
  <1> DEFINE n == numero[h]
  <1>1. n \in Numeros /\ 0 \notin Numeros /\ tabla[n] \in Clientes \union {"libre", "reservado"}
    BY DeHilo DEF Lecturas
  <1>2. CASE leyendo[h] # "nadie"
    BY <1>2 DEF Cuidado
  <1>3. CASE leyendo[h] = "nadie" /\ tabla[n] \in Clientes
    <2>1. PICK x \in Hilos : numero[x] = n /\ atiende[x] = tabla[n]
      BY <1>1, <1>3 DEF Cuidado
    <2>2. cliente[tabla[n]] = "ido" /\ tabla[n] # "nadie"
      BY <1>3, ClientesOK DEF SinDatos, Conexion
    <2> QED BY <2>1, <2>2 DEF Gastado
  <1>4. CASE tabla[n] = "libre"
    BY <1>1, <1>4 DEF Cuidado
  <1>5. CASE tabla[n] = "reservado"
    <2>1. PICK x \in Hilos : numero[x] = n /\ hilo[x] = "aceptar"
      BY <1>1, <1>5 DEF Cuidado
    <2>2. Comparten(h, x)
      BY <1>1, <2>1 DEF Comparten, Lecturas
    <2> QED BY <2>2 DEF Cuidado
  <1> QED BY <1>1, <1>2, <1>3, <1>4, <1>5

LEMMA PasoCuidadoLectura ==
  ASSUME Tipos, Cuidado, NEW h \in Hilos, Lectura(h) \/ Fallar(h)
  PROVE  Cuidado'
  <1>1. \A n : Gastado(n) => Gastado(n)'
    BY GastadoQueda DEF Next, Hilo
  <1>2. /\ UNCHANGED <<numero, tabla, atiende>> /\ hilo[h] \in Lecturas
        /\ \A g \in Hilos : leyendo'[g] # "nadie" => leyendo'[g] = leyendo[g]
        /\ \A g \in Hilos : g # h => hilo'[g] = hilo[g]
        /\ hilo'[h] \in Lecturas \union {"cerrar"}
    <2>1. PasoDeLectura(h)
      BY LecturaCasos
    <2>2. hilo \in [Hilos -> Lugar] /\ leyendo \in [Hilos -> Clientes \union {"nadie"}]
      BY DEF Tipos, TypeOK, Lugar
    <2>3. PICK d \in Lecturas \union {"cerrar"} :
             /\ hilo' \in {hilo, [hilo EXCEPT ![h] = d]}
             /\ leyendo' \in {leyendo, [leyendo EXCEPT ![h] = "nadie"]}
      BY <2>1 DEF PasoDeLectura
    <2> QED BY <2>1, <2>2, <2>3 DEF PasoDeLectura
  <1>3. hilo'[h] = "cerrar" => Gastado(numero[h])
    <2>1. CASE Fallar(h)
      BY <2>1, SinDatosGastado DEF Fallar, EnLectura
    <2>2. CASE Lectura(h)
      <3>1. hilo'[h] \in Lecturas
        <4>1. hilo \in [Hilos -> Lugar]
          BY DEF Tipos, TypeOK, Lugar
        <4> QED BY <1>2, <2>2, <4>1, TrasMensajeLugar DEF Lectura, LeerOperacion, LeerLargo,
                 LeerTexto, LeerDesalineado, Palabra, Lecturas
      <3> QED BY <3>1 DEF Lecturas
    <2> QED BY <2>1, <2>2
  <1>4. "aceptar" \notin Lecturas \union {"cerrar"} /\ "cerrar" \notin Lecturas
    BY DEF Lecturas
  <1>5. \A g \in Hilos : hilo'[g] = "aceptar" <=> hilo[g] = "aceptar"
    BY <1>2, <1>4
  <1>6. \A g \in Hilos : hilo'[g] = "cerrar" => Gastado(numero[g])
    BY <1>2, <1>3 DEF Cuidado
  <1>7. \A g \in Hilos : leyendo'[g] # "nadie" => Gastado(numero[g])
    BY <1>2 DEF Cuidado
  <1> QED BY <1>1, <1>2, <1>5, <1>6, <1>7 DEF Cuidado, Comparten

LEMMA PasoCuidado == Tipos /\ Cuidado /\ [Next]_vars => Cuidado'
  <1> SUFFICES ASSUME Tipos, Cuidado, [Next]_vars PROVE Cuidado'
    OBVIOUS
  <1>1. CASE UNCHANGED vars
    BY <1>1, PasoCuidadoCliente DEF vars
  <1>2. ASSUME NEW c \in Clientes, Cliente(c) PROVE Cuidado'
    BY <1>2, PasoCliente, PasoCuidadoCliente
  <1>3. ASSUME NEW h \in Hilos, Hilo(h) PROVE Cuidado'
    <2>1. CASE EsperarTurno(h)
      <3>1. \A n : Gastado(n) => Gastado(n)'
        BY GastadoQueda
      <3>2. /\ hilo[h] = "semaforo" /\ UNCHANGED <<numero, leyendo, tabla, atiende>>
            /\ \A g \in Hilos : hilo'[g] = IF g = h THEN "accept" ELSE hilo[g]
        BY <2>1 DEF EsperarTurno, EnHilo, Tipos, TypeOK
      <3> QED BY <3>1, <3>2 DEF Cuidado, Comparten
    <2>2. CASE Reservar(h)
      BY <2>2, PasoCuidadoReservar
    <2>3. CASE Aceptar(h)
      BY <2>3, PasoCuidadoAceptar
    <2>4. CASE Cerrar(h)
      BY <2>4, PasoCuidadoCerrar
    <2>5. CASE Lectura(h) \/ Fallar(h)
      BY <2>5, PasoCuidadoLectura
    <2> QED BY <1>3, <2>1, <2>2, <2>3, <2>4, <2>5 DEF Hilo
  <1> QED BY <1>1, <1>2, <1>3 DEF Next

LEMMA CuidadoSiempre == Spec => [](Tipos /\ Cuidado)
  BY InitTipos, InitCuidado, PasoTipos, PasoCuidado, PTL DEF Spec

(* Two threads never use the same number before a client accepted with it  *)
(* has left.                                                               *)
THEOREM CompartenCorrecto == Spec => []CompartenSoloTrasIda
  <1>1. Cuidado => CompartenSoloTrasIda
    BY DEF Cuidado, CompartenSoloTrasIda, Gastado
  <1> QED BY <1>1, CuidadoSiempre, PTL

LEMMA PasoCierre ==
  ASSUME Tipos, Cuidado, [Next]_vars, NEW n \in Numeros, NEW c \in Clientes,
         tabla[n] = c, tabla'[n] # c
  PROVE  \/ cliente[c] = "ido"
         \/ \E h, g \in Hilos : Comparten(h, g) /\ numero[h] = n
  <1>1. "reservado" \notin Clientes /\ "nadie" \notin Clientes /\ "libre" \notin Clientes
    BY ClientesOK
  <1>2. PICK h \in Hilos : Hilo(h)
    BY PasoCliente DEF Next, vars
  <1>3. Cerrar(h)
    <2>1. ~EsperarTurno(h)
      BY DEF EsperarTurno
    <2>2. ~Reservar(h)
      BY <1>1 DEF Reservar, Libres, Tipos, TypeOK
    <2>3. ~Aceptar(h)
      <3>1. hilo[h] = "aceptar" => tabla[numero[h]] = "reservado"
        BY DEF Cuidado
      <3> QED BY <1>1, <3>1 DEF Aceptar, EnHilo, Tipos, TypeOK
    <2>4. ~(Lectura(h) \/ Fallar(h))
      BY LecturaCasos DEF PasoDeLectura
    <2> QED BY <1>2, <2>1, <2>2, <2>3, <2>4 DEF Hilo
  <1>4. numero[h] = n /\ hilo[h] = "cerrar"
    BY <1>3 DEF Cerrar, EnHilo, Tipos, TypeOK
  <1>5. PICK x \in Hilos : /\ numero[x] = n /\ atiende[x] # "nadie"
                           /\ cliente[atiende[x]] = "ido"
    BY <1>4 DEF Cuidado, Gastado
  <1>6. PICK y \in Hilos : numero[y] = n /\ atiende[y] = c
    BY DEF Cuidado
  <1>7. 0 \notin Numeros
    BY DEF Numeros
  <1> QED BY <1>5, <1>6, <1>7 DEF Comparten

(* memoria closes the connection of a client that is there only when two   *)
(* threads use its number.                                                 *)
THEOREM CierreCorrecto == Spec => CierreSoloTrasIda
  <1>1. Tipos /\ Cuidado /\ [Next]_vars =>
          [\A n \in Numeros, c \in Clientes :
             (tabla[n] = c /\ tabla'[n] # c) =>
               \/ cliente[c] = "ido"
               \/ \E h, g \in Hilos : Comparten(h, g) /\ numero[h] = n]_vars
    BY PasoCierre
  <1> QED BY <1>1, CuidadoSiempre, PTL DEF Spec, CierreSoloTrasIda
=============================================================================
