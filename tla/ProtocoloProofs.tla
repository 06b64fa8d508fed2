-------------------------- MODULE ProtocoloProofs --------------------------
(***************************************************************************)
(* Proofs that what is received is what was sent, and that the dispatch    *)
(* server of the CPU gets no PCB, for any texts, instructions, processes   *)
(* and number of sends, however the bytes are cut.                         *)
(***************************************************************************)
EXTENDS TramasProofs

(* The server is reading its one message, has ended before it, or has gone *)
(* to the socket it listens on.                                            *)
Despacho ==
  canal = "dispatch" =>
    \/ lector \in {"op", "size", "cuerpo", "fin"} /\ recibidos = <<>>
    \/ lector \in {"escucha", "muerto"} /\ \/ recibidos = <<>>
                                           \/ \E m : recibidos = <<m>>

LEMMA InitDespacho == Init => Despacho
  BY DEF Init, Inicio, Despacho

LEMMA PasoDespacho == Despacho /\ [Next]_vars => Despacho'
  <1> SUFFICES ASSUME Despacho, [Next]_vars, canal' = "dispatch"
               PROVE  Despacho'
    BY DEF Despacho
  <1>1. CASE UNCHANGED vars
    BY <1>1 DEF vars, Despacho
  <1>2. CASE Emisor \/ Entregar
    BY <1>2 DEF Emisor, Empezar, Enviar, Cerrar, Entregar, Despacho
  <1>3. CASE LeerLargo
    BY <1>3 DEF LeerLargo, Leer, Despacho
  <1>4. CASE LeerOperacion
    BY <1>4 DEF LeerOperacion, Leer, Despacho
  <1>5. CASE LeerCuerpo
    <2>1. /\ canal = "dispatch" /\ lector = "cuerpo" /\ recibidos = <<>>
          /\ recibidos' = Append(recibidos, <<"mensaje", Bytes>>)
      BY <1>5 DEF LeerCuerpo, Recibir, Leer, Despacho
    <2>2. lector' = "escucha"
      BY <1>5, <2>1 DEF LeerCuerpo, Recibir, Leer, TrasMensaje
    <2>3. recibidos' = << <<"mensaje", Bytes>> >>
      BY <2>1
    <2> QED BY <2>2, <2>3 DEF Despacho
  <1>6. /\ ~LeerOperacionPcb /\ ~LeerPath /\ ~LeerPcb /\ ~HiloSinLogger
        /\ ~LeerPaquete /\ ~SiguienteValor /\ ~DevolverValores
    BY DEF LeerOperacionPcb, LeerPath, LeerPcb, HiloSinLogger, LeerPaquete, SiguienteValor,
           DevolverValores, Recibir, Leer, Despacho
  <1>7. ~LeerParcial
    BY DEF LeerParcial, Parcial, SinEspera, Despacho
  <1>8. CASE LeerCierre
    BY <1>8 DEF LeerCierre, Nada, EnRecv, SinEspera, TrasCierre, Despacho
  <1>9. CASE EscucharMal
    BY <1>9 DEF EscucharMal, Despacho
  <1> QED BY <1>1, <1>2, <1>3, <1>4, <1>5, <1>6, <1>7, <1>8, <1>9 DEF Next, Receptor

(* The dispatch server of the CPU takes the greeting of the kernel and     *)
(* nothing else: it never gets a PCB, and once greeted it does not end     *)
(* when the kernel does.                                                   *)
THEOREM DispatchSordoCorrecto == Spec => []DispatchSordo
  <1>1. Despacho => DispatchSordo
    <2>1. \A m : Len(<<m>>) = 1
      OBVIOUS
    <2> QED BY <2>1 DEF Despacho, DispatchSordo
  <1> QED BY <1>1, InitDespacho, PasoDespacho, PTL DEF Spec
-----------------------------------------------------------------------------
(* The bytes between the two programs: arrived, in the network, and of the *)
(* send under way (two pieces at most).                                    *)
RestoDe(s) == CASE Len(s) = 0 -> <<>> [] Len(s) = 1 -> s[1] [] OTHER -> s[1] \o s[2]
FlujoDe(ll, er, pe) == ll \o er \o RestoDe(pe)
Flujo == FlujoDe(llegado, enRed, porEnviar)

(* How much of the send it is receiving the receiver has read.             *)
Avance ==
  CASE lector \in {"size", "ptexto"} -> 4
    [] lector = "pcbtam" -> 1
    [] lector = "pcbcuerpo" -> 5
    [] lector = "cuerpo" -> 8
    [] lector = "valores" -> 8 + tam
    [] OTHER -> 0

EnOperacion == {"op", "size", "cuerpo"}
EnCuerpo    == {"cuerpo", "ptexto", "pcbcuerpo", "valores"}

Pendiente == enviados[Len(recibidos) + 1]

(* What has been sent is of the kind its place on the connection says.     *)
Historia ==
  /\ enviados \in Seq(Mandables)
  /\ \A n \in 1..Len(enviados) : enviados[n][1] = Tipo(n)
  /\ Len(porEnviar) <= 2

(* Each receiver stays in its own places.                                  *)
Sitio ==
  /\ lector \in EnOperacion => canal \notin {"operacion", "pcb"}
  /\ lector = "valores" => canal = "paquete"
  /\ lector \in {"plen", "ptexto"} => canal = "rutas"
  /\ lector \in {"pcbop", "pcbtam", "pcbcuerpo"} => canal = "pcb"

(* What has been received is what was sent first; the kernel's greeting    *)
(* comes before its paths.                                                 *)
Recibido ==
  /\ Len(recibidos) \in 0..Len(enviados)
  /\ recibidos = SubSeq(enviados, 1, Len(recibidos))
  /\ lector \in EnOperacion /\ canal \in {"rutas", "dispatch"} => Len(recibidos) = 0
  /\ lector \in {"plen", "ptexto"} => Len(recibidos) >= 1

(* The loop of recibir_paquete: it has found the values that end at d.     *)
EnVuelta(l, d, vs) == \E k \in 0..4 : d = Len(Parte(l, k)) /\ vs = SubSeq(l, 1, k)

Vuelta ==
  lector = "valores" =>
    /\ buffer = Cuerpo(Pendiente)
    /\ EnVuelta(Pendiente[2], desplazamiento, valores)

(* While it reads, the receiver is in step with what was sent, and the     *)
(* length it has read is that of the body it is about to read.             *)
AlDia ==
  /\ lector \in EnRecv \union {"valores"} =>
       EnPaso(Flujo, Len(recibidos), Avance, enviados)
  /\ lector \in EnCuerpo =>
       Len(recibidos) < Len(enviados) /\ tam = Len(Cuerpo(Pendiente))
  /\ Vuelta

IInv == TypeOK /\ Historia /\ Sitio /\ Recibido /\ AlDia
-----------------------------------------------------------------------------
(* The pieces of a send, joined, are its bytes.                            *)
LEMMA EnviosSonTrama ==
  ASSUME NEW e \in Mandables
  PROVE  LET s == Envios(e[1], e[2]) IN
         /\ s \in Seq(Seq(Byte)) /\ Len(s) \in {1, 2}
         /\ RestoDe(s) = Trama(e)
  <1> DEFINE s == Envios(e[1], e[2])
  <1>0. Trama(e) \in Seq(Byte) /\ e[1] \in Clases /\ e[2] \in Valores(e[1])
    BY TramaDeEnvio, MandableEsPar
  <1>1. CASE e[1] \in {"mensaje", "pcb", "paquete"}
    <2>1. s = <<Trama(e)>>
      BY <1>1 DEF Envios, Trama
    <2> HIDE DEF s
    <2>2. s \in Seq(Seq(Byte)) /\ Len(s) = 1 /\ s[1] = Trama(e)
      BY <1>0, <2>1
    <2> QED BY <2>2 DEF RestoDe, s
  <1>2. CASE e[1] \in {"path", "operacion"}
    <2> DEFINE a == Entero(Len(e[2]))
               t == e[2]
    <2>1. s = <<a, t>> /\ Trama(e) = a \o t
      BY <1>2 DEF Envios, EnviarPath, Trama
    <2>2. t \in Textos
      BY <1>0, <1>2 DEF Valores
    <2>3. t \in Seq(Byte) /\ Len(t) \in Nat
      BY <2>2, TextoEsBytes
    <2>4. a \in Seq(Byte)
      BY <2>3, EnteroEsBytes
    <2> HIDE DEF s, a, t
    <2>5. s \in Seq(Seq(Byte)) /\ Len(s) = 2 /\ s[1] = a /\ s[2] = t
      BY <2>1, <2>3, <2>4
    <2> QED BY <2>1, <2>5 DEF RestoDe, s
  <1> QED BY <1>0, <1>1, <1>2 DEF Clases

LEMMA RestoEsBytes ==
  ASSUME NEW s \in Seq(Seq(Byte)), Len(s) <= 2
  PROVE  RestoDe(s) \in Seq(Byte)
  <1>0. Len(s) = 0 \/ Len(s) = 1 \/ Len(s) = 2
    <2> DEFINE n == Len(s)
    <2>1. n \in Nat /\ n <= 2
      BY LenProperties
    <2> HIDE DEF n
    <2>2. n = 0 \/ n = 1 \/ n = 2
      BY <2>1
    <2> QED BY <2>2 DEF n
  <1>1. CASE Len(s) = 0
    BY <1>1 DEF RestoDe
  <1>2. CASE Len(s) = 1
    BY <1>2, ElementOfSeq DEF RestoDe
  <1>3. CASE Len(s) = 2
    <2>1. s[1] \in Seq(Byte) /\ s[2] \in Seq(Byte)
      BY <1>3, ElementOfSeq
    <2>2. s[1] \o s[2] \in Seq(Byte)
      BY <2>1, Unir, Zenon
    <2> QED BY <1>3, <2>2 DEF RestoDe
  <1> QED BY <1>0, <1>1, <1>2, <1>3

(* The bytes on their way: they are bytes, what arrives first is their     *)
(* beginning, and neither sending a piece nor delivering part of the       *)
(* network changes them.                                                   *)
LEMMA FlujoEsBytes ==
  ASSUME NEW ll \in Seq(Byte), NEW er \in Seq(Byte), NEW pe \in Seq(Seq(Byte)), Len(pe) <= 2
  PROVE  FlujoDe(ll, er, pe) \in Seq(Byte) /\ Len(ll) <= Len(FlujoDe(ll, er, pe))
  <1> DEFINE re == RestoDe(pe)
  <1>1. re \in Seq(Byte)
    BY RestoEsBytes
  <1> HIDE DEF re
  <1>2. ll \o er \in Seq(Byte) /\ Len(ll \o er) = Len(ll) + Len(er)
        /\ Len(ll) \in Nat /\ Len(er) \in Nat
    BY Unir, Zenon
  <1>3. (ll \o er) \o re \in Seq(Byte) /\ Len((ll \o er) \o re) = Len(ll \o er) + Len(re)
        /\ Len(re) \in Nat
    BY <1>1, <1>2, Unir, Zenon
  <1>4. Len(ll) <= Len((ll \o er) \o re)
    BY <1>2, <1>3
  <1> QED BY <1>3, <1>4 DEF FlujoDe, re

LEMMA FlujoAlEntregar ==
  ASSUME NEW ll \in Seq(Byte), NEW er \in Seq(Byte), NEW pe, NEW n \in 1..Len(er)
  PROVE  FlujoDe(ll \o SubSeq(er, 1, n), SubSeq(er, n + 1, Len(er)), pe) = FlujoDe(ll, er, pe)
  <1> DEFINE a == SubSeq(er, 1, n)
             b == SubSeq(er, n + 1, Len(er))
  <1>1. a \in Seq(Byte) /\ b \in Seq(Byte)
    OBVIOUS
  <1>2. a \o b = er
    <2>1. a \o b = SubSeq(er, 1, Len(er))
      <3>1. /\ Len(er) \in Nat /\ 1 \in 1..(Len(er) + 1)
            /\ n \in (1 - 1)..Len(er) /\ Len(er) \in n..Len(er)
        BY LenProperties
      <3> QED BY <3>1, ConcatAdjacentSubSeq
    <2> QED BY <2>1, SubSeqFull
  <1> HIDE DEF a, b
  <1>3. (ll \o a) \o b = ll \o er
    BY <1>1, <1>2, Asociar
  <1> QED BY <1>3 DEF FlujoDe, a, b

LEMMA FlujoAlEnviar ==
  ASSUME NEW ll \in Seq(Byte), NEW er \in Seq(Byte), NEW pe \in Seq(Seq(Byte)),
         Len(pe) <= 2, pe # <<>>
  PROVE  FlujoDe(ll, er \o Head(pe), Tail(pe)) = FlujoDe(ll, er, pe)
  <1> DEFINE h == Head(pe)
             t == Tail(pe)
  <1>0. /\ h \in Seq(Byte) /\ t \in Seq(Seq(Byte)) /\ Len(t) = Len(pe) - 1 /\ h = pe[1]
        /\ \A i \in 1..Len(t) : t[i] = pe[i + 1]
    BY HeadTailProperties
  <1>1. (Len(pe) = 1 /\ Len(t) = 0) \/ (Len(pe) = 2 /\ Len(t) = 1)
    <2> DEFINE n == Len(pe)
               m == Len(t)
    <2>1. n \in Nat /\ n # 0 /\ n <= 2 /\ m = n - 1
      BY <1>0, EmptySeq, LenProperties
    <2> HIDE DEF n, m
    <2>2. (n = 1 /\ m = 0) \/ (n = 2 /\ m = 1)
      BY <2>1
    <2> QED BY <2>2 DEF n, m
  <1> HIDE DEF h, t
  <1>2. RestoDe(t) \in Seq(Byte)
    BY <1>0, <1>1, RestoEsBytes
  <1>3. h \o RestoDe(t) = RestoDe(pe)
    <2>1. CASE Len(pe) = 1 /\ Len(t) = 0
      <3>1. RestoDe(t) = <<>> /\ RestoDe(pe) = h
        BY <1>0, <2>1 DEF RestoDe
      <3> QED BY <1>0, <3>1, ConcatEmptySeq
    <2>2. CASE Len(pe) = 2 /\ Len(t) = 1
      <3>1. t[1] = pe[2]
        <4>1. 1 \in 1..Len(t) /\ 1 + 1 = 2
          BY <2>2
        <4> QED BY <1>0, <4>1
      <3> QED BY <1>0, <2>2, <3>1 DEF RestoDe
    <2> QED BY <1>1, <2>1, <2>2
  <1> DEFINE re == RestoDe(t)
  <1> HIDE DEF h, t, re
  <1>4. (ll \o (er \o h)) \o re = (ll \o er) \o (h \o re)
    <2>0. re \in Seq(Byte)
      BY <1>2 DEF re
    <2>1. ll \o er \in Seq(Byte) /\ (ll \o er) \o h = ll \o (er \o h)
      <3>1. h \in Seq(Byte)
        BY <1>0
      <3>2. ll \o er \in Seq(Byte)
        BY Unir, Zenon
      <3>3. (ll \o er) \o h = ll \o (er \o h)
        BY <3>1, Asociar, Zenon
      <3> QED BY <3>2, <3>3
    <2>2. ((ll \o er) \o h) \o re = (ll \o er) \o (h \o re)
      BY <1>0, <2>0, <2>1, Asociar, Zenon
    <2> QED BY <2>1, <2>2, Zenon
  <1> QED BY <1>3, <1>4, Zenon DEF FlujoDe, h, t, re

LEMMA FlujoAlEmpezar ==
  ASSUME NEW ll \in Seq(Byte), NEW er \in Seq(Byte), NEW e \in Mandables
  PROVE  FlujoDe(ll, er, Envios(e[1], e[2])) = FlujoDe(ll, er, <<>>) \o Trama(e)
  <1>1. RestoDe(<<>>) = <<>>
    <2>1. Len(<<>>) = 0
      BY EmptySeq
    <2> QED BY <2>1 DEF RestoDe
  <1>2. ll \o er \in Seq(Byte)
    BY Unir, Zenon
  <1>3. (ll \o er) \o <<>> = ll \o er
    BY <1>2, ConcatEmptySeq
  <1> QED BY <1>1, <1>3, EnviosSonTrama, Zenon DEF FlujoDe

LEMMA FlujoAlLeer ==
  ASSUME NEW ll \in Seq(Byte), NEW er \in Seq(Byte), NEW pe \in Seq(Seq(Byte)), Len(pe) <= 2,
         NEW p \in Nat, p <= Len(ll)
  PROVE  LET B == FlujoDe(ll, er, pe) IN
         /\ SubSeq(ll, 1, p) = SubSeq(B, 1, p)
         /\ FlujoDe(SubSeq(ll, p + 1, Len(ll)), er, pe) = SubSeq(B, p + 1, Len(B))
  <1> DEFINE re == RestoDe(pe)
             B == (ll \o er) \o re
             x == SubSeq(ll, 1, p)
             y == SubSeq(ll, p + 1, Len(ll))
  <1>1. re \in Seq(Byte)
    BY RestoEsBytes
  <1>2. /\ x \in Seq(Byte) /\ Len(x) = p /\ y \in Seq(Byte) /\ x \o y = ll /\ Len(ll) \in Nat
    <2>1. Len(ll) \in Nat
      BY LenProperties
    <2>2. x \in Seq(Byte) /\ Len(x) = p /\ y \in Seq(Byte)
      BY <2>1
    <2>3. /\ 1 \in 1..(Len(ll) + 1) /\ p \in (1 - 1)..Len(ll) /\ Len(ll) \in p..Len(ll)
      BY <2>1
    <2>4. x \o y = SubSeq(ll, 1, Len(ll))
      BY <2>3, ConcatAdjacentSubSeq
    <2> QED BY <2>1, <2>2, <2>4, SubSeqFull
  <1>3. FlujoDe(ll, er, pe) = B /\ FlujoDe(y, er, pe) = (y \o er) \o re
    BY DEF FlujoDe
  <1> HIDE DEF re, x, y
  <1> DEFINE z == (y \o er) \o re
  <1>4. y \o er \in Seq(Byte) /\ z \in Seq(Byte)
    BY <1>1, <1>2, Unir, Zenon
  <1>5. B = x \o z
    <2>1. (x \o y) \o er = x \o (y \o er)
      BY <1>2, Asociar, Zenon
    <2>2. (x \o (y \o er)) \o re = x \o z
      <3>1. x \in Seq(Byte) /\ y \o er \in Seq(Byte) /\ re \in Seq(Byte)
        BY <1>1, <1>2, <1>4
      <3> HIDE DEF z
      <3>2. (x \o (y \o er)) \o re = x \o ((y \o er) \o re)
        BY <3>1, Asociar, Zenon
      <3> QED BY <3>2, Zenon DEF z
    <2> QED BY <1>2, <2>1, <2>2, Zenon
  <1> HIDE DEF B, z
  <1>6. Len(B) = Len(x) + Len(z)
    BY <1>2, <1>4, <1>5, Unir, Zenon
  <1>7. SubSeq(B, 1, Len(x)) = x /\ SubSeq(B, Len(x) + 1, Len(x) + Len(z)) = z
    BY <1>2, <1>4, <1>5, Partir, Zenon
  <1> QED BY <1>2, <1>3, <1>6, <1>7, Zenon DEF x, y, z
-----------------------------------------------------------------------------
(* The invariant, conjunct by conjunct.                                    *)
LEMMA InitIInv == Init => IInv
  <1> SUFFICES ASSUME Init PROVE IInv
    OBVIOUS
  <1>1. TypeOK
    <2>1. \A S : <<>> \in Seq(S)
      OBVIOUS
    <2>2. lector \in EnRecv \union {"hilo"}
      BY DEF Init, Inicio, EnRecv, SinEspera
    <2> QED BY <2>1, <2>2 DEF Init, TypeOK
  <1>2. Historia
    BY DEF Init, Historia
  <1>3. Sitio
    BY DEF Init, Inicio, Sitio, EnOperacion
  <1>4. Recibido
    <2>1. Len(recibidos) = 0 /\ Len(enviados) = 0 /\ recibidos = SubSeq(enviados, 1, Len(recibidos))
      BY DEF Init
    <2> QED BY <2>1 DEF Init, Inicio, Recibido
  <1>5. AlDia
    <2>1. Flujo = <<>>
      <3>1. Len(<<>>) = 0 /\ <<>> \o <<>> \o <<>> = <<>>
        OBVIOUS
      <3> QED BY <3>1 DEF Init, Flujo, FlujoDe, RestoDe
    <2>2. Avance = 0 /\ lector \notin EnCuerpo /\ lector # "valores"
      BY DEF Init, Inicio, Avance, EnCuerpo
    <2>3. Len(recibidos) = 0 /\ enviados = <<>>
      BY DEF Init
    <2>4. EnPaso(Flujo, Len(recibidos), Avance, enviados)
      BY <2>1, <2>2, <2>3, EnPasoAlEmpezar, Zenon
    <2> QED BY <2>2, <2>4 DEF AlDia, Vuelta
  <1> QED BY <1>1, <1>2, <1>3, <1>4, <1>5 DEF IInv

LEMMA PasoSitio == Sitio /\ TypeOK /\ [Next]_vars => Sitio'
  <1> SUFFICES ASSUME Sitio, TypeOK, [Next]_vars PROVE Sitio'
    OBVIOUS
  <1> USE DEF EnOperacion
  <1>1. CASE UNCHANGED vars
    BY <1>1 DEF vars, Sitio
  <1>2. CASE Emisor \/ Entregar
    BY <1>2 DEF Emisor, Empezar, Enviar, Cerrar, Entregar, Sitio
  <1>3. CASE LeerLargo
    BY <1>3 DEF LeerLargo, Leer, Sitio
  <1>4. CASE LeerOperacion \/ LeerOperacionPcb
    BY <1>4 DEF LeerOperacion, LeerOperacionPcb, Leer, Sitio
  <1>5. CASE LeerCuerpo
    BY <1>5 DEF LeerCuerpo, Recibir, Leer, TrasMensaje, Sitio
  <1>6. CASE LeerPath \/ LeerPcb \/ LeerPaquete
    BY <1>6 DEF LeerPath, LeerPcb, LeerPaquete, Recibir, Leer, Sitio
  <1>7. CASE SiguienteValor \/ DevolverValores
    BY <1>7 DEF SiguienteValor, DevolverValores, Sitio
  <1>8. CASE LeerParcial
    BY <1>8 DEF LeerParcial, Parcial, SinEspera, Sitio
  <1>9. CASE LeerCierre
    BY <1>9 DEF LeerCierre, TrasCierre, Sitio
  <1>10. CASE HiloSinLogger \/ EscucharMal
    BY <1>10 DEF HiloSinLogger, EscucharMal, Sitio
  <1> QED BY <1>1, <1>2, <1>3, <1>4, <1>5, <1>6, <1>7, <1>8, <1>9, <1>10 DEF Next, Receptor

LEMMA TipoEsClase == canal \in Canales => \A n : Tipo(n) \in Clases
  BY DEF Canales, Tipo, Clases

LEMMA PasoHistoria == Historia /\ TypeOK /\ [Next]_vars => Historia'
  <1> SUFFICES ASSUME Historia, TypeOK, [Next]_vars PROVE Historia'
    OBVIOUS
  <1>1. CASE Empezar
    <2> DEFINE t == Tipo(Len(enviados) + 1)
    <2>1. PICK v \in Valores(t) : /\ porEnviar' = Envios(t, v)
                                  /\ enviados' = Append(enviados, <<t, v>>)
      BY <1>1 DEF Empezar
    <2> DEFINE e == <<t, v>>
    <2>2. e \in Mandables /\ e[1] = t /\ e[2] = v
      BY TipoEsClase DEF Mandables, TypeOK
    <2>3. Len(Envios(e[1], e[2])) \in {1, 2}
      BY <2>2, EnviosSonTrama
    <2>4. Len(porEnviar') <= 2
      <3>1. porEnviar' = Envios(e[1], e[2])
        BY <2>1, <2>2
      <3>2. Len(porEnviar') \in {1, 2}
        BY <2>3, <3>1, Zenon
      <3>3. \A n \in {1, 2} : n <= 2
        OBVIOUS
      <3> QED BY <3>2, <3>3, Zenon
    <2>5. enviados \in Seq(Mandables) /\ Len(enviados) \in Nat
      BY LenProperties DEF Historia
    <2>6. canal' = canal /\ \A n : Tipo(n)' = Tipo(n)
      BY <1>1 DEF Empezar, Tipo
    <2> HIDE DEF e, t
    <2>7. enviados' \in Seq(Mandables) /\ Len(enviados') = Len(enviados) + 1
          /\ enviados'[Len(enviados) + 1] = e
          /\ \A n \in 1..Len(enviados) : enviados'[n] = enviados[n]
      BY <2>1, <2>2, <2>5, AppendProperties DEF e
    <2>8. \A n \in 1..Len(enviados') : enviados'[n][1] = Tipo(n)
      BY <2>2, <2>5, <2>7 DEF Historia, t
    <2> QED BY <2>4, <2>6, <2>7, <2>8 DEF Historia
  <1>2. CASE Enviar
    <2>1. porEnviar \in Seq(Seq(Byte)) /\ porEnviar # <<>> /\ porEnviar' = Tail(porEnviar)
          /\ UNCHANGED <<canal, enviados>>
      BY <1>2 DEF Enviar, TypeOK
    <2>2. Len(porEnviar') = Len(porEnviar) - 1 /\ Len(porEnviar) \in Nat
      BY <2>1, HeadTailProperties, LenProperties
    <2>3. Len(porEnviar') <= 2
      BY <2>2 DEF Historia
    <2> QED BY <2>1, <2>3 DEF Historia, Tipo
  <1>3. CASE UNCHANGED <<canal, porEnviar, enviados>>
    BY <1>3 DEF Historia, Tipo
  <1>4. Receptor \/ Cerrar \/ Entregar \/ EscucharMal => UNCHANGED <<canal, porEnviar, enviados>>
    BY DEF Receptor, Cerrar, Entregar, EscucharMal, LeerLargo, LeerOperacion, LeerOperacionPcb,
           LeerCuerpo, LeerPath, LeerPcb, LeerPaquete, SiguienteValor, DevolverValores,
           LeerParcial, LeerCierre, HiloSinLogger, Recibir, Leer
  <1> QED BY <1>1, <1>2, <1>3, <1>4 DEF Next, Emisor, vars
-----------------------------------------------------------------------------
(* What a recv that is complete takes: the first bytes on their way, and   *)
(* leaves the others.                                                      *)
LEMMA PedidoEsNat == TypeOK => Pedido \in Nat
  BY DEF TypeOK, Pedido

LEMMA LoQueSeLee ==
  ASSUME TypeOK, Len(porEnviar) <= 2, NEW luego, Leer(luego)
  PROVE  /\ Flujo \in Seq(Byte) /\ Pedido \in Nat /\ Pedido <= Len(Flujo)
         /\ Bytes = SubSeq(Flujo, 1, Pedido)
         /\ Bytes \in Seq(Byte) /\ Len(Bytes) = Pedido
         /\ llegado' \in Seq(Byte)
         /\ Flujo' = SubSeq(Flujo, Pedido + 1, Len(Flujo))
  <1> DEFINE p == Pedido
             x == SubSeq(llegado, 1, p)
             y == SubSeq(llegado, p + 1, Len(llegado))
  <1>1. llegado \in Seq(Byte) /\ enRed \in Seq(Byte) /\ porEnviar \in Seq(Seq(Byte))
    BY DEF TypeOK
  <1>2. p \in Nat /\ p <= Len(llegado) /\ Len(llegado) \in Nat
    <2>1. Len(llegado) >= Pedido
      BY DEF Leer, Completo
    <2>2. Len(llegado) \in Nat /\ Pedido \in Nat
      BY <1>1, PedidoEsNat, LenProperties
    <2> HIDE DEF p
    <2> QED BY <2>1, <2>2 DEF p
  <1>3. llegado' = y /\ UNCHANGED <<enRed, porEnviar>>
    BY DEF Leer
  <1>4. Flujo' = FlujoDe(y, enRed, porEnviar)
    BY <1>3 DEF Flujo
  <1>5. Bytes = x
    BY DEF Bytes
  <1> HIDE DEF p
  <1>6. x \in Seq(Byte) /\ Len(x) = p /\ y \in Seq(Byte)
    BY <1>1, <1>2
  <1>7. /\ Flujo \in Seq(Byte) /\ Len(llegado) <= Len(Flujo)
    BY <1>1, FlujoEsBytes DEF Flujo
  <1>8. p <= Len(Flujo)
    <2>1. Len(Flujo) \in Nat
      BY <1>7, LenProperties
    <2> QED BY <1>2, <1>7, <2>1
  <1>9. x = SubSeq(Flujo, 1, p)
        /\ FlujoDe(y, enRed, porEnviar) = SubSeq(Flujo, p + 1, Len(Flujo))
    BY <1>1, <1>2, FlujoAlLeer DEF Flujo
  <1> HIDE DEF x, y
  <1> QED BY <1>2, <1>3, <1>4, <1>5, <1>6, <1>7, <1>8, <1>9 DEF p

(* Which reads there are. *)
LEMMA LeerCambia ==
  ASSUME LeerLargo \/ LeerOperacion \/ LeerOperacionPcb \/ LeerCuerpo \/ LeerPath
         \/ LeerPaquete \/ LeerPcb
  PROVE  \E luego : Leer(luego)
  BY Zenon DEF LeerLargo, LeerOperacion, LeerOperacionPcb, LeerCuerpo, LeerPath, LeerPaquete,
               LeerPcb, Recibir

Lugares == EnRecv \union {"hilo", "valores", "escucha", "perdido", "corto", "fin", "muerto"}

LEMMA LugarSiguiente ==
  ASSUME TypeOK, LeerLargo \/ LeerOperacion \/ LeerOperacionPcb \/ LeerCuerpo \/ LeerPath
                 \/ LeerPaquete \/ LeerPcb
  PROVE  lector' \in Lugares
  <1> USE DEF Lugares, EnRecv, SinEspera
  <1>1. CASE LeerLargo
    BY <1>1 DEF LeerLargo, Leer
  <1>2. CASE LeerOperacion \/ LeerOperacionPcb
    BY <1>2 DEF LeerOperacion, LeerOperacionPcb, Leer
  <1>3. CASE LeerCuerpo
    BY <1>3 DEF LeerCuerpo, Recibir, Leer, TrasMensaje
  <1>4. CASE LeerPath \/ LeerPaquete \/ LeerPcb
    BY <1>4 DEF LeerPath, LeerPaquete, LeerPcb, Recibir, Leer
  <1> QED BY <1>1, <1>2, <1>3, <1>4
-----------------------------------------------------------------------------
(* What a turn of recibir_paquete takes from the body: a length and the    *)
(* bytes of a value.                                                       *)
TamanioEn(b, d) == Valor(SubSeq(b, d + 1, d + 4))
ValorEn(b, d)   == SubSeq(b, d + 5, d + 4 + TamanioEn(b, d))

(* At the value after k, recibir_paquete takes it; after the fourth it     *)
(* returns them all.                                                       *)
LEMMA UnaVuelta ==
  ASSUME NEW l \in Instrucciones, NEW d, NEW vs, NEW b, b = StreamDe(l), EnVuelta(l, d, vs)
  PROVE  /\ d < Len(b) => /\ EnVuelta(l, d + 4 + TamanioEn(b, d), Append(vs, ValorEn(b, d)))
                          /\ TamanioEn(b, d) \in Nat /\ ValorEn(b, d) \in Seq(Byte)
         /\ d >= Len(b) => vs = l
  <1>0. PICK k \in 0..4 : d = Len(Parte(l, k)) /\ vs = SubSeq(l, 1, k)
    BY DEF EnVuelta
  <1> DEFINE n == TamanioEn(b, d)
             v == ValorEn(b, d)
  <1>1. l \in Seq(Seq(Byte)) /\ Len(l) = 4
    BY InstruccionEsBytes
  <1>2. CASE k = 4
    <2>1. d = Len(b) /\ d \in Nat
      <3>1. Parte(l, 4) = StreamDe(l) /\ Len(Parte(l, k)) \in Nat
        BY PartesDeStream, LargosDePartes
      <3> QED BY <1>0, <1>2, <3>1
    <2>2. vs = l
      BY <1>0, <1>1, <1>2, SubSeqFull
    <2>3. ~(d < Len(b))
      <3> DEFINE e == Len(b)
      <3>1. d = e /\ d \in Nat
        BY <2>1
      <3> HIDE DEF e
      <3>2. ~(d < e)
        BY <3>1
      <3> QED BY <3>2 DEF e
    <2> HIDE DEF n, v
    <2> QED BY <2>2, <2>3 DEF n, v
  <1>3. CASE k \in 0..3
    <2>1. d < Len(b) /\ d \in Nat /\ Len(b) \in Nat
      <3>1. Len(Parte(l, k)) < Len(StreamDe(l))
        BY <1>3, LargosDePartes
      <3>2. StreamDe(l) \in Seq(Byte) /\ Len(Parte(l, k)) \in Nat
        <4>1. 4 \in 0..4
          OBVIOUS
        <4> QED BY <4>1, LargosDePartes, PartesDeStream, Zenon
      <3> QED BY <1>0, <3>1, <3>2, LenProperties
    <2>2. /\ n = Len(l[k + 1])
          /\ SubSeq(b, d + 5, d + 4 + Len(l[k + 1])) = l[k + 1]
          /\ d + 4 + Len(l[k + 1]) = Len(Parte(l, k + 1))
      BY <1>0, <1>3, ValorDelStream DEF TamanioEn
    <2>a. v = SubSeq(b, d + 5, d + 4 + n)
      BY DEF ValorEn
    <2> HIDE DEF n, v
    <2>3. v = l[k + 1] /\ d + 4 + n = Len(Parte(l, k + 1))
      BY <2>2, <2>a, Zenon
    <2>4. k + 1 \in 1..4 /\ k + 1 \in 0..4
      BY <1>3
    <2>5. l[k + 1] \in Seq(Byte) /\ Len(l[k + 1]) \in Nat
      BY <2>4, InstruccionEsBytes, Zenon
    <2>6. Append(SubSeq(l, 1, k), l[k + 1]) = SubSeq(l, 1, k + 1)
      <3>1. \A T, q, i : q \in Seq(T) /\ i \in 0..(Len(q) - 1) =>
              Append(SubSeq(q, 1, i), q[i + 1]) = SubSeq(q, 1, i + 1)
        OBVIOUS
      <3>2. k \in 0..(Len(l) - 1)
        BY <1>1, <1>3
      <3> QED BY <1>1, <3>1, <3>2, Zenon
    <2>7. ~(d >= Len(b))
      <3> DEFINE e == Len(b)
      <3>1. d < e /\ d \in Nat /\ e \in Nat
        BY <2>1
      <3> HIDE DEF e
      <3>2. ~(d >= e)
        BY <3>1
      <3> QED BY <3>2 DEF e
    <2>8. n \in Nat /\ v \in Seq(Byte) /\ Append(vs, v) = SubSeq(l, 1, k + 1)
      BY <1>0, <2>2, <2>3, <2>5, <2>6, Zenon
    <2>9. EnVuelta(l, d + 4 + n, Append(vs, v))
      BY <2>3, <2>4, <2>8, Zenon DEF EnVuelta
    <2> QED BY <2>7, <2>8, <2>9, Zenon DEF n, v
  <1>4. k = 4 \/ k \in 0..3
    OBVIOUS
  <1> HIDE DEF n, v
  <1> QED BY <1>2, <1>3, <1>4, Zenon
-----------------------------------------------------------------------------
(* The kind of what the receiver is reading. *)
Esperado ==
  CASE lector \in {"plen", "ptexto"} -> "path"
    [] lector \in {"pcbop", "pcbtam", "pcbcuerpo"} -> "pcb"
    [] lector = "valores" -> "paquete"
    [] lector \in EnOperacion /\ canal = "paquete" -> "paquete"
    [] OTHER -> "mensaje"

LEMMA ClaseDePendiente ==
  ASSUME TypeOK, Historia, Sitio, Recibido, Len(recibidos) < Len(enviados),
         lector \in EnRecv \union {"valores"}
  PROVE  /\ enviados \in Seq(Mandables) /\ Len(recibidos) \in 0..Len(enviados)
         /\ Pendiente \in Mandables /\ Pendiente[1] = Esperado
         /\ Pendiente = <<Esperado, Pendiente[2]>>
  <1> DEFINE r == Len(recibidos)
  <1>1. enviados \in Seq(Mandables) /\ r \in 0..Len(enviados) /\ Len(enviados) \in Nat
    BY LenProperties DEF Historia, Recibido
  <1>2. r + 1 \in 1..Len(enviados)
    <2> DEFINE m == Len(enviados)
    <2>1. m \in Nat /\ r \in 0..m /\ r < m
      BY <1>1
    <2> HIDE DEF r, m
    <2>2. r + 1 \in 1..m
      BY <2>1
    <2> QED BY <2>2 DEF m
  <1>3. Pendiente \in Mandables
    BY <1>1, <1>2, ElementOfSeq DEF Pendiente
  <1>4. Pendiente[1] = Tipo(r + 1)
    BY <1>2 DEF Historia, Pendiente
  <1>5. r \in Nat /\ (r >= 1 => r + 1 > 1) /\ (r = 0 => ~(r + 1 > 1))
    <2>1. r \in Nat
      BY <1>1
    <2> HIDE DEF r
    <2> QED BY <2>1
  <1>6. Tipo(r + 1) = Esperado
    <2>1. CASE lector \in {"plen", "ptexto"}
      <3>1. canal = "rutas" /\ r + 1 > 1
        BY <1>5, <2>1 DEF Sitio, Recibido
      <3> HIDE DEF r
      <3> QED BY <2>1, <3>1 DEF Tipo, Esperado
    <2>2. CASE lector \in {"pcbop", "pcbtam", "pcbcuerpo"}
      <3>1. canal = "pcb"
        BY <2>2 DEF Sitio
      <3> HIDE DEF r
      <3> QED BY <2>2, <3>1 DEF Tipo, Esperado
    <2>3. CASE lector = "valores"
      <3>1. canal = "paquete"
        BY <2>3 DEF Sitio
      <3> HIDE DEF r
      <3> QED BY <2>3, <3>1 DEF Tipo, Esperado
    <2>4. CASE lector \in EnOperacion
      <3>1. canal \in {"rutas", "dispatch"} => ~(r + 1 > 1)
        BY <1>5, <2>4 DEF Recibido
      <3>2. canal \notin {"operacion", "pcb"} /\ canal \in Canales
        BY <2>4 DEF Sitio, TypeOK
      <3> HIDE DEF r
      <3> QED BY <2>4, <3>1, <3>2 DEF Tipo, Esperado, Canales, EnOperacion
    <2> QED BY <2>1, <2>2, <2>3, <2>4 DEF EnRecv, SinEspera, EnOperacion
  <1>7. Pendiente = <<Pendiente[1], Pendiente[2]>>
    BY <1>3, MandableEsPar
  <1> QED BY <1>1, <1>3, <1>4, <1>6, <1>7

LEMMA PasoTipos == IInv /\ [Next]_vars => TypeOK'
  <1> SUFFICES ASSUME IInv, [Next]_vars PROVE TypeOK'
    OBVIOUS
  <1>0. /\ TypeOK /\ Historia /\ Sitio
        /\ canal \in Canales
        /\ porEnviar \in Seq(Seq(Byte)) /\ enRed \in Seq(Byte) /\ llegado \in Seq(Byte)
        /\ cerrado \in BOOLEAN
        /\ lector \in Lugares
        /\ tam \in Nat /\ desplazamiento \in Nat
        /\ buffer \in Seq(Byte) /\ valores \in Seq(Seq(Byte))
        /\ Len(porEnviar) <= 2
    BY DEF IInv, TypeOK, Lugares, Historia
  <1>1. CASE UNCHANGED vars
    BY <1>0, <1>1 DEF vars, paquete, TypeOK
  <1>2. CASE Empezar
    <2> DEFINE t == Tipo(Len(enviados) + 1)
    <2>1. PICK v \in Valores(t) : porEnviar' = Envios(t, v)
      BY <1>2 DEF Empezar
    <2> DEFINE e == <<t, v>>
    <2>2. e \in Mandables /\ e[1] = t /\ e[2] = v
      BY <1>0, TipoEsClase DEF Mandables
    <2>3. porEnviar' = Envios(e[1], e[2])
      BY <2>1, <2>2
    <2>4. porEnviar' \in Seq(Seq(Byte))
      BY <2>2, <2>3, EnviosSonTrama, Zenon
    <2> QED BY <1>0, <1>2, <2>4 DEF Empezar, paquete, TypeOK, Lugares
  <1>3. CASE Enviar
    <2>1. Head(porEnviar) \in Seq(Byte) /\ Tail(porEnviar) \in Seq(Seq(Byte))
      BY <1>0, <1>3, HeadTailProperties DEF Enviar
    <2>2. enRed \o Head(porEnviar) \in Seq(Byte)
      BY <1>0, <2>1, Unir, Zenon
    <2> QED BY <1>0, <1>3, <2>1, <2>2 DEF Enviar, paquete, TypeOK, Lugares
  <1>4. CASE Cerrar
    BY <1>0, <1>4 DEF Cerrar, paquete, TypeOK, Lugares
  <1>5. CASE Entregar
    <2>1. PICK n \in Cortes : /\ llegado' = llegado \o SubSeq(enRed, 1, n)
                              /\ enRed' = SubSeq(enRed, n + 1, Len(enRed))
      BY <1>5 DEF Entregar
    <2>2. n \in 1..Len(enRed)
      BY DEF Cortes
    <2>3. SubSeq(enRed, 1, n) \in Seq(Byte) /\ SubSeq(enRed, n + 1, Len(enRed)) \in Seq(Byte)
      BY <1>0, <2>2
    <2>4. llegado' \in Seq(Byte) /\ enRed' \in Seq(Byte)
      BY <1>0, <2>1, <2>3, Unir, Zenon
    <2> QED BY <1>0, <1>5, <2>4 DEF Entregar, paquete, TypeOK, Lugares
  <1>6. CASE LeerLargo \/ LeerOperacion \/ LeerOperacionPcb \/ LeerCuerpo \/ LeerPath
             \/ LeerPaquete \/ LeerPcb
    <2>1. lector' \in Lugares
      BY <1>0, <1>6, LugarSiguiente, Zenon
    <2>2. PICK luego : Leer(luego)
      BY <1>6, LeerCambia, Zenon
    <2>3. llegado' \in Seq(Byte) /\ Bytes \in Seq(Byte) /\ Len(Bytes) = Pedido
      BY <1>0, <2>2, LoQueSeLee
    <2>4. UNCHANGED <<canal, porEnviar, enRed, cerrado>>
      BY <2>2 DEF Leer
    <2>5. CASE LeerLargo
      <3>1. lector \in {"size", "plen", "pcbtam"} /\ tam' = Valor(Bytes)
            /\ UNCHANGED paquete
        BY <2>5 DEF LeerLargo
      <3>2. Pedido = 4
        BY <3>1 DEF Pedido
      <3>3. tam' \in Nat
        BY <2>3, <3>1, <3>2, ValorEsNat
      <3> QED BY <1>0, <2>1, <2>3, <2>4, <3>1, <3>3 DEF paquete, TypeOK, Lugares
    <2>6. CASE LeerPaquete
      <3>1. buffer' = Bytes /\ desplazamiento' = 0 /\ valores' = <<>> /\ tam' = tam
        BY <2>6 DEF LeerPaquete
      <3>2. <<>> \in Seq(Seq(Byte))
        OBVIOUS
      <3> QED BY <1>0, <2>1, <2>3, <2>4, <3>1, <3>2 DEF TypeOK, Lugares
    <2>7. CASE LeerOperacion \/ LeerOperacionPcb \/ LeerCuerpo \/ LeerPath \/ LeerPcb
      <3>1. UNCHANGED <<tam, paquete>>
        BY <2>7 DEF LeerOperacion, LeerOperacionPcb, LeerCuerpo, LeerPath, LeerPcb, Recibir
      <3> QED BY <1>0, <2>1, <2>3, <2>4, <3>1 DEF paquete, TypeOK, Lugares
    <2> QED BY <1>6, <2>5, <2>6, <2>7
  <1>7. CASE SiguienteValor
    <2>1. lector = "valores" /\ desplazamiento < Len(buffer)
      BY <1>7 DEF SiguienteValor
    <2>2. Recibido /\ AlDia
      BY DEF IInv
    <2>3. Len(recibidos) < Len(enviados) /\ buffer = Cuerpo(Pendiente)
      BY <2>1, <2>2 DEF AlDia, Vuelta, EnCuerpo
    <2>4. EnVuelta(Pendiente[2], desplazamiento, valores)
      BY <2>1, <2>2 DEF AlDia, Vuelta
    <2> DEFINE l == Pendiente[2]
    <2>5. Pendiente \in Mandables /\ Pendiente[1] = "paquete"
      BY <1>0, <2>1, <2>2, <2>3, ClaseDePendiente DEF Esperado
    <2>6. l \in Instrucciones /\ buffer = StreamDe(l)
      <3>1. l \in Valores("paquete")
        BY <2>5, MandableEsPar
      <3> QED BY <2>3, <2>5, <3>1 DEF Valores, Cuerpo
    <2> DEFINE n == TamanioEn(buffer, desplazamiento)
               v == ValorEn(buffer, desplazamiento)
    <2>7. n \in Nat /\ v \in Seq(Byte)
      <3>1. EnVuelta(l, desplazamiento, valores)
        BY <2>4
      <3> HIDE DEF l
      <3> QED BY <2>1, <2>6, <3>1, UnaVuelta, Zenon
    <2>8. /\ valores' = Append(valores, v) /\ desplazamiento' = desplazamiento + 4 + n
          /\ UNCHANGED <<canal, porEnviar, enRed, llegado, cerrado, lector, tam, buffer>>
      BY <1>7 DEF SiguienteValor, TamanioEn, ValorEn
    <2> HIDE DEF n, v
    <2>9. valores' \in Seq(Seq(Byte)) /\ desplazamiento' \in Nat
      BY <1>0, <2>7, <2>8
    <2> QED BY <1>0, <2>8, <2>9 DEF TypeOK, Lugares
  <1>8. CASE DevolverValores \/ HiloSinLogger \/ EscucharMal
    BY <1>0, <1>8 DEF DevolverValores, HiloSinLogger, EscucharMal, paquete, TypeOK, Lugares, EnRecv, SinEspera
  <1>9. CASE LeerParcial
    <2>1. llegado' = <<>> /\ lector' \in Lugares
      BY <1>9 DEF LeerParcial, Lugares
    <2>2. <<>> \in Seq(Byte)
      OBVIOUS
    <2> QED BY <1>0, <1>9, <2>1, <2>2 DEF LeerParcial, paquete, TypeOK, Lugares
  <1>10. CASE LeerCierre
    <2>1. llegado' = <<>> /\ lector' \in Lugares
      BY <1>10 DEF LeerCierre, TrasCierre, Lugares
    <2>2. <<>> \in Seq(Byte)
      OBVIOUS
    <2> QED BY <1>0, <1>10, <2>1, <2>2 DEF LeerCierre, paquete, TypeOK, Lugares
  <1> QED BY <1>1, <1>2, <1>3, <1>4, <1>5, <1>6, <1>7, <1>8, <1>9, <1>10
          DEF Next, Emisor, Receptor
-----------------------------------------------------------------------------
(* The sender and the network change neither what was received nor how     *)
(* far the receiver is.                                                    *)
LEMMA AlDiaConOtroPendiente ==
  ASSUME NEW e \in Mandables, enviados \in Seq(Mandables), Len(recibidos) \in 0..Len(enviados),
         Recibido, AlDia, enviados' = Append(enviados, e),
         UNCHANGED <<canal, lector, tam, paquete, recibidos>>,
         lector \in EnRecv \union {"valores"} =>
           EnPaso(Flujo', Len(recibidos), Avance, enviados')
  PROVE  Recibido' /\ AlDia'
  <1> DEFINE r == Len(recibidos)
             N == Len(enviados)
  <1>1. N \in Nat /\ r \in 0..N /\ r \in Nat
    BY LenProperties
  <1>2. /\ Len(enviados') = N + 1
        /\ \A n \in 1..N : enviados'[n] = enviados[n]
        /\ enviados' \in Seq(Mandables)
    BY AppendProperties
  <1>3. SubSeq(enviados', 1, r) = SubSeq(enviados, 1, r)
    <2>1. enviados' = enviados \o <<e>>
      BY AppendIsConcat
    <2>2. <<e>> \in Seq(Mandables)
      OBVIOUS
    <2> HIDE DEF r
    <2>3. 1 <= 1 /\ r <= Len(enviados) /\ 1 \in Nat
      BY <1>1
    <2>4. SubSeq(enviados \o <<e>>, 1, r) = SubSeq(enviados, 1, r)
      BY <1>1, <2>2, <2>3, Pelar
    <2> QED BY <2>1, <2>4
  <1>4. recibidos' = recibidos /\ lector' = lector /\ canal' = canal /\ tam' = tam
        /\ buffer' = buffer /\ desplazamiento' = desplazamiento /\ valores' = valores
    BY DEF paquete
  <1>5. r \in 0..Len(enviados')
    <2> HIDE DEF r, N
    <2> QED BY <1>1, <1>2
  <1>6. Recibido'
    BY <1>3, <1>4, <1>5 DEF Recibido
  <1>7. lector \in EnCuerpo => r < N
    BY DEF AlDia
  <1>8. r < N => r < Len(enviados') /\ Pendiente' = Pendiente
    <2> HIDE DEF N
    <2>1. r < N => r < Len(enviados') /\ r + 1 \in 1..N
      <3> HIDE DEF r
      <3> QED BY <1>1, <1>2
    <2> QED BY <1>2, <1>4, <2>1 DEF Pendiente
  <1>9. Avance' = Avance
    BY <1>4 DEF Avance
  <1>10. Vuelta'
    BY <1>4, <1>7, <1>8 DEF Vuelta, AlDia, EnCuerpo
  <1>11. lector \in EnCuerpo => r < Len(enviados') /\ tam = Len(Cuerpo(Pendiente'))
    BY <1>7, <1>8 DEF AlDia
  <1>12. lector \in EnRecv \union {"valores"} => EnPaso(Flujo', Len(recibidos'), Avance', enviados')
    BY <1>4, <1>9
  <1> QED BY <1>4, <1>6, <1>10, <1>11, <1>12 DEF AlDia

LEMMA AlDiaIgual ==
  ASSUME Recibido, AlDia, Flujo' = Flujo,
         UNCHANGED <<canal, lector, tam, paquete, enviados, recibidos>>
  PROVE  Recibido' /\ AlDia'
  <1>1. recibidos' = recibidos /\ lector' = lector /\ canal' = canal /\ tam' = tam
        /\ buffer' = buffer /\ desplazamiento' = desplazamiento /\ valores' = valores
        /\ enviados' = enviados
    BY DEF paquete
  <1>2. Recibido'
    BY <1>1 DEF Recibido
  <1>3. Avance' = Avance /\ Pendiente' = Pendiente
    BY <1>1 DEF Avance, Pendiente
  <1>4. Vuelta'
    BY <1>1, <1>3 DEF Vuelta, AlDia
  <1>5. lector' \in EnRecv \union {"valores"} => EnPaso(Flujo', Len(recibidos'), Avance', enviados')
    BY <1>1, <1>3 DEF AlDia
  <1>6. lector' \in EnCuerpo => Len(recibidos') < Len(enviados') /\ tam' = Len(Cuerpo(Pendiente'))
    BY <1>1, <1>3 DEF AlDia
  <1> QED BY <1>2, <1>4, <1>5, <1>6 DEF AlDia

LEMMA PasoEmisor ==
  ASSUME TypeOK, Historia, Recibido, AlDia, Emisor \/ Entregar
  PROVE  Recibido' /\ AlDia'
  <1>0. /\ llegado \in Seq(Byte) /\ enRed \in Seq(Byte) /\ porEnviar \in Seq(Seq(Byte))
        /\ Len(porEnviar) <= 2 /\ enviados \in Seq(Mandables)
        /\ Len(recibidos) \in 0..Len(enviados)
    BY DEF TypeOK, Historia, Recibido
  <1>1. CASE Empezar
    <2> DEFINE t == Tipo(Len(enviados) + 1)
    <2>1. PICK v \in Valores(t) : porEnviar' = Envios(t, v)
                                  /\ enviados' = Append(enviados, <<t, v>>)
      BY <1>1 DEF Empezar
    <2> DEFINE e == <<t, v>>
    <2>2. e \in Mandables /\ e[1] = t /\ e[2] = v
      BY TipoEsClase DEF Mandables, TypeOK
    <2>3. porEnviar' = Envios(e[1], e[2]) /\ enviados' = Append(enviados, e)
      BY <2>1, <2>2
    <2>4. porEnviar = <<>> /\ UNCHANGED <<canal, enRed, llegado, lector, tam, paquete, recibidos>>
      BY <1>1 DEF Empezar
    <2> HIDE DEF e
    <2>5. Flujo' = Flujo \o Trama(e) /\ Flujo \in Seq(Byte)
      <3>1. Flujo' = FlujoDe(llegado, enRed, Envios(e[1], e[2]))
        BY <2>3, <2>4 DEF Flujo
      <3>2. Flujo = FlujoDe(llegado, enRed, <<>>)
        BY <2>4 DEF Flujo
      <3>3. Flujo \in Seq(Byte)
        BY <1>0, FlujoEsBytes DEF Flujo
      <3> QED BY <1>0, <2>2, <3>1, <3>2, <3>3, FlujoAlEmpezar, Zenon
    <2>6. Avance \in Nat
      BY DEF Avance, TypeOK
    <2>7. lector \in EnRecv \union {"valores"} =>
            EnPaso(Flujo', Len(recibidos), Avance, enviados')
      <3> HIDE DEF Avance
      <3> SUFFICES ASSUME EnPaso(Flujo, Len(recibidos), Avance, enviados)
                   PROVE  EnPaso(Flujo', Len(recibidos), Avance, enviados')
        BY DEF AlDia
      <3>1. EnPaso(Flujo \o Trama(e), Len(recibidos), Avance, Append(enviados, e))
        BY <1>0, <2>2, <2>5, <2>6, EnPasoAlMandar, Zenon
      <3> QED BY <2>3, <2>5, <3>1, Zenon
    <2> QED BY <1>0, <2>2, <2>3, <2>4, <2>7, AlDiaConOtroPendiente
  <1>2. CASE Enviar
    <2>1. /\ porEnviar # <<>> /\ enRed' = enRed \o Head(porEnviar) /\ porEnviar' = Tail(porEnviar)
          /\ UNCHANGED <<canal, llegado, lector, tam, paquete, enviados, recibidos>>
      BY <1>2 DEF Enviar
    <2>2. Flujo' = FlujoDe(llegado, enRed \o Head(porEnviar), Tail(porEnviar))
      BY <2>1 DEF Flujo
    <2>3. Flujo' = Flujo
      BY <1>0, <2>1, <2>2, FlujoAlEnviar, Zenon DEF Flujo
    <2> QED BY <2>1, <2>3, AlDiaIgual
  <1>3. CASE Entregar
    <2>1. PICK n \in Cortes : /\ llegado' = llegado \o SubSeq(enRed, 1, n)
                              /\ enRed' = SubSeq(enRed, n + 1, Len(enRed))
      BY <1>3 DEF Entregar
    <2>2. n \in 1..Len(enRed)
      BY DEF Cortes
    <2>3. UNCHANGED <<canal, porEnviar, lector, tam, paquete, enviados, recibidos>>
      BY <1>3 DEF Entregar
    <2>4. Flujo' = FlujoDe(llegado \o SubSeq(enRed, 1, n), SubSeq(enRed, n + 1, Len(enRed)), porEnviar)
      BY <2>1, <2>3 DEF Flujo
    <2>5. Flujo' = Flujo
      BY <1>0, <2>2, <2>4, FlujoAlEntregar, Zenon DEF Flujo
    <2> QED BY <2>3, <2>5, AlDiaIgual
  <1>4. CASE Cerrar
    <2>1. UNCHANGED <<canal, porEnviar, enRed, llegado, lector, tam, paquete, enviados, recibidos>>
      BY <1>4 DEF Cerrar
    <2>2. Flujo' = Flujo
      BY <2>1 DEF Flujo
    <2> QED BY <2>1, <2>2, AlDiaIgual
  <1> QED BY <1>1, <1>2, <1>3, <1>4 DEF Emisor
-----------------------------------------------------------------------------
(* What a read takes is part of what was sent next.                        *)
LEMMA LeerEnPaso ==
  ASSUME TypeOK, Historia, Sitio, Recibido, AlDia, NEW luego, Leer(luego)
  PROVE  LET T == Trama(Pendiente)
             c == Cuerpo(Pendiente) IN
         /\ Len(recibidos) < Len(enviados) /\ Len(recibidos) \in 0..Len(enviados)
         /\ enviados \in Seq(Mandables)
         /\ Pendiente \in Mandables /\ Pendiente[1] = Esperado
         /\ Pendiente = <<Esperado, Pendiente[2]>>
         /\ Len(c) \in Nat /\ Len(T) = Cabeza(Esperado) + Len(c)
         /\ EnPaso(Flujo', Len(recibidos), Avance + Pedido, enviados)
         /\ Flujo' \in Seq(Byte)
         /\ Avance + Pedido <= Len(T) => Bytes = SubSeq(T, Avance + 1, Avance + Pedido)
  <1> DEFINE r == Len(recibidos)
             av == Avance
             p == Pedido
  <1>1. lector \in EnRecv
    BY DEF Leer, Completo
  <1>2. enviados \in Seq(Mandables) /\ r \in 0..Len(enviados)
    BY DEF Historia, Recibido
  <1>3. av \in Nat /\ p \in Nat /\ av + p > 0
    <2>1. tam \in Nat
      BY DEF TypeOK
    <2>2. CASE lector \in {"cuerpo", "ptexto", "pcbcuerpo"}
      <3>1. p = tam
        BY <2>2 DEF Pedido
      <3>2. av = 4 \/ av = 8 \/ av = 5
        BY <2>2 DEF Avance
      <3> HIDE DEF av, p
      <3> QED BY <2>1, <3>1, <3>2
    <2>3. CASE lector \in {"op", "size", "plen", "pcbop", "pcbtam"}
      <3>1. p = 1 \/ p = 4
        BY <2>3 DEF Pedido
      <3>2. av = 0 \/ av = 4 \/ av = 1
        BY <2>3 DEF Avance
      <3> HIDE DEF av, p
      <3> QED BY <3>1, <3>2
    <2> HIDE DEF av, p
    <2> QED BY <1>1, <2>2, <2>3 DEF EnRecv, SinEspera
  <1>4. /\ Flujo \in Seq(Byte) /\ p <= Len(Flujo)
        /\ Bytes = SubSeq(Flujo, 1, p)
        /\ Flujo' = SubSeq(Flujo, p + 1, Len(Flujo))
    BY LoQueSeLee DEF Historia
  <1>5. EnPaso(Flujo, r, av, enviados)
    BY <1>1 DEF AlDia
  <1>6. r < Len(enviados)
    <2> HIDE DEF r, av, p
    <2> QED BY <1>2, <1>3, <1>4, <1>5, EnPasoConAlgo, Zenon
  <1>7. Pendiente \in Mandables /\ Pendiente[1] = Esperado
        /\ Pendiente = <<Esperado, Pendiente[2]>>
    BY <1>1, <1>6, ClaseDePendiente
  <1>8. Len(Cuerpo(Pendiente)) \in Nat
        /\ Len(Trama(Pendiente)) = Cabeza(Esperado) + Len(Cuerpo(Pendiente))
    BY <1>7, TramaDeEnvio, CuerpoEsBytes
  <1>9. EnPaso(Flujo', r, av + p, enviados)
    <2> HIDE DEF r, av, p
    <2>1. EnPaso(SubSeq(Flujo, p + 1, Len(Flujo)), r, av + p, enviados)
      BY <1>2, <1>3, <1>4, <1>5, EnPasoAlLeer, Zenon
    <2> QED BY <1>4, <2>1, Zenon
  <1>10. av + p <= Len(Trama(Pendiente)) => Bytes = SubSeq(Trama(Pendiente), av + 1, av + p)
    <2>1. Pendiente = enviados[r + 1]
      BY DEF Pendiente
    <2> HIDE DEF r, av, p
    <2> SUFFICES ASSUME av + p <= Len(Trama(enviados[r + 1]))
                 PROVE  Bytes = SubSeq(Trama(enviados[r + 1]), av + 1, av + p)
      BY <2>1, Zenon
    <2>2. SubSeq(Flujo, 1, p) = SubSeq(Trama(enviados[r + 1]), av + 1, av + p)
      BY <1>2, <1>3, <1>4, <1>5, <1>6, EnPasoPrimeros, Zenon
    <2> QED BY <1>4, <2>2, Zenon
  <1>11. Flujo' \in Seq(Byte)
    <2> HIDE DEF p
    <2>1. Len(Flujo) \in Nat
      BY <1>4, LenProperties
    <2> QED BY <1>3, <1>4, <2>1
  <1> QED BY <1>2, <1>6, <1>7, <1>8, <1>9, <1>10, <1>11

(* The receiver goes on with the same send, a header read further.         *)
LEMMA AlDiaEnCabeza ==
  ASSUME Recibido, EnPaso(Flujo', Len(recibidos), Avance', enviados),
         UNCHANGED <<canal, enviados, recibidos>>,
         lector' \in EnOperacion => lector \in EnOperacion,
         lector' \in {"plen", "ptexto"} => lector \in {"plen", "ptexto"},
         lector' # "valores",
         lector' \in EnCuerpo => Len(recibidos) < Len(enviados) /\ tam' = Len(Cuerpo(Pendiente))
  PROVE  Recibido' /\ AlDia'
  <1>1. Recibido'
    BY DEF Recibido
  <1>2. Vuelta'
    BY DEF Vuelta
  <1>3. Pendiente' = Pendiente
    BY DEF Pendiente
  <1>4. EnPaso(Flujo', Len(recibidos'), Avance', enviados')
    OBVIOUS
  <1> QED BY <1>1, <1>2, <1>3, <1>4 DEF AlDia

LEMMA PasoLargo ==
  ASSUME TypeOK, Historia, Sitio, Recibido, AlDia, LeerLargo
  PROVE  Recibido' /\ AlDia'
  <1>1. PICK paso \in {<<"size", "cuerpo">>, <<"plen", "ptexto">>, <<"pcbtam", "pcbcuerpo">>} :
          /\ lector = paso[1] /\ Leer(paso[2]) /\ tam' = Valor(Bytes)
          /\ UNCHANGED <<paquete, recibidos>>
    BY DEF LeerLargo
  <1> DEFINE c == Cuerpo(Pendiente)
             T == Trama(Pendiente)
  <1>2. /\ Len(recibidos) < Len(enviados)
        /\ Pendiente \in Mandables /\ Pendiente[1] = Esperado
        /\ Len(c) \in Nat /\ Len(T) = Cabeza(Esperado) + Len(c)
        /\ EnPaso(Flujo', Len(recibidos), Avance + Pedido, enviados)
        /\ Avance + Pedido <= Len(T) => Bytes = SubSeq(T, Avance + 1, Avance + Pedido)
    BY <1>1, LeerEnPaso
  <1>3. UNCHANGED <<canal, enviados>> /\ lector' = paso[2]
    BY <1>1 DEF Leer
  <1>4. /\ Pedido = 4 /\ Avance + 4 = Cabeza(Esperado) /\ Avance' = Avance + 4
        /\ Cabeza(Esperado) - 3 = Avance + 1 /\ Cabeza(Esperado) \in Nat
    <2>1. CASE lector = "size" /\ lector' = "cuerpo"
      <3>1. Esperado \in {"mensaje", "paquete"} /\ Pedido = 4 /\ Avance = 4 /\ Avance' = 8
        BY <2>1 DEF Esperado, EnOperacion, Pedido, Avance
      <3> QED BY <3>1 DEF Cabeza
    <2>2. CASE lector = "plen" /\ lector' = "ptexto"
      <3>1. Esperado = "path" /\ Pedido = 4 /\ Avance = 0 /\ Avance' = 4
        BY <2>2 DEF Esperado, EnOperacion, Pedido, Avance
      <3> QED BY <3>1 DEF Cabeza
    <2>3. CASE lector = "pcbtam" /\ lector' = "pcbcuerpo"
      <3>1. Esperado = "pcb" /\ Pedido = 4 /\ Avance = 1 /\ Avance' = 5
        BY <2>3 DEF Esperado, EnOperacion, Pedido, Avance
      <3> QED BY <3>1 DEF Cabeza
    <2> QED BY <1>1, <1>3, <2>1, <2>2, <2>3
  <1>5. tam' = Len(c)
    <2>0. c \in Seq(Byte) /\ Len(c) <= MaxInt
      BY <1>2, CuerpoEsBytes
    <2>1. SubSeq(T, Cabeza(Esperado) - 3, Cabeza(Esperado)) = Entero(Len(c))
      BY <1>2, TramaDeEnvio
    <2>2. Avance + Pedido = Cabeza(Esperado) /\ Avance + 1 = Cabeza(Esperado) - 3
      BY <1>4
    <2>3. Avance + Pedido <= Len(T)
      <3> DEFINE h == Cabeza(Esperado)
                 n == Len(c)
                 m == Len(T)
      <3>1. h \in Nat /\ n \in Nat /\ m = h + n
        BY <1>2, <1>4
      <3> HIDE DEF h, n, m
      <3>2. h <= m
        BY <3>1
      <3> QED BY <2>2, <3>2 DEF h, m
    <2>4. Bytes = Entero(Len(c))
      BY <1>2, <2>1, <2>2, <2>3, Zenon
    <2>5. Valor(Entero(Len(c))) = Len(c)
      BY <1>2, <2>0, ValorDeEntero
    <2> QED BY <1>1, <2>4, <2>5, Zenon
  <1>6. EnPaso(Flujo', Len(recibidos), Avance', enviados)
    BY <1>2, <1>4
  <1>7. /\ lector' \in EnOperacion => lector \in EnOperacion
        /\ lector' \in {"plen", "ptexto"} => lector \in {"plen", "ptexto"}
        /\ lector' # "valores"
    BY <1>1, <1>3 DEF EnOperacion
  <1> QED BY <1>1, <1>2, <1>3, <1>5, <1>6, <1>7, AlDiaEnCabeza

LEMMA PasoOperacion ==
  ASSUME TypeOK, Historia, Sitio, Recibido, AlDia, LeerOperacion \/ LeerOperacionPcb
  PROVE  Recibido' /\ AlDia'
  <1>1. CASE LeerOperacion
    <2> DEFINE luego == IF canal \notin {"dispatch", "interrupt"} \/ Valor(Bytes) = MENSAJE
                          THEN "size" ELSE IF canal = "dispatch" THEN "escucha" ELSE "op"
               T == Trama(Pendiente)
               c == Cuerpo(Pendiente)
    <2>1. lector = "op" /\ Leer(luego) /\ UNCHANGED <<tam, paquete, recibidos>>
      BY <1>1 DEF LeerOperacion
    <2>2. /\ Len(recibidos) < Len(enviados)
          /\ Pendiente \in Mandables /\ Pendiente[1] = Esperado
          /\ Len(c) \in Nat /\ Len(T) = Cabeza(Esperado) + Len(c)
          /\ EnPaso(Flujo', Len(recibidos), Avance + Pedido, enviados)
          /\ Avance + Pedido <= Len(T) => Bytes = SubSeq(T, Avance + 1, Avance + Pedido)
      <3> HIDE DEF luego
      <3> QED BY <2>1, LeerEnPaso
    <2>3. UNCHANGED <<canal, enviados>> /\ lector' = luego
      BY <2>1 DEF Leer
    <2>4. Avance = 0 /\ Pedido = 4 /\ Avance + Pedido = 4 /\ Avance + 1 = 1
      <3>1. Avance = 0 /\ Pedido = 4
        BY <2>1 DEF Avance, Pedido
      <3> QED BY <3>1
    <2>5. canal \in {"dispatch", "interrupt"} => Valor(Bytes) = MENSAJE
      <3> SUFFICES ASSUME canal \in {"dispatch", "interrupt"} PROVE Valor(Bytes) = MENSAJE
        OBVIOUS
      <3>1. Esperado = "mensaje"
        BY <2>1 DEF Esperado, EnOperacion
      <3>2. SubSeq(T, 1, 4) = Entero(MENSAJE)
        BY <2>2, <3>1, TramaDeEnvio
      <3>3. 4 <= Len(T)
        <4>1. Cabeza(Esperado) = 8
          BY <3>1 DEF Cabeza
        <4> DEFINE n == Len(c)
                   m == Len(T)
        <4>2. n \in Nat /\ m = 8 + n
          BY <2>2, <4>1
        <4> HIDE DEF n, m
        <4>3. 4 <= m
          BY <4>2
        <4> QED BY <4>3 DEF m
      <3>4. Bytes = Entero(MENSAJE)
        BY <2>2, <2>4, <3>2, <3>3, Zenon
      <3>5. MENSAJE \in Nat /\ MENSAJE <= MaxInt
        BY SMT DEF MENSAJE, MaxInt
      <3>6. Valor(Entero(MENSAJE)) = MENSAJE
        BY <3>5, ValorDeEntero
      <3> QED BY <3>4, <3>6, Zenon
    <2>6. lector' = "size"
      BY <2>3, <2>5
    <2>7. Avance' = 4
      BY <2>6 DEF Avance
    <2>8. EnPaso(Flujo', Len(recibidos), Avance', enviados)
      BY <2>2, <2>4, <2>7, Zenon
    <2>9. lector' \notin EnCuerpo /\ lector \in EnOperacion
      BY <2>1, <2>6 DEF EnCuerpo, EnOperacion
    <2> QED BY <2>1, <2>3, <2>6, <2>8, <2>9, AlDiaEnCabeza
  <1>2. CASE LeerOperacionPcb
    <2>1. lector = "pcbop" /\ Leer("pcbtam") /\ UNCHANGED <<tam, paquete, recibidos>>
      BY <1>2 DEF LeerOperacionPcb
    <2>2. EnPaso(Flujo', Len(recibidos), Avance + Pedido, enviados)
      BY <2>1, LeerEnPaso
    <2>3. UNCHANGED <<canal, enviados>> /\ lector' = "pcbtam"
      BY <2>1 DEF Leer
    <2>4. Avance = 0 /\ Pedido = 1 /\ Avance' = 1
      BY <2>1, <2>3 DEF Avance, Pedido
    <2>5. Avance + Pedido = 1
      BY <2>4
    <2>6. EnPaso(Flujo', Len(recibidos), Avance', enviados)
      BY <2>2, <2>4, <2>5, Zenon
    <2>7. lector' \notin EnCuerpo /\ lector' \notin EnOperacion
      BY <2>3 DEF EnCuerpo, EnOperacion
    <2> QED BY <2>1, <2>3, <2>6, <2>7, AlDiaEnCabeza
  <1> QED BY <1>1, <1>2
-----------------------------------------------------------------------------
(* The body is read whole. *)
LEMMA CuerpoLeido ==
  ASSUME TypeOK, Historia, Sitio, Recibido, AlDia, NEW luego, Leer(luego),
         lector \in {"cuerpo", "ptexto", "pcbcuerpo"}
  PROVE  /\ Len(recibidos) < Len(enviados) /\ Len(recibidos) \in 0..Len(enviados)
         /\ enviados \in Seq(Mandables)
         /\ Pendiente \in Mandables /\ Pendiente[1] = Esperado
         /\ Pendiente = <<Esperado, Pendiente[2]>>
         /\ Bytes = Cuerpo(Pendiente) /\ tam = Len(Cuerpo(Pendiente))
         /\ Len(Trama(Pendiente)) = Cabeza(Esperado) + tam
         /\ EnPaso(Flujo', Len(recibidos), Len(Trama(Pendiente)), enviados)
         /\ Flujo' \in Seq(Byte)
  <1> DEFINE c == Cuerpo(Pendiente)
             T == Trama(Pendiente)
  <1>1. /\ Len(recibidos) < Len(enviados) /\ Len(recibidos) \in 0..Len(enviados)
        /\ enviados \in Seq(Mandables)
        /\ Pendiente \in Mandables /\ Pendiente[1] = Esperado
        /\ Pendiente = <<Esperado, Pendiente[2]>>
        /\ Len(c) \in Nat /\ Len(T) = Cabeza(Esperado) + Len(c)
        /\ EnPaso(Flujo', Len(recibidos), Avance + Pedido, enviados)
        /\ Flujo' \in Seq(Byte)
        /\ Avance + Pedido <= Len(T) => Bytes = SubSeq(T, Avance + 1, Avance + Pedido)
    BY LeerEnPaso
  <1>2. tam = Len(c)
    BY DEF AlDia, EnCuerpo
  <1>3. Pedido = tam /\ Avance = Cabeza(Esperado) /\ Cabeza(Esperado) \in Nat
    <2>1. Pedido = tam
      BY DEF Pedido
    <2>2. CASE lector = "cuerpo"
      <3>1. Esperado \in {"mensaje", "paquete"} /\ Avance = 8
        BY <2>2 DEF Esperado, EnOperacion, Avance
      <3> QED BY <2>1, <3>1 DEF Cabeza
    <2>3. CASE lector = "ptexto"
      <3>1. Esperado = "path" /\ Avance = 4
        BY <2>3 DEF Esperado, EnOperacion, Avance
      <3> QED BY <2>1, <3>1 DEF Cabeza
    <2>4. CASE lector = "pcbcuerpo"
      <3>1. Esperado = "pcb" /\ Avance = 5
        BY <2>4 DEF Esperado, EnOperacion, Avance
      <3> QED BY <2>1, <3>1 DEF Cabeza
    <2> QED BY <2>2, <2>3, <2>4
  <1>4. Avance + Pedido = Len(T) /\ Len(T) = Cabeza(Esperado) + tam
    BY <1>1, <1>2, <1>3
  <1>5. SubSeq(T, Cabeza(Esperado) + 1, Cabeza(Esperado) + Len(c)) = c
    BY <1>1, TramaDeEnvio
  <1>6. Bytes = c
    <2>1. Avance + Pedido <= Len(T)
      <3> DEFINE n == Len(T)
                 m == Avance + Pedido
      <3>1. m = n /\ n \in Nat
        BY <1>1, <1>3, <1>4
      <3> HIDE DEF m, n
      <3>2. m <= n
        BY <3>1
      <3> QED BY <3>2 DEF m, n
    <2> QED BY <1>1, <1>2, <1>3, <1>5, <2>1, Zenon
  <1>7. EnPaso(Flujo', Len(recibidos), Len(T), enviados)
    BY <1>1, <1>4, Zenon
  <1> QED BY <1>1, <1>2, <1>4, <1>6, <1>7

(* What was being received is received. *)
LEMMA Entregado ==
  ASSUME enviados \in Seq(Mandables), Recibido, Len(recibidos) \in 0..Len(enviados),
         Len(recibidos) < Len(enviados), Flujo' \in Seq(Byte),
         EnPaso(Flujo', Len(recibidos), Len(Trama(Pendiente)), enviados),
         recibidos' = Append(recibidos, Pendiente), UNCHANGED <<canal, enviados>>,
         lector' \in {"op", "plen", "pcbop", "escucha"},
         lector' = "op" => canal \notin {"rutas", "dispatch"}
  PROVE  Recibido' /\ AlDia'
  <1> DEFINE r == Len(recibidos)
             N == Len(enviados)
  <1>1. N \in Nat /\ r \in 0..N /\ r < N
    BY LenProperties
  <1>2. r + 1 \in 0..N /\ r + 1 >= 1 /\ r \in 0..(N - 1)
    <2> HIDE DEF r, N
    <2> QED BY <1>1
  <1>3. recibidos' = SubSeq(enviados, 1, r + 1)
    <2>1. \A S, q, i : q \in Seq(S) /\ i \in 0..(Len(q) - 1) =>
            Append(SubSeq(q, 1, i), q[i + 1]) = SubSeq(q, 1, i + 1)
      OBVIOUS
    <2>2. Append(SubSeq(enviados, 1, r), enviados[r + 1]) = SubSeq(enviados, 1, r + 1)
      BY <1>2, <2>1, Zenon
    <2>3. recibidos = SubSeq(enviados, 1, r)
      BY DEF Recibido
    <2>4. recibidos' = Append(recibidos, enviados[r + 1])
      BY DEF Pendiente
    <2> HIDE DEF r
    <2> QED BY <2>2, <2>3, <2>4, Zenon
  <1>4. Len(recibidos') = r + 1
    <2> HIDE DEF r, N
    <2>1. Len(SubSeq(enviados, 1, r + 1)) = r + 1
      BY <1>1, <1>2 DEF N
    <2> QED BY <1>3, <2>1
  <1>5. Recibido'
    <2>1. Len(recibidos') \in 0..Len(enviados')
      BY <1>2, <1>4
    <2>2. recibidos' = SubSeq(enviados', 1, Len(recibidos'))
      BY <1>3, <1>4
    <2>3. lector' \in EnOperacion => lector' = "op"
      BY DEF EnOperacion
    <2>4. Len(recibidos') >= 1
      BY <1>2, <1>4
    <2> QED BY <2>1, <2>2, <2>3, <2>4 DEF Recibido
  <1>6. Avance' = 0 /\ lector' \notin EnCuerpo /\ lector' # "valores"
    BY DEF Avance, EnCuerpo
  <1>7. EnPaso(Flujo', r + 1, 0, enviados)
    <2>1. Pendiente = enviados[r + 1]
      BY DEF Pendiente
    <2>2. EnPaso(Flujo', r, Len(Trama(enviados[r + 1])), enviados)
      BY <2>1
    <2> HIDE DEF r
    <2>3. \A B \in Seq(Byte) : EnPaso(B, r, Len(Trama(enviados[r + 1])), enviados)
                                 => EnPaso(B, r + 1, 0, enviados)
      BY <1>1, EnPasoAlRecibir, Zenon DEF N
    <2> QED BY <2>2, <2>3, Zenon
  <1>8. EnPaso(Flujo', Len(recibidos'), Avance', enviados')
    BY <1>4, <1>6, <1>7
  <1> QED BY <1>5, <1>6, <1>8 DEF AlDia, Vuelta

LEMMA PasoCuerpo ==
  ASSUME TypeOK, Historia, Sitio, Recibido, AlDia,
         LeerCuerpo \/ LeerPath \/ LeerPcb
  PROVE  Recibido' /\ AlDia'
  <1>1. CASE LeerCuerpo
    <2>1. /\ lector = "cuerpo" /\ canal # "paquete" /\ Leer(TrasMensaje)
          /\ recibidos' = Append(recibidos, <<"mensaje", Bytes>>)
      BY <1>1 DEF LeerCuerpo, Recibir
    <2>2. Esperado = "mensaje"
      BY <2>1 DEF Esperado, EnOperacion
    <2>3. Cuerpo(Pendiente) = Pendiente[2]
      BY <2>1, <2>2, CuerpoLeido DEF Cuerpo
    <2>4. recibidos' = Append(recibidos, Pendiente)
      BY <2>1, <2>2, <2>3, CuerpoLeido
    <2>5. lector' = TrasMensaje /\ UNCHANGED <<canal, enviados>>
      BY <2>1 DEF Leer
    <2>6. lector' \in {"op", "plen", "escucha"} /\ (lector' = "op" => canal \notin {"rutas", "dispatch"})
      BY <2>5 DEF TrasMensaje
    <2> QED BY <2>1, <2>4, <2>5, <2>6, CuerpoLeido, Entregado
  <1>2. CASE LeerPath
    <2>1. /\ lector = "ptexto" /\ Leer("plen")
          /\ recibidos' = Append(recibidos, <<"path", Bytes>>)
      BY <1>2 DEF LeerPath, Recibir
    <2>2. Esperado = "path"
      BY <2>1 DEF Esperado, EnOperacion
    <2>3. Cuerpo(Pendiente) = Pendiente[2]
      BY <2>1, <2>2, CuerpoLeido DEF Cuerpo
    <2>4. recibidos' = Append(recibidos, Pendiente)
      BY <2>1, <2>2, <2>3, CuerpoLeido
    <2>5. lector' = "plen" /\ UNCHANGED <<canal, enviados>>
      BY <2>1 DEF Leer
    <2> QED BY <2>1, <2>4, <2>5, CuerpoLeido, Entregado
  <1>3. CASE LeerPcb
    <2>1. /\ lector = "pcbcuerpo" /\ Leer("pcbop")
          /\ recibidos' = Append(recibidos, <<"pcb", DeserializarPcb(Bytes)>>)
      BY <1>3 DEF LeerPcb, Recibir
    <2>2. Esperado = "pcb"
      BY <2>1 DEF Esperado, EnOperacion
    <2>3. Cuerpo(Pendiente) = SerializarPcb(Pendiente[2]) /\ PcbDe(Pendiente[2])
      <3>1. Pendiente \in Mandables /\ Pendiente[1] = "pcb"
        BY <2>1, <2>2, CuerpoLeido
      <3>2. Pendiente[2] \in Valores("pcb")
        BY <3>1, MandableEsPar
      <3> QED BY <3>1, <3>2, PcbDeCrear DEF Cuerpo
    <2>4. DeserializarPcb(Bytes) = Pendiente[2]
      <3>1. Bytes = SerializarPcb(Pendiente[2])
        BY <2>1, <2>3, CuerpoLeido
      <3> QED BY <2>3, <3>1, PcbIdaYVuelta
    <2>5. recibidos' = Append(recibidos, Pendiente)
      BY <2>1, <2>2, <2>4, CuerpoLeido
    <2>6. lector' = "pcbop" /\ UNCHANGED <<canal, enviados>>
      BY <2>1 DEF Leer
    <2> QED BY <2>1, <2>5, <2>6, CuerpoLeido, Entregado
  <1> QED BY <1>1, <1>2, <1>3

(* recibir_paquete. *)
LEMMA PasoPaquete ==
  ASSUME TypeOK, Historia, Sitio, Recibido, AlDia,
         LeerPaquete \/ SiguienteValor \/ DevolverValores
  PROVE  Recibido' /\ AlDia'
  <1> DEFINE l == Pendiente[2]
  <1>1. CASE LeerPaquete
    <2>1. /\ lector = "cuerpo" /\ canal = "paquete" /\ Leer("valores")
          /\ buffer' = Bytes /\ desplazamiento' = 0 /\ valores' = <<>>
          /\ UNCHANGED <<tam, recibidos>>
      BY <1>1 DEF LeerPaquete
    <2>2. UNCHANGED <<canal, enviados>> /\ lector' = "valores"
      BY <2>1 DEF Leer
    <2>3. Esperado = "paquete"
      BY <2>1 DEF Esperado, EnOperacion
    <2>4. /\ Len(recibidos) < Len(enviados) /\ Pendiente \in Mandables /\ Pendiente[1] = "paquete"
          /\ Bytes = Cuerpo(Pendiente) /\ tam = Len(Cuerpo(Pendiente))
          /\ Len(Trama(Pendiente)) = Cabeza("paquete") + tam
          /\ EnPaso(Flujo', Len(recibidos), Len(Trama(Pendiente)), enviados)
      BY <2>1, <2>3, CuerpoLeido
    <2>5. Pendiente' = Pendiente
      BY <2>1, <2>2 DEF Pendiente
    <2>6. l \in Instrucciones
      <3>1. l \in Valores("paquete")
        BY <2>4, MandableEsPar
      <3> QED BY <3>1 DEF Valores
    <2>7. Vuelta'
      <3>1. 0 = Len(Parte(l, 0)) /\ <<>> = SubSeq(l, 1, 0)
        <4>1. l \in Seq(Seq(Byte))
          BY <2>6, InstruccionEsBytes
        <4>2. Len(<<>>) = 0 /\ SubSeq(l, 1, 0) = <<>>
          BY <4>1
        <4> QED BY <2>6, <4>2, PartesDeStream
      <3>2. 0 \in 0..4
        OBVIOUS
      <3>3. EnVuelta(l, desplazamiento', valores')
        BY <2>1, <3>1, <3>2 DEF EnVuelta
      <3> QED BY <2>1, <2>4, <2>5, <3>3 DEF Vuelta
    <2>8. Avance' = Len(Trama(Pendiente))
      <3>1. Avance' = 8 + tam
        BY <2>1, <2>2 DEF Avance
      <3> QED BY <2>4, <3>1 DEF Cabeza
    <2>9. EnPaso(Flujo', Len(recibidos'), Avance', enviados')
      BY <2>1, <2>2, <2>4, <2>8
    <2>10. Recibido'
      BY <2>1, <2>2 DEF Recibido, EnOperacion
    <2> QED BY <2>1, <2>2, <2>4, <2>5, <2>7, <2>9, <2>10 DEF AlDia
  <1>2. ASSUME lector = "valores"
        PROVE  /\ Len(recibidos) < Len(enviados) /\ Len(recibidos) \in 0..Len(enviados)
               /\ enviados \in Seq(Mandables)
               /\ Pendiente \in Mandables /\ Pendiente = <<"paquete", l>>
               /\ l \in Instrucciones /\ buffer = StreamDe(l) /\ tam = Len(StreamDe(l))
               /\ EnPaso(Flujo, Len(recibidos), 8 + tam, enviados)
               /\ Len(Trama(Pendiente)) = 8 + tam
               /\ canal = "paquete"
    <2>1. /\ Len(recibidos) < Len(enviados) /\ buffer = Cuerpo(Pendiente)
          /\ tam = Len(Cuerpo(Pendiente))
          /\ EnPaso(Flujo, Len(recibidos), Avance, enviados)
      BY <1>2 DEF AlDia, Vuelta, EnCuerpo
    <2>2. Esperado = "paquete" /\ Avance = 8 + tam
      BY <1>2 DEF Esperado, EnOperacion, Avance
    <2>3. /\ enviados \in Seq(Mandables) /\ Len(recibidos) \in 0..Len(enviados)
          /\ Pendiente \in Mandables /\ Pendiente[1] = "paquete" /\ Pendiente = <<"paquete", l>>
      BY <1>2, <2>1, <2>2, ClaseDePendiente
    <2>4. l \in Instrucciones /\ Cuerpo(Pendiente) = StreamDe(l)
      <3>1. l \in Valores("paquete")
        BY <2>3, MandableEsPar
      <3> QED BY <2>3, <3>1 DEF Valores, Cuerpo
    <2>5. Len(Trama(Pendiente)) = 8 + tam
      <3>1. Cabeza("paquete") = 8
        BY DEF Cabeza
      <3> QED BY <2>1, <2>3, <3>1, TramaDeEnvio
    <2>6. canal = "paquete"
      BY <1>2 DEF Sitio
    <2> QED BY <2>1, <2>2, <2>3, <2>4, <2>5, <2>6
  <1>3. CASE SiguienteValor
    <2> DEFINE n == TamanioEn(buffer, desplazamiento)
               v == ValorEn(buffer, desplazamiento)
    <2>1. /\ lector = "valores" /\ desplazamiento < Len(buffer)
          /\ valores' = Append(valores, v) /\ desplazamiento' = desplazamiento + 4 + n
          /\ UNCHANGED <<canal, porEnviar, enRed, llegado, lector, tam, buffer, enviados, recibidos>>
      BY <1>3 DEF SiguienteValor, TamanioEn, ValorEn
    <2>2. EnVuelta(l, desplazamiento, valores)
      BY <2>1 DEF AlDia, Vuelta
    <2>3. l \in Instrucciones /\ buffer = StreamDe(l)
      BY <1>2, <2>1
    <2>4. EnVuelta(l, desplazamiento + 4 + n, Append(valores, v))
      <3> HIDE DEF l
      <3> QED BY <2>1, <2>2, <2>3, UnaVuelta, Zenon
    <2> HIDE DEF n, v
    <2>5. Pendiente' = Pendiente /\ Flujo' = Flujo /\ Avance' = Avance
      BY <2>1 DEF Pendiente, Flujo, Avance
    <2>6. Vuelta'
      <3>1. EnVuelta(l, desplazamiento', valores')
        BY <2>1, <2>4
      <3>2. buffer' = Cuerpo(Pendiente)
        BY <2>1 DEF AlDia, Vuelta
      <3> QED BY <2>5, <3>1, <3>2 DEF Vuelta
    <2>7. Recibido'
      BY <2>1 DEF Recibido
    <2>8. EnPaso(Flujo', Len(recibidos'), Avance', enviados')
      BY <2>1, <2>5 DEF AlDia
    <2>9. Len(recibidos') < Len(enviados') /\ tam' = Len(Cuerpo(Pendiente'))
      BY <2>1, <2>5 DEF AlDia, EnCuerpo
    <2> QED BY <2>6, <2>7, <2>8, <2>9 DEF AlDia
  <1>4. CASE DevolverValores
    <2>1. /\ lector = "valores" /\ desplazamiento >= Len(buffer) /\ lector' = "op"
          /\ recibidos' = Append(recibidos, <<"paquete", valores>>)
          /\ UNCHANGED <<canal, porEnviar, enRed, llegado, enviados>>
      BY <1>4 DEF DevolverValores
    <2>2. EnVuelta(l, desplazamiento, valores)
      BY <2>1 DEF AlDia, Vuelta
    <2>3. l \in Instrucciones /\ buffer = StreamDe(l)
      BY <1>2, <2>1
    <2>4. valores = l
      <3> HIDE DEF l
      <3> QED BY <2>1, <2>2, <2>3, UnaVuelta, Zenon
    <2>5. recibidos' = Append(recibidos, Pendiente)
      BY <1>2, <2>1, <2>4
    <2>6. Flujo' = Flujo
      BY <2>1 DEF Flujo
    <2>7. Flujo \in Seq(Byte)
      <3>1. /\ llegado \in Seq(Byte) /\ enRed \in Seq(Byte) /\ porEnviar \in Seq(Seq(Byte))
            /\ Len(porEnviar) <= 2
        BY DEF TypeOK, Historia
      <3> QED BY <3>1, FlujoEsBytes DEF Flujo
    <2>8. EnPaso(Flujo', Len(recibidos), Len(Trama(Pendiente)), enviados) /\ Flujo' \in Seq(Byte)
      BY <1>2, <2>1, <2>6, <2>7
    <2>9. canal \notin {"rutas", "dispatch"} /\ UNCHANGED <<canal, enviados>>
      BY <1>2, <2>1
    <2> HIDE DEF l
    <2> QED BY <1>2, <2>1, <2>5, <2>8, <2>9, Entregado
  <1> QED BY <1>1, <1>3, <1>4

LEMMA PasoIInv == IInv /\ [Next]_vars => IInv'
  <1> SUFFICES ASSUME IInv, [Next]_vars PROVE IInv'
    OBVIOUS
  <1>1. TypeOK /\ Historia /\ Sitio /\ Recibido /\ AlDia
    BY DEF IInv
  <1>2. TypeOK' /\ Historia' /\ Sitio'
    BY <1>1, PasoTipos, PasoHistoria, PasoSitio
  <1>3. Recibido' /\ AlDia'
    <2>1. CASE UNCHANGED vars
      <3>1. UNCHANGED <<canal, porEnviar, enRed, llegado, lector, tam, paquete, enviados, recibidos>>
        BY <2>1 DEF vars
      <3>2. Flujo' = Flujo
        BY <3>1 DEF Flujo
      <3> QED BY <1>1, <3>1, <3>2, AlDiaIgual
    <2>2. CASE Emisor \/ Entregar
      BY <1>1, <2>2, PasoEmisor
    <2>3. CASE LeerLargo
      BY <1>1, <2>3, PasoLargo
    <2>4. CASE LeerOperacion \/ LeerOperacionPcb
      BY <1>1, <2>4, PasoOperacion
    <2>5. CASE LeerCuerpo \/ LeerPath \/ LeerPcb
      BY <1>1, <2>5, PasoCuerpo
    <2>6. CASE LeerPaquete \/ SiguienteValor \/ DevolverValores
      BY <1>1, <2>6, PasoPaquete
    <2>7. CASE LeerParcial \/ LeerCierre \/ HiloSinLogger \/ EscucharMal
      <3>1. /\ lector' \in {"perdido", "corto", "fin", "muerto"}
            /\ UNCHANGED <<canal, enviados, recibidos>>
        BY <2>7 DEF LeerParcial, LeerCierre, TrasCierre, HiloSinLogger, EscucharMal
      <3>2. Recibido'
        BY <1>1, <3>1 DEF Recibido, EnOperacion
      <3>3. AlDia'
        BY <3>1 DEF AlDia, Vuelta, EnRecv, SinEspera, EnCuerpo
      <3> QED BY <3>2, <3>3
    <2> QED BY <2>1, <2>2, <2>3, <2>4, <2>5, <2>6, <2>7 DEF Next, Receptor
  <1> QED BY <1>2, <1>3 DEF IInv
-----------------------------------------------------------------------------
(* The bytes in every buffer are bytes, and every length and position the  *)
(* receiver has read from them is a natural number.                        *)
THEOREM TypeCorrect == Spec => []TypeOK
  <1>1. IInv => TypeOK
    BY DEF IInv
  <1> QED BY <1>1, InitIInv, PasoIInv, PTL DEF Spec

(* What is received is what was sent, whole and in order, however the      *)
(* bytes are cut on the way: a receiver that calls recv without            *)
(* MSG_WAITALL and gets a part gives it to nobody.                         *)
THEOREM FielCorrecto == Spec => []Fiel
  <1>1. IInv => Fiel
    <2> SUFFICES ASSUME IInv PROVE IsPrefix(recibidos, enviados)
      BY DEF Fiel
    <2>1. /\ enviados \in Seq(Mandables) /\ Len(recibidos) \in 0..Len(enviados)
          /\ recibidos = SubSeq(enviados, 1, Len(recibidos))
      BY DEF IInv, Historia, Recibido
    <2>2. Len(recibidos) <= Len(enviados)
      BY <2>1, LenProperties
    <2> QED BY <2>1, <2>2 DEF IsPrefix
  <1> QED BY <1>1, InitIInv, PasoIInv, PTL DEF Spec

(* When nothing is left to arrive, what has arrived is the rest of what    *)
(* has to be received: no recv asks for more than the next send has left,  *)
(* and after the last one nothing is left over.                            *)
THEOREM EsperaCorrecta == Spec => []EsperaLoDebido
  <1>1. IInv => EsperaLoDebido
    <2> SUFFICES ASSUME IInv, porEnviar = <<>>, enRed = <<>>, lector \in EnRecv
                 PROVE  IF Len(recibidos) < Len(enviados) THEN Completo ELSE llegado = <<>>
      BY DEF EsperaLoDebido
    <2> DEFINE r == Len(recibidos)
               av == Avance
               b == Len(llegado)
               T == Trama(Pendiente)
    <2>1. TypeOK /\ Historia /\ Sitio /\ Recibido /\ AlDia
      BY DEF IInv
    <2>2. /\ enviados \in Seq(Mandables) /\ r \in 0..Len(enviados) /\ Len(enviados) \in Nat
          /\ llegado \in Seq(Byte) /\ tam \in Nat
      BY <2>1, LenProperties DEF Historia, Recibido, TypeOK
    <2>3. Flujo = llegado
      <3>1. Len(porEnviar) = 0
        BY EmptySeq
      <3>2. (llegado \o <<>>) \o <<>> = llegado
        BY <2>2
      <3> QED BY <3>1, <3>2 DEF Flujo, FlujoDe, RestoDe
    <2>4. EnPaso(llegado, r, av, enviados)
      BY <2>1, <2>3 DEF AlDia
    <2>5. av \in Nat /\ Pedido \in Nat /\ b \in Nat
      BY <2>1, <2>2, PedidoEsNat, LenProperties DEF Avance, EnRecv, SinEspera
    <2>6. /\ r = Len(enviados) => b = 0
          /\ r < Len(enviados) => Len(Trama(enviados[r + 1])) <= av + b
      <3> HIDE DEF r, av
      <3> QED BY <2>2, <2>4, <2>5, EnPasoHasta, Zenon DEF b
    <2>7. CASE r < Len(enviados)
      <3>1. Pendiente \in Mandables /\ Pendiente[1] = Esperado /\ T = Trama(enviados[r + 1])
        BY <2>1, <2>7, ClaseDePendiente DEF Pendiente
      <3> DEFINE c == Len(Cuerpo(Pendiente))
                 h == Cabeza(Esperado)
                 t == Len(T)
      <3>2. c \in Nat /\ t = h + c
        BY <3>1, TramaDeEnvio, CuerpoEsBytes
      <3>3. av + Pedido <= t
        <4>1. CASE lector \in {"cuerpo", "ptexto", "pcbcuerpo"}
          <5>1. Pedido = tam /\ tam = c
            BY <2>1, <4>1 DEF Pedido, AlDia, EnCuerpo
          <5>2. av = h /\ h \in Nat
            BY <4>1 DEF Avance, Esperado, EnOperacion, Cabeza
          <5> HIDE DEF c, h, t, av
          <5> QED BY <3>2, <5>1, <5>2
        <4>2. CASE lector \in {"op", "size", "plen", "pcbop", "pcbtam"}
          <5>1. av + Pedido <= h /\ h \in Nat
            BY <4>2 DEF Avance, Pedido, Esperado, EnOperacion, Cabeza
          <5> HIDE DEF c, h, t, av
          <5> QED BY <2>5, <3>2, <5>1
        <4> QED BY <4>1, <4>2 DEF EnRecv, SinEspera
      <3>4. t <= av + b /\ t \in Nat
        <4>1. h \in Nat
          BY DEF Cabeza
        <4> HIDE DEF c, h
        <4> QED BY <2>6, <2>7, <3>1, <3>2, <4>1
      <3>5. Pedido <= b
        <4> HIDE DEF t, av, b
        <4> QED BY <2>5, <3>3, <3>4
      <3>6. Completo
        BY <3>5 DEF Completo
      <3> QED BY <2>7, <3>6
    <2>8. CASE ~(r < Len(enviados))
      <3>1. r = Len(enviados)
        <4> DEFINE n == Len(enviados)
        <4>1. n \in Nat /\ r \in 0..n /\ ~(r < n)
          BY <2>2, <2>8
        <4> HIDE DEF n, r
        <4>2. r = n
          BY <4>1
        <4> QED BY <4>2 DEF n
      <3>2. llegado = <<>>
        BY <2>2, <2>6, <3>1, EmptySeq
      <3> QED BY <2>8, <3>2
    <2> QED BY <2>7, <2>8
  <1> QED BY <1>1, InitIInv, PasoIInv, PTL DEF Spec
=============================================================================
