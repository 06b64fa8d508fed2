--------------------------- MODULE ArranqueProofs ---------------------------
(***************************************************************************)
(* Proofs about the start-up of the four programs, for any number of       *)
(* interfaces.                                                             *)
(***************************************************************************)
EXTENDS Arranque, TLAPS

USE DEF deMemoria, deKernel, red

Partes == {"memoria", "dispatch", "interrupt"}

LEMMA ClientesTipo ==
  /\ "kernel" \in Clientes /\ "cpu" \in Clientes /\ Interfaces \subseteq Clientes
  /\ "nadie" \notin Clientes /\ "kernel" \notin Interfaces /\ "cpu" \notin Interfaces
  BY InterfacesOK DEF Clientes

(* What connect, bind and accept do to the queues. *)
LEMMA RedTipo ==
  ASSUME TypeOK, NEW p \in Puertos, NEW c \in Clientes,
         Conectar(c, p) \/ AbrirServidor(p) \/ Aceptar(p, c)
  PROVE  /\ escucha' \subseteq Puertos
         /\ cola' \in [Puertos -> Seq(Clientes)] /\ llegadas' \in Seq(Clientes)
         /\ \A q \in Puertos : q # p => cola'[q] = cola[q]
  <1>1. cola \in [Puertos -> Seq(Clientes)] /\ llegadas \in Seq(Clientes) /\ escucha \subseteq Puertos
    BY DEF TypeOK
  <1>2. CASE Conectar(c, p)
    <2>1. Append(cola[p], c) \in Seq(Clientes) /\ Append(llegadas, c) \in Seq(Clientes)
      BY <1>1
    <2> QED BY <1>1, <1>2, <2>1 DEF Conectar
  <1>3. CASE AbrirServidor(p)
    BY <1>1, <1>3 DEF AbrirServidor
  <1>4. CASE Aceptar(p, c)
    <2>1. Tail(cola[p]) \in Seq(Clientes)
      BY <1>1, <1>4 DEF Aceptar
    <2> QED BY <1>1, <1>4, <2>1 DEF Aceptar
  <1> QED BY <1>2, <1>3, <1>4

LEMMA InitTipos == Init => TypeOK
  BY DEF Init, TypeOK, Hilos

LEMMA PasoTipos == TypeOK /\ [Next]_vars => TypeOK'
  <1> SUFFICES ASSUME TypeOK, [Next]_vars PROVE TypeOK'
    OBVIOUS
  <1>0. "memoria" \in Puertos /\ "dispatch" \in Puertos /\ "interrupt" \in Puertos
        /\ "kernel" \in Puertos /\ "interfaz" \in Puertos
    BY DEF Puertos
  <1>1. CASE UNCHANGED vars
    BY <1>1 DEF TypeOK, vars
  <1>2. CASE Operador
    BY <1>2 DEF Operador, MemoriaEncender, KernelEncender, CpuEncender, InterfazEncender, TypeOK
  <1>3. CASE Memoria
    <2>1. CASE MemoriaLeerConfig
      BY <2>1 DEF MemoriaLeerConfig, TypeOK
    <2>2. CASE MemoriaAbrir
      <3>1. /\ escucha' \subseteq Puertos
            /\ cola' \in [Puertos -> Seq(Clientes)] /\ llegadas' \in Seq(Clientes)
        BY <1>0, <2>2, RedTipo, ClientesTipo DEF MemoriaAbrir
      <3> QED BY <2>2, <3>1 DEF MemoriaAbrir, TypeOK
    <2> QED BY <1>3, <2>1, <2>2 DEF Memoria
  <1>4. CASE Kernel
    <2>1. /\ escucha' \subseteq Puertos
          /\ cola' \in [Puertos -> Seq(Clientes)] /\ llegadas' \in Seq(Clientes)
      BY <1>0, <1>4, RedTipo, ClientesTipo
         DEF Kernel, KernelConectarMemoria, KernelConectarDispatch, KernelConectarInterrupt,
             KernelConectar, KernelAbrir, KernelAceptar
    <2>2. /\ kernel' \in {"dispatch", "interrupt", "abrir", "aceptar"}
          /\ atendidas' \subseteq Interfaces
          /\ UNCHANGED <<deMemoria, cpu, interfaz>>
      BY <1>4 DEF Kernel, KernelConectarMemoria, KernelConectarDispatch, KernelConectarInterrupt,
                  KernelConectar, KernelAbrir, KernelAceptar, TypeOK
    <2> QED BY <2>1, <2>2 DEF TypeOK
  <1>5. CASE CpuConectarMemoria
    <2>1. /\ escucha' \subseteq Puertos
          /\ cola' \in [Puertos -> Seq(Clientes)] /\ llegadas' \in Seq(Clientes)
      BY <1>0, <1>5, RedTipo, ClientesTipo DEF CpuConectarMemoria
    <2> QED BY <1>5, <2>1 DEF CpuConectarMemoria, TypeOK
  <1>6. ASSUME NEW h \in Hilos, Hilo(h) PROVE TypeOK'
    <2>1. CASE HiloEsperarTurno(h)
      BY <2>1 DEF HiloEsperarTurno, TypeOK
    <2>2. CASE HiloAceptar(h)
      <3>1. PICK c \in Clientes : Aceptar("memoria", c) /\ atiende' = [atiende EXCEPT ![h] = c]
        BY <2>2 DEF HiloAceptar
      <3>2. /\ escucha' \subseteq Puertos
            /\ cola' \in [Puertos -> Seq(Clientes)] /\ llegadas' \in Seq(Clientes)
        BY <1>0, <3>1, RedTipo
      <3>3. Siguiente(h) \in Hilos
        BY DEF Siguiente, Hilos
      <3>4. semaforo' \in [Hilos -> Nat]
        BY <2>2, <3>3 DEF HiloAceptar, TypeOK
      <3> QED BY <2>2, <3>1, <3>2, <3>4 DEF HiloAceptar, TypeOK
    <2> QED BY <1>6, <2>1, <2>2 DEF Hilo
  <1>7. ASSUME NEW t \in {"dispatch", "interrupt"}, CpuServidor(t) PROVE TypeOK'
    <2>1. /\ escucha' \subseteq Puertos
          /\ cola' \in [Puertos -> Seq(Clientes)] /\ llegadas' \in Seq(Clientes)
      BY <1>0, <1>7, RedTipo, ClientesTipo DEF CpuServidor, CpuAbrir, CpuEsperarCliente
    <2> QED BY <1>7, <2>1 DEF CpuServidor, CpuAbrir, CpuEsperarCliente, TypeOK
  <1>8. ASSUME NEW x \in Interfaces, Interfaz(x) PROVE TypeOK'
    <2>1. /\ escucha' \subseteq Puertos
          /\ cola' \in [Puertos -> Seq(Clientes)] /\ llegadas' \in Seq(Clientes)
      <3>1. CASE UNCHANGED red
        BY <3>1 DEF TypeOK
      <3>2. x \in Clientes
        BY ClientesTipo
      <3>3. CASE Conectar(x, "memoria") \/ Conectar(x, "kernel") \/ AbrirServidor("interfaz")
        BY <1>0, <3>2, <3>3, RedTipo
      <3> QED BY <1>8, <3>1, <3>3 DEF Interfaz, InterfazConectarMemoria, InterfazConectarKernel,
               InterfazAbrir
    <2>2. /\ interfaz' \in [Interfaces -> {"apagada", "memoria", "kernel", "abrir", "servir", "muerta"}]
          /\ UNCHANGED <<deMemoria, deKernel, cpu>>
      BY <1>8 DEF Interfaz, InterfazConectarMemoria, InterfazConectarKernel, InterfazAbrir, TypeOK
    <2> QED BY <2>1, <2>2 DEF TypeOK
  <1> QED BY <1>1, <1>2, <1>3, <1>4, <1>5, <1>6, <1>7, <1>8 DEF Next

(* Every variable of the start-up keeps its type. *)
THEOREM TypeCorrect == Spec => []TypeOK
  BY InitTipos, PasoTipos, PTL DEF Spec
-----------------------------------------------------------------------------
(* The turns: a thread other than the first has been let in only if the    *)
(* one before it has its client.                                           *)
Turnos ==
  /\ memoria # "hilos" => \A h \in Hilos : hilo[h] = "apagado"
  /\ \A h \in Hilos : atiende[h] # "nadie" <=> hilo[h] = "atender"
  /\ (hilo["kernel"] \in {"aceptar", "atender"} \/ semaforo["kernel"] > 0)
       => hilo["cpu"] = "atender"
  /\ (hilo["io"] \in {"aceptar", "atender"} \/ semaforo["io"] > 0)
       => hilo["kernel"] = "atender"

LEMMA InitTurnos == Init => Turnos /\ AtencionPorLlegada
  BY DEF Init, Turnos, Hilos, AtencionPorLlegada, Atendidos, Atendido, Puertos

LEMMA PasoTurnos ==
  ASSUME TypeOK, Turnos, [Next]_vars
  PROVE  Turnos'
  <1>0. "cpu" \in Hilos /\ "kernel" \in Hilos /\ "io" \in Hilos
        /\ \A h \in Hilos : h \in {"cpu", "kernel", "io"}
    BY DEF Hilos
  <1>1. CASE UNCHANGED <<hilo, semaforo, atiende>> /\ (memoria = "hilos" => memoria' = "hilos")
    BY <1>1 DEF Turnos, TypeOK
  <1>2. CASE MemoriaAbrir
    <2>1. /\ memoria = "abrir" /\ memoria' = "hilos" /\ UNCHANGED <<semaforo, atiende>>
          /\ \A h \in Hilos : hilo'[h] = "semaforo"
      BY <1>2 DEF MemoriaAbrir
    <2>2. \A h \in Hilos : hilo[h] = "apagado"
      BY <2>1 DEF Turnos
    <2> QED BY <1>0, <2>1, <2>2 DEF Turnos
  <1>3. ASSUME NEW h \in Hilos, HiloEsperarTurno(h) PROVE Turnos'
    <2>1. /\ hilo[h] = "semaforo" /\ semaforo[h] > 0 /\ UNCHANGED <<memoria, atiende>>
          /\ \A g \in Hilos : hilo'[g] = IF g = h THEN "aceptar" ELSE hilo[g]
          /\ \A g \in Hilos : semaforo'[g] = IF g = h THEN semaforo[h] - 1 ELSE semaforo[g]
          /\ \A g \in Hilos : semaforo[g] \in Nat
      BY <1>3 DEF HiloEsperarTurno, TypeOK
    <2> QED BY <1>0, <2>1 DEF Turnos
  <1>4. ASSUME NEW h \in Hilos, HiloAceptar(h) PROVE Turnos'
    <2>1. PICK c \in Clientes : atiende' = [atiende EXCEPT ![h] = c]
      BY <1>4 DEF HiloAceptar
    <2>2. /\ hilo[h] = "aceptar" /\ memoria' = memoria /\ c # "nadie"
          /\ \A g \in Hilos : hilo'[g] = IF g = h THEN "atender" ELSE hilo[g]
          /\ \A g \in Hilos : atiende'[g] = IF g = h THEN c ELSE atiende[g]
          /\ \A g \in Hilos : semaforo[g] \in Nat
      BY <1>4, <2>1, ClientesTipo DEF HiloAceptar, TypeOK
    <2>3. /\ Siguiente(h) = IF h = "kernel" THEN "io" ELSE "kernel"
          /\ \A g \in Hilos : semaforo'[g] = IF g = Siguiente(h) THEN semaforo[g] + 1 ELSE semaforo[g]
      BY <1>0, <1>4 DEF HiloAceptar, Siguiente, TypeOK
    <2> QED BY <1>0, <2>2, <2>3 DEF Turnos
  <1>5. \/ UNCHANGED <<hilo, semaforo, atiende>> /\ (memoria = "hilos" => memoria' = "hilos")
        \/ MemoriaAbrir
        \/ \E h \in Hilos : Hilo(h)
    BY DEF vars, Next, Operador, MemoriaEncender, KernelEncender, CpuEncender, InterfazEncender,
       Memoria, MemoriaLeerConfig, Kernel, KernelConectarMemoria, KernelConectarDispatch,
       KernelConectarInterrupt, KernelConectar, KernelAbrir, KernelAceptar, CpuConectarMemoria,
       CpuServidor, CpuAbrir, CpuEsperarCliente, Interfaz, InterfazConectarMemoria,
       InterfazConectarKernel, InterfazAbrir
  <1> QED BY <1>1, <1>2, <1>3, <1>4, <1>5 DEF Hilo

LEMMA Reparto ==
  ASSUME NEW S, NEW a \in Seq(S), NEW q \in Seq(S), NEW c \in S
  PROVE  /\ a \o Append(q, c) = Append(a \o q, c)
         /\ q # <<>> => (a \o <<Head(q)>>) \o Tail(q) = a \o q
  <1>1. a \o Append(q, c) = Append(a \o q, c)
    OBVIOUS
  <1>2. ASSUME q # <<>> PROVE (a \o <<Head(q)>>) \o Tail(q) = a \o q
    BY <1>2
  <1> QED BY <1>1, <1>2

LEMMA AtendidosTipo == TypeOK => Atendidos \in Seq(Clientes)
  <1> SUFFICES ASSUME TypeOK PROVE Atendidos \in Seq(Clientes)
    OBVIOUS
  <1>1. ASSUME NEW h \in Hilos PROVE Atendido(h) \in Seq(Clientes)
    <2>1. atiende[h] \in Clientes \union {"nadie"}
      BY DEF TypeOK
    <2> QED BY <2>1 DEF Atendido
  <1>2. Atendido("cpu") \in Seq(Clientes) /\ Atendido("kernel") \in Seq(Clientes)
        /\ Atendido("io") \in Seq(Clientes)
    BY <1>1 DEF Hilos
  <1> QED BY <1>2 DEF Atendidos

(* The threads of memoria change who is served and the queue together; the *)
(* other programs only come to the end of the queue.                       *)
LEMMA PasoAtencion ==
  ASSUME TypeOK, Turnos, AtencionPorLlegada, [Next]_vars
  PROVE  AtencionPorLlegada'
  <1> DEFINE q == cola["memoria"]
  <1>0. /\ cola \in [Puertos -> Seq(Clientes)] /\ llegadas \in Seq(Clientes)
        /\ Puertos = {"memoria", "dispatch", "interrupt", "kernel", "interfaz"}
        /\ q \in Seq(Clientes) /\ Atendidos \in Seq(Clientes)
    BY AtendidosTipo DEF TypeOK, Puertos
  <1>1. CASE UNCHANGED <<atiende, llegadas>> /\ cola'["memoria"] = q
    BY <1>1 DEF AtencionPorLlegada, Atendidos, Atendido
  <1>2. ASSUME NEW c \in Clientes, NEW p \in Puertos, Conectar(c, p), atiende' = atiende
        PROVE  AtencionPorLlegada'
    <2>1. Atendidos' = Atendidos
      BY <1>2 DEF Atendidos, Atendido
    <2>2. CASE p = "memoria"
      <3>1. cola'["memoria"] = Append(q, c) /\ llegadas' = Append(llegadas, c)
        BY <1>0, <1>2, <2>2 DEF Conectar
      <3>2. Atendidos \o Append(q, c) = Append(Atendidos \o q, c)
        BY <1>0, Reparto
      <3> QED BY <2>1, <3>1, <3>2 DEF AtencionPorLlegada
    <2>3. CASE p # "memoria"
      <3>1. cola'["memoria"] = q /\ llegadas' = llegadas
        BY <1>0, <1>2, <2>3 DEF Conectar
      <3> QED BY <2>1, <3>1 DEF AtencionPorLlegada
    <2> QED BY <2>2, <2>3
  <1>3. ASSUME NEW h \in Hilos, HiloAceptar(h) PROVE AtencionPorLlegada'
    <2>1. PICK c \in Clientes : Aceptar("memoria", c) /\ atiende' = [atiende EXCEPT ![h] = c]
      BY <1>3 DEF HiloAceptar
    <2>2. /\ q # <<>> /\ c = Head(q) /\ cola'["memoria"] = Tail(q) /\ llegadas' = llegadas
          /\ hilo[h] = "aceptar" /\ c # "nadie"
          /\ \A g \in Hilos : atiende'[g] = IF g = h THEN c ELSE atiende[g]
      BY <1>0, <1>3, <2>1, ClientesTipo DEF HiloAceptar, Aceptar, TypeOK
    <2>3. "cpu" \in Hilos /\ "kernel" \in Hilos /\ "io" \in Hilos
      BY DEF Hilos
    <2>4. Atendidos' = Atendidos \o <<c>>
      <3>1. CASE h = "cpu"
        <4>1. atiende["cpu"] = "nadie" /\ atiende["kernel"] = "nadie" /\ atiende["io"] = "nadie"
          BY <2>2, <2>3, <3>1 DEF Turnos
        <4>2. atiende'["cpu"] = c /\ atiende'["kernel"] = "nadie" /\ atiende'["io"] = "nadie"
          BY <2>2, <2>3, <3>1, <4>1
        <4> QED BY <2>2, <4>1, <4>2 DEF Atendidos, Atendido
      <3>2. CASE h = "kernel"
        <4>1. atiende["cpu"] # "nadie" /\ atiende["kernel"] = "nadie" /\ atiende["io"] = "nadie"
          BY <2>2, <2>3, <3>2 DEF Turnos
        <4>2. atiende'["cpu"] = atiende["cpu"] /\ atiende'["kernel"] = c /\ atiende'["io"] = "nadie"
          BY <2>2, <2>3, <3>2, <4>1
        <4> QED BY <2>2, <4>1, <4>2 DEF Atendidos, Atendido
      <3>3. CASE h = "io"
        <4>1. atiende["cpu"] # "nadie" /\ atiende["kernel"] # "nadie" /\ atiende["io"] = "nadie"
          BY <2>2, <2>3, <3>3 DEF Turnos
        <4>2. /\ atiende'["cpu"] = atiende["cpu"] /\ atiende'["kernel"] = atiende["kernel"]
              /\ atiende'["io"] = c
          BY <2>2, <2>3, <3>3, <4>1
        <4> QED BY <2>2, <4>1, <4>2 DEF Atendidos, Atendido
      <3> QED BY <3>1, <3>2, <3>3 DEF Hilos
    <2>5. (Atendidos \o <<c>>) \o Tail(q) = Atendidos \o q
      BY <1>0, <2>2, Reparto
    <2> QED BY <2>2, <2>4, <2>5 DEF AtencionPorLlegada
  <1>4. ASSUME NEW p \in Puertos, p # "memoria", NEW c, Aceptar(p, c), atiende' = atiende
        PROVE  AtencionPorLlegada'
    <2>1. cola'["memoria"] = q /\ llegadas' = llegadas
      BY <1>0, <1>4 DEF Aceptar
    <2> QED BY <1>1, <1>4, <2>1
  <1>5. CASE Operador \/ MemoriaLeerConfig \/ UNCHANGED vars \/ \E h \in Hilos : HiloEsperarTurno(h)
    <2>1. UNCHANGED <<atiende, llegadas, cola>>
      BY <1>5 DEF Operador, MemoriaEncender, KernelEncender, CpuEncender, InterfazEncender,
         MemoriaLeerConfig, vars, HiloEsperarTurno
    <2> QED BY <1>1, <2>1
  <1>6. CASE MemoriaAbrir
    BY <1>1, <1>6 DEF MemoriaAbrir, AbrirServidor
  <1>7. CASE Kernel
    <2>1. CASE KernelAbrir
      BY <1>1, <2>1 DEF KernelAbrir, AbrirServidor
    <2>2. CASE KernelAceptar
      BY <1>0, <1>4, <2>2 DEF KernelAceptar
    <2>3. CASE KernelConectarMemoria \/ KernelConectarDispatch \/ KernelConectarInterrupt
      BY <1>0, <1>2, <2>3, ClientesTipo DEF KernelConectarMemoria, KernelConectarDispatch,
         KernelConectarInterrupt, KernelConectar
    <2> QED BY <1>7, <2>1, <2>2, <2>3 DEF Kernel
  <1>8. CASE CpuConectarMemoria
    BY <1>0, <1>2, <1>8, ClientesTipo DEF CpuConectarMemoria
  <1>9. ASSUME NEW t \in {"dispatch", "interrupt"}, CpuServidor(t) PROVE AtencionPorLlegada'
    <2>1. CASE CpuAbrir(t)
      BY <1>1, <2>1 DEF CpuAbrir, AbrirServidor
    <2>2. CASE CpuEsperarCliente(t)
      BY <1>0, <1>4, <2>2 DEF CpuEsperarCliente
    <2> QED BY <1>9, <2>1, <2>2 DEF CpuServidor
  <1>10. ASSUME NEW x \in Interfaces, Interfaz(x) PROVE AtencionPorLlegada'
    <2>1. CASE InterfazAbrir(x)
      BY <1>1, <2>1 DEF InterfazAbrir, AbrirServidor
    <2>2. CASE InterfazConectarMemoria(x)
      BY <1>0, <1>2, <2>2, ClientesTipo DEF InterfazConectarMemoria
    <2>3. CASE InterfazConectarKernel(x)
      BY <1>0, <1>2, <2>3, ClientesTipo DEF InterfazConectarKernel
    <2> QED BY <1>10, <2>1, <2>2, <2>3 DEF Interfaz
  <1> QED BY <1>3, <1>5, <1>6, <1>7, <1>8, <1>9, <1>10 DEF Next, Memoria, Hilo

(* memoria serves its clients in the order in which they connected, each   *)
(* by one thread, whatever the order in which programs are started.        *)
THEOREM AtencionCorrecta == Spec => []AtencionPorLlegada
  BY InitTipos, InitTurnos, PasoTipos, PasoTurnos, PasoAtencion, PTL DEF Spec
-----------------------------------------------------------------------------
(* How far the kernel and an interface have come says to whom they are     *)
(* connected.                                                              *)
Conexiones ==
  /\ cpu["memoria"] = "apagado" =>
       cpu["dispatch"] = "apagado" /\ cpu["interrupt"] = "apagado"
  /\ kernel \in {"dispatch", "interrupt", "abrir", "aceptar"} => "kernel" \in Elementos(llegadas)
  /\ kernel \in {"apagado", "memoria", "dispatch"} => cola["dispatch"] = <<>>
  /\ kernel \in {"apagado", "memoria", "dispatch", "interrupt"} => cola["interrupt"] = <<>>
  /\ kernel \in {"interrupt", "abrir", "aceptar"} =>
       cola["dispatch"] = <<"kernel">> \/ cpu["dispatch"] = "atender"
  /\ kernel \in {"abrir", "aceptar"} =>
       cola["interrupt"] = <<"kernel">> \/ cpu["interrupt"] = "atender"
  /\ \A x \in Interfaces :
       /\ interfaz[x] \in {"kernel", "abrir", "servir", "muerta"} => x \in Elementos(llegadas)
       /\ interfaz[x] \in {"abrir", "servir", "muerta"} =>
            x \in atendidas \union Elementos(cola["kernel"])

LEMMA ElementosDe ==
  ASSUME NEW S, NEW q \in Seq(S), NEW c \in S
  PROVE  /\ Elementos(Append(q, c)) = Elementos(q) \union {c}
         /\ q # <<>> => Elementos(q) = Elementos(Tail(q)) \union {Head(q)}
  <1>1. Elementos(Append(q, c)) = Elementos(q) \union {c}
    <2>1. /\ DOMAIN Append(q, c) = 1..Len(q)+1 /\ DOMAIN q = 1..Len(q) /\ Len(q) \in Nat
          /\ Append(q, c)[Len(q)+1] = c
          /\ \A j \in 1..Len(q) : Append(q, c)[j] = q[j]
      OBVIOUS
    <2> QED BY <2>1 DEF Elementos
  <1>2. ASSUME q # <<>> PROVE Elementos(q) = Elementos(Tail(q)) \union {Head(q)}
    <2>1. /\ DOMAIN q = 1..Len(q) /\ DOMAIN Tail(q) = 1..Len(q)-1 /\ Len(q) \in Nat \ {0}
          /\ Head(q) = q[1] /\ \A j \in 1..Len(q)-1 : Tail(q)[j] = q[j+1]
      BY <1>2
    <2>2. \A j \in 1..Len(q) : j = 1 \/ (j-1 \in 1..Len(q)-1 /\ Tail(q)[j-1] = q[j])
      BY <2>1
    <2>3. ASSUME NEW y PROVE y \in Elementos(q) <=> y \in Elementos(Tail(q)) \union {Head(q)}
      <3>1. ASSUME y \in Elementos(q) PROVE y \in Elementos(Tail(q)) \union {Head(q)}
        <4>1. PICK j \in 1..Len(q) : y = q[j]
          BY <2>1, <3>1 DEF Elementos
        <4>2. CASE j = 1
          BY <2>1, <4>1, <4>2
        <4>3. CASE j # 1
          BY <2>1, <2>2, <4>1, <4>3 DEF Elementos
        <4> QED BY <4>2, <4>3
      <3>2. ASSUME y \in Elementos(Tail(q)) \union {Head(q)} PROVE y \in Elementos(q)
        BY <2>1, <3>2 DEF Elementos
      <3> QED BY <3>1, <3>2
    <2> QED BY <2>3
  <1> QED BY <1>1, <1>2

LEMMA InitConexiones == Init => Conexiones
  BY DEF Init, Conexiones, Puertos

LEMMA PasoConexiones ==
  ASSUME TypeOK, Conexiones, [Next]_vars
  PROVE  Conexiones'
  <1>0. /\ cola \in [Puertos -> Seq(Clientes)] /\ llegadas \in Seq(Clientes)
        /\ Puertos = {"memoria", "dispatch", "interrupt", "kernel", "interfaz"}
        /\ cpu \in [Partes -> {"apagado", "conectar", "listo", "abrir", "esperar", "atender"}]
        /\ interfaz \in [Interfaces -> {"apagada", "memoria", "kernel", "abrir", "servir", "muerta"}]
    BY DEF TypeOK, Puertos, Partes
  <1>1. \A c \in Clientes : Elementos(Append(llegadas, c)) = Elementos(llegadas) \union {c}
    BY <1>0, ElementosDe
  <1>2. \A c \in Clientes :
          Elementos(Append(cola["kernel"], c)) = Elementos(cola["kernel"]) \union {c}
    BY <1>0, ElementosDe
  <1>3. CASE UNCHANGED vars
    BY <1>3 DEF vars, Conexiones
  <1>4. CASE MemoriaEncender \/ MemoriaLeerConfig \/ MemoriaAbrir \/ KernelEncender
               \/ \E h \in Hilos : HiloEsperarTurno(h)
    BY <1>4 DEF MemoriaEncender, MemoriaLeerConfig, MemoriaAbrir, KernelEncender,
       HiloEsperarTurno, AbrirServidor, Conexiones
  <1>5. CASE CpuEncender
    <2>1. /\ cpu["memoria"] = "apagado" /\ UNCHANGED <<deKernel, interfaz, red>>
          /\ cpu'["memoria"] = "conectar"
      BY <1>0, <1>5 DEF CpuEncender, Partes
    <2> QED BY <2>1 DEF Conexiones
  <1>6. CASE CpuConectarMemoria
    BY <1>0, <1>1, <1>6, ClientesTipo DEF CpuConectarMemoria, Conectar, Conexiones, Partes
  <1>7. ASSUME NEW h \in Hilos, HiloAceptar(h) PROVE Conexiones'
    BY <1>0, <1>7 DEF HiloAceptar, Aceptar, Conexiones
  <1>8. CASE KernelConectarMemoria
    BY <1>0, <1>1, <1>8, ClientesTipo DEF KernelConectarMemoria, KernelConectar, Conectar, Conexiones
  <1>9. CASE KernelConectarDispatch
    <2>1. /\ kernel = "dispatch" /\ kernel' = "interrupt"
          /\ \A p \in Puertos : p # "dispatch" => cola'[p] = cola[p]
          /\ cola'["dispatch"] = Append(cola["dispatch"], "kernel")
          /\ UNCHANGED <<atendidas, cpu, interfaz, llegadas>>
      BY <1>0, <1>9 DEF KernelConectarDispatch, KernelConectar, Conectar
    <2>2. cola["dispatch"] = <<>>
      BY <2>1 DEF Conexiones
    <2>3. cola'["dispatch"] = <<"kernel">>
      BY <2>1, <2>2
    <2> QED BY <1>0, <2>1, <2>3 DEF Conexiones
  <1>10. CASE KernelConectarInterrupt
    <2>1. /\ kernel = "interrupt" /\ kernel' = "abrir"
          /\ \A p \in Puertos : p # "interrupt" => cola'[p] = cola[p]
          /\ cola'["interrupt"] = Append(cola["interrupt"], "kernel")
          /\ UNCHANGED <<atendidas, cpu, interfaz, llegadas>>
      BY <1>0, <1>10 DEF KernelConectarInterrupt, KernelConectar, Conectar
    <2>2. cola["interrupt"] = <<>>
      BY <2>1 DEF Conexiones
    <2>3. cola'["interrupt"] = <<"kernel">>
      BY <2>1, <2>2
    <2> QED BY <1>0, <2>1, <2>3 DEF Conexiones
  <1>11. CASE KernelAbrir
    BY <1>11 DEF KernelAbrir, AbrirServidor, Conexiones
  <1>12. CASE KernelAceptar
    <2>1. PICK x \in Interfaces : Aceptar("kernel", x) /\ atendidas' = atendidas \union {x}
      BY <1>12 DEF KernelAceptar
    <2>2. Elementos(cola["kernel"]) = Elementos(Tail(cola["kernel"])) \union {x}
      BY <1>0, <2>1, ElementosDe DEF Aceptar
    <2> QED BY <1>0, <1>12, <2>1, <2>2 DEF KernelAceptar, Aceptar, Conexiones
  <1>13. ASSUME NEW t \in {"dispatch", "interrupt"}, CpuAbrir(t) PROVE Conexiones'
    BY <1>0, <1>13 DEF CpuAbrir, AbrirServidor, Conexiones, Partes
  <1>14. ASSUME NEW t \in {"dispatch", "interrupt"}, CpuEsperarCliente(t) PROVE Conexiones'
    <2>1. /\ cola[t] # <<>> /\ cpu[t] = "esperar" /\ UNCHANGED <<deKernel, interfaz, llegadas>>
          /\ \A p \in Puertos : p # t => cola'[p] = cola[p]
          /\ cpu'[t] = "atender" /\ \A u \in Partes : u # t => cpu'[u] = cpu[u]
      BY <1>0, <1>14 DEF CpuEsperarCliente, Aceptar, Partes
    <2> QED BY <1>0, <2>1 DEF Conexiones, Partes
  <1>15. ASSUME NEW x \in Interfaces, InterfazEncender(x) PROVE Conexiones'
    BY <1>0, <1>15 DEF InterfazEncender, Conexiones
  <1>16. ASSUME NEW x \in Interfaces, InterfazConectarMemoria(x) PROVE Conexiones'
    BY <1>0, <1>1, <1>16, ClientesTipo DEF InterfazConectarMemoria, Conectar, Conexiones
  <1>17. ASSUME NEW x \in Interfaces, InterfazConectarKernel(x) PROVE Conexiones'
    BY <1>0, <1>2, <1>17, ClientesTipo DEF InterfazConectarKernel, Conectar, Conexiones
  <1>18. ASSUME NEW x \in Interfaces, InterfazAbrir(x) PROVE Conexiones'
    BY <1>0, <1>18 DEF InterfazAbrir, AbrirServidor, Conexiones
  <1> QED BY <1>3, <1>4, <1>5, <1>6, <1>7, <1>8, <1>9, <1>10, <1>11, <1>12, <1>13, <1>14,
             <1>15, <1>16, <1>17, <1>18
          DEF Next, Operador, Memoria, Hilo, Kernel, CpuServidor, Interfaz

(* The kernel plans nothing before it is connected to memoria and to both  *)
(* servers of the CPU, nor does an interface serve before memoria and the  *)
(* kernel know it.                                                         *)
THEOREM ConectadosCorrecto == Spec => []ConectadosAntesDeServir
  <1>1. Conexiones => ConectadosAntesDeServir
    BY DEF Conexiones, ConectadosAntesDeServir
  <1> QED BY <1>1, InitTipos, InitConexiones, PasoTipos, PasoConexiones, PTL DEF Spec
=============================================================================
