---------------------------- MODULE TramasProofs ----------------------------
(***************************************************************************)
(* What the wire formats of Protocolo give back: lemmas on integers, on    *)
(* slices of sequences and on the frames of each kind of send, for texts   *)
(* of any length and any numbers that fit in an int.                       *)
(***************************************************************************)
EXTENDS Protocolo, SequenceTheorems, TLAPS

(* Four bytes give back the integer they were made from. *)
LEMMA ValorDeEntero ==
  ASSUME NEW n \in Nat, n <= MaxInt
  PROVE  Valor(Entero(n)) = n
  <1> DEFINE q == n \div 256
             r == n \div 65536
             t == n \div 16777216
  <1>1. Valor(Entero(n)) = (n % 256) + 256 * (q % 256) + 65536 * (r % 256) + 16777216 * (t % 256)
    BY SMT DEF Valor, Entero
  <1>2. n \in Nat /\ n < 256 * 16777216
    BY SMT DEF MaxInt
  <1>3. q \in Nat /\ n % 256 \in 0..255 /\ n = 256 * q + (n % 256)
    BY <1>2, SMT
  <1>4. r \in Nat /\ q % 256 \in 0..255 /\ r = q \div 256 /\ q = 256 * r + (q % 256)
    BY <1>2, SMT
  <1>5. t \in Nat /\ r % 256 \in 0..255 /\ t = r \div 256 /\ r = 256 * t + (r % 256)
    BY <1>2, SMT
  <1>6. t % 256 = t
    BY <1>2, SMT
  <1> HIDE DEF q, r, t
  <1> QED BY <1>1, <1>3, <1>4, <1>5, <1>6, SMT

LEMMA EnteroEsBytes ==
  ASSUME NEW n \in Nat
  PROVE  /\ Entero(n) \in Seq(Byte)
         /\ Len(Entero(n)) = 4
  BY SMT DEF Entero, Byte

LEMMA ValorEsNat ==
  ASSUME NEW b \in Seq(Byte), Len(b) = 4
  PROVE  Valor(b) \in Nat
  <1>1. 1 \in 1..Len(b) /\ 2 \in 1..Len(b) /\ 3 \in 1..Len(b) /\ 4 \in 1..Len(b)
    OBVIOUS
  <1>2. b[1] \in Byte /\ b[2] \in Byte /\ b[3] \in Byte /\ b[4] \in Byte
    BY <1>1, ElementOfSeq
  <1>3. b[1] \in Nat /\ b[2] \in Nat /\ b[3] \in Nat /\ b[4] \in Nat
    <2>1. \A k \in Byte : k \in Nat
      BY DEF Byte
    <2> QED BY <1>2, <2>1
  <1> DEFINE w == b[1]
             x == b[2]
             y == b[3]
             z == b[4]
  <1>4. Valor(b) = w + 256 * x + 65536 * y + 16777216 * z
    BY SMT DEF Valor
  <1>5. w \in Nat /\ x \in Nat /\ y \in Nat /\ z \in Nat
    BY <1>3
  <1> HIDE DEF w, x, y, z
  <1> QED BY <1>4, <1>5, SMT

(* A slice that ends inside the first part is a slice of the first part;   *)
(* what follows the first part is the second.                              *)
LEMMA Pelar ==
  ASSUME NEW S, NEW x \in Seq(S), NEW y \in Seq(S),
         NEW m \in Nat, NEW n \in Nat, 1 <= m, n <= Len(x)
  PROVE  SubSeq(x \o y, m, n) = SubSeq(x, m, n)
  <1>1. CASE m <= n
    BY <1>1, SubSeqOfConcat1
  <1>2. CASE n < m
    BY <1>2, SubSeqEmpty
  <1> QED BY <1>1, <1>2

LEMMA Final ==
  ASSUME NEW S, NEW x \in Seq(S), NEW y \in Seq(S)
  PROVE  SubSeq(x \o y, Len(x) + 1, Len(x) + Len(y)) = y
  <1>0. Len(x) \in Nat /\ Len(y) \in Nat
    OBVIOUS
  <1>1. CASE Len(y) = 0
    <2>1. y = <<>>
      BY <1>1, EmptySeq
    <2> QED BY <1>0, <1>1, <2>1, SubSeqEmpty
  <1>2. CASE Len(y) # 0
    <2>1. SubSeq(x \o y, Len(x) + 1, Len(x) + Len(y))
            = SubSeq(y, Len(x) + 1 - Len(x), Len(x) + Len(y) - Len(x))
      BY <1>0, <1>2, SubSeqOfConcat2
    <2> QED BY <1>0, <2>1, SubSeqFull
  <1> QED BY <1>1, <1>2

(* The second of three parts. *)
LEMMA Medio ==
  ASSUME NEW S, NEW x \in Seq(S), NEW y \in Seq(S), NEW z \in Seq(S)
  PROVE  SubSeq(x \o y \o z, Len(x) + 1, Len(x) + Len(y)) = y
  <1>1. x \o y \in Seq(S) /\ Len(x \o y) = Len(x) + Len(y)
        /\ Len(x) \in Nat /\ Len(y) \in Nat
    BY ConcatProperties
  <1>2. SubSeq((x \o y) \o z, Len(x) + 1, Len(x) + Len(y))
          = SubSeq(x \o y, Len(x) + 1, Len(x) + Len(y))
    BY <1>1, Pelar
  <1> QED BY <1>2, Final
-----------------------------------------------------------------------------
(* The bytes of each send and the slices its receiver takes of them.       *)
LEMMA TextoEsBytes ==
  ASSUME NEW t \in Textos
  PROVE  /\ t \in Seq(Byte) /\ Len(t) \in Nat
         /\ Len(t) > 0 /\ 48 + Len(t) <= MaxInt
  <1>1. t \in Seq(Byte) /\ Len(t) > 0
    BY TextosOK
  <1>2. 48 + Len(t) <= MaxInt
    BY LargosOK
  <1> QED BY <1>1, <1>2, LenProperties

(* Joining bytes. *)
LEMMA Unir ==
  ASSUME NEW x \in Seq(Byte), NEW y \in Seq(Byte)
  PROVE  x \o y \in Seq(Byte) /\ Len(x \o y) = Len(x) + Len(y)
         /\ Len(x) \in Nat /\ Len(y) \in Nat
  BY ConcatProperties, LenProperties

LEMMA Asociar ==
  ASSUME NEW x \in Seq(Byte), NEW y \in Seq(Byte), NEW z \in Seq(Byte)
  PROVE  (x \o y) \o z = x \o (y \o z)
  BY ConcatAssociative

LEMMA Partir ==
  ASSUME NEW x \in Seq(Byte), NEW y \in Seq(Byte)
  PROVE  /\ SubSeq(x \o y, 1, Len(x)) = x
         /\ SubSeq(x \o y, Len(x) + 1, Len(x) + Len(y)) = y
  <1>1. Len(x) \in Nat
    BY LenProperties
  <1>2. SubSeq(x \o y, 1, Len(x)) = SubSeq(x, 1, Len(x))
    BY <1>1, Pelar
  <1> QED BY <1>2, SubSeqFull, Final

LEMMA TramaDePaquete ==
  ASSUME NEW op \in Nat, NEW s \in Seq(Byte)
  PROVE  /\ SerializarPaquete(op, s) \in Seq(Byte)
         /\ Len(SerializarPaquete(op, s)) = 8 + Len(s)
         /\ SubSeq(SerializarPaquete(op, s), 1, 4) = Entero(op)
         /\ SubSeq(SerializarPaquete(op, s), 5, 8) = Entero(Len(s))
         /\ SubSeq(SerializarPaquete(op, s), 9, 8 + Len(s)) = s
  <1> DEFINE a == Entero(op)
             b == Entero(Len(s))
  <1>1. a \in Seq(Byte) /\ b \in Seq(Byte) /\ Len(a) = 4 /\ Len(b) = 4 /\ Len(s) \in Nat
    BY EnteroEsBytes, LenProperties
  <1>2. SerializarPaquete(op, s) = a \o b \o s
    BY DEF SerializarPaquete
  <1> HIDE DEF a, b
  <1>3. a \o b \in Seq(Byte) /\ Len(a \o b) = 8
    <2>1. a \o b \in Seq(Byte) /\ Len(a \o b) = Len(a) + Len(b)
      BY <1>1, Unir, Zenon
    <2> QED BY <1>1, <2>1
  <1>4. (a \o b) \o s \in Seq(Byte) /\ Len((a \o b) \o s) = 8 + Len(s)
    BY <1>1, <1>3, Unir
  <1>5. SubSeq((a \o b) \o s, 1, 4) = SubSeq(a \o b, 1, 4)
    BY <1>1, <1>3, Pelar
  <1>6. SubSeq(a \o b, 1, Len(a)) = a
    BY <1>1, Partir
  <1>8. SubSeq(a \o b \o s, Len(a) + 1, Len(a) + Len(b)) = b
    BY <1>1, Medio
  <1>9. SubSeq((a \o b) \o s, Len(a \o b) + 1, Len(a \o b) + Len(s)) = s
    BY <1>1, <1>3, Final
  <1>10. SubSeq((a \o b) \o s, 5, 8) = b /\ SubSeq((a \o b) \o s, 9, 8 + Len(s)) = s
    BY <1>1, <1>3, <1>8, <1>9
  <1> QED BY <1>2, <1>4, <1>5, <1>1, <1>6, <1>10 DEF a, b

LEMMA TramaDePath ==
  ASSUME NEW t \in Seq(Byte)
  PROVE  LET f == Entero(Len(t)) \o t IN
         /\ f \in Seq(Byte) /\ Len(f) = 4 + Len(t)
         /\ SubSeq(f, 1, 4) = Entero(Len(t))
         /\ SubSeq(f, 5, 4 + Len(t)) = t
  <1> DEFINE a == Entero(Len(t))
  <1>1. a \in Seq(Byte) /\ Len(a) = 4 /\ Len(t) \in Nat
    BY EnteroEsBytes, LenProperties
  <1> HIDE DEF a
  <1>2. a \o t \in Seq(Byte) /\ Len(a \o t) = 4 + Len(t)
    BY <1>1, Unir
  <1>3. /\ SubSeq(a \o t, 1, Len(a)) = a
        /\ SubSeq(a \o t, Len(a) + 1, Len(a) + Len(t)) = t
    BY <1>1, Partir
  <1>4. SubSeq(a \o t, 1, 4) = a /\ SubSeq(a \o t, 5, 4 + Len(t)) = t
    <2>1. Len(a) = 4 /\ Len(a) + 1 = 5
      BY <1>1
    <2> QED BY <1>3, <2>1, Zenon
  <1> QED BY <1>2, <1>4 DEF a
-----------------------------------------------------------------------------
(* z begins with x: the slices of x are those of z. *)
Comienza(z, x) ==
  /\ x \in Seq(Byte) /\ z \in Seq(Byte)
  /\ Len(x) <= Len(z)
  /\ \A m, n \in Nat : 1 <= m /\ n <= Len(x) => SubSeq(z, m, n) = SubSeq(x, m, n)

LEMMA ComienzaConSigoMisma ==
  ASSUME NEW x \in Seq(Byte)
  PROVE  Comienza(x, x)
  BY LenProperties DEF Comienza

LEMMA ComienzaAlUnir ==
  ASSUME NEW z, NEW x \in Seq(Byte), NEW y \in Seq(Byte), Comienza(z, x \o y)
  PROVE  Comienza(z, x)
  <1>1. x \o y \in Seq(Byte) /\ Len(x) \in Nat /\ Len(y) \in Nat /\ Len(x \o y) = Len(x) + Len(y)
    BY Unir, Zenon
  <1>2. z \in Seq(Byte) /\ Len(x) + Len(y) <= Len(z) /\ Len(z) \in Nat
    BY <1>1, LenProperties DEF Comienza
  <1>3. ASSUME NEW m \in Nat, NEW n \in Nat, 1 <= m, n <= Len(x)
        PROVE  SubSeq(z, m, n) = SubSeq(x, m, n)
    <2>1. n <= Len(x \o y)
      BY <1>1, <1>3
    <2>2. SubSeq(z, m, n) = SubSeq(x \o y, m, n)
      BY <1>3, <2>1 DEF Comienza
    <2>3. SubSeq(x \o y, m, n) = SubSeq(x, m, n)
      BY <1>3, Pelar
    <2> QED BY <2>2, <2>3
  <1> HIDE DEF Comienza
  <1>4. Len(x) <= Len(z)
    BY <1>1, <1>2
  <1> QED BY <1>2, <1>3, <1>4 DEF Comienza

(* A part that follows x in z. *)
LEMMA TrozoQueSigue ==
  ASSUME NEW z, NEW x \in Seq(Byte), NEW y \in Seq(Byte), Comienza(z, x \o y)
  PROVE  SubSeq(z, Len(x) + 1, Len(x) + Len(y)) = y
  <1>1. Len(x) \in Nat /\ Len(y) \in Nat /\ Len(x \o y) = Len(x) + Len(y)
    BY Unir, Zenon
  <1>2. SubSeq(z, Len(x) + 1, Len(x) + Len(y)) = SubSeq(x \o y, Len(x) + 1, Len(x) + Len(y))
    <2> DEFINE m == Len(x) + 1
               n == Len(x) + Len(y)
    <2>1. m \in Nat /\ n \in Nat /\ 1 <= m /\ n <= Len(x \o y)
      BY <1>1
    <2> HIDE DEF m, n
    <2>2. SubSeq(z, m, n) = SubSeq(x \o y, m, n)
      BY <2>1 DEF Comienza
    <2> QED BY <2>2 DEF m, n
  <1> QED BY <1>2, Partir

LEMMA TrozoPrimero ==
  ASSUME NEW z, NEW x \in Seq(Byte), Comienza(z, x)
  PROVE  SubSeq(z, 1, Len(x)) = x
  <1>1. Len(x) \in Nat
    BY LenProperties
  <1>2. SubSeq(z, 1, Len(x)) = SubSeq(x, 1, Len(x))
    <2> DEFINE m == Len(x)
    <2>1. m \in Nat /\ m <= Len(x)
      BY <1>1
    <2> HIDE DEF m
    <2>2. SubSeq(z, 1, m) = SubSeq(x, 1, m)
      BY <2>1 DEF Comienza
    <2> QED BY <2>2 DEF m
  <1> QED BY <1>2, SubSeqFull

(* A PCB of the kernel and what of it goes on the wire. *)
PcbDe(p) ==
  /\ p.pid \in Nat /\ p.pid <= MaxInt /\ p.pc = 0 /\ p.quantum = 0 /\ p.estado = 2
  /\ p.path \in Seq(Byte) /\ 48 + Len(p.path) <= MaxInt
  /\ p.registros \in Seq(Byte) /\ Len(p.registros) = 28
  /\ p = [pid |-> p.pid, pc |-> p.pc, path |-> p.path, quantum |-> p.quantum,
          estado |-> p.estado, registros |-> p.registros]

LEMMA PcbDeCrear ==
  ASSUME NEW p \in Valores("pcb")
  PROVE  PcbDe(p)
  <1>1. PICK pid \in Pids, t \in Textos, s \in Sobras : p = CrearPcb(pid, t, s)
    BY DEF Valores
  <1>2. pid \in Nat /\ pid <= MaxInt
    <2>1. MaxInt \in Nat
      BY SMT DEF MaxInt
    <2> QED BY <2>1, NumerosOK
  <1>3. t \in Seq(Byte) /\ 48 + Len(t) <= MaxInt
    BY TextoEsBytes
  <1>4. [k \in 1..16 |-> 0] \o s \in Seq(Byte) /\ Len([k \in 1..16 |-> 0] \o s) = 28
    <2> DEFINE z == [k \in 1..16 |-> 0]
    <2>1. z \in Seq(Byte) /\ Len(z) = 16
      BY DEF Byte
    <2>2. s \in Seq(Byte) /\ Len(s) = 12
      BY SobrasOK
    <2> HIDE DEF z
    <2>3. z \o s \in Seq(Byte) /\ Len(z \o s) = Len(z) + Len(s)
      BY <2>1, <2>2, Unir, Zenon
    <2> QED BY <2>1, <2>2, <2>3 DEF z
  <1> DEFINE r == [k \in 1..16 |-> 0] \o s
  <1>5. p = [pid |-> pid, pc |-> 0, path |-> t, quantum |-> 0, estado |-> 2, registros |-> r]
    BY <1>1 DEF CrearPcb
  <1>6. r \in Seq(Byte) /\ Len(r) = 28
    BY <1>4
  <1> HIDE DEF r
  <1>7. p.pid = pid /\ p.pc = 0 /\ p.path = t /\ p.quantum = 0 /\ p.estado = 2 /\ p.registros = r
    BY <1>5
  <1> QED BY <1>2, <1>3, <1>5, <1>6, <1>7 DEF PcbDe

(* recibir_PCB rebuilds the PCB that serializar_pcb wrote. *)
THEOREM PcbIdaYVuelta ==
  ASSUME NEW p, PcbDe(p)
  PROVE  /\ SerializarPcb(p) \in Seq(Byte)
         /\ Len(SerializarPcb(p)) = 48 + Len(p.path)
         /\ DeserializarPcb(SerializarPcb(p)) = p
  <1> DEFINE n == Len(p.path)
             x1 == Entero(p.pid)
             x2 == x1 \o Entero(p.pc)
             x3 == x2 \o Entero(n)
             x4 == x3 \o p.path
             x5 == x4 \o Entero(p.quantum)
             x6 == x5 \o Entero(p.estado)
             x7 == x6 \o p.registros
  <1>0. /\ n \in Nat /\ n <= MaxInt /\ p.path \in Seq(Byte)
        /\ p.registros \in Seq(Byte) /\ Len(p.registros) = 28
    <2>1. p.path \in Seq(Byte) /\ 48 + Len(p.path) <= MaxInt
          /\ p.registros \in Seq(Byte) /\ Len(p.registros) = 28
      BY DEF PcbDe
    <2>2. Len(p.path) \in Nat
      BY <2>1, LenProperties
    <2>3. MaxInt \in Nat
      BY SMT DEF MaxInt
    <2> QED BY <2>1, <2>2, <2>3
  <1>1. /\ p.pid \in Nat /\ p.pid <= MaxInt
        /\ p.pc \in Nat /\ p.pc <= MaxInt
        /\ p.quantum \in Nat /\ p.quantum <= MaxInt
        /\ p.estado \in Nat /\ p.estado <= MaxInt
    <2>1. p.pid \in Nat /\ p.pid <= MaxInt /\ p.pc = 0 /\ p.quantum = 0 /\ p.estado = 2
      BY DEF PcbDe
    <2>2. 0 <= MaxInt /\ 2 <= MaxInt
      BY SMT DEF MaxInt
    <2> QED BY <2>1, <2>2
  <1>2. /\ Valor(Entero(p.pid)) = p.pid
        /\ Valor(Entero(p.pc)) = p.pc
        /\ Valor(Entero(n)) = n
        /\ Valor(Entero(p.quantum)) = p.quantum
        /\ Valor(Entero(p.estado)) = p.estado
    BY <1>0, <1>1, ValorDeEntero
  <1>3. /\ Entero(p.pid) \in Seq(Byte) /\ Len(Entero(p.pid)) = 4
        /\ Entero(p.pc) \in Seq(Byte) /\ Len(Entero(p.pc)) = 4
        /\ Entero(n) \in Seq(Byte) /\ Len(Entero(n)) = 4
        /\ Entero(p.quantum) \in Seq(Byte) /\ Len(Entero(p.quantum)) = 4
        /\ Entero(p.estado) \in Seq(Byte) /\ Len(Entero(p.estado)) = 4
    BY <1>0, <1>1, EnteroEsBytes
  <1>4. SerializarPcb(p) = x7
    BY DEF SerializarPcb
  <1> HIDE DEF n
  <1>5. /\ x1 \in Seq(Byte) /\ Len(x1) = 4
        /\ x2 \in Seq(Byte) /\ Len(x2) = 8
        /\ x3 \in Seq(Byte) /\ Len(x3) = 12
        /\ x4 \in Seq(Byte) /\ Len(x4) = 12 + n
        /\ x5 \in Seq(Byte) /\ Len(x5) = 16 + n
        /\ x6 \in Seq(Byte) /\ Len(x6) = 20 + n
        /\ x7 \in Seq(Byte) /\ Len(x7) = 48 + n
    <2>1. x1 \in Seq(Byte) /\ Len(x1) = 4
      BY <1>3
    <2> HIDE DEF x1
    <2>2. x2 \in Seq(Byte) /\ Len(x2) = Len(x1) + Len(Entero(p.pc))
      BY <1>3, <2>1, Unir, Zenon
    <2> HIDE DEF x2
    <2>3. x3 \in Seq(Byte) /\ Len(x3) = Len(x2) + Len(Entero(n))
      BY <1>3, <2>2, Unir, Zenon
    <2> HIDE DEF x3
    <2>4. x4 \in Seq(Byte) /\ Len(x4) = Len(x3) + Len(p.path)
      BY <1>0, <2>3, Unir, Zenon
    <2> HIDE DEF x4
    <2>5. x5 \in Seq(Byte) /\ Len(x5) = Len(x4) + Len(Entero(p.quantum))
      BY <1>3, <2>4, Unir, Zenon
    <2> HIDE DEF x5
    <2>6. x6 \in Seq(Byte) /\ Len(x6) = Len(x5) + Len(Entero(p.estado))
      BY <1>3, <2>5, Unir, Zenon
    <2> HIDE DEF x6
    <2>7. x7 \in Seq(Byte) /\ Len(x7) = Len(x6) + Len(p.registros)
      BY <1>0, <2>6, Unir, Zenon
    <2> HIDE DEF x7
    <2>8. Len(p.path) = n
      BY DEF n
    <2> QED BY <1>0, <1>3, <2>1, <2>2, <2>3, <2>4, <2>5, <2>6, <2>7, <2>8
  <1>6. /\ Comienza(x7, x7) /\ Comienza(x7, x6) /\ Comienza(x7, x5) /\ Comienza(x7, x4)
        /\ Comienza(x7, x3) /\ Comienza(x7, x2) /\ Comienza(x7, x1)
    BY <1>0, <1>3, <1>5, ComienzaConSigoMisma, ComienzaAlUnir, Zenon
  <1>7. /\ Comienza(x7, x1 \o Entero(p.pc)) /\ Comienza(x7, x2 \o Entero(n))
        /\ Comienza(x7, x3 \o p.path) /\ Comienza(x7, x4 \o Entero(p.quantum))
        /\ Comienza(x7, x5 \o Entero(p.estado)) /\ Comienza(x7, x6 \o p.registros)
    BY <1>6, Zenon
  <1>x. x1 = Entero(p.pid)
    OBVIOUS
  <1> HIDE DEF x1, x2, x3, x4, x5, x6, x7
  <1>a. SubSeq(x7, Len(x1) + 1, Len(x1) + Len(Entero(p.pc))) = Entero(p.pc)
    <2>1. x1 \in Seq(Byte) /\ Entero(p.pc) \in Seq(Byte) /\ Comienza(x7, x1 \o Entero(p.pc))
      BY <1>3, <1>5, <1>7
    <2> QED BY <2>1, TrozoQueSigue
  <1>b. SubSeq(x7, Len(x2) + 1, Len(x2) + Len(Entero(n))) = Entero(n)
    <2>1. x2 \in Seq(Byte) /\ Entero(n) \in Seq(Byte) /\ Comienza(x7, x2 \o Entero(n))
      BY <1>3, <1>5, <1>7
    <2> QED BY <2>1, TrozoQueSigue
  <1>c. SubSeq(x7, Len(x3) + 1, Len(x3) + Len(p.path)) = p.path
    <2>1. x3 \in Seq(Byte) /\ p.path \in Seq(Byte) /\ Comienza(x7, x3 \o p.path)
      BY <1>0, <1>5, <1>7
    <2> QED BY <2>1, TrozoQueSigue
  <1>d. SubSeq(x7, Len(x4) + 1, Len(x4) + Len(Entero(p.quantum))) = Entero(p.quantum)
    <2>1. x4 \in Seq(Byte) /\ Entero(p.quantum) \in Seq(Byte) /\ Comienza(x7, x4 \o Entero(p.quantum))
      BY <1>3, <1>5, <1>7
    <2> QED BY <2>1, TrozoQueSigue
  <1>e. SubSeq(x7, Len(x5) + 1, Len(x5) + Len(Entero(p.estado))) = Entero(p.estado)
    <2>1. x5 \in Seq(Byte) /\ Entero(p.estado) \in Seq(Byte) /\ Comienza(x7, x5 \o Entero(p.estado))
      BY <1>3, <1>5, <1>7
    <2> QED BY <2>1, TrozoQueSigue
  <1>f. SubSeq(x7, Len(x6) + 1, Len(x6) + Len(p.registros)) = p.registros
    <2>1. x6 \in Seq(Byte) /\ p.registros \in Seq(Byte) /\ Comienza(x7, x6 \o p.registros)
      BY <1>0, <1>5, <1>7
    <2> QED BY <2>1, TrozoQueSigue
  <1>8. SubSeq(x7, 1, 4) = Entero(p.pid)
    <2>1. SubSeq(x7, 1, Len(x1)) = x1
      BY <1>5, <1>6, TrozoPrimero, Zenon
    <2> QED BY <1>5, <1>x, <2>1, Zenon
  <1>9. /\ SubSeq(x7, 5, 8) = Entero(p.pc)
        /\ SubSeq(x7, 9, 12) = Entero(n)
        /\ SubSeq(x7, 13, 12 + n) = p.path
        /\ SubSeq(x7, 13 + n, 16 + n) = Entero(p.quantum)
        /\ SubSeq(x7, 17 + n, 20 + n) = Entero(p.estado)
        /\ SubSeq(x7, 21 + n, 48 + n) = p.registros
    <2>1. /\ Len(x1) + 1 = 5 /\ Len(x1) + Len(Entero(p.pc)) = 8
          /\ Len(x2) + 1 = 9 /\ Len(x2) + Len(Entero(n)) = 12
          /\ Len(x3) + 1 = 13 /\ Len(x3) + Len(p.path) = 12 + n
          /\ Len(x4) + 1 = 13 + n /\ Len(x4) + Len(Entero(p.quantum)) = 16 + n
          /\ Len(x5) + 1 = 17 + n /\ Len(x5) + Len(Entero(p.estado)) = 20 + n
          /\ Len(x6) + 1 = 21 + n /\ Len(x6) + Len(p.registros) = 48 + n
      BY <1>0, <1>3, <1>5 DEF n
    <2> QED BY <1>a, <1>b, <1>c, <1>d, <1>e, <1>f, <2>1, Zenon
  <1>10. DeserializarPcb(x7) = [pid |-> p.pid, pc |-> p.pc, path |-> p.path,
           quantum |-> p.quantum, estado |-> p.estado, registros |-> p.registros]
    <2>1. Valor(SubSeq(x7, 9, 12)) = n
      BY <1>2, <1>9, Zenon
    <2> QED BY <1>2, <1>8, <1>9, <2>1, Zenon DEF DeserializarPcb
  <1>11. p = [pid |-> p.pid, pc |-> p.pc, path |-> p.path, quantum |-> p.quantum,
              estado |-> p.estado, registros |-> p.registros]
    BY DEF PcbDe
  <1> QED BY <1>4, <1>5, <1>10, <1>11, Zenon DEF n
-----------------------------------------------------------------------------
(* The packet of an instruction, as it is after k values.                  *)
Parte(l, k) ==
  CASE k = 0 -> <<>>
    [] k = 1 -> AgregarAPaquete(<<>>, l[1])
    [] k = 2 -> AgregarAPaquete(AgregarAPaquete(<<>>, l[1]), l[2])
    [] k = 3 -> AgregarAPaquete(AgregarAPaquete(AgregarAPaquete(<<>>, l[1]), l[2]), l[3])
    [] k = 4 -> StreamDe(l)

LEMMA InstruccionEsBytes ==
  ASSUME NEW l \in Instrucciones
  PROVE  /\ l \in Seq(Seq(Byte)) /\ Len(l) = 4
         /\ \A k \in 1..4 : l[k] \in Seq(Byte) /\ Len(l[k]) \in Nat /\ Len(l[k]) <= MaxInt
         /\ 16 + Len(l[1]) + Len(l[2]) + Len(l[3]) + Len(l[4]) <= MaxInt
  <1>1. l \in Seq(Textos \union {<<>>}) /\ Len(l) = 4
    BY InstruccionesOK
  <1>2. Textos \union {<<>>} \subseteq Seq(Byte)
    <2>1. \A t \in Textos : t \in Seq(Byte)
      BY TextoEsBytes
    <2>2. <<>> \in Seq(Byte)
      OBVIOUS
    <2> QED BY <2>1, <2>2
  <1>3. l \in Seq(Seq(Byte))
    BY <1>1, <1>2, SeqMonotonic
  <1>4. \A k \in 1..4 : l[k] \in Seq(Byte)
    BY <1>1, <1>3, ElementOfSeq
  <1>5. \A k \in 1..4 : Len(l[k]) \in Nat
    BY <1>4, LenProperties
  <1>6. 16 + Len(l[1]) + Len(l[2]) + Len(l[3]) + Len(l[4]) <= MaxInt
    BY LargosOK
  <1>7. MaxInt \in Nat
    BY SMT DEF MaxInt
  <1>8. \A k \in 1..4 : Len(l[k]) <= MaxInt
    <2> DEFINE a == Len(l[1])
               b == Len(l[2])
               c == Len(l[3])
               d == Len(l[4])
    <2>1. a \in Nat /\ b \in Nat /\ c \in Nat /\ d \in Nat
      BY <1>5
    <2>2. 16 + a + b + c + d <= MaxInt
      BY <1>6
    <2> HIDE DEF a, b, c, d
    <2>3. a <= MaxInt /\ b <= MaxInt /\ c <= MaxInt /\ d <= MaxInt
      BY <1>7, <2>1, <2>2
    <2> QED BY <2>3 DEF a, b, c, d
  <1> QED BY <1>1, <1>3, <1>4, <1>5, <1>6, <1>8

LEMMA PartesDeStream ==
  ASSUME NEW l \in Instrucciones
  PROVE  /\ Parte(l, 0) = <<>> /\ Parte(l, 4) = StreamDe(l)
         /\ \A k \in 0..3 : Parte(l, k + 1) = Parte(l, k) \o Entero(Len(l[k + 1])) \o l[k + 1]
  <1> DEFINE q1 == AgregarAPaquete(<<>>, l[1])
             q2 == AgregarAPaquete(q1, l[2])
             q3 == AgregarAPaquete(q2, l[3])
  <1>1. /\ Parte(l, 0) = <<>> /\ Parte(l, 1) = q1 /\ Parte(l, 2) = q2 /\ Parte(l, 3) = q3
        /\ Parte(l, 4) = StreamDe(l)
    BY DEF Parte
  <1>2. StreamDe(l) = AgregarAPaquete(q3, l[4])
    BY DEF StreamDe
  <1> HIDE DEF q1, q2, q3
  <1>3. \A x, v : AgregarAPaquete(x, v) = x \o Entero(Len(v)) \o v
    BY DEF AgregarAPaquete
  <1>4. /\ q1 = <<>> \o Entero(Len(l[1])) \o l[1]
        /\ q2 = q1 \o Entero(Len(l[2])) \o l[2]
        /\ q3 = q2 \o Entero(Len(l[3])) \o l[3]
        /\ StreamDe(l) = q3 \o Entero(Len(l[4])) \o l[4]
    BY <1>2, <1>3 DEF q1, q2, q3
  <1>5. ASSUME NEW k \in 0..3
        PROVE  Parte(l, k + 1) = Parte(l, k) \o Entero(Len(l[k + 1])) \o l[k + 1]
    <2>0. k = 0 \/ k = 1 \/ k = 2 \/ k = 3
      OBVIOUS
    <2>1. CASE k = 0
      <3>1. k + 1 = 1
        BY <2>1
      <3> QED BY <1>1, <1>4, <2>1, <3>1, Zenon
    <2>2. CASE k = 1
      <3>1. k + 1 = 2
        BY <2>2
      <3> QED BY <1>1, <1>4, <2>2, <3>1, Zenon
    <2>3. CASE k = 2
      <3>1. k + 1 = 3
        BY <2>3
      <3> QED BY <1>1, <1>4, <2>3, <3>1, Zenon
    <2>4. CASE k = 3
      <3>1. k + 1 = 4
        BY <2>4
      <3> QED BY <1>1, <1>4, <2>4, <3>1, Zenon
    <2> QED BY <2>0, <2>1, <2>2, <2>3, <2>4
  <1> QED BY <1>1, <1>5

LEMMA LargosDePartes ==
  ASSUME NEW l \in Instrucciones
  PROVE  /\ \A k \in 0..4 : Parte(l, k) \in Seq(Byte) /\ Len(Parte(l, k)) \in Nat
         /\ \A k \in 0..3 : Len(Parte(l, k + 1)) = Len(Parte(l, k)) + 4 + Len(l[k + 1])
         /\ \A k \in 0..3 : Len(Parte(l, k)) < Len(StreamDe(l))
         /\ Len(StreamDe(l)) <= MaxInt
  <1>1. ASSUME NEW x \in Seq(Byte), NEW z \in Seq(Byte)
        PROVE  /\ x \o Entero(Len(z)) \o z \in Seq(Byte)
               /\ Len(x \o Entero(Len(z)) \o z) = Len(x) + 4 + Len(z)
    <2> DEFINE y == Entero(Len(z))
    <2>1. Len(z) \in Nat
      BY LenProperties
    <2>2. y \in Seq(Byte) /\ Len(y) = 4
      BY <2>1, EnteroEsBytes
    <2> HIDE DEF y
    <2>3. x \o y \in Seq(Byte) /\ Len(x \o y) = Len(x) + Len(y) /\ Len(x) \in Nat
      BY <2>2, Unir, Zenon
    <2>4. (x \o y) \o z \in Seq(Byte) /\ Len((x \o y) \o z) = Len(x \o y) + Len(z)
      BY <2>3, Unir, Zenon
    <2> QED BY <2>1, <2>2, <2>3, <2>4 DEF y
  <1>2. l[1] \in Seq(Byte) /\ l[2] \in Seq(Byte) /\ l[3] \in Seq(Byte) /\ l[4] \in Seq(Byte)
    <2>1. 1 \in 1..4 /\ 2 \in 1..4 /\ 3 \in 1..4 /\ 4 \in 1..4
      OBVIOUS
    <2> QED BY <2>1, InstruccionEsBytes, Zenon
  <1>3. Parte(l, 0) \in Seq(Byte) /\ Len(Parte(l, 0)) = 0
    BY PartesDeStream, EmptySeq
  <1>4. /\ Parte(l, 1) = Parte(l, 0) \o Entero(Len(l[1])) \o l[1]
        /\ Parte(l, 2) = Parte(l, 1) \o Entero(Len(l[2])) \o l[2]
        /\ Parte(l, 3) = Parte(l, 2) \o Entero(Len(l[3])) \o l[3]
        /\ Parte(l, 4) = Parte(l, 3) \o Entero(Len(l[4])) \o l[4]
    <2>1. \A k \in 0..3 : \A j : j = k + 1 => Parte(l, j) = Parte(l, k) \o Entero(Len(l[j])) \o l[j]
      BY PartesDeStream
    <2>2. /\ 0 \in 0..3 /\ 1 \in 0..3 /\ 2 \in 0..3 /\ 3 \in 0..3
          /\ 1 = 0 + 1 /\ 2 = 1 + 1 /\ 3 = 2 + 1 /\ 4 = 3 + 1
      OBVIOUS
    <2> QED BY <2>1, <2>2, Zenon
  <1>5. /\ Parte(l, 1) \in Seq(Byte) /\ Len(Parte(l, 1)) = Len(Parte(l, 0)) + 4 + Len(l[1])
        /\ Parte(l, 2) \in Seq(Byte) /\ Len(Parte(l, 2)) = Len(Parte(l, 1)) + 4 + Len(l[2])
        /\ Parte(l, 3) \in Seq(Byte) /\ Len(Parte(l, 3)) = Len(Parte(l, 2)) + 4 + Len(l[3])
        /\ Parte(l, 4) \in Seq(Byte) /\ Len(Parte(l, 4)) = Len(Parte(l, 3)) + 4 + Len(l[4])
    <2>1. Parte(l, 1) \in Seq(Byte) /\ Len(Parte(l, 1)) = Len(Parte(l, 0)) + 4 + Len(l[1])
      BY <1>1, <1>2, <1>3, <1>4, Zenon
    <2>2. Parte(l, 2) \in Seq(Byte) /\ Len(Parte(l, 2)) = Len(Parte(l, 1)) + 4 + Len(l[2])
      BY <1>1, <1>2, <1>4, <2>1, Zenon
    <2>3. Parte(l, 3) \in Seq(Byte) /\ Len(Parte(l, 3)) = Len(Parte(l, 2)) + 4 + Len(l[3])
      BY <1>1, <1>2, <1>4, <2>2, Zenon
    <2>4. Parte(l, 4) \in Seq(Byte) /\ Len(Parte(l, 4)) = Len(Parte(l, 3)) + 4 + Len(l[4])
      BY <1>1, <1>2, <1>4, <2>3, Zenon
    <2> QED BY <2>1, <2>2, <2>3, <2>4, Zenon
  <1>7. \A k \in 0..4 : k = 0 \/ k = 1 \/ k = 2 \/ k = 3 \/ k = 4
    OBVIOUS
  <1>8. \A k \in 0..4 : Parte(l, k) \in Seq(Byte) /\ Len(Parte(l, k)) \in Nat
    BY <1>3, <1>5, <1>7, LenProperties, Zenon
  <1> DEFINE a == Len(l[1])
             b == Len(l[2])
             c == Len(l[3])
             d == Len(l[4])
             p1 == Len(Parte(l, 1))
             p2 == Len(Parte(l, 2))
             p3 == Len(Parte(l, 3))
             p4 == Len(Parte(l, 4))
  <1>9. a \in Nat /\ b \in Nat /\ c \in Nat /\ d \in Nat /\ 16 + a + b + c + d <= MaxInt
    BY <1>2, InstruccionEsBytes, LenProperties, Zenon
  <1>10. p1 = 0 + 4 + a /\ p2 = p1 + 4 + b /\ p3 = p2 + 4 + c /\ p4 = p3 + 4 + d
    BY <1>3, <1>5, Zenon
  <1>11. MaxInt \in Nat
    BY SMT DEF MaxInt
  <1>12. 0 < p4 /\ p1 < p4 /\ p2 < p4 /\ p3 < p4 /\ p4 <= MaxInt
    <2> HIDE DEF a, b, c, d, p1, p2, p3, p4
    <2> QED BY <1>9, <1>10, <1>11
  <1>13. p4 = Len(StreamDe(l))
    BY PartesDeStream
  <1> HIDE DEF p1, p2, p3, p4
  <1>14. \A k \in 0..3 : Len(Parte(l, k)) < Len(StreamDe(l))
    <2>1. \A k \in 0..3 : k = 0 \/ k = 1 \/ k = 2 \/ k = 3
      OBVIOUS
    <2> QED BY <1>3, <1>12, <1>13, <2>1, Zenon DEF p1, p2, p3
  <1>15. \A k \in 0..3 : Len(Parte(l, k + 1)) = Len(Parte(l, k)) + 4 + Len(l[k + 1])
    <2>1. \A k \in 0..3 : \/ k = 0 /\ k + 1 = 1
                          \/ k = 1 /\ k + 1 = 2
                          \/ k = 2 /\ k + 1 = 3
                          \/ k = 3 /\ k + 1 = 4
      OBVIOUS
    <2> QED BY <1>5, <2>1, Zenon
  <1> QED BY <1>8, <1>12, <1>13, <1>14, <1>15, Zenon

(* recibir_paquete at the value after k: its length, its bytes and where   *)
(* the next one begins.                                                    *)
LEMMA ValorDelStream ==
  ASSUME NEW l \in Instrucciones, NEW k \in 0..3
  PROVE  LET d == Len(Parte(l, k)) IN
         /\ Valor(SubSeq(StreamDe(l), d + 1, d + 4)) = Len(l[k + 1])
         /\ SubSeq(StreamDe(l), d + 5, d + 4 + Len(l[k + 1])) = l[k + 1]
         /\ d + 4 + Len(l[k + 1]) = Len(Parte(l, k + 1))
  <1> DEFINE s == StreamDe(l)
             x == Parte(l, k)
             y == Entero(Len(l[k + 1]))
             z == l[k + 1]
  <1>0. k + 1 \in 1..4 /\ k \in 0..4 /\ k + 1 \in 0..4
    OBVIOUS
  <1>1. /\ z \in Seq(Byte) /\ Len(z) \in Nat /\ Len(z) <= MaxInt
    BY <1>0, InstruccionEsBytes, Zenon
  <1>2. y \in Seq(Byte) /\ Len(y) = 4 /\ Valor(y) = Len(z)
    BY <1>1, EnteroEsBytes, ValorDeEntero
  <1>3. x \in Seq(Byte) /\ Len(x) \in Nat /\ Len(Parte(l, k + 1)) = Len(x) + 4 + Len(z)
    BY <1>0, LargosDePartes, Zenon
  <1>4. Comienza(s, Parte(l, k + 1))
    <2>1. \A j \in 0..3 : Comienza(s, Parte(l, j + 1)) => Comienza(s, Parte(l, j))
      <3> SUFFICES ASSUME NEW j \in 0..3, Comienza(s, Parte(l, j + 1))
                   PROVE  Comienza(s, Parte(l, j))
        OBVIOUS
      <3> DEFINE u == Parte(l, j)
                 v == Entero(Len(l[j + 1]))
                 w == l[j + 1]
      <3>0. j + 1 \in 1..4 /\ j \in 0..4
        OBVIOUS
      <3>1. w \in Seq(Byte) /\ Len(w) \in Nat
        BY <3>0, InstruccionEsBytes, Zenon
      <3>2. v \in Seq(Byte)
        BY <3>1, EnteroEsBytes
      <3>3. u \in Seq(Byte)
        BY <3>0, LargosDePartes, Zenon
      <3>4. Comienza(s, (u \o v) \o w)
        BY PartesDeStream
      <3> HIDE DEF s, u, v, w
      <3>5. u \o v \in Seq(Byte)
        BY <3>2, <3>3, Unir, Zenon
      <3>6. Comienza(s, u \o v)
        BY <3>1, <3>4, <3>5, ComienzaAlUnir, Zenon
      <3>7. Comienza(s, u)
        BY <3>2, <3>3, <3>6, ComienzaAlUnir, Zenon
      <3> QED BY <3>7 DEF u
    <2>2. Comienza(s, Parte(l, 4))
      <3>0. 4 \in 0..4
        OBVIOUS
      <3>1. Parte(l, 4) \in Seq(Byte) /\ s = Parte(l, 4)
        BY <3>0, LargosDePartes, PartesDeStream, Zenon
      <3> QED BY <3>1, ComienzaConSigoMisma
    <2> HIDE DEF s
    <2>3. Comienza(s, Parte(l, 3))
      BY <2>1, <2>2
    <2>4. Comienza(s, Parte(l, 2))
      BY <2>1, <2>3
    <2>5. Comienza(s, Parte(l, 1))
      BY <2>1, <2>4
    <2>6. k = 0 \/ k = 1 \/ k = 2 \/ k = 3
      OBVIOUS
    <2> QED BY <2>2, <2>3, <2>4, <2>5, <2>6
  <1>5. Comienza(s, (x \o y) \o z)
    BY <1>4, PartesDeStream
  <1> HIDE DEF s, x, y, z
  <1>6. x \o y \in Seq(Byte) /\ Len(x \o y) = Len(x) + Len(y)
    BY <1>2, <1>3, Unir, Zenon
  <1>7. Comienza(s, x \o y)
    BY <1>1, <1>5, <1>6, ComienzaAlUnir, Zenon
  <1>8. SubSeq(s, Len(x) + 1, Len(x) + Len(y)) = y
    BY <1>2, <1>3, <1>7, TrozoQueSigue, Zenon
  <1>9. SubSeq(s, Len(x \o y) + 1, Len(x \o y) + Len(z)) = z
    BY <1>1, <1>5, <1>6, TrozoQueSigue, Zenon
  <1>10. /\ Len(x) + Len(y) = Len(x) + 4 /\ Len(x \o y) + 1 = Len(x) + 5
         /\ Len(x \o y) + Len(z) = Len(x) + 4 + Len(z)
    BY <1>1, <1>2, <1>3, <1>6
  <1>11. /\ SubSeq(s, Len(x) + 1, Len(x) + 4) = y
         /\ SubSeq(s, Len(x) + 5, Len(x) + 4 + Len(z)) = z
    BY <1>8, <1>9, <1>10, Zenon
  <1> QED BY <1>2, <1>3, <1>11 DEF s, x, z
-----------------------------------------------------------------------------
(* What can be sent, as the history keeps it, and its bytes: a header that *)
(* ends in the length of the body, and the body.                           *)
Clases == {"mensaje", "path", "operacion", "pcb", "paquete"}
Mandables == UNION {{<<c, v>> : v \in Valores(c)} : c \in Clases}

Cabeza(c) == CASE c \in {"path", "operacion"} -> 4 [] c = "pcb" -> 5 [] OTHER -> 8

Cuerpo(e) ==
  CASE e[1] = "pcb" -> SerializarPcb(e[2])
    [] e[1] = "paquete" -> StreamDe(e[2])
    [] OTHER -> e[2]

Trama(e) ==
  CASE e[1] = "mensaje" -> SerializarPaquete(MENSAJE, e[2])
    [] e[1] = "paquete" -> SerializarPaquete(INSTRUCCION, StreamDe(e[2]))
    [] e[1] = "pcb" -> EnviarPcb(e[2])
    [] OTHER -> Entero(Len(e[2])) \o e[2]

LEMMA MandableEsPar ==
  ASSUME NEW e \in Mandables
  PROVE  e[1] \in Clases /\ e[2] \in Valores(e[1]) /\ e = <<e[1], e[2]>>
  BY DEF Mandables

LEMMA CuerpoEsBytes ==
  ASSUME NEW e \in Mandables
  PROVE  Cuerpo(e) \in Seq(Byte) /\ Len(Cuerpo(e)) \in Nat /\ Len(Cuerpo(e)) <= MaxInt
  <1>1. MaxInt \in Nat
    BY SMT DEF MaxInt
  <1>2. CASE e[1] \in {"mensaje", "path", "operacion"}
    <2>1. e[2] \in Textos /\ Cuerpo(e) = e[2]
      <3>1. e[2] \in Valores(e[1])
        BY MandableEsPar
      <3>2. Valores(e[1]) = Textos
        BY <1>2 DEF Valores
      <3> QED BY <1>2, <3>1, <3>2 DEF Cuerpo
    <2>2. Cuerpo(e) \in Seq(Byte) /\ Len(Cuerpo(e)) \in Nat /\ 48 + Len(Cuerpo(e)) <= MaxInt
      BY <2>1, TextoEsBytes
    <2> QED BY <1>1, <2>2
  <1>3. CASE e[1] = "pcb"
    <2>1. PcbDe(e[2]) /\ Cuerpo(e) = SerializarPcb(e[2])
      BY <1>3, MandableEsPar, PcbDeCrear DEF Cuerpo
    <2>2. Cuerpo(e) \in Seq(Byte) /\ Len(Cuerpo(e)) = 48 + Len(e[2].path)
      BY <2>1, PcbIdaYVuelta
    <2>3. 48 + Len(e[2].path) <= MaxInt
      BY <2>1 DEF PcbDe
    <2> QED BY <2>2, <2>3, LenProperties
  <1>4. CASE e[1] = "paquete"
    <2>1. e[2] \in Instrucciones /\ Cuerpo(e) = StreamDe(e[2])
      <3>1. e[2] \in Valores(e[1])
        BY MandableEsPar
      <3>2. Valores(e[1]) = Instrucciones
        BY <1>4 DEF Valores
      <3> QED BY <1>4, <3>1, <3>2 DEF Cuerpo
    <2>2. StreamDe(e[2]) \in Seq(Byte) /\ Len(StreamDe(e[2])) <= MaxInt
      <3>1. 4 \in 0..4
        OBVIOUS
      <3> QED BY <2>1, <3>1, LargosDePartes, PartesDeStream, Zenon
    <2> QED BY <2>1, <2>2, LenProperties
  <1> QED BY <1>2, <1>3, <1>4, MandableEsPar DEF Clases

LEMMA TramaDeEnvio ==
  ASSUME NEW e \in Mandables
  PROVE  LET h == Cabeza(e[1])
             c == Cuerpo(e) IN
         /\ Trama(e) \in Seq(Byte) /\ Len(Trama(e)) = h + Len(c)
         /\ SubSeq(Trama(e), h - 3, h) = Entero(Len(c))
         /\ SubSeq(Trama(e), h + 1, h + Len(c)) = c
         /\ e[1] = "mensaje" => SubSeq(Trama(e), 1, 4) = Entero(MENSAJE)
  <1> DEFINE c == Cuerpo(e)
  <1>0. c \in Seq(Byte) /\ Len(c) \in Nat
    BY CuerpoEsBytes
  <1>1. CASE e[1] \in {"mensaje", "paquete"}
    <2>1. PICK op \in Nat : Trama(e) = SerializarPaquete(op, c) /\ (e[1] = "mensaje" => op = MENSAJE)
      BY <1>1 DEF Trama, Cuerpo, MENSAJE, INSTRUCCION
    <2>2. Cabeza(e[1]) = 8
      BY <1>1 DEF Cabeza
    <2>3. 8 - 3 = 5 /\ 8 + 1 = 9
      OBVIOUS
    <2> HIDE DEF c
    <2>4. /\ Trama(e) \in Seq(Byte) /\ Len(Trama(e)) = 8 + Len(c)
          /\ SubSeq(Trama(e), 5, 8) = Entero(Len(c))
          /\ SubSeq(Trama(e), 9, 8 + Len(c)) = c
          /\ SubSeq(Trama(e), 1, 4) = Entero(op)
      <3> DEFINE f == SerializarPaquete(op, c)
      <3>1. /\ f \in Seq(Byte) /\ Len(f) = 8 + Len(c)
            /\ SubSeq(f, 5, 8) = Entero(Len(c))
            /\ SubSeq(f, 9, 8 + Len(c)) = c
            /\ SubSeq(f, 1, 4) = Entero(op)
        BY <1>0, TramaDePaquete, Zenon
      <3>2. Trama(e) = f
        BY <2>1
      <3> HIDE DEF f
      <3> QED BY <3>1, <3>2
    <2> QED BY <2>1, <2>2, <2>3, <2>4, Zenon DEF c
  <1>2. CASE e[1] \in {"path", "operacion"}
    <2>1. Trama(e) = Entero(Len(c)) \o c /\ Cabeza(e[1]) = 4 /\ e[1] # "mensaje"
      BY <1>2 DEF Trama, Cuerpo, Cabeza
    <2>2. 4 - 3 = 1 /\ 4 + 1 = 5
      OBVIOUS
    <2> HIDE DEF c
    <2>3. /\ Trama(e) \in Seq(Byte) /\ Len(Trama(e)) = 4 + Len(c)
          /\ SubSeq(Trama(e), 1, 4) = Entero(Len(c))
          /\ SubSeq(Trama(e), 5, 4 + Len(c)) = c
      BY <1>0, <2>1, TramaDePath
    <2> QED BY <2>1, <2>2, <2>3, Zenon DEF c
  <1>3. CASE e[1] = "pcb"
    <2> DEFINE x == <<PCB>>
               y == Entero(Len(c))
    <2>1. Trama(e) = x \o y \o c /\ Cabeza(e[1]) = 5 /\ e[1] # "mensaje"
      BY <1>3 DEF Trama, Cuerpo, Cabeza, EnviarPcb
    <2>2. x \in Seq(Byte) /\ Len(x) = 1
      BY DEF PCB, Byte
    <2>3. y \in Seq(Byte) /\ Len(y) = 4
      BY <1>0, EnteroEsBytes
    <2>4. 5 - 3 = 1 + 1 /\ 1 + 4 = 5
      OBVIOUS
    <2> HIDE DEF c, x, y
    <2>5. x \o y \in Seq(Byte) /\ Len(x \o y) = 5
      <3>1. x \o y \in Seq(Byte) /\ Len(x \o y) = Len(x) + Len(y)
        BY <2>2, <2>3, Unir, Zenon
      <3> QED BY <2>2, <2>3, <2>4, <3>1, Zenon
    <2>6. (x \o y) \o c \in Seq(Byte) /\ Len((x \o y) \o c) = 5 + Len(c)
      <3>1. (x \o y) \o c \in Seq(Byte) /\ Len((x \o y) \o c) = Len(x \o y) + Len(c)
        BY <1>0, <2>5, Unir, Zenon
      <3> QED BY <2>5, <3>1, Zenon
    <2>7. SubSeq(x \o y \o c, Len(x) + 1, Len(x) + Len(y)) = y
      BY <1>0, <2>2, <2>3, Medio, Zenon
    <2>8. SubSeq((x \o y) \o c, Len(x \o y) + 1, Len(x \o y) + Len(c)) = c
      BY <1>0, <2>5, Partir, Zenon
    <2> QED BY <2>1, <2>2, <2>3, <2>4, <2>5, <2>6, <2>7, <2>8, Zenon DEF c, y
  <1> QED BY <1>1, <1>2, <1>3, MandableEsPar DEF Clases
-----------------------------------------------------------------------------
(* The bytes B on their way are in step with the history E: r sends have   *)
(* been received and av bytes of the next; what follows in B is the rest   *)
(* of that one and the others, whole, each where the one before it ends.   *)
(* ini[n] is where the n-th begins in B, below zero if part was read.      *)
EnPaso(B, r, av, E) ==
  \E ini \in [1..(Len(E) + 1) -> Int] :
    /\ ini[r + 1] + av = 0
    /\ ini[Len(E) + 1] = Len(B)
    /\ \A n \in (r + 1)..Len(E) :
         /\ ini[n + 1] = ini[n] + Len(Trama(E[n]))
         /\ ini[n + 1] <= Len(B)
         /\ \A j \in 1..Len(Trama(E[n])) : ini[n] + j >= 1 => B[ini[n] + j] = Trama(E[n])[j]

LEMMA EnPasoAlEmpezar == EnPaso(<<>>, 0, 0, <<>>)
  <1> DEFINE ini == [n \in 1..(0 + 1) |-> 0]
  <1>1. Len(<<>>) = 0
    BY EmptySeq
  <1>2. ini \in [1..(0 + 1) -> Int] /\ ini[0 + 1] = 0
    OBVIOUS
  <1>4. 0 + 0 = 0
    OBVIOUS
  <1>3. \A n \in (0 + 1)..0 : FALSE
    OBVIOUS
  <1> HIDE DEF ini
  <1> QED BY <1>1, <1>2, <1>3, <1>4, Zenon DEF EnPaso

(* Something begins to be sent. *)
LEMMA EnPasoAlMandar ==
  ASSUME NEW B \in Seq(Byte), NEW E \in Seq(Mandables), NEW r \in 0..Len(E), NEW av \in Nat,
         NEW e \in Mandables, EnPaso(B, r, av, E)
  PROVE  EnPaso(B \o Trama(e), r, av, Append(E, e))
  <1> DEFINE T == Trama(e)
             C == B \o T
             F == Append(E, e)
             N == Len(E)
  <1>1. PICK ini \in [1..(N + 1) -> Int] :
          /\ ini[r + 1] + av = 0
          /\ ini[N + 1] = Len(B)
          /\ \A n \in (r + 1)..N :
               /\ ini[n + 1] = ini[n] + Len(Trama(E[n]))
               /\ ini[n + 1] <= Len(B)
               /\ \A j \in 1..Len(Trama(E[n])) : ini[n] + j >= 1 => B[ini[n] + j] = Trama(E[n])[j]
    BY DEF EnPaso
  <1>2. T \in Seq(Byte) /\ Len(T) \in Nat /\ Len(B) \in Nat /\ N \in Nat
    BY TramaDeEnvio, LenProperties
  <1>3. /\ C \in Seq(Byte) /\ Len(C) = Len(B) + Len(T)
        /\ \A i \in 1..Len(B) : C[i] = B[i]
        /\ \A i \in 1..Len(T) : C[Len(B) + i] = T[i]
    BY <1>2 DEF Byte
  <1>4. /\ F \in Seq(Mandables) /\ Len(F) = N + 1 /\ F[N + 1] = e
        /\ \A n \in 1..N : F[n] = E[n]
    BY <1>2
  <1> HIDE DEF T, C, F, N
  <1> DEFINE nini == [n \in 1..(N + 2) |-> IF n = N + 2 THEN Len(C) ELSE ini[n]]
  <1>5. nini \in [1..(Len(F) + 1) -> Int]
    BY <1>2, <1>3, <1>4
  <1>6. nini[r + 1] + av = 0 /\ nini[Len(F) + 1] = Len(C)
    BY <1>1, <1>2, <1>4 DEF N
  <1>7. ASSUME NEW n \in (r + 1)..Len(F)
        PROVE  /\ nini[n + 1] = nini[n] + Len(Trama(F[n]))
               /\ nini[n + 1] <= Len(C)
               /\ \A j \in 1..Len(Trama(F[n])) :
                    nini[n] + j >= 1 => C[nini[n] + j] = Trama(F[n])[j]
    <2>1. CASE n = N + 1
      <3>1. nini[n] = Len(B) /\ nini[n + 1] = Len(C) /\ Trama(F[n]) = T
        BY <1>1, <1>2, <1>4, <2>1 DEF T
      <3> HIDE DEF nini
      <3>2. \A j \in 1..Len(T) : C[Len(B) + j] = T[j]
        BY <1>3
      <3> QED BY <1>2, <1>3, <3>1, <3>2
    <2>2. CASE n # N + 1
      <3>1. n \in (r + 1)..N /\ n \in 1..N /\ n + 1 \in 1..(N + 1) /\ n + 1 # N + 2 /\ n # N + 2
        BY <1>2, <1>4, <2>2 DEF N
      <3>2. F[n] = E[n] /\ nini[n] = ini[n] /\ nini[n + 1] = ini[n + 1]
        BY <1>2, <1>4, <3>1
      <3>3. /\ ini[n + 1] = ini[n] + Len(Trama(E[n])) /\ ini[n + 1] <= Len(B)
        BY <1>1, <3>1
      <3>4. ini[n] \in Int /\ ini[n + 1] \in Int
        BY <3>1, <1>2
      <3>5. ASSUME NEW j \in 1..Len(Trama(E[n])), ini[n] + j >= 1
            PROVE  C[ini[n] + j] = Trama(E[n])[j]
        <4>0. E[n] \in Mandables
          BY <3>1 DEF N
        <4>1. Len(Trama(E[n])) \in Nat
          BY <4>0, TramaDeEnvio, LenProperties
        <4>2. ini[n] + j \in 1..Len(B)
          <5> DEFINE a == ini[n]
                     b == ini[n + 1]
                     t == Len(Trama(E[n]))
          <5>1. a \in Int /\ b \in Int /\ t \in Nat /\ b = a + t /\ b <= Len(B)
            BY <3>3, <3>4, <4>1
          <5>2. j \in 1..t /\ a + j >= 1
            BY <3>5
          <5> HIDE DEF a, b, t
          <5>3. a + j \in 1..Len(B)
            BY <1>2, <5>1, <5>2
          <5> QED BY <5>3 DEF a
        <4>3. B[ini[n] + j] = Trama(E[n])[j]
          BY <1>1, <3>1, <3>5
        <4> QED BY <1>3, <4>2, <4>3
      <3>6. nini[n + 1] <= Len(C)
        BY <1>2, <1>3, <3>2, <3>3, <3>4
      <3> HIDE DEF nini
      <3> QED BY <3>2, <3>3, <3>5, <3>6
    <2> QED BY <2>1, <2>2
  <1> HIDE DEF nini
  <1> QED BY <1>5, <1>6, <1>7, Zenon DEF EnPaso, C, F, T

(* p more bytes are read. *)
LEMMA EnPasoAlLeer ==
  ASSUME NEW B \in Seq(Byte), NEW E \in Seq(Mandables), NEW r \in 0..Len(E), NEW av \in Nat,
         NEW p \in Nat, p <= Len(B), EnPaso(B, r, av, E)
  PROVE  EnPaso(SubSeq(B, p + 1, Len(B)), r, av + p, E)
  <1> DEFINE C == SubSeq(B, p + 1, Len(B))
             N == Len(E)
  <1>1. PICK ini \in [1..(N + 1) -> Int] :
          /\ ini[r + 1] + av = 0
          /\ ini[N + 1] = Len(B)
          /\ \A n \in (r + 1)..N :
               /\ ini[n + 1] = ini[n] + Len(Trama(E[n]))
               /\ ini[n + 1] <= Len(B)
               /\ \A j \in 1..Len(Trama(E[n])) : ini[n] + j >= 1 => B[ini[n] + j] = Trama(E[n])[j]
    BY DEF EnPaso
  <1>2. Len(B) \in Nat /\ N \in Nat
    BY LenProperties
  <1>3. C \in Seq(Byte) /\ Len(C) = Len(B) - p /\ \A i \in 1..(Len(B) - p) : C[i] = B[i + p]
    BY <1>2
  <1> HIDE DEF C
  <1> DEFINE nini == [n \in 1..(N + 1) |-> ini[n] - p]
  <1>4. nini \in [1..(N + 1) -> Int]
    OBVIOUS
  <1>5. nini[r + 1] + (av + p) = 0 /\ nini[N + 1] = Len(C)
    <2> DEFINE a == ini[r + 1]
               b == ini[N + 1]
               c == nini[r + 1]
               d == nini[N + 1]
    <2>1. r + 1 \in 1..(N + 1) /\ N + 1 \in 1..(N + 1)
      BY <1>2
    <2>2. a \in Int /\ a + av = 0 /\ c = a - p /\ b = Len(B) /\ d = b - p
      BY <1>1, <2>1
    <2> HIDE DEF a, b, c, d
    <2>3. c + (av + p) = 0 /\ d = Len(C)
      BY <1>2, <1>3, <2>2
    <2> QED BY <2>3 DEF c, d
  <1>6. ASSUME NEW n \in (r + 1)..N
        PROVE  /\ nini[n + 1] = nini[n] + Len(Trama(E[n]))
               /\ nini[n + 1] <= Len(C)
               /\ \A j \in 1..Len(Trama(E[n])) :
                    nini[n] + j >= 1 => C[nini[n] + j] = Trama(E[n])[j]
    <2>1. n \in 1..N /\ n + 1 \in 1..(N + 1) /\ n \in 1..(N + 1)
      BY <1>2
    <2>2. /\ ini[n] \in Int /\ ini[n + 1] \in Int
          /\ nini[n] = ini[n] - p /\ nini[n + 1] = ini[n + 1] - p
      BY <2>1
    <2>3. ini[n + 1] = ini[n] + Len(Trama(E[n])) /\ ini[n + 1] <= Len(B)
      BY <1>1
    <2>4. Len(Trama(E[n])) \in Nat
      <3>1. E[n] \in Mandables
        BY <2>1
      <3> QED BY <3>1, TramaDeEnvio, LenProperties
    <2>5. ASSUME NEW j \in 1..Len(Trama(E[n])), nini[n] + j >= 1
          PROVE  C[nini[n] + j] = Trama(E[n])[j]
      <3>1. /\ nini[n] + j \in 1..(Len(B) - p) /\ (nini[n] + j) + p = ini[n] + j
            /\ ini[n] + j >= 1
        <4> DEFINE a == ini[n]
                   b == ini[n + 1]
                   c == nini[n]
                   t == Len(Trama(E[n]))
        <4>1. a \in Int /\ b \in Int /\ c = a - p /\ t \in Nat /\ b = a + t /\ b <= Len(B)
          BY <2>2, <2>3, <2>4
        <4>2. j \in 1..t /\ c + j >= 1
          BY <2>5
        <4> HIDE DEF a, b, c, t
        <4>3. c + j \in 1..(Len(B) - p) /\ (c + j) + p = a + j /\ a + j >= 1
          BY <1>2, <4>1, <4>2
        <4> QED BY <4>3 DEF a, c
      <3>2. C[nini[n] + j] = B[(nini[n] + j) + p]
        BY <1>3, <3>1
      <3>3. B[ini[n] + j] = Trama(E[n])[j]
        BY <1>1, <3>1
      <3> QED BY <3>1, <3>2, <3>3
    <2> HIDE DEF nini
    <2>6. nini[n + 1] = nini[n] + Len(Trama(E[n])) /\ nini[n + 1] <= Len(C)
      <3> DEFINE a == ini[n]
                 b == ini[n + 1]
                 c == nini[n]
                 d == nini[n + 1]
                 t == Len(Trama(E[n]))
      <3>1. /\ a \in Int /\ b \in Int /\ c = a - p /\ d = b - p /\ t \in Nat
            /\ b = a + t /\ b <= Len(B)
        BY <2>2, <2>3, <2>4
      <3> HIDE DEF a, b, c, d, t
      <3>2. d = c + t /\ d <= Len(C)
        BY <1>2, <1>3, <3>1
      <3> QED BY <3>2 DEF c, d, t
    <2> QED BY <2>5, <2>6
  <1> HIDE DEF nini
  <1> QED BY <1>4, <1>5, <1>6, Zenon DEF EnPaso, C

(* One is received whole. *)
LEMMA EnPasoAlRecibir ==
  ASSUME NEW B \in Seq(Byte), NEW E \in Seq(Mandables), NEW r \in 0..Len(E), r < Len(E),
         EnPaso(B, r, Len(Trama(E[r + 1])), E)
  PROVE  EnPaso(B, r + 1, 0, E)
  <1> DEFINE T == Trama(E[r + 1])
             N == Len(E)
  <1>1. PICK ini \in [1..(N + 1) -> Int] :
          /\ ini[r + 1] + Len(T) = 0
          /\ ini[N + 1] = Len(B)
          /\ \A n \in (r + 1)..N :
               /\ ini[n + 1] = ini[n] + Len(Trama(E[n]))
               /\ ini[n + 1] <= Len(B)
               /\ \A j \in 1..Len(Trama(E[n])) : ini[n] + j >= 1 => B[ini[n] + j] = Trama(E[n])[j]
    BY DEF EnPaso
  <1>2. N \in Nat /\ r + 1 \in (r + 1)..N /\ r + 1 \in 1..N
    BY LenProperties
  <1>3. Len(T) \in Nat
    <2>1. E[r + 1] \in Mandables
      BY <1>2
    <2> QED BY <2>1, TramaDeEnvio, LenProperties
  <1>4. ini[(r + 1) + 1] = ini[r + 1] + Len(T)
    BY <1>1, <1>2
  <1>5. ini[(r + 1) + 1] + 0 = 0
    <2> DEFINE t == Len(T)
               a == ini[r + 1]
    <2>1. t \in Nat /\ a \in Int /\ a + t = 0 /\ ini[(r + 1) + 1] = a + t
      BY <1>1, <1>2, <1>3, <1>4
    <2> HIDE DEF t, a
    <2> QED BY <2>1
  <1>6. \A n \in ((r + 1) + 1)..N : n \in (r + 1)..N
    BY <1>2
  <1> QED BY <1>1, <1>5, <1>6, Zenon DEF EnPaso

(* There is something to receive if there are bytes or part of it was read. *)
LEMMA EnPasoConAlgo ==
  ASSUME NEW B \in Seq(Byte), NEW E \in Seq(Mandables), NEW r \in 0..Len(E), NEW av \in Nat,
         NEW p \in Nat, p <= Len(B), av + p > 0, EnPaso(B, r, av, E)
  PROVE  r < Len(E)
  <1>1. Len(E) \in Nat /\ Len(B) \in Nat
    BY LenProperties
  <1>2. CASE r = Len(E)
    <2>1. Len(B) + av = 0
      BY <1>2, Zenon DEF EnPaso
    <2> QED BY <1>1, <2>1
  <1> QED BY <1>1, <1>2

(* The bytes on their way are none but what is left to receive, and at     *)
(* least the rest of the next send.                                        *)
LEMMA EnPasoHasta ==
  ASSUME NEW B \in Seq(Byte), NEW E \in Seq(Mandables), NEW r \in 0..Len(E), NEW av \in Nat,
         EnPaso(B, r, av, E)
  PROVE  /\ r = Len(E) => Len(B) = 0
         /\ r < Len(E) => Len(Trama(E[r + 1])) <= av + Len(B)
  <1>1. Len(E) \in Nat /\ Len(B) \in Nat
    BY LenProperties
  <1>2. ASSUME r = Len(E) PROVE Len(B) = 0
    <2>1. Len(B) + av = 0
      BY <1>2, Zenon DEF EnPaso
    <2> QED BY <1>1, <2>1
  <1>3. ASSUME r < Len(E) PROVE Len(Trama(E[r + 1])) <= av + Len(B)
    <2> DEFINE N == Len(E)
               m == Len(Trama(E[r + 1]))
               b == Len(B)
    <2>1. PICK ini \in [1..(N + 1) -> Int] :
            /\ ini[r + 1] + av = 0
            /\ \A n \in (r + 1)..N :
                 ini[n + 1] = ini[n] + Len(Trama(E[n])) /\ ini[n + 1] <= Len(B)
      BY DEF EnPaso
    <2>2. r + 1 \in (r + 1)..N /\ r + 1 \in 1..N /\ r + 1 \in 1..(N + 1)
      BY <1>1, <1>3
    <2>3. m \in Nat
      <3>1. E[r + 1] \in Mandables
        BY <2>2, ElementOfSeq
      <3> QED BY <3>1, TramaDeEnvio, LenProperties
    <2>4. ini[(r + 1) + 1] = ini[r + 1] + m /\ ini[(r + 1) + 1] <= b
      BY <2>1, <2>2
    <2> DEFINE i == ini[r + 1]
               j == ini[(r + 1) + 1]
    <2>5. i \in Int /\ i + av = 0 /\ j = i + m /\ j <= b /\ b \in Nat
      BY <1>1, <2>1, <2>2, <2>4
    <2> HIDE DEF i, j, m, b
    <2>6. m <= av + b
      BY <2>3, <2>5
    <2> QED BY <2>6 DEF m, b
  <1> QED BY <1>2, <1>3

(* The next bytes are those of the next send. *)
LEMMA EnPasoPrimeros ==
  ASSUME NEW B \in Seq(Byte), NEW E \in Seq(Mandables), NEW r \in 0..Len(E), NEW av \in Nat,
         NEW p \in Nat, p <= Len(B), EnPaso(B, r, av, E), r < Len(E),
         av + p <= Len(Trama(E[r + 1]))
  PROVE  SubSeq(B, 1, p) = SubSeq(Trama(E[r + 1]), av + 1, av + p)
  <1> DEFINE T == Trama(E[r + 1])
             N == Len(E)
             x == SubSeq(B, 1, p)
             y == SubSeq(T, av + 1, av + p)
  <1>1. PICK ini \in [1..(N + 1) -> Int] :
          /\ ini[r + 1] + av = 0
          /\ \A n \in (r + 1)..N :
               \A j \in 1..Len(Trama(E[n])) : ini[n] + j >= 1 => B[ini[n] + j] = Trama(E[n])[j]
    BY DEF EnPaso
  <1>2. N \in Nat /\ Len(B) \in Nat /\ r + 1 \in (r + 1)..N /\ r + 1 \in 1..N
    BY LenProperties
  <1>3. T \in Seq(Byte) /\ Len(T) \in Nat
    <2>1. E[r + 1] \in Mandables
      BY <1>2
    <2> QED BY <2>1, TramaDeEnvio, LenProperties
  <1>4. \A j \in 1..Len(T) : j - av >= 1 => B[j - av] = T[j]
    <2> DEFINE a == ini[r + 1]
    <2>1. r + 1 \in 1..(N + 1)
      BY <1>2
    <2>2. a \in Int /\ a + av = 0
      BY <1>1, <2>1
    <2>3. \A j \in 1..Len(T) : a + j >= 1 => B[a + j] = T[j]
      BY <1>1, <1>2
    <2> HIDE DEF a
    <2>4. \A j \in 1..Len(T) : a + j = j - av
      BY <1>3, <2>2
    <2> QED BY <2>3, <2>4
  <1>5. av + p <= Len(T)
    OBVIOUS
  <1> HIDE DEF T
  <1>6. \A i \in 1..p : B[i] = T[av + i]
    <2> TAKE i \in 1..p
    <2>1. av + i \in 1..Len(T) /\ (av + i) - av >= 1 /\ (av + i) - av = i
      BY <1>3, <1>5
    <2> QED BY <1>4, <2>1
  <1>7. x \in Seq(Byte) /\ Len(x) = p /\ \A i \in 1..p : x[i] = B[i]
    BY <1>2
  <1>8. y \in Seq(Byte) /\ Len(y) = p /\ \A i \in 1..p : y[i] = T[av + i]
    <2>1. \A i \in (av + 1)..(av + p) : T[i] \in Byte
      <3> TAKE i \in (av + 1)..(av + p)
      <3>1. i \in 1..Len(T)
        BY <1>3, <1>5
      <3> QED BY <1>3, <3>1, ElementOfSeq
    <2>2. av + 1 \in Int /\ av + p \in Int
      OBVIOUS
    <2>3. /\ y \in Seq(Byte)
          /\ Len(y) = IF av + 1 <= av + p THEN av + p - (av + 1) + 1 ELSE 0
          /\ \A i \in 1..(av + p - (av + 1) + 1) : y[i] = T[av + 1 + i - 1]
      BY <2>1, <2>2, SubSeqProperties
    <2>4. av + p - (av + 1) + 1 = p /\ Len(y) = p
      BY <2>3
    <2>5. \A i \in 1..p : av + 1 + i - 1 = av + i
      OBVIOUS
    <2> QED BY <2>3, <2>4, <2>5
  <1> HIDE DEF x, y
  <1>9. x = y
    BY <1>6, <1>7, <1>8, SeqEqual
  <1> QED BY <1>9 DEF x, y, T
=============================================================================
