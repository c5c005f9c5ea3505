------------------------- MODULE FcgiSalidaProofs --------------------------
(***************************************************************************)
(* Proofs about the output side of a launcher, for every output, buffer    *)
(* and number of signals: the padded record with its header always fits    *)
(* the buffer of its writer; unless a write failed, the server reads       *)
(* records and a prefix of what was written; a connection is kept only     *)
(* with a whole answer; of the output only what follows a NUL in a read or *)
(* is blanked as a second Content-type is lost; and FCGX_Finish_r goes on  *)
(* to its end.                                                             *)
(***************************************************************************)
EXTENDS FcgiSalida, FiniteSetTheorems, SequenceTheorems, TLAPS

USE DEF curso, marcas, servidor, vars, Escritores, Flujos

\* What WriteCloseRecords has begun FCGX_FClose ends, in the same call, and
\* each stream is discounted from nWriters once.
InvCierre ==
  /\ \A s \in Flujos : rawWrite[s] => wasFCloseCalled[s] \/ (llamada = "FClose" /\ cual = s)
  /\ \A s \in Flujos : wasFCloseCalled[s] => rawWrite[s] /\ isClosed[s]
  /\ llamada = "FClose" => rawWrite[cual]
  /\ nWriters = (IF rawWrite["out"] THEN 0 ELSE 1) + (IF rawWrite["err"] THEN 0 ELSE 1)

IInv == TypeOK /\ InvCierre

\* The lengths are numbers, and zero is one of them.
LEMMA Limites ==
  /\ NSalida \in Nat /\ BuffLen \in Nat /\ BuffLen > 1 /\ LeeLen \in Nat
  /\ 0 \in 0..BuffLen /\ 0 \in 0..NSalida /\ MaxRestos \in Nat
BY FcgiSalidaAssumption

\* Contents of a stream.
DatosDe(s) == [t : {"dato"}, de : {s}, n : Nat]

\* What strstr and FCGI_fputs see of a read has a length.
LEMMA VistoFinito ==
  ASSUME NEW d \in Nat, NEW n \in Nat, NEW nulos
  PROVE  /\ IsFiniteSet(HastaNulo(d, n, nulos)) /\ Cardinality(HastaNulo(d, n, nulos)) \in Nat
<1>1. d + 1 \in Int /\ d + n \in Int
  OBVIOUS
<1>2. IsFiniteSet((d + 1)..(d + n)) /\ HastaNulo(d, n, nulos) \subseteq (d + 1)..(d + n)
  BY <1>1, FS_Interval DEF HastaNulo
<1> QED BY <1>2, FS_Subset, FS_CardinalityType

\* What FCGI_fputs is given is content of "out": the units seen, in their
\* places but for what is blanked, and some more.
LEMMA TextoEs ==
  ASSUME NEW d \in Nat, NEW n \in Nat, NEW k \in Restos(d, n)
  PROVE  /\ Texto(d, n, k) \in Seq(DatosDe("out"))
         /\ LET c == Cardinality(HastaNulo(d, n, Nulos \ Quita(d, n)))
            IN  /\ Len(Texto(d, n, k)) = c + k
                /\ \A i \in 1..c : d + i \notin Quita(d, n) => Texto(d, n, k)[i] = Dato("out", d + i)
<1>1. PICK c : c = Cardinality(HastaNulo(d, n, Nulos \ Quita(d, n)))
  OBVIOUS
<1>2. c \in Nat /\ k \in Nat
  BY <1>1, VistoFinito, Limites DEF Restos
<1>3. PICK Q : Q = Quita(d, n)
  OBVIOUS
<1>4. Texto(d, n, k) = [i \in 1..(c + k) |-> Dato("out", IF i > c \/ d + i \in Q THEN 0 ELSE d + i)]
  BY <1>1, <1>3 DEF Texto
<1>5. \A i \in 1..(c + k) : Dato("out", IF i > c \/ d + i \in Q THEN 0 ELSE d + i) \in DatosDe("out")
  BY <1>2 DEF Dato, DatosDe
<1>6. Texto(d, n, k) \in Seq(DatosDe("out")) /\ Len(Texto(d, n, k)) = c + k
  BY <1>2, <1>4, <1>5
<1>7. \A i \in 1..c : d + i \notin Q => Texto(d, n, k)[i] = Dato("out", d + i)
  <2> SUFFICES ASSUME NEW i \in 1..c, d + i \notin Q PROVE Texto(d, n, k)[i] = Dato("out", d + i)
    OBVIOUS
  <2>1. i \in 1..(c + k) /\ ~(i > c)
    BY <1>2
  <2> QED BY <1>4, <2>1
<1> QED BY <1>1, <1>3, <1>6, <1>7

\* The inductive invariant holds at the beginning.
LEMMA InitIInv == Init => IInv
<1> SUFFICES ASSUME Init PROVE IInv
  OBVIOUS
<1>1. <<>> \in Seq(Unidad) /\ Len(<<>>) = 0
  OBVIOUS
<1>2. Todos(<<>>) \in [Flujos -> Seq(Unidad)] /\ Todos(FALSE) \in [Flujos -> BOOLEAN]
  BY <1>1 DEF Todos
<1>3. \A s \in Flujos : Registro(s) = <<>>
  BY DEF Init, Todos, Registro
<1>4. TipoCurso /\ TipoLlamada
  BY <1>1, <1>2, Limites DEF Init, TipoCurso, TipoLlamada
<1>5. TipoMarcas
  BY <1>2 DEF Init, TipoMarcas
<1>6. TipoBuffer
  BY <1>1, <1>2, <1>3, Limites DEF Init, TipoBuffer
<1>7. TipoServidor
  <2>1. leyendo \in [de : Flujos \cup {"fin"}, n : 0..BuffLen] /\ acabada \in Nat
    BY Limites DEF Init
  <2>2. cortado \in BOOLEAN /\ roto \in BOOLEAN /\ eof = Todos(FALSE) /\ recibido = Todos(<<>>)
    BY DEF Init
  <2> QED
    BY <1>2, <2>1, <2>2 DEF TipoServidor
<1>8. InvCierre
  BY DEF Init, InvCierre, Todos
<1> QED
  BY <1>4, <1>5, <1>6, <1>7, <1>8 DEF IInv, TypeOK

\* The units that the writers make.
LEMMA Unidades ==
  /\ \A s \in Flujos, n \in 0..BuffLen : Cab(s, n) \in Unidad
  /\ \A s \in Flujos, v \in Nat : Dato(s, v) \in Unidad
  /\ EndRequest \in Seq(Unidad)
<1>1. \A s \in Flujos, n \in 0..BuffLen : Cab(s, n) \in Unidad
  BY DEF Cab, Unidad
<1>2. \A s \in Flujos, v \in Nat : Dato(s, v) \in Unidad
  BY DEF Dato, Unidad
<1>3. [t |-> "fin", de |-> "fin", n |-> 1] \in Unidad
  BY DEF Unidad
<1>4. [t |-> "cuerpo", de |-> "fin", n |-> 1] \in Unidad
  BY DEF Unidad
<1>5. EndRequest \in Seq(Unidad)
  BY <1>3, <1>4 DEF EndRequest
<1> QED
  BY <1>1, <1>2, <1>5

\* The record that EmptyBuffProc writes: the content, with a header if there
\* is any and the stream is not being closed.
LEMMA RegistroTipo ==
  ASSUME TypeOK, NEW s \in Flujos
  PROVE  /\ Registro(s) \in Seq(Unidad)
         /\ Len(Registro(s)) <= BuffLen
         /\ buf[s] \in Seq(Unidad) /\ Len(buf[s]) \in Nat
         /\ rawWrite[s] \in BOOLEAN
         /\ ~rawWrite[s] /\ buf[s] # <<>> => Len(buf[s]) + 1 <= BuffLen
         /\ rawWrite[s] \/ buf[s] = <<>> => Len(buf[s]) <= BuffLen
<1>1. buf[s] \in Seq(Unidad) /\ Len(buf[s]) \in Nat /\ rawWrite[s] \in BOOLEAN
  BY DEF TypeOK, TipoBuffer, TipoMarcas
<1>2. Len(Registro(s)) <= BuffLen
  BY DEF TypeOK, TipoBuffer
<1>3. CASE rawWrite[s] \/ buf[s] = <<>>
  <2>1. Registro(s) = buf[s]
    BY <1>3 DEF Registro
  <2> QED
    BY <2>1, <1>1, <1>2, <1>3
<1>4. CASE ~(rawWrite[s] \/ buf[s] = <<>>)
  <2>1. Registro(s) = <<Cab(s, Len(buf[s]))>> \o buf[s]
    BY <1>4 DEF Registro
  <2> DEFINE c == Cab(s, Len(buf[s]))
  <2>2. Len(<<c>> \o buf[s]) = 1 + Len(buf[s])
    <3> HIDE DEF c
    <3> QED BY <1>1
  <2>3. Len(buf[s]) \in 0..BuffLen
    BY <2>1, <2>2, <1>1, <1>2, Limites
  <2>4. c \in Unidad
    BY <2>3, Unidades
  <2>5. <<c>> \o buf[s] \in Seq(Unidad)
    <3> HIDE DEF c
    <3> QED BY <2>4, <1>1
  <2> QED
    BY <2>1, <2>2, <2>5, <1>1, <1>2, <1>4
<1> QED
  BY <1>3, <1>4

\* The buffer of a stream that is not being closed keeps its bound whatever is
\* put in the room there is.
LEMMA SitioTipo ==
  ASSUME TypeOK, InvCierre, NEW s \in Flujos
  PROVE  /\ Sitio(s) \in Int
         /\ Sitio(s) > 0 => Len(buf[s]) + Sitio(s) + (IF rawWrite[s] THEN 0 ELSE 1) <= BuffLen
<1>1. rawWrite[s] \in BOOLEAN /\ Len(buf[s]) \in Nat
  BY RegistroTipo
<1>2. CASE wasFCloseCalled[s]
  BY <1>2 DEF Sitio
<1>3. CASE ~wasFCloseCalled[s] /\ rawWrite[s]
  BY <1>1, <1>3, Limites DEF Sitio
<1>4. CASE ~wasFCloseCalled[s] /\ ~rawWrite[s]
  BY <1>1, <1>4, Limites DEF Sitio
<1> QED
  BY <1>1, <1>2, <1>3, <1>4

\* A sequence cut in two.
LEMMA Partir ==
  ASSUME NEW S, NEW q \in Seq(S), NEW m \in 0..Len(q)
  PROVE  /\ SubSeq(q, 1, m) \in Seq(S) /\ Len(SubSeq(q, 1, m)) = m
         /\ SubSeq(q, m + 1, Len(q)) \in Seq(S)
OBVIOUS

\* Two sequences one after the other.
LEMMA Juntar ==
  ASSUME NEW S, NEW a \in Seq(S), NEW b \in Seq(S)
  PROVE  a \o b \in Seq(S) /\ Len(a \o b) = Len(a) + Len(b)
OBVIOUS

\* Copying into the buffer keeps it.
LEMMA PoneIInv == IInv /\ Pone => IInv'
<1> SUFFICES ASSUME IInv, Pone PROVE IInv'
  OBVIOUS
<1> USE DEF IInv
<1>1. cual \in Flujos /\ resto \in Seq(Unidad) /\ resto # <<>> /\ Sitio(cual) > 0
  BY DEF Pone, TypeOK, TipoLlamada
<1> DEFINE m == Menor(Len(resto), Sitio(cual))
           puesto == SubSeq(resto, 1, m)
<1>2. m \in 0..Len(resto) /\ m <= Sitio(cual)
  BY <1>1, SitioTipo DEF Menor
<1>3. puesto \in Seq(Unidad) /\ Len(puesto) = m /\ SubSeq(resto, m + 1, Len(resto)) \in Seq(Unidad)
  <2> HIDE DEF m
  <2> QED BY <1>1, <1>2, Partir
<1>4. /\ buf' = [buf EXCEPT ![cual] = @ \o puesto]
      /\ resto' = SubSeq(resto, m + 1, Len(resto))
      /\ dado' = IF llamada = "PutStr" THEN [dado EXCEPT ![cual] = @ \o puesto] ELSE dado
      /\ UNCHANGED <<curso, marcas, llamada, cual, queda, ultimo, servidor>>
  BY DEF Pone
<1> HIDE DEF m, puesto
<1>5. buf \in [Flujos -> Seq(Unidad)] /\ dado \in [Flujos -> Seq(Unidad)]
  BY DEF TypeOK, TipoBuffer, TipoLlamada
<1>6. buf' \in [Flujos -> Seq(Unidad)] /\ buf'[cual] = buf[cual] \o puesto
      /\ \A s \in Flujos \ {cual} : buf'[s] = buf[s]
  <2> DEFINE q == buf[cual] \o puesto
  <2>1. buf[cual] \in Seq(Unidad)
    BY <1>1, <1>5
  <2>2. q \in Seq(Unidad)
    BY <2>1, <1>3, Juntar
  <2>3. buf' = [buf EXCEPT ![cual] = q]
    BY <1>4
  <2>4. buf'[cual] = q /\ \A s \in Flujos \ {cual} : buf'[s] = buf[s]
    <3> HIDE DEF q, IInv
    <3> QED BY <1>1, <1>5, <2>3
  <2>5. buf' \in [Flujos -> Seq(Unidad)]
    <3> HIDE DEF q, IInv
    <3> QED BY <1>5, <2>2, <2>3
  <2> QED
    BY <2>4, <2>5
<1>7. Len(buf'[cual]) = Len(buf[cual]) + m /\ buf'[cual] \in Seq(Unidad)
  <2>1. buf[cual] \in Seq(Unidad)
    BY <1>1, <1>5
  <2>2. Len(buf[cual] \o puesto) = Len(buf[cual]) + m /\ buf[cual] \o puesto \in Seq(Unidad)
    BY <2>1, <1>3, Juntar
  <2> QED
    BY <2>2, <1>6
<1>8. Len(buf'[cual]) + (IF rawWrite[cual] THEN 0 ELSE 1) <= BuffLen
  <2> DEFINE e == IF rawWrite[cual] THEN 0 ELSE 1
             b == Len(buf[cual])
             d == Sitio(cual)
  <2>1. b + d + e <= BuffLen
    BY <1>1, SitioTipo
  <2>2. b \in Nat /\ d \in Int /\ m \in Int /\ e \in Int /\ BuffLen \in Int
    BY <1>1, <1>2, SitioTipo, RegistroTipo, Limites
  <2>3. Len(buf'[cual]) = b + m /\ m <= d
    BY <1>2, <1>7
  <2>4. b + m + e <= BuffLen
    <3> HIDE DEF b, d, e, IInv
    <3> QED BY <2>1, <2>2, <2>3
  <2> QED
    BY <2>3, <2>4
<1>9. \A s \in Flujos : Len(Registro(s)') <= BuffLen
  <2> SUFFICES ASSUME NEW s \in Flujos PROVE Len(Registro(s)') <= BuffLen
    OBVIOUS
  <2>1. rawWrite' = rawWrite
    BY <1>4
  <2>2. CASE s # cual
    BY <2>1, <2>2, <1>6, RegistroTipo DEF Registro
  <2>3. CASE s = cual
    <3> DEFINE c == Cab(cual, Len(buf'[cual]))
    <3>1. Len(<<c>> \o buf'[cual]) = 1 + Len(buf'[cual])
      <4> HIDE DEF c
      <4> QED BY <1>7
    <3>2. CASE rawWrite[cual]
      BY <2>1, <2>3, <3>2, <1>8, <1>7 DEF Registro
    <3>3. CASE ~rawWrite[cual] /\ buf'[cual] = <<>>
      BY <2>1, <2>3, <3>3, Limites DEF Registro
    <3>4. CASE ~rawWrite[cual] /\ buf'[cual] # <<>>
      <4>1. Registro(s)' = <<c>> \o buf'[cual]
        BY <2>1, <2>3, <3>4, <1>4 DEF Registro
      <4> QED
        BY <4>1, <3>1, <3>4, <1>7, <1>8
    <3> QED
      BY <3>2, <3>3, <3>4
  <2> QED
    BY <2>2, <2>3
<1>10. TipoBuffer'
  BY <1>6, <1>9, <1>4 DEF TypeOK, TipoBuffer
<1>11. TipoLlamada'
  BY <1>1, <1>3, <1>4, <1>5 DEF TypeOK, TipoLlamada
<1>12. TipoCurso' /\ TipoServidor'
  BY <1>4 DEF TypeOK, TipoCurso, TipoServidor
<1>13. TipoMarcas'
  BY <1>4 DEF TypeOK, TipoMarcas
<1>14. InvCierre'
  BY <1>4 DEF InvCierre
<1> QED
  BY <1>10, <1>11, <1>12, <1>13, <1>14 DEF TypeOK

\* A step that leaves the buffers, and what is being written, as they are.
LEMMA BufferIgual ==
  ASSUME TypeOK, UNCHANGED <<buf, rawWrite, queda>>
  PROVE  TipoBuffer'
<1>1. \A s \in Flujos : Registro(s)' = Registro(s)
  BY DEF Registro
<1> QED
  BY <1>1 DEF TypeOK, TipoBuffer

\* A write of units begins.
LEMMA EnviaTipo ==
  ASSUME IInv, NEW s \in Flujos, NEW q \in Seq(Unidad), Len(q) <= BuffLen,
         Envia(s, q), UNCHANGED <<buf, keepConnection, errorIn>>, ultimo' \in BOOLEAN
  PROVE  TipoBuffer' /\ TipoMarcas'
<1>1. \A z \in Flujos : Registro(z)' = Registro(z)
  BY DEF Registro, Envia
<1>2. TipoBuffer'
  BY <1>1 DEF IInv, TypeOK, TipoBuffer, Envia
<1>3. TipoMarcas'
  BY DEF IInv, TypeOK, TipoMarcas, Envia
<1> QED
  BY <1>2, <1>3

\* A full buffer that becomes a record keeps it.
LEMMA LlenoIInv == IInv /\ Lleno => IInv'
<1> SUFFICES ASSUME IInv, Lleno PROVE IInv'
  OBVIOUS
<1>1. cual \in Flujos /\ TypeOK /\ InvCierre
  BY DEF IInv, TypeOK, TipoLlamada
<1>2. UNCHANGED <<curso, buf, llamada, cual, ultimo, servidor, dado>>
  BY DEF Lleno
<1>3. TipoCurso' /\ TipoServidor'
  BY <1>1, <1>2 DEF TypeOK, TipoCurso, TipoServidor
<1>4. CASE isClosed[cual]
  <2>1. resto' = <<>> /\ UNCHANGED <<queda, marcas>>
    BY <1>4 DEF Lleno
  <2>2. TipoMarcas' /\ InvCierre'
    BY <1>1, <1>2, <2>1 DEF TypeOK, TipoMarcas, InvCierre
  <2>3. TipoLlamada'
    BY <1>1, <1>2, <2>1 DEF TypeOK, TipoLlamada
  <2> QED
    BY <1>1, <1>2, <1>3, <2>1, <2>2, <2>3, BufferIgual DEF IInv, TypeOK
<1>5. CASE ~isClosed[cual]
  <2>1. Envia(cual, Registro(cual)) /\ UNCHANGED resto
    BY <1>5 DEF Lleno
  <2>2. ultimo' \in BOOLEAN
    BY <1>1, <1>2 DEF TypeOK, TipoMarcas
  <2>3. TipoBuffer' /\ TipoMarcas'
    BY <1>1, <1>2, <2>1, <2>2, RegistroTipo, EnviaTipo
  <2>4. TipoLlamada'
    BY <1>1, <1>2, <2>1 DEF TypeOK, TipoLlamada, Envia
  <2>5. InvCierre'
    BY <1>1, <1>2, <2>1 DEF InvCierre, Envia
  <2> QED
    BY <1>3, <2>3, <2>4, <2>5 DEF IInv, TypeOK
<1> QED
  BY <1>4, <1>5

\* The end of a call that writes keeps it.
LEMMA FinPutStrIInv == IInv /\ FinPutStr => IInv'
<1> SUFFICES ASSUME IInv, FinPutStr PROVE IInv'
  OBVIOUS
<1>1. llamada = "PutStr" /\ llamada' = "no" /\ UNCHANGED <<cual, resto, queda, ultimo>>
      /\ UNCHANGED <<curso, buf, marcas, servidor, dado>> /\ TypeOK /\ InvCierre
  BY DEF FinPutStr, Vuelve, IInv
<1>2. TipoCurso' /\ TipoServidor' /\ TipoLlamada'
  BY <1>1 DEF TypeOK, TipoCurso, TipoServidor, TipoLlamada
<1>3. TipoMarcas'
  BY <1>1 DEF TypeOK, TipoMarcas
<1>4. InvCierre'
  BY <1>1 DEF InvCierre
<1> QED
  BY <1>1, <1>2, <1>3, <1>4, BufferIgual DEF IInv, TypeOK

\* A flush keeps it.
LEMMA FFlushIInv == ASSUME IInv, NEW s \in Flujos, FFlush(s) PROVE IInv'
<1>1. llamada = "no" /\ llamada' = "FFlush" /\ cual' = s /\ Envia(s, Registro(s))
      /\ UNCHANGED <<curso, buf, resto, ultimo, servidor, dado>> /\ TypeOK /\ InvCierre
  BY DEF FFlush, Libre, IInv
<1>2. ultimo' \in BOOLEAN
  BY <1>1 DEF TypeOK, TipoMarcas
<1>3. TipoBuffer' /\ TipoMarcas'
  BY <1>1, <1>2, RegistroTipo, EnviaTipo
<1>4. TipoCurso' /\ TipoServidor' /\ TipoLlamada'
  BY <1>1 DEF TypeOK, TipoCurso, TipoServidor, TipoLlamada, Envia
<1>5. InvCierre'
  BY <1>1 DEF InvCierre, Envia
<1> QED
  BY <1>3, <1>4, <1>5 DEF IInv, TypeOK

\* FCGX_FClose puts the header and changes to rawWrite.
LEMMA FCloseIInv ==
  ASSUME IInv, NEW s \in Flujos, FClose(s), UNCHANGED curso
  PROVE  IInv'
<1>1. /\ llamada = "no" /\ ~wasFCloseCalled[s] /\ llamada' = "FClose" /\ cual' = s
      /\ buf' = [buf EXCEPT ![s] = Registro(s)]
      /\ rawWrite' = [rawWrite EXCEPT ![s] = TRUE]
      /\ resto' = CloseRecords(s) /\ nWriters' = nWriters - 1
      /\ UNCHANGED <<isAnythingWritten, FCGI_errno, isClosed, wasFCloseCalled, queda, ultimo, servidor, dado>>
      /\ TypeOK /\ InvCierre
  BY DEF FClose, Libre, IInv
<1>2. ~rawWrite[s]
  BY <1>1 DEF InvCierre
<1>3. rawWrite \in [Flujos -> BOOLEAN] /\ buf \in [Flujos -> Seq(Unidad)]
  BY <1>1 DEF TypeOK, TipoMarcas, TipoBuffer
<1>4. InvCierre'
  <2>1. rawWrite'[s] /\ \A z \in Flujos \ {s} : rawWrite'[z] = rawWrite[z]
    BY <1>1, <1>3
  <2>2. nWriters' = (IF rawWrite'["out"] THEN 0 ELSE 1) + (IF rawWrite'["err"] THEN 0 ELSE 1)
    <3>1. CASE s = "out"
      BY <1>1, <1>2, <2>1, <3>1 DEF InvCierre
    <3>2. CASE s = "err"
      BY <1>1, <1>2, <2>1, <3>2 DEF InvCierre
    <3> QED
      BY <3>1, <3>2
  <2> QED
    BY <1>1, <2>1, <2>2 DEF InvCierre
<1>5. TipoBuffer'
  <2>1. buf' \in [Flujos -> Seq(Unidad)] /\ buf'[s] = Registro(s)
        /\ \A z \in Flujos \ {s} : buf'[z] = buf[z]
    BY <1>1, <1>3, RegistroTipo
  <2>2. rawWrite'[s] /\ \A z \in Flujos \ {s} : rawWrite'[z] = rawWrite[z]
    BY <1>1, <1>3
  <2>3. Registro(s)' = Registro(s)
    BY <2>1, <2>2 DEF Registro
  <2>4. \A z \in Flujos \ {s} : Registro(z)' = Registro(z)
    BY <2>1, <2>2 DEF Registro
  <2> QED
    BY <1>1, <2>1, <2>3, <2>4, RegistroTipo DEF TypeOK, TipoBuffer
<1>6. TipoLlamada'
  <2>1. CloseRecords(s) \in Seq(Unidad)
    <3>1. Cab(s, 0) \in Unidad
      BY Unidades, Limites
    <3> DEFINE a == IF s = "err" /\ buf[s] = <<>> /\ ~isAnythingWritten[s] THEN <<>> ELSE <<Cab(s, 0)>>
               b == IF nWriters = 1 THEN EndRequest ELSE <<>>
    <3>2. a \in Seq(Unidad)
      <4>1. <<Cab(s, 0)>> \in Seq(Unidad) /\ <<>> \in Seq(Unidad)
        BY <3>1
      <4> QED BY <4>1
    <3>3. b \in Seq(Unidad)
      <4>1. <<>> \in Seq(Unidad)
        OBVIOUS
      <4> QED BY <4>1, Unidades
    <3>4. a \o b \in Seq(Unidad)
      <4> HIDE DEF a, b
      <4> QED BY <3>2, <3>3, Juntar
    <3> QED
      BY <3>4 DEF CloseRecords
  <2>2. nWriters' \in 0..2
    <3>1. nWriters' = (IF rawWrite'["out"] THEN 0 ELSE 1) + (IF rawWrite'["err"] THEN 0 ELSE 1)
      BY <1>4 DEF InvCierre
    <3>2. rawWrite'["out"] \in BOOLEAN /\ rawWrite'["err"] \in BOOLEAN
      BY <1>1, <1>3
    <3> QED
      BY <3>1
  <2> QED
    BY <1>1, <2>1, <2>2 DEF TypeOK, TipoLlamada
<1>7. TipoCurso' /\ TipoServidor'
  BY <1>1 DEF TypeOK, TipoCurso, TipoServidor
<1>8. TipoMarcas'
  BY <1>1 DEF TypeOK, TipoMarcas
<1> QED
  BY <1>4, <1>5, <1>6, <1>7, <1>8 DEF IInv, TypeOK

\* The end of a close keeps it.
LEMMA FinFCloseIInv == IInv /\ FinFClose => IInv'
<1> SUFFICES ASSUME IInv, FinFClose PROVE IInv'
  OBVIOUS
<1>1. cual \in Flujos /\ TypeOK /\ InvCierre /\ llamada = "FClose" /\ rawWrite[cual]
  BY DEF IInv, InvCierre, TypeOK, TipoLlamada, FinFClose
<1>2. UNCHANGED <<curso, buf, cual, resto, servidor, dado>>
  BY DEF FinFClose
<1>3. TipoCurso' /\ TipoServidor'
  BY <1>1, <1>2 DEF TypeOK, TipoCurso, TipoServidor
<1>4. CASE buf[cual] = <<>>
  <2>1. Cerrado(cual) /\ UNCHANGED <<queda, isAnythingWritten, rawWrite, FCGI_errno, nWriters>>
    BY <1>4 DEF FinFClose
  <2>2. TipoMarcas'
    BY <1>1, <1>2, <2>1 DEF TypeOK, TipoMarcas, Cerrado
  <2>3. TipoLlamada'
    BY <1>1, <1>2, <2>1 DEF TypeOK, TipoLlamada, Cerrado
  <2>4. wasFCloseCalled'[cual] /\ isClosed'[cual]
        /\ \A s \in Flujos \ {cual} : wasFCloseCalled'[s] = wasFCloseCalled[s] /\ isClosed'[s] = isClosed[s]
    BY <1>1, <2>1 DEF Cerrado, TypeOK, TipoMarcas
  <2>5. InvCierre'
    BY <1>1, <1>2, <2>1, <2>4 DEF InvCierre, Cerrado
  <2> QED
    BY <1>1, <1>2, <1>3, <2>1, <2>2, <2>3, <2>5, BufferIgual DEF IInv, TypeOK
<1>5. CASE buf[cual] # <<>>
  <2>1. ultimo' = TRUE /\ Envia(cual, buf[cual]) /\ UNCHANGED llamada
    BY <1>5 DEF FinFClose
  <2>2. TipoBuffer' /\ TipoMarcas'
    <3>1. buf[cual] \in Seq(Unidad) /\ Len(buf[cual]) <= BuffLen
      BY <1>1, RegistroTipo
    <3> QED
      BY <1>1, <1>2, <2>1, <3>1, EnviaTipo
  <2>3. TipoLlamada'
    BY <1>1, <1>2, <2>1 DEF TypeOK, TipoLlamada, Envia
  <2>4. InvCierre'
    BY <1>1, <1>2, <2>1 DEF InvCierre, Envia
  <2> QED
    BY <1>3, <2>2, <2>3, <2>4 DEF IInv, TypeOK
<1> QED
  BY <1>4, <1>5

\* The return of EmptyBuffProc: it closes the stream if it was the last write
\* of FCGX_FClose.
LEMMA TrasEscribirTipo ==
  ASSUME IInv, TrasEscribir, UNCHANGED <<rawWrite, nWriters, cual>>,
         isClosed' \in [Flujos -> BOOLEAN],
         \A s \in Flujos : isClosed[s] => isClosed'[s],
         wasFCloseCalled'[cual] => isClosed'[cual]
  PROVE  /\ InvCierre' /\ wasFCloseCalled' \in [Flujos -> BOOLEAN] /\ ultimo' \in BOOLEAN
         /\ llamada' \in {"no", "PutStr", "FFlush", "FClose"}
<1>1. cual \in Flujos /\ TypeOK /\ InvCierre /\ wasFCloseCalled \in [Flujos -> BOOLEAN] /\ ultimo \in BOOLEAN
      /\ llamada \in {"no", "PutStr", "FFlush", "FClose"}
  BY DEF IInv, TypeOK, TipoLlamada, TipoMarcas
<1>2. CASE llamada = "FFlush" /\ llamada' = "no" /\ UNCHANGED <<ultimo, wasFCloseCalled>>
  BY <1>1, <1>2 DEF InvCierre
<1>3. CASE UNCHANGED <<llamada, ultimo, wasFCloseCalled>>
  BY <1>1, <1>3 DEF InvCierre
<1>4. CASE llamada = "FClose" /\ ultimo /\ llamada' = "no" /\ ultimo' = FALSE
           /\ wasFCloseCalled' = [wasFCloseCalled EXCEPT ![cual] = TRUE]
  <2>1. wasFCloseCalled'[cual] /\ \A s \in Flujos \ {cual} : wasFCloseCalled'[s] = wasFCloseCalled[s]
    BY <1>1, <1>4
  <2> QED
    BY <1>1, <1>4, <2>1 DEF InvCierre
<1> QED
  BY <1>2, <1>3, <1>4 DEF TrasEscribir

\* One write to the connection keeps it, whether it works or not.
LEMMA EscribeIInv == IInv /\ Escribe => IInv'
<1> SUFFICES ASSUME IInv, Escribe PROVE IInv'
  OBVIOUS
<1> DEFINE u == Head(queda)
<1>1. /\ queda # <<>> /\ Recibe(u) /\ queda' = Tail(queda)
      /\ UNCHANGED <<curso, rawWrite, isAnythingWritten, FCGI_errno, nWriters, cual, resto, cortado, dado>>
      /\ TypeOK /\ InvCierre /\ cual \in Flujos
  BY DEF Escribe, IInv, TypeOK, TipoLlamada
<1>2. queda \in Seq(Unidad) /\ Len(queda) <= BuffLen /\ buf \in [Flujos -> Seq(Unidad)]
      /\ \A s \in Flujos : Len(Registro(s)) <= BuffLen
  BY <1>1 DEF TypeOK, TipoBuffer
<1>3. u \in Unidad /\ queda' \in Seq(Unidad) /\ Len(queda') <= BuffLen
  BY <1>1, <1>2, Limites
<1>4. TipoServidor'
  <2>1. leyendo \in [de : Flujos \cup {"fin"}, n : 0..BuffLen] /\ recibido \in [Flujos -> Seq(Unidad)]
        /\ eof \in [Flujos -> BOOLEAN] /\ acabada \in Nat /\ cortado' \in BOOLEAN /\ roto \in BOOLEAN
    BY <1>1 DEF TypeOK, TipoServidor
  <2>2. u.de \in Flujos \cup {"fin"} /\ (u.t = "dato" => u.de \in Flujos)
        /\ (u.t \in {"cab", "fin"} => u.n \in 0..BuffLen)
    BY <1>3, Limites DEF Unidad
  <2> HIDE DEF u
  <2> DEFINE encaja == IF leyendo.n = 0 THEN u.t = "fin" \/ (u.t = "cab" /\ ~eof[u.de])
                       ELSE u.t \in {"dato", "cuerpo"} /\ u.de = leyendo.de
  <2>3. CASE roto \/ ~encaja
    <3>1. roto' = TRUE /\ UNCHANGED <<leyendo, recibido, eof, acabada>>
      BY <1>1, <2>3 DEF Recibe
    <3> QED
      BY <2>1, <3>1 DEF TipoServidor
  <2>4. CASE ~(roto \/ ~encaja)
    <3>1. /\ leyendo' = IF u.t \in {"cab", "fin"} THEN [de |-> u.de, n |-> u.n]
                        ELSE [leyendo EXCEPT !.n = @ - 1]
          /\ eof' = IF u.t = "cab" /\ u.n = 0 THEN [eof EXCEPT ![u.de] = TRUE] ELSE eof
          /\ recibido' = IF u.t = "dato" THEN [recibido EXCEPT ![u.de] = Append(@, u)] ELSE recibido
          /\ acabada' = IF u.t = "cuerpo" THEN acabada + 1 ELSE acabada
          /\ UNCHANGED roto
      BY <1>1, <2>4 DEF Recibe
    <3>2. u.t \notin {"cab", "fin"} => leyendo.n # 0
      BY <2>4
    <3>3. leyendo' \in [de : Flujos \cup {"fin"}, n : 0..BuffLen]
      BY <2>1, <2>2, <3>1, <3>2, Limites
    <3>4. eof' \in [Flujos -> BOOLEAN]
      BY <2>1, <3>1
    <3>5. recibido' \in [Flujos -> Seq(Unidad)]
      <4>1. CASE u.t = "dato"
        <5>1. Append(recibido[u.de], u) \in Seq(Unidad)
          BY <1>3, <2>1, <2>2, <4>1
        <5> QED
          BY <2>1, <2>2, <3>1, <4>1, <5>1
      <4> QED
        BY <2>1, <3>1, <4>1
    <3>6. acabada' \in Nat
      BY <2>1, <3>1
    <3>7. roto' \in BOOLEAN
      BY <2>1, <3>1
    <3> QED
      BY <2>1, <3>3, <3>4, <3>5, <3>6, <3>7 DEF TipoServidor
  <2> QED
    BY <2>3, <2>4
<1>5. TipoCurso'
  BY <1>1 DEF TypeOK, TipoCurso
<1>6. CASE queda' # <<>>
  <2>1. UNCHANGED <<buf, llamada, ultimo, wasFCloseCalled, isClosed>>
    BY <1>6 DEF Escribe
  <2>2. TipoMarcas' /\ InvCierre'
    BY <1>1, <2>1 DEF TypeOK, TipoMarcas, InvCierre
  <2>3. TipoLlamada'
    BY <1>1, <2>1 DEF TypeOK, TipoLlamada
  <2>4. TipoBuffer'
    <3>1. \A s \in Flujos : Registro(s)' = Registro(s)
      BY <1>1, <2>1 DEF Registro
    <3> QED
      BY <1>2, <1>3, <2>1, <3>1 DEF TipoBuffer
  <2> QED
    BY <1>4, <1>5, <2>2, <2>3, <2>4 DEF IInv, TypeOK
<1>7. CASE queda' = <<>>
  <2>1. buf' = [buf EXCEPT ![cual] = <<>>] /\ TrasEscribir
        /\ isClosed' = [isClosed EXCEPT ![cual] = @ \/ wasFCloseCalled'[cual]]
    BY <1>7 DEF Escribe
  <2>2. isClosed \in [Flujos -> BOOLEAN]
    BY <1>1 DEF TypeOK, TipoMarcas
  <2>3. isClosed' \in [Flujos -> BOOLEAN] /\ (\A s \in Flujos : isClosed[s] => isClosed'[s])
        /\ (wasFCloseCalled'[cual] => isClosed'[cual])
    BY <1>1, <2>1, <2>2
  <2>4. /\ InvCierre' /\ wasFCloseCalled' \in [Flujos -> BOOLEAN] /\ ultimo' \in BOOLEAN
        /\ llamada' \in {"no", "PutStr", "FFlush", "FClose"}
    BY <1>1, <2>1, <2>3, TrasEscribirTipo
  <2>5. TipoMarcas'
    BY <1>1, <2>3, <2>4 DEF TypeOK, TipoMarcas
  <2>6. TipoLlamada'
    BY <1>1, <2>4 DEF TypeOK, TipoLlamada
  <2>7. TipoBuffer'
    <3>1. buf' \in [Flujos -> Seq(Unidad)] /\ buf'[cual] = <<>>
          /\ \A s \in Flujos \ {cual} : buf'[s] = buf[s]
      BY <1>1, <1>2, <2>1
    <3>2. \A s \in Flujos \ {cual} : Registro(s)' = Registro(s)
      BY <1>1, <3>1 DEF Registro
    <3>3. \A s \in Flujos : Len(Registro(s)') <= BuffLen
      <4> SUFFICES ASSUME NEW s \in Flujos PROVE Len(Registro(s)') <= BuffLen
        OBVIOUS
      <4>1. CASE s = cual
        <5>1. Registro(s)' = <<>>
          BY <4>1, <1>1, <3>1 DEF Registro
        <5> QED
          BY <5>1, Limites
      <4>2. CASE s # cual
        BY <4>2, <1>2, <3>2
      <4> QED
        BY <4>1, <4>2
    <3> QED
      BY <1>3, <3>1, <3>3 DEF TipoBuffer
  <2> QED
    BY <1>4, <1>5, <2>4, <2>5, <2>6, <2>7 DEF IInv, TypeOK
<1> QED
  BY <1>6, <1>7

\* A write that fails, whatever the state of the request becomes.
LEMMA FallaEscrituraIInv ==
  ASSUME IInv, FallaEscritura, TipoCurso', UNCHANGED <<keepConnection, errorIn>>
  PROVE  IInv'
<1>1. /\ queda' = <<>> /\ TrasEscribir
      /\ FCGI_errno' = [FCGI_errno EXCEPT ![cual] = TRUE]
      /\ isClosed' = [isClosed EXCEPT ![cual] = TRUE]
      /\ UNCHANGED <<buf, rawWrite, isAnythingWritten, nWriters, cual, resto, servidor, dado>>
      /\ TypeOK /\ InvCierre /\ cual \in Flujos
  BY DEF FallaEscritura, IInv, TypeOK, TipoLlamada
<1>2. isClosed \in [Flujos -> BOOLEAN] /\ FCGI_errno \in [Flujos -> BOOLEAN]
  BY <1>1 DEF TypeOK, TipoMarcas
<1>3. isClosed' \in [Flujos -> BOOLEAN] /\ (\A s \in Flujos : isClosed[s] => isClosed'[s])
      /\ isClosed'[cual] /\ FCGI_errno' \in [Flujos -> BOOLEAN]
  BY <1>1, <1>2
<1>4. /\ InvCierre' /\ wasFCloseCalled' \in [Flujos -> BOOLEAN] /\ ultimo' \in BOOLEAN
      /\ llamada' \in {"no", "PutStr", "FFlush", "FClose"}
  BY <1>1, <1>3, TrasEscribirTipo
<1>5. TipoMarcas'
  BY <1>1, <1>3, <1>4 DEF TypeOK, TipoMarcas
<1>6. TipoLlamada'
  BY <1>1, <1>4 DEF TypeOK, TipoLlamada
<1>7. TipoServidor'
  BY <1>1 DEF TypeOK, TipoServidor
<1>8. TipoBuffer'
  <2>1. \A s \in Flujos : Registro(s)' = Registro(s)
    BY <1>1 DEF Registro
  <2>2. queda' \in Seq(Unidad) /\ Len(queda') <= BuffLen
    BY <1>1, Limites
  <2> QED
    BY <1>1, <2>1, <2>2 DEF TypeOK, TipoBuffer
<1> QED
  BY <1>4, <1>5, <1>6, <1>7, <1>8 DEF IInv, TypeOK

\* A step of the launcher: the writers are left alone, and a call may begin.
LEMMA LanzadorTipo ==
  ASSUME IInv, TipoCurso', TipoLlamada', UNCHANGED Escritores, UNCHANGED <<keepConnection, errorIn>>,
         llamada = "no", llamada' # "FClose"
  PROVE  IInv'
<1>1. TypeOK /\ InvCierre
  BY DEF IInv
<1>2. TipoServidor'
  BY <1>1 DEF TypeOK, TipoServidor
<1>3. TipoMarcas'
  BY <1>1 DEF TypeOK, TipoMarcas
<1>4. InvCierre'
  BY <1>1 DEF InvCierre
<1> QED
  BY <1>1, <1>2, <1>3, <1>4, BufferIgual DEF IInv, TypeOK

\* A read of the program's output keeps it.
LEMMA LeeHijoIInv == IInv /\ LeeHijo => IInv'
<1> SUFFICES ASSUME IInv, LeeHijo PROVE IInv'
  OBVIOUS
<1>1. llamada = "no" /\ hijo \in 0..NSalida /\ TypeOK
      /\ UNCHANGED <<peticion, keepConnection, errorIn, peticiones, senyales, Escritores>>
  BY DEF IInv, LeeHijo, Libre, TypeOK, TipoCurso
<1>2. PICK n \in 1..Menor(LeeLen, NSalida - hijo) :
        \E k \in Restos(hijo, n) : hijo' = hijo + n /\ PutStr("out", Texto(hijo, n, k))
  BY DEF LeeHijo
<1>k. PICK k \in Restos(hijo, n) : hijo' = hijo + n /\ PutStr("out", Texto(hijo, n, k))
  BY <1>2
<1>3. n \in 1..(NSalida - hijo)
  BY <1>1, Limites DEF Menor
<1>4. hijo' \in 0..NSalida
  BY <1>1, <1>k, <1>3, Limites
<1>5. Texto(hijo, n, k) \in Seq(DatosDe("out"))
  <2>1. hijo \in Nat /\ n \in Nat
    BY <1>1, <1>3, Limites
  <2> QED
    BY <2>1, TextoEs
<1>6. Texto(hijo, n, k) \in Seq(Unidad)
  <2>1. DatosDe("out") \subseteq Unidad
    BY DEF DatosDe, Unidad
  <2>2. PICK tx : tx = Texto(hijo, n, k)
    OBVIOUS
  <2> QED
    BY <1>5, <2>1, <2>2
<1>7. TipoCurso'
  BY <1>1, <1>4 DEF TypeOK, TipoCurso
<1>8. TipoLlamada'
  BY <1>1, <1>k, <1>6 DEF TypeOK, TipoLlamada, PutStr
<1> QED
  BY <1>1, <1>k, <1>7, <1>8, LanzadorTipo DEF PutStr

\* A message of the library keeps it.
LEMMA EscribeErrIInv == IInv /\ EscribeErr => IInv'
<1> SUFFICES ASSUME IInv, EscribeErr PROVE IInv'
  OBVIOUS
<1>1. llamada = "no" /\ TypeOK /\ UNCHANGED <<curso, Escritores>>
      /\ PutStr("err", <<Dato("err", Len(dado["err"]) + 1)>>)
  BY DEF IInv, EscribeErr, Libre
<1>2. Dato("err", Len(dado["err"]) + 1) \in Unidad
  <2>1. Len(dado["err"]) \in Nat
    BY <1>1 DEF TypeOK, TipoLlamada
  <2> QED
    BY <2>1, Unidades
<1>3. TipoCurso'
  BY <1>1 DEF TypeOK, TipoCurso
<1>4. TipoLlamada'
  BY <1>1, <1>2 DEF TypeOK, TipoLlamada, PutStr
<1> QED
  BY <1>1, <1>3, <1>4, LanzadorTipo DEF PutStr

\* Steps of peticion alone.
LEMMA PeticionIInv ==
  ASSUME IInv, peticion' \in {"sirve", "finErr", "finOut", "mantenida", "cerrada"}, senyales' \in Nat,
         llamada = "no",
         UNCHANGED <<hijo, keepConnection, errorIn, peticiones, Escritores, llamada, cual, resto>>
  PROVE  IInv'
<1>1. TipoCurso'
  BY DEF IInv, TypeOK, TipoCurso
<1>2. TipoLlamada'
  BY DEF IInv, TypeOK, TipoLlamada
<1> QED
  BY <1>1, <1>2, LanzadorTipo

\* Each part of FCGX_Finish_r keeps it.
LEMMA FinishIInv ==
  ASSUME IInv, NEW s \in Flujos, NEW desde, NEW hacia \in SUBSET {"finOut", "mantenida", "cerrada"},
         Finish(s, desde, hacia)
  PROVE  IInv'
<1>1. CASE FClose(s) /\ UNCHANGED curso
  BY <1>1, FCloseIInv
<1>2. CASE /\ Libre /\ peticion' \in hacia
           /\ UNCHANGED <<hijo, keepConnection, errorIn, peticiones, senyales, Escritores, llamada, cual, resto>>
  <2>1. senyales' \in Nat
    BY <1>2 DEF IInv, TypeOK, TipoCurso
  <2> QED
    BY <1>2, <2>1, PeticionIInv DEF Libre
<1> QED
  BY <1>1, <1>2 DEF Finish

\* Another request keeps it.
LEMMA NuevaIInv == IInv /\ Nueva => IInv'
<1> SUFFICES ASSUME IInv, Nueva PROVE IInv'
  OBVIOUS
<1>1. <<>> \in Seq(Unidad) /\ Len(<<>>) = 0
  OBVIOUS
<1>2. Todos(<<>>) \in [Flujos -> Seq(Unidad)] /\ Todos(FALSE) \in [Flujos -> BOOLEAN]
  BY <1>1 DEF Todos
<1>3. TipoCurso'
  BY Limites DEF Nueva, IInv, TypeOK, TipoCurso
<1>4. TipoMarcas'
  BY <1>2 DEF Nueva, IInv, TypeOK, TipoMarcas
<1>5. TipoLlamada'
  BY <1>2 DEF Nueva, IInv, TypeOK, TipoLlamada
<1>6. TipoBuffer'
  <2>1. \A s \in Flujos : Registro(s)' = <<>>
    BY DEF Nueva, Todos, Registro
  <2> QED
    BY <1>1, <1>2, <2>1, Limites DEF Nueva, IInv, TypeOK, TipoBuffer
<1>7. TipoServidor'
  BY <1>2 DEF Nueva, IInv, TypeOK, TipoServidor
<1>8. InvCierre'
  <2>1. llamada' = "no" /\ rawWrite' = Todos(FALSE) /\ wasFCloseCalled' = Todos(FALSE) /\ nWriters' = 2
    BY DEF Nueva, Libre
  <2> QED
    BY <2>1 DEF InvCierre, Todos
<1> QED
  BY <1>3, <1>4, <1>5, <1>6, <1>7, <1>8 DEF IInv, TypeOK

\* SIGUSR1 keeps it.
LEMMA Usr1IInv == IInv /\ Usr1 => IInv'
<1> SUFFICES ASSUME IInv, Usr1 PROVE IInv'
  OBVIOUS
<1>1. senyales' = senyales + 1 /\ UNCHANGED <<hijo, keepConnection, errorIn, peticiones>> /\ TypeOK
  BY DEF Usr1, IInv
<1>2. senyales' \in Nat
  BY <1>1 DEF TypeOK, TipoCurso
<1>3. CASE Libre /\ peticion' = "finErr" /\ UNCHANGED <<Escritores, llamada, cual, resto>>
  BY <1>1, <1>2, <1>3, PeticionIInv DEF Libre
<1>4. CASE FallaEscritura /\ UNCHANGED peticion
  <2>1. TipoCurso'
    BY <1>1, <1>2, <1>4 DEF TypeOK, TipoCurso
  <2> QED
    BY <1>1, <1>4, <2>1, FallaEscrituraIInv
<1> QED
  BY <1>3, <1>4 DEF Usr1

\* Every step keeps the inductive invariant.
LEMMA NextIInv == IInv /\ [Next]_vars => IInv'
<1> SUFFICES ASSUME IInv, [Next]_vars PROVE IInv'
  OBVIOUS
<1>1. CASE Pone \/ Lleno \/ FinPutStr \/ FinFClose \/ Escribe
  BY <1>1, PoneIInv, LlenoIInv, FinPutStrIInv, FinFCloseIInv, EscribeIInv
<1>2. CASE EscribeFalla
  <2>1. TipoCurso'
    BY <1>2 DEF EscribeFalla, IInv, TypeOK, TipoCurso
  <2> QED
    BY <1>2, <2>1, FallaEscrituraIInv DEF EscribeFalla
<1>3. CASE LeeHijo \/ EscribeErr \/ Nueva \/ Usr1
  BY <1>3, LeeHijoIInv, EscribeErrIInv, NuevaIInv, Usr1IInv
<1>4. CASE FinHijo
  <2>1. senyales' \in Nat
    BY <1>4 DEF FinHijo, IInv, TypeOK, TipoCurso
  <2> QED
    BY <1>4, <2>1, PeticionIInv DEF FinHijo, Libre
<1>5. CASE FinishErr
  BY <1>5, FinishIInv DEF FinishErr
<1>6. CASE FinishOut
  BY <1>6, FinishIInv DEF FinishOut
<1>7. CASE CierraAntes
  BY <1>7, FCloseIInv DEF CierraAntes
<1>8. CASE \E s \in Flujos : FFlush(s)
  BY <1>8, FFlushIInv
<1>9. CASE Corta \/ UNCHANGED vars
  <2>1. cortado' \in BOOLEAN
    BY <1>9 DEF Corta, IInv, TypeOK, TipoServidor
  <2>2. UNCHANGED <<curso, buf, marcas, llamada, cual, resto, queda, ultimo, leyendo, recibido, eof, acabada,
                    roto, dado>>
    BY <1>9 DEF Corta
  <2>3. TipoCurso' /\ TipoLlamada'
    BY <2>2 DEF IInv, TypeOK, TipoCurso, TipoLlamada
  <2>4. TipoMarcas'
    BY <2>2 DEF IInv, TypeOK, TipoMarcas
  <2>5. TipoServidor'
    BY <2>1, <2>2 DEF IInv, TypeOK, TipoServidor
  <2>6. InvCierre'
    BY <2>2 DEF IInv, InvCierre
  <2> QED
    BY <2>2, <2>3, <2>4, <2>5, <2>6, BufferIgual DEF IInv, TypeOK
<1> QED
  BY <1>1, <1>2, <1>3, <1>4, <1>5, <1>6, <1>7, <1>8, <1>9 DEF Next, Biblioteca, Lanzador

\* The invariant holds in every state of every launcher.
THEOREM SalidaIInv == Spec => []IInv
<1>1. Init => IInv
  BY InitIInv
<1>2. IInv /\ [Next]_vars => IInv'
  BY NextIInv
<1> QED
  BY <1>1, <1>2, PTL DEF Spec

\* Type correctness: whatever the application writes and whichever writes fail,
\* header, content, padding and closing records fit the buffer of the writer.
THEOREM SalidaTypeOK == Spec => []TypeOK
<1>1. IInv => TypeOK
  BY DEF IInv
<1> QED
  BY <1>1, SalidaIInv, PTL

-----------------------------------------------------------------------------
(* What the server reads.  While no write has failed, what lies between what  *)
(* the application has written and what the server has received, Falta, is in *)
(* the buffer or on its way, and on its way it has the form of the records.   *)

Falta(s) == SubSeq(dado[s], Len(recibido[s]) + 1, Len(dado[s]))
SinErrores == \A s \in Flujos : ~FCGI_errno[s]

\* The calls, and what each state of the request has done.
InvLlamada ==
  /\ llamada = "no" => queda = <<>>
  /\ llamada = "FFlush" => queda # <<>>
  /\ llamada = "FClose" => ~wasFCloseCalled[cual]
  /\ queda # <<>> => ~wasFCloseCalled[cual]
  /\ ultimo => llamada = "FClose" /\ resto = <<>> /\ queda # <<>>
  /\ llamada = "PutStr" => resto \in Seq(DatosDe(cual))
  /\ peticion # "sirve" => llamada \in {"no", "FClose"}
  /\ peticion \in {"mantenida", "cerrada"} => llamada = "no"
  /\ peticion \in {"finOut", "mantenida", "cerrada"} => wasFCloseCalled["err"]
  /\ peticion \in {"mantenida", "cerrada"} => wasFCloseCalled["out"]
  /\ peticion = "mantenida" => SinErrores

\* The units of the call that have not reached the server, and those of them
\* that end stream and request; c is whether the call is FCGX_FClose.
Escribiendo == queda # <<>> \/ llamada = "FClose"
Pendiente ==
  (IF queda = <<>> THEN buf[cual] ELSE queda) \o (IF llamada = "FClose" THEN resto ELSE <<>>)
Final == IF nWriters = 0 THEN EndRequest ELSE <<>>
Colas(s, c) ==
  IF ~c THEN {<<>>}
  ELSE {<<Cab(s, 0)>> \o Final} \cup (IF s = "err" THEN {Final} ELSE {})

\* What a server that stands in "leyendo" has to find: the header, the content,
\* the end of the stream, the end of the request, its second unit, or nothing.
Entre == leyendo.n = 0
TramaCabecera(s, P, c) ==
  /\ Entre /\ ~eof[s] /\ acabada = 0 /\ Falta(s) # <<>>
  /\ \E C \in Colas(s, c) : P = <<Cab(s, Len(Falta(s)))>> \o (Falta(s) \o C)
TramaDatos(s, P, c) ==
  /\ leyendo = [de |-> s, n |-> Len(Falta(s))] /\ ~eof[s] /\ acabada = 0 /\ Falta(s) # <<>>
  /\ \E C \in Colas(s, c) : P = Falta(s) \o C
TramaCola(s, P, c) == Entre /\ ~eof[s] /\ acabada = 0 /\ Falta(s) = <<>> /\ P \in Colas(s, c)
TramaFin(s, P, c) ==
  Entre /\ eof[s] /\ acabada = 0 /\ Falta(s) = <<>> /\ P = Final /\ c
TramaCuerpo(s, P, c) ==
  /\ leyendo = [de |-> "fin", n |-> 1] /\ acabada = 0 /\ Falta(s) = <<>>
  /\ P = Tail(EndRequest) /\ nWriters = 0 /\ c /\ (s = "out" => eof[s])
TramaAcabada(s, P, c) ==
  /\ Entre /\ acabada = 1 /\ Falta(s) = <<>>
  /\ P = <<>> /\ nWriters = 0 /\ c /\ (s = "out" => eof[s])
Trama(s, P, c) ==
  \/ TramaCabecera(s, P, c) \/ TramaDatos(s, P, c) \/ TramaCola(s, P, c)
  \/ TramaFin(s, P, c) \/ TramaCuerpo(s, P, c) \/ TramaAcabada(s, P, c)

\* Stream s, when it is not the one being written.
HiloDe(s) ==
  /\ dado[s] = recibido[s] \o Falta(s) /\ Falta(s) \in Seq(DatosDe(s))
  /\ ~rawWrite[s] /\ ~(queda # <<>> /\ cual = s) => buf[s] = Falta(s)
  /\ ~rawWrite[s] => ~eof[s]
  /\ isClosed[s] => wasFCloseCalled[s]
  /\ wasFCloseCalled[s] => Falta(s) = <<>> /\ (s = "out" => eof[s])
Hilo ==
  /\ ~roto
  /\ \A s \in Flujos : HiloDe(s)
  /\ ~Escribiendo => Entre /\ acabada = (IF nWriters = 0 THEN 1 ELSE 0)
  /\ Escribiendo => Trama(cual, Pendiente, llamada = "FClose")
InvHilo == SinErrores => Hilo

\* What the server makes of each kind of unit, where it fits.
LEMMA RecibeCab ==
  ASSUME NEW s \in Flujos, NEW n, Recibe(Cab(s, n)), ~roto, Entre, ~eof[s]
  PROVE  /\ leyendo' = [de |-> s, n |-> n]
         /\ eof' = IF n = 0 THEN [eof EXCEPT ![s] = TRUE] ELSE eof
         /\ UNCHANGED <<recibido, acabada, roto>>
BY DEF Recibe, Cab, Entre

\* The server takes a unit of content of the record it is reading.
LEMMA RecibeDato ==
  ASSUME NEW s \in Flujos, NEW u \in DatosDe(s), Recibe(u), ~roto, leyendo.n # 0, leyendo.de = s
  PROVE  /\ leyendo' = [leyendo EXCEPT !.n = @ - 1]
         /\ recibido' = [recibido EXCEPT ![s] = Append(@, u)]
         /\ UNCHANGED <<eof, acabada, roto>>
<1>1. u.t = "dato" /\ u.de = s
  BY DEF DatosDe
<1> QED BY <1>1 DEF Recibe

\* The server takes the header of the record that ends the request.
LEMMA RecibeFin ==
  ASSUME Recibe(Head(EndRequest)), ~roto, Entre
  PROVE  /\ leyendo' = [de |-> "fin", n |-> 1]
         /\ UNCHANGED <<recibido, eof, acabada, roto>>
<1> DEFINE u == [t |-> "fin", de |-> "fin", n |-> 1]
<1>1. Head(EndRequest) = u
  BY DEF EndRequest
<1>2. u.t = "fin" /\ u.de = "fin" /\ u.n = 1
  OBVIOUS
<1> HIDE DEF u
<1> QED BY <1>1, <1>2 DEF Recibe, Entre

\* The server takes the body of that record.
LEMMA RecibeCuerpo ==
  ASSUME Recibe(Head(Tail(EndRequest))), ~roto, leyendo = [de |-> "fin", n |-> 1]
  PROVE  /\ leyendo' = [leyendo EXCEPT !.n = @ - 1] /\ acabada' = acabada + 1
         /\ UNCHANGED <<recibido, eof, roto>>
<1> DEFINE u == [t |-> "cuerpo", de |-> "fin", n |-> 1]
<1>1. Head(Tail(EndRequest)) = u
  BY DEF EndRequest
<1>2. u.t = "cuerpo" /\ u.de = "fin" /\ u.n = 1
  OBVIOUS
<1>3. leyendo.n # 0 /\ leyendo.de = "fin"
  OBVIOUS
<1> HIDE DEF u
<1>4. Recibe(u) /\ ~roto
  BY <1>1
<1> QED BY ONLY <1>2, <1>3, <1>4 DEF Recibe

\* The head and the tail of two sequences one after the other.
LEMMA CabezaYCola ==
  ASSUME NEW S, NEW a \in Seq(S), NEW b \in Seq(S), a # <<>>
  PROVE  /\ Head(a) \in S /\ Tail(a) \in Seq(S) /\ Len(Tail(a)) = Len(a) - 1
         /\ Head(a \o b) = Head(a) /\ Tail(a \o b) = Tail(a) \o b
OBVIOUS

\* What follows a beginning.
LEMMA LoQueSigue ==
  ASSUME NEW S, NEW a \in Seq(S), NEW b \in Seq(S)
  PROVE  SubSeq(a \o b, Len(a) + 1, Len(a \o b)) = b
<1>1. a \o b \in Seq(S) /\ Len(a \o b) = Len(a) + Len(b)
      /\ \A k \in 1..Len(a) + Len(b) : (a \o b)[k] = IF k <= Len(a) THEN a[k] ELSE b[k - Len(a)]
  BY ConcatProperties
<1> DEFINE c == SubSeq(a \o b, Len(a) + 1, Len(a \o b))
<1>2. Len(a) \in Nat /\ Len(b) \in Nat
  OBVIOUS
<1>3. \A k \in (Len(a) + 1)..Len(a \o b) : (a \o b)[k] \in S
  BY <1>1, <1>2
<1>4. c \in Seq(S) /\ Len(c) = Len(b)
      /\ \A k \in 1..Len(b) : c[k] = (a \o b)[Len(a) + 1 + k - 1]
  BY <1>1, <1>2, <1>3, SubSeqProperties
<1>5. \A k \in 1..Len(b) : c[k] = b[k]
  <2> HIDE DEF c
  <2> TAKE k \in 1..Len(b)
  <2>1. c[k] = (a \o b)[Len(a) + k]
    BY <1>2, <1>4, SMTT(30)
  <2>2. Len(a) + k \in 1..Len(a) + Len(b) /\ ~(Len(a) + k <= Len(a)) /\ Len(a) + k - Len(a) = k
    BY <1>2
  <2> QED BY <1>1, <2>1, <2>2
<1> HIDE DEF c
<1>6. c = b
  BY <1>4, <1>5, SeqEqual
<1> QED BY <1>6 DEF c

\* One unit of content goes from one side to the other.
LEMMA PasaUno ==
  ASSUME NEW S, NEW a \in Seq(S), NEW b \in Seq(S), b # <<>>
  PROVE  a \o b = Append(a, Head(b)) \o Tail(b)
<1>1. Head(b) \in S /\ Tail(b) \in Seq(S) /\ b = <<Head(b)>> \o Tail(b)
  OBVIOUS
<1>2. Append(a, Head(b)) = a \o <<Head(b)>>
  BY <1>1, AppendIsConcat
<1>3. <<Head(b)>> \in Seq(S)
  BY <1>1
<1> QED BY <1>1, <1>2, <1>3, ConcatAssociative

\* What is left of a stream, of which content is a part.
LEMMA FaltaTipo ==
  ASSUME TypeOK, NEW s \in Flujos, HiloDe(s)
  PROVE  /\ Falta(s) \in Seq(DatosDe(s)) /\ Falta(s) \in Seq(Unidad)
         /\ Len(Falta(s)) \in Nat /\ (Falta(s) # <<>> => Len(Falta(s)) # 0)
         /\ recibido[s] \in Seq(Unidad) /\ dado[s] \in Seq(Unidad)
         /\ DatosDe(s) \subseteq Unidad
<1>1. DatosDe(s) \subseteq Unidad
  BY DEF DatosDe, Unidad
<1>2. Falta(s) \in Seq(DatosDe(s))
  BY DEF HiloDe
<1>3. Falta(s) \in Seq(Unidad)
  <2> HIDE DEF Falta
  <2> QED BY <1>1, <1>2, SeqMonotonic
<1>4. recibido[s] \in Seq(Unidad) /\ dado[s] \in Seq(Unidad)
  BY DEF TypeOK, TipoServidor, TipoLlamada
<1>5. Len(Falta(s)) \in Nat /\ (Falta(s) # <<>> => Len(Falta(s)) # 0)
  <2> HIDE DEF Falta
  <2> QED BY <1>3, EmptySeq
<1> QED BY <1>1, <1>2, <1>3, <1>4, <1>5

\* The ends of a stream.
LEMMA ColasTipo ==
  ASSUME NEW s \in Flujos, NEW c \in BOOLEAN, NEW C \in Colas(s, c)
  PROVE  /\ C \in Seq(Unidad) /\ Final \in Seq(Unidad)
         /\ C # <<>> => \/ Head(C) = Cab(s, 0) /\ Tail(C) = Final
                        \/ C = Final
         /\ C # <<>> => c
<1>1. Final \in Seq(Unidad)
  <2>1. <<>> \in Seq(Unidad)
    OBVIOUS
  <2> QED BY <2>1, Unidades DEF Final
<1>2. CASE ~c
  BY <1>1, <1>2 DEF Colas
<1>3. CASE C = <<Cab(s, 0)>> \o Final /\ c
  <2> DEFINE k == Cab(s, 0)
  <2>1. k \in Unidad
    BY Unidades, Limites
  <2>2. <<k>> \o Final \in Seq(Unidad) /\ Head(<<k>> \o Final) = k /\ Tail(<<k>> \o Final) = Final
    <3> HIDE DEF k
    <3>1. Head(<<k>>) = k /\ Tail(<<k>>) = <<>> /\ <<k>> # <<>> /\ <<k>> \in Seq(Unidad)
      BY <2>1
    <3>2. Tail(<<k>> \o Final) = <<>> \o Final /\ Head(<<k>> \o Final) = k
      BY <1>1, <3>1, CabezaYCola
    <3> QED BY <1>1, <3>1, <3>2, ConcatEmptySeq, ConcatProperties
  <2> QED BY <1>1, <1>3, <2>2
<1>4. CASE C = Final /\ c
  BY <1>1, <1>4
<1> QED BY <1>2, <1>3, <1>4 DEF Colas

\* The two units that end a request.
LEMMA FinalHace ==
  ASSUME Final # <<>>
  PROVE  nWriters = 0 /\ Head(Final) = Head(EndRequest) /\ Tail(Final) = Tail(EndRequest)
BY DEF Final

\* What a unit taken by the server leaves to be read.
TrasRecibir(s, Q, c) ==
  /\ Trama(s, Q, c)' /\ ~roto'
  /\ dado'[s] = recibido'[s] \o Falta(s)' /\ Falta(s)' \in Seq(DatosDe(s))
  /\ \A z \in Flujos \ {s} : recibido'[z] = recibido[z] /\ eof'[z] = eof[z]
  /\ ~c => ~eof'[s]

\* Handing over the header of a record leaves its content to come.
LEMMA RecibeCabecera ==
  ASSUME TypeOK, ~roto, NEW s \in Flujos, NEW c \in BOOLEAN, HiloDe(s), NEW P, TramaCabecera(s, P, c), NEW Q, Q = Tail(P),
         Recibe(Head(P)), UNCHANGED <<dado, nWriters>>
  PROVE  TrasRecibir(s, Q, c)
<1>1. PICK e : e = Falta(s)
  OBVIOUS
<1>2. /\ e \in Seq(DatosDe(s)) /\ e \in Seq(Unidad) /\ Len(e) \in Nat \ {0} /\ e # <<>>
      /\ dado[s] = recibido[s] \o e
  BY <1>1, FaltaTipo DEF TramaCabecera, HiloDe
<1>3. PICK C \in Colas(s, c) : P = <<Cab(s, Len(e))>> \o (e \o C)
  BY <1>1 DEF TramaCabecera
<1>4. Head(P) = Cab(s, Len(e)) /\ Q = e \o C
  <2> DEFINE k == Cab(s, Len(e))
             d == e \o C
  <2>1. d \in Seq(Unidad)
    BY <1>2, <1>3, ColasTipo, ConcatProperties
  <2>2. P = <<k>> \o d
    BY <1>3
  <2> HIDE DEF k, d
  <2>3. Head(P) = k /\ Tail(P) = d
    <3>1. d \in Seq(Unidad \cup {k}) /\ <<k>> \in Seq(Unidad \cup {k})
      BY <2>1
    <3>2. Head(<<k>>) = k /\ Tail(<<k>>) = <<>> /\ <<k>> # <<>>
      OBVIOUS
    <3> QED BY <2>2, <3>1, <3>2, CabezaYCola, ConcatEmptySeq
  <2> QED BY <2>3 DEF k, d
<1>5. /\ leyendo' = [de |-> s, n |-> Len(e)]
      /\ UNCHANGED <<recibido, eof, acabada, roto>>
  <2>1. Entre /\ ~eof[s]
    BY DEF TramaCabecera
  <2>2. Recibe(Cab(s, Len(e)))
    BY <1>4
  <2> QED BY <1>2, <2>1, <2>2, RecibeCab
<1>6. Falta(s)' = e
  BY <1>1, <1>5 DEF Falta
<1>7. TramaDatos(s, Q, c)'
  <2>1. C \in Colas(s, c)'
    BY <1>3 DEF Colas, Final
  <2> QED BY <1>2, <1>4, <1>5, <1>6, <2>1 DEF TramaDatos, TramaCabecera
<1> QED BY <1>2, <1>5, <1>6, <1>7 DEF TrasRecibir, Trama, TramaCabecera

\* Handing over a unit of content leaves the rest to come.
LEMMA RecibeDatos ==
  ASSUME TypeOK, ~roto, NEW s \in Flujos, NEW c \in BOOLEAN, HiloDe(s), NEW P, TramaDatos(s, P, c), NEW Q, Q = Tail(P),
         Recibe(Head(P)), UNCHANGED <<dado, nWriters>>
  PROVE  TrasRecibir(s, Q, c)
<1>1. PICK e : e = Falta(s)
  OBVIOUS
<1>2. PICK r : r = recibido[s]
  OBVIOUS
<1>3. /\ e \in Seq(DatosDe(s)) /\ e \in Seq(Unidad) /\ Len(e) \in Nat \ {0} /\ e # <<>>
      /\ r \in Seq(Unidad) /\ dado[s] = r \o e /\ DatosDe(s) \subseteq Unidad
  BY <1>1, <1>2, FaltaTipo DEF TramaDatos, HiloDe
<1>4. PICK C \in Colas(s, c) : P = e \o C
  BY <1>1 DEF TramaDatos
<1>5. C \in Seq(Unidad)
  BY ColasTipo
<1>6. Head(P) = Head(e) /\ Q = Tail(e) \o C /\ Head(e) \in DatosDe(s)
      /\ Tail(e) \in Seq(DatosDe(s)) /\ Tail(e) \in Seq(Unidad) /\ Len(Tail(e)) = Len(e) - 1
  BY <1>3, <1>4, <1>5, CabezaYCola
<1>7. leyendo = [de |-> s, n |-> Len(e)] /\ ~eof[s] /\ acabada = 0
  BY <1>1 DEF TramaDatos
<1>8. leyendo.n = Len(e) /\ leyendo.de = s
  BY <1>7
<1>9. /\ leyendo' = [leyendo EXCEPT !.n = @ - 1]
      /\ recibido' = [recibido EXCEPT ![s] = Append(@, Head(e))]
      /\ UNCHANGED <<eof, acabada, roto>>
  <2>1. Recibe(Head(e))
    BY <1>6
  <2> QED BY ONLY <1>3, <1>6, <1>8, <2>1, ~roto, s \in Flujos, RecibeDato
<1>10. leyendo' = [de |-> s, n |-> Len(Tail(e))]
  BY <1>6, <1>7, <1>9
<1>11. recibido'[s] = Append(r, Head(e)) /\ \A z \in Flujos \ {s} : recibido'[z] = recibido[z]
  BY <1>2, <1>9 DEF TypeOK, TipoServidor
<1>12. dado'[s] = recibido'[s] \o Tail(e) /\ recibido'[s] \in Seq(Unidad)
  <2>1. r \o e = Append(r, Head(e)) \o Tail(e)
    BY <1>3, PasaUno
  <2>2. Append(r, Head(e)) \in Seq(Unidad)
    BY <1>3, <1>6
  <2> QED BY <1>3, <1>11, <2>1, <2>2
<1>13. Falta(s)' = Tail(e)
  BY <1>6, <1>12, LoQueSigue DEF Falta
<1>14. C \in Colas(s, c)'
  BY <1>4 DEF Colas, Final
<1>15. CASE Tail(e) # <<>>
  <2>1. TramaDatos(s, Q, c)'
    BY <1>6, <1>7, <1>9, <1>10, <1>13, <1>14, <1>15 DEF TramaDatos
  <2> QED BY <1>6, <1>7, <1>9, <1>11, <1>12, <1>13, <2>1 DEF TrasRecibir, Trama
<1>16. CASE Tail(e) = <<>>
  <2>1. Q = C /\ Entre'
    <3>1. <<>> \o C = C
      BY <1>5, ConcatEmptySeq
    <3>2. leyendo'.n = 0
      BY <1>10, <1>16
    <3> QED BY <1>6, <1>16, <3>1, <3>2 DEF Entre
  <2>2. TramaCola(s, Q, c)'
    BY <1>7, <1>9, <1>13, <1>14, <1>16, <2>1 DEF TramaCola
  <2> QED BY <1>6, <1>7, <1>9, <1>11, <1>12, <1>13, <2>2 DEF TrasRecibir, Trama
<1> QED BY <1>15, <1>16

\* FCGI_END_REQUEST begins.
LEMMA RecibeElFin ==
  ASSUME TypeOK, ~roto, NEW s \in Flujos, NEW c \in BOOLEAN, HiloDe(s), Final # <<>>, Entre, acabada = 0, Falta(s) = <<>>,
         c, s = "out" => eof[s],
         NEW Q, Q = Tail(Final), Recibe(Head(Final)), UNCHANGED <<dado, nWriters>>
  PROVE  TrasRecibir(s, Q, c)
<1>1. nWriters = 0 /\ Recibe(Head(EndRequest)) /\ Q = Tail(EndRequest)
  BY FinalHace
<1>2. leyendo' = [de |-> "fin", n |-> 1] /\ UNCHANGED <<recibido, eof, acabada, roto>>
  BY <1>1, RecibeFin
<1>3. Falta(s)' = Falta(s)
  BY <1>2 DEF Falta
<1>4. TramaCuerpo(s, Q, c)'
  BY <1>1, <1>2, <1>3 DEF TramaCuerpo
<1> QED BY <1>2, <1>3, <1>4 DEF TrasRecibir, Trama, HiloDe

\* Handing over a unit of what ends a stream or the request leaves the rest.
LEMMA RecibeCola ==
  ASSUME TypeOK, ~roto, NEW s \in Flujos, NEW c \in BOOLEAN, HiloDe(s), NEW P, P # <<>>, TramaCola(s, P, c),
         NEW Q, Q = Tail(P), Recibe(Head(P)), UNCHANGED <<dado, nWriters>>
  PROVE  TrasRecibir(s, Q, c)
<1>1. /\ Entre /\ ~eof[s] /\ acabada = 0 /\ Falta(s) = <<>> /\ c
      /\ \/ Head(P) = Cab(s, 0) /\ Tail(P) = Final
         \/ P = Final
  BY ColasTipo DEF TramaCola
<1>2. CASE Head(P) = Cab(s, 0) /\ Tail(P) = Final
  <2>1. /\ leyendo' = [de |-> s, n |-> 0] /\ eof' = [eof EXCEPT ![s] = TRUE]
        /\ UNCHANGED <<recibido, acabada, roto>>
    <3>1. Recibe(Cab(s, 0))
      BY <1>2
    <3> QED BY <1>1, <3>1, RecibeCab
  <2>2. eof'[s] /\ \A z \in Flujos \ {s} : eof'[z] = eof[z]
    BY <2>1 DEF TypeOK, TipoServidor
  <2>3. Falta(s)' = Falta(s) /\ Final' = Final
    BY <2>1 DEF Falta, Final
  <2>4. TramaFin(s, Q, c)'
    BY <1>1, <1>2, <2>1, <2>2, <2>3 DEF TramaFin, Entre
  <2> QED BY <1>1, <2>1, <2>2, <2>3, <2>4 DEF TrasRecibir, Trama, HiloDe
<1>3. CASE P = Final /\ s # "out"
  BY <1>1, <1>3, RecibeElFin
<1>4. CASE P = Final /\ s = "out"
  <2>1. Head(P) = Cab(s, 0) /\ Tail(P) = Final
    <3>1. P = <<Cab(s, 0)>> \o Final
      BY <1>1, <1>4 DEF TramaCola, Colas
    <3> QED BY <1>1, <1>4, <3>1 DEF Final, EndRequest
  <2> QED BY <1>2, <2>1
<1> QED BY <1>1, <1>2, <1>3, <1>4

\* Handing over the first unit of what a writer has prepared leaves the rest.
LEMMA RecibeTrama ==
  ASSUME TypeOK, ~roto, NEW s \in Flujos, NEW c \in BOOLEAN, HiloDe(s), NEW P, P # <<>>, Trama(s, P, c),
         NEW Q, Q = Tail(P), Recibe(Head(P)), UNCHANGED <<dado, nWriters>>
  PROVE  TrasRecibir(s, Q, c)
<1>1. CASE TramaCabecera(s, P, c)
  BY <1>1, RecibeCabecera
<1>2. CASE TramaDatos(s, P, c)
  BY <1>2, RecibeDatos
<1>3. CASE TramaCola(s, P, c)
  BY <1>3, RecibeCola
<1>4. CASE TramaFin(s, P, c)
  BY <1>4, RecibeElFin DEF TramaFin
<1>5. CASE TramaCuerpo(s, P, c)
  <2>1. /\ leyendo = [de |-> "fin", n |-> 1] /\ acabada = 0 /\ Falta(s) = <<>>
        /\ P = Tail(EndRequest) /\ nWriters = 0 /\ c /\ (s = "out" => eof[s])
    BY <1>5 DEF TramaCuerpo
  <2>2. /\ leyendo' = [leyendo EXCEPT !.n = @ - 1] /\ acabada' = acabada + 1
        /\ UNCHANGED <<recibido, eof, roto>>
    BY <2>1, RecibeCuerpo
  <2>3. leyendo'.n = 0 /\ acabada' = 1
    BY <2>1, <2>2
  <2>4. Q = <<>>
    BY <2>1 DEF EndRequest
  <2>5. Falta(s)' = Falta(s)
    BY <2>2 DEF Falta
  <2>6. TramaAcabada(s, Q, c)'
    BY <2>1, <2>2, <2>3, <2>4, <2>5 DEF TramaAcabada, Entre
  <2> QED BY <2>1, <2>2, <2>5, <2>6 DEF TrasRecibir, Trama, HiloDe
<1>6. CASE TramaAcabada(s, P, c)
  BY <1>6 DEF TramaAcabada
<1> QED BY <1>1, <1>2, <1>3, <1>4, <1>5, <1>6 DEF Trama

\* What is put in the buffer, or written, is not nothing.
LEMMA RegistroNoVacio ==
  ASSUME TypeOK, NEW s \in Flujos, buf[s] # <<>>
  PROVE  Registro(s) # <<>>
<1>1. buf[s] \in Seq(Unidad)
  BY RegistroTipo
<1> DEFINE c == Cab(s, Len(buf[s]))
<1>2. <<c>> \o buf[s] # <<>>
  <2> HIDE DEF c
  <2>1. <<c>> \in Seq(Unidad \cup {c}) /\ buf[s] \in Seq(Unidad \cup {c})
    BY <1>1
  <2>2. Len(<<c>> \o buf[s]) = 1 + Len(buf[s])
    BY <2>1
  <2> QED BY <1>1, <2>2
<1> QED BY <1>2 DEF Registro

\* A full buffer is not empty.
LEMMA LlenoNoVacio ==
  ASSUME TypeOK, NEW s \in Flujos, Sitio(s) = 0, ~wasFCloseCalled[s]
  PROVE  buf[s] # <<>>
BY RegistroTipo, Limites DEF Sitio

\* The return of EmptyBuffProc ends the call, or leaves it where it was.
LEMMA TrasEscribirLlamada ==
  ASSUME IInv, InvLlamada, queda # <<>>, queda' = <<>>, TrasEscribir,
         UNCHANGED <<peticion, cual, resto>>, SinErrores => (peticion = "mantenida" => SinErrores')
  PROVE  InvLlamada'
<1> USE DEF IInv, TypeOK, TipoLlamada, TipoMarcas, TipoCurso, InvLlamada
<1>1. CASE llamada = "FFlush" /\ llamada' = "no" /\ UNCHANGED <<ultimo, wasFCloseCalled>>
  BY <1>1
<1>2. CASE llamada \in {"PutStr", "FClose"} /\ ~ultimo /\ UNCHANGED <<llamada, ultimo, wasFCloseCalled>>
  BY <1>2
<1>3. CASE /\ llamada = "FClose" /\ ultimo /\ llamada' = "no" /\ ultimo' = FALSE
           /\ wasFCloseCalled' = [wasFCloseCalled EXCEPT ![cual] = TRUE]
  BY <1>3
<1> QED BY <1>1, <1>2, <1>3 DEF TrasEscribir

\* A write that fails leaves the calls in order.
LEMMA FallaEscrituraLlamada ==
  ASSUME IInv, InvLlamada, FallaEscritura, UNCHANGED peticion
  PROVE  InvLlamada'
<1>1. peticion # "mantenida"
  BY DEF InvLlamada, FallaEscritura
<1> QED BY <1>1, TrasEscribirLlamada DEF FallaEscritura

\* A close leaves the calls in order.
LEMMA FCloseLlamada ==
  ASSUME IInv, InvLlamada, NEW s \in Flujos, FClose(s), UNCHANGED curso,
         peticion \notin {"mantenida", "cerrada"}
  PROVE  InvLlamada'
BY DEF IInv, InvCierre, TypeOK, TipoLlamada, TipoMarcas, InvLlamada, FClose, Libre, SinErrores

\* A step of peticion alone, between two calls.
LEMMA PeticionLlamada ==
  ASSUME IInv, InvLlamada, llamada = "no",
         UNCHANGED <<Escritores, llamada, cual, resto>>,
         peticion' \in {"finOut", "mantenida", "cerrada"} => wasFCloseCalled["err"],
         peticion' \in {"mantenida", "cerrada"} => wasFCloseCalled["out"],
         peticion' = "mantenida" => SinErrores
  PROVE  InvLlamada'
BY DEF InvLlamada, SinErrores

\* A call that writes leaves the calls in order.
LEMMA PutStrLlamada ==
  ASSUME IInv, InvLlamada, llamada = "no", peticion = "sirve", UNCHANGED <<peticion, Escritores>>,
         NEW s \in Flujos, NEW q \in Seq(DatosDe(s)), PutStr(s, q)
  PROVE  InvLlamada'
BY DEF InvLlamada, PutStr

\* Every step leaves the calls in order.
LEMMA LlamadaPaso == IInv /\ InvLlamada /\ [Next]_vars => InvLlamada'
<1> SUFFICES ASSUME IInv, InvLlamada, [Next]_vars PROVE InvLlamada'
  OBVIOUS
<1> USE DEF InvLlamada
<1>1. TypeOK /\ InvCierre /\ cual \in Flujos
  BY DEF IInv, TypeOK, TipoLlamada
<1>2. CASE Pone
  <2>1. /\ UNCHANGED <<curso, marcas, llamada, cual, queda, ultimo, servidor>> /\ resto # <<>>
        /\ queda = <<>> /\ Sitio(cual) > 0 /\ resto \in Seq(Unidad)
        /\ resto' = SubSeq(resto, Menor(Len(resto), Sitio(cual)) + 1, Len(resto))
    BY <1>1, <1>2 DEF Pone, EnPutStr, TypeOK, TipoLlamada
  <2>2. Menor(Len(resto), Sitio(cual)) \in 0..Len(resto)
    BY <1>1, <2>1, SitioTipo DEF Menor
  <2>3. llamada = "PutStr" => resto' \in Seq(DatosDe(cual))
    BY <2>1, <2>2, Partir
  <2> QED BY <2>1, <2>3 DEF SinErrores
<1>3. CASE Lleno
  <2>1. UNCHANGED <<curso, buf, llamada, cual, ultimo, servidor, dado>> /\ ~ultimo
        /\ llamada \in {"PutStr", "FClose"}
    BY <1>3 DEF Lleno, EnPutStr
  <2>2. CASE isClosed[cual]
    <3>1. resto' = <<>> /\ UNCHANGED <<queda, marcas>> /\ <<>> \in Seq(DatosDe(cual))
      BY <1>3, <2>2 DEF Lleno
    <3> QED BY <2>1, <3>1 DEF SinErrores
  <2>3. CASE ~isClosed[cual]
    <3>1. Envia(cual, Registro(cual)) /\ UNCHANGED resto /\ ~wasFCloseCalled[cual]
      BY <1>1, <1>3, <2>3 DEF Lleno, InvCierre
    <3> QED BY <2>1, <3>1 DEF SinErrores, Envia
  <2> QED BY <2>2, <2>3
<1>4. CASE FinPutStr
  BY <1>4 DEF FinPutStr, EnPutStr, Vuelve, SinErrores
<1>5. CASE \E s \in Flujos : FFlush(s)
  <2>1. PICK s \in Flujos : FFlush(s)
    BY <1>5
  <2>2. Registro(s) # <<>> /\ ~wasFCloseCalled[s]
    BY <1>1, <2>1, RegistroNoVacio DEF FFlush, InvCierre
  <2> QED BY <2>1, <2>2 DEF FFlush, Libre, Envia, SinErrores
<1>6. CASE CierraAntes
  BY <1>6, FCloseLlamada DEF CierraAntes
<1>7. CASE FinFClose
  <2>1. /\ UNCHANGED <<curso, buf, cual, resto, servidor, dado>> /\ llamada = "FClose" /\ resto = <<>>
        /\ peticion \notin {"mantenida", "cerrada"} /\ queda = <<>>
    BY <1>7 DEF FinFClose, EnPutStr
  <2>2. CASE buf[cual] = <<>>
    <3>1. Cerrado(cual) /\ UNCHANGED <<queda, FCGI_errno>>
      BY <1>7, <2>2 DEF FinFClose
    <3>2. wasFCloseCalled["err"] => wasFCloseCalled'["err"]
      BY <1>1, <3>1 DEF Cerrado, TypeOK, TipoMarcas
    <3> QED BY <2>1, <3>1, <3>2 DEF SinErrores, Cerrado
  <2>3. CASE buf[cual] # <<>>
    <3>1. ultimo' = TRUE /\ Envia(cual, buf[cual]) /\ UNCHANGED llamada
      BY <1>7, <2>3 DEF FinFClose
    <3> QED BY <2>1, <2>3, <3>1 DEF SinErrores, Envia
  <2> QED BY <2>2, <2>3
<1>8. CASE Escribe
  <2>1. /\ queda # <<>> /\ queda' = Tail(queda)
        /\ UNCHANGED <<curso, rawWrite, isAnythingWritten, FCGI_errno, nWriters, cual, resto, cortado, dado>>
    BY <1>8 DEF Escribe
  <2>2. CASE queda' # <<>>
    <3>1. UNCHANGED <<buf, llamada, ultimo, wasFCloseCalled, isClosed>>
      BY <1>8, <2>2 DEF Escribe
    <3> QED BY <2>1, <2>2, <3>1 DEF SinErrores
  <2>3. CASE queda' = <<>>
    <3>1. TrasEscribir
      BY <1>8, <2>3 DEF Escribe
    <3> QED BY <2>1, <2>3, <3>1, TrasEscribirLlamada DEF SinErrores
  <2> QED BY <2>2, <2>3
<1>9. CASE EscribeFalla
  BY <1>9, FallaEscrituraLlamada DEF EscribeFalla
<1>10. CASE Usr1
  <2>1. CASE Libre /\ peticion = "sirve" /\ peticion' = "finErr" /\ UNCHANGED <<Escritores, llamada, cual, resto>>
    BY <2>1, PeticionLlamada DEF Libre
  <2>2. CASE FallaEscritura /\ UNCHANGED peticion
    BY <2>2, FallaEscrituraLlamada
  <2> QED BY <1>10, <2>1, <2>2 DEF Usr1
<1>11. CASE LeeHijo
  <2>1. llamada = "no" /\ peticion = "sirve" /\ UNCHANGED <<peticion, Escritores>> /\ hijo \in Nat
    BY <1>1, <1>11, Limites DEF LeeHijo, Libre, TypeOK, TipoCurso
  <2>2. PICK n \in 1..Menor(LeeLen, NSalida - hijo) :
          \E k \in Restos(hijo, n) : PutStr("out", Texto(hijo, n, k))
    BY <1>11 DEF LeeHijo
  <2>k. PICK k \in Restos(hijo, n) : PutStr("out", Texto(hijo, n, k))
    BY <2>2
  <2>3. n \in Nat
    BY <1>1, <2>1, Limites DEF Menor, TypeOK, TipoCurso
  <2>4. Texto(hijo, n, k) \in Seq(DatosDe("out"))
    BY <2>1, <2>3, TextoEs
  <2> QED BY <2>1, <2>k, <2>4, PutStrLlamada
<1>12. CASE EscribeErr
  <2>1. Dato("err", Len(dado["err"]) + 1) \in DatosDe("err")
    BY <1>1 DEF TypeOK, TipoLlamada, Dato, DatosDe
  <2>2. <<Dato("err", Len(dado["err"]) + 1)>> \in Seq(DatosDe("err"))
    BY <2>1
  <2> QED BY <1>12, <2>2, PutStrLlamada DEF EscribeErr, Libre
<1>13. CASE FinHijo
  BY <1>13, PeticionLlamada DEF FinHijo, Libre
<1>14. CASE FinishErr
  <2>1. CASE peticion = "finErr" /\ FClose("err") /\ UNCHANGED curso
    BY <2>1, FCloseLlamada
  <2>2. CASE /\ Libre /\ wasFCloseCalled["err"] /\ peticion' \in {"finOut"}
             /\ UNCHANGED <<Escritores, llamada, cual, resto>>
    BY <2>2, PeticionLlamada DEF Libre
  <2> QED BY <1>14, <2>1, <2>2 DEF FinishErr, Finish
<1>15. CASE FinishOut
  <2>1. CASE peticion = "finOut" /\ FClose("out") /\ UNCHANGED curso
    BY <2>1, FCloseLlamada
  <2>2. CASE /\ peticion = "finOut" /\ Libre /\ wasFCloseCalled["out"]
             /\ peticion' \in {IF keepConnection /\ ~errorIn /\ ~FCGI_errno["out"] /\ ~FCGI_errno["err"]
                                 THEN "mantenida" ELSE "cerrada"}
             /\ UNCHANGED <<Escritores, llamada, cual, resto>>
    BY <2>2, PeticionLlamada DEF Libre, SinErrores
  <2> QED BY <1>15, <2>1, <2>2 DEF FinishOut, Finish
<1>16. CASE Nueva
  BY <1>16 DEF Nueva, Libre
<1>17. CASE Corta \/ UNCHANGED vars
  BY <1>17 DEF Corta, SinErrores
<1> QED
  BY <1>2, <1>3, <1>4, <1>5, <1>6, <1>7, <1>8, <1>9, <1>10, <1>11, <1>12, <1>13, <1>14, <1>15, <1>16, <1>17
     DEF Next, Biblioteca, Lanzador

\* A step that is not seen by the server nor by what is on its way.
LEMMA TramaIgual ==
  ASSUME NEW s, NEW P, NEW c, Trama(s, P, c),
         UNCHANGED <<leyendo, eof, acabada, dado, recibido, nWriters>>
  PROVE  Trama(s, P, c)'
<1>1. Falta(s)' = Falta(s) /\ Entre' = Entre /\ Final' = Final /\ Colas(s, c)' = Colas(s, c)
  BY DEF Falta, Entre, Final, Colas
<1> QED
  BY <1>1 DEF Trama, TramaCabecera, TramaDatos, TramaCola, TramaFin, TramaCuerpo, TramaAcabada

\* A step between two writes, or that begins a call without writing.
LEMMA HiloQuieto ==
  ASSUME Hilo, ~Escribiendo, ~Escribiendo', nWriters' = nWriters,
         UNCHANGED <<buf, dado, recibido, eof, rawWrite, isClosed, wasFCloseCalled, roto, leyendo, acabada>>
  PROVE  Hilo'
<1>1. \A s \in Flujos : Falta(s)' = Falta(s)
  BY DEF Falta
<1>2. Entre' = Entre
  BY DEF Entre
<1>3. \A s \in Flujos : HiloDe(s)'
  BY <1>1 DEF Hilo, HiloDe, Escribiendo
<1> QED BY <1>2, <1>3 DEF Hilo

\* The server has found an end: nothing is left, and the request is over if no
\* writer is.
LEMMA TramaVacia ==
  ASSUME NEW s \in Flujos, NEW c \in BOOLEAN, Falta(s) \in Seq(Unidad), Trama(s, <<>>, c)
  PROVE  /\ Entre /\ Falta(s) = <<>>
         /\ c => acabada = (IF nWriters = 0 THEN 1 ELSE 0) /\ (s = "out" => eof[s])
         /\ ~c => acabada = 0
<1>1. PICK e : e = Falta(s)
  OBVIOUS
<1>2. \A C \in Seq(Unidad) : \A x : e # <<>> => <<>> # e \o C /\ <<>> # <<x>> \o (e \o C)
  <2> SUFFICES ASSUME NEW C \in Seq(Unidad), NEW x, e # <<>>
               PROVE  <<>> # e \o C /\ <<>> # <<x>> \o (e \o C)
    OBVIOUS
  <2>1. e \in Seq(Unidad \cup {x}) /\ C \in Seq(Unidad \cup {x}) /\ <<x>> \in Seq(Unidad \cup {x})
    BY <1>1
  <2>2. e \o C \in Seq(Unidad \cup {x}) /\ Len(e \o C) = Len(e) + Len(C) /\ Len(e) # 0
    BY <1>1, <2>1, ConcatProperties, EmptySeq
  <2>3. Len(<<x>> \o (e \o C)) = 1 + Len(e \o C)
    BY <2>1, <2>2, ConcatProperties
  <2> QED BY <1>1, <2>1, <2>2, <2>3
<1>3. ~TramaCabecera(s, <<>>, c) /\ ~TramaDatos(s, <<>>, c)
  BY <1>1, <1>2, ColasTipo DEF TramaCabecera, TramaDatos
<1>4. <<Cab(s, 0)>> \o Final # <<>> /\ Tail(EndRequest) # <<>> /\ EndRequest # <<>>
  BY DEF Final, EndRequest
<1>5. TramaCola(s, <<>>, c) => (s = "err" /\ Final = <<>>) \/ ~c
  BY <1>4 DEF TramaCola, Colas
<1> QED
  BY <1>3, <1>4, <1>5 DEF Trama, TramaCola, TramaFin, TramaCuerpo, TramaAcabada, Final, Entre

\* A buffer of an open stream begins to be written.
LEMMA EmpiezaRegistro ==
  ASSUME IInv, Hilo, ~Escribiendo, NEW s \in Flujos, ~rawWrite[s], buf[s] # <<>>,
         llamada' # "FClose", cual' = s, queda' = Registro(s), nWriters' = nWriters,
         UNCHANGED <<buf, dado, recibido, eof, rawWrite, isClosed, wasFCloseCalled, roto, leyendo, acabada>>
  PROVE  Hilo'
<1>1. PICK e : e = Falta(s)
  OBVIOUS
<1>2. TypeOK /\ HiloDe(s) /\ e # <<>> /\ buf[s] = e /\ queda' # <<>>
  BY <1>1, RegistroNoVacio DEF IInv, Hilo, HiloDe, Escribiendo
<1>3. e \in Seq(Unidad) /\ Registro(s) \in Seq(Unidad)
  BY <1>1, <1>2, FaltaTipo, RegistroTipo
<1>4. /\ \A z \in Flujos : Falta(z)' = Falta(z)
      /\ Entre' = Entre
  BY DEF Falta, Entre
<1>5. \A z \in Flujos : HiloDe(z)'
  BY <1>4 DEF Hilo, HiloDe, Escribiendo
<1>6. acabada = 0 /\ Entre /\ ~eof[s] /\ ~roto
  BY <1>2 DEF IInv, InvCierre, Hilo, HiloDe
<1>7. Registro(s) = <<Cab(s, Len(e))>> \o e
  BY <1>2 DEF Registro
<1>8. Pendiente' = <<Cab(s, Len(e))>> \o (e \o <<>>)
  <2>1. Pendiente' = Registro(s) \o <<>>
    BY <1>2 DEF Pendiente
  <2>2. Registro(s) \o <<>> = Registro(s) /\ e \o <<>> = e
    BY <1>3, ConcatEmptySeq
  <2> QED BY <1>7, <2>1, <2>2
<1>9. TramaCabecera(s, Pendiente, FALSE)'
  <2>1. <<>> \in Colas(s, FALSE)'
    BY DEF Colas
  <2>2. PICK P : P = Pendiente'
    OBVIOUS
  <2>3. TramaCabecera(s, P, FALSE)'
    BY <1>1, <1>2, <1>4, <1>6, <1>8, <2>1, <2>2 DEF TramaCabecera
  <2> QED BY <2>2, <2>3 DEF TramaCabecera
<1>10. Trama(cual, Pendiente, llamada = "FClose")'
  <2>1. (llamada = "FClose")' = FALSE /\ cual' = s
    OBVIOUS
  <2> QED BY <1>9, <2>1 DEF Trama
<1>11. Escribiendo'
  BY <1>2 DEF Escribiendo
<1> QED BY <1>5, <1>6, <1>10, <1>11 DEF Hilo

\* The two parts of a sequence make it up.
LEMMA Partes ==
  ASSUME NEW S, NEW q \in Seq(S), NEW m \in 0..Len(q)
  PROVE  SubSeq(q, 1, m) \o SubSeq(q, m + 1, Len(q)) = q
<1>1. Len(q) \in Nat
  OBVIOUS
<1>2. 1 \in 1..Len(q) + 1 /\ m \in (1 - 1)..Len(q) /\ Len(q) \in m..Len(q)
  BY <1>1
<1>3. SubSeq(q, 1, m) \o SubSeq(q, m + 1, Len(q)) = SubSeq(q, 1, Len(q))
  BY <1>2, ConcatAdjacentSubSeq
<1> QED BY <1>3, SubSeqFull

\* FCGX_PutStr puts in the buffer what the application has given.
LEMMA PoneHilo == IInv /\ InvLlamada /\ Hilo /\ Pone => Hilo'
<1> SUFFICES ASSUME IInv, InvLlamada, Hilo, Pone PROVE Hilo'
  OBVIOUS
<1>1. /\ TypeOK /\ InvCierre /\ cual \in Flujos /\ resto \in Seq(Unidad) /\ resto # <<>>
      /\ queda = <<>> /\ Sitio(cual) > 0 /\ llamada \in {"PutStr", "FClose"}
      /\ UNCHANGED <<curso, marcas, llamada, cual, queda, ultimo, servidor>>
      /\ buf \in [Flujos -> Seq(Unidad)] /\ dado \in [Flujos -> Seq(Unidad)]
  BY DEF IInv, TypeOK, TipoLlamada, TipoBuffer, Pone, EnPutStr
<1>2. PICK m : m = Menor(Len(resto), Sitio(cual))
  OBVIOUS
<1>3. m \in 0..Len(resto)
  BY <1>1, <1>2, SitioTipo DEF Menor
<1>4. PICK puesto : puesto = SubSeq(resto, 1, m)
  OBVIOUS
<1>5. /\ puesto \in Seq(Unidad) /\ resto' \in Seq(Unidad)
      /\ resto' = SubSeq(resto, m + 1, Len(resto))
      /\ buf' = [buf EXCEPT ![cual] = @ \o puesto]
      /\ dado' = IF llamada = "PutStr" THEN [dado EXCEPT ![cual] = @ \o puesto] ELSE dado
  BY <1>1, <1>2, <1>3, <1>4, Partir DEF Pone
<1>6. buf'[cual] = buf[cual] \o puesto /\ \A z \in Flujos \ {cual} : buf'[z] = buf[z]
  BY <1>1, <1>5
<1>7. ~wasFCloseCalled[cual]
  BY <1>1 DEF Sitio
<1>8. CASE llamada = "PutStr"
  <2>1. ~rawWrite[cual] /\ puesto \in Seq(DatosDe(cual))
    <3>1. resto \in Seq(DatosDe(cual))
      BY <1>8 DEF InvLlamada
    <3> QED BY <1>1, <1>3, <1>4, <1>7, <1>8, <3>1, Partir DEF InvCierre
  <2>2. PICK e : e = Falta(cual)
    OBVIOUS
  <2>3. PICK r : r = recibido[cual]
    OBVIOUS
  <2>4. /\ e \in Seq(DatosDe(cual)) /\ e \in Seq(Unidad) /\ r \in Seq(Unidad)
        /\ dado[cual] = r \o e /\ buf[cual] = e
    BY <1>1, <2>1, <2>2, <2>3, FaltaTipo DEF Hilo, HiloDe
  <2>5. dado'[cual] = recibido'[cual] \o (e \o puesto)
    <3>1. dado'[cual] = (r \o e) \o puesto
      BY <1>1, <1>5, <1>8, <2>4
    <3>2. (r \o e) \o puesto = r \o (e \o puesto)
      BY <1>5, <2>4, ConcatAssociative, SMTT(30)
    <3> QED BY <1>1, <2>3, <3>1, <3>2
  <2>6. e \o puesto \in Seq(Unidad) /\ e \o puesto \in Seq(DatosDe(cual))
    BY <1>5, <2>1, <2>4, ConcatProperties
  <2>7. Falta(cual)' = e \o puesto
    <3>1. recibido'[cual] \in Seq(Unidad)
      BY <1>1, <2>3, <2>4
    <3>2. Falta(cual)' = SubSeq(dado'[cual], Len(recibido'[cual]) + 1, Len(dado'[cual]))
      BY <1>1 DEF Falta
    <3> QED BY <2>5, <2>6, <3>1, <3>2, LoQueSigue
  <2>8. HiloDe(cual)'
    <3>1. HiloDe(cual)
      BY <1>1 DEF Hilo
    <3>2. buf'[cual] = Falta(cual)' /\ dado'[cual] = recibido'[cual] \o Falta(cual)'
          /\ Falta(cual)' \in Seq(DatosDe(cual))
      BY <1>6, <2>4, <2>5, <2>6, <2>7
    <3> QED BY <1>1, <1>7, <3>1, <3>2 DEF HiloDe
  <2>9. \A z \in Flujos \ {cual} : HiloDe(z)'
    <3> SUFFICES ASSUME NEW z \in Flujos \ {cual} PROVE HiloDe(z)'
      OBVIOUS
    <3>1. HiloDe(z) /\ dado'[z] = dado[z]
      BY <1>1, <1>5 DEF Hilo
    <3>2. Falta(z)' = Falta(z)
      BY <1>1, <3>1 DEF Falta
    <3> QED BY <1>1, <1>6, <3>1, <3>2 DEF HiloDe
  <2>10. \A z \in Flujos : HiloDe(z)'
    BY <1>1, <2>8, <2>9
  <2>11. ~Escribiendo /\ ~Escribiendo'
    BY <1>1, <1>8 DEF Escribiendo
  <2> QED BY <1>1, <2>10, <2>11 DEF Hilo, Entre
<1>9. CASE llamada = "FClose"
  <2>1. dado' = dado /\ rawWrite[cual]
    BY <1>1, <1>5, <1>9 DEF InvCierre
  <2>2. \A z \in Flujos : Falta(z)' = Falta(z)
    BY <1>1, <2>1 DEF Falta
  <2>3. \A z \in Flujos : HiloDe(z)'
    BY <1>1, <1>6, <2>1, <2>2 DEF Hilo, HiloDe
  <2>4. PICK P : P = Pendiente
    OBVIOUS
  <2>5. Pendiente' = P
    <3>1. buf[cual] \in Seq(Unidad) /\ P = buf[cual] \o resto
      BY <1>1, <1>9, <2>4 DEF Pendiente
    <3>2. Pendiente' = (buf[cual] \o puesto) \o resto'
      BY <1>1, <1>6, <1>9 DEF Pendiente
    <3>3. puesto \o resto' = resto
      BY ONLY <1>1, <1>3, <1>4, <1>5, Partes
    <3>4. (buf[cual] \o puesto) \o resto' = buf[cual] \o (puesto \o resto')
      <4>1. PICK b : b = buf[cual]
        OBVIOUS
      <4>2. PICK x : x = resto'
        OBVIOUS
      <4>3. b \in Seq(Unidad) /\ x \in Seq(Unidad) /\ puesto \in Seq(Unidad)
        BY <1>5, <3>1, <4>1, <4>2
      <4>4. (b \o puesto) \o x = b \o (puesto \o x)
        BY ONLY <4>3, ConcatAssociative
      <4> QED BY ONLY <4>1, <4>2, <4>4
    <3> QED BY ONLY <3>1, <3>2, <3>3, <3>4
  <2>6. Trama(cual, P, TRUE)
    <3>1. (llamada = "FClose") = TRUE /\ Escribiendo
      BY <1>9 DEF Escribiendo
    <3> QED BY <2>4, <3>1 DEF Hilo
  <2>7. \A s \in Flujos : s = cual => Trama(s, P, TRUE)'
    BY <1>1, <2>1, <2>6, TramaIgual
  <2>8. Trama(cual, Pendiente, llamada = "FClose")' /\ Escribiendo'
    <3>1. (llamada = "FClose")' = TRUE /\ cual' = cual
      BY <1>1, <1>9
    <3>2. PICK s \in Flujos : s = cual
      BY <1>1
    <3> QED BY <1>1, <1>9, <2>5, <2>7, <3>1, <3>2 DEF Escribiendo
  <2> QED BY <1>1, <2>3, <2>8 DEF Hilo
<1> QED BY <1>1, <1>8, <1>9

\* The end, in the state that a step leads to.
VaciaAcaba ==
  \A s \in Flujos, c \in BOOLEAN :
    Falta(s) \in Seq(Unidad) /\ Trama(s, <<>>, c) =>
      /\ Entre /\ Falta(s) = <<>>
      /\ c => acabada = (IF nWriters = 0 THEN 1 ELSE 0) /\ (s = "out" => eof[s])
      /\ ~c => acabada = 0

\* An empty output ends a request in every state.
LEMMA VaciaAcabaSiempre == VaciaAcaba'
<1>1. VaciaAcaba
  BY TramaVacia DEF VaciaAcaba
<1> QED BY <1>1, PTL

\* FCGX_PutStr finds its buffer full.
LEMMA LlenoHilo == IInv /\ InvLlamada /\ Hilo /\ Lleno => Hilo'
<1> SUFFICES ASSUME IInv, InvLlamada, Hilo, Lleno PROVE Hilo'
  OBVIOUS
<1>1. /\ TypeOK /\ InvCierre /\ cual \in Flujos /\ queda = <<>> /\ Sitio(cual) = 0
      /\ llamada \in {"PutStr", "FClose"} /\ ~roto /\ HiloDe(cual)
      /\ UNCHANGED <<curso, buf, llamada, cual, ultimo, servidor, dado>>
  BY DEF IInv, TypeOK, TipoLlamada, Lleno, EnPutStr, Hilo
<1>2. CASE isClosed[cual]
  <2>1. llamada = "PutStr"
    BY <1>1, <1>2 DEF HiloDe, InvLlamada
  <2>2. UNCHANGED <<queda, marcas>>
    BY <1>2 DEF Lleno
  <2>3. ~Escribiendo /\ ~Escribiendo'
    BY <1>1, <2>1, <2>2 DEF Escribiendo
  <2> QED BY <1>1, <2>2, <2>3, HiloQuieto
<1>3. CASE ~isClosed[cual]
  <2>1. Envia(cual, Registro(cual)) /\ UNCHANGED resto /\ ~wasFCloseCalled[cual]
    BY <1>1, <1>3 DEF Lleno, InvCierre
  <2>2. buf[cual] # <<>>
    BY <1>1, <2>1, LlenoNoVacio
  <2>3. CASE llamada = "PutStr"
    <3>1. ~Escribiendo /\ ~rawWrite[cual] /\ llamada' # "FClose"
      BY <1>1, <2>1, <2>3 DEF Escribiendo, InvCierre
    <3> QED BY <1>1, <2>1, <2>2, <3>1, EmpiezaRegistro DEF Envia
  <2>4. CASE llamada = "FClose"
    <3>1. queda' = buf[cual] /\ Escribiendo /\ Escribiendo' /\ rawWrite[cual]
      BY <1>1, <2>1, <2>4 DEF Envia, Registro, InvCierre, Escribiendo
    <3>2. PICK P : P = Pendiente
      OBVIOUS
    <3>3. Pendiente' = P
      BY <1>1, <2>1, <2>2, <2>4, <3>1, <3>2 DEF Pendiente
    <3>4. PICK s \in Flujos : s = cual
      BY <1>1
    <3>5. Trama(s, P, TRUE)
      <4>1. (llamada = "FClose") = TRUE
        BY <2>4
      <4> QED BY <3>1, <3>2, <3>4, <4>1 DEF Hilo
    <3>6. Trama(s, P, TRUE)'
      BY <1>1, <2>1, <3>5, TramaIgual DEF Envia
    <3>7. Trama(cual, Pendiente, llamada = "FClose")'
      <4>1. (llamada = "FClose")' = TRUE /\ cual' = s
        BY <1>1, <2>4, <3>4
      <4> QED BY <3>3, <3>6, <4>1
    <3>8. \A z \in Flujos : Falta(z)' = Falta(z)
      BY <1>1 DEF Falta
    <3>9. \A z \in Flujos : HiloDe(z)'
      BY <1>1, <2>1, <3>1, <3>8 DEF Hilo, HiloDe, Envia
    <3> QED BY <1>1, <3>1, <3>7, <3>9 DEF Hilo
  <2> QED BY <1>1, <2>3, <2>4
<1> QED BY <1>2, <1>3

\* A flush leaves in the buffer the records that the server lacks.
LEMMA FFlushHilo ==
  ASSUME IInv, InvLlamada, Hilo, NEW s \in Flujos, FFlush(s)
  PROVE  Hilo'
<1>1. /\ llamada = "no" /\ queda = <<>> /\ ~isClosed[s] /\ buf[s] # <<>> /\ InvCierre
      /\ llamada' = "FFlush" /\ cual' = s /\ Envia(s, Registro(s))
      /\ UNCHANGED <<curso, buf, resto, ultimo, servidor, dado>>
  BY DEF FFlush, Libre, InvLlamada, IInv
<1>2. ~Escribiendo /\ ~rawWrite[s]
  BY <1>1 DEF Escribiendo, InvCierre
<1> QED BY <1>1, <1>2, EmpiezaRegistro DEF Envia

\* FCGX_FClose: the content with its header in front, the end of the stream and,
\* for the last writer, that of the request.
LEMMA FCloseHilo ==
  ASSUME IInv, InvLlamada, Hilo, NEW s \in Flujos, FClose(s)
  PROVE  Hilo'
<1>1. /\ llamada = "no" /\ queda = <<>> /\ ~wasFCloseCalled[s] /\ InvCierre /\ TypeOK
      /\ llamada' = "FClose" /\ cual' = s
      /\ buf' = [buf EXCEPT ![s] = Registro(s)]
      /\ rawWrite' = [rawWrite EXCEPT ![s] = TRUE]
      /\ resto' = CloseRecords(s)
      /\ nWriters' = nWriters - 1
      /\ UNCHANGED <<isAnythingWritten, FCGI_errno, isClosed, wasFCloseCalled, queda, ultimo, servidor, dado>>
  BY DEF FClose, Libre, InvLlamada, IInv
<1>2. PICK e : e = Falta(s)
  OBVIOUS
<1>3. /\ ~rawWrite[s] /\ ~Escribiendo /\ HiloDe(s) /\ buf[s] = e /\ ~eof[s] /\ Entre /\ ~roto
      /\ nWriters \in 1..2 /\ acabada = 0
  <2>1. ~rawWrite[s] /\ ~Escribiendo /\ HiloDe(s) /\ Entre /\ ~roto
        /\ acabada = (IF nWriters = 0 THEN 1 ELSE 0)
    BY <1>1 DEF InvCierre, Escribiendo, Hilo
  <2>2. nWriters \in 1..2
    BY <1>1, <2>1 DEF InvCierre
  <2> QED BY <1>1, <1>2, <2>1, <2>2 DEF HiloDe
<1>4. e \in Seq(Unidad)
  BY <1>1, <1>2, <1>3, FaltaTipo
<1>5. buf'[s] = Registro(s) /\ rawWrite'[s]
      /\ \A z \in Flujos \ {s} : buf'[z] = buf[z] /\ rawWrite'[z] = rawWrite[z]
  BY <1>1 DEF TypeOK, TipoBuffer, TipoMarcas
<1>6. \A z \in Flujos : Falta(z)' = Falta(z)
  BY <1>1 DEF Falta
<1>7. \A z \in Flujos : HiloDe(z)'
  BY <1>1, <1>3, <1>5, <1>6 DEF Hilo, HiloDe
<1>8. PICK C : C = CloseRecords(s)
  OBVIOUS
<1>9. PICK fin : fin = IF nWriters = 1 THEN EndRequest ELSE <<>>
  OBVIOUS
<1>10. Final' = fin /\ fin \in Seq(Unidad)
  <2>1. nWriters' = 0 <=> nWriters = 1
    BY <1>1, <1>3
  <2>2. <<>> \in Seq(Unidad)
    OBVIOUS
  <2> QED BY <1>9, <2>1, <2>2, Unidades DEF Final
<1>11. C \in Colas(s, TRUE)' /\ C \in Seq(Unidad)
  <2>1. PICK k : k = Cab(s, 0)
    OBVIOUS
  <2>2. k \in Unidad
    BY <2>1, Unidades, Limites
  <2>3. C = (IF s = "err" /\ buf[s] = <<>> /\ ~isAnythingWritten[s] THEN <<>> ELSE <<k>>) \o fin
    BY <1>8, <1>9, <2>1 DEF CloseRecords
  <2>4. <<>> \o fin = fin
    BY <1>10, ConcatEmptySeq
  <2>5. <<k>> \o fin \in Seq(Unidad)
    BY <1>10, <2>2, ConcatProperties
  <2>6. Colas(s, TRUE)' = {<<k>> \o fin} \cup (IF s = "err" THEN {fin} ELSE {})
    BY <1>10, <2>1 DEF Colas
  <2> QED BY <1>10, <2>3, <2>4, <2>5, <2>6
<1>12. Pendiente' = Registro(s) \o C
  BY <1>1, <1>5, <1>8 DEF Pendiente
<1>13. Trama(s, Pendiente, TRUE)'
  <2>1. PICK P : P = Pendiente'
    OBVIOUS
  <2>2. CASE e = <<>>
    <3>1. Registro(s) = <<>>
      BY <1>3, <2>2 DEF Registro
    <3>2. <<>> \o C = C
      BY <1>11, ConcatEmptySeq
    <3>3. TramaCola(s, P, TRUE)'
      BY <1>1, <1>2, <1>3, <1>6, <1>11, <1>12, <2>1, <2>2, <3>1, <3>2 DEF TramaCola, Entre
    <3> QED BY <2>1, <3>3 DEF Trama
  <2>3. CASE e # <<>>
    <3>1. PICK k : k = Cab(s, Len(e))
      OBVIOUS
    <3>2. Registro(s) = <<k>> \o e
      BY <1>3, <2>3, <3>1 DEF Registro
    <3>3. (<<k>> \o e) \o C = <<k>> \o (e \o C)
      <4>1. <<k>> \in Seq(Unidad \cup {k}) /\ e \in Seq(Unidad \cup {k}) /\ C \in Seq(Unidad \cup {k})
        BY <1>4, <1>11
      <4> QED BY ONLY <4>1, ConcatAssociative
    <3>4. P = <<Cab(s, Len(e))>> \o (e \o C)
      BY <1>12, <2>1, <3>1, <3>2, <3>3
    <3>5. Falta(s)' = e
      BY <1>2, <1>6
    <3>6. Entre' /\ ~eof'[s] /\ acabada' = 0
      BY <1>1, <1>3 DEF Entre
    <3>7. TramaCabecera(s, P, TRUE)'
      BY <1>11, <2>3, <3>4, <3>5, <3>6 DEF TramaCabecera
    <3> QED BY <2>1, <3>7 DEF Trama
  <2> QED BY <2>2, <2>3
<1>14. Trama(cual, Pendiente, llamada = "FClose")' /\ Escribiendo'
  <2>1. (llamada = "FClose")' = TRUE /\ cual' = s
    BY <1>1
  <2> QED BY <1>13, <2>1 DEF Escribiendo
<1> QED BY <1>1, <1>3, <1>7, <1>14 DEF Hilo

\* FCGX_FClose has put the records that close the stream in the buffer.
LEMMA FinFCloseHilo == IInv /\ InvLlamada /\ Hilo /\ FinFClose => Hilo'
<1> SUFFICES ASSUME IInv, InvLlamada, Hilo, FinFClose PROVE Hilo'
  OBVIOUS
<1>1. /\ TypeOK /\ InvCierre /\ cual \in Flujos /\ queda = <<>> /\ llamada = "FClose" /\ resto = <<>>
      /\ rawWrite[cual] /\ ~roto /\ Escribiendo /\ buf[cual] \in Seq(Unidad)
      /\ UNCHANGED <<curso, buf, cual, resto, servidor, dado>>
  BY RegistroTipo DEF IInv, InvCierre, TypeOK, TipoLlamada, FinFClose, EnPutStr, Hilo, Escribiendo
<1>2. PICK s \in Flujos : s = cual
  BY <1>1
<1>3. PICK P : P = Pendiente
  OBVIOUS
<1>4. Trama(s, P, TRUE) /\ HiloDe(s)
  <2>1. (llamada = "FClose") = TRUE
    BY <1>1
  <2> QED BY <1>1, <1>2, <1>3, <2>1 DEF Hilo
<1>5. P = buf[cual]
  BY <1>1, <1>3, ConcatEmptySeq DEF Pendiente
<1>6. \A z \in Flujos : Falta(z)' = Falta(z)
  BY <1>1 DEF Falta
<1>7. Entre' = Entre
  BY <1>1 DEF Entre
<1>8. CASE buf[cual] = <<>>
  <2>1. Cerrado(cual) /\ UNCHANGED <<queda, isAnythingWritten, rawWrite, FCGI_errno, nWriters>>
    BY <1>8 DEF FinFClose
  <2>2. Entre /\ Falta(s) = <<>> /\ acabada = (IF nWriters = 0 THEN 1 ELSE 0) /\ (s = "out" => eof[s])
    <3>1. Trama(s, <<>>, TRUE)
      BY <1>4, <1>5, <1>8
    <3>2. Falta(s) \in Seq(Unidad)
      BY <1>1, <1>4, FaltaTipo
    <3> QED BY <3>1, <3>2, TramaVacia
  <2>3. \A z \in Flujos \ {s} : isClosed'[z] = isClosed[z] /\ wasFCloseCalled'[z] = wasFCloseCalled[z]
    BY <1>1, <1>2, <2>1 DEF Cerrado, TypeOK, TipoMarcas
  <2>4. wasFCloseCalled'[s]
    BY <1>1, <1>2, <2>1 DEF Cerrado, TypeOK, TipoMarcas
  <2>5. HiloDe(s)'
    BY <1>1, <1>2, <1>4, <1>6, <2>1, <2>2, <2>4 DEF HiloDe
  <2>6. \A z \in Flujos \ {s} : HiloDe(z)'
    BY <1>1, <1>2, <1>6, <2>1, <2>3 DEF Hilo, HiloDe
  <2>7. \A z \in Flujos : HiloDe(z)'
    BY <2>5, <2>6
  <2>8. ~Escribiendo'
    BY <1>1, <2>1 DEF Escribiendo, Cerrado
  <2> QED BY <1>1, <1>7, <2>1, <2>2, <2>7, <2>8 DEF Hilo
<1>9. CASE buf[cual] # <<>>
  <2>1. ultimo' = TRUE /\ Envia(cual, buf[cual]) /\ UNCHANGED llamada
    BY <1>9 DEF FinFClose
  <2>2. Pendiente' = P
    BY <1>1, <1>3, <1>9, <2>1 DEF Pendiente, Envia
  <2>3. Trama(s, P, TRUE)'
    BY <1>1, <1>4, <2>1, TramaIgual DEF Envia
  <2>4. Trama(cual, Pendiente, llamada = "FClose")' /\ Escribiendo'
    <3>1. (llamada = "FClose")' = TRUE /\ cual' = s
      BY <1>1, <1>2, <2>1
    <3> QED BY <2>2, <2>3, <3>1 DEF Escribiendo
  <2>5. \A z \in Flujos : HiloDe(z)'
    BY <1>1, <1>6, <2>1 DEF Hilo, HiloDe, Envia
  <2> QED BY <1>1, <2>4, <2>5 DEF Hilo
<1> QED BY <1>8, <1>9

\* A unit leaves write_it_all and is taken by the server.
LEMMA EscribeHilo == IInv /\ InvLlamada /\ Hilo /\ Escribe => Hilo'
<1> SUFFICES ASSUME IInv, InvLlamada, Hilo, Escribe PROVE Hilo'
  OBVIOUS
<1>1. PICK s \in Flujos : s = cual
  BY DEF IInv, TypeOK, TipoLlamada
<1>2. PICK c \in BOOLEAN : c = (llamada = "FClose")
  OBVIOUS
<1>3. /\ TypeOK /\ InvCierre /\ queda # <<>> /\ queda \in Seq(Unidad) /\ resto \in Seq(Unidad) /\ ~roto
      /\ Recibe(Head(queda)) /\ queda' = Tail(queda) /\ ~wasFCloseCalled[s] /\ HiloDe(s) /\ Escribiendo
      /\ UNCHANGED <<curso, rawWrite, isAnythingWritten, FCGI_errno, nWriters, cual, resto, cortado, dado>>
  BY <1>1 DEF IInv, TypeOK, TipoLlamada, TipoBuffer, Escribe, InvLlamada, Hilo, Escribiendo
<1>4. c <=> llamada = "FClose"
  BY <1>2
<1>5. PICK X : X = IF c THEN resto ELSE <<>>
  OBVIOUS
<1>6. X \in Seq(Unidad)
  <2>1. <<>> \in Seq(Unidad)
    OBVIOUS
  <2> QED BY <1>3, <1>5, <2>1
<1>7. PICK P : P = queda \o X
  OBVIOUS
<1>8. PICK Q : Q = Tail(queda) \o X
  OBVIOUS
<1>9. P # <<>> /\ Head(P) = Head(queda) /\ Tail(P) = Q /\ Tail(queda) \in Seq(Unidad)
  <2>1. Head(P) = Head(queda) /\ Tail(P) = Q /\ Tail(queda) \in Seq(Unidad)
    BY <1>3, <1>6, <1>7, <1>8, CabezaYCola
  <2>2. Len(P) = Len(queda) + Len(X) /\ Len(queda) # 0 /\ Len(X) \in Nat /\ Len(queda) \in Nat
    BY <1>3, <1>6, <1>7, ConcatProperties, EmptySeq
  <2>3. Len(P) # 0
    BY <2>2
  <2> QED BY <2>1, <2>3
<1>10. Trama(s, P, c)
  <2>1. Pendiente = P
    BY <1>3, <1>4, <1>5, <1>7 DEF Pendiente
  <2> QED BY <1>1, <1>2, <1>3, <2>1 DEF Hilo
<1>11. TrasRecibir(s, Q, c)
  BY <1>3, <1>9, <1>10, RecibeTrama
<1>12. ~c => ~rawWrite[s] /\ nWriters # 0
  BY <1>1, <1>3, <1>4 DEF InvCierre
<1>13. c => rawWrite[s]
  BY <1>1, <1>3, <1>4 DEF InvCierre
<1>14. Q = <<>> => /\ Entre' /\ Falta(s)' = <<>>
                   /\ c => acabada' = (IF nWriters = 0 THEN 1 ELSE 0) /\ (s = "out" => eof'[s])
                   /\ ~c => acabada' = (IF nWriters = 0 THEN 1 ELSE 0)
  <2> SUFFICES ASSUME Q = <<>>
               PROVE  /\ Entre' /\ Falta(s)' = <<>>
                      /\ c => acabada' = (IF nWriters = 0 THEN 1 ELSE 0) /\ (s = "out" => eof'[s])
                      /\ ~c => acabada' = 0
    BY <1>12
  <2>1. Trama(s, <<>>, c)'
    BY <1>11 DEF TrasRecibir
  <2>2. Falta(s)' \in Seq(Unidad)
    <3>1. DatosDe(s) \subseteq Unidad
      BY DEF DatosDe, Unidad
    <3>2. PICK f : f = Falta(s)'
      OBVIOUS
    <3>3. f \in Seq(DatosDe(s))
      BY <1>11, <3>2 DEF TrasRecibir
    <3>4. f \in Seq(Unidad)
      BY <3>1, <3>3, SeqMonotonic
    <3> QED BY <3>2, <3>4
  <2>3. nWriters' = nWriters
    BY <1>3
  <2> QED BY <2>1, <2>2, <2>3, VaciaAcabaSiempre DEF VaciaAcaba
<1>15. \A z \in Flujos \ {s} : Falta(z)' = Falta(z)
  BY <1>3, <1>11 DEF TrasRecibir, Falta
<1>16. CASE queda' # <<>>
  <2>1. UNCHANGED <<buf, llamada, ultimo, wasFCloseCalled, isClosed>>
    BY <1>16 DEF Escribe
  <2>2. HiloDe(s)'
    BY <1>1, <1>3, <1>11, <1>12, <1>13, <1>16, <2>1 DEF HiloDe, TrasRecibir
  <2>3. \A z \in Flujos \ {s} : HiloDe(z)'
    <3> SUFFICES ASSUME NEW z \in Flujos \ {s} PROVE HiloDe(z)'
      OBVIOUS
    <3>1. HiloDe(z) /\ Falta(z)' = Falta(z)
      BY <1>1, <1>15 DEF Hilo
    <3>2. recibido'[z] = recibido[z] /\ eof'[z] = eof[z]
      BY <1>11 DEF TrasRecibir
    <3>3. dado'[z] = dado[z] /\ rawWrite'[z] = rawWrite[z] /\ cual' # z /\ cual # z
      BY <1>1, <1>3
    <3>4. buf'[z] = buf[z] /\ isClosed'[z] = isClosed[z] /\ wasFCloseCalled'[z] = wasFCloseCalled[z]
      BY <2>1
    <3> QED BY ONLY <3>1, <3>2, <3>3, <3>4 DEF HiloDe
  <2>4. \A z \in Flujos : HiloDe(z)'
    BY <2>2, <2>3
  <2>5. Pendiente' = Q /\ (llamada = "FClose")' = c /\ cual' = s /\ Escribiendo'
    BY <1>1, <1>2, <1>3, <1>5, <1>8, <1>16, <2>1 DEF Pendiente, Escribiendo
  <2>6. Trama(cual, Pendiente, llamada = "FClose")'
    BY <1>11, <2>5 DEF TrasRecibir
  <2> QED BY <1>11, <2>4, <2>5, <2>6 DEF Hilo, TrasRecibir
<1>17. CASE queda' = <<>>
  <2>1. /\ buf' = [buf EXCEPT ![cual] = <<>>] /\ TrasEscribir
        /\ isClosed' = [isClosed EXCEPT ![cual] = @ \/ wasFCloseCalled'[cual]]
    BY <1>17 DEF Escribe
  <2>2. Q = X
    <3>1. <<>> \o X = X
      BY <1>6, ConcatEmptySeq
    <3> QED BY <1>3, <1>8, <1>17, <3>1
  <2>3. \A z \in Flujos \ {s} : buf'[z] = buf[z] /\ isClosed'[z] = isClosed[z]
                                /\ wasFCloseCalled'[z] = wasFCloseCalled[z]
    BY <1>1, <1>3, <2>1 DEF TypeOK, TipoBuffer, TipoMarcas, TrasEscribir
  <2>4. \A z \in Flujos \ {s} : HiloDe(z)'
    <3> SUFFICES ASSUME NEW z \in Flujos \ {s} PROVE HiloDe(z)'
      OBVIOUS
    <3>1. HiloDe(z) /\ Falta(z)' = Falta(z)
      BY <1>1, <1>15 DEF Hilo
    <3>2. recibido'[z] = recibido[z] /\ eof'[z] = eof[z]
      BY <1>11 DEF TrasRecibir
    <3>3. dado'[z] = dado[z] /\ rawWrite'[z] = rawWrite[z] /\ cual' # z /\ cual # z
      BY <1>1, <1>3
    <3>4. buf'[z] = buf[z] /\ isClosed'[z] = isClosed[z] /\ wasFCloseCalled'[z] = wasFCloseCalled[z]
      BY <2>3
    <3> QED BY ONLY <3>1, <3>2, <3>3, <3>4 DEF HiloDe
  <2>5. buf'[s] = <<>> /\ (isClosed'[s] => isClosed[s] \/ wasFCloseCalled'[s])
    BY <1>1, <1>3, <2>1 DEF TypeOK, TipoBuffer, TipoMarcas
  <2>6. wasFCloseCalled'[s] => c /\ resto = <<>> /\ Q = <<>>
    <3>1. wasFCloseCalled'[s] => llamada = "FClose" /\ ultimo
      BY <1>1, <1>3, <2>1 DEF TrasEscribir
    <3>2. ultimo => resto = <<>>
      BY DEF InvLlamada
    <3> QED BY <1>4, <1>5, <2>2, <3>1, <3>2
  <2>7. ~c => Q = <<>>
    BY <1>5, <2>2
  <2>8. HiloDe(s)'
    BY <1>3, <1>11, <1>12, <1>13, <1>14, <2>5, <2>6, <2>7 DEF HiloDe, TrasRecibir
  <2>9. \A z \in Flujos : HiloDe(z)'
    BY <2>4, <2>8
  <2>10. CASE llamada' = "FClose"
    <3>1. llamada = "FClose"
      BY <2>1, <2>10 DEF TrasEscribir
    <3>2. c = TRUE /\ cual' = s
      BY <1>1, <1>2, <1>3, <3>1
    <3>3. Pendiente' = Q /\ Escribiendo'
      <4>1. Pendiente' = <<>> \o resto
        BY <1>3, <1>17, <2>5, <2>10, <3>2 DEF Pendiente
      <4>2. <<>> \o resto = resto
        BY <1>3, ConcatEmptySeq
      <4> QED BY <1>5, <2>2, <2>10, <3>2, <4>1, <4>2 DEF Escribiendo
    <3>4. Trama(cual, Pendiente, llamada = "FClose")'
      <4>1. (llamada = "FClose")' = c
        BY <2>10, <3>2
      <4> QED BY <1>11, <3>2, <3>3, <4>1 DEF TrasRecibir
    <3> QED BY <1>11, <2>9, <3>3, <3>4 DEF Hilo, TrasRecibir
  <2>11. CASE llamada' # "FClose"
    <3>1. Q = <<>>
      <4>1. llamada # "FClose" \/ ultimo
        BY <2>1, <2>11 DEF TrasEscribir
      <4>2. ultimo => resto = <<>>
        BY DEF InvLlamada
      <4> QED BY <1>4, <1>5, <2>2, <4>1, <4>2
    <3>2. ~Escribiendo'
      BY <1>17, <2>11 DEF Escribiendo
    <3>3. Entre' /\ acabada' = (IF nWriters' = 0 THEN 1 ELSE 0)
      BY <1>3, <1>14, <3>1
    <3> QED BY <1>11, <2>9, <3>2, <3>3 DEF Hilo, TrasRecibir
  <2> QED BY <2>10, <2>11
<1> QED BY <1>16, <1>17

\* The next request, with its two new writers.
LEMMA NuevaHilo == IInv /\ InvLlamada /\ Hilo /\ Nueva => Hilo'
<1> SUFFICES ASSUME IInv, InvLlamada, Hilo, Nueva PROVE Hilo'
  OBVIOUS
<1>1. /\ llamada = "no" /\ queda = <<>> /\ Entre /\ ~roto
      /\ llamada' = "no" /\ queda' = <<>> /\ leyendo' = leyendo /\ roto' = roto
  BY DEF Nueva, Libre, InvLlamada, Hilo, Escribiendo
<1>2. /\ buf' = Todos(<<>>) /\ rawWrite' = Todos(FALSE) /\ isClosed' = Todos(FALSE)
      /\ wasFCloseCalled' = Todos(FALSE) /\ nWriters' = 2
      /\ recibido' = Todos(<<>>) /\ eof' = Todos(FALSE) /\ acabada' = 0 /\ dado' = Todos(<<>>)
  BY DEF Nueva
<1>3. \A s \in Flujos : Falta(s)' = <<>>
  BY <1>2 DEF Falta, Todos
<1>4. \A s \in Flujos : HiloDe(s)'
  <2> SUFFICES ASSUME NEW s \in Flujos PROVE HiloDe(s)'
    OBVIOUS
  <2>1. <<>> \o <<>> = <<>> /\ <<>> \in Seq(DatosDe(s))
    OBVIOUS
  <2>2. dado'[s] = <<>> /\ recibido'[s] = <<>> /\ buf'[s] = <<>> /\ Falta(s)' = <<>>
        /\ ~eof'[s] /\ ~isClosed'[s] /\ ~wasFCloseCalled'[s]
    BY <1>2, <1>3 DEF Todos
  <2> QED BY <2>1, <2>2 DEF HiloDe
<1>5. ~Escribiendo' /\ Entre'
  BY <1>1 DEF Escribiendo, Entre
<1> QED BY <1>1, <1>2, <1>4, <1>5 DEF Hilo

\* The steps of the launcher write nothing.
LEMMA LanzadorHilo ==
  ASSUME InvLlamada, Hilo, llamada = "no", llamada' # "FClose", UNCHANGED Escritores
  PROVE  Hilo'
<1>1. ~Escribiendo /\ ~Escribiendo'
  BY DEF Escribiendo, InvLlamada
<1> QED BY <1>1, HiloQuieto

\* A write that fails is an error of its stream.
LEMMA FallaHilo == IInv /\ FallaEscritura => ~SinErrores'
BY DEF IInv, TypeOK, TipoLlamada, TipoMarcas, FallaEscritura, SinErrores

\* Every step keeps the thread from the writers to the server.
LEMMA HiloPaso == IInv /\ InvLlamada /\ InvHilo /\ [Next]_vars => InvHilo'
<1> SUFFICES ASSUME IInv, InvLlamada, InvHilo, [Next]_vars, SinErrores' PROVE Hilo'
  BY DEF InvHilo
<1>1. CASE Nueva
  <2>1. SinErrores
    BY <1>1 DEF Nueva, InvLlamada
  <2> QED BY <1>1, <2>1, NuevaHilo DEF InvHilo
<1>2. CASE EscribeFalla
  BY <1>2, FallaHilo DEF EscribeFalla
<1>3. CASE Usr1 /\ FallaEscritura
  BY <1>3, FallaHilo
<1>4. CASE Escribe
  <2>1. SinErrores
    BY <1>4 DEF Escribe, SinErrores
  <2> QED BY <1>4, <2>1, EscribeHilo DEF InvHilo
<1>5. CASE Pone
  <2>1. SinErrores
    BY <1>5 DEF Pone, SinErrores
  <2> QED BY <1>5, <2>1, PoneHilo DEF InvHilo
<1>6. CASE Lleno
  <2>1. SinErrores
    BY <1>6 DEF Lleno, SinErrores, Envia
  <2> QED BY <1>6, <2>1, LlenoHilo DEF InvHilo
<1>7. CASE FinFClose
  <2>1. SinErrores
    BY <1>7 DEF FinFClose, Envia, SinErrores
  <2> QED BY <1>7, <2>1, FinFCloseHilo DEF InvHilo
<1>8. CASE \E s \in Flujos : FFlush(s)
  <2>1. SinErrores
    BY <1>8 DEF FFlush, Envia, SinErrores
  <2> QED BY <1>8, <2>1, FFlushHilo DEF InvHilo
<1>9. CASE \E s \in Flujos : FClose(s)
  <2>1. SinErrores
    BY <1>9 DEF FClose, SinErrores
  <2> QED BY <1>9, <2>1, FCloseHilo DEF InvHilo
<1>10. CASE llamada = "no" /\ llamada' # "FClose" /\ UNCHANGED Escritores
  <2>1. SinErrores
    BY <1>10 DEF SinErrores
  <2> QED BY <1>10, <2>1, LanzadorHilo DEF InvHilo
<1>11. CASE FinPutStr
  <2>1. /\ SinErrores /\ queda = <<>> /\ llamada = "PutStr" /\ llamada' = "no"
        /\ UNCHANGED <<curso, buf, marcas, servidor, dado, queda>>
    BY <1>11 DEF FinPutStr, EnPutStr, Vuelve, SinErrores
  <2>2. ~Escribiendo /\ ~Escribiendo'
    BY <2>1 DEF Escribiendo
  <2> QED BY <2>1, <2>2, HiloQuieto DEF InvHilo
<1>12. CASE Corta \/ UNCHANGED vars
  <2>1. /\ SinErrores /\ UNCHANGED <<buf, marcas, llamada, cual, resto, queda, dado>>
        /\ UNCHANGED <<leyendo, recibido, eof, acabada, roto>>
    BY <1>12 DEF Corta, SinErrores
  <2>2. Hilo
    BY <2>1 DEF InvHilo
  <2>3. PICK s, P, c : s = cual /\ P = Pendiente /\ c = (llamada = "FClose")
    OBVIOUS
  <2>4. Escribiendo => Trama(s, P, c)'
    BY <2>1, <2>2, <2>3, TramaIgual DEF Hilo
  <2>5. cual' = s /\ Pendiente' = P /\ (llamada = "FClose")' = c /\ Escribiendo' = Escribiendo
    BY <2>1, <2>3 DEF Pendiente, Escribiendo
  <2>6. \A z \in Flujos : Falta(z)' = Falta(z)
    BY <2>1 DEF Falta
  <2>7. \A z \in Flujos : HiloDe(z)'
    BY <2>1, <2>2, <2>6 DEF Hilo, HiloDe
  <2>8. Entre' = Entre
    BY <2>1 DEF Entre
  <2> QED BY <2>1, <2>2, <2>4, <2>5, <2>7, <2>8 DEF Hilo
<1>13. CASE LeeHijo \/ EscribeErr \/ FinHijo
  BY <1>10, <1>13 DEF LeeHijo, EscribeErr, FinHijo, Libre, PutStr
<1>14. CASE FinishErr \/ FinishOut
  BY <1>9, <1>10, <1>14 DEF FinishErr, FinishOut, Finish, Libre
<1>15. CASE CierraAntes
  BY <1>9, <1>15 DEF CierraAntes
<1>16. CASE Usr1 /\ ~FallaEscritura
  BY <1>10, <1>16 DEF Usr1, Libre
<1> QED
  BY <1>1, <1>2, <1>3, <1>4, <1>5, <1>6, <1>7, <1>8, <1>11, <1>12, <1>13, <1>14, <1>15, <1>16
     DEF Next, Biblioteca, Lanzador

IInvHilo == IInv /\ InvLlamada /\ InvHilo

\* The thread is whole at the beginning.
LEMMA IInvHiloInicial == Init => IInvHilo
<1> SUFFICES ASSUME Init PROVE IInvHilo
  OBVIOUS
<1>1. InvLlamada
  BY DEF Init, InvLlamada
<1>2. InvHilo
  <2>1. \A s \in Flujos : Falta(s) = <<>>
    BY DEF Init, Falta, Todos
  <2>2. \A s \in Flujos : HiloDe(s)
    <3> SUFFICES ASSUME NEW s \in Flujos PROVE HiloDe(s)
      OBVIOUS
    <3>1. <<>> \o <<>> = <<>> /\ <<>> \in Seq(DatosDe(s))
      OBVIOUS
    <3>2. dado[s] = <<>> /\ recibido[s] = <<>> /\ buf[s] = <<>>
          /\ ~eof[s] /\ ~isClosed[s] /\ ~wasFCloseCalled[s]
      BY DEF Init, Todos
    <3> QED BY <2>1, <3>1, <3>2 DEF HiloDe
  <2>3. ~Escribiendo /\ Entre
    BY DEF Init, Escribiendo, Entre
  <2> QED BY <2>2, <2>3 DEF Init, InvHilo, Hilo
<1> QED BY <1>1, <1>2, InitIInv DEF IInvHilo

\* As long as no write has failed, what the server still lacks of each stream
\* is in its buffer or on its way, in the form of the records.
THEOREM SalidaHilo == Spec => []IInvHilo
<1>1. IInvHilo /\ [Next]_vars => IInvHilo'
  BY NextIInv, LlamadaPaso, HiloPaso DEF IInvHilo
<1> QED BY <1>1, IInvHiloInicial, PTL DEF Spec

\* Whatever the application writes, however the writes are cut and whatever
\* SIGUSR1 and the server do: as long as no write has failed, what the server
\* has read is a sequence of records that carries a prefix of each stream.
THEOREM Orden == Spec => []OrdenSinError
<1>1. IInvHilo => OrdenSinError
  <2> SUFFICES ASSUME IInvHilo, SinErrores, NEW s \in Flujos
               PROVE  ~roto /\ recibido[s] = SubSeq(dado[s], 1, Len(recibido[s]))
    BY DEF OrdenSinError, SinErrores, IInvHilo, InvHilo, Hilo
  <2>1. TypeOK /\ ~roto /\ HiloDe(s)
    BY DEF IInvHilo, IInv, InvHilo, Hilo
  <2>2. PICK e, r, d : e = Falta(s) /\ r = recibido[s] /\ d = dado[s]
    OBVIOUS
  <2>3. e \in Seq(Unidad) /\ r \in Seq(Unidad) /\ d = r \o e
    BY <2>1, <2>2, FaltaTipo DEF HiloDe
  <2>4. SubSeq(r \o e, 1, Len(r)) = r
    BY <2>3, SubSeqOfConcat1, SubSeqFull
  <2> QED BY <2>1, <2>2, <2>3, <2>4
<1> QED BY <1>1, SalidaHilo, PTL

\* A connection is kept for another request only when the server has received
\* the whole of this one, FCGI_END_REQUEST included, and stands between records.
THEOREM Mantiene == Spec => []MantieneEntera
<1>1. IInvHilo => MantieneEntera
  <2> SUFFICES ASSUME IInvHilo, peticion = "mantenida"
               PROVE  ~roto /\ leyendo.n = 0 /\ recibido = dado /\ eof["out"] /\ acabada = 1
    BY DEF MantieneEntera
  <2>1. TypeOK /\ InvCierre /\ Hilo /\ llamada = "no" /\ queda = <<>>
        /\ wasFCloseCalled["out"] /\ wasFCloseCalled["err"]
    BY DEF IInvHilo, IInv, InvLlamada, InvHilo
  <2>2. ~Escribiendo /\ nWriters = 0
    BY <2>1 DEF Escribiendo, InvCierre
  <2>3. \A s \in Flujos : HiloDe(s) /\ Falta(s) = <<>>
    BY <2>1 DEF Hilo, HiloDe
  <2>4. \A s \in Flujos : recibido[s] = dado[s]
    <3> SUFFICES ASSUME NEW s \in Flujos PROVE recibido[s] = dado[s]
      OBVIOUS
    <3>1. recibido[s] \in Seq(Unidad)
      BY <2>1 DEF TypeOK, TipoServidor
    <3>2. dado[s] = recibido[s] \o <<>>
      BY <2>3 DEF HiloDe
    <3> QED BY <3>1, <3>2, ConcatEmptySeq
  <2>5. recibido = dado
    BY <2>1, <2>4 DEF TypeOK, TipoServidor, TipoLlamada
  <2> QED BY <2>1, <2>2, <2>3, <2>5 DEF Hilo, HiloDe, Entre
<1> QED BY <1>1, SalidaHilo, PTL

-----------------------------------------------------------------------------
(* What piped_child loses of the output of the program.                      *)

\* Unit v has been handed to the library, or will be by the call in progress.
Entregada(v) == \E k \in 1..Len(dado["out"]) : dado["out"][k] = Dato("out", v)
EnLlamada(v) ==
  llamada = "PutStr" /\ cual = "out" /\ \E k \in 1..Len(resto) : resto[k] = Dato("out", v)
\* It may be lost: after a NUL, or with the second Content-type.
Perdible(v) == TrasNulo(v) \/ EnTipo(v)

InvNulos ==
  /\ senyales = 0 /\ ~isClosed["out"] => \A v \in 1..hijo : Entregada(v) \/ Perdible(v) \/ EnLlamada(v)
  /\ senyales = 0 /\ peticion # "sirve" => hijo = NSalida

\* FCGI_fputs writes all that was read, or up to a NUL of that same read.
LEMMA HastaElNulo ==
  ASSUME NEW d \in Nat, NEW n \in 1..LeeLen, NEW v \in (d + 1)..(d + n),
         NEW nulos \in SUBSET Nulos, v - d > Cardinality(HastaNulo(d, n, nulos))
  PROVE  TrasNulo(v)
<1>1. SUFFICES ASSUME \A w \in nulos : w \notin (d + 1)..v PROVE FALSE
  <2>1. (\E w \in nulos : w \in (d + 1)..v) => TrasNulo(v)
    BY Limites, FcgiSalidaAssumption DEF TrasNulo
  <2> QED BY <2>1
<1>2. (d + 1)..v \subseteq HastaNulo(d, n, nulos)
  BY <1>1, Limites DEF HastaNulo
<1>3. IsFiniteSet(HastaNulo(d, n, nulos))
  <2>1. n \in Nat
    BY Limites
  <2> QED BY <2>1, VistoFinito
<1>4. Cardinality((d + 1)..v) = v - d
  <2>1. d + 1 \in Int /\ v \in Int /\ d + 1 <= v
    BY Limites
  <2> QED BY <2>1, FS_Interval
<1>5. Cardinality((d + 1)..v) <= Cardinality(HastaNulo(d, n, nulos))
  BY <1>2, <1>3, FS_Subset
<1>6. Cardinality(HastaNulo(d, n, nulos)) \in Nat
  BY <1>3, FS_CardinalityType
<1> QED BY <1>4, <1>5, <1>6, Limites

\* What the first read blanks lies in the line of the first Content-type that
\* the output does not begin with.
LEMMA QuitaEnTipo ==
  ASSUME NEW d \in Nat, NEW n \in 1..LeeLen, NEW v \in Quita(d, n)
  PROVE  EnTipo(v)
<1> DEFINE tipos == (Tipos \cap HastaNulo(0, n, Nulos)) \ {1}
<1>1. d = 0 /\ v \in 1..n
  BY Limites DEF Quita
<1>2. PICK t \in tipos : t <= v /\ (\A u \in tipos : t <= u) /\ \A w \in Lineas : w \notin t..(v - 1)
  BY <1>1 DEF Quita
<1>3. t \in Tipos \ {1} /\ t \in 1..n /\ \A w \in Nulos : w \notin 1..t
  BY <1>2, Limites DEF HastaNulo
<1>4. \A u \in Tipos \ {1} : t <= u
  <2> SUFFICES ASSUME NEW u \in Tipos \ {1}, ~(t <= u) PROVE FALSE
    OBVIOUS
  <2>1. u \in 1..n /\ u < t
    BY <1>3, FcgiSalidaAssumption
  <2>2. u \in HastaNulo(0, n, Nulos)
    BY <1>3, <2>1, FcgiSalidaAssumption DEF HastaNulo
  <2> QED BY <1>2, <2>2
<1>5. v <= LeeLen
  BY <1>1, Limites
<1> QED BY <1>2, <1>3, <1>4, <1>5 DEF EnTipo

\* What the writers take stays taken.
LEMMA SigueEntregada ==
  ASSUME NEW a \in Seq(Unidad), NEW b \in Seq(Unidad), NEW u, NEW k \in 1..Len(a), a[k] = u
  PROVE  \E j \in 1..Len(a \o b) : (a \o b)[j] = u
<1>1. Len(a) \in Nat /\ Len(b) \in Nat /\ Len(a \o b) = Len(a) + Len(b) /\ (a \o b)[k] = a[k]
  BY ConcatProperties
<1>2. k \in 1..Len(a \o b)
  BY <1>1
<1> QED BY <1>1, <1>2

\* What is in two sequences one after the other is in one of them.
LEMMA EnElResto ==
  ASSUME NEW a \in Seq(Unidad), NEW b \in Seq(Unidad), NEW k \in 1..Len(a \o b), NEW u, (a \o b)[k] = u
  PROVE  (\E i \in 1..Len(a) : a[i] = u) \/ (\E j \in 1..Len(b) : b[j] = u)
<1>1. Len(a) \in Nat /\ Len(b) \in Nat /\ Len(a \o b) = Len(a) + Len(b)
      /\ (a \o b)[k] = IF k <= Len(a) THEN a[k] ELSE b[k - Len(a)]
  BY ConcatProperties
<1>2. CASE k <= Len(a)
  BY <1>1, <1>2
<1>3. CASE ~(k <= Len(a))
  <2>1. k - Len(a) \in 1..Len(b) /\ b[k - Len(a)] = u
    BY <1>1, <1>3
  <2> QED BY <2>1
<1> QED BY <1>2, <1>3

\* Copying into the buffer loses nothing.
LEMMA PoneNulos == IInv /\ InvNulos /\ Pone => InvNulos'
<1> SUFFICES ASSUME IInv, InvNulos, Pone PROVE InvNulos'
  OBVIOUS
<1>1. /\ TypeOK /\ InvCierre /\ cual \in Flujos /\ resto \in Seq(Unidad) /\ Sitio(cual) > 0
      /\ llamada \in {"PutStr", "FClose"}
      /\ UNCHANGED <<curso, marcas, llamada, cual, queda, ultimo, servidor>>
      /\ dado \in [Flujos -> Seq(Unidad)]
  BY DEF IInv, TypeOK, TipoLlamada, Pone, EnPutStr
<1>2. PICK m : m = Menor(Len(resto), Sitio(cual))
  OBVIOUS
<1>3. m \in 0..Len(resto)
  BY <1>1, <1>2, SitioTipo DEF Menor
<1>4. PICK p, q : p = SubSeq(resto, 1, m) /\ q = SubSeq(resto, m + 1, Len(resto))
  OBVIOUS
<1>5. p \in Seq(Unidad) /\ q \in Seq(Unidad) /\ resto = p \o q
  BY <1>1, <1>3, <1>4, Partir, Partes
<1>6. resto' = q /\ dado' = IF llamada = "PutStr" THEN [dado EXCEPT ![cual] = @ \o p] ELSE dado
  BY <1>2, <1>4 DEF Pone
<1>7. PICK a : a = dado["out"]
  OBVIOUS
<1>8. a \in Seq(Unidad)
  BY <1>1, <1>7
<1>9. CASE llamada = "PutStr" /\ cual = "out"
  <2>1. dado'["out"] = a \o p
    BY <1>1, <1>6, <1>7, <1>9
  <2>2. \A v : Entregada(v) \/ EnLlamada(v) => Entregada(v)' \/ EnLlamada(v)'
    <3> SUFFICES ASSUME NEW v, Entregada(v) \/ EnLlamada(v) PROVE Entregada(v)' \/ EnLlamada(v)'
      OBVIOUS
    <3>1. PICK u : u = Dato("out", v)
      OBVIOUS
    <3>2. CASE \E k \in 1..Len(a) : a[k] = u
      <4>1. \E j \in 1..Len(a \o p) : (a \o p)[j] = u
        BY <1>5, <1>8, <3>2, SigueEntregada
      <4> QED BY <2>1, <3>1, <4>1 DEF Entregada
    <3>3. CASE \E k \in 1..Len(p \o q) : (p \o q)[k] = u
      <4>1. (\E i \in 1..Len(p) : p[i] = u) \/ (\E j \in 1..Len(q) : q[j] = u)
        BY <1>5, <3>3, EnElResto
      <4>2. CASE \E i \in 1..Len(p) : p[i] = u
        <5>1. PICK i \in 1..Len(p) : p[i] = u
          BY <4>2
        <5>2. Len(a) \in Nat /\ Len(p) \in Nat /\ Len(a \o p) = Len(a) + Len(p) /\ (a \o p)[Len(a) + i] = p[i]
          BY <1>5, <1>8, ConcatProperties
        <5>3. Len(a) + i \in 1..Len(a \o p)
          BY <5>2
        <5> QED BY <2>1, <3>1, <5>1, <5>2, <5>3 DEF Entregada
      <4>3. CASE \E j \in 1..Len(q) : q[j] = u
        BY <1>1, <1>6, <1>9, <3>1, <4>3 DEF EnLlamada
      <4> QED BY <4>1, <4>2, <4>3
    <3> QED BY <1>5, <1>7, <3>1, <3>2, <3>3 DEF Entregada, EnLlamada
  <2> QED BY <1>1, <2>2 DEF InvNulos
<1>10. CASE ~(llamada = "PutStr" /\ cual = "out")
  <2>1. dado'["out"] = dado["out"]
    BY <1>1, <1>6, <1>10
  <2>2. \A v : Entregada(v) \/ EnLlamada(v) => Entregada(v)'
    BY <1>10, <2>1 DEF Entregada, EnLlamada
  <2> QED BY <1>1, <2>2 DEF InvNulos
<1> QED BY <1>9, <1>10

\* A read of the program's output loses only what follows a NUL in it, and a
\* second Content-type.
LEMMA LeeHijoNulos == IInv /\ InvNulos /\ LeeHijo => InvNulos'
<1> SUFFICES ASSUME IInv, InvNulos, LeeHijo PROVE InvNulos'
  OBVIOUS
<1>1. /\ llamada = "no" /\ peticion = "sirve" /\ hijo \in 0..NSalida
      /\ UNCHANGED <<peticion, keepConnection, errorIn, peticiones, senyales, Escritores>>
  BY DEF LeeHijo, Libre, IInv, TypeOK, TipoCurso
<1>2. PICK d : d = hijo
  OBVIOUS
<1>3. PICK n \in 1..Menor(LeeLen, NSalida - d) :
         \E k \in Restos(d, n) : hijo' = d + n /\ PutStr("out", Texto(d, n, k))
  BY <1>2 DEF LeeHijo
<1>k. PICK k \in Restos(d, n) : hijo' = d + n /\ PutStr("out", Texto(d, n, k))
  BY <1>3
<1>4. d \in Nat /\ n \in 1..LeeLen
  BY <1>1, <1>2, Limites DEF Menor
<1>5. PICK c, Q : c = Cardinality(HastaNulo(d, n, Nulos \ Quita(d, n))) /\ Q = Quita(d, n)
  OBVIOUS
<1>6. n \in Nat /\ c \in Nat /\ k \in Nat
  BY <1>4, <1>5, VistoFinito, Limites DEF Restos
<1>7. /\ llamada' = "PutStr" /\ cual' = "out" /\ Len(resto') = c + k
      /\ \A i \in 1..c : d + i \notin Q => resto'[i] = Dato("out", d + i)
  BY <1>k, <1>4, <1>5, <1>6, TextoEs DEF PutStr
<1>8. SUFFICES ASSUME senyales = 0, ~isClosed["out"], NEW v \in 1..(d + n)
               PROVE  Entregada(v)' \/ Perdible(v) \/ EnLlamada(v)'
  BY <1>1, <1>k DEF InvNulos, Perdible, TrasNulo, EnTipo
<1>9. CASE v <= d
  <2>1. Entregada(v) \/ Perdible(v) \/ EnLlamada(v)
    BY <1>2, <1>4, <1>8, <1>9 DEF InvNulos
  <2> QED BY <1>1, <2>1 DEF Entregada, EnLlamada
<1>10. CASE v > d /\ v - d <= c
  <2>1. v - d \in 1..c /\ v - d \in 1..(c + k) /\ d + (v - d) = v
    BY <1>4, <1>6, <1>10
  <2>2. CASE v \in Q
    BY <1>4, <1>5, <2>2, QuitaEnTipo DEF Perdible
  <2>3. CASE v \notin Q
    <3>1. resto'[v - d] = Dato("out", v)
      BY <1>7, <2>1, <2>3
    <3> QED BY <1>7, <2>1, <3>1 DEF EnLlamada
  <2> QED BY <2>2, <2>3
<1>11. CASE v > d /\ v - d > c
  <2>1. v \in (d + 1)..(d + n)
    BY <1>4, <1>11
  <2>2. TrasNulo(v)
    <3>1. Nulos \ Q \in SUBSET Nulos /\ v - d > Cardinality(HastaNulo(d, n, Nulos \ Q))
      BY <1>5, <1>11
    <3> QED BY <1>4, <2>1, <3>1, HastaElNulo
  <2> QED BY <2>2 DEF Perdible
<1> QED BY <1>4, <1>6, <1>9, <1>10, <1>11

\* A step that hands nothing to the library, nor takes anything back.
LEMMA NulosQuieto ==
  ASSUME InvNulos, UNCHANGED <<hijo, dado>>,
         senyales' = 0 => senyales = 0, ~isClosed'["out"] => ~isClosed["out"],
         llamada = "PutStr" /\ cual = "out" /\ resto # <<>> /\ ~isClosed'["out"]
           => UNCHANGED <<llamada, cual, resto>>,
         senyales' = 0 /\ peticion' # "sirve" => peticion # "sirve" \/ hijo = NSalida
  PROVE  InvNulos'
<1>1. \A v : Entregada(v)' = Entregada(v) /\ Perdible(v)' = Perdible(v)
  BY DEF Entregada, Perdible, TrasNulo, EnTipo
<1>2. ~isClosed'["out"] => \A v : EnLlamada(v) => EnLlamada(v)'
  BY DEF EnLlamada
<1> QED BY <1>1, <1>2 DEF InvNulos

\* Every step keeps what is not lost.
LEMMA NulosPaso == IInv /\ InvLlamada /\ InvNulos /\ [Next]_vars => InvNulos'
<1> SUFFICES ASSUME IInv, InvLlamada, InvNulos, [Next]_vars PROVE InvNulos'
  OBVIOUS
<1>1. TypeOK /\ cual \in Flujos /\ isClosed \in [Flujos -> BOOLEAN] /\ senyales \in Nat
  BY DEF IInv, TypeOK, TipoLlamada, TipoMarcas, TipoCurso
<1>2. CASE Pone
  BY <1>2, PoneNulos
<1>3. CASE LeeHijo
  BY <1>3, LeeHijoNulos
<1>4. CASE Lleno
  <2>1. UNCHANGED <<curso, buf, llamada, cual, ultimo, servidor, dado, isClosed>>
        /\ (~isClosed[cual] => UNCHANGED resto)
    BY <1>4 DEF Lleno, Envia
  <2> QED BY <2>1, NulosQuieto
<1>5. CASE FinPutStr
  BY <1>5, NulosQuieto DEF FinPutStr
<1>6. CASE FinFClose
  BY <1>1, <1>6, NulosQuieto DEF FinFClose, Cerrado, Envia
<1>7. CASE Escribe
  <2>1. UNCHANGED <<curso, dado, cual, resto>> /\ (llamada = "PutStr" => UNCHANGED llamada)
    BY <1>7 DEF Escribe, TrasEscribir
  <2>2. ~isClosed'["out"] => ~isClosed["out"]
    BY <1>1, <1>7 DEF Escribe
  <2> QED BY <2>1, <2>2, NulosQuieto
<1>8. CASE FallaEscritura /\ UNCHANGED <<peticion, hijo>> /\ (senyales' = 0 => senyales = 0)
  <2>1. UNCHANGED <<dado, cual, resto>> /\ (llamada = "PutStr" => UNCHANGED llamada)
        /\ (~isClosed'["out"] => ~isClosed["out"])
    BY <1>1, <1>8 DEF FallaEscritura, TrasEscribir
  <2> QED BY <1>8, <2>1, NulosQuieto
<1>9. CASE EscribeFalla
  BY <1>8, <1>9 DEF EscribeFalla
<1>10. CASE Usr1
  <2>1. senyales' # 0 /\ UNCHANGED hijo
    BY <1>1, <1>10 DEF Usr1
  <2> QED BY <2>1 DEF InvNulos
<1>11. CASE Nueva
  <2>1. hijo' = 0 /\ peticion' = "sirve"
    BY <1>11 DEF Nueva
  <2> QED BY <2>1 DEF InvNulos
<1>12. CASE FinHijo
  BY <1>12, NulosQuieto DEF FinHijo, Libre
<1>13. CASE FinishErr \/ FinishOut
  BY <1>13, NulosQuieto DEF FinishErr, FinishOut, Finish, FClose, Libre
<1>14. CASE EscribeErr
  BY <1>14, NulosQuieto DEF EscribeErr, Libre
<1>15. CASE CierraAntes \/ \E s \in Flujos : FFlush(s)
  BY <1>15, NulosQuieto DEF CierraAntes, FClose, FFlush, Libre, Envia
<1>16. CASE Corta \/ UNCHANGED vars
  BY <1>16, NulosQuieto DEF Corta
<1> QED
  BY <1>2, <1>3, <1>4, <1>5, <1>6, <1>7, <1>9, <1>10, <1>11, <1>12, <1>13, <1>14, <1>15, <1>16
     DEF Next, Biblioteca, Lanzador

\* Of the output of a program that ended without SIGUSR1, whatever its length,
\* the buffer and the places of its NULs, newlines and Content-types: what
\* piped_child does not hand to the library follows a NUL of the same read or
\* was blanked in the first one, from a Content-type to the next newline.
THEOREM Entregas == Spec => []SalidaEntregada
<1> DEFINE J == IInv /\ InvLlamada /\ InvNulos
<1>1. Init => J
  <2>1. Init => InvNulos
    BY DEF Init, InvNulos
  <2> QED BY <2>1, IInvHiloInicial DEF IInvHilo
<1>2. J /\ [Next]_vars => J'
  BY NextIInv, LlamadaPaso, NulosPaso
<1>3. J => SalidaEntregada
  <2> SUFFICES ASSUME J, peticion = "finErr", senyales = 0, ~isClosed["out"], NEW v \in Datos
               PROVE  Entregada(v) \/ Perdible(v)
    BY DEF SalidaEntregada, Entregada, Perdible
  <2>1. hijo = NSalida /\ llamada # "PutStr"
    BY DEF InvNulos, InvLlamada
  <2> QED BY <2>1 DEF InvNulos, Datos, EnLlamada
<1> QED BY <1>1, <1>2, <1>3, PTL DEF Spec

-----------------------------------------------------------------------------
(* FCGX_Finish_r comes to its end: the safety half of AcabaSiempre.          *)

\* What is left of it: the streams to go through, those not closed yet, what
\* FCGX_FClose has still to put in the buffer (and, at the last, to write), and
\* how far the writing of the buffer has come.
EnFinish == peticion \in {"finErr", "finOut"}
Etapa == CASE peticion = "finErr" -> 2 [] peticion = "finOut" -> 1 [] OTHER -> 0
Abiertos == {s \in Flujos : ~wasFCloseCalled[s]}
PorPoner == IF ultimo THEN 0 ELSE Len(resto) + 1
PorEscribir ==
  IF queda # <<>> THEN Len(queda)
  ELSE IF buf[cual] = <<>> \/ isClosed[cual] THEN 0 ELSE BuffLen + 1

\* A step after which there is less left, the first difference deciding.
Termina == Etapa' < Etapa
Cierra == Etapa' = Etapa /\ Abiertos' \subseteq Abiertos /\ Abiertos' # Abiertos
EmpiezaCierre == UNCHANGED <<Etapa, Abiertos>> /\ llamada = "no" /\ llamada' = "FClose"
SigueCierre ==
  /\ UNCHANGED <<Etapa, Abiertos>> /\ llamada = "FClose" /\ llamada' = "FClose" /\ cual' = cual
  /\ \/ PorPoner' < PorPoner
     \/ PorPoner' = PorPoner /\ PorEscribir' < PorEscribir
Adelanta == Termina \/ Cierra \/ EmpiezaCierre \/ SigueCierre

\* In every state of it the launcher can take a step: between two calls, with
\* something to write (which works or fails), or with room to look at.
PuedeSeguir ==
  \/ Libre
  \/ llamada = "FClose" /\ queda # <<>>
  \/ llamada = "FClose" /\ queda = <<>> /\ (resto = <<>> \/ Sitio(cual) >= 0)

\* The streams that are open, when the marks are the same.
LEMMA AbiertosIgual ==
  ASSUME UNCHANGED <<peticion, wasFCloseCalled>>
  PROVE  UNCHANGED <<Etapa, Abiertos>>
BY DEF Etapa, Abiertos

\* The return of EmptyBuffProc after the last write closes the stream; before
\* it, what was being written is written or lost.
LEMMA TrasEscribirAdelanta ==
  ASSUME IInv, InvLlamada, EnFinish, queda # <<>>, queda' = <<>>, TrasEscribir,
         UNCHANGED <<peticion, cual, resto>>, buf'[cual] = <<>> \/ isClosed'[cual]
  PROVE  Adelanta
<1>1. /\ llamada = "FClose" /\ cual \in Flujos /\ ~wasFCloseCalled[cual]
      /\ wasFCloseCalled \in [Flujos -> BOOLEAN]
      /\ Len(queda) \in Nat /\ Len(queda) # 0
  BY DEF EnFinish, InvLlamada, IInv, TypeOK, TipoLlamada, TipoMarcas, TipoBuffer
<1>2. CASE ~ultimo /\ UNCHANGED <<llamada, ultimo, wasFCloseCalled>>
  <2>1. PorPoner' = PorPoner
    BY <1>2 DEF PorPoner
  <2>2. PorEscribir' = 0 /\ PorEscribir = Len(queda)
    BY DEF PorEscribir
  <2>3. PorEscribir' < PorEscribir
    BY <1>1, <2>2
  <2> QED BY <1>1, <1>2, <2>1, <2>3, AbiertosIgual DEF Adelanta, SigueCierre
<1>3. CASE wasFCloseCalled' = [wasFCloseCalled EXCEPT ![cual] = TRUE]
  <2>1. Etapa' = Etapa
    BY DEF Etapa
  <2>2. cual \in Abiertos /\ cual \notin Abiertos' /\ Abiertos' \subseteq Abiertos
    BY <1>1, <1>3 DEF Abiertos
  <2> QED BY <2>1, <2>2 DEF Adelanta, Cierra
<1> QED BY <1>1, <1>2, <1>3 DEF TrasEscribir

\* A write that fails is as good as one that works.
LEMMA FallaAdelanta ==
  ASSUME IInv, InvLlamada, EnFinish, FallaEscritura, UNCHANGED peticion
  PROVE  Adelanta
<1>1. isClosed'[cual] /\ cual \in Flujos
  BY DEF FallaEscritura, IInv, TypeOK, TipoLlamada, TipoMarcas
<1> QED BY <1>1, TrasEscribirAdelanta DEF FallaEscritura

\* Part of the closing records goes into the buffer.
LEMMA PoneAdelanta ==
  ASSUME IInv, InvLlamada, EnFinish, Pone
  PROVE  Adelanta
<1>1. /\ llamada = "FClose" /\ ~ultimo
      /\ UNCHANGED <<peticion, wasFCloseCalled, llamada, cual, ultimo>>
  BY DEF Pone, EnFinish, InvLlamada, EnPutStr
<1>2. resto \in Seq(Unidad) /\ resto # <<>> /\ Sitio(cual) \in Int /\ Sitio(cual) > 0
  BY SitioTipo DEF Pone, IInv, TypeOK, TipoLlamada
<1>3. PICK m : m = Menor(Len(resto), Sitio(cual)) /\ resto' = SubSeq(resto, m + 1, Len(resto))
  BY DEF Pone
<1>4. m \in 1..Len(resto)
  BY <1>2, <1>3 DEF Menor
<1>5. Len(resto') = Len(resto) - m
  BY <1>2, <1>3, <1>4
<1>6. PorPoner' < PorPoner
  BY <1>1, <1>2, <1>4, <1>5 DEF PorPoner
<1> QED BY <1>1, <1>6, AbiertosIgual DEF Adelanta, SigueCierre

\* A full buffer is sent, or the rest is lost with a closed stream.
LEMMA LlenoAdelanta ==
  ASSUME IInv, InvLlamada, EnFinish, Lleno
  PROVE  Adelanta
<1>1. /\ llamada = "FClose" /\ ~ultimo /\ queda = <<>> /\ resto # <<>> /\ Sitio(cual) = 0
      /\ UNCHANGED <<peticion, wasFCloseCalled, llamada, cual, ultimo, buf>>
      /\ cual \in Flujos /\ resto \in Seq(Unidad) /\ ~wasFCloseCalled[cual] /\ rawWrite[cual]
  BY DEF Lleno, Envia, EnFinish, InvLlamada, EnPutStr, IInv, TypeOK, TipoLlamada, InvCierre
<1>2. CASE isClosed[cual]
  <2>1. resto' = <<>>
    BY <1>2 DEF Lleno
  <2>2. PorPoner' = 1 /\ PorPoner = Len(resto) + 1 /\ Len(resto) > 0
    BY <1>1, <2>1 DEF PorPoner
  <2> QED BY <1>1, <2>2, AbiertosIgual DEF Adelanta, SigueCierre
<1>3. CASE ~isClosed[cual]
  <2>1. queda' = buf[cual] /\ UNCHANGED resto
    BY <1>1, <1>3 DEF Lleno, Envia, Registro
  <2>2. buf[cual] # <<>> /\ Len(buf[cual]) \in Nat /\ Len(buf[cual]) <= BuffLen
    BY <1>1, RegistroTipo, LlenoNoVacio DEF IInv
  <2>3. PorPoner' = PorPoner
    BY <1>1, <2>1 DEF PorPoner
  <2>4. PorEscribir' = Len(buf[cual]) /\ PorEscribir = BuffLen + 1
    BY <1>1, <1>3, <2>1, <2>2 DEF PorEscribir
  <2>5. PorEscribir' < PorEscribir
    BY <2>2, <2>4, Limites
  <2> QED BY <1>1, <2>3, <2>5, AbiertosIgual DEF Adelanta, SigueCierre
<1> QED BY <1>2, <1>3

\* The closing records are in the buffer: the last write begins, or there is
\* nothing to write and the stream is closed.
LEMMA FinFCloseAdelanta ==
  ASSUME IInv, InvLlamada, EnFinish, FinFClose
  PROVE  Adelanta
<1>1. /\ llamada = "FClose" /\ ~ultimo /\ queda = <<>> /\ resto = <<>>
      /\ UNCHANGED <<peticion, cual, resto>>
      /\ cual \in Flujos /\ ~wasFCloseCalled[cual] /\ wasFCloseCalled \in [Flujos -> BOOLEAN]
  BY DEF FinFClose, EnFinish, InvLlamada, EnPutStr, IInv, TypeOK, TipoLlamada, TipoMarcas
<1>2. CASE buf[cual] = <<>>
  <2>1. wasFCloseCalled' = [wasFCloseCalled EXCEPT ![cual] = TRUE]
    BY <1>2 DEF FinFClose, Cerrado
  <2>2. cual \in Abiertos /\ cual \notin Abiertos' /\ Abiertos' \subseteq Abiertos /\ Etapa' = Etapa
    BY <1>1, <2>1 DEF Abiertos, Etapa
  <2> QED BY <2>2 DEF Adelanta, Cierra
<1>3. CASE buf[cual] # <<>>
  <2>1. ultimo' = TRUE /\ UNCHANGED <<llamada, wasFCloseCalled>>
    BY <1>3 DEF FinFClose, Envia
  <2>2. PorPoner' = 0 /\ PorPoner = 1
    BY <1>1, <2>1 DEF PorPoner
  <2> QED BY <1>1, <2>1, <2>2, AbiertosIgual DEF Adelanta, SigueCierre
<1> QED BY <1>2, <1>3

\* One unit more has been written.
LEMMA EscribeAdelanta ==
  ASSUME IInv, InvLlamada, EnFinish, Escribe
  PROVE  Adelanta
<1>1. /\ llamada = "FClose" /\ cual \in Flujos /\ queda # <<>> /\ queda' = Tail(queda)
      /\ UNCHANGED <<peticion, cual, resto>>
      /\ queda \in Seq(Unidad) /\ buf \in [Flujos -> Seq(Unidad)]
  BY DEF Escribe, EnFinish, InvLlamada, IInv, TypeOK, TipoLlamada, TipoBuffer
<1>2. CASE queda' # <<>>
  <2>1. UNCHANGED <<llamada, ultimo, wasFCloseCalled>>
    BY <1>2 DEF Escribe
  <2>2. PorEscribir' = Len(queda) - 1 /\ PorEscribir = Len(queda) /\ Len(queda) \in Nat
    BY <1>1, <1>2 DEF PorEscribir
  <2>3. PorPoner' = PorPoner
    BY <1>1, <2>1 DEF PorPoner
  <2> QED BY <1>1, <2>1, <2>2, <2>3, AbiertosIgual DEF Adelanta, SigueCierre
<1>3. CASE queda' = <<>>
  <2>1. TrasEscribir /\ buf'[cual] = <<>>
    BY <1>1, <1>3 DEF Escribe
  <2> QED BY <1>1, <1>3, <2>1, TrasEscribirAdelanta
<1> QED BY <1>2, <1>3

\* FCGX_Finish_r goes on to the next stream, or closes this one.
LEMMA FinishAdelanta ==
  ASSUME IInv, InvLlamada, FinishErr \/ FinishOut
  PROVE  Adelanta
<1>1. CASE \E s \in Flujos : FClose(s) /\ UNCHANGED peticion
  <2>1. llamada = "no" /\ llamada' = "FClose" /\ UNCHANGED wasFCloseCalled
    BY <1>1 DEF FClose, Libre
  <2> QED BY <1>1, <2>1, AbiertosIgual DEF Adelanta, EmpiezaCierre
<1>2. CASE \/ peticion = "finErr" /\ peticion' = "finOut"
           \/ peticion = "finOut" /\ peticion' \in {"mantenida", "cerrada"}
  BY <1>2 DEF Adelanta, Termina, Etapa
<1>3. FinishErr => \/ \E s \in Flujos : FClose(s) /\ UNCHANGED peticion
                   \/ peticion = "finErr" /\ peticion' = "finOut"
  BY DEF FinishErr, Finish
<1>4. FinishOut => \/ \E s \in Flujos : FClose(s) /\ UNCHANGED peticion
                   \/ peticion = "finOut" /\ peticion' \in {"mantenida", "cerrada"}
  BY DEF FinishOut, Finish
<1> QED BY <1>1, <1>2, <1>3, <1>4

\* Every step but the one in which the server closes the connection, which it
\* does once, leaves less to do.
LEMMA PasoAdelanta == IInv /\ InvLlamada /\ EnFinish /\ Next => Adelanta \/ (~cortado /\ cortado')
<1> SUFFICES ASSUME IInv, InvLlamada, EnFinish, Next
             PROVE  Adelanta \/ (~cortado /\ cortado')
  OBVIOUS
<1>1. peticion # "sirve" /\ peticion # "mantenida" /\ llamada # "PutStr"
  BY DEF EnFinish, InvLlamada
<1>2. CASE Biblioteca
  <2>1. ~FinPutStr
    BY <1>1 DEF FinPutStr
  <2>2. CASE EscribeFalla
    BY <2>2, FallaAdelanta DEF EscribeFalla
  <2> QED
    BY <1>2, <2>1, <2>2, PoneAdelanta, LlenoAdelanta, FinFCloseAdelanta, EscribeAdelanta DEF Biblioteca
<1>3. CASE Lanzador
  <2>1. ~LeeHijo /\ ~FinHijo
    BY <1>1 DEF LeeHijo, FinHijo
  <2> QED BY <1>3, <2>1, FinishAdelanta DEF Lanzador
<1>4. CASE Corta
  BY <1>4 DEF Corta
<1>5. CASE Usr1
  <2>1. FallaEscritura /\ UNCHANGED peticion
    BY <1>1, <1>5 DEF Usr1
  <2> QED BY <2>1, FallaAdelanta
<1>6. ~Nueva /\ ~EscribeErr /\ ~CierraAntes /\ ~\E s \in Flujos : FFlush(s)
  BY <1>1 DEF Nueva, EscribeErr, CierraAntes, FFlush
<1> QED BY <1>2, <1>3, <1>4, <1>5, <1>6 DEF Next

\* FCGX_Finish_r neither stops nor goes round, whichever writes fail and
\* whatever SIGUSR1 and the server do: in each of its states there is a step
\* to take, and each step leaves less to do than there was, in an order that
\* cannot go down for ever.
THEOREM FinishAvanza ==
  Spec => /\ [](EnFinish => PuedeSeguir)
          /\ [][EnFinish => Adelanta \/ (~cortado /\ cortado')]_vars
<1>1. IInv /\ InvLlamada => (EnFinish => PuedeSeguir)
  <2> SUFFICES ASSUME IInv, InvLlamada, EnFinish, llamada = "FClose" PROVE PuedeSeguir
    BY DEF EnFinish, InvLlamada, PuedeSeguir, Libre
  <2>1. /\ TypeOK /\ cual \in Flujos /\ ~wasFCloseCalled[cual] /\ rawWrite[cual]
    BY DEF InvLlamada, IInv, InvCierre, TypeOK, TipoLlamada
  <2>2. Sitio(cual) = BuffLen - Len(buf[cual])
    BY <2>1, RegistroTipo, Limites DEF Sitio
  <2>3. Sitio(cual) >= 0
    BY <2>1, <2>2, RegistroTipo, Limites
  <2> QED BY <2>3 DEF PuedeSeguir
<1>2. IInv /\ InvLlamada /\ [Next]_vars => [EnFinish => Adelanta \/ (~cortado /\ cortado')]_vars
  BY PasoAdelanta
<1>3. Spec => [](IInv /\ InvLlamada)
  BY SalidaHilo, PTL DEF IInvHilo
<1> QED BY <1>1, <1>2, <1>3, PTL DEF Spec
=============================================================================
