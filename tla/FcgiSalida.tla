----------------------------- MODULE FcgiSalida -----------------------------
(***************************************************************************)
(* The output side of a launcher: piped_child copies what the CGI program  *)
(* writes to FCGI_stdout, and the two writers of libfcgi (STDOUT, STDERR)  *)
(* wrap it in records and end the request.                                 *)
(*                                                                         *)
(* Lengths are in units of eight bytes, to which records are padded: a     *)
(* header is one unit, FCGI_END_REQUEST two (its header, "fin", and its    *)
(* body, "cuerpo").  write_it_all hands units to the server one at a time, *)
(* as the partial writes of a slow connection do; the server reads them as *)
(* records.  It may close the connection at any moment, and SIGUSR1, whose *)
(* handler has no SA_RESTART, makes a blocked read or write fail.          *)
(***************************************************************************)
EXTENDS Integers, Sequences, FiniteSets

CONSTANTS
  NSalida,      \* units that the CGI program writes
  Nulos,        \* those of them that begin with a NUL
  Tipos,        \* those that are "Content-type: ", of one unit here
  Lineas,       \* those that end with a newline
  LeeLen,       \* units of the buffer "salida" of piped_child
  BuffLen,      \* units of the buffer of a writer
  MaxRestos,    \* bound: units that FCGI_fputs takes beyond what was read
  MaxErr,       \* bound: units written to STDERR in a request
  MaxPeticiones,\* bound: requests on the connection
  MaxSenyales   \* bound: SIGUSR1 received

ASSUME FcgiSalidaAssumption ==
  /\ NSalida \in Nat /\ \A S \in {Nulos, Tipos, Lineas} : S \subseteq 1..NSalida
  /\ LeeLen \in Nat \ {0} /\ BuffLen \in Nat \ {0, 1}
  /\ MaxRestos \in Nat /\ MaxErr \in Nat /\ MaxPeticiones \in Nat /\ MaxSenyales \in Nat

Flujos == {"out", "err"}
Datos == 1..NSalida
Unidad ==
  [t: {"cab"}, de: Flujos, n: 0..BuffLen]       \* header of a stream record
    \cup [t: {"dato"}, de: Flujos, n: Nat]       \* content
    \cup [t: {"fin", "cuerpo"}, de: {"fin"}, n: {1}]
Cab(s, n) == [t |-> "cab", de |-> s, n |-> n]
Dato(s, v) == [t |-> "dato", de |-> s, n |-> v]
EndRequest == <<[t |-> "fin", de |-> "fin", n |-> 1], [t |-> "cuerpo", de |-> "fin", n |-> 1]>>

VARIABLES
  (* the request *)
  peticion,   \* sirve; finErr, finOut: in FCGX_Finish_r; mantenida, cerrada
  hijo,       \* units read from the CGI program
  keepConnection, errorIn,   \* of the input side (FcgiEntrada)
  peticiones, senyales,
  (* the writers *)
  buf,        \* units between buff and wrNext, without the place for a header
  rawWrite, isAnythingWritten, FCGI_errno, isClosed, wasFCloseCalled, nWriters,
  (* the call into the library *)
  llamada,    \* no, PutStr, FFlush or FClose
  cual,       \* its stream
  resto,      \* what PutStr has not put in the buffer yet
  queda,      \* what write_it_all has not written yet
  ultimo,     \* write_it_all is the last of EmptyBuffProc(stream, TRUE)
  (* the server *)
  cortado,    \* has closed the connection
  leyendo,    \* the record it is in: [de: stream, n: units that it lacks]
  recibido, eof, acabada,   \* contents, EOF and END_REQUEST received
  roto,       \* what it has received is no sequence of records
  (* history *)
  dado        \* contents that the writers have taken

curso == <<peticion, hijo, keepConnection, errorIn, peticiones, senyales>>
marcas == <<rawWrite, isAnythingWritten, FCGI_errno, isClosed, wasFCloseCalled, nWriters>>
servidor == <<cortado, leyendo, recibido, eof, acabada, roto>>
vars == <<curso, buf, marcas, llamada, cual, resto, queda, ultimo, servidor, dado>>

Menor(a, b) == IF a < b THEN a ELSE b
Todos(v) == [s \in Flujos |-> v]

\* Two NewWriter, at the end of FCGX_Accept_r.
Init ==
  /\ peticion = "sirve" /\ hijo = 0 /\ peticiones = 1 /\ senyales = 0
  /\ keepConnection \in BOOLEAN /\ errorIn \in BOOLEAN
  /\ buf = Todos(<<>>) /\ rawWrite = Todos(FALSE) /\ isAnythingWritten = Todos(FALSE)
  /\ FCGI_errno = Todos(FALSE) /\ isClosed = Todos(FALSE) /\ wasFCloseCalled = Todos(FALSE)
  /\ nWriters = 2
  /\ llamada = "no" /\ cual = "out" /\ resto = <<>> /\ queda = <<>> /\ ultimo = FALSE
  /\ cortado = FALSE /\ leyendo = [de |-> "fin", n |-> 0]
  /\ recibido = Todos(<<>>) /\ eof = Todos(FALSE) /\ acabada = 0 /\ roto = FALSE
  /\ dado = Todos(<<>>)

-----------------------------------------------------------------------------
(* EmptyBuffProc and the calls that lead to it. *)

\* Room in the buffer, a place being kept for the header of the record.
Sitio(s) ==
  IF wasFCloseCalled[s] THEN 0
  ELSE BuffLen - Len(buf[s]) - (IF rawWrite[s] THEN 0 ELSE 1)

\* Mutant: the header counts itself.
RegistroDeMas(s) ==
  IF rawWrite[s] \/ buf[s] = <<>> THEN buf[s] ELSE <<Cab(s, Len(buf[s]) + 1)>> \o buf[s]

\* What EmptyBuffProc finds to write: the content with its header in front.
Registro(s) ==
  IF rawWrite[s] \/ buf[s] = <<>> THEN buf[s] ELSE <<Cab(s, Len(buf[s]))>> \o buf[s]

Libre == llamada = "no"
EnPutStr == llamada \in {"PutStr", "FClose"} /\ queda = <<>>
Vuelve == llamada' = "no" /\ UNCHANGED <<cual, resto, queda, ultimo>>

\* FCGX_PutStr: as much as there is room for.
Pone ==
  /\ EnPutStr /\ resto # <<>> /\ Sitio(cual) > 0
  /\ LET m == Menor(Len(resto), Sitio(cual))
         puesto == SubSeq(resto, 1, m)
     IN  /\ buf' = [buf EXCEPT ![cual] = @ \o puesto]
         /\ resto' = SubSeq(resto, m + 1, Len(resto))
         /\ dado' = IF llamada = "PutStr" THEN [dado EXCEPT ![cual] = @ \o puesto] ELSE dado
  /\ UNCHANGED <<curso, marcas, llamada, cual, queda, ultimo, servidor>>

\* write_it_all begins.
Envia(s, unidades) ==
  /\ queda' = unidades
  /\ isAnythingWritten' = [isAnythingWritten EXCEPT ![s] = TRUE]
  /\ UNCHANGED <<rawWrite, FCGI_errno, isClosed, wasFCloseCalled, nWriters>>

\* Mutant: a closed stream is not looked at.
LlenoInsiste ==
  /\ EnPutStr /\ resto # <<>> /\ Sitio(cual) = 0
  /\ Envia(cual, Registro(cual))
  /\ UNCHANGED <<curso, buf, llamada, cual, resto, ultimo, servidor, dado>>

\* No room: the buffer is emptied or, if the stream is closed, the rest lost.
Lleno ==
  /\ EnPutStr /\ resto # <<>> /\ Sitio(cual) = 0
  /\ IF isClosed[cual]
       THEN resto' = <<>> /\ UNCHANGED <<queda, marcas>>
       ELSE Envia(cual, Registro(cual)) /\ UNCHANGED resto
  /\ UNCHANGED <<curso, buf, llamada, cual, ultimo, servidor, dado>>

FinPutStr ==
  /\ EnPutStr /\ llamada = "PutStr" /\ resto = <<>>
  /\ Vuelve
  /\ UNCHANGED <<curso, buf, marcas, servidor, dado>>

FFlush(s) ==
  /\ Libre /\ peticion = "sirve" /\ ~isClosed[s] /\ buf[s] # <<>>
  /\ llamada' = "FFlush" /\ cual' = s
  /\ Envia(s, Registro(s))
  /\ UNCHANGED <<curso, buf, resto, ultimo, servidor, dado>>

\* The records that close stream s (WriteCloseRecords): the end of its content,
\* but for a STDERR on which nothing was written, and of the request if it is
\* the last writer.
CloseRecords(s) ==
  (IF s = "err" /\ buf[s] = <<>> /\ ~isAnythingWritten[s] THEN <<>> ELSE <<Cab(s, 0)>>)
    \o (IF nWriters = 1 THEN EndRequest ELSE <<>>)

FClose(s) ==
  /\ Libre /\ ~wasFCloseCalled[s]
  /\ llamada' = "FClose" /\ cual' = s
  /\ buf' = [buf EXCEPT ![s] = Registro(s)]
  /\ rawWrite' = [rawWrite EXCEPT ![s] = TRUE]
  /\ resto' = CloseRecords(s)
  /\ nWriters' = nWriters - 1
  /\ UNCHANGED <<isAnythingWritten, FCGI_errno, isClosed, wasFCloseCalled, queda, ultimo, servidor, dado>>

\* The end of FCGX_FClose.
Cerrado(s) ==
  /\ wasFCloseCalled' = [wasFCloseCalled EXCEPT ![s] = TRUE]
  /\ isClosed' = [isClosed EXCEPT ![s] = TRUE]
  /\ llamada' = "no" /\ ultimo' = FALSE

\* The close records are in the buffer, or lost.
FinFClose ==
  /\ EnPutStr /\ llamada = "FClose" /\ resto = <<>>
  /\ IF buf[cual] = <<>>
       THEN Cerrado(cual) /\ UNCHANGED <<queda, isAnythingWritten, rawWrite, FCGI_errno, nWriters>>
       ELSE ultimo' = TRUE /\ Envia(cual, buf[cual]) /\ UNCHANGED llamada
  /\ UNCHANGED <<curso, buf, cual, resto, servidor, dado>>

-----------------------------------------------------------------------------
(* write_it_all, and the server at the other end. *)

\* A unit reaches the server, which reads no more once it has lost the records.
Recibe(u) ==
  LET encaja == IF leyendo.n = 0 THEN u.t = "fin" \/ (u.t = "cab" /\ ~eof[u.de])
                ELSE u.t \in {"dato", "cuerpo"} /\ u.de = leyendo.de
      cabecera == u.t \in {"cab", "fin"}
  IN  IF roto \/ ~encaja
        THEN roto' = TRUE /\ UNCHANGED <<leyendo, recibido, eof, acabada>>
        ELSE /\ leyendo' = IF cabecera THEN [de |-> u.de, n |-> u.n] ELSE [leyendo EXCEPT !.n = @ - 1]
             /\ eof' = IF u.t = "cab" /\ u.n = 0 THEN [eof EXCEPT ![u.de] = TRUE] ELSE eof
             /\ recibido' = IF u.t = "dato" THEN [recibido EXCEPT ![u.de] = Append(@, u)] ELSE recibido
             /\ acabada' = IF u.t = "cuerpo" THEN acabada + 1 ELSE acabada
             /\ UNCHANGED roto

\* EmptyBuffProc returns to its caller.
TrasEscribir ==
  \/ llamada = "FFlush" /\ llamada' = "no" /\ UNCHANGED <<ultimo, wasFCloseCalled>>
  \/ llamada \in {"PutStr", "FClose"} /\ ~ultimo /\ UNCHANGED <<llamada, ultimo, wasFCloseCalled>>
  \/ /\ llamada = "FClose" /\ ultimo /\ llamada' = "no" /\ ultimo' = FALSE
     /\ wasFCloseCalled' = [wasFCloseCalled EXCEPT ![cual] = TRUE]

Escribe ==
  /\ queda # <<>> /\ ~cortado
  /\ Recibe(Head(queda)) /\ queda' = Tail(queda)
  /\ IF queda' # <<>>
       THEN UNCHANGED <<buf, llamada, ultimo, wasFCloseCalled, isClosed>>
       ELSE /\ buf' = [buf EXCEPT ![cual] = <<>>]
            /\ TrasEscribir
            /\ isClosed' = [isClosed EXCEPT ![cual] = @ \/ wasFCloseCalled'[cual]]
  /\ UNCHANGED <<curso, rawWrite, isAnythingWritten, FCGI_errno, nWriters, cual, resto, cortado, dado>>

\* OS_Write fails: SetError.  What was in the buffer stays there.
FallaEscritura ==
  /\ queda # <<>> /\ queda' = <<>>
  /\ FCGI_errno' = [FCGI_errno EXCEPT ![cual] = TRUE]
  /\ isClosed' = [isClosed EXCEPT ![cual] = TRUE]
  /\ TrasEscribir
  /\ UNCHANGED <<buf, rawWrite, isAnythingWritten, nWriters, cual, resto, servidor, dado>>

EscribeFalla ==
  /\ cortado /\ FallaEscritura
  /\ UNCHANGED curso

Corta ==
  /\ ~cortado /\ cortado' = TRUE
  /\ UNCHANGED <<curso, buf, marcas, llamada, cual, resto, queda, ultimo, leyendo, recibido, eof, acabada, roto,
                 dado>>

-----------------------------------------------------------------------------
(* The launcher. *)
Escritores == <<buf, marcas, queda, ultimo, servidor, dado>>

PutStr(s, unidades) ==
  /\ llamada' = "PutStr" /\ cual' = s /\ resto' = unidades

\* What strstr and FCGI_fputs see of a read of n units: up to its first NUL.
HastaNulo(desde, n, nulos) ==
  {v \in (desde + 1)..(desde + n) : \A w \in nulos : w \notin (desde + 1)..v}

\* What the first read has blanked: from the first "Content-type: " that is not
\* its first unit to the next newline, over the NULs on the way.
Quita(desde, n) ==
  LET tipos == IF desde = 0 THEN (Tipos \cap HastaNulo(0, n, Nulos)) \ {1} ELSE {}
  IN  {v \in (desde + 1)..(desde + n) :
         \E t \in tipos : t <= v /\ (\A u \in tipos : t <= u) /\ \A w \in Lineas : w \notin t..(v - 1)}

\* Without a newline the NUL put at the end of the read is blanked too: what
\* the buffer and the stack held follows, up to some NUL.
Restos(desde, n) == IF desde + n \in Quita(desde, n) \ Lineas THEN 0..MaxRestos ELSE {0}

\* What FCGI_fputs is given: the read up to its first NUL and k units more.
\* Blanks, and what is not of this read, are 0.
Texto(desde, n, k) ==
  LET c == Cardinality(HastaNulo(desde, n, Nulos \ Quita(desde, n)))
  IN  [i \in 1..(c + k) |->
         Dato("out", IF i > c \/ desde + i \in Quita(desde, n) THEN 0 ELSE desde + i)]

\* Mutant: the last unit of what has been read is lost.
LeeHijoDeMenos ==
  /\ Libre /\ peticion = "sirve"
  /\ \E n \in 1..Menor(LeeLen, NSalida - hijo) : \E k \in Restos(hijo, n) :
       hijo' = hijo + n /\ PutStr("out", Texto(hijo, n - 1, k))
  /\ UNCHANGED <<peticion, keepConnection, errorIn, peticiones, senyales, Escritores>>

\* read of the pipe, and FCGI_fputs of what it returns.
LeeHijo ==
  /\ Libre /\ peticion = "sirve"
  /\ \E n \in 1..Menor(LeeLen, NSalida - hijo) : \E k \in Restos(hijo, n) :
       hijo' = hijo + n /\ PutStr("out", Texto(hijo, n, k))
  /\ UNCHANGED <<peticion, keepConnection, errorIn, peticiones, senyales, Escritores>>

\* The library lets the application write to STDERR, and close a stream before
\* FCGX_Finish does; start.c does neither.
EscribeErr ==
  /\ Libre /\ peticion = "sirve" /\ Len(dado["err"]) < MaxErr /\ ~isClosed["err"]
  /\ PutStr("err", <<Dato("err", Len(dado["err"]) + 1)>>)
  /\ UNCHANGED <<curso, Escritores>>

CierraAntes ==
  /\ peticion = "sirve" /\ FClose("out")
  /\ UNCHANGED curso

\* The program has closed its output; FCGI_Finish.
FinHijo ==
  /\ Libre /\ peticion = "sirve" /\ hijo = NSalida
  /\ peticion' = "finErr"
  /\ UNCHANGED <<hijo, keepConnection, errorIn, peticiones, senyales, Escritores, llamada, cual, resto>>

\* FCGX_Finish_r: err, out, and the connection.
Finish(s, desde, hacia) ==
  \/ /\ peticion = desde /\ FClose(s)
     /\ UNCHANGED curso
  \/ /\ peticion = desde /\ Libre /\ wasFCloseCalled[s]
     /\ peticion' \in hacia
     /\ UNCHANGED <<hijo, keepConnection, errorIn, peticiones, senyales, Escritores, llamada, cual, resto>>

FinishErr == Finish("err", "finErr", {"finOut"})
\* Mutant: what closing "out" returns is not looked at.
FinishOutSinMirar ==
  Finish("out", "finOut",
         {IF keepConnection /\ ~errorIn /\ ~FCGI_errno["err"] THEN "mantenida" ELSE "cerrada"})

FinishOut ==
  Finish("out", "finOut",
         {IF keepConnection /\ ~errorIn /\ ~FCGI_errno["out"] /\ ~FCGI_errno["err"]
            THEN "mantenida" ELSE "cerrada"})

\* The next request on the connection.
Nueva ==
  /\ Libre /\ peticion = "mantenida" /\ peticiones < MaxPeticiones
  /\ peticion' = "sirve" /\ peticiones' = peticiones + 1 /\ hijo' = 0
  /\ keepConnection' \in BOOLEAN /\ errorIn' \in BOOLEAN
  /\ buf' = Todos(<<>>) /\ rawWrite' = Todos(FALSE) /\ isAnythingWritten' = Todos(FALSE)
  /\ FCGI_errno' = Todos(FALSE) /\ isClosed' = Todos(FALSE) /\ wasFCloseCalled' = Todos(FALSE)
  /\ nWriters' = 2
  /\ recibido' = Todos(<<>>) /\ eof' = Todos(FALSE) /\ acabada' = 0 /\ dado' = Todos(<<>>)
  /\ UNCHANGED <<senyales, llamada, cual, resto, queda, ultimo, cortado, leyendo, roto>>

\* SIGUSR1 while the launcher is blocked: read ends as at the end of the
\* program's output; write fails.
Usr1 ==
  /\ senyales < MaxSenyales /\ senyales' = senyales + 1
  /\ \/ /\ Libre /\ peticion = "sirve"
        /\ peticion' = "finErr"
        /\ UNCHANGED <<Escritores, llamada, cual, resto>>
     \/ FallaEscritura /\ UNCHANGED peticion
  /\ UNCHANGED <<hijo, keepConnection, errorIn, peticiones>>

Biblioteca == Pone \/ Lleno \/ FinPutStr \/ FinFClose \/ Escribe \/ EscribeFalla
Lanzador == LeeHijo \/ FinHijo \/ FinishErr \/ FinishOut
Next ==
  \/ Biblioteca \/ Lanzador \/ Nueva \/ Corta \/ Usr1
  \/ EscribeErr \/ CierraAntes \/ \E s \in Flujos : FFlush(s)

\* The launcher runs, and the server reads or closes.
Spec == Init /\ [][Next]_vars /\ WF_vars(Biblioteca \/ Lanzador)

-----------------------------------------------------------------------------
(* Properties. *)

TipoCurso ==
  /\ peticion \in {"sirve", "finErr", "finOut", "mantenida", "cerrada"}
  /\ hijo \in 0..NSalida /\ peticiones \in Nat /\ senyales \in Nat
TipoMarcas ==
  /\ rawWrite \in [Flujos -> BOOLEAN] /\ isAnythingWritten \in [Flujos -> BOOLEAN]
  /\ FCGI_errno \in [Flujos -> BOOLEAN] /\ isClosed \in [Flujos -> BOOLEAN]
  /\ wasFCloseCalled \in [Flujos -> BOOLEAN]
  /\ keepConnection \in BOOLEAN /\ errorIn \in BOOLEAN /\ ultimo \in BOOLEAN
TipoLlamada ==
  /\ llamada \in {"no", "PutStr", "FFlush", "FClose"} /\ cual \in Flujos /\ nWriters \in 0..2
  /\ resto \in Seq(Unidad) /\ dado \in [Flujos -> Seq(Unidad)]
TipoBuffer ==
  /\ buf \in [Flujos -> Seq(Unidad)] /\ \A s \in Flujos : Len(Registro(s)) <= BuffLen
  /\ queda \in Seq(Unidad) /\ Len(queda) <= BuffLen
TipoServidor ==
  /\ cortado \in BOOLEAN /\ roto \in BOOLEAN /\ eof \in [Flujos -> BOOLEAN]
  /\ leyendo \in [de : Flujos \cup {"fin"}, n : 0..BuffLen]
  /\ recibido \in [Flujos -> Seq(Unidad)] /\ acabada \in Nat

\* Types; a buffer never holds more than its length, the header that
\* EmptyBuffProc will put in front included (fcgiapp.c:1394, AlignInt8).
TypeOK == TipoCurso /\ TipoMarcas /\ TipoLlamada /\ TipoBuffer /\ TipoServidor

\* As long as no write has failed, what the server has read is a sequence of
\* records that carries a prefix of what the application wrote on each stream,
\* however the writes were cut (EmptyBuffProc, write_it_all).
OrdenSinError ==
  (\A s \in Flujos : ~FCGI_errno[s]) =>
    ~roto /\ \A s \in Flujos : recibido[s] = SubSeq(dado[s], 1, Len(recibido[s]))

\* A connection is kept for another request only if the server has received
\* the whole of this one and stands between two records (FCGX_Finish_r).
MantieneEntera ==
  peticion = "mantenida" =>
    ~roto /\ leyendo.n = 0 /\ recibido = dado /\ eof["out"] /\ acabada = 1

\* Unit v may follow a NUL in its read.
TrasNulo(v) == \E w \in Nulos : w <= v /\ v - w < LeeLen

\* It may be in the line, or lines if none ends, that the first read blanks:
\* that of the first "Content-type: " that the output does not begin with.
EnTipo(v) ==
  /\ v <= LeeLen
  /\ \E t \in Tipos \ {1} :
       t <= v /\ (\A u \in Tipos \ {1} : t <= u) /\ \A w \in Lineas : w \notin t..(v - 1)

\* Of the output of a program that ended without SIGUSR1, piped_child hands to
\* the library all but what follows a NUL in the same read and what it blanks
\* of the first one for a second Content-type (start.c:498-524).
SalidaEntregada ==
  peticion = "finErr" /\ senyales = 0 /\ ~isClosed["out"] =>
    \A v \in Datos : \/ \E k \in 1..Len(dado["out"]) : dado["out"][k] = Dato("out", v)
                     \/ TrasNulo(v) \/ EnTipo(v)

\* FCGX_Finish_r ends, whatever fails: the launcher goes back to accept.
AcabaSiempre == peticion = "finErr" ~> peticion \in {"mantenida", "cerrada"}
=============================================================================
