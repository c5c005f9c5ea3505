---------------------------- MODULE FcgiEntrada ----------------------------
(***************************************************************************)
(* The input side of a launcher: FCGX_Accept_r with OS_Accept below it,    *)
(* and the stream that reads FastCGI records (FillBuffProc, ProcessHeader) *)
(* for ReadParams and for getIn of start.c.                                *)
(*                                                                         *)
(* A connection is a script of the web server: its records, and the byte   *)
(* at which it closes.  Bytes are positions in the connection, and a read  *)
(* returns any number of the bytes written so far that fit in the buffer,  *)
(* so that headers, contents and padding are cut anywhere.  The server     *)
(* writes without stopping, except after a record whose answer it waits    *)
(* for.  Bytes taken for a header that are not one have a wrong version.   *)
(* SIGUSR1 may come at any moment; its handler has no SA_RESTART.          *)
(***************************************************************************)
EXTENDS Integers, Sequences, FiniteSets

CONSTANTS
  Guiones,        \* the connections, a sequence of [regs: the records,
                  \* corte: the byte at which the server closes]
  MaxConexiones,  \* bound: connections accepted before the signal, and after
  MaxSenyales,    \* bound: SIGUSR1 received
  HeaderLen,      \* bytes of a header
  BeginLen,       \* bytes of the body of FCGI_BEGIN_REQUEST
  ParLen,         \* bytes of a name-value pair
  BuffLen         \* bytes of the buffer of the reader

Tipos == {"BEGIN", "PARAMS", "STDIN", "GET_VALUES", "OTRO", "ABORT"}

\* ini and fin: first byte of the record and of the next one; cont and pad:
\* lengths of content and padding; rol: the role is a known one; keep:
\* FCGI_KEEP_CONN; espera: the server writes no more before the answer.
Registro ==
  [tipo: Tipos, id: Nat, ini: Nat, cont: Nat, pad: Nat, fin: Nat,
   rol: BOOLEAN, keep: BOOLEAN, espera: BOOLEAN]

ASSUME FcgiEntradaAssumption ==
  /\ MaxConexiones \in Nat /\ MaxSenyales \in Nat
  /\ {HeaderLen, BeginLen, ParLen, BuffLen} \subseteq Nat \ {0}
  /\ Guiones \in Seq([regs: Seq(Registro), corte: Nat])
  /\ \A c \in DOMAIN Guiones : \A k \in DOMAIN Guiones[c].regs :
       LET r == Guiones[c].regs[k] IN r.fin = r.ini + HeaderLen + r.cont + r.pad
  /\ \A c \in DOMAIN Guiones : \A j, k \in DOMAIN Guiones[c].regs :   \* one after the other
       j < k => Guiones[c].regs[j].fin <= Guiones[c].regs[k].ini

VARIABLES
  pc,               \* acepta, ventana, accept, keeper: OS_Accept; llena: in
                    \* FillBuffProc; vuelve: back in who called it; sirve: the
                    \* input has been read; abandona: it will not be read to
                    \* its end; fuera: FCGI_Accept returned < 0
  socket,           \* OS_Accept's socket: no, vivo, cerrado (closed, kept)
  shutdownPending,
  senyales,         \* SIGUSR1 received
  conexiones,       \* connections accepted
  tras,             \* history: of them, after shutdownPending
  con,              \* the connection: its place in Guiones
  resp,             \* records of it that have been answered
  type,             \* data->type: BEGIN stands for 0
  marco,            \* what ProcessHeader reads inside a record (eorStop):
                    \* no, cuerpo (of BEGIN) or valores (of GET_VALUES)
  act,              \* the record of the last header
  headerLen,        \* bytes of the next header already taken
  contentLen, paddingLen, skip,
  rdNext, stop, buffStop,   \* as positions in the connection
  isClosed,
  error,            \* FCGI_errno # 0
  leidos,           \* bytes ProcessHeader has read inside the record
  requestId, isBeginProcessed, keepConnection,
  inicio,           \* history: the record that began the request
  params, entrada   \* bytes handed to ReadParams and to the application

aceptacion == <<socket, shutdownPending, senyales, conexiones, tras>>
peticion == <<requestId, isBeginProcessed, keepConnection, inicio>>
registro == <<marco, act, headerLen, contentLen, paddingLen, skip, leidos>>
buffer == <<rdNext, stop, buffStop>>
entregado == <<params, entrada>>
vars == <<pc, aceptacion, con, resp, type, registro, buffer, isClosed, error, peticion, entregado>>

Menor(a, b) == IF a < b THEN a ELSE b
Regs == Guiones[con].regs
Corte == Guiones[con].corte
Indices == DOMAIN Regs

\* What the server has written: all, up to the first record it waits at.
Esperados == {k \in Indices : Regs[k].espera /\ k \notin resp}
Escrito ==
  IF \A k \in Esperados : Corte <= Regs[k].fin THEN Corte
  ELSE LET k == CHOOSE k \in Esperados : \A j \in Esperados : k <= j IN Regs[k].fin

\* The record whose header starts at byte b, 0 if none does.
RegistroEn(b) ==
  IF \E k \in Indices : Regs[k].ini = b
    THEN CHOOSE k \in Indices : Regs[k].ini = b ELSE 0

\* NewReader at byte b: an empty buffer; what the last one still held is gone.
NewReader(b) ==
  /\ rdNext' = b /\ stop' = b /\ buffStop' = b
  /\ type' = "BEGIN" /\ marco' = "no" /\ act' = 0 /\ leidos' = 0
  /\ headerLen' = 0 /\ contentLen' = 0 /\ paddingLen' = 0 /\ skip' = FALSE
  /\ isClosed' = FALSE /\ error' = FALSE
  /\ params' = {} /\ entrada' = {}

Init ==
  /\ pc = "acepta"
  /\ socket = "no" /\ shutdownPending = FALSE /\ senyales = 0
  /\ conexiones = 0 /\ tras = 0
  /\ con \in DOMAIN Guiones /\ resp = {}
  /\ type = "BEGIN" /\ marco = "no" /\ act = 0 /\ leidos = 0
  /\ headerLen = 0 /\ contentLen = 0 /\ paddingLen = 0 /\ skip = FALSE
  /\ rdNext = 0 /\ stop = 0 /\ buffStop = 0
  /\ isClosed = FALSE /\ error = FALSE
  /\ requestId = 0 /\ isBeginProcessed = FALSE /\ keepConnection = FALSE /\ inicio = 0
  /\ params = {} /\ entrada = {}

-----------------------------------------------------------------------------
(* OS_Accept (without USE_LOCKING, as the library is built). *)
Lector == <<con, resp, type, registro, buffer, isClosed, error, peticion, entregado>>

\* Mutant: it is not looked at.
MiraSinAviso ==
  /\ pc = "acepta" /\ pc' = "ventana"
  /\ UNCHANGED <<aceptacion, Lector>>

\* The look at shutdownPending.  Without a socket OS_Accept returns -1; with
\* the one of a connection it has closed it goes on as if it were new.
MiraAviso ==
  /\ pc = "acepta"
  /\ pc' = IF ~shutdownPending THEN "ventana"
           ELSE IF socket = "no" THEN "fuera" ELSE "keeper"
  /\ UNCHANGED <<aceptacion, Lector>>

\* "There's a window here."
EntraAccept ==
  /\ pc = "ventana" /\ pc' = "accept"
  /\ UNCHANGED <<aceptacion, Lector>>

\* accept returns a connection.
Accept ==
  /\ pc = "accept" /\ pc' = "keeper"
  /\ (IF shutdownPending THEN tras ELSE conexiones) < MaxConexiones
  /\ conexiones' = conexiones + 1
  /\ socket' = "vivo"
  /\ tras' = tras + (IF shutdownPending THEN 1 ELSE 0)
  /\ UNCHANGED <<shutdownPending, senyales, Lector>>

\* accept fails: an errno that is_reasonable_accept_errno knows, or another.
AcceptFalla ==
  /\ pc = "accept" /\ pc' \in {"fuera"} \cup (IF shutdownPending THEN {} ELSE {"acepta"})
  /\ socket' = "no"
  /\ UNCHANGED <<shutdownPending, senyales, conexiones, tras, Lector>>

\* The client is good: is_af_unix_keeper sees something to read, or
\* ClientAddrOK accepts the address.  A request is read from the first byte.
Keeper ==
  /\ pc = "keeper" /\ socket = "vivo"
  /\ pc' = "llena"
  /\ con' \in DOMAIN Guiones /\ resp' = {}
  /\ isBeginProcessed' = FALSE
  /\ NewReader(0)
  /\ UNCHANGED <<aceptacion, requestId, keepConnection, inicio>>

\* It is not (nothing to read for two seconds, or an address not allowed): the
\* socket is closed, and its number kept.  On a closed one select fails.
Descarta ==
  /\ pc = "keeper" /\ pc' = "acepta"
  /\ socket' = "cerrado"
  /\ UNCHANGED <<shutdownPending, senyales, conexiones, tras, Lector>>

-----------------------------------------------------------------------------
(* FillBuffProc, an iteration at a time. *)
Llena == pc = "llena"

\* SetError, and back to the caller.
Falla ==
  /\ error' = TRUE /\ isClosed' = TRUE
  /\ pc' = "vuelve"

\* OS_Read with an empty buffer.
Lee ==
  /\ Llena /\ rdNext = buffStop /\ buffStop < Escrito
  /\ \E n \in 1..Menor(BuffLen, Escrito - buffStop) : buffStop' = buffStop + n
  /\ UNCHANGED <<pc, aceptacion, con, resp, type, registro, rdNext, stop, isClosed, error, peticion,
                 entregado>>

\* Mutant: the end of the connection is taken for the end of the stream.
LeeFinSinError ==
  /\ Llena /\ rdNext = buffStop /\ buffStop >= Corte
  /\ isClosed' = TRUE /\ pc' = "vuelve"
  /\ UNCHANGED <<aceptacion, con, resp, type, registro, buffer, error, peticion, entregado>>

\* The server has closed.
LeeFin ==
  /\ Llena /\ rdNext = buffStop /\ buffStop >= Corte
  /\ Falla
  /\ UNCHANGED <<aceptacion, con, resp, type, registro, buffer, peticion, entregado>>

\* Content is delivered as far as it is in the buffer.
Entrega ==
  /\ Llena /\ rdNext < buffStop /\ contentLen > 0 /\ ~skip
  /\ LET n == Menor(contentLen, buffStop - rdNext)
     IN  contentLen' = contentLen - n /\ stop' = rdNext + n
  /\ pc' = "vuelve"
  /\ UNCHANGED <<aceptacion, con, resp, type, marco, act, headerLen, paddingLen, skip, leidos, rdNext,
                 buffStop, isClosed, error, peticion, entregado>>

\* At the end of the record ProcessHeader is reading: EOF for it.
FinDeRegistro(r) ==
  /\ stop' = r
  /\ isClosed' = TRUE /\ pc' = "vuelve"

\* After n bytes skipped: without padding, the same.
FinDeSalto(n) ==
  IF contentLen = n /\ paddingLen = 0 /\ marco # "no"
    THEN FinDeRegistro(rdNext + n)
    ELSE UNCHANGED <<pc, stop, isClosed>>

\* Mutant: skip is cleared although content is left.
SaltaPoco ==
  /\ Llena /\ rdNext < buffStop /\ contentLen > 0 /\ skip
  /\ LET n == Menor(contentLen, buffStop - rdNext)
     IN  /\ contentLen' = contentLen - n /\ rdNext' = rdNext + n
         /\ FinDeSalto(n)
  /\ skip' = FALSE
  /\ UNCHANGED <<aceptacion, con, resp, type, marco, act, headerLen, paddingLen, leidos, buffStop, error,
                 peticion, entregado>>

\* Content of a record that is not ours.
Salta ==
  /\ Llena /\ rdNext < buffStop /\ contentLen > 0 /\ skip
  /\ LET n == Menor(contentLen, buffStop - rdNext)
     IN  /\ contentLen' = contentLen - n /\ rdNext' = rdNext + n
         /\ skip' = (contentLen > n)
         /\ FinDeSalto(n)
  /\ UNCHANGED <<aceptacion, con, resp, type, marco, act, headerLen, paddingLen, leidos, buffStop, error,
                 peticion, entregado>>

\* Padding; at its end, the end of the record without another look at the
\* buffer.
Relleno ==
  /\ Llena /\ rdNext < buffStop /\ contentLen = 0 /\ paddingLen > 0
  /\ LET n == Menor(paddingLen, buffStop - rdNext)
     IN  /\ paddingLen' = paddingLen - n /\ rdNext' = rdNext + n
         /\ IF paddingLen = n /\ marco # "no"
              THEN FinDeRegistro(rdNext + n)
              ELSE UNCHANGED <<pc, stop, isClosed>>
  /\ UNCHANGED <<aceptacion, con, resp, type, marco, act, headerLen, contentLen, skip, leidos, buffStop,
                 error, peticion, entregado>>

FinSinRelleno ==
  /\ Llena /\ rdNext < buffStop /\ contentLen = 0 /\ paddingLen = 0
  /\ marco # "no"
  /\ FinDeRegistro(rdNext)
  /\ UNCHANGED <<aceptacion, con, resp, type, registro, rdNext, buffStop, error, peticion, entregado>>

\* The next header, as far as it is in the buffer.
EnCabecera ==
  /\ Llena /\ rdNext < buffStop /\ contentLen = 0 /\ paddingLen = 0 /\ marco = "no"

CabeceraParte ==
  /\ EnCabecera /\ headerLen + (buffStop - rdNext) < HeaderLen
  /\ headerLen' = headerLen + (buffStop - rdNext)
  /\ rdNext' = buffStop
  /\ UNCHANGED <<pc, aceptacion, con, resp, type, marco, act, contentLen, paddingLen, skip, leidos, stop,
                 buffStop, isClosed, error, peticion, entregado>>

\* ProcessHeader, with the eight bytes of the header.
FinCabecera == rdNext + HeaderLen - headerLen
Cabecera ==
  /\ EnCabecera /\ FinCabecera <= buffStop
  /\ headerLen' = 0 /\ rdNext' = FinCabecera /\ stop' = FinCabecera
  /\ UNCHANGED <<aceptacion, con, type, buffStop, isBeginProcessed, keepConnection, inicio, entregado>>

\* Version, identifier, content and padding.
CabeceraMala ==
  /\ Cabecera /\ RegistroEn(FinCabecera - HeaderLen) = 0
  /\ Falla
  /\ UNCHANGED <<resp, marco, act, contentLen, paddingLen, skip, leidos, requestId>>

CabeceraDe(k) ==
  /\ Cabecera /\ k = RegistroEn(FinCabecera - HeaderLen)
  /\ act' = k /\ contentLen' = Regs[k].cont /\ paddingLen' = Regs[k].pad

Sigue == UNCHANGED <<pc, isClosed, error>>

\* An answer, written with write_it_all; the write may fail once the server
\* has closed.
Responde(k) == resp' = resp \cup {k} /\ Sigue
NoResponde == Escrito = Corte /\ Falla /\ UNCHANGED resp

BeginMal(k) ==
  /\ CabeceraDe(k) /\ Regs[k].tipo = "BEGIN"
  /\ Regs[k].id = 0 \/ Regs[k].cont # BeginLen
  /\ Falla
  /\ UNCHANGED <<resp, marco, skip, leidos, requestId>>

BeginBien(k) ==
  /\ CabeceraDe(k) /\ Regs[k].tipo = "BEGIN"
  /\ Regs[k].id # 0 /\ Regs[k].cont = BeginLen

\* FCGI_CANT_MPX_CONN.
BeginOtro(k) ==
  /\ BeginBien(k) /\ isBeginProcessed
  /\ \/ Responde(k) /\ skip' = TRUE
     \/ NoResponde /\ UNCHANGED skip
  /\ UNCHANGED <<marco, leidos, requestId>>

BeginNuevo(k) ==
  /\ BeginBien(k) /\ ~isBeginProcessed
  /\ requestId' = Regs[k].id /\ marco' = "cuerpo" /\ leidos' = 0
  /\ Sigue /\ UNCHANGED <<resp, skip>>

GetValues(k) ==
  /\ CabeceraDe(k) /\ Regs[k].tipo = "GET_VALUES" /\ Regs[k].id = 0
  /\ marco' = "valores" /\ leidos' = 0
  /\ Sigue /\ UNCHANGED <<resp, skip, requestId>>

\* FCGI_UNKNOWN_TYPE; the content of the record is not skipped.
Desconocido(k) ==
  /\ CabeceraDe(k) /\ Regs[k].tipo \notin {"BEGIN", "GET_VALUES"} /\ Regs[k].id = 0
  /\ Responde(k) \/ NoResponde
  /\ UNCHANGED <<marco, skip, leidos, requestId>>

DeFlujo(k) == CabeceraDe(k) /\ Regs[k].tipo # "BEGIN" /\ Regs[k].id # 0

\* Of a request that is not the current one.
Ajeno(k) ==
  /\ DeFlujo(k) /\ Regs[k].id # requestId
  /\ skip' = TRUE
  /\ Sigue /\ UNCHANGED <<resp, marco, leidos, requestId>>

Inesperado(k) ==
  /\ DeFlujo(k) /\ Regs[k].id = requestId /\ Regs[k].tipo # type
  /\ Falla
  /\ UNCHANGED <<resp, marco, skip, leidos, requestId>>

\* Mutant: an empty record does not end the stream.
FlujoSinFin(k) ==
  /\ DeFlujo(k) /\ Regs[k].id = requestId /\ Regs[k].tipo = type
  /\ Sigue /\ UNCHANGED <<resp, marco, skip, leidos, requestId>>

\* STREAM_RECORD: content to deliver, or the end of the stream.
Flujo(k) ==
  /\ DeFlujo(k) /\ Regs[k].id = requestId /\ Regs[k].tipo = type
  /\ IF Regs[k].cont = 0 THEN isClosed' = TRUE /\ pc' = "vuelve" ELSE UNCHANGED <<isClosed, pc>>
  /\ UNCHANGED <<resp, marco, skip, leidos, requestId, error>>

ProcessHeader ==
  \E k \in Indices :
    \/ BeginMal(k) \/ BeginOtro(k) \/ BeginNuevo(k) \/ GetValues(k) \/ Desconocido(k)
    \/ Ajeno(k) \/ Inesperado(k) \/ Flujo(k)

-----------------------------------------------------------------------------
(* Those who called FillBuffProc. *)
Vuelve == pc = "vuelve"
Trozo == rdNext..(stop - 1)

\* FCGX_Free(reqDataPtr, 1): the connection is closed and its reader freed.
TryAgain ==
  /\ pc' = "acepta" /\ socket' = "no"
  /\ resp' = {} /\ NewReader(0)
  /\ UNCHANGED <<shutdownPending, senyales, conexiones, tras, con>>

\* SetReaderType drops what is left of the record, the padding included.
SetReaderType(t) ==
  /\ type' = t
  /\ contentLen' = 0 /\ paddingLen' = 0 /\ skip' = FALSE
  /\ stop' = rdNext /\ isClosed' = FALSE

\* FCGX_GetStr and FCGX_GetChar take what has been delivered.
Consume ==
  /\ Vuelve /\ ~isClosed /\ rdNext < stop /\ (marco = "no" => type # "BEGIN")
  /\ rdNext' = stop
  /\ leidos' = leidos + (IF marco = "no" THEN 0 ELSE stop - rdNext)
  /\ params' = params \cup (IF marco = "no" /\ type = "PARAMS" THEN Trozo ELSE {})
  /\ entrada' = entrada \cup (IF marco = "no" /\ type = "STDIN" THEN Trozo ELSE {})
  /\ pc' = IF marco = "cuerpo" /\ leidos' = BeginLen THEN "vuelve" ELSE "llena"
  /\ UNCHANGED <<aceptacion, con, resp, type, marco, act, headerLen, contentLen, paddingLen, skip, stop,
                 buffStop, isClosed, error, peticion>>

\* BEGIN_RECORD, and the role in FCGX_Accept_r.
Begin ==
  /\ Vuelve /\ marco = "cuerpo" /\ ~isClosed /\ leidos = BeginLen
  /\ isBeginProcessed' = TRUE /\ keepConnection' = Regs[act].keep /\ inicio' = act
  /\ UNCHANGED requestId

Empieza ==
  /\ Begin /\ Regs[act].rol
  /\ marco' = "no" /\ SetReaderType("PARAMS") /\ pc' = "llena"
  /\ UNCHANGED <<aceptacion, con, resp, act, headerLen, leidos, rdNext, buffStop, error, entregado>>

RolDesconocido ==
  /\ Begin /\ ~Regs[act].rol
  /\ TryAgain

\* The body ends early: FCGX_PROTOCOL_ERROR and, with no request begun,
\* another connection.
CuerpoCorto ==
  /\ Vuelve /\ marco = "cuerpo" /\ isClosed
  /\ TryAgain /\ UNCHANGED peticion

\* The end of FCGI_GET_VALUES: FCGI_GET_VALUES_RESULT, or an error.
Valores ==
  /\ Vuelve /\ marco = "valores" /\ isClosed
  /\ marco' = "no"
  /\ \/ /\ leidos % ParLen = 0 /\ ~error /\ contentLen = 0
        /\ resp' = resp \cup {act}
        /\ isClosed' = FALSE /\ pc' = "llena" /\ UNCHANGED error
     \/ /\ leidos % ParLen # 0 \/ error \/ contentLen # 0 \/ Escrito = Corte
        /\ error' = TRUE /\ UNCHANGED <<resp, isClosed, pc>>
  /\ UNCHANGED <<aceptacion, con, type, act, headerLen, contentLen, paddingLen, skip, leidos, buffer,
                 peticion, entregado>>

\* No request has begun.
SinPeticion ==
  /\ Vuelve /\ marco = "no" /\ type = "BEGIN"
  /\ TryAgain /\ UNCHANGED peticion

\* ReadParams sees the end of the stream, or an error.  Between two pairs both
\* end the environment; start.c reads the input or, refusing the request, does
\* not.
EntrePares == Cardinality(params) % ParLen = 0
FinParams ==
  /\ Vuelve /\ marco = "no" /\ type = "PARAMS" /\ isClosed /\ EntrePares
  /\ SetReaderType("STDIN") /\ pc' \in {"llena", "abandona"}
  /\ UNCHANGED <<aceptacion, con, resp, marco, act, headerLen, leidos, rdNext, buffStop, error, peticion,
                 entregado>>

\* Inside a pair: FCGX_PARAMS_ERROR, and another connection.
ParamsCortados ==
  /\ Vuelve /\ marco = "no" /\ type = "PARAMS" /\ isClosed /\ ~EntrePares
  /\ TryAgain /\ UNCHANGED peticion

\* getIn reads to the end, whatever ended it, or has no memory to go on.
FinEntrada ==
  /\ Vuelve /\ marco = "no" /\ type = "STDIN"
  /\ pc' \in {"abandona"} \cup (IF isClosed THEN {"sirve"} ELSE {})
  /\ UNCHANGED <<aceptacion, Lector>>

-----------------------------------------------------------------------------
(* FCGX_Finish_r. *)
Servida == pc \in {"sirve", "abandona"}

\* The connection is closed.  OS_Close first reads what the server still sends,
\* until it closes or is silent for two seconds: nothing of it is kept.
Cierra ==
  /\ Servida
  /\ ~keepConnection \/ error \/ Escrito = Corte
  /\ TryAgain /\ UNCHANGED peticion

\* The connection is kept: FCGX_Accept_r reads from it without a look at
\* shutdownPending.
Mantiene ==
  /\ Servida /\ keepConnection /\ ~error
  /\ pc' = "llena" /\ isBeginProcessed' = FALSE
  /\ resp' = resp \cup {k \in Esperados : Regs[k].tipo = "STDIN" /\ \A j \in Esperados : k <= j}
  /\ NewReader(buffStop)
  /\ UNCHANGED <<aceptacion, con, requestId, keepConnection, inicio>>

\* SIGUSR1: the flag, and EINTR for accept, select and read.
Usr1 ==
  /\ senyales < MaxSenyales /\ senyales' = senyales + 1
  /\ shutdownPending' = TRUE
  /\ \/ pc # "accept" /\ UNCHANGED <<pc, socket, isClosed, error>>
     \/ pc = "accept" /\ pc' = "fuera" /\ socket' = "no" /\ UNCHANGED <<isClosed, error>>
     \/ pc = "keeper" /\ pc' = "acepta" /\ socket' = "cerrado" /\ UNCHANGED <<isClosed, error>>
     \/ Llena /\ rdNext = buffStop /\ Falla /\ UNCHANGED socket
  /\ UNCHANGED <<conexiones, tras, con, resp, type, registro, buffer, peticion, entregado>>

OS_Accept == MiraAviso \/ EntraAccept \/ Accept \/ Keeper \/ Descarta
FillBuffProc ==
  \/ Lee \/ LeeFin \/ Entrega \/ Salta \/ Relleno \/ FinSinRelleno
  \/ CabeceraParte \/ CabeceraMala \/ ProcessHeader
Llamadores ==
  \/ Consume \/ Empieza \/ RolDesconocido \/ CuerpoCorto \/ Valores \/ SinPeticion
  \/ FinParams \/ ParamsCortados \/ FinEntrada
Finish == Cierra \/ Mantiene

Biblioteca == OS_Accept \/ FillBuffProc \/ Llamadores \/ Finish
Next == Biblioteca \/ AcceptFalla \/ Usr1

\* The launcher runs, and the web server goes on connecting; accept need not
\* fail.
Spec == Init /\ [][Next]_vars /\ WF_vars(Biblioteca)
-----------------------------------------------------------------------------
(* Properties. *)

\* What the server sent of stream t: the contents of the records of the
\* request up to the first empty one.
DePeticion(t) == {k \in Indices : k > inicio /\ Regs[k].tipo = t /\ Regs[k].id = requestId}
Contenido(k) == (Regs[k].ini + HeaderLen)..(Regs[k].ini + HeaderLen + Regs[k].cont - 1)
Enviado(t) ==
  UNION {Contenido(k) : k \in {k \in DePeticion(t) :
                                  \A j \in DePeticion(t) : j < k => Regs[j].cont > 0}}

\* Connections without the records that libfcgi misreads: padding after a
\* BEGIN or an empty record, an empty record of another request (skip stays
\* set), content after an unknown management record.
Limpio ==
  \A k \in Indices :
    /\ Regs[k].cont = 0 => Regs[k].pad = 0 /\ Regs[k].id \in {0, requestId}
    /\ Regs[k].tipo = "BEGIN" => Regs[k].pad = 0
    /\ Regs[k].id = 0 /\ Regs[k].tipo \notin {"BEGIN", "GET_VALUES"} => Regs[k].cont = 0

\* What has been answered is a record; what has been delivered has been read.
Entregado == resp \subseteq Nat /\ params \subseteq 0..buffStop /\ entrada \subseteq 0..buffStop

\* Types, and the pointers of the reader never past what has been read, wherever
\* FillBuffProc stops.
TypeOK ==
  /\ pc \in {"acepta", "ventana", "accept", "keeper", "llena", "vuelve", "sirve", "abandona", "fuera"}
  /\ socket \in {"no", "vivo", "cerrado"} /\ shutdownPending \in BOOLEAN
  /\ senyales \in Nat /\ conexiones \in Nat /\ tras \in Nat
  /\ con \in DOMAIN Guiones /\ act \in Nat
  /\ type \in {"BEGIN", "PARAMS", "STDIN"} /\ marco \in {"no", "cuerpo", "valores"}
  /\ headerLen \in 0..(HeaderLen - 1) /\ contentLen \in Nat /\ paddingLen \in Nat /\ leidos \in Nat
  /\ skip \in BOOLEAN /\ isClosed \in BOOLEAN /\ error \in BOOLEAN
  /\ isBeginProcessed \in BOOLEAN /\ keepConnection \in BOOLEAN
  /\ requestId \in Nat /\ inicio \in Nat
  /\ rdNext \in 0..buffStop /\ stop \in 0..buffStop /\ buffStop \in Nat
  /\ Entregado

\* However the connection is cut into reads, and whatever other records come
\* between, ReadParams and getIn have been handed exactly the bytes of their
\* streams up to the place of the reader (FillBuffProc: contentLen, skip and
\* paddingLen carried from one read to the next).
EntregaExacta ==
  pc \in {"llena", "vuelve", "sirve", "abandona"} /\ isBeginProcessed /\ ~error /\ Limpio =>
    /\ params = {p \in Enviado("PARAMS") : p < rdNext}
    /\ entrada = {p \in Enviado("STDIN") : p < rdNext}

\* A request that start.c goes on to serve has all its parameters and all its
\* input, or the error of the stream is set.  (start.c looks at neither:
\* FCGI_fgets returns NULL at the end and at an error.)
CompletaOError ==
  pc = "sirve" /\ ~error /\ Limpio =>
    params = Enviado("PARAMS") /\ entrada = Enviado("STDIN")

\* A read that nothing will answer: the server waits for an answer too.
EsperaServidor ==
  Llena /\ rdNext = buffStop /\ buffStop = Escrito /\ buffStop < Corte

\* The launcher waits for a server that waits for it only at FCGI_GET_VALUES
\* (at its end FillBuffProc reads before it looks at eorStop, and a SIGUSR1 in
\* that read leaves it unanswered while the launcher goes on), or after a
\* request on a kept connection whose buffer held the awaited record: NewReader
\* threw it away, and no header has been read since (act = 0).  So for a server
\* that waits at management records, at the end of its input and, on a
\* connection that is not kept, at a second BEGIN.
SoloEsperaValores ==
  EsperaServidor /\ act # 0 =>
    \A k \in Esperados : Regs[k].fin = Escrito => Regs[k].tipo = "GET_VALUES"

\* After SIGUSR1 at most one connection more is accepted: the one that finds
\* OS_Accept between its look at shutdownPending and accept.
AceptaUnaMas == tras <= 1

\* OS_Accept turns around a socket it has closed (see MiraAviso).
Gira == pc = "acepta" /\ shutdownPending /\ socket = "cerrado"

\* After SIGUSR1 FCGI_Accept returns < 0, once the request at hand and the
\* requests of a kept connection are over; or OS_Accept spins, or the server
\* never answers.
AvisoTermina == shutdownPending ~> (pc = "fuera" \/ Gira \/ EsperaServidor)
=============================================================================
