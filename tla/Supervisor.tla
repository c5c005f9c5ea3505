----------------------------- MODULE Supervisor -----------------------------
(***************************************************************************)
(* The event loop of the supervisor: SocketsEventLoop, ExecuteAction,      *)
(* RegisterSocket, UnRegisterSocket, propagaRefresco and the two signal    *)
(* handlers, with the clients that connect to it.                          *)
(*                                                                         *)
(* The loop sweeps the shared tables (ApiShm) and writes the snapshots     *)
(* (Contadores), which here are the step Revisa.  It asks select which of  *)
(* its sockets have something to read, walks the table of sockets from the *)
(* last one to the first, accepts a client or attends one request, and     *)
(* starts again.  Everything blocks: accept, recv and the long answers.    *)
(*                                                                         *)
(* Signals are those of the C library of Linux: signal() restarts recv and *)
(* accept after the handler, never select, and holds a signal back while   *)
(* its own handler runs.  A request is one of the five the code tells      *)
(* apart.  recv that returns 0 is taken for a message, whose text is then  *)
(* whatever malloc returned: any request.                                  *)
(***************************************************************************)
EXTENDS Integers, Sequences

CONSTANTS
  MAX_OPENED_SOCKETS,   \* size of the table of sockets
  Ajenos,               \* descriptors used by other open files
  Escucha,              \* descriptor of the listening socket
  Clientes,             \* clients, each of which connects once
  Nadie,                \* no client
  MaxSenyales           \* bound on the signals sent to the supervisor

Indices == 0..(MAX_OPENED_SOCKETS - 1)

ASSUME SupervisorAssumption ==
  /\ MAX_OPENED_SOCKETS \in Nat
  /\ Escucha \in Indices
  /\ Ajenos \subseteq Nat \ {Escucha}
  /\ Nadie \notin Clientes
  /\ MaxSenyales \in Nat

VARIABLES
  accion,      \* sockets[].opened and sockets[].action
  enlace,      \* the client at the other end of each socket
  highest,     \* highest_sd
  readmask,    \* readmask of select
  i,           \* index of the walk, the socket being attended
  pc,          \* where the loop is
  peticion,    \* the request being attended
  flagrefresco,
  supHistorico,
  cola,        \* connections that wait for accept
  cli,         \* what each client has done
  senyales,    \* signals sent (bounded by MaxSenyales)
  pedido,      \* history: a SIGUSR2 no propagation has followed yet
  tarde,       \* history: a SIGUSR2 came between propagaRefresco and flagrefresco=0
  interrumpido \* history: the last select was interrupted by a signal

sockVars == <<accion, enlace, highest>>
refresco == <<flagrefresco, pedido, tarde>>
vars == <<sockVars, readmask, i, pc, peticion, refresco, supHistorico, cola,
          cli, senyales, interrumpido>>

Peticiones == {"historico", "online", "reload", "resetFecha", "otra"}
Acciones == {"no", "ACCEPT_CALL", "ATTEND_CLIENT"}

Init ==
  /\ accion = [s \in Indices |-> IF s = Escucha THEN "ACCEPT_CALL" ELSE "no"]
  /\ enlace = [s \in Indices |-> Nadie]
  /\ highest = Escucha
  /\ readmask = {}
  /\ i = -1
  /\ pc = "revisa"
  /\ peticion = "otra"
  /\ flagrefresco = FALSE /\ pedido = FALSE /\ tarde = FALSE
  /\ supHistorico \in BOOLEAN
  /\ cola = <<>>
  /\ cli = [c \in Clientes |-> "fuera"]
  /\ senyales = 0
  /\ interrumpido = FALSE

Abierto(s) == accion[s] # "no"
Abiertos == {s \in Indices : Abierto(s)}

\* recv returns at once on the socket of a client that has written or gone.
PorLeer(c) == c # Nadie /\ cli[c] \in {"pedida", "cerrada", "rota"}
Listo(s) == IF s = Escucha THEN cola # <<>> ELSE PorLeer(enlace[s])

-----------------------------------------------------------------------------
(* The loop. *)
\* Mutant: flagrefresco is cleared at every turn.
RevisaBaja ==
  /\ pc = "revisa"
  /\ readmask' = Abiertos
  /\ flagrefresco' = FALSE
  /\ pc' = "select"
  /\ UNCHANGED <<sockVars, i, peticion, pedido, tarde, supHistorico, cola, cli,
                 senyales, interrumpido>>

\* checkSHM and WriteStatSnapshot have run; the mask is made.
Revisa ==
  /\ pc = "revisa"
  /\ readmask' = Abiertos
  /\ pc' = "select"
  /\ UNCHANGED <<sockVars, i, peticion, refresco, supHistorico, cola, cli,
                 senyales, interrumpido>>

\* Mutant: select(highest_sd, ...) without the + 1.
SelectSinUno ==
  /\ pc = "select"
  /\ readmask' = {s \in readmask : s < highest /\ Listo(s)}
  /\ interrumpido' = FALSE
  /\ i' = MAX_OPENED_SOCKETS - 1
  /\ pc' = IF flagrefresco THEN "propaga" ELSE "recorre"
  /\ UNCHANGED <<sockVars, peticion, refresco, supHistorico, cola, cli, senyales>>

\* The time of select is not set again after it has run out once, so that
\* select may return at any moment.
Select ==
  /\ pc = "select"
  /\ readmask' = {s \in readmask : s <= highest /\ Listo(s)}
  /\ interrumpido' = FALSE
  /\ i' = MAX_OPENED_SOCKETS - 1
  /\ pc' = IF flagrefresco THEN "propaga" ELSE "recorre"
  /\ UNCHANGED <<sockVars, peticion, refresco, supHistorico, cola, cli, senyales>>

\* propagaRefresco: a signal to every launcher, and the files read again.  The
\* loop over them is one step, that of its first signal: a SIGUSR2 that comes
\* later in it is late for some launcher, and counts as "tarde".
Propaga ==
  /\ pc \in {"propaga", "recarga"}
  /\ pedido' = FALSE
  /\ pc' = IF pc = "propaga" THEN "baja" ELSE "baja_recarga"
  /\ UNCHANGED <<sockVars, readmask, i, peticion, flagrefresco, tarde,
                 supHistorico, cola, cli, senyales, interrumpido>>

\* flagrefresco=0
BajaFlag ==
  /\ pc \in {"baja", "baja_recarga"}
  /\ flagrefresco' = FALSE
  /\ pc' = IF pc = "baja" THEN "recorre" ELSE "responde"
  /\ UNCHANGED <<sockVars, readmask, i, peticion, pedido, tarde, supHistorico,
                 cola, cli, senyales, interrumpido>>

Marcados == {s \in readmask : Abierto(s) /\ s <= i}

\* The next socket of the walk that is open and marked.
Recorre ==
  /\ pc = "recorre"
  /\ \E s \in Marcados :
       /\ \A t \in Marcados : t <= s
       /\ i' = s
       /\ pc' = IF accion[s] = "ACCEPT_CALL" THEN "acepta" ELSE "recibe"
  /\ UNCHANGED <<sockVars, readmask, peticion, refresco, supHistorico, cola, cli,
                 senyales, interrumpido>>

\* The mask is dead until it is made again.
RecorreFin ==
  /\ pc = "recorre" /\ Marcados = {}
  /\ pc' = "revisa"
  /\ readmask' = {} /\ interrumpido' = FALSE
  /\ UNCHANGED <<sockVars, i, peticion, refresco, supHistorico, cola, cli, senyales>>

-----------------------------------------------------------------------------
(* ExecuteAction: a client is accepted. *)
\* The kernel gives the lowest descriptor nobody uses.
EsNuevo(n) ==
  /\ n \notin Ajenos \cup Abiertos
  /\ \A m \in 0..(n - 1) : m \in Ajenos \cup Abiertos

\* Mutant: the new socket is marked, and attended in the same walk.
AceptaMarcado(n) ==
  /\ pc = "acepta" /\ cola # <<>> /\ EsNuevo(n)
  /\ accion' = [accion EXCEPT ![n] = "ATTEND_CLIENT"]
  /\ enlace' = [enlace EXCEPT ![n] = Head(cola)]
  /\ highest' = IF n > highest THEN n ELSE highest
  /\ readmask' = readmask \cup {n}
  /\ i' = MAX_OPENED_SOCKETS - 1
  /\ cola' = Tail(cola)
  /\ pc' = "recorre"
  /\ UNCHANGED <<peticion, refresco, supHistorico, cli, senyales, interrumpido>>

\* TCPServerAcceptCall and RegisterSocket.
Acepta(n) ==
  /\ pc = "acepta" /\ cola # <<>> /\ EsNuevo(n)
  /\ accion' = [accion EXCEPT ![n] = "ATTEND_CLIENT"]
  /\ enlace' = [enlace EXCEPT ![n] = Head(cola)]
  /\ highest' = IF n > highest THEN n ELSE highest
  /\ cola' = Tail(cola)
  /\ i' = i - 1
  /\ pc' = "recorre"
  /\ UNCHANGED <<readmask, peticion, refresco, supHistorico, cli, senyales,
                 interrumpido>>

\* RegisterSocket does not look at the size of the table.  What a write past
\* it does is not modelled: the run of the supervisor ends here.
AceptaFuera ==
  /\ pc = "acepta" /\ cola # <<>>
  /\ Indices \subseteq Ajenos \cup Abiertos
  /\ pc' = "desborda"
  /\ UNCHANGED <<sockVars, readmask, i, peticion, refresco, supHistorico, cola,
                 cli, senyales, interrumpido>>

\* accept returns -1: EXEC_CANT_ACCEPT.
AceptaFalla ==
  /\ pc = "acepta" /\ cola # <<>>
  /\ pc' = "fin"
  /\ UNCHANGED <<sockVars, readmask, i, peticion, refresco, supHistorico, cola,
                 cli, senyales, interrumpido>>

-----------------------------------------------------------------------------
(* ExecuteAction: a client is attended. *)
Atendido == enlace[i]

\* recv fails if the connection was reset.  A client that has closed sends 0
\* bytes, which are TCP_OK.
TCPReciveMsg(c) == IF cli[c] = "rota" THEN "TCP_ERROR" ELSE "TCP_OK"

Recibe ==
  /\ pc = "recibe" /\ PorLeer(Atendido) /\ TCPReciveMsg(Atendido) = "TCP_OK"
  /\ peticion' \in Peticiones
  /\ cli' = [cli EXCEPT ![Atendido] = IF @ = "pedida" THEN "leida" ELSE @]
  /\ pc' = "sirve"
  /\ UNCHANGED <<sockVars, readmask, i, refresco, supHistorico, cola, senyales,
                 interrumpido>>

\* EXEC_CANT_RECIVE ends the supervisor.
RecibeFalla ==
  /\ pc = "recibe" /\ PorLeer(Atendido) /\ TCPReciveMsg(Atendido) = "TCP_ERROR"
  /\ pc' = "fin"
  /\ UNCHANGED <<sockVars, readmask, i, peticion, refresco, supHistorico, cola,
                 cli, senyales, interrumpido>>

\* ConsultaOnline starts with strcpy(buffer, 0), which ends the process where
\* address 0 cannot be read; what ConsultaOnline returns is not looked at.
Destinos ==
  CASE peticion = "historico" -> {"envia"}
    [] peticion = "online" -> {"muerto", "cierra"}
    [] peticion = "reload" -> {IF supHistorico THEN "cierra" ELSE "recarga"}
    [] peticion = "resetFecha" -> {IF supHistorico THEN "cierra" ELSE "responde"}
    [] OTHER -> {"responde"}

Sirve ==
  /\ pc = "sirve"
  /\ pc' \in Destinos
  /\ UNCHANGED <<sockVars, readmask, i, peticion, refresco, supHistorico, cola,
                 cli, senyales, interrumpido>>

\* ConsultaHistorico waits until the client reads; its failure is ignored.
EnviaLee ==
  /\ pc = "envia" /\ cli[Atendido] = "leida"
  /\ pc' = "cierra"
  /\ UNCHANGED <<sockVars, readmask, i, peticion, refresco, supHistorico, cola,
                 cli, senyales, interrumpido>>

EnviaFalla ==
  /\ pc = "envia" /\ cli[Atendido] # "leida"
  /\ pc' = "cierra"
  /\ UNCHANGED <<sockVars, readmask, i, peticion, refresco, supHistorico, cola,
                 cli, senyales, interrumpido>>

\* send of a text that fits in the buffers of the socket: it fails if the
\* connection was reset, and then it sends nothing; it never waits.
TCPSendMsg(c) == IF cli[c] = "rota" THEN "TCP_ERROR" ELSE "TCP_OK"

\* The short answers.  When send fails the function returns 1, which the loop
\* takes for EVENT_LOOP_STOPPED.
Responde ==
  /\ pc = "responde"
  /\ pc' = IF TCPSendMsg(Atendido) = "TCP_ERROR" THEN "fin" ELSE "cierra"
  /\ UNCHANGED <<sockVars, readmask, i, peticion, refresco, supHistorico, cola,
                 cli, senyales, interrumpido>>

\* The loop of UnRegisterSocket that looks for the new highest_sd.
Baja(s) ==
  IF s = highest
  THEN \E is \in 0..(s - 1) :
         /\ is = 0 \/ Abierto(is)
         /\ \A t \in (is + 1)..(s - 1) : ~Abierto(t)
         /\ highest' = is
  ELSE highest' = highest

\* Mutant: highest_sd is lowered by one and no more.
CierraUnoMenos ==
  /\ pc = "cierra"
  /\ accion' = [accion EXCEPT ![i] = "no"]
  /\ enlace' = [enlace EXCEPT ![i] = Nadie]
  /\ highest' = IF i = highest THEN highest - 1 ELSE highest
  /\ cli' = [cli EXCEPT ![Atendido] = "acabada"]
  /\ i' = i - 1
  /\ peticion' = "otra"
  /\ pc' = "recorre"
  /\ UNCHANGED <<readmask, refresco, supHistorico, cola, senyales, interrumpido>>

\* Mutant: the socket is closed and stays in the table.
CierraSinQuitar ==
  /\ pc = "cierra"
  /\ UNCHANGED <<accion, highest>>
  /\ enlace' = [enlace EXCEPT ![i] = Nadie]
  /\ cli' = [cli EXCEPT ![Atendido] = "acabada"]
  /\ i' = i - 1
  /\ peticion' = "otra"
  /\ pc' = "recorre"
  /\ UNCHANGED <<readmask, refresco, supHistorico, cola, senyales, interrumpido>>

\* The message is freed; UnRegisterSocket closes the connection.
Cierra ==
  /\ pc = "cierra"
  /\ accion' = [accion EXCEPT ![i] = "no"]
  /\ enlace' = [enlace EXCEPT ![i] = Nadie]
  /\ Baja(i)
  /\ cli' = [cli EXCEPT ![Atendido] = "acabada"]
  /\ i' = i - 1
  /\ peticion' = "otra"
  /\ pc' = "recorre"
  /\ UNCHANGED <<readmask, refresco, supHistorico, cola, senyales, interrumpido>>

Atiende ==
  \/ Recibe \/ RecibeFalla \/ Sirve \/ EnviaFalla \/ Responde \/ Cierra

-----------------------------------------------------------------------------
(* Signals. *)
Terminado == pc \in {"fin", "muerto", "desborda"}
Parando == pc \in {"cleanup", "mata"}

Senyala ==
  /\ ~Terminado /\ ~Parando
  /\ senyales < MaxSenyales
  /\ senyales' = senyales + 1

\* flagPropagaRefresco
Usr2 ==
  /\ Senyala
  /\ flagrefresco' = TRUE /\ pedido' = TRUE
  /\ tarde' = (tarde \/ pc \in {"baja", "baja_recarga"})
  /\ UNCHANGED <<sockVars, readmask, i, pc, peticion, supHistorico, cola, cli,
                 interrumpido>>

\* SIGUSR2 finds select asleep: EINTR, and the mask stays as it was made.
Usr2EnSelect ==
  /\ Senyala
  /\ pc = "select" /\ \A s \in readmask : ~Listo(s)
  /\ flagrefresco' = TRUE /\ pedido' = TRUE
  /\ interrumpido' = TRUE
  /\ i' = MAX_OPENED_SOCKETS - 1
  /\ pc' = "propaga"
  /\ UNCHANGED <<sockVars, readmask, peticion, tarde, supHistorico, cola, cli>>

\* CleanUp sends SIGTERM to its own process.  The signal waits for the end of
\* the handler, which it then starts again: the loop, which would look at
\* stop_loop, does not run any more.
Term ==
  /\ Senyala
  /\ pc' = "cleanup"
  /\ UNCHANGED <<sockVars, readmask, i, peticion, refresco, supHistorico, cola,
                 cli, interrumpido>>

CleanUp ==
  /\ Parando
  /\ pc' = IF pc = "cleanup" THEN "mata" ELSE "cleanup"
  /\ UNCHANGED <<sockVars, readmask, i, peticion, refresco, supHistorico, cola,
                 cli, senyales, interrumpido>>

-----------------------------------------------------------------------------
(* The clients, as long as there is a supervisor. *)
Hace(c, estado) ==
  /\ ~Terminado /\ ~Parando
  /\ cli' = [cli EXCEPT ![c] = estado]
  /\ UNCHANGED <<sockVars, readmask, i, pc, peticion, refresco, supHistorico,
                 senyales, interrumpido>>

Conecta(c) == cli[c] = "fuera" /\ cola' = Append(cola, c) /\ Hace(c, "abierta")
Pide(c) == cli[c] = "abierta" /\ Hace(c, "pedida") /\ UNCHANGED cola
Cuelga(c) == cli[c] = "abierta" /\ Hace(c, "cerrada") /\ UNCHANGED cola
Rompe(c) ==
  /\ cli[c] \in {"abierta", "pedida", "cerrada", "leida"}
  /\ Hace(c, "rota") /\ UNCHANGED cola

-----------------------------------------------------------------------------
AceptaAlgo == (\E n \in Indices : Acepta(n)) \/ AceptaFuera

\* The steps the supervisor takes by itself, and those that depend on others.
Bucle ==
  \/ Revisa \/ Select \/ Propaga \/ BajaFlag \/ Recorre \/ RecorreFin
  \/ AceptaAlgo \/ Atiende \/ CleanUp

Next ==
  \/ Bucle \/ AceptaFalla \/ EnviaLee
  \/ Usr2 \/ Usr2EnSelect \/ Term
  \/ \E c \in Clientes : Conecta(c) \/ Pide(c) \/ Cuelga(c) \/ Rompe(c)

Spec == Init /\ [][Next]_vars

\* The supervisor runs; no client, signal or error of accept has to happen.
SpecJusto == Spec /\ WF_vars(Bucle)

-----------------------------------------------------------------------------
(* Properties. *)
TypeOK ==
  /\ accion \in [Indices -> Acciones]
  /\ enlace \in [Indices -> Clientes \cup {Nadie}]
  /\ highest \in Indices
  /\ readmask \subseteq Indices
  /\ i \in -1..(MAX_OPENED_SOCKETS - 1)
  /\ pc \in {"revisa", "select", "propaga", "baja", "recarga", "baja_recarga",
             "recorre", "acepta", "recibe", "sirve", "envia", "responde",
             "cierra", "fin", "muerto", "desborda", "cleanup", "mata"}
  /\ peticion \in Peticiones
  /\ flagrefresco \in BOOLEAN /\ pedido \in BOOLEAN /\ tarde \in BOOLEAN
  /\ supHistorico \in BOOLEAN
  /\ cola \in Seq(Clientes)
  /\ cli \in [Clientes -> {"fuera", "abierta", "pedida", "cerrada", "rota",
                           "leida", "acabada"}]
  /\ senyales \in 0..MaxSenyales
  /\ interrumpido \in BOOLEAN

\* highest_sd is the largest open socket, so that select watches every client
\* and the listening socket, however clients come and go.
\* (RegisterSocket, UnRegisterSocket.)
VigilaTodos == Abierto(highest) /\ \A s \in Indices : Abierto(s) => s <= highest

EnCola == {cola[k] : k \in 1..Len(cola)}
Conectado(c) == cli[c] \notin {"fuera", "acabada"}

\* A connected client waits for accept or has exactly one socket, and a socket
\* in the table has a client: no connection is forgotten and no descriptor is
\* lost, whichever way a request ends.  (ExecuteAction.)
CadaClienteSuSocket ==
  /\ \A c \in Clientes :
       Conectado(c) <=> (c \in EnCola \/ \E s \in Indices : enlace[s] = c)
  /\ \A s, t \in Indices : enlace[s] = enlace[t] /\ s # t => enlace[s] = Nadie
  /\ \A s \in Indices : enlace[s] # Nadie <=> accion[s] = "ATTEND_CLIENT"
  /\ \A s \in Indices : enlace[s] \notin EnCola

\* The supervisor calls accept or recv only where there is something to read,
\* although the mask is older than the sockets of the walk and descriptors are
\* used again, unless a signal has interrupted select: the mask then says that
\* everything is ready, and the supervisor may sleep on a client that is
\* silent.  (SocketsEventLoop.)
SoloDuermeTrasSenyal ==
  pc \in {"acepta", "recibe"} /\ ~interrumpido => Listo(i)

\* The supervisor waits for somebody who may never come.
Duerme ==
  \/ pc \in {"acepta", "recibe"} /\ ~Listo(i)
  \/ pc = "envia" /\ cli[Atendido] = "leida"

\* Every request sent to the supervisor is answered, unless the supervisor
\* ends or stops or sleeps for ever on another client: clients do not starve
\* each other by coming in a given order.  (SocketsEventLoop.)
ClienteAtendido ==
  \/ <>(Terminado \/ Parando)
  \/ <>[]Duerme
  \/ \A c \in Clientes : cli[c] = "pedida" ~> cli[c] \in {"acabada", "rota"}

\* A SIGUSR2 is followed by a propagation, unless the supervisor ends, stops
\* or sleeps for ever, or the signal came after a propagation and before its
\* flagrefresco=0: only there is it lost.  (flagPropagaRefresco, SocketsEventLoop.)
RefrescoAtendido ==
  \/ <>(Terminado \/ Parando)
  \/ <>[]Duerme
  \/ <>tarde
  \/ pedido ~> ~pedido
=============================================================================
