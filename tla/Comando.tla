------------------------------ MODULE Comando ------------------------------
(***************************************************************************)
(* One request inside piped_child (start.c): two pipes, a child that runs  *)
(* the CGI program, an alarm that kills it, wait, and the verdict.         *)
(*                                                                         *)
(* The parent writes the whole input before it reads any output, so parent *)
(* and child can wait for each other on two full pipes; only the alarm     *)
(* ends that.  Nothing is assumed of the CGI program.  The handler of      *)
(* SIGALRM runs between any two steps of the parent; read and wait go on   *)
(* after it (signal() sets SA_RESTART).                                    *)
(*                                                                         *)
(* The pid of the child of request n is n; data are counted in pieces.     *)
(***************************************************************************)
EXTENDS Integers

CONSTANTS
  Peticiones,   \* bound: requests
  MaxEntrada,   \* bound: pieces of a request's input
  Capacidad,    \* pieces that fit in a pipe
  Nietos        \* the CGI program may leave a process with its pipes open

ASSUME ComandoAssumption ==
  /\ Peticiones \in Nat /\ MaxEntrada \in Nat /\ Capacidad \in Nat \ {0}
  /\ Nietos \in BOOLEAN

VARIABLES
  pc,         \* where the parent is
  n,          \* number of the request
  pidComando, \* pid_comando: whom the alarm kills, 0 for nobody
  manejador,  \* SIGALRM has timer_handler (else its default action)
  alarma,     \* request the running timer was set for, 0 if none runs
  falta,      \* input still to be written
  entra,      \* pieces in to_child_pipe
  sale,       \* pieces in from_child_pipe
  extremo,    \* the parent still holds its copy of from_child_pipe[1]
  hijo,       \* the child: no, corre, zombi, recogido
  nieto,      \* a descendant of the child holds its pipes
  suyos,      \* ends of the pipes that the child has not closed
  causa,      \* how the child ended
  stat,       \* stat_loc: "0", "9" or "otro"
  vencida,    \* history: the alarm went off in this request
  status,     \* fProcess.status
  cont        \* counters of this launcher's record

padre == <<pidComando, manejador, alarma, falta, extremo, stat, vencida>>
tubos == <<entra, sale>>
proceso == <<hijo, nieto, suyos, causa>>
veredicto == <<status, cont>>
vars == <<pc, n, padre, tubos, proceso, veredicto>>

Contadores == {"OK", "TIMEOUT", "ERRORGEN"}

Init ==
  /\ pc = "listo" /\ n = 0
  /\ pidComando = 0 /\ manejador = FALSE /\ alarma = 0
  /\ falta = 0 /\ entra = 0 /\ sale = 0 /\ extremo = FALSE
  /\ hijo = "no" /\ nieto = FALSE /\ suyos = {} /\ causa = "nada" /\ stat = "0"
  /\ vencida = FALSE
  /\ status = "OK" /\ cont = [c \in Contadores |-> 0]

-----------------------------------------------------------------------------
\* Somebody can still read the input, and write the output.
HayLector == nieto \/ (hijo = "corre" /\ "entra" \in suyos)
HayEscritor == nieto \/ extremo \/ (hijo = "corre" /\ "sale" \in suyos)

\* The ends of the pipes that are the program's.
Extremos == {"entra", "sale"}

Avanza(a, b) == pc = a /\ pc' = b

\* pipe, pipe and fork.
Fork ==
  /\ Avanza("listo", "maneja")
  /\ n < Peticiones /\ n' = n + 1
  /\ falta' \in 0..MaxEntrada
  /\ entra' = 0 /\ sale' = 0 /\ extremo' = TRUE
  /\ \/ hijo' = "corre" /\ causa' = "nada"
     \/ hijo' = "no" /\ causa' = "fork"
  /\ suyos' = Extremos
  /\ vencida' = FALSE
  /\ UNCHANGED <<pidComando, manejador, alarma, nieto, stat, veredicto>>

\* set_sigalarm.
PoneManejador ==
  /\ Avanza("maneja", "arma")
  /\ manejador' = TRUE
  /\ UNCHANGED <<n, pidComando, alarma, falta, extremo, stat, vencida, tubos, proceso, veredicto>>

\* Mutant: the parent does not close its end of the output.
ArmaSinCerrar ==
  /\ Avanza("arma", "escribe")
  /\ pidComando' = IF causa = "fork" THEN -1 ELSE n
  /\ alarma' = n
  /\ UNCHANGED <<n, manejador, falta, extremo, stat, vencida, tubos, proceso, veredicto>>

\* pid_comando = pid, which is -1 if fork failed; alarm; the parent closes the
\* ends of the pipes that are the child's.
Arma ==
  /\ Avanza("arma", "escribe")
  /\ pidComando' = IF causa = "fork" THEN -1 ELSE n
  /\ alarma' = n
  /\ extremo' = FALSE
  /\ UNCHANGED <<n, manejador, falta, stat, vencida, tubos, proceso, veredicto>>

\* write blocks while the pipe is full.
Escribe ==
  /\ pc = "escribe"
  /\ falta > 0 /\ HayLector /\ entra < Capacidad
  /\ falta' = falta - 1
  /\ entra' = entra + 1
  /\ UNCHANGED <<pc, n, pidComando, manejador, alarma, extremo, stat, vencida, sale, proceso,
                 veredicto>>

\* All is written, or nobody reads (EPIPE, whose signal libfcgi catches): the
\* result of write is not looked at.
CierraEntrada ==
  /\ Avanza("escribe", "lee")
  /\ falta = 0 \/ ~HayLector
  /\ UNCHANGED <<n, padre, tubos, proceso, veredicto>>

Lee ==
  /\ pc = "lee"
  /\ sale > 0 /\ sale' = sale - 1
  /\ UNCHANGED <<pc, n, padre, entra, proceso, veredicto>>

\* read returns 0.
FinDeSalida ==
  /\ Avanza("lee", "espera")
  /\ sale = 0 /\ ~HayEscritor
  /\ UNCHANGED <<n, padre, tubos, proceso, veredicto>>

\* What the kernel reports of a child that ended.
Estado(c) == CASE c = "ok" -> "0" [] c \in {"alarma", "matado"} -> "9" [] OTHER -> "otro"

\* wait; without a child it fails and stat_loc is read without a value.
Espera ==
  /\ Avanza("espera", "desarma")
  /\ \/ hijo = "zombi" /\ hijo' = "recogido" /\ stat' = Estado(causa)
     \/ hijo = "no" /\ hijo' = hijo /\ stat' \in {"0", "9", "otro"}
  /\ UNCHANGED <<n, pidComando, manejador, alarma, falta, extremo, vencida, tubos, nieto, suyos,
                 causa, veredicto>>

\* Mutant: the timer is not stopped.
DesarmaNada ==
  /\ Avanza("desarma", "sinmanejador")
  /\ UNCHANGED <<n, padre, tubos, proceso, veredicto>>

\* alarm(0).
Desarma ==
  /\ Avanza("desarma", "sinmanejador")
  /\ alarma' = 0
  /\ UNCHANGED <<n, pidComando, manejador, falta, extremo, stat, vencida, tubos, proceso, veredicto>>

\* unset_sigalarm.
QuitaManejador ==
  /\ Avanza("sinmanejador", "clasifica")
  /\ manejador' = FALSE
  /\ UNCHANGED <<n, pidComando, alarma, falta, extremo, stat, vencida, tubos, proceso, veredicto>>

Cuenta(c) == status' = c /\ cont' = [cont EXCEPT ![c] = @ + 1]

\* A child that died of SIGKILL ran out of time if pid_comando is 0; a child
\* that neither was killed nor returned 0 is not counted and leaves the status
\* of the previous request.
Clasifica ==
  /\ Avanza("clasifica", "listo")
  /\ \/ stat = "9" /\ pidComando = 0 /\ Cuenta("TIMEOUT")
     \/ stat = "9" /\ pidComando # 0 /\ Cuenta("ERRORGEN")
     \/ stat = "0" /\ Cuenta("OK")
     \/ stat = "otro" /\ UNCHANGED veredicto
  /\ UNCHANGED <<n, padre, tubos, proceso>>

-----------------------------------------------------------------------------
\* A blocked write that has written something returns it after the handler.
TrasAlarma == IF pc = "escribe" /\ falta > 0 /\ entra = Capacidad THEN "lee" ELSE pc

\* Mutant: pid_comando is left as it was.
AlarmaSinNota ==
  /\ alarma # 0 /\ alarma' = 0
  /\ pc' = IF manejador THEN TrasAlarma ELSE "muerto"
  /\ vencida' = TRUE
  /\ IF manejador /\ pidComando = n /\ hijo = "corre"
       THEN hijo' = "zombi" /\ causa' = "alarma"
       ELSE UNCHANGED <<hijo, causa>>
  /\ UNCHANGED <<n, pidComando, manejador, falta, extremo, stat, tubos, nieto, suyos, veredicto>>

\* SIGALRM.  timer_handler kills the child, if it is still alive, and notes it
\* by setting pid_comando to 0; without the handler the launcher would die.
\* After a fork that failed it is kill(-1), which spares the caller and none of
\* the user's other processes: their end is outside this module.
Alarma ==
  /\ alarma # 0 /\ alarma' = 0
  /\ pc' = IF manejador THEN TrasAlarma ELSE "muerto"
  /\ pidComando' = IF manejador THEN 0 ELSE pidComando
  /\ vencida' = TRUE
  /\ IF manejador /\ pidComando = n /\ hijo = "corre"
       THEN hijo' = "zombi" /\ causa' = "alarma"
       ELSE UNCHANGED <<hijo, causa>>
  /\ UNCHANGED <<n, manejador, falta, extremo, stat, tubos, nieto, suyos, veredicto>>

(* The CGI program: it reads, writes, closes its ends of the pipes, leaves a    *)
(* process behind and ends, or does not, as it likes; somebody else may kill it. *)
HijoLee ==
  /\ hijo = "corre" /\ "entra" \in suyos /\ entra > 0 /\ entra' = entra - 1
  /\ UNCHANGED <<pc, n, padre, sale, proceso, veredicto>>

HijoEscribe ==
  /\ hijo = "corre" /\ "sale" \in suyos /\ sale < Capacidad /\ sale' = sale + 1
  /\ UNCHANGED <<pc, n, padre, entra, proceso, veredicto>>

HijoCierra ==
  /\ hijo = "corre" /\ \E e \in suyos : suyos' = suyos \ {e}
  /\ UNCHANGED <<pc, n, padre, tubos, hijo, nieto, causa, veredicto>>

HijoAcaba ==
  /\ hijo = "corre" /\ hijo' = "zombi"
  /\ causa' \in {"ok", "matado", "otro"}
  /\ UNCHANGED <<pc, n, padre, tubos, nieto, suyos, veredicto>>

CreaNieto ==
  /\ Nietos /\ hijo = "corre" /\ suyos = Extremos /\ nieto' = TRUE
  /\ UNCHANGED <<pc, n, padre, tubos, hijo, suyos, causa, veredicto>>

NietoAcaba ==
  /\ nieto /\ nieto' = FALSE
  /\ UNCHANGED <<pc, n, padre, tubos, hijo, suyos, causa, veredicto>>

-----------------------------------------------------------------------------
Padre ==
  \/ PoneManejador \/ Arma \/ Escribe \/ CierraEntrada \/ Lee \/ FinDeSalida
  \/ Espera \/ Desarma \/ QuitaManejador \/ Clasifica

Hijo == HijoLee \/ HijoEscribe \/ HijoCierra \/ HijoAcaba \/ CreaNieto \/ NietoAcaba

Next == Fork \/ Padre \/ Alarma \/ Hijo

Spec == Init /\ [][Next]_vars

\* The kernel runs the parent and the timer; nothing is asked of the child.
FairSpec == Spec /\ WF_vars(Padre) /\ WF_vars(Alarma)

-----------------------------------------------------------------------------
PCs == {"listo", "maneja", "arma", "escribe", "lee", "espera", "desarma",
        "sinmanejador", "clasifica"}

\* Type correctness; the launcher never dies of its own alarm.
TypeOK ==
  /\ pc \in PCs /\ n \in Nat
  /\ pidComando \in {-1, 0, n} \/ (pc \in {"maneja", "arma"} /\ pidComando = n - 1)
  /\ manejador \in BOOLEAN /\ alarma \in Nat
  /\ falta \in 0..MaxEntrada /\ entra \in 0..Capacidad /\ sale \in 0..Capacidad
  /\ extremo \in BOOLEAN
  /\ hijo \in {"no", "corre", "zombi", "recogido"} /\ nieto \in BOOLEAN /\ suyos \subseteq Extremos
  /\ causa \in {"nada", "fork", "ok", "matado", "otro", "alarma"}
  /\ stat \in {"0", "9", "otro"}
  /\ vencida \in BOOLEAN
  /\ status \in Contadores /\ cont \in [Contadores -> Nat]

\* A timer runs only inside the request that set it, with its handler in place
\* and, unless fork failed, with that request's child as the one it kills: no
\* child pays for the time of another and the launcher does not die of it.
AlarmaDeSuPeticion ==
  alarma # 0 =>
    /\ alarma = n /\ manejador
    /\ pc \in {"escribe", "lee", "espera", "desarma"}
    /\ pidComando = IF causa = "fork" THEN -1 ELSE n

Contada(c) == cont'[c] > cont[c]

\* The verdict says what happened, although it is read from pid_comando after
\* the handler, the kernel and the previous requests have had their say: a
\* child the alarm killed is a timeout, a timeout means that the alarm went
\* off, a fall that somebody else killed the child, a success that it returned
\* 0.  Nothing is known after a fork that failed.
VeredictoVeraz ==
  [][pc = "clasifica" /\ pc' = "listo" /\ causa # "fork" =>
       /\ causa = "alarma" => Contada("TIMEOUT")
       /\ Contada("TIMEOUT") => vencida
       /\ Contada("ERRORGEN") => causa = "matado" /\ ~vencida
       /\ Contada("OK") => causa = "ok"]_vars

Sirve == PCs \ {"listo", "maneja", "arma"}
Recogido == {"desarma", "sinmanejador", "clasifica", "listo"}

\* The parts of the inductive invariant: the handler is set exactly while a
\* timer may run; the child goes with the parent; its state with its end; what
\* wait returned is how it ended; pid_comando is 0 exactly if the alarm went off.
InvManejador == manejador <=> pc \in PCs \ {"listo", "maneja", "clasifica"}
InvHijo ==
  /\ hijo \in IF pc \in Recogido THEN {"no", "recogido"} ELSE {"no", "corre", "zombi"}
  /\ hijo = "no" <=> causa = "fork" \/ n = 0
  /\ hijo = "corre" => causa = "nada"
  /\ hijo \in {"zombi", "recogido"} => causa \in {"ok", "matado", "otro", "alarma"}
  /\ n = 0 => pc = "listo"
InvStat == pc \in Recogido \ {"listo"} /\ causa # "fork" => stat = Estado(causa)
InvPid ==
  /\ pc \in Sirve =>
       pidComando = IF vencida THEN 0 ELSE IF causa = "fork" THEN -1 ELSE n
  /\ pc \in {"maneja", "arma"} => ~vencida
  /\ alarma # 0 => ~vencida
  /\ pc # "listo" /\ causa = "alarma" => vencida

IInv == TypeOK /\ AlarmaDeSuPeticion /\ InvManejador /\ InvHijo /\ InvStat /\ InvPid

\* Every request ends, whatever the CGI program does: the alarm breaks the wait
\* of parent and child on two full pipes.  The one condition is that no process
\* the program left behind keeps the pipes open for ever.
TerminaSinNietos == <>[]~nieto => []<>(pc = "listo")
=============================================================================
