------------------------------ MODULE Lanzador ------------------------------
(***************************************************************************)
(* The main loop of the launchers (start.c, main): a request is accepted,  *)
(* the configuration is read again if SIGUSR2 came, the busy launchers are *)
(* counted in the shared table without any lock (consulta_peticiones), and *)
(* the request is rejected or handed to a child (piped_child), which marks *)
(* the launcher's record busy.  Counting, deciding and marking are steps   *)
(* of different processes with nothing between them but the table.         *)
(*                                                                         *)
(* Registration is over (ApiShm is about it): Pos gives each launcher its  *)
(* record.  The pipes and the alarm of piped_child are in Comando.         *)
(***************************************************************************)
EXTENDS Integers, FiniteSets

CONSTANTS
  Lanzadores,
  MaxProcesos,         \* dglobal.num_max_procesos
  Pos,                 \* launcher -> its record, 0 if it could not register
  NumRegistrados,      \* values that dglobal.num_proc_registrados is read with
  MaxBusyProcess,      \* hard limit
  MaxSoftBusyProcess,  \* soft limit
  Ventana,             \* bound: launchers between accepting and marking
  MaxRecargas          \* bound: changes of the file; 0 for no reload at all

ASSUME LanzadorAssumption ==
  /\ IsFiniteSet(Lanzadores)
  /\ MaxProcesos \in Nat \ {0}
  /\ Pos \in [Lanzadores -> 0..(MaxProcesos + 1)]
  /\ \A p, q \in Lanzadores : Pos[p] = Pos[q] /\ Pos[p] # 0 => p = q
  /\ NumRegistrados \subseteq Nat /\ NumRegistrados # {}
  /\ MaxBusyProcess \in Nat /\ MaxSoftBusyProcess \in Nat
  /\ Ventana \in Nat \ {0}
  /\ MaxRecargas \in Nat

Registros == 1..(MaxProcesos + 1)
ConPid == {Pos[p] : p \in Lanzadores} \ {0}

VARIABLES
  estado,    \* dproceso[].estado by record: TRUE is PROCESO_OCUPADO
  pc,        \* where each launcher is
  i,         \* loop index of consulta_peticiones
  suma,      \* busy launchers counted so far
  sesion,    \* the request being treated has a session
  hijo,      \* the child of the launcher, and who holds its pipes
  fichero,   \* version of the configuration file
  conf,      \* version each launcher has read
  programa,  \* version argv_exec[0], the CGI program, was copied from
  readConf,  \* flag set by SIGUSR2
  usr2,      \* launchers with a SIGUSR2 pending
  visto,     \* history: version in the file at the last SIGUSR2 delivered
  debida     \* history: visto when the current request was accepted

recarga == <<fichero, conf, programa, readConf, usr2, visto, debida>>
cuenta == <<i, suma>>
vars == <<estado, pc, cuenta, sesion, hijo, recarga>>

Init ==
  /\ estado = [s \in Registros |-> FALSE]
  /\ pc = [p \in Lanzadores |-> "arranque"]
  /\ i = [p \in Lanzadores |-> 1]
  /\ suma = [p \in Lanzadores |-> 0]
  /\ sesion = [p \in Lanzadores |-> FALSE]
  /\ hijo = [p \in Lanzadores |-> "no"]
  /\ fichero = 0
  /\ conf = [p \in Lanzadores |-> 0]
  /\ programa = [p \in Lanzadores |-> 0]
  /\ readConf = [p \in Lanzadores |-> FALSE]
  /\ usr2 = {}
  /\ visto = [p \in Lanzadores |-> 0]
  /\ debida = [p \in Lanzadores |-> 0]

-----------------------------------------------------------------------------
Ocupados == {s \in Registros : estado[s]}
Va(p, l) == pc' = [pc EXCEPT ![p] = l]
Lee(p, v) == i' = [i EXCEPT ![p] = v]

\* The locals of a decision are dead once it is taken.
Olvida(p) ==
  /\ Lee(p, 1)
  /\ suma' = [suma EXCEPT ![p] = 0]

\* Launchers that have accepted a request and whose child has not marked the
\* record yet.
EnVentana ==
  {p \in Lanzadores :
     \/ pc[p] \in {"recarga", "parsea", "aplica", "lee", "cuenta", "decide", "fork"}
     \/ hijo[p] = "creado"}

\* modifica_proceso: nothing is written for a launcher without a record.
Modifica(p, v) ==
  estado' = IF Pos[p] = 0 THEN estado ELSE [estado EXCEPT ![Pos[p]] = v]

\* set_signals, after inserta_proceso (until then SIGUSR2 ends the process),
\* and argv_exec[0] is copied from the configuration.
PoneSenales(p) ==
  /\ pc[p] = "arranque"
  /\ Va(p, "acepta")
  /\ programa' = [programa EXCEPT ![p] = conf[p]]
  /\ UNCHANGED <<estado, cuenta, sesion, hijo, fichero, conf, readConf, usr2, visto, debida>>

\* FCGI_Accept returns a request; if (readConf).
Acepta(p) ==
  /\ pc[p] = "acepta"
  /\ Cardinality(EnVentana) < Ventana
  /\ \E s \in BOOLEAN : sesion' = [sesion EXCEPT ![p] = s]
  /\ Va(p, IF readConf[p] THEN "recarga" ELSE "lee")
  /\ debida' = [debida EXCEPT ![p] = visto[p]]
  /\ UNCHANGED <<estado, cuenta, hijo, fichero, conf, programa, readConf, usr2, visto>>

\* readConfig lowers the flag, ...
RecargaBaja(p) ==
  /\ pc[p] = "recarga"
  /\ readConf' = [readConf EXCEPT ![p] = FALSE]
  /\ Va(p, "parsea")
  /\ UNCHANGED <<estado, cuenta, sesion, hijo, fichero, conf, programa, usr2, visto, debida>>

\* ... reads the file (ini_parse) ...
RecargaLee(p) ==
  /\ pc[p] = "parsea"
  /\ conf' = [conf EXCEPT ![p] = fichero]
  /\ Va(p, "aplica")
  /\ UNCHANGED <<estado, cuenta, sesion, hijo, fichero, programa, readConf, usr2, visto, debida>>

\* Mutant: the flag is lowered at the end.
RecargaFinBaja(p) ==
  /\ pc[p] = "aplica"
  /\ readConf' = [readConf EXCEPT ![p] = FALSE]
  /\ Va(p, "lee")
  /\ UNCHANGED <<estado, cuenta, sesion, hijo, fichero, conf, programa, usr2, visto, debida>>

\* ... and sets the file names and configSHM.
RecargaFin(p) ==
  /\ pc[p] = "aplica"
  /\ Va(p, "lee")
  /\ UNCHANGED <<estado, cuenta, sesion, hijo, recarga>>

\* getIn fails: FCGI_Finish and the next request.
EntradaMal(p) ==
  /\ pc[p] = "lee"
  /\ Va(p, "acepta")
  /\ sesion' = [sesion EXCEPT ![p] = FALSE]
  /\ UNCHANGED <<estado, cuenta, hijo, recarga>>

\* getIn and consulta_registrados: the busy launchers are counted only if
\* more than the soft limit are registered.
EntradaBien(p) ==
  /\ pc[p] = "lee"
  /\ \E r \in NumRegistrados : Va(p, IF r > MaxSoftBusyProcess THEN "cuenta" ELSE "fork")
  /\ UNCHANGED <<estado, cuenta, sesion, hijo, recarga>>

-----------------------------------------------------------------------------
\* Mutant: the count does not look at the state of the first record.
CuentaUnoTarde(p) ==
  LET s == i[p]
      n == IF s > 1 /\ s \in ConPid /\ estado[s] THEN suma[p] + 1 ELSE suma[p] IN
  /\ pc[p] = "cuenta"
  /\ suma' = [suma EXCEPT ![p] = n]
  /\ \E r \in NumRegistrados :
       IF (s \in ConPid /\ n = r) \/ s = MaxProcesos
         THEN Va(p, "decide") /\ UNCHANGED i
         ELSE Lee(p, s + 1) /\ UNCHANGED pc
  /\ UNCHANGED <<estado, sesion, hijo, recarga>>

(* consulta_peticiones reads one record after another, without the lock, and *)
(* stops when it has counted as many as are registered.                      *)
CuentaUno(p) ==
  LET s == i[p]
      n == IF s \in ConPid /\ estado[s] THEN suma[p] + 1 ELSE suma[p] IN
  /\ pc[p] = "cuenta"
  /\ suma' = [suma EXCEPT ![p] = n]
  /\ \E r \in NumRegistrados :
       IF (s \in ConPid /\ n = r) \/ s = MaxProcesos
         THEN Va(p, "decide") /\ UNCHANGED i
         ELSE Lee(p, s + 1) /\ UNCHANGED pc
  /\ UNCHANGED <<estado, sesion, hijo, recarga>>

ExcedeDuro(p) == suma[p] > MaxBusyProcess

\* Mutant: sessions are not looked at.
ExcedeBlandoSinSesion(p) == FALSE
ExcedeBlando(p) == suma[p] > MaxSoftBusyProcess /\ ~sesion[p]

RechazaDuro(p) ==
  /\ pc[p] = "decide"
  /\ ExcedeDuro(p)
  /\ Va(p, "acepta")
  /\ Olvida(p)
  /\ sesion' = [sesion EXCEPT ![p] = FALSE]
  /\ UNCHANGED <<estado, hijo, recarga>>

RechazaBlando(p) ==
  /\ pc[p] = "decide"
  /\ ~ExcedeDuro(p) /\ ExcedeBlando(p)
  /\ Va(p, "acepta")
  /\ Olvida(p)
  /\ sesion' = [sesion EXCEPT ![p] = FALSE]
  /\ UNCHANGED <<estado, hijo, recarga>>

Admite(p) ==
  /\ pc[p] = "decide"
  /\ ~ExcedeDuro(p) /\ ~ExcedeBlando(p)
  /\ Va(p, "fork")
  /\ Olvida(p)
  /\ UNCHANGED <<estado, sesion, hijo, recarga>>

-----------------------------------------------------------------------------
(* piped_child, seen from the table. *)
\* Mutant: the parent does not stay for the child.
ForkSinEsperar(p) ==
  /\ pc[p] = "fork"
  /\ Va(p, "libera")
  /\ hijo' = [hijo EXCEPT ![p] = "creado"]
  /\ UNCHANGED <<estado, cuenta, sesion, recarga>>

Fork(p) ==
  /\ pc[p] = "fork"
  /\ Va(p, "tubos")
  /\ hijo' = [hijo EXCEPT ![p] = "creado"]
  /\ UNCHANGED <<estado, cuenta, sesion, recarga>>

\* fork fails: it is logged, the parent goes on as if there were a child and
\* wait returns at once.
ForkFalla(p) ==
  /\ pc[p] = "fork"
  /\ Va(p, "libera")
  /\ UNCHANGED <<estado, cuenta, sesion, hijo, recarga>>

\* The child marks the record and becomes the CGI program (or exits).
HijoMarca(p) ==
  /\ hijo[p] = "creado"
  /\ Modifica(p, TRUE)
  /\ hijo' = [hijo EXCEPT ![p] = "cgi"]
  /\ UNCHANGED <<pc, cuenta, sesion, recarga>>

\* The program closes its ends of the pipes and goes on.
HijoCierra(p) ==
  /\ hijo[p] = "cgi"
  /\ hijo' = [hijo EXCEPT ![p] = "cerrado"]
  /\ UNCHANGED <<estado, pc, cuenta, sesion, recarga>>

\* The child ends, by itself or killed by the alarm, before or after it has
\* marked the record; it cannot write the table afterwards.  The program may
\* leave a process that holds the pipes ("dejo").
HijoAcaba(p) ==
  /\ hijo[p] \in {"creado", "cgi", "cerrado"}
  /\ \/ hijo' = [hijo EXCEPT ![p] = "muerto"]
     \/ hijo[p] = "cgi" /\ hijo' = [hijo EXCEPT ![p] = "dejo"]
  /\ UNCHANGED <<estado, pc, cuenta, sesion, recarga>>

\* What the program left ends, or closes the pipes.
NietoAcaba(p) ==
  /\ hijo[p] = "dejo"
  /\ hijo' = [hijo EXCEPT ![p] = "muerto"]
  /\ UNCHANGED <<estado, pc, cuenta, sesion, recarga>>

\* The input is written and the output read to its end: nobody but the launcher
\* holds the pipes.
FinDeSalida(p) ==
  /\ pc[p] = "tubos"
  /\ hijo[p] \in {"cerrado", "muerto"}
  /\ Va(p, "espera")
  /\ UNCHANGED <<estado, cuenta, sesion, hijo, recarga>>

\* wait.
Espera(p) ==
  /\ pc[p] = "espera"
  /\ hijo[p] = "muerto"
  /\ Va(p, "libera")
  /\ hijo' = [hijo EXCEPT ![p] = "no"]
  /\ UNCHANGED <<estado, cuenta, sesion, recarga>>

\* Mutant: the parent leaves the record as it is.
LiberaSinMarcar(p) ==
  /\ pc[p] = "libera"
  /\ Va(p, "acepta")
  /\ sesion' = [sesion EXCEPT ![p] = FALSE]
  /\ UNCHANGED <<estado, cuenta, hijo, recarga>>

\* The parent marks the record free and finishes the request.
Libera(p) ==
  /\ pc[p] = "libera"
  /\ Modifica(p, FALSE)
  /\ Va(p, "acepta")
  /\ sesion' = [sesion EXCEPT ![p] = FALSE]
  /\ UNCHANGED <<cuenta, hijo, recarga>>

-----------------------------------------------------------------------------
(* Hot reload: the file changes, propagaRefresco sends SIGUSR2 to every pid  *)
(* of the table, readConfigSignal raises the flag when it is delivered.      *)
CambiaFichero ==
  /\ fichero < MaxRecargas
  /\ fichero' = fichero + 1
  /\ UNCHANGED <<estado, pc, cuenta, sesion, hijo, conf, programa, readConf, usr2, visto, debida>>

PropagaRefresco ==
  /\ MaxRecargas > 0
  /\ usr2' = usr2 \cup {p \in Lanzadores : Pos[p] \in 1..MaxProcesos /\ pc[p] # "muerto"}
  /\ UNCHANGED <<estado, pc, cuenta, sesion, hijo, fichero, conf, programa, readConf, visto, debida>>

RecibeUsr2(p) ==
  /\ p \in usr2
  /\ usr2' = usr2 \ {p}
  /\ IF pc[p] = "arranque"
       THEN Va(p, "muerto") /\ UNCHANGED <<readConf, visto>>
       ELSE /\ readConf' = [readConf EXCEPT ![p] = TRUE]
            /\ visto' = [visto EXCEPT ![p] = fichero]
            /\ UNCHANGED pc
  /\ UNCHANGED <<estado, cuenta, sesion, hijo, fichero, conf, programa, debida>>

-----------------------------------------------------------------------------
Paso(p) ==
  \/ PoneSenales(p) \/ RecargaBaja(p) \/ RecargaLee(p) \/ RecargaFin(p)
  \/ EntradaMal(p) \/ EntradaBien(p)
  \/ CuentaUno(p) \/ RechazaDuro(p) \/ RechazaBlando(p) \/ Admite(p)
  \/ Fork(p) \/ ForkFalla(p) \/ FinDeSalida(p) \/ Espera(p) \/ Libera(p)

DelHijo(p) == HijoMarca(p) \/ HijoAcaba(p) \/ HijoCierra(p) \/ NietoAcaba(p)

Next ==
  \/ \E p \in Lanzadores : Paso(p) \/ RecibeUsr2(p) \/ Acepta(p) \/ DelHijo(p)
  \/ CambiaFichero
  \/ PropagaRefresco

Spec == Init /\ [][Next]_vars

\* The kernel runs every launcher that can run, and every child ends: by itself
\* or killed by the alarm (Comando).  What it left behind need not end, nor the
\* program close its pipes before it does.
FairSpec ==
  Spec /\ \A p \in Lanzadores : WF_vars(Paso(p)) /\ WF_vars(HijoMarca(p) \/ HijoAcaba(p))

-----------------------------------------------------------------------------
EnBucle == {"acepta", "recarga", "parsea", "aplica", "lee", "cuenta", "decide",
            "fork", "tubos", "espera", "libera"}

\* Type correctness.
TypeOK ==
  /\ estado \in [Registros -> BOOLEAN]
  /\ pc \in [Lanzadores -> EnBucle \cup {"arranque", "muerto"}]
  /\ i \in [Lanzadores -> Registros]
  /\ suma \in [Lanzadores -> 0..MaxProcesos]
  /\ sesion \in [Lanzadores -> BOOLEAN]
  /\ hijo \in [Lanzadores -> {"no", "creado", "cgi", "cerrado", "dejo", "muerto"}]
  /\ fichero \in Nat
  /\ conf \in [Lanzadores -> Nat] /\ programa \in [Lanzadores -> Nat]
  /\ readConf \in [Lanzadores -> BOOLEAN]
  /\ usr2 \subseteq Lanzadores
  /\ visto \in [Lanzadores -> Nat] /\ debida \in [Lanzadores -> Nat]

\* What the count can be trusted for: num_proc_registrados never says less than
\* the launchers there are, and none of them is in the extra record.
CuentaCompleta ==
  /\ \A r \in NumRegistrados : Cardinality(ConPid) <= r
  /\ MaxProcesos + 1 \notin ConPid

\* Counting without a lock, deciding, and marking in another process exceed the
\* hard limit by no more than the launchers that are between accepting and
\* marking at one time: the error does not build up.  It takes CuentaCompleta.
LimiteDuro == Cardinality(Ocupados) <= MaxBusyProcess + Ventana

\* The same for the soft limit and the requests without a session.
LimiteBlando ==
  Cardinality({p \in Lanzadores : Pos[p] \in Ocupados /\ ~sesion[p]})
    <= MaxSoftBusyProcess + Ventana

\* A record marked busy belongs to a launcher that is inside piped_child: the
\* mark, written by the child, never lands after the parent has cleared it.
EstadoVeraz ==
  \A s \in Registros :
    estado[s] => \E p \in Lanzadores : Pos[p] = s /\ pc[p] \in {"tubos", "espera", "libera"}

\* A reload announced before a request was accepted is applied to it: no
\* SIGUSR2 is lost, whenever it arrives while the file is being read.
RecargaNoSePierde ==
  \A p \in Lanzadores : pc[p] \in {"lee", "cuenta", "decide", "fork"} => conf[p] >= debida[p]

\* The part of it that is inductive.
InvRecarga ==
  \A p \in Lanzadores :
    /\ visto[p] <= fichero /\ debida[p] <= visto[p]
    /\ conf[p] < visto[p] => readConf[p] \/ pc[p] = "parsea"
    /\ pc[p] \notin {"recarga", "parsea"} => conf[p] >= debida[p]

\* The part of EstadoVeraz that is inductive: there is a child only while the
\* parent waits for it, and only then can the record be busy.
InvHijo ==
  \A p \in Lanzadores :
    /\ hijo[p] # "no" => pc[p] \in {"tubos", "espera"}
    /\ Pos[p] # 0 /\ estado[Pos[p]] => pc[p] \in {"tubos", "espera", "libera"}

InvLibres == \A s \in Registros : estado[s] => s \in ConPid

\* The count never runs ahead of the records it has read.
InvSuma ==
  \A p \in Lanzadores :
    /\ pc[p] = "cuenta" => suma[p] < i[p] /\ i[p] <= MaxProcesos
    /\ pc[p] \notin {"cuenta", "decide"} => suma[p] = 0 /\ i[p] = 1

IInv == TypeOK /\ InvSuma /\ InvRecarga /\ InvHijo /\ InvLibres

\* A launcher counted as busy stops being so, unless a process that its program
\* left behind keeps the pipes open for ever: the parent writes and reads them to
\* the end before it waits (start.c:491-535), and the alarm kills the child only.
OcupadoSeLibera ==
  \A p \in {q \in Lanzadores : Pos[q] # 0} :
    []<>(hijo[p] # "dejo") => (estado[Pos[p]] ~> ~estado[Pos[p]])
=============================================================================
