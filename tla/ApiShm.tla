------------------------------- MODULE ApiShm -------------------------------
(***************************************************************************)
(* The shared table of api_shm: a SysV semaphore (api_blk.c, csem.c), the  *)
(* counter num_proc_registrados and the pid column of dproceso[], used at  *)
(* the same time by the launchers (start.c registers, re-registers and     *)
(* removes itself) and by the supervisor (procesos.c sweeps the table).    *)
(*                                                                         *)
(* A step is the work a process does between two points at which another   *)
(* process, or a signal, can make a difference: the pid tests that precede *)
(* a Lock(), each write of a critical section that another process reads   *)
(* without the lock, and Unlock().  A process can be killed between any    *)
(* two steps; the kernel then undoes its semaphore operations (SEM_UNDO)   *)
(* and nothing else.                                                       *)
(*                                                                         *)
(* Pids are not reused: a launcher of this module is one process, from     *)
(* fork to death.  A record is named by its id, which is index + 1.        *)
(***************************************************************************)
EXTENDS Integers, FiniteSets

CONSTANTS
  Lanzadores,     \* launcher processes (their pids)
  Supervisores,   \* supervisor processes (they are not in the table)
  MaxProcesos,    \* num_max_procesos
  SinPid,         \* the value 0 of dproceso[].pid
  Matables,       \* processes the environment may kill at any point
  Terminables,    \* processes that may be sent SIGTERM at any point
  TimeOutKill,    \* TRUE iff the supervisor's TimeOutKill (segKill) is > 0
  ApacheCae       \* TRUE iff the parent of the launchers may die

Procs == Lanzadores \cup Supervisores

ASSUME ConstantesAssumption ==
  /\ MaxProcesos \in Nat \ {0}
  /\ SinPid \notin Procs
  /\ Lanzadores \cap Supervisores = {}
  /\ Matables \subseteq Procs
  /\ Terminables \subseteq Procs
  /\ TimeOutKill \in BOOLEAN
  /\ ApacheCae \in BOOLEAN

\* inserta_proceso scans ids 1..MaxProcesos+1 (while (i<=max_procesos));
\* every other loop over the table stops at MaxProcesos.
Registros == 1..(MaxProcesos + 1)
Revisados == 1..MaxProcesos

VARIABLES
  sem,       \* value of the semaphore
  undo,      \* SEM_UNDO adjustment the kernel keeps for each process
  num,       \* dglobal.num_proc_registrados
  pid,       \* dproceso[].pid, by id
  pc,        \* where each process is
  id,        \* loop index of a sweep, argument of borra_proceso
  vuelve,    \* where the running borra_proceso returns to
  tPos,      \* fProcess.tPos: the record a launcher believes is its own
  armado,    \* launchers that have run set_signals
  pend,      \* processes with a SIGTERM pending
  sirvio,    \* launchers whose fecha_fin > 0 (they have served a request)
  huerfano,  \* launchers whose parent no longer exists
  victima,   \* the supervisor's local variable pid
  ultima,    \* supervisors whose local variable ultima_fecha is > 0
  rotos      \* history: launchers stopped between lines 139 and 140

memoria == <<sem, undo, num, pid>>
senales == <<armado, pend, huerfano>>
locales == <<tPos, sirvio, victima, ultima>>
vars == <<sem, undo, num, pid, pc, id, vuelve, tPos, armado, pend, sirvio,
          huerfano, victima, ultima, rotos>>

PCsBorra == {"bor_mira", "bor_lock", "bor_cero", "bor_suma"}
PCsLanzador == PCsBorra \cup
  {"nuevo", "inserta", "ins_escribe", "ins_sale", "chequeo", "acepta",
   "suicidio", "muerto"}
PCsSupervisor == PCsBorra \cup
  {"nuevo", "reposo", "critica", "limpia", "lim_existe", "lim_fecha",
   "lim_pid", "lim_inactivo", "lim_padre", "cleanup", "muerto"}

EnCritica == {"ins_escribe", "ins_sale", "bor_cero", "bor_suma", "critica"}

Init ==
  /\ sem = 1
  /\ undo = [p \in Procs |-> 0]
  /\ num = 0
  /\ pid = [s \in Registros |-> SinPid]
  /\ pc = [p \in Procs |-> "nuevo"]
  /\ id = [p \in Procs |-> 0]
  /\ vuelve = [p \in Procs |-> IF p \in Supervisores THEN "limpia" ELSE "chequeo"]
  /\ tPos = [p \in Lanzadores |-> 0]
  /\ armado = {}
  /\ pend = {}
  /\ sirvio = {}
  /\ huerfano = {}
  /\ victima = [q \in Supervisores |-> SinPid]
  /\ ultima = {}
  /\ rotos = {}

-----------------------------------------------------------------------------
(* What kill(2) and the kernel see of a process. *)
Vivo(p) == pc[p] \notin {"nuevo", "muerto"}
Existe(p) == pc[p] # "muerto"      \* kill(p, 0) succeeds for a recorded pid

Va(p, l) == pc' = [pc EXCEPT ![p] = l]

\* Lock() and Unlock(): semop(-1) and semop(+1), both with SEM_UNDO.
Lock(p) ==
  /\ sem > 0
  /\ sem' = sem - 1
  /\ undo' = [undo EXCEPT ![p] = @ + 1]

\* Mutant: sm_trsignal without SEM_UNDO.
UnlockSinUndo(p) ==
  /\ sem' = sem + 1
  /\ UNCHANGED undo

Unlock(p) ==
  /\ sem' = sem + 1
  /\ undo' = [undo EXCEPT ![p] = @ - 1]

\* The process ends: the kernel applies its adjustment, nothing else.
Acaba(p) ==
  /\ Va(p, "muerto")
  /\ sem' = sem + undo[p]
  /\ undo' = [undo EXCEPT ![p] = 0]
  /\ rotos' = IF pc[p] = "ins_escribe" THEN rotos \cup {p} ELSE rotos
  /\ pend' = pend \ {p}
  /\ UNCHANGED <<num, pid, id, vuelve, armado, huerfano, locales>>

-----------------------------------------------------------------------------
(* A launcher registers itself: inserta_proceso. *)
Libres == {s \in Registros : pid[s] = SinPid}

\* Mutant: the scan takes the first record whether it is free or not.
PrimeroSinMirar(s) == s \in Registros /\ \A r \in Registros : s <= r

\* The first free record.
Primero(s) == s \in Libres /\ \A r \in Libres : s <= r

ArrancaLanzador(p) ==
  /\ pc[p] = "nuevo"
  /\ Va(p, "inserta")
  /\ UNCHANGED <<memoria, senales, locales, id, vuelve, rotos>>

\* Lock(), the scan, *id = j and num_proc_registrados++ (lines 125-139).
InsertaEntra(p) ==
  /\ pc[p] = "inserta"
  /\ Lock(p)
  /\ \E s \in Registros : Primero(s) /\ tPos' = [tPos EXCEPT ![p] = s]
  /\ num' = num + 1
  /\ Va(p, "ins_escribe")
  /\ UNCHANGED <<pid, senales, sirvio, victima, ultima, id, vuelve, rotos>>

\* The table is full: the lock is taken and given back, nothing is written.
InsertaLlena(p) ==
  /\ pc[p] = "inserta"
  /\ sem > 0
  /\ Libres = {}
  /\ Va(p, "chequeo")
  /\ id' = [id EXCEPT ![p] = 1]
  /\ UNCHANGED <<memoria, senales, locales, vuelve, rotos>>

InsertaEscribe(p) ==
  /\ pc[p] = "ins_escribe"
  /\ pid' = [pid EXCEPT ![tPos[p]] = p]
  /\ Va(p, "ins_sale")
  /\ UNCHANGED <<sem, undo, num, senales, locales, id, vuelve, rotos>>

InsertaSale(p) ==
  /\ pc[p] = "ins_sale"
  /\ Unlock(p)
  /\ Va(p, "chequeo")
  /\ id' = [id EXCEPT ![p] = 1]
  /\ UNCHANGED <<num, pid, senales, locales, vuelve, rotos>>

-----------------------------------------------------------------------------
(* chequeo_peticiones: after every insertion the launcher sweeps the table *)
(* and removes the records of processes that do not exist.                 *)
ChequeoBorra(p) ==
  /\ pc[p] = "chequeo"
  /\ id[p] \in Revisados
  /\ pid[id[p]] # SinPid /\ ~Existe(pid[id[p]])
  /\ Va(p, "bor_mira")
  /\ vuelve' = [vuelve EXCEPT ![p] = "chequeo"]
  /\ UNCHANGED <<memoria, senales, locales, id, rotos>>

\* Mutant: the sweep does not advance past a record it keeps.
ChequeoNoAvanza(p) ==
  /\ pc[p] = "chequeo"
  /\ id[p] \in Revisados
  /\ pid[id[p]] # SinPid => Existe(pid[id[p]])
  /\ UNCHANGED vars

ChequeoSigue(p) ==
  /\ pc[p] = "chequeo"
  /\ id[p] \in Revisados
  /\ pid[id[p]] # SinPid => Existe(pid[id[p]])
  /\ id' = [id EXCEPT ![p] = @ + 1]
  /\ UNCHANGED <<memoria, senales, locales, pc, vuelve, rotos>>

\* End of the sweep; set_signals follows the first registration (start.c:966).
ChequeoFin(p) ==
  /\ pc[p] = "chequeo"
  /\ id[p] \notin Revisados
  /\ Va(p, "acepta")
  /\ armado' = armado \cup {p}
  /\ UNCHANGED <<memoria, pend, huerfano, locales, id, vuelve, rotos>>

-----------------------------------------------------------------------------
(* borra_proceso(id): the pid is tested before Lock() and not again. *)
\* The test fails: ERR_POS_TABLA or ERR_REG_VACIO goes back to the caller.
BorraVacio(p) ==
  /\ pc[p] = "bor_mira"
  /\ id[p] \notin Registros \/ (id[p] \in Registros /\ pid[id[p]] = SinPid)
  /\ \/ vuelve[p] = "muere" /\ Va(p, "suicidio") /\ UNCHANGED id
     \/ vuelve[p] = "inactivo" /\ Va(p, "lim_padre") /\ UNCHANGED id
     \/ /\ vuelve[p] \in {"chequeo", "limpia"}
        /\ Va(p, vuelve[p])
        /\ id' = [id EXCEPT ![p] = @ + 1]
  /\ UNCHANGED <<memoria, senales, locales, vuelve, rotos>>

BorraMira(p) ==
  /\ pc[p] = "bor_mira"
  /\ id[p] \in Registros /\ pid[id[p]] # SinPid
  /\ Va(p, "bor_lock")
  /\ UNCHANGED <<memoria, senales, locales, id, vuelve, rotos>>

\* Mutant: the test num_proc_registrados > 0 is missing.
BorraLockSinTope(p) ==
  /\ pc[p] = "bor_lock"
  /\ Lock(p)
  /\ num' = num - 1
  /\ Va(p, "bor_cero")
  /\ UNCHANGED <<pid, senales, locales, id, vuelve, rotos>>

\* Mutant: the removal forgets the counter.
BorraLockSinDescontar(p) ==
  /\ pc[p] = "bor_lock"
  /\ Lock(p)
  /\ UNCHANGED num
  /\ Va(p, "bor_cero")
  /\ UNCHANGED <<pid, senales, locales, id, vuelve, rotos>>

BorraLock(p) ==
  /\ pc[p] = "bor_lock"
  /\ Lock(p)
  /\ num' = IF num > 0 THEN num - 1 ELSE num
  /\ Va(p, "bor_cero")
  /\ UNCHANGED <<pid, senales, locales, id, vuelve, rotos>>

BorraCero(p) ==
  /\ pc[p] = "bor_cero"
  /\ pid' = [pid EXCEPT ![id[p]] = SinPid]
  /\ Va(p, "bor_suma")
  /\ UNCHANGED <<sem, undo, num, senales, locales, id, vuelve, rotos>>

\* pidborrado = pid, and that pid was 0: the sweep takes it for no removal.
VuelveAlPadre(p) == vuelve[p] = "inactivo" /\ victima[p] = SinPid

\* The record's counters are added to the totals, then Unlock() and return.
BorraSuma(p) ==
  /\ pc[p] = "bor_suma"
  /\ Unlock(p)
  /\ \/ vuelve[p] = "muere" /\ Va(p, "suicidio") /\ UNCHANGED id
     \/ VuelveAlPadre(p) /\ Va(p, "lim_padre") /\ UNCHANGED id
     \/ /\ vuelve[p] # "muere" /\ ~VuelveAlPadre(p)
        /\ Va(p, IF vuelve[p] = "chequeo" THEN "chequeo" ELSE "limpia")
        /\ id' = [id EXCEPT ![p] = @ + 1]
  /\ UNCHANGED <<num, pid, senales, locales, vuelve, rotos>>

-----------------------------------------------------------------------------
(* A registered launcher. *)
\* Mutant: the launcher registers again whether it has a record or not.
AtiendeReinserta(p) ==
  /\ pc[p] = "acepta"
  /\ p \notin sirvio \/ tPos[p] = 0
  /\ sirvio' = sirvio \cup {p}
  /\ Va(p, "inserta")
  /\ UNCHANGED <<memoria, senales, tPos, victima, ultima, id, vuelve, rotos>>

\* A request is served (piped_child); a launcher the table had no room for
\* registers again at the end of it (lines 602-612).
Atiende(p) ==
  /\ pc[p] = "acepta"
  /\ p \notin sirvio \/ tPos[p] = 0
  /\ sirvio' = sirvio \cup {p}
  /\ Va(p, IF tPos[p] = 0 THEN "inserta" ELSE "acepta")
  /\ UNCHANGED <<memoria, senales, tPos, victima, ultima, id, vuelve, rotos>>

\* FCGI_Accept fails: main returns without borra_proceso.
SaleDelBucle(p) ==
  /\ pc[p] = "acepta"
  /\ Acaba(p)

\* SIGTERM is delivered, wherever the launcher is.  interceptor calls
\* borra_proceso(tPos) and kills itself, so the interrupted code never goes
\* on; before set_signals the default action ends the process.
RecibeTerm(p) ==
  /\ p \in pend
  /\ Vivo(p)
  /\ vuelve[p] # "muere"
  /\ IF p \in armado
       THEN /\ Va(p, "bor_mira")
            /\ vuelve' = [vuelve EXCEPT ![p] = "muere"]
            /\ id' = [id EXCEPT ![p] = tPos[p]]
            /\ pend' = pend \ {p}
            /\ rotos' = IF pc[p] = "ins_escribe" THEN rotos \cup {p} ELSE rotos
            /\ UNCHANGED <<memoria, armado, huerfano, locales>>
       ELSE Acaba(p)

\* kill(getpid(), sig) at the end of interceptor.
Suicidio(p) ==
  /\ pc[p] = "suicidio"
  /\ Acaba(p)

-----------------------------------------------------------------------------
(* The supervisor: Limpia_procesos_tabla, which reads the record field by    *)
(* field without the lock, so that it may read 0 where it saw a pid before.  *)
ArrancaSupervisor(q) ==
  /\ pc[q] \in {"nuevo", "muerto"}
  /\ Va(q, "reposo")
  /\ UNCHANGED <<memoria, senales, locales, id, vuelve, rotos>>

\* Mutant: the sweep skips the first record.
LimpiaEmpiezaTarde(q) ==
  /\ pc[q] = "reposo"
  /\ Va(q, "limpia")
  /\ id' = [id EXCEPT ![q] = 2]
  /\ UNCHANGED <<memoria, senales, locales, vuelve, rotos>>

LimpiaEmpieza(q) ==
  /\ pc[q] = "reposo"
  /\ Va(q, "limpia")
  /\ id' = [id EXCEPT ![q] = 1]
  /\ UNCHANGED <<memoria, senales, locales, vuelve, rotos>>

\* What a sweep leaves in its variables nobody reads again.
Olvida(q) ==
  /\ victima' = [victima EXCEPT ![q] = SinPid]
  /\ ultima' = ultima \ {q}
  /\ vuelve' = [vuelve EXCEPT ![q] = "limpia"]

LimpiaFin(q) ==
  /\ pc[q] = "limpia"
  /\ id[q] \notin Revisados
  /\ Va(q, "reposo")
  /\ Olvida(q)
  /\ UNCHANGED <<memoria, senales, tPos, sirvio, id, rotos>>

LimpiaVacio(q) ==
  /\ pc[q] = "limpia"
  /\ id[q] \in Revisados /\ pid[id[q]] = SinPid
  /\ id' = [id EXCEPT ![q] = @ + 1]
  /\ UNCHANGED <<memoria, senales, locales, pc, vuelve, rotos>>

LimpiaOcupado(q) ==
  /\ pc[q] = "limpia"
  /\ id[q] \in Revisados /\ pid[id[q]] # SinPid
  /\ Va(q, "lim_existe")
  /\ UNCHANGED <<memoria, senales, locales, id, vuelve, rotos>>

LimpiaMuerto(q) ==
  /\ pc[q] = "lim_existe"
  /\ pid[id[q]] # SinPid /\ ~Existe(pid[id[q]])
  /\ Va(q, "bor_mira")
  /\ vuelve' = [vuelve EXCEPT ![q] = "limpia"]
  /\ UNCHANGED <<memoria, senales, locales, id, rotos>>

\* The record's process exists, or the record has gone: kill(0, 0) succeeds.
LimpiaVivo(q) ==
  /\ pc[q] = "lim_existe"
  /\ pid[id[q]] # SinPid => Existe(pid[id[q]])
  /\ Va(q, "lim_fecha")
  /\ UNCHANGED <<memoria, senales, locales, id, vuelve, rotos>>

\* ultima_fecha: fecha_fin is 0 until a request has been served.
LimpiaFecha(q) ==
  /\ pc[q] = "lim_fecha"
  /\ ultima' = IF pid[id[q]] \in sirvio THEN ultima \cup {q} ELSE ultima
  /\ Va(q, "lim_pid")
  /\ UNCHANGED <<memoria, senales, tPos, sirvio, victima, id, vuelve, rotos>>

LimpiaPid(q) ==
  /\ pc[q] = "lim_pid"
  /\ victima' = [victima EXCEPT ![q] = pid[id[q]]]
  /\ Va(q, "lim_inactivo")
  /\ UNCHANGED <<memoria, senales, tPos, sirvio, ultima, id, vuelve, rotos>>

\* kill(v, SIGTERM) by q: pending if v still exists.  Pid 0 is q's own process
\* group, and q in it.
Recibe(q, v) == IF v = SinPid THEN {q} ELSE IF Existe(v) THEN {v} ELSE {}

\* pid_hijo is 0: no request served yet, or no record.  Otherwise it is a child
\* that has been waited for, and the kill finds nobody.
HijoCero(q) == pid[id[q]] \notin sirvio

\* Idle for longer than TimeOutKill: the launcher and its child are sent
\* SIGTERM and the record is removed.  Whether the time has passed is left open.
LimpiaInactivo(q) ==
  /\ pc[q] = "lim_inactivo"
  /\ TimeOutKill
  /\ q \in ultima
  /\ pend' = pend \cup Recibe(q, victima[q]) \cup (IF HijoCero(q) THEN {q} ELSE {})
  /\ ultima' = ultima \ {q}
  /\ Va(q, "bor_mira")
  /\ vuelve' = [vuelve EXCEPT ![q] = "inactivo"]
  /\ UNCHANGED <<memoria, armado, huerfano, tPos, sirvio, victima, id, rotos>>

LimpiaActivo(q) ==
  /\ pc[q] = "lim_inactivo"
  /\ ultima' = ultima \ {q}
  /\ Va(q, "lim_padre")
  /\ UNCHANGED <<memoria, senales, tPos, sirvio, victima, id, vuelve, rotos>>

\* The parent of the process in the record does not exist.
SinPadre(q) == pid[id[q]] # SinPid /\ pid[id[q]] \in huerfano

LimpiaHuerfano(q) ==
  /\ pc[q] = "lim_padre"
  /\ SinPadre(q)
  /\ pend' = pend \cup Recibe(q, victima[q])
  /\ Va(q, "bor_mira")
  /\ vuelve' = [vuelve EXCEPT ![q] = "limpia"]
  /\ UNCHANGED <<memoria, armado, huerfano, locales, id, rotos>>

LimpiaSigue(q) ==
  /\ pc[q] = "lim_padre"
  /\ ~SinPadre(q)
  /\ Va(q, "limpia")
  /\ id' = [id EXCEPT ![q] = @ + 1]
  /\ UNCHANGED <<memoria, senales, locales, vuelve, rotos>>

\* The other critical sections of the supervisor: the first values of the table
\* (crea_tabla), the partials of a snapshot, a reset.
SupLock(q) ==
  /\ pc[q] = "reposo"
  /\ Lock(q)
  /\ Va(q, "critica")
  /\ UNCHANGED <<num, pid, senales, locales, id, vuelve, rotos>>

SupUnlock(q) ==
  /\ pc[q] = "critica"
  /\ Unlock(q)
  /\ Va(q, "reposo")
  /\ UNCHANGED <<num, pid, senales, locales, id, vuelve, rotos>>

\* SIGTERM is delivered, wherever the supervisor is.  CleanUp neither ends the
\* process nor returns to it: it sends itself SIGTERM again, which is pending
\* while the handler runs and enters it anew when it returns.
CleanUp(q) ==
  /\ q \in pend
  /\ Vivo(q) /\ pc[q] # "cleanup"
  /\ Va(q, "cleanup")
  /\ Olvida(q)
  /\ UNCHANGED <<memoria, senales, tPos, sirvio, id, rotos>>

-----------------------------------------------------------------------------
(* The environment. *)
Muere(p) ==
  /\ p \in Matables
  /\ Vivo(p)
  /\ Acaba(p)

EnviaTerm(p) ==
  /\ p \in Terminables \ pend
  /\ Vivo(p)
  /\ pend' = pend \cup {p}
  /\ UNCHANGED <<memoria, pc, id, vuelve, armado, huerfano, locales, rotos>>

CaeApache ==
  /\ ApacheCae
  /\ ~({p \in Lanzadores : Vivo(p)} \subseteq huerfano)
  /\ huerfano' = huerfano \cup {p \in Lanzadores : Vivo(p)}
  /\ UNCHANGED <<memoria, pc, id, vuelve, armado, pend, locales, rotos>>

-----------------------------------------------------------------------------
Borra(p) ==
  BorraVacio(p) \/ BorraMira(p) \/ BorraLock(p) \/ BorraCero(p) \/ BorraSuma(p)

PasoLanzador(p) ==
  \/ InsertaEntra(p) \/ InsertaLlena(p) \/ InsertaEscribe(p) \/ InsertaSale(p)
  \/ ChequeoBorra(p) \/ ChequeoSigue(p) \/ ChequeoFin(p)
  \/ Borra(p) \/ RecibeTerm(p) \/ Suicidio(p)

\* What the supervisor does once a sweep or a critical section has begun.
PasoSupervisor(q) ==
  \/ LimpiaFin(q) \/ LimpiaVacio(q) \/ LimpiaOcupado(q) \/ LimpiaMuerto(q)
  \/ LimpiaVivo(q) \/ LimpiaFecha(q) \/ LimpiaPid(q)
  \/ LimpiaInactivo(q) \/ LimpiaActivo(q) \/ LimpiaHuerfano(q) \/ LimpiaSigue(q)
  \/ Borra(q) \/ SupUnlock(q) \/ CleanUp(q)

Next ==
  \/ \E p \in Lanzadores :
       PasoLanzador(p) \/ ArrancaLanzador(p) \/ Atiende(p) \/ SaleDelBucle(p)
  \/ \E q \in Supervisores :
       PasoSupervisor(q) \/ ArrancaSupervisor(q) \/ LimpiaEmpieza(q) \/ SupLock(q)
  \/ \E p \in Procs : Muere(p) \/ EnviaTerm(p)
  \/ CaeApache

Spec == Init /\ [][Next]_vars

\* The kernel runs every process that can run, delivers every signal and grants
\* the semaphore in the order it was asked for (semop queues those who wait), so
\* that nobody is overtaken for ever.  Nothing obliges a launcher to start, a
\* request to arrive, the supervisor to come round to its next sweep (the rest of
\* its loop may sleep in accept, recv or send) or the environment to kill.
Equidad ==
  /\ \A p \in Lanzadores : SF_vars(PasoLanzador(p))
  /\ \A q \in Supervisores : SF_vars(PasoSupervisor(q))

FairSpec == Spec /\ Equidad

-----------------------------------------------------------------------------
(* Properties. *)
Ocupados == {s \in Registros : pid[s] # SinPid}
Dueno(p) == undo[p] = 1

TypeOK ==
  /\ sem \in {0, 1}
  /\ undo \in [Procs -> {0, 1}]
  /\ num \in Nat
  /\ pid \in [Registros -> Lanzadores \cup {SinPid}]
  /\ pc \in [Procs -> PCsLanzador \cup PCsSupervisor]
  /\ id \in [Procs -> 0..(MaxProcesos + 1)]
  /\ vuelve \in [Procs -> {"chequeo", "limpia", "inactivo", "muere"}]
  /\ tPos \in [Lanzadores -> 0..(MaxProcesos + 1)]
  /\ armado \subseteq Lanzadores
  /\ pend \subseteq Procs
  /\ sirvio \subseteq Lanzadores
  /\ huerfano \subseteq Lanzadores
  /\ victima \in [Supervisores -> Lanzadores \cup {SinPid}]
  /\ ultima \subseteq Supervisores
  /\ rotos \subseteq Lanzadores

\* The semaphore and the kernel's undo entries always account for each other,
\* whoever is killed and wherever: a process writes the table only as the one
\* owner, and a free semaphore has no owner.  (Lock/Unlock with SEM_UNDO,
\* api_blk.c, csem.c.)
CerrojoExacto ==
  /\ \A p \in Procs : pc[p] \in EnCritica => Dueno(p)
  /\ \A p, q \in Procs : Dueno(p) /\ Dueno(q) => p = q
  /\ sem = 1 <=> \A p \in Procs : ~Dueno(p)

\* While nobody is inside the critical section, num_proc_registrados never
\* says more than the records in use, except by one for each launcher killed
\* between num_proc_registrados++ and the write of its pid: concurrent
\* removals of one record can only lose counts.  (inserta_proceso,
\* borra_proceso, api_shm.c:139-140, 335-337.)
NumNuncaExcede ==
  sem = 1 => num <= Cardinality(Ocupados) + Cardinality(rotos)

\* A record in use belongs to the launcher whose tPos names it, so no launcher
\* ever has two records, however registrations, removals by others and second
\* registrations interleave.  (inserta_proceso, start.c:957, 602-604.)
RegistroPropio ==
  \A s \in Ocupados : tPos[pid[s]] = s

(* The inductive invariant behind the three properties above. *)
InvPapeles ==
  /\ \A p \in Lanzadores : pc[p] \in PCsLanzador /\ vuelve[p] \in {"chequeo", "muere"}
  /\ \A q \in Supervisores : pc[q] \in PCsSupervisor /\ vuelve[q] \in {"limpia", "inactivo"}

\* A sweep calls borra_proceso only for records it visits.
InvIndice ==
  \A p \in Procs :
    /\ pc[p] \in PCsBorra /\ vuelve[p] # "muere" => id[p] \in Revisados
    /\ pc[p] \in {"lim_existe", "lim_fecha", "lim_pid", "lim_inactivo", "lim_padre"} =>
         id[p] \in Revisados

\* The handler never goes back to the interrupted code.
InvMuere ==
  /\ \A p \in Lanzadores :
       vuelve[p] = "muere" => pc[p] \in PCsBorra \cup {"suicidio", "muerto"}
  /\ \A p \in rotos : pc[p] = "muerto" \/ vuelve[p] = "muere"

\* A launcher registers only when it has no record, and the record it is
\* about to write is free.
InvInserta ==
  \A p \in Lanzadores :
    /\ pc[p] \in {"nuevo", "inserta"} => tPos[p] = 0
    /\ pc[p] = "ins_escribe" => tPos[p] \in Registros /\ pid[tPos[p]] = SinPid

Insertando == {p \in Lanzadores : pc[p] = "ins_escribe"}

InvNum ==
  /\ IsFiniteSet(rotos)
  /\ Insertando = {} => num <= Cardinality(Ocupados) + Cardinality(rotos)
  /\ num <= Cardinality(Ocupados) + Cardinality(rotos) + 1
  /\ \A p \in Procs : pc[p] = "bor_cero" =>
       num = 0 \/ num + 1 <= Cardinality(Ocupados) + Cardinality(rotos)

IInv == TypeOK /\ CerrojoExacto /\ InvPapeles /\ InvIndice /\ InvMuere
          /\ RegistroPropio /\ InvInserta /\ InvNum

\* SIGTERM caught the owner of the semaphore.  A launcher's handler waits for
\* what its own process holds; the supervisor's never ends, and SEM_UNDO does
\* nothing for a process that lives.  Everybody else waits from then on.
Atascado ==
  \/ \E p \in Lanzadores : vuelve[p] = "muere" /\ pc[p] = "bor_lock" /\ Dueno(p)
  \/ \E q \in Supervisores : pc[q] = "cleanup" /\ Dueno(q)

\* Whoever is killed inside the critical section, a launcher that has started
\* to register gets to serve or dies: SEM_UNDO gives the semaphore back.  What
\* can stop it is a SIGTERM that catches a process with the semaphore: a launcher
\* in inserta_proceso or in the borra_proceso of its sweep, a supervisor in
\* borra_proceso or any other critical section.  (Lock, api_blk.c; interceptor,
\* start.c:255; CleanUp, supervisor.c:1239.)
ArranqueTermina ==
  \A p \in Lanzadores :
    pc[p] = "inserta" ~> pc[p] \in {"acepta", "muerto"} \/ Atascado

\* The supervisor keeps leaving the rest of its loop for a sweep, and is in the
\* end neither killed nor stopped.  That its sweeps end is not assumed.
SigueRepasando(q) ==
  /\ []<>(pc[q] \notin {"nuevo", "reposo", "critica"})
  /\ <>[](pc[q] \notin {"muerto", "cleanup"})

\* While some supervisor keeps sweeping, the record of a dead launcher does not
\* stay in the part of the table that the sweeps visit, whatever is removed and
\* registered under the sweep's unlocked reads.  The loop of the supervisor does
\* not promise the sweeps, and after a SIGTERM there are none.
\* (Limpia_procesos_tabla, procesos.c; SocketsEventLoop, supervisor.c.)
LimpiezaCompleta ==
  \A p \in Lanzadores, s \in Revisados :
    (\E q \in Supervisores : SigueRepasando(q)) =>
      (pid[s] = p /\ pc[p] = "muerto" ~> pid[s] # p \/ Atascado)

\* chequeo_peticiones "chequea los pids de la tabla y borra los que no
\* existan": a record is cleared only if its process does not exist.
SoloBorraInexistentes ==
  [][\A s \in Ocupados : pid'[s] = SinPid => ~Existe(pid[s])]_vars
=============================================================================
