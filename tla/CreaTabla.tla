------------------------------ MODULE CreaTabla ------------------------------
(***************************************************************************)
(* The creation and the attachment of the tables: crea_tabla and what it   *)
(* calls (Map2SharedMem, SemCreate, sm_create), by launchers that register *)
(* (inserta_proceso), by the supervisor for each of its installations      *)
(* (checkSHM) and by the tool resetFecha.                                  *)
(*                                                                         *)
(* An installation is a number, which is also its IPC key; a size is a     *)
(* number of records.  The library has one static "tabla" and one          *)
(* "locksem" per process, the supervisor one pointer per installation.     *)
(* Any process may be killed at any point; the kernel gives back the lock  *)
(* (SEM_UNDO).  The supervisor may be sent SIGTERM at any point: it stops, *)
(* alive, with the lock if it had it.  A critical section or a sweep over  *)
(* an existing table is one step: ApiShm takes them apart, and has the     *)
(* SIGTERM of the launchers and the other ways a record is removed.        *)
(***************************************************************************)
EXTENDS Integers, FiniteSets

CONSTANTS
  Lanzadores, Supervisor, ResetFecha,   \* the processes
  Nadie,
  Instalations,      \* config.Instalations
  MaxProcess,        \* bound: records of a table
  TamHerramienta,    \* the size that the operator gives to the tool
  Configuraciones,   \* [de: the installation of each launcher and of the tool,
                     \* maxProcess: in the configuration file of each installation]
  MaxPercances       \* bound: processes killed, and shmget or semget that fail

Procesos == Lanzadores \cup {Supervisor, ResetFecha}
Instalaciones == 1..Instalations
Registros == 1..(MaxProcess + 1)

ASSUME CreaTablaAssumption ==
  /\ Instalations \in Nat \ {0} /\ MaxProcess \in Nat \ {0} /\ TamHerramienta \in 0..MaxProcess
  /\ Supervisor # ResetFecha /\ {Supervisor, ResetFecha} \cap Lanzadores = {}
  /\ Nadie \notin Procesos
  /\ Configuraciones \subseteq [de : [Lanzadores \cup {ResetFecha} -> Instalaciones],
                                maxProcess : [Instalaciones -> 1..MaxProcess]]
  /\ MaxPercances \in Nat

NULL == 0     \* of a pointer, and of locksem (-1 in the code)
Mala == -1    \* what shmat returns for an identifier that is not one
NoHay == -1   \* the size of a segment, and the value of a semaphore, not created

VARIABLES
  segmento,    \* [tam, max: num_max_procesos, num: num_proc_registrados, pid]
  semaforo,    \* its value
  dentro,      \* who has it
  pc, tabla, locksem,
  creada,      \* shm_creada
  tPos,        \* the launcher's record
  tablas, i,   \* the supervisor's tabla[] and the installation it is at
  config,
  percances,   \* killed, and failed, so far
  iniciada,    \* history: the table has had its first values
  antes        \* history: launchers registered before that

recursos == <<segmento, semaforo, dentro, iniciada, antes>>
deSupervisor == <<tablas, i>>
vars == <<recursos, pc, tabla, locksem, creada, tPos, deSupervisor, config, percances>>

Vivo(p) == pc[p] # "muerto"

\* The key and the size with which a process calls crea_tabla.  The supervisor
\* reads the files of all the installations into the first place of its
\* configuration (contador_lectura is never incremented).
Clave(p) == IF p = Supervisor THEN i ELSE config.de[p]
Conf(p) ==
  CASE p = Supervisor -> IF i = 1 THEN config.maxProcess[Instalations] ELSE 0
    [] p = ResetFecha -> TamHerramienta
    [] OTHER -> config.maxProcess[config.de[p]]

Vacia(tam) == [tam |-> tam, max |-> 0, num |-> 0, pid |-> [r \in Registros |-> Nadie]]

Init ==
  /\ segmento = [k \in Instalaciones |-> Vacia(NoHay)]
  /\ semaforo = [k \in Instalaciones |-> NoHay] /\ dentro = [k \in Instalaciones |-> Nadie]
  /\ pc = [p \in Procesos |-> IF p = Supervisor THEN "repasa" ELSE "mapea"]
  /\ tabla = [p \in Procesos |-> NULL] /\ locksem = [p \in Procesos |-> NULL]
  /\ creada = [p \in Procesos |-> FALSE] /\ tPos = [p \in Lanzadores |-> 0]
  /\ tablas = [k \in Instalaciones |-> NULL] /\ i = 1
  /\ config \in Configuraciones
  /\ percances = 0
  /\ iniciada = [k \in Instalaciones |-> FALSE] /\ antes = [k \in Instalaciones |-> 0]

-----------------------------------------------------------------------------
(* crea_tabla. *)
En(p, lugar) == pc[p] = lugar
Pasa(p, lugar) == pc' = [pc EXCEPT ![p] = lugar]

\* Where a process goes on after crea_tabla.
TrasExito(p) ==
  CASE p = Supervisor -> "asigna" [] p = ResetFecha -> "suma" [] OTHER -> "inserta"
TrasError(p) ==
  CASE p = Supervisor -> "bucle" [] p = ResetFecha -> "muerto" [] OTHER -> "atiende"

Percance == percances < MaxPercances /\ percances' = percances + 1

\* Map2SharedMem: shmget with IPC_EXCL creates the segment, full of zeros.
MapeaCrea(p) ==
  /\ En(p, "mapea") /\ segmento[Clave(p)].tam = NoHay
  /\ segmento' = [segmento EXCEPT ![Clave(p)] = Vacia(Conf(p))]
  /\ tabla' = [tabla EXCEPT ![p] = Clave(p)] /\ creada' = [creada EXCEPT ![p] = TRUE]
  /\ Pasa(p, "semaforo")
  /\ UNCHANGED <<semaforo, dentro, iniciada, antes, locksem, tPos, deSupervisor, config, percances>>

Mapeada(p, valor) ==
  /\ tabla' = [tabla EXCEPT ![p] = valor] /\ creada' = [creada EXCEPT ![p] = FALSE]
  /\ UNCHANGED <<recursos, locksem, tPos, deSupervisor, config>>

\* Mutant: shm_creada is TRUE for whoever attaches.
MapeaUneCreada(p) ==
  /\ En(p, "mapea") /\ segmento[Clave(p)].tam >= Conf(p) /\ segmento[Clave(p)].tam # NoHay
  /\ tabla' = [tabla EXCEPT ![p] = Clave(p)] /\ creada' = [creada EXCEPT ![p] = TRUE]
  /\ Pasa(p, "semaforo")
  /\ UNCHANGED <<recursos, locksem, tPos, deSupervisor, config, percances>>

\* It exists, and is attached if it is as large as it is asked for.
MapeaUne(p) ==
  /\ En(p, "mapea") /\ segmento[Clave(p)].tam >= Conf(p) /\ segmento[Clave(p)].tam # NoHay
  /\ Mapeada(p, Clave(p)) /\ Pasa(p, "semaforo") /\ UNCHANGED percances

MapeaNoCabe(p) ==
  /\ En(p, "mapea") /\ segmento[Clave(p)].tam < Conf(p) /\ segmento[Clave(p)].tam # NoHay
  /\ Mapeada(p, NULL) /\ Pasa(p, TrasError(p)) /\ UNCHANGED percances

\* Another error: what shmat(-1) returns is not NULL, and taken for a table.
MapeaFalla(p) ==
  /\ En(p, "mapea") /\ segmento[Clave(p)].tam = NoHay
  /\ Percance
  /\ Mapeada(p, Mala) /\ Pasa(p, "semaforo")

\* sm_create: semget with IPC_EXCL, SETVAL by who has created it.
Semaforo(p, clave) ==
  /\ En(p, "semaforo")
  /\ locksem' = [locksem EXCEPT ![p] = clave]
  /\ UNCHANGED <<segmento, dentro, iniciada, antes, tabla, creada, tPos, deSupervisor, config>>

SemCrea(p) ==
  /\ Semaforo(p, Clave(p)) /\ semaforo[Clave(p)] = NoHay
  /\ semaforo' = [semaforo EXCEPT ![Clave(p)] = 0]
  /\ Pasa(p, "setval") /\ UNCHANGED percances

SetVal(p) ==
  /\ En(p, "setval")
  /\ semaforo' = [semaforo EXCEPT ![Clave(p)] = 1]
  /\ Pasa(p, IF creada[p] THEN "lock" ELSE TrasExito(p))
  /\ UNCHANGED <<segmento, dentro, iniciada, antes, tabla, locksem, creada, tPos, deSupervisor, config, percances>>

\* Mutant: without IPC_EXCL everybody sets the value.
SemUsaPone(p) ==
  /\ Semaforo(p, Clave(p)) /\ semaforo[Clave(p)] # NoHay
  /\ Pasa(p, "setval")
  /\ UNCHANGED <<semaforo, percances>>

\* Mutant: the semaphore is looked up once per process.
SemUsaUnaVez(p) ==
  /\ Semaforo(p, IF locksem[p] = NULL THEN Clave(p) ELSE locksem[p]) /\ semaforo[Clave(p)] # NoHay
  /\ Pasa(p, IF creada[p] THEN "lock" ELSE TrasExito(p))
  /\ UNCHANGED <<semaforo, percances>>

\* EEXIST.
SemUsa(p) ==
  /\ Semaforo(p, Clave(p)) /\ semaforo[Clave(p)] # NoHay
  /\ Pasa(p, IF creada[p] THEN "lock" ELSE TrasExito(p))
  /\ UNCHANGED <<semaforo, percances>>

\* ERR_SEM_OPEN: the table stays attached, without a semaphore.
SemFalla(p) ==
  /\ Semaforo(p, NULL) /\ semaforo[Clave(p)] = NoHay
  /\ Percance
  /\ Pasa(p, TrasError(p)) /\ UNCHANGED semaforo

\* The first values, by who has created the segment.
Lock(p) ==
  /\ En(p, "lock") /\ semaforo[locksem[p]] = 1
  /\ semaforo' = [semaforo EXCEPT ![locksem[p]] = 0] /\ dentro' = [dentro EXCEPT ![locksem[p]] = p]
  /\ Pasa(p, "num")
  /\ UNCHANGED <<segmento, iniciada, antes, tabla, locksem, creada, tPos, deSupervisor, config, percances>>

PoneNum(p) ==
  /\ En(p, "num")
  /\ segmento' = [segmento EXCEPT ![tabla[p]].num = 0] /\ iniciada' = [iniciada EXCEPT ![tabla[p]] = TRUE]
  /\ Pasa(p, "max")
  /\ UNCHANGED <<semaforo, dentro, antes, tabla, locksem, creada, tPos, deSupervisor, config, percances>>

\* Mutant: the lock is not given back.
PoneMaxSinUnlock(p) ==
  /\ En(p, "max")
  /\ segmento' = [segmento EXCEPT ![tabla[p]].max = Conf(p)]
  /\ Pasa(p, TrasExito(p)) /\ creada' = [creada EXCEPT ![p] = FALSE]
  /\ UNCHANGED <<semaforo, dentro, iniciada, antes, tabla, locksem, tPos, deSupervisor, config, percances>>

PoneMax(p) ==
  /\ En(p, "max")
  /\ segmento' = [segmento EXCEPT ![tabla[p]].max = Conf(p)]
  /\ semaforo' = [semaforo EXCEPT ![locksem[p]] = 1] /\ dentro' = [dentro EXCEPT ![locksem[p]] = Nadie]
  /\ Pasa(p, TrasExito(p)) /\ creada' = [creada EXCEPT ![p] = FALSE]
  /\ UNCHANGED <<iniciada, antes, tabla, locksem, tPos, deSupervisor, config, percances>>

crea_tabla(p) ==
  \/ MapeaCrea(p) \/ MapeaUne(p) \/ MapeaNoCabe(p)
  \/ SemCrea(p) \/ SetVal(p) \/ SemUsa(p) \/ Lock(p) \/ PoneNum(p) \/ PoneMax(p)

-----------------------------------------------------------------------------
(* What they do with the table. *)

\* The memory of a process that ends goes with it.
Desaparece(p) ==
  /\ tabla' = [tabla EXCEPT ![p] = NULL] /\ locksem' = [locksem EXCEPT ![p] = NULL]
  /\ creada' = [creada EXCEPT ![p] = FALSE]
  /\ tPos' = [q \in Lanzadores |-> IF q = p THEN 0 ELSE tPos[q]]
  /\ IF p = Supervisor THEN tablas' = [k \in Instalaciones |-> NULL] /\ i' = 1 ELSE UNCHANGED <<tablas, i>>

\* Lock ends the process if it has no semaphore, and the first look at a bad
\* pointer does.
Usable(p) == tabla[p] \in Instalaciones /\ locksem[p] # NULL
Acaba(p) ==
  /\ Pasa(p, "muerto") /\ Desaparece(p)
  /\ UNCHANGED <<recursos, config, percances>>
Cerrojo(p) == Usable(p) /\ semaforo[locksem[p]] = 1

SinTabla(p) == pc[p] \in {"inserta", "suma"} /\ ~Usable(p) /\ Acaba(p)

\* inserta_proceso, from Lock to Unlock; the scan goes one past the table.
Libres(k) == {r \in 1..(segmento[k].max + 1) : segmento[k].pid[r] = Nadie}
Inserta(p) ==
  /\ En(p, "inserta") /\ Cerrojo(p)
  /\ LET k == tabla[p]
     IN  \/ /\ Libres(k) = {} /\ tPos' = [tPos EXCEPT ![p] = 0]
            /\ UNCHANGED <<segmento, antes>>
         \/ \E r \in Libres(k) :
              /\ \A s \in Libres(k) : r <= s
              /\ tPos' = [tPos EXCEPT ![p] = r]
              /\ segmento' = [segmento EXCEPT ![k].pid[r] = p, ![k].num = @ + 1]
              /\ antes' = IF iniciada[k] THEN antes ELSE [antes EXCEPT ![k] = @ + 1]
  /\ Pasa(p, "chequea")
  /\ UNCHANGED <<semaforo, dentro, iniciada, tabla, locksem, creada, deSupervisor, config, percances>>

Muertos(k) ==
  {r \in 1..segmento[k].max : segmento[k].pid[r] # Nadie /\ ~Vivo(segmento[k].pid[r])}

\* borra_proceso of the records rs of table k.
Barre(k, rs) ==
  LET n == segmento[k].num - Cardinality(rs)
  IN  segmento' = [segmento EXCEPT ![k].pid = [r \in Registros |-> IF r \in rs THEN Nadie ELSE @[r]],
                                   ![k].num = IF n < 0 THEN 0 ELSE n]

\* chequeo_peticiones.
Chequea(p) ==
  /\ En(p, "chequea")
  /\ IF Muertos(tabla[p]) = {} THEN UNCHANGED segmento
     ELSE Cerrojo(p) /\ Barre(tabla[p], Muertos(tabla[p]))
  /\ Pasa(p, "atiende")
  /\ UNCHANGED <<semaforo, dentro, iniciada, antes, tabla, locksem, creada, tPos, deSupervisor, config, percances>>

\* After a request, a launcher without a record tries again.
Reintenta(p) ==
  /\ En(p, "atiende") /\ tPos[p] = 0
  /\ Pasa(p, IF tabla[p] = NULL THEN "mapea" ELSE "inserta")
  /\ UNCHANGED <<recursos, tabla, locksem, creada, tPos, deSupervisor, config, percances>>

\* resetFecha: the date, and the counters read under the lock.
Suma ==
  /\ En(ResetFecha, "suma") /\ Cerrojo(ResetFecha)
  /\ Acaba(ResetFecha)

-----------------------------------------------------------------------------
(* The supervisor. *)

\* Mutant: the last installation is left out.
RepasaMenos ==
  /\ En(Supervisor, "repasa")
  /\ Pasa(Supervisor, IF i >= Instalations THEN "bucle" ELSE IF tablas[i] = NULL THEN "mapea" ELSE "asigna")
  /\ UNCHANGED <<recursos, tabla, locksem, creada, tPos, deSupervisor, config, percances>>

\* checkSHM, one installation after the other.
Repasa ==
  /\ En(Supervisor, "repasa")
  /\ Pasa(Supervisor, IF i > Instalations THEN "bucle" ELSE IF tablas[i] = NULL THEN "mapea" ELSE "asigna")
  /\ UNCHANGED <<recursos, tabla, locksem, creada, tPos, deSupervisor, config, percances>>

\* tabla[i] = con_tabla_sinSem(0): the table that the library has, whichever
\* installation it is of.
Asigna ==
  /\ En(Supervisor, "asigna")
  /\ tablas' = [tablas EXCEPT ![i] = tabla[Supervisor]]
  /\ IF tablas'[i] = NULL THEN i' = i + 1 /\ Pasa(Supervisor, "repasa")
     ELSE UNCHANGED i /\ Pasa(Supervisor, "limpia")
  /\ UNCHANGED <<recursos, tabla, locksem, creada, tPos, config, percances>>

\* Limpia_procesos_tabla looks at tabla[i]; borra_proceso works on the
\* library's.
PunteroMalo == Mala \in {tablas[i], tabla[Supervisor]}
Limpia ==
  /\ En(Supervisor, "limpia") /\ ~PunteroMalo
  /\ LET t == tabla[Supervisor]
         rs == {r \in Muertos(tablas[i]) : t # NULL /\ segmento[t].pid[r] # Nadie}
     IN  IF rs = {} THEN UNCHANGED segmento ELSE Cerrojo(Supervisor) /\ Barre(t, rs)
  /\ i' = i + 1 /\ Pasa(Supervisor, "repasa")
  /\ UNCHANGED <<semaforo, dentro, iniciada, antes, tabla, locksem, creada, tPos, tablas, config,
                 percances>>

\* A bad pointer, or no semaphore.
LimpiaAcaba ==
  /\ En(Supervisor, "limpia")
  /\ IF PunteroMalo THEN TRUE ELSE Muertos(tablas[i]) # {} /\ locksem[Supervisor] = NULL
  /\ Acaba(Supervisor)

\* The rest of the loop, and the next turn.
Bucle ==
  /\ En(Supervisor, "bucle") /\ Pasa(Supervisor, "repasa") /\ i' = 1
  /\ UNCHANGED <<recursos, tabla, locksem, creada, tPos, tablas, config, percances>>

-----------------------------------------------------------------------------
\* SIGKILL, with the adjustment of the semaphore.
Muere(p) ==
  /\ Vivo(p) /\ Percance
  /\ Pasa(p, "muerto") /\ Desaparece(p)
  /\ semaforo' = [k \in Instalaciones |-> IF dentro[k] = p THEN 1 ELSE semaforo[k]]
  /\ dentro' = [k \in Instalaciones |-> IF dentro[k] = p THEN Nadie ELSE dentro[k]]
  /\ UNCHANGED <<segmento, iniciada, antes, config>>

\* SIGTERM to the supervisor.  CleanUp never goes back to the interrupted code
\* and does not end the process, which keeps the semaphore if it had it: for the
\* first values, to remove a record, to write a snapshot or to reset.
CleanUp ==
  /\ pc[Supervisor] \notin {"muerto", "cleanup"}
  /\ Pasa(Supervisor, "cleanup")
  /\ \/ UNCHANGED <<semaforo, dentro>>
     \/ /\ pc[Supervisor] \in {"limpia", "bucle"} /\ Cerrojo(Supervisor)
        /\ semaforo' = [semaforo EXCEPT ![locksem[Supervisor]] = 0]
        /\ dentro' = [dentro EXCEPT ![locksem[Supervisor]] = Supervisor]
  /\ UNCHANGED <<segmento, iniciada, antes, tabla, locksem, creada, tPos, deSupervisor, config,
                 percances>>

DeLanzador(p) == Inserta(p) \/ Chequea(p)
DeSupervisor == Repasa \/ Asigna \/ Limpia \/ LimpiaAcaba

\* What a process does by itself.
Paso(p) ==
  \/ crea_tabla(p) \/ SinTabla(p)
  \/ p \in Lanzadores /\ DeLanzador(p)
  \/ p = ResetFecha /\ Suma
  \/ p = Supervisor /\ DeSupervisor

Next ==
  \/ \E p \in Procesos : Paso(p) \/ MapeaFalla(p) \/ SemFalla(p) \/ Muere(p)
  \/ \E p \in Lanzadores : Reintenta(p)
  \/ Bucle \/ CleanUp

\* The kernel runs who can run; nobody has to start, to be killed or to fail,
\* no request or reload has to come, and the rest of the supervisor's loop, which
\* may sleep in accept, recv or send, need not end.
Spec == Init /\ [][Next]_vars /\ \A p \in Procesos : WF_vars(Paso(p))

-----------------------------------------------------------------------------
(* Properties. *)
Lugares == {"mapea", "semaforo", "setval", "lock", "num", "max", "inserta", "chequea",
            "atiende", "suma", "repasa", "asigna", "limpia", "bucle", "cleanup", "muerto"}
Punteros == Instalaciones \cup {NULL, Mala}
Segmentos == [tam : 0..MaxProcess \cup {NoHay}, max : 0..MaxProcess, num : Nat,
              pid : [Registros -> Procesos \cup {Nadie}]]

\* Type correctness.
TypeOK ==
  /\ segmento \in [Instalaciones -> Segmentos]
  /\ semaforo \in [Instalaciones -> {NoHay, 0, 1}]
  /\ dentro \in [Instalaciones -> Procesos \cup {Nadie}]
  /\ pc \in [Procesos -> Lugares]
  /\ tabla \in [Procesos -> Punteros] /\ locksem \in [Procesos -> Instalaciones \cup {NULL}]
  /\ creada \in [Procesos -> BOOLEAN] /\ tPos \in [Lanzadores -> Registros \cup {0}]
  /\ tablas \in [Instalaciones -> Punteros] /\ i \in 1..(Instalations + 1)
  /\ config \in Configuraciones
  /\ percances \in 0..MaxPercances
  /\ iniciada \in [Instalaciones -> BOOLEAN] /\ antes \in [Instalaciones -> Nat]

\* The semaphore of a table has been created and has no value yet: whoever
\* dies or stops there leaves it so.
SinValor(k) == \E p \in Procesos : En(p, "setval") /\ Clave(p) = k
Huerfano(k) == semaforo[k] = 0 /\ dentro[k] = Nadie /\ ~SinValor(k)

\* The supervisor has stopped with it.
Retenido(k) == dentro[k] = Supervisor /\ En(Supervisor, "cleanup")

\* SETVAL never finds the semaphore in use, whoever creates it and whoever the
\* segment: it is 0 while somebody has it and while it waits for its value.
\* (sm_create, crea_tabla.)
SemaforoExacto ==
  \A k \in Instalaciones :
    /\ dentro[k] # Nadie => semaforo[k] = 0
    /\ SinValor(k) => semaforo[k] = 0 /\ dentro[k] = Nadie

\* Whoever works on a table has, or is about to take, the semaphore of that
\* table, although a process has one "tabla" and one "locksem" for all the
\* installations and sets them in two calls, either of which may fail.
\* (Map2SharedMem, SemCreate, Lock.)
SuCerrojo ==
  \A p \in Procesos :
    /\ pc[p] \in {"num", "max"} => dentro[tabla[p]] = p
    /\ pc[p] \in {"lock", "inserta", "chequea", "suma", "limpia"} /\ Usable(p) => locksem[p] = tabla[p]

Ocupados(k) == {r \in Registros : segmento[k].pid[r] # Nadie}

\* num_proc_registrados is what it should be but for the launchers that
\* registered before the creator of the segment put its first values (one at
\* most: until then the table has one place): never above, and below by no more.
\* (crea_tabla, inserta_proceso.)
NumSoloPierdePrimeros ==
  \A k \in Instalaciones :
    /\ antes[k] <= 1
    /\ segmento[k].num <= Cardinality(Ocupados(k))
    /\ segmento[k].num + antes[k] >= Cardinality(Ocupados(k))

\* What SuCerrojo rests on.  A process between two calls of crea_tabla has the
\* installation it is at in "tabla", or a bad pointer, and in "locksem" from
\* then on; the supervisor goes on with what the library has.
PunterosDe(p) ==
  /\ pc[p] \in {"semaforo", "setval"} =>
       /\ tabla[p] \in {Clave(p), Mala}
       /\ creada[p] => tabla[p] = Clave(p)
  /\ pc[p] \in {"setval", "lock", "num", "max"} => locksem[p] = Clave(p)
  /\ pc[p] \in {"lock", "num", "max"} => tabla[p] = Clave(p)
  /\ pc[p] \notin {"semaforo", "cleanup"} /\ Usable(p) => locksem[p] = tabla[p]
  /\ pc[p] = "chequea" => Usable(p)
InvPunteros ==
  /\ \A p \in Procesos : PunterosDe(p)
  /\ pc[Supervisor] \notin {"repasa", "bucle", "cleanup", "muerto"} => i \in Instalaciones
  /\ pc[Supervisor] = "limpia" => tablas[i] = tabla[Supervisor] /\ tablas[i] # NULL

\* What SemaforoExacto rests on: a semaphore waits for one process to give it
\* its value, and who is inside has it.
InvSemaforo ==
  /\ SemaforoExacto
  /\ \A p, q \in Procesos :
       En(p, "setval") /\ En(q, "setval") /\ Clave(p) = Clave(q) => p = q
  /\ \A p \in Procesos : pc[p] \in {"num", "max"} => dentro[tabla[p]] = p

\* What NumSoloPierdePrimeros rests on: one process at most is to give a segment
\* its first values, and until then it has one place.
Iniciando(p) ==
  pc[p] \in {"lock", "num"} \/ (pc[p] \in {"semaforo", "setval"} /\ creada[p])
InvIniciando ==
  /\ \A p \in Procesos :
       /\ tabla[p] \in Instalaciones => segmento[tabla[p]].tam # NoHay
       /\ Iniciando(p) => ~iniciada[tabla[p]]
       /\ pc[p] = "max" => iniciada[tabla[p]]
  /\ \A p, q \in Procesos :
       Iniciando(p) /\ Iniciando(q) /\ tabla[p] = tabla[q] => p = q
  /\ \A k \in Instalaciones : segmento[k].tam = NoHay => ~iniciada[k]

InvPrimeros ==
  \A k \in Instalaciones :
    /\ segmento[k].tam = NoHay => antes[k] = 0
    /\ ~iniciada[k] =>
         /\ segmento[k].max = 0 /\ Ocupados(k) \subseteq {1}
         /\ segmento[k].num = antes[k] /\ Cardinality(Ocupados(k)) = antes[k]

IInv ==
  /\ TypeOK /\ InvPunteros /\ InvSemaforo
  /\ InvIniciando /\ InvPrimeros /\ NumSoloPierdePrimeros

\* A launcher that starts gets to serve or dies, however creation and first
\* values overlap, unless the creator of the semaphore died or stopped before
\* SETVAL, or the supervisor stopped with the semaphore.  (crea_tabla, CleanUp;
\* that a launcher stops with it is in ApiShm.)
LlegaAServir ==
  \A p \in Lanzadores :
    LET k == config.de[p]
    IN  pc[p] = "mapea" ~> (pc[p] \in {"atiende", "muerto"} \/ Huerfano(k) \/ Retenido(k))

\* The supervisor asks for more than the first table has, and never goes on.
Rechazado == segmento[1].tam # NoHay /\ segmento[1].tam < config.maxProcess[Instalations]

\* While the rest of the supervisor's loop comes to its end, the dead are removed
\* from the table of the last installation, unless the supervisor has died or
\* stopped, was refused, or waits for a semaphore that nobody will give.
\* (checkSHM, SocketsEventLoop.)
BarreUltima ==
  []<>(pc[Supervisor] # "bucle") =>
    \A r \in Registros :
      r \in Muertos(Instalations) ~>
        \/ r \notin Muertos(Instalations)
        \/ pc[Supervisor] \in {"muerto", "cleanup"} \/ Rechazado
        \/ \E k \in Instalaciones : Huerfano(k)

=============================================================================
