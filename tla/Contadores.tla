----------------------------- MODULE Contadores -----------------------------
(***************************************************************************)
(* The statistics kept in the shared table, on top of ApiShm: the counters *)
(* of each record, the totals that removed records leave, and the partials *)
(* already written to the history file.  The five counters (and the time)  *)
(* are copied, added and cleared together, so one stands for all of them.  *)
(*                                                                         *)
(* A launcher counts a request with get, ++ and put (incrementaContPro),   *)
(* none of them under the lock; borra_proceso adds the record's counter to *)
(* the total and does not clear it; WriteStatSnapshot reads the table      *)
(* record by record without the lock and locks only to move the partial;   *)
(* resetFecha clears everything under the lock.                            *)
(*                                                                         *)
(* Every step is a step of ApiShm with its effect on the counters, or a    *)
(* step that leaves the registration alone.  The extra record is registered *)
(* but the supervisor does not look at it, here as there.  The web server   *)
(* does not die here: to the counters, the removal of an orphan is that of  *)
(* an idle launcher.                                                        *)
(***************************************************************************)
EXTENDS ApiShm, FiniteSetsExt

CONSTANTS
  MaxPeticiones,   \* bound on the requests that launchers serve
  Basura,          \* what an uninitialised procesoAux may hold
  ConReset         \* TRUE iff clients of the supervisor ask for resets

ASSUME ContadoresAssumption ==
  /\ MaxPeticiones \in Nat
  /\ Basura \subseteq Nat /\ Basura # {}
  /\ ConReset \in BOOLEAN

VARIABLES
  cont,      \* dproceso[].pEjecutadasOK
  total,     \* dglobal.totalEjecutadas
  parcial,   \* dglobal.parcialEjecutadas
  pet,       \* where each process is in a request, or in a snapshot
  aux,       \* procesoAux of a launcher, auxEjecutadas of the supervisor
  propio,    \* fProcess.dProcess.pEjecutadasOK
  lee,       \* the supervisor's index j
  resetea,   \* supervisors whose snapshot was asked for by resetFecha
  pedidas,   \* requests served (bounded by MaxPeticiones)
  puestas,   \* history: requests put in the sender's own record since the reset
  escrito,   \* history: sum of the snapshots in the file since the reset
  limpio     \* history: none of the accidents listed at CuentaExacta happened

cuentas == <<cont, total, parcial>>
historia == <<puestas, escrito, limpio>>
progreso == <<pet, aux, propio, lee, resetea, pedidas>>
contVars == <<cuentas, historia, progreso>>
varsC == <<vars, contVars>>

InitC ==
  /\ Init
  /\ cont = [s \in Registros |-> 0]
  /\ total = 0 /\ parcial = 0
  /\ pet = [p \in Procs |-> "libre"]
  /\ aux = [p \in Procs |-> 0]
  /\ propio = [p \in Lanzadores |-> 0]
  /\ lee = [q \in Supervisores |-> 1]
  /\ resetea = {}
  /\ pedidas = 0 /\ puestas = 0 /\ escrito = 0
  /\ limpio = TRUE

Esta(p, l) == pet[p] = l
Pasa(p, l) == pet' = [pet EXCEPT ![p] = l]

-----------------------------------------------------------------------------
(* Registration and removal, with their counters. *)
\* The launcher's counters are written after its pid, still under the lock.
InsertaSaleC(p) ==
  /\ InsertaSale(p)
  /\ cont' = [cont EXCEPT ![tPos[p]] = propio[p]]
  /\ limpio' = (limpio /\ propio[p] = 0)
  /\ UNCHANGED <<total, parcial, puestas, escrito, progreso>>

BorraCeroC(p) ==
  /\ BorraCero(p)
  /\ limpio' = (limpio /\ pid[id[p]] # SinPid)
  /\ UNCHANGED <<cuentas, puestas, escrito, progreso>>

\* The record's counter is added to the total; the record keeps it.
BorraSumaC(p) ==
  /\ BorraSuma(p)
  /\ total' = total + cont[id[p]]
  /\ UNCHANGED <<cont, parcial, historia, progreso>>

\* A process that stops between two writes of a critical section.
AMedias(p) ==
  pc[p] \in {"ins_sale", "bor_suma"} \/ (pc[p] = "critica" /\ Esta(p, "reset"))

Corta(p) ==
  /\ \/ Muere(p)
     \/ p \in Lanzadores /\ RecibeTerm(p)
     \/ p \in Supervisores /\ CleanUp(p)
  /\ limpio' = (limpio /\ ~AMedias(p))
  /\ UNCHANGED <<cuentas, puestas, escrito, progreso>>

\* The steps of the table that do not touch a counter.
LanzadorIgual(p) ==
  /\ \/ ArrancaLanzador(p)
     \/ InsertaEntra(p) \/ InsertaLlena(p) \/ InsertaEscribe(p)
     \/ ChequeoBorra(p) \/ ChequeoSigue(p) \/ ChequeoFin(p)
     \/ Suicidio(p)
     \/ Esta(p, "libre") /\ SaleDelBucle(p)
  /\ UNCHANGED contVars

\* Those of any process: a removal before it writes, and a SIGTERM sent to it.
ProcesoIgual(p) ==
  /\ BorraVacio(p) \/ BorraMira(p) \/ BorraLock(p) \/ EnviaTerm(p)
  /\ UNCHANGED contVars

SupervisorIgual(q) ==
  /\ Esta(q, "libre")
  /\ \/ LimpiaEmpieza(q) \/ LimpiaFin(q) \/ LimpiaVacio(q) \/ LimpiaOcupado(q)
     \/ LimpiaMuerto(q) \/ LimpiaVivo(q) \/ LimpiaFecha(q) \/ LimpiaPid(q)
     \/ LimpiaInactivo(q) \/ LimpiaActivo(q) \/ LimpiaSigue(q)
  /\ UNCHANGED contVars

\* A supervisor that starts again has forgotten the snapshot it was at.
ArrancaSupervisorC(q) ==
  /\ ArrancaSupervisor(q)
  /\ Pasa(q, "libre")
  /\ resetea' = resetea \ {q}
  /\ UNCHANGED <<cuentas, historia, aux, propio, lee, pedidas>>

-----------------------------------------------------------------------------
(* A launcher counts a request: incrementaContPro. *)
Mio(p) == tPos[p] \in Registros /\ pid[tPos[p]] = p

Pide(p) ==
  /\ pc[p] = "acepta" /\ Esta(p, "libre")
  /\ pedidas < MaxPeticiones
  /\ pedidas' = pedidas + 1
  /\ Pasa(p, "get")
  /\ UNCHANGED <<vars, cuentas, historia, aux, propio, lee, resetea>>

\* getContadoresProceso; when it fails procesoAux keeps what it had, because
\* the if is closed by a semicolon.
GetContadores(p) ==
  /\ pc[p] = "acepta" /\ Esta(p, "get")
  /\ \E v \in IF Mio(p) THEN {cont[tPos[p]]} ELSE Basura :
       aux' = [aux EXCEPT ![p] = v]
  /\ Pasa(p, "mira")
  /\ UNCHANGED <<vars, cuentas, historia, propio, lee, resetea, pedidas>>

\* The tests of putContadoresProceso; fProcess takes the value either way.
PutMira(p) ==
  /\ pc[p] = "acepta" /\ Esta(p, "mira")
  /\ Pasa(p, IF Mio(p) THEN "pone" ELSE "fin")
  /\ propio' = [propio EXCEPT ![p] = aux[p] + 1]
  /\ UNCHANGED <<vars, cuentas, historia, aux, lee, resetea, pedidas>>

\* Mutant: the counter is put without its increment.
PutEscribeIgual(p) ==
  /\ pc[p] = "acepta" /\ Esta(p, "pone")
  /\ cont' = [cont EXCEPT ![tPos[p]] = aux[p]]
  /\ puestas' = puestas + 1
  /\ limpio' = (limpio /\ Mio(p))
  /\ Pasa(p, "fin")
  /\ UNCHANGED <<vars, total, parcial, escrito, aux, propio, lee, resetea, pedidas>>

PutEscribe(p) ==
  /\ pc[p] = "acepta" /\ Esta(p, "pone")
  /\ cont' = [cont EXCEPT ![tPos[p]] = aux[p] + 1]
  /\ puestas' = puestas + 1
  /\ limpio' = (limpio /\ Mio(p))
  /\ Pasa(p, "fin")
  /\ UNCHANGED <<vars, total, parcial, escrito, aux, propio, lee, resetea, pedidas>>

\* The request ends: through piped_child (which may register again, and which
\* counts nothing when the program crashed), or as a rejection.
AcabaPeticion(p) ==
  /\ \/ Esta(p, "get") /\ Atiende(p)
     \/ Esta(p, "fin") /\ Atiende(p)
     \/ Esta(p, "fin") /\ pc[p] = "acepta" /\ UNCHANGED vars
  /\ Pasa(p, "libre")
  /\ UNCHANGED <<cuentas, historia, aux, propio, lee, resetea, pedidas>>

Cuenta(p) ==
  Pide(p) \/ GetContadores(p) \/ PutMira(p) \/ PutEscribe(p) \/ AcabaPeticion(p)

-----------------------------------------------------------------------------
(* The supervisor writes a snapshot (WriteStatSnapshot) and resets. *)
\* The interval has passed, or a client asked for a reset; the file opens.
FotoAbre(q) ==
  /\ pc[q] = "reposo" /\ Esta(q, "libre")
  /\ Pasa(q, "foto")
  /\ aux' = [aux EXCEPT ![q] = 0]
  /\ lee' = [lee EXCEPT ![q] = 1]
  /\ resetea' \in {resetea} \cup (IF ConReset THEN {resetea \cup {q}} ELSE {})
  /\ UNCHANGED <<vars, cuentas, historia, propio, pedidas>>

\* The file does not open: the snapshot is not taken and the reset goes on.
ResetSinFoto(q) ==
  /\ ConReset
  /\ pc[q] = "reposo" /\ Esta(q, "libre")
  /\ Pasa(q, "reset")
  /\ resetea' = resetea \cup {q}
  /\ UNCHANGED <<vars, cuentas, historia, aux, propio, lee, pedidas>>

FotoLee(q) ==
  /\ pc[q] = "reposo" /\ Esta(q, "foto") /\ lee[q] \in Revisados
  /\ aux' = [aux EXCEPT ![q] = @ + IF pid[lee[q]] # SinPid THEN cont[lee[q]] ELSE 0]
  /\ lee' = [lee EXCEPT ![q] = @ + 1]
  /\ UNCHANGED <<vars, cuentas, historia, pet, propio, resetea, pedidas>>

FotoTotales(q) ==
  /\ pc[q] = "reposo" /\ Esta(q, "foto") /\ lee[q] \notin Revisados
  /\ aux' = [aux EXCEPT ![q] = @ + total - parcial]
  /\ Pasa(q, "acumula")
  /\ UNCHANGED <<vars, cuentas, historia, propio, lee, resetea, pedidas>>

\* Lock() and Unlock() around the partials and around the reset.
CriticaEntra(q) ==
  /\ pet[q] \in {"acumula", "reset"}
  /\ SupLock(q)
  /\ UNCHANGED contVars

CriticaSale(q) ==
  /\ pet[q] \in {"escribe", "libre"}
  /\ SupUnlock(q)
  /\ UNCHANGED contVars

\* Mutant: the partial takes the total of this moment, not what was read.
FotoAcumulaTotal(q) ==
  /\ pc[q] = "critica" /\ Esta(q, "acumula")
  /\ parcial' = total
  /\ Pasa(q, "escribe")
  /\ UNCHANGED <<vars, cont, total, historia, aux, propio, lee, resetea, pedidas>>

\* The partials, with the lock.
FotoAcumula(q) ==
  /\ pc[q] = "critica" /\ Esta(q, "acumula")
  /\ parcial' = parcial + aux[q]
  /\ Pasa(q, "escribe")
  /\ UNCHANGED <<vars, cont, total, historia, aux, propio, lee, resetea, pedidas>>

FotoEscribe(q) ==
  /\ pc[q] = "reposo" /\ Esta(q, "escribe")
  /\ escrito' = escrito + aux[q]
  /\ Pasa(q, IF q \in resetea THEN "reset" ELSE "libre")
  /\ UNCHANGED <<vars, cuentas, puestas, limpio, aux, propio, lee, resetea, pedidas>>

\* The records that resetFecha clears.
Reseteados == {s \in Revisados : pid[s] # SinPid}
AContraReset(p) == Mio(p) /\ tPos[p] \in Reseteados /\ pet[p] \in {"mira", "pone"}

\* A record whose counter belongs to the process in it.
Asentado(s) ==
  pid[s] # SinPid /\ ~ \E p \in Lanzadores : pc[p] = "ins_sale" /\ tPos[p] = s

\* Counts in the extra record, which neither reset nor queries look at.
Oculto == IF Asentado(MaxProcesos + 1) THEN cont[MaxProcesos + 1] ELSE 0

\* Everything to 0, with the lock.  A supervisor stopped inside has cleared all
\* or nothing here and some of it there: either way it is an accident.
Reset(q) ==
  /\ pc[q] = "critica" /\ Esta(q, "reset")
  /\ total' = 0 /\ parcial' = 0
  /\ cont' = [s \in Registros |-> IF s \in Reseteados THEN 0 ELSE cont[s]]
  /\ escrito' = 0
  /\ puestas' = Oculto
  /\ limpio' = (limpio /\ ~ \E p \in Lanzadores : AContraReset(p))
  /\ resetea' = resetea \ {q}
  /\ Pasa(q, "libre")
  /\ UNCHANGED <<vars, aux, propio, lee, pedidas>>

Foto(q) ==
  CriticaEntra(q) \/ CriticaSale(q) \/ FotoAbre(q) \/ FotoLee(q) \/ FotoTotales(q) \/ FotoAcumula(q) \/ FotoEscribe(q)

-----------------------------------------------------------------------------
BorraC(p) == ProcesoIgual(p) \/ BorraCeroC(p) \/ BorraSumaC(p)

NextC ==
  \/ \E p \in Lanzadores :
       LanzadorIgual(p) \/ InsertaSaleC(p) \/ BorraC(p) \/ Cuenta(p)
  \/ \E q \in Supervisores :
       \/ SupervisorIgual(q) \/ ArrancaSupervisorC(q) \/ BorraC(q)
       \/ Foto(q) \/ ResetSinFoto(q) \/ Reset(q)
  \/ \E p \in Procs : Corta(p)

SpecC == InitC /\ [][NextC]_varsC

-----------------------------------------------------------------------------
(* Properties. *)
Suma(S) == MapThenSumSet(LAMBDA s : cont[s], S)

\* What ConsultaOnline adds up: the records in use and the totals.
Reportado == total + Suma({s \in Revisados : Asentado(s)})

Restando == {p \in Procs : pc[p] = "bor_suma"}
EnBorrado == Suma({id[p] : p \in Restando})

TypeOKC ==
  /\ TypeOK
  /\ cont \in [Registros -> Nat]
  /\ total \in Nat /\ parcial \in Int
  /\ pet \in [Procs -> {"libre", "get", "mira", "pone", "fin",
                        "foto", "acumula", "escribe", "reset"}]
  /\ aux \in [Procs -> Int]
  /\ \A p \in Lanzadores : aux[p] \in Nat
  /\ propio \in [Lanzadores -> Nat]
  /\ lee \in [Supervisores -> 1..(MaxProcesos + 1)]
  /\ resetea \subseteq Supervisores
  /\ pedidas \in 0..MaxPeticiones
  /\ puestas \in Nat
  /\ escrito \in Int
  /\ limpio \in BOOLEAN

\* The statistics say exactly how many requests were put in the table since
\* the last reset, whoever is killed, registers, sweeps or takes a snapshot,
\* unless one of five accidents happened: a record was removed twice (or the
\* removal waited for the lock while the record went away); a process stopped
\* between two writes of a critical section; a put wrote a
\* record that was no longer the sender's; a reset fell between a get and its
\* put; or a launcher without a record counted and registered later.  Each of
\* the five does happen: the figures are only as good as their absence.
\* (borra_proceso, inserta_proceso, incrementaContPro, resetFecha.)
CuentaExacta == limpio => Reportado + Oculto + EnBorrado = puestas

\* The partials are the sum of the snapshots in the history file, although a
\* snapshot reads the table without the lock and the partials move before the
\* file is written: what one snapshot misses or counts twice the next one
\* corrects.  A supervisor killed between the two writes breaks it for good,
\* so that the runs and the theorem have one that is not killed.  A SIGTERM
\* between the two leaves it there for ever: the sum has that snapshot, the
\* file does not.
\* (WriteStatSnapshot.)
HistoricoCuadra ==
  \A q \in Supervisores :
    escrito + (IF Esta(q, "escribe") THEN aux[q] ELSE 0) = parcial
=============================================================================
