------------------------------ MODULE Registro ------------------------------
(***************************************************************************)
(* What api_shm promises to its users: a table of records that only the    *)
(* owner of one lock changes, in which a launcher writes its own pid into  *)
(* a free record, at most once, and from which records are removed.  The   *)
(* lock goes free when its owner gives it back or dies.                    *)
(***************************************************************************)
CONSTANTS Procesos, Lanzadores, Registros, SinPid, Nadie

VARIABLES dueno, tabla

vars == <<dueno, tabla>>

Init ==
  /\ dueno = Nadie
  /\ tabla = [s \in Registros |-> SinPid]

Toma(p) ==
  /\ dueno = Nadie
  /\ dueno' = p
  /\ UNCHANGED tabla

Suelta(p) ==
  /\ dueno = p
  /\ dueno' = Nadie
  /\ UNCHANGED tabla

Inscribe(p, s) ==
  /\ dueno = p
  /\ tabla[s] = SinPid
  /\ \A r \in Registros : tabla[r] # p
  /\ tabla' = [tabla EXCEPT ![s] = p]
  /\ UNCHANGED dueno

Retira(p, s) ==
  /\ dueno = p
  /\ tabla' = [tabla EXCEPT ![s] = SinPid]
  /\ UNCHANGED dueno

Next ==
  \E p \in Procesos :
    \/ Toma(p)
    \/ Suelta(p)
    \/ \E s \in Registros : Retira(p, s) \/ (p \in Lanzadores /\ Inscribe(p, s))

Spec == Init /\ [][Next]_vars
=============================================================================
