--------------------------- MODULE ApiShmRegistro ---------------------------
(* ApiShm implements Registro: the owner of the lock is the process with an  *)
(* undo entry on the semaphore, the table is the pid column.                 *)
EXTENDS ApiShm

CONSTANT Nadie

ASSUME NadieAssumption == Nadie \notin Procs

duenoActual ==
  IF \E p \in Procs : Dueno(p) THEN CHOOSE p \in Procs : Dueno(p) ELSE Nadie

Abstracto == INSTANCE Registro WITH
  Procesos <- Procs, dueno <- duenoActual, tabla <- pid

\* Every behaviour of the code's steps, kills and signals included, is a
\* behaviour of Registro: no record is written or cleared outside the lock, a
\* registration never takes a record in use and no launcher is registered
\* twice.  (inserta_proceso, borra_proceso, Lock, Unlock.)
ImplementaRegistro == Abstracto!Spec
=============================================================================
