---------------------------- MODULE MCContadores ----------------------------
(* Two launchers and a supervisor on a table of one record and the extra one *)
(* that inserta_proceso also uses.                                           *)
EXTENDS Contadores, TLC

CONSTANTS l1, l2, s1
=============================================================================
