------------------------------ MODULE MCApiShm ------------------------------
(* Three launchers and one supervisor on a table of one record and the extra *)
(* record that inserta_proceso also uses.                                    *)
EXTENDS ApiShmRegistro, TLC

CONSTANTS l1, l2, l3, s1

Simetria == Permutations(Lanzadores)
=============================================================================
