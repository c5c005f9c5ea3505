----------------------------- MODULE MCComprueba -----------------------------
(* Texts: two complete ones (the second asks for a larger table), one without *)
(* a limit, and one whose second limit is indented.                           *)
EXTENDS Comprueba

L(t, n, v, s) == [tipo |-> t, nombre |-> n, valor |-> v, sangria |-> s]
Sec == L("seccion", "config", 0, FALSE)
Par(n, v) == L("par", n, v, FALSE)

Uno == <<L("nada", "", 0, FALSE), Sec, Par("maxProcess", 1), Par("cgiProgram", 0),
         Par("maxBusyProcess", 1), Par("maxSoftBusyProcess", 1), Par("stats", 2)>>
Dos == <<Sec, Par("maxProcess", 2), Par("maxBusyProcess", 2),
         Par("maxSoftBusyProcess", 1)>>
Falto == <<Sec, Par("maxProcess", 1), Par("maxSoftBusyProcess", 1), Par("stats", 0)>>
Sangrado == <<Sec, Par("maxProcess", 1), Par("maxBusyProcess", 2),
              L("par", "maxSoftBusyProcess", 1, TRUE)>>

LasLineas == [uno |-> Uno, dos |-> Dos, falto |-> Falto, sangrado |-> Sangrado]
LosDefectos == [maxProcess |-> 10, maxBusyProcess |-> 10, maxSoftBusyProcess |-> 5]
=============================================================================
