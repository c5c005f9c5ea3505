---------------------------- MODULE MCCreaTabla ----------------------------
EXTENDS CreaTabla

CONSTANTS a, b, reset

Reparto(k) == [p \in {a, b, reset} |-> IF p = a THEN k ELSE 2]

\* A launcher in each installation, and the last file, whose size the supervisor
\* takes for the first table, with the larger one; or both in the second.
MCConfiguraciones == {[de |-> Reparto(1), maxProcess |-> <<1, 2>>], [de |-> Reparto(2), maxProcess |-> <<2, 1>>]}
=============================================================================
