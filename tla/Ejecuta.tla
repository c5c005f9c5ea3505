------------------------------ MODULE Ejecuta ------------------------------
(***************************************************************************)
(* What piped_child promises of a request: it has one child or, if fork    *)
(* fails, none; the child ends when it likes; and the request is over only *)
(* once wait has collected it, so that no child lives on into the next.    *)
(*                                                                         *)
(* Comando (pipes, alarm and verdict) and Lanzador (the same call seen     *)
(* from the table) both implement it: what one leaves out of piped_child   *)
(* does not let it do anything that the other could not.                   *)
(***************************************************************************)
VARIABLES
  fase,   \* fuera: between two calls; dentro: there is a child to wait for;
          \* fin: wait has returned, or there was nothing to wait for
  hija    \* the child: no, viva, muerta (ended, and not waited for)

vars == <<fase, hija>>

Init == fase = "fuera" /\ hija = "no"

Crea ==
  /\ fase = "fuera" /\ hija = "no"
  /\ fase' = "dentro" /\ hija' = "viva"

\* fork fails.
NoCrea ==
  /\ fase = "fuera" /\ hija = "no"
  /\ fase' = "fin" /\ UNCHANGED hija

Muere ==
  /\ fase = "dentro" /\ hija = "viva"
  /\ hija' = "muerta" /\ UNCHANGED fase

\* wait.
Recoge ==
  /\ fase = "dentro" /\ hija = "muerta"
  /\ fase' = "fin" /\ hija' = "no"

\* The verdict, and the return.
Acaba ==
  /\ fase = "fin" /\ hija = "no"
  /\ fase' = "fuera" /\ UNCHANGED hija

Next == Crea \/ NoCrea \/ Muere \/ Recoge \/ Acaba

Spec == Init /\ [][Next]_vars
=============================================================================
