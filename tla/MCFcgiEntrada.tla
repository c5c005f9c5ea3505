--------------------------- MODULE MCFcgiEntrada ---------------------------
(***************************************************************************)
(* FcgiEntrada with the connections of a web server: a request cut at every *)
(* byte, the request with one record more at every place, and connections  *)
(* that are kept for a second request.                                     *)
(***************************************************************************)
EXTENDS FcgiEntrada

R(tipo, id, cont, pad, espera) ==
  [tipo |-> tipo, id |-> id, ini |-> 0, cont |-> cont, pad |-> pad, fin |-> 0,
   rol |-> TRUE, keep |-> FALSE, espera |-> espera]

\* The records, one after the other.
Coloca(s) ==
  LET largo(k) == 2 + s[k].cont + s[k].pad
      ini[k \in 1..Len(s)] == IF k = 1 THEN 0 ELSE ini[k - 1] + largo(k - 1)
  IN  [k \in 1..Len(s) |-> [s[k] EXCEPT !.ini = ini[k], !.fin = ini[k] + largo(k)]]

Conexion(s) == LET r == Coloca(s) IN [regs |-> r, corte |-> r[Len(r)].fin]

Peticion ==
  <<R("BEGIN", 1, 2, 0, FALSE), R("PARAMS", 1, 1, 1, FALSE), R("PARAMS", 1, 3, 0, FALSE),
    R("PARAMS", 1, 0, 0, FALSE), R("STDIN", 1, 2, 1, FALSE), R("STDIN", 1, 0, 0, TRUE)>>
Persistente == [Peticion EXCEPT ![1].keep = TRUE]

Otros ==
  <<R("STDIN", 2, 1, 1, FALSE), R("STDIN", 2, 0, 0, FALSE), R("GET_VALUES", 0, 2, 1, TRUE),
    R("GET_VALUES", 0, 2, 0, TRUE), R("GET_VALUES", 0, 1, 0, FALSE), R("OTRO", 0, 0, 0, TRUE),
    R("OTRO", 0, 1, 0, FALSE), R("BEGIN", 0, 2, 0, FALSE), R("ABORT", 1, 0, 0, FALSE)>>
Multiplexa == R("BEGIN", 2, 2, 0, TRUE)
Inserta(s, r, i) == SubSeq(s, 1, i) \o <<r>> \o SubSeq(s, i + 1, Len(s))

\* Cut at every byte; with one record more at every place; a second BEGIN; kept
\* and with an awaited record at every place; kept for another request; with an
\* unknown role and with a padded BEGIN.
Conexiones ==
  [c \in 1..Conexion(Peticion).corte |-> [regs |-> Coloca(Peticion), corte |-> c - 1]]
  \o [n \in 1..(7 * Len(Otros)) |-> Conexion(Inserta(Peticion, Otros[(n - 1) \div 7 + 1], (n - 1) % 7))]
  \o [n \in 1..6 |-> Conexion(Inserta(Peticion, Multiplexa, n))]
  \o [n \in 1..7 |-> Conexion(Inserta(Persistente, R("OTRO", 0, 0, 0, TRUE), n - 1))]
  \o <<Conexion(Peticion), Conexion(Persistente), Conexion(Persistente \o Peticion),
       Conexion(Persistente \o Persistente), Conexion([Peticion EXCEPT ![1].rol = FALSE]),
       Conexion([Peticion EXCEPT ![1].pad = 1]),
       Conexion(Inserta(Peticion, R("BEGIN", 2, 2, 1, FALSE), 1))>>

\* A name of its own, so that TLC evaluates Conexiones once.
MCGuiones == Conexiones
=============================================================================
