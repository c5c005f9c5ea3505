------------------------------ MODULE Configura ------------------------------
(***************************************************************************)
(* The configuration file of an installation and those who read it: the    *)
(* launchers when they start and after a SIGUSR2 (readConfig), and the     *)
(* supervisor when it starts and after a refresh (readConfigPidfile), both *)
(* with ini_parse; and what follows from it: the IPC key, which ftok makes *)
(* from the inode of the file, and the size of the shared table.           *)
(*                                                                         *)
(* An operator edits the file in place, puts another file in its place     *)
(* (as an editor does, or mv: another inode) or removes it, at any moment. *)
(* A small file is read with one read: reading it is one step.  A text is  *)
(* a sequence of lines; of the values only the numbers and the length of   *)
(* "stats" are kept, and only the keys that somebody uses here.            *)
(*                                                                         *)
(* CreaTabla takes the creation of the table apart, ApiShm its records and *)
(* Lanzador a reload; here each is one step, and a launcher that ends      *)
(* leaves no record behind (the sweep has run).                            *)
(***************************************************************************)
EXTENDS Integers, FiniteSets, SequencesExt

CONSTANTS
  Lanzadores,
  Textos,        \* what an operator may write in the file,
  Lineas,        \* and the lines of each
  ConfDefecto,   \* DEFAULTMAXPROCESS, DEFAULTMAXBUSYPROCESS, ... of start.h
  Nodos,         \* inodes, which are also the keys that ftok makes of them
  MaxCambios     \* bound: changes of the file

SinNodo == 0                  \* there is no file
NULL == 0                     \* no table
NoHay == -1                   \* the size of a segment not created
ClaveDefecto == 100           \* ftok(DEFAULTIPCDIR, SEED)
Claves == Nodos \cup {ClaveDefecto}
Off == 3                      \* strlen(DEFAULTTRACE)
LargoTexto == 9               \* strlen of a whole "name = value" line

Numericas == {"maxProcess", "maxBusyProcess", "maxSoftBusyProcess"}
ClavesStart == Numericas \cup {"stats"}
Cero(claves) == [k \in claves |-> 0]

ASSUME ConfiguraAssumption ==
  /\ Nodos \subseteq 1..99 /\ Nodos # {}
  /\ ConfDefecto \in [Numericas -> Nat]
  /\ MaxCambios \in Nat
  /\ \A t \in Textos :
       Lineas[t] \in Seq([tipo : {"nada", "seccion", "par"}, nombre : STRING, valor : Nat,
                          sangria : BOOLEAN])

VARIABLES
  nodo, texto,   \* the file: its inode (SinNodo if there is none) and its text
  version,       \* changes so far
  talla,         \* num_max_procesos of the segment of each key
  pc,            \* where each launcher is
  conf,          \* its config
  clave,         \* configSHM.clave, as long as it has no table
  tab, tPos,     \* the key of the segment that "tabla" is mapped to, its record
  readConf,      \* flag set by SIGUSR2
  alDia,         \* history: launchers that have read the file as it is now
  sup,           \* the supervisor: pc, conf, clave, tab
  supAlDia,      \* history: so has the supervisor
  cambiado       \* history: the file has been replaced or removed

fichero == <<nodo, texto, version, cambiado>>
lanzador == <<pc, conf, clave, tab, tPos, readConf, alDia>>
supervisor == <<sup, supAlDia>>
vars == <<fichero, talla, lanzador, supervisor>>

SupFuera == [pc |-> "fuera", conf |-> Cero(Numericas), clave |-> NULL, tab |-> NULL]

Init ==
  /\ nodo \in Nodos /\ texto \in Textos
  /\ \A n \in Nodos : nodo <= n
  /\ version = 0 /\ cambiado = FALSE
  /\ talla = [k \in Claves |-> NoHay]
  /\ pc = [p \in Lanzadores |-> "fuera"]
  /\ conf = [p \in Lanzadores |-> Cero(ClavesStart)]
  /\ clave = [p \in Lanzadores |-> NULL]
  /\ tab = [p \in Lanzadores |-> NULL] /\ tPos = [p \in Lanzadores |-> 0]
  /\ readConf = [p \in Lanzadores |-> FALSE]
  /\ alDia = {}
  /\ sup = SupFuera /\ supAlDia = FALSE

-----------------------------------------------------------------------------
(* ini_parse_file.  Its result is the number of the first bad line, which   *)
(* nobody looks at: a bad line does nothing, as a comment or a blank one.   *)

\* The handlers store the values of section "config" whose name they know;
\* the reader's names are the domain of what it fills in.
Maneja(e, nombre, valor) ==
  IF e.seccion = "config" /\ nombre \in DOMAIN e.conf
    THEN [e EXCEPT !.conf[nombre] = valor] ELSE e

\* An indented line goes on with the value of the name before it, of the same
\* section, whatever it has: the whole line is the value.
Continua(e, l) ==
  Maneja(e, e.previo, IF e.previo = "stats" THEN LargoTexto ELSE 0)

Linea(e, l) ==
  IF l.tipo = "nada" THEN e
  ELSE IF l.sangria /\ e.previo # "" THEN Continua(e, l)
  ELSE IF l.tipo = "seccion" THEN [e EXCEPT !.seccion = l.nombre, !.previo = ""]
  ELSE [Maneja(e, l.nombre, l.valor) EXCEPT !.previo = l.nombre]

\* What a reader has after reading t, when it had c.
IniParse(c, t) == FoldLeft(Linea, [seccion |-> "", previo |-> "", conf |-> c], Lineas[t]).conf

-----------------------------------------------------------------------------
(* The launchers. *)

\* Mutant: "stats" keeps its value.
ReadConfigSinOff(c) ==
  IF nodo = SinNodo
    THEN [k \in ClavesStart |-> IF k = "stats" THEN Off ELSE ConfDefecto[k]]
    ELSE IniParse(c, texto)

\* readConfig: "stats" goes back to Off; the other keys keep their value if
\* the file has them no more, and get the default ones if there is no file.
ReadConfig(c) ==
  IF nodo = SinNodo
    THEN [k \in ClavesStart |-> IF k = "stats" THEN Off ELSE ConfDefecto[k]]
    ELSE IniParse([c EXCEPT !["stats"] = Off], texto)

\* Mutant: the key comes from the file, as in the lines that are commented out.
FtokDelFichero == IF nodo = SinNodo THEN ClaveDefecto
                  ELSE IF IniParse(Cero(Numericas), texto)["maxProcess"] > 1
                         THEN ClaveDefecto ELSE nodo

\* config.IPCKEY
Ftok == IF nodo = SinNodo THEN ClaveDefecto ELSE nodo

Lee(p) ==
  /\ conf' = [conf EXCEPT ![p] = ReadConfig(@)]
  /\ clave' = [clave EXCEPT ![p] = IF tab[p] = NULL THEN Ftok ELSE NULL]
  /\ readConf' = [readConf EXCEPT ![p] = FALSE]
  /\ alDia' = alDia \cup {p}

Arranca(p) ==
  /\ pc[p] = "fuera"
  /\ Lee(p)
  /\ pc' = [pc EXCEPT ![p] = "leida"]
  /\ UNCHANGED <<fichero, talla, tab, tPos, supervisor>>

\* The first free record of the n of a segment and the one past them, or none.
Libre(k, n) ==
  LET libres == (1..(n + 1)) \ {tPos[q] : q \in {r \in Lanzadores : tab[r] = k}}
  IN IF libres = {} THEN 0 ELSE CHOOSE s \in libres : \A t \in libres : s <= t

\* shmget on the segment of a key: a larger one than there is, is refused.
Cabe(k, pide) == talla[k] = NoHay \/ pide <= talla[k]
Crea(k, pide) == talla' = [talla EXCEPT ![k] = IF @ = NoHay THEN pide ELSE @]

\* inserta_proceso with configSHM: crea_tabla only if there is no table yet.
\* Nobody looks at the key of a table that is mapped.
Inserta(p, k, pide) ==
  IF tab[p] # NULL \/ Cabe(k, pide)
    THEN LET t == IF tab[p] = NULL THEN k ELSE tab[p] IN
         /\ Crea(t, pide)
         /\ tab' = [tab EXCEPT ![p] = t]
         /\ tPos' = [tPos EXCEPT ![p] = Libre(t, talla'[t])]
         /\ clave' = [clave EXCEPT ![p] = NULL]
    ELSE /\ clave' = [clave EXCEPT ![p] = k]
         /\ UNCHANGED <<talla, tab, tPos>>

Registra(p) ==
  /\ pc[p] = "leida"
  /\ Inserta(p, clave[p], conf[p]["maxProcess"])
  /\ pc' = [pc EXCEPT ![p] = "registrado"]
  /\ UNCHANGED <<fichero, conf, readConf, alDia, supervisor>>

\* set_signals: until then SIGUSR2 ends the process.
PoneSenales(p) ==
  /\ pc[p] = "registrado"
  /\ pc' = [pc EXCEPT ![p] = "acepta"]
  /\ UNCHANGED <<fichero, talla, conf, clave, tab, tPos, readConf, alDia, supervisor>>

\* A request that comes with readConf up; it is rejected, or the launcher has a
\* record.
Recarga(p) ==
  /\ pc[p] = "acepta" /\ readConf[p]
  /\ Lee(p)
  /\ UNCHANGED <<fichero, talla, pc, tab, tPos, supervisor>>

\* A request that is served: at the end of piped_child a launcher without a
\* record tries to get one, with the configuration it has now.
Sirve(p) ==
  /\ pc[p] = "acepta" /\ tPos[p] = 0 /\ ~readConf[p]
  /\ Inserta(p, clave[p], conf[p]["maxProcess"])
  /\ UNCHANGED <<fichero, pc, conf, readConf, alDia, supervisor>>

\* A launcher that has ended is as one that has not started.
Fuera(S) ==
  /\ pc' = [p \in Lanzadores |-> IF p \in S THEN "fuera" ELSE pc[p]]
  /\ conf' = [p \in Lanzadores |-> IF p \in S THEN Cero(ClavesStart) ELSE conf[p]]
  /\ clave' = [p \in Lanzadores |-> IF p \in S THEN NULL ELSE clave[p]]
  /\ tab' = [p \in Lanzadores |-> IF p \in S THEN NULL ELSE tab[p]]
  /\ tPos' = [p \in Lanzadores |-> IF p \in S THEN 0 ELSE tPos[p]]
  /\ alDia' = alDia \ S

Acaba(p) ==
  /\ pc[p] # "fuera"
  /\ Fuera({p})
  /\ readConf' = [readConf EXCEPT ![p] = FALSE]
  /\ UNCHANGED <<fichero, talla, supervisor>>

-----------------------------------------------------------------------------
(* The supervisor of the installation. *)

\* main: the key is made once; a file that cannot be opened ends the process.
SupArranca ==
  /\ sup.pc = "fuera" /\ nodo # SinNodo
  /\ sup' = [pc |-> "bucle", conf |-> IniParse(Cero(Numericas), texto),
             clave |-> nodo, tab |-> NULL]
  /\ supAlDia' = TRUE
  /\ UNCHANGED <<fichero, talla, lanzador>>

SupAcaba ==
  /\ sup.pc # "fuera"
  /\ sup' = SupFuera /\ supAlDia' = FALSE
  /\ UNCHANGED <<fichero, talla, lanzador>>

\* checkSHM, until it has a table.
SupRevisa ==
  /\ sup.pc = "bucle" /\ sup.tab = NULL
  /\ Cabe(sup.clave, sup.conf["maxProcess"])
  /\ Crea(sup.clave, sup.conf["maxProcess"])
  /\ sup' = [sup EXCEPT !.tab = sup.clave]
  /\ UNCHANGED <<fichero, lanzador, supAlDia>>

\* propagaRefresco: SIGUSR2 to whoever is in the table (not in the record past
\* its end), ...
EnMarcha == {p \in Lanzadores : pc[p] = "acepta"}
Avisados == {p \in Lanzadores : tab[p] = sup.tab /\ tPos[p] \in 1..talla[sup.tab]}

SupPropaga ==
  /\ sup.pc = "bucle" /\ sup.tab # NULL
  /\ Fuera({p \in Avisados : pc[p] = "registrado"})
  /\ readConf' = [p \in Lanzadores |->
                    readConf[p] \/ p \in Avisados \cap EnMarcha]
  /\ sup' = [sup EXCEPT !.pc = "relee"]
  /\ UNCHANGED <<fichero, talla, supAlDia>>

\* ... and then the file is read again, if there is one.
SupRelee ==
  /\ sup.pc = "relee"
  /\ IF nodo = SinNodo
       THEN sup' = [sup EXCEPT !.pc = "bucle"] /\ UNCHANGED supAlDia
       ELSE /\ sup' = [sup EXCEPT !.pc = "bucle", !.conf = IniParse(@, texto)]
            /\ supAlDia' = TRUE
  /\ UNCHANGED <<fichero, talla, lanzador>>

-----------------------------------------------------------------------------
(* The operator. *)
Cambia(n, t) ==
  /\ version < MaxCambios /\ version' = version + 1
  /\ nodo' = n /\ texto' = t
  /\ cambiado' = (cambiado \/ n # nodo)
  /\ alDia' = {} /\ supAlDia' = FALSE
  /\ UNCHANGED <<talla, pc, conf, clave, tab, tPos, readConf, sup>>

Edita == nodo # SinNodo /\ \E t \in Textos : Cambia(nodo, t)
Reemplaza == \E n \in Nodos \ {nodo}, t \in Textos : Cambia(n, t)
Borra == nodo # SinNodo /\ Cambia(SinNodo, texto)

-----------------------------------------------------------------------------
Next ==
  \/ \E p \in Lanzadores :
       \/ Arranca(p) \/ Registra(p) \/ PoneSenales(p) \/ Recarga(p)
       \/ Sirve(p) \/ Acaba(p)
  \/ SupArranca \/ SupAcaba \/ SupRevisa \/ SupPropaga \/ SupRelee
  \/ Edita \/ Reemplaza \/ Borra

-----------------------------------------------------------------------------
(* Properties. *)
Mapeadas == {tab[p] : p \in Lanzadores} \cup {sup.tab}

\* The limits count the launchers of one table, so everybody must be in the
\* same one: this holds while the file keeps its inode, whatever is written in
\* it and however the processes come and go.  And nobody is left out of it
\* until a change of the file asks for a larger table.  (readConfig,
\* inserta_proceso, crea_tabla, checkSHM.)
UnaTabla ==
  /\ ~cambiado => Cardinality(Mapeadas \ {NULL}) <= 1
  /\ version = 0 => \A p \in EnMarcha : tab[p] # NULL

\* A text that gives a value to every limit.
Completo(t) == IniParse([k \in Numericas |-> 0], t) = IniParse([k \in Numericas |-> 1], t)

\* Two readers that have last read the same text, if it is complete, have the
\* same limits (and the launchers the same "stats"), whatever each had read
\* before.  A text without a key leaves the old value in whoever was running
\* and 0 in whoever starts.  (readConfig, parseIni, handler_tamanio, ini_parse.)
AcuerdoDeLectores ==
  Completo(texto) \/ nodo = SinNodo =>
    /\ \A p, q \in alDia : conf[p] = conf[q]
    /\ supAlDia => \A p \in alDia, k \in Numericas : conf[p][k] = sup.conf[k]
=============================================================================
