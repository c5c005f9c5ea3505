------------------------------ MODULE Comprueba ------------------------------
(***************************************************************************)
(* checkFastCGI, run once at any moment of the life of an installation     *)
(* (Configura) whose supervisor has others in its configuration too.  The  *)
(* installation of the launchers is number 0; of the others only the text  *)
(* of their files matters, and what the tool finds of their tables is any. *)
(***************************************************************************)
EXTENDS Configura

CONSTANTS
  Instalations,   \* of the supervisor's configuration
  OtrosTextos,    \* what the files of the others may have
  SinFichero,     \* no file
  SinLeer         \* a file that the tool has not come to

Otras == 1..(Instalations - 1)

ASSUME CompruebaAssumption ==
  /\ Instalations \in Nat \ {0} /\ SinFichero \notin Textos /\ SinLeer \notin Textos \cup {SinFichero}
  /\ OtrosTextos \subseteq Textos \cup {SinFichero}

VARIABLES
  otras,         \* the files of the other installations, once they are read
  hpc,           \* where the tool is
  verbose,
  hclave,        \* supConfig.Ipckey[0]
  startConfig,
  hi,            \* i, the installation of the walk
  codigo,        \* what it has returned
  vistas,        \* history: installations whose file it has read or missed
  adelanta       \* history: it has gone past the next one

herramienta == <<hpc, verbose, hclave, startConfig, hi, codigo, vistas, adelanta>>
todas == <<vars, otras, herramienta>>

InitH ==
  /\ Init
  /\ otras = [i \in Otras |-> SinLeer]
  /\ hpc = "fuera" /\ verbose = FALSE /\ hclave = NULL
  /\ startConfig = Cero(ClavesStart)
  /\ hi = 0 /\ codigo = 0 /\ vistas = {}
  /\ adelanta = FALSE

On == 2

\* With "-V" nothing of what is missing ends the tool.
Falta(c) == ~verbose /\ codigo' = c /\ hpc' = "fin"

-----------------------------------------------------------------------------
\* ftok of the file of installation 0, made as the list of files is read; -1 if
\* there is none.
Ipckey == nodo

\* The configuration of the supervisor (1), its keys, its pid file (2) and its
\* directory of logs.
HConfiguracion(v) ==
  /\ hpc = "fuera"
  /\ verbose' = v
  /\ \/ hpc' = "fichero" /\ hclave' = Ipckey /\ UNCHANGED codigo
     \/ \E c \in IF v THEN {0} ELSE {1, 2} : codigo' = c /\ hpc' = "fin" /\ UNCHANGED hclave
  /\ UNCHANGED <<vars, otras, startConfig, hi, vistas, adelanta>>

\* The file of installation hi is t.
EsFichero(t) ==
  IF hi = 0
    THEN t = (IF nodo = SinNodo THEN SinFichero ELSE texto) /\ UNCHANGED otras
    ELSE otras[hi] \in {t, SinLeer} /\ otras' = [otras EXCEPT ![hi] = t]

\* ini_parse with parseStartConfig, which knows the keys of start.h.
LeeStart(c, t) == IniParse(c, t)

\* Mutant: a file that is not there ends the walk.
HFicheroPara(t) ==
  /\ hpc = "fichero" /\ hi < Instalations /\ EsFichero(t)
  /\ vistas' = vistas \cup {hi}
  /\ IF t = SinFichero
       THEN hpc' = "fin" /\ UNCHANGED <<startConfig, hi>>
       ELSE /\ startConfig' = LeeStart(startConfig, t)
            /\ hpc' = "tabla" /\ UNCHANGED hi
  /\ UNCHANGED <<vars, verbose, hclave, codigo, adelanta>>

\* The file is read over what the one before has left in startConfig.
HFichero(t) ==
  /\ hpc = "fichero" /\ hi < Instalations /\ EsFichero(t)
  /\ vistas' = vistas \cup {hi}
  /\ IF t = SinFichero
       THEN hi' = hi + 1 /\ UNCHANGED <<startConfig, hpc>>
       ELSE /\ startConfig' = LeeStart(startConfig, t)
            /\ hpc' = "tabla" /\ UNCHANGED hi
  /\ UNCHANGED <<vars, verbose, hclave, codigo, adelanta>>

\* The file is there and cannot be opened: the end, with "-V" too.
HIlegible ==
  /\ hpc = "fichero" /\ hi < Instalations /\ (hi = 0 => nodo # SinNodo)
  /\ hpc' = "fin" /\ codigo' = 1
  /\ UNCHANGED <<vars, otras, verbose, hclave, startConfig, hi, vistas, adelanta>>

HFin ==
  /\ hpc = "fichero" /\ hi >= Instalations
  /\ hpc' = "fin" /\ codigo' = 0
  /\ UNCHANGED <<vars, otras, verbose, hclave, startConfig, hi, vistas, adelanta>>

\* Mutant: the segment is looked for with the key of the default file.
HaySHMDefecto == hi = 0 /\ talla[ClaveDefecto] # NoHay

\* The key that ftok made at the start is that of a segment (-1, if there was
\* no file, is of none); of the other installations nothing is known.
HaySHM == hi = 0 /\ hclave # SinNodo /\ talla[hclave] # NoHay

\* exec of "ipcs |grep %x": whether there is any output.  The row of the key is
\* there if hay, and any other row may have its digits somewhere.  popen is
\* taken to work.
Grep(hay) == {TRUE, hay}

\* The CGI program (5), the segment (3), the semaphore (4), which is made after
\* it, and the directory of logs (6).
HTabla ==
  /\ hpc = "tabla"
  /\ \/ Falta(5)
     \/ \E ve \in Grep(HaySHM) :
          \/ ~ve /\ Falta(3)
          \/ ve /\ (Falta(4) \/ Falta(6))
          \/ (ve \/ verbose) /\ hpc' = "stats" /\ UNCHANGED codigo
  /\ UNCHANGED <<vars, otras, verbose, hclave, startConfig, hi, vistas, adelanta>>

\* for (i=0; i<strlen(startConfig.stats); i++): the loop that makes "stats"
\* upper case has the i of the walk, which then adds one to it.
HStats ==
  /\ hpc = "stats"
  /\ \/ /\ startConfig["stats"] = On       \* the directory of statistics
        /\ Falta(7)
        /\ UNCHANGED <<hi, adelanta>>
     \/ /\ hi' = startConfig["stats"] + 1
        /\ adelanta' = (adelanta \/ hi' > hi + 1)
        /\ hpc' = "fichero" /\ UNCHANGED codigo
  /\ UNCHANGED <<vars, otras, verbose, hclave, startConfig, vistas>>

Herramienta ==
  \/ \E v \in BOOLEAN : HConfiguracion(v)
  \/ \E t \in Textos \cup {SinFichero} : HFichero(t)
  \/ HIlegible \/ HFin \/ HTabla \/ HStats

\* The tool looks at the installation of the launchers first and never again
\* (i is at least 1 afterwards): what they do from then on is left out.
Sistema ==
  /\ hi = 0 /\ hpc \in {"fuera", "fichero", "tabla"}
  /\ Next /\ UNCHANGED <<otras, herramienta>>

NextH == Herramienta \/ Sistema
\* Without fairness: the walk need not end (a "stats" shorter than the number of
\* its installation takes it back, for ever).
SpecH == InitH /\ [][NextH]_todas

-----------------------------------------------------------------------------
(* Properties. *)
\* A result of 0 says that every installation has been looked at, unless the
\* "stats" of one of them is longer than its number: then the walk jumps over
\* the next ones.  (checkFastCGI.c, main.)
RevisaTodas ==
  hpc = "fin" /\ codigo = 0 /\ ~verbose =>
    0..(Instalations - 1) \subseteq vistas \/ adelanta

\* "SHM no creada" is true: there is no launcher of the installation in any
\* table, unless the file has been replaced or removed since the tables were
\* made.  (checkFastCGI.c, ftok.)
CodigoVeraz ==
  [][hpc' = "fin" /\ codigo' = 3 /\ hi = 0 /\ ~cambiado =>
       \A p \in Lanzadores : tab[p] = NULL]_todas
=============================================================================
