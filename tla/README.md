# Verification of the FastCGI contention launcher

The repository is a contention layer for CGI programs behind Apache
(`mod_fastcgi`). Apache keeps a pool of **launchers** (`src/des_fcgi/lanzador`).
Each launcher registers itself in a table in **shared memory**
(`src/des_fcgi/extlibs/api_shm`), takes one request at a time through **libfcgi**
(`src/des_fcgi/extlibs/fcgi-2.4.1-*`), and either rejects it (hard or soft limit of
busy launchers) or forks the real CGI program, feeds it through two pipes and copies
its answer. A **supervisor** (`src/des_fcgi/supervisor`) sweeps the tables for dead,
idle and orphan launchers, answers queries over a socket, writes a history of the
counters, resets them and tells the launchers to read their configuration again.

1. [Inventory](#inventory)
2. [Modules](#modules)
3. [Runs, bounds and fairness](#runs-bounds-and-fairness)
4. [What is proved](#what-is-proved)
5. [What the code does differently from what it says](#what-the-code-does-differently-from-what-it-says)
6. [What is not modelled](#what-is-not-modelled)
7. [Plan](#plan)

## Inventory

| Part | State it keeps | Operations | Talks to |
|---|---|---|---|
| `api_shm` (api_shm.c, api_blk.c, csem.c, cshmem.c) | the SysV segment (`dat_global`, `dat_proceso[]`), a binary SysV semaphore, one static `tabla` and `locksem` per process | crea_tabla, inserta_proceso, modifica_proceso, get/putContadoresProceso, borra_proceso, chequeo_peticiones, consulta_peticiones, consulta_registrados | linked into launchers, supervisor and tools; shared memory is the only channel between launchers |
| launcher (start.c) | configuration, `fProcess` (its copy of its record, and `tPos`), `readConf`, `pid_comando` | main loop, admission, piped_child, readConfig; handlers of SIGTERM, SIGALRM, SIGUSR2 | Apache (libfcgi, signals), CGI child (pipes, wait, kill), table |
| libfcgi (fcgiapp.c, os_unix.c, fcgi_stdio.c) | the request: input stream, two output streams, flags of the connection; `shutdownPending` | FCGX_Accept_r, FillBuffProc, ReadParams, PutStr, FFlush, FClose, FCGX_Finish_r; handler of SIGUSR1 | web server (socket), launcher |
| supervisor (supervisor.c, procesos.c) | table of sockets, `tabla[i]` per installation, flags | event loop, socket actions, ConsultaOnline, ConsultaHistorico, WriteStatSnapshot, resetFecha, propagaRefresco, checkSHM, Limpia_procesos_tabla | TCP clients, tables, launchers (SIGTERM, SIGUSR2), files |
| configuration files (ini.c, readConfig, the handlers) | the file, its inode, what each reader has of it | ini_parse, ftok | operator, launchers, supervisor, tools |
| tools (checkFastCGI, reset_fecha, key) | none | one walk, one write, one print, and exit | files, ipcs, table |
| tcputil | none | recv, send, accept with a result code | supervisor |
| arqtraza, sample CGI programs | - | logging; examples | - |

Apache, the CGI program, the clients, the operator and the kernel are external.

What is hard in each part, and what makes it correct:

* **The table.** Any process can be killed at any point, also inside the critical
  section (the semaphore has `SEM_UNDO`, the data have nothing). `borra_proceso`
  tests the record before the lock and runs in a signal handler. Correct: one
  owner of the lock, one record per launcher, a counter that does not say more
  than there is, dead records that go away.
* **Its creation.** Segment, semaphore and first values are made in separate calls by
  processes that arrive together, may die in between, and take whatever they find
  for finished. Correct: SETVAL never hits a semaphore in use, everybody locks the
  table he works on, launchers get to serve.
* **Admission.** Count, decide and mark are steps of different processes without
  a lock; the mark is written by the child and cleared by the parent. Correct: the
  limits are exceeded by a bounded number, a record marked busy is busy and stops
  being so, a reload is not lost.
* **One request.** Two pipes that can both fill, an alarm that runs between any
  two steps, a CGI program that may do anything. Correct: the alarm hits its own
  request, the verdict says what happened, the request ends.
* **The connection.** Records cut anywhere by reads and writes, a server that closes
  at any byte, requests one after another on one connection, SIGUSR1 between any two
  calls. Correct: what is delivered is what was sent, an incomplete request is an
  error, a connection is kept only when it is clean, the launcher stops when told.
* **Statistics.** get, ++ and put without a lock against removals, snapshots and
  resets. Correct: what is reported is what was put; the history adds up.
* **Supervisor.** One thread that blocks, a table of sockets whose numbers are
  used again, signals in the middle. Correct: everybody is watched, nobody is
  forgotten, nobody sleeps for ever because of another's order of arrival.
* **Configuration.** A file that changes under four kinds of readers, a key made of its
  inode, readers that keep what the file has no more. Correct: one table for
  everybody, one set of limits for who has read the same text.

`PROJECT.json` lists every hazard at its line with the properties that cover it.

## Modules

Names are the source's; comments in a module say which function a part is about,
and `PROJECT.json` maps each definition to its lines.

| Module | Code | Uses |
|---|---|---|
| `ApiShm` | api_shm.c, api_blk.c, csem.c; registration and `interceptor` of start.c; procesos.c | - |
| `Registro` | the abstract registry: who owns the lock, which launcher has which record | - |
| `ApiShmRegistro` | refinement mapping from `ApiShm` to `Registro` | both |
| `CreaTabla` | crea_tabla, csem.c, cshmem.c; checkSHM and `tabla[i]`; reset_fecha.c | - |
| `Lanzador` | main loop of start.c: admission, `estado`, hot reload | - |
| `Comando` | `piped_child` of start.c: pipes, alarm, wait, verdict | - |
| `FcgiEntrada` | OS_Accept, FCGX_Accept_r, FillBuffProc, ProcessHeader, ReadParams; getIn of start.c; SIGUSR1 | - |
| `FcgiSalida` | the writers (PutStr, EmptyBuffProc, write_it_all, FClose), FCGX_Finish_r; the copying of the output in `piped_child` | - |
| `Ejecuta` | the abstract call of `piped_child`: one child at most, over when it is collected; `Comando` and each launcher of `Lanzador` are proved to implement it | - |
| `Contadores` | `incrementaContPro`, the counters of the table, `WriteStatSnapshot`, `resetFecha` | `ApiShm` (every step is a step of it, with its effect on the counters) |
| `Supervisor` | `SocketsEventLoop`, `ExecuteAction`, `RegisterSocket`, `UnRegisterSocket`, signals; tcputil | - |
| `Configura` | ini.c, `readConfig` of start.c and of the supervisor, ftok, refresh | - |
| `Comprueba` | checkFastCGI.c | `Configura` (the tool looks at it while it lives) |
| `*Proofs` | theorems | the module they are about |
| `MC*` | constants for TLC | the module they instantiate |

Operators marked *Mutant* are small changes of the definition they precede, with
which TLC finds each property violated; no specification uses them.

**ApiShm.** `sem` and `undo` are the semaphore and the kernel's adjustment per
process; `num` and `pid[]` the shared data; `tPos` the launcher's own idea of its
record. A program counter stops where another process or a signal can be seen:
`InsertaEntra` takes the lock, scans, and does `num_proc_registrados++`;
`InsertaEscribe` writes the pid; `InsertaSale` writes the rest and unlocks.
`borra_proceso` is `BorraMira` (the test before the lock), `BorraLock` (lock and
decrement), `BorraCero` (the pid), `BorraSuma` (totals and unlock). It is called
from three places (`vuelve` says which): the sweep of a launcher, the sweep of the
supervisor and `interceptor`. A pid is a launcher; pids are not used again. The
scan of `inserta_proceso` goes one past the table (`<=`), so there are
`MaxProcesos + 1` records, of which sweeps and counts see `MaxProcesos`.
SIGTERM may reach any process (`EnviaTerm`). A launcher takes it in `interceptor`
(`RecibeTerm`), which removes its record; the supervisor in `CleanUp`, which neither
ends it nor gives back what it holds, so that it stays there, alive, until a SIGKILL.
The supervisor reads the record it looks at once for each test (`LimpiaVivo`,
`LimpiaFecha` and what follows), and may find in each the record of somebody else.

**CreaTabla.** One program counter per process walks shmget, semget, SETVAL, the lock
and the two first values, which `num` and `max` keep apart. A key is the number of an
installation. `MapeaCrea`, `MapeaUne`, `MapeaNoCabe` and `MapeaFalla` are the four
results of `Map2SharedMem`; `MapeaFalla` is the shmget that fails for another reason,
after which `shmat(-1)` is taken for a table. The supervisor walks its installations
with `i`, and `tablas` is its `tabla[]`: `Asigna` writes what the library has, whatever
`i` is. `reset_fecha` is one more process that creates the table, with the size the
operator gives it. A critical section on a table that exists is one step: `ApiShm`
takes those apart. `CleanUp` stops the supervisor wherever a SIGTERM finds it,
between semget and SETVAL and inside the lock too.

**Lanzador.** Registration is over; `Pos` gives each launcher its record, and
`NumRegistrados` the values `num_proc_registrados` may be read with. The count of
busy launchers is one step per record. The child's mark (`HijoMarca`) and the
parent's clearing (`Libera`) are steps of different processes. The parent writes and
reads the pipes to their end (`tubos`, `FinDeSalida`) before it waits (`Espera`); a program
may close its pipes early (`HijoCierra`) or leave a process behind that holds them
(`dejo`, `DelHijo`), which ends when it likes (`NietoAcaba`). The reload keeps
the three writes of `readConfig` apart, with SIGUSR2 possible between any two.

**Comando.** The parent writes the whole input, closes, reads until end of file,
waits, stops the timer, restores the signal and decides. The child may read, write,
close either of its pipes (`suyos`) and end at will, and may leave a process behind
that holds them. Data are counted in pieces.

**Ejecuta.** What `Lanzador` and `Comando` say of the same function: no child, a living
one, or one that has ended and is waited for. `Lanzador` leaves out the pipes and the
alarm and `Comando` the table and the other launchers; both being proved to implement
this module, neither has a child where the other could not.

**FcgiEntrada.** A connection is a script of the web server: its records and the byte
at which it closes. Bytes are positions, so that what is delivered can be compared
with what was sent (`EntregaExacta`). `Lee` takes any number of bytes that fit in the
buffer; `Entrega`, `Salta`, `Relleno`, `CabeceraParte` and `Cabecera` are the branches of
the loop of `FillBuffProc`, which carries `contentLen`, `paddingLen`, `skip` and a half
header from one read to the next; `ProcessHeader` and what it answers follow. `Consume`,
`Begin`, `FinParams`, `ParamsCortados` and `FinEntrada` are the callers. `MiraAviso`,
`EntraAccept`, `Accept`, `Keeper` and `Descarta` are `OS_Accept` with its window. Two
assumptions: bytes that are no header never look like one of version 1, and a server
that has lost the boundaries of its records reads no more.

**FcgiSalida.** Lengths are in units of eight bytes. `piped_child` reads from the program,
blanks in the first read a second Content-type up to the next newline (`Quita`,
start.c:507-520; without a newline the blanks go past the end of the read, `Restos`), and
puts what comes before the first NUL that is left (`Texto`, start.c:524); a writer keeps a buffer with room for the
header in front; `write_it_all` hands over unit by unit. The server parses what it gets
(`leyendo`, `recibido`, `eof`, `acabada`) and says whether it is a sequence of records
(`roto`). What is written to STDERR stands for the library's own messages; an error
page stands for the output of a program.

**Contadores.** The five counters and the time are always handled together, so one
stands for all. `limpio` records that none of five accidents happened (see
`CuentaExacta`): the property is exact about when the figures can be trusted.

**Supervisor.** The table of sockets by descriptor (`accion`, `enlace`), the mask
and the index of the walk, the request being attended. The sweep and the snapshot
are one step here (`Revisa`): they are in `ApiShm` and `Contadores`, and this module
takes from them only that they end. A client that closes without asking is served as
if it had asked for whatever the fresh buffer held (`Recibe`).

**Configura.** The file is an inode, a text and a version. A text is a sequence of
lines; `IniParse` folds `Linea` over them with the section, the previous name and what
the reader has, as `ini_parse_file` does, indented lines included. The names a reader
knows are the domain of what it fills in. `Edita`, `Reemplaza` (another inode) and `Borra`
are the operator. A launcher is here only what the file decides: its limits, its key
and its table.

**Comprueba.** The walk of checkFastCGI over the installations: `hi` is its `i`, which the
loop over the letters of `stats` uses too (`HStats`). Installation 0 is the one of
`Configura`, next to which the tool runs; of the others only the texts matter. `ipcs | grep`
may find the digits of the key in another row (`Grep`). Whether a directory or a CGI
program is found is any answer: `checkDir` tests one bit of the mode (`&` after `!=`).

## Runs, bounds and fairness

Every cfg can be run by itself with `tlc -config X.cfg M`.

| Run | Instance | What it shows |
|---|---|---|
| `ApiShmLanzadores` | 3 launchers, 1 record and the extra one; each may be killed anywhere; symmetric | types, one record per launcher, refinement of `Registro` |
| `ApiShmVivo` | 2 launchers and the supervisor; one launcher killed anywhere, the other and the supervisor told to end anywhere, the idle ones by the sweeps; sweeps of dead, idle and orphan; the web server may die; fair | lock and counter; a launcher that starts to register serves or dies; dead records that the sweeps visit are removed while the supervisor sweeps, both unless a SIGTERM caught a process with the semaphore |
| `ApiShmInexistentes` | 3 launchers and the supervisor | the disagreement below |
| `CreaTabla` | 2 launchers in one installation or two, the supervisor of both, reset_fecha; one process killed or one call failed, and a SIGTERM to the supervisor at any point | SETVAL never finds the semaphore in use, everybody locks his table, one early registration at most is lost, launchers serve, the last installation is swept while the supervisor's loop comes round |
| `LanzadorLimites` | 4 launchers, hard limit 1, soft limit 0, at most 2 between accepting and marking | the limits are exceeded by at most those two |
| `LanzadorRecarga` | 2 launchers, one change of the file, any number of SIGUSR2; the counter read as 1 or 2 | busy marks are true, and go away unless something left behind holds the pipes; no reload is lost |
| `ComandoCiclo` | 3 requests, 3 pieces of input, pipes of 2, processes left behind | alarm, verdict, end of the request |
| `FcgiEntrada` | 105 connections: a request cut at every byte, with one of nine records more at every place, kept for a second one, kept with an awaited record at every place; 1 SIGUSR1 | exact delivery, complete or error, who waits for whom, end after SIGUSR1 |
| `FcgiSalida` | 2 requests, 6 units of output with a NUL in a second Content-type line, reads and buffers of 3; the server closes anywhere; 1 SIGUSR1 | order, kept connections, what is not handed over, end of the request |
| `ContadoresExactos` | 2 launchers (one killable), 2 requests, a supervisor that sweeps, snapshots, resets and may send itself a SIGTERM (procesos.c:98); nobody else sends one here, the theorem `Exacta` has them | exact figures without accidents; history equals the partials |
| `SupervisorBucle` | 3 clients, room for 2, one signal at any moment | select watches everybody, nobody is forgotten, sleep only after a signal, requests and SIGUSR2 are attended |
| `Comprueba` | 2 launchers, the supervisor, 4 texts, 2 inodes, 1 change; the tool with 2 installations | one table, one set of limits, true answers of the tool |

Why these bounds are enough for what they show:

* One record and the extra one with three launchers has a full table, a free
  record taken by somebody else between the test and the lock, and two sweeps that
  remove the same record; more records add no interaction, as a record only meets
  the launchers that own it one after another and the sweeps.
* Creation: two launchers and the tool give a creator, somebody who attaches in each
  gap of it, and a third who comes when the first has died; two installations are
  needed for `tabla[i]` and the static `tabla` to differ. In one configuration the first
  table that the supervisor asks for is too small for it, in the other it is not.
* With a hard limit of 1 and a window of 2 the third launcher gets in on a stale
  count: 3 busy launchers are reached, and 4 would be a violation. The window is
  the parameter of the property, not a simplification of the code: with a window
  as large as the pool nothing is promised, and nothing holds.
* Pipes of 2 pieces and an input of 3 block the parent with the child's output
  full; three requests are needed for a late alarm of one to meet the next.
* Headers and pairs of 2 bytes and a buffer of 3 cut every field of every record in
  each place, and let a record begin, end or lie inside a read. A second signal or
  a third connection repeats the first.
* Buffers of 3 units hold a header and two units of content: an output of 6 fills
  them, flushes them in the middle and leaves a rest. Reads of up to 3 units end before
  the second Content-type, inside its line, or after its newline; the NUL in that line is
  blanked in the first read and cuts a later one.
* Two requests let a launcher count on top of its own count with a removal,
  a snapshot or a reset in between.
* Three clients on room for two fill the table, close the highest socket with
  another below, and use a descriptor again.
* The four texts are two complete ones of different size, one without a limit, and one
  with an indented line: with one change a reader has read each of them before any
  other. A second change would only bring back a text already read.

`CHECK_DEADLOCK FALSE` stands where the system may really stop: every launcher dead
or waiting for a lock nobody gives back (`ApiShmLanzadores`, `ApiShmVivo`, `CreaTabla`),
the bounded number of requests or connections served (`ComandoCiclo`,
`ContadoresExactos`, `FcgiEntrada`, `FcgiSalida`), the supervisor ended
(`SupervisorBucle`), the tool ended (`Comprueba`).

Fairness, and why the code justifies it:

* `ApiShm`, `CreaTabla`, `Lanzador`: the kernel runs every process that can run and
  delivers pending signals (fairness of each process's own steps, strong in `ApiShm`:
  `semop` queues its waiters, so that nobody is overtaken for ever). Nothing obliges a
  launcher to start, a request to arrive, a call to fail, or anything to be killed or
  signalled. In `Lanzador` every child ends, which is what `Comando` is about; what it left
  behind has no fairness, nor has closing the pipes.
* The supervisor gets fairness for what it has begun, a sweep or the creation of its
  tables, and none for the rest of its loop, which may sleep in `accept`, `recv` or `send`
  of the history (supervisor.c:997, 1083), or stay in `CleanUp`. So the properties about
  its sweeps say so: `LimpiezaCompleta` and `BarreUltima` are about behaviours in which the
  supervisor keeps coming round, and the second names where it may stop instead.
* `Comando`: the parent runs and the timer fires. The CGI program gets no fairness
  at all. `childTimeOut` is taken to be above 0 (with 0 the alarm is never set).
* `FcgiEntrada`: the launcher runs, and the web server connects again and writes what it
  has to write up to the record whose answer it awaits. `accept` need not fail, SIGUSR1
  need not come.
* `FcgiSalida`: the launcher and the library run, and the server reads or closes. The CGI
  program ends its output, which is again what `Comando` is about.
* `Supervisor`: the loop runs (`Bucle`); clients, signals and failures of `accept`
  get nothing. That a sweep ends takes that the lock is granted at some point,
  which a launcher can prevent (see `start.c:255` below).
* `Comprueba`, `Contadores`: none. The walk of the tool need not end (`checkFastCGI.c:386`).

Signals are those of the C library of Linux as `entorno.sh` builds the code (no
feature macros): `signal()` keeps the handler, restarts `read`, `wait`, `recv`, `accept`
and not `select`, and holds a signal back while its own handler runs. The handler of
SIGUSR1 is libfcgi's, set with `sigaction` and without `SA_RESTART`.

## What is proved

14,388 proof obligations in 392 theorems and lemmas, for every value of the constants that
the named assumptions allow: any number of processes, records, requests, connections,
clients and signals. An invariant seldom keeps itself; each `IInv` says what else it
takes.

Every safety property of the passing runs is a theorem; `SoloEsperaValores` has two
hypotheses on what the server sends, given below.

* **ApiShm** (`ApiShmProofs`). In layers, so that each proof sees little. `Inv1`
  (types, the lock, which program counters a role has) gives `CerrojoExacto`: the
  semaphore plus all undo entries is 1, whoever dies. `Inv2` (a registering
  launcher has no record and writes a free one, the handler does not come back)
  gives `RegistroPropio`. `InvNum` (what each launcher in the middle of an insertion
  or a removal owes the counter) gives `NumNuncaExcede`; `rotos`, the launchers stopped
  between increment and pid, is why it can over-report at all. A supervisor killed
  inside the critical section is covered by these theorems and by no run.
* **Refinement** (`ApiShmProofs`, `Implementa`). Every step of the table is a step of
  `Registro` or a stutter: the records change only in the hands of the lock's owner.
* **Contadores** (`ApiShmProofs`). Every behaviour is one of `ApiShm`, so the
  theorems of the table hold here; types; for one supervisor that is not killed, the
  partials are the sum of the snapshots in the file; and `CuentaExacta` for any number of
  launchers. The last one compares sums over records, so the laws of a sum come first
  (`SumaPaso`, `SumaCambia`, by induction on the cardinality of the set), and
  then one lemma for each step that moves a term of the balance. It takes `InvMedio` (a
  removal that is about to add has cleared its record), `InvPet` (a launcher in a
  request is not registering) and `InvAux` (without accidents, what a launcher got is
  still what its record says). The record past the end has a term of its own (`Oculto`),
  and only while its owner is settled there: the proof failed on an earlier form without
  that condition, and for a reason that needs three launchers.
* **CreaTabla** (`CreaTablaProofs`). `SuCerrojo` from where each process's `tabla` and
  `locksem` point at each step (`InvPunteros`); `SemaforoExacto` from there being one
  process at most that is to give a semaphore its value (`InvSemaforo`);
  `NumSoloPierdePrimeros` from there being one at most that is to write the first values,
  before which the table has one place (`InvIniciando`, `InvPrimeros`).
  Any number of launchers, installations and configurations, with any deaths.
* **Lanzador** (`LanzadorProofs`). A record is busy only while its launcher is in
  `piped_child` (`InvHijo`: there is a child only while the parent waits), and a request
  is served with a configuration at least as new as the last reload announced
  before it (`InvRecarga`: an older one implies the flag is up or the file about to
  be read). `LimiteDuro` and `LimiteBlando`: no bound on the busy ones is inductive, as
  they change while they are counted. The invariant (`InvLimite`) is about a history, which
  it says exists: launchers numbered as they were accepted, and for each one who
  was in the window then. Whoever is busy, earlier and not of that window was busy
  before the count began, so the count has it. Two hypotheses: every launcher with a
  record is counted (`CuentaCompleta`: none in the record past the end, and
  `num_proc_registrados` not below the registered), and for the hard limit, that the soft
  one is not above it. Without the first the code promises nothing (`start.c:1033` below).
* **Comando** (`ComandoProofs`). The timer is always that of the request being
  served, and what is counted is what happened (`InvPid`: `pid_comando` is 0 exactly if
  the alarm went off; `InvManejador`: the handler is set exactly while a timer may run).
* **One child at a time** (`Implementa` in `ComandoProofs` and in `LanzadorProofs`). Every
  step of `piped_child`, seen from its pipes or from the table, is a step of `Ejecuta` or a
  stutter: `fase` and `hija` are functions of `pc`, `hijo` and, for a fork that failed, of
  there being no child to wait for.
* **FcgiEntrada** (`FcgiEntradaProofs`). The pointers of the reader stay in order and
  inside what has been read, for any connections and any cuts (`InvMarco`: a body is
  read only inside `FillBuffProc`); at most one connection is accepted after SIGUSR1
  (`InvAviso`: once there was one, `OS_Accept` is never again between its look and
  `accept`). `EntregaExacta` and `CompletaOError` come from `InvEntrega`: outside a request
  nothing has been handed over (`InvReposo`); the first byte neither delivered nor skipped,
  plus `contentLen` and `paddingLen`, is the end of the record at hand, also after half
  a header (`InvPosicion`); whose body is being read (`InvCuerpo`); which records of the
  request have gone by, and whose the bytes in hand are (`InvPeticion`); and that what was
  handed over lies before the reader (`InvDatos`). The records of a connection follow one
  another (`FcgiEntradaAssumption`); their lengths, cuts and owners are any. `SoloEsperaValores`
  from `InvEspera`: which answers the server has had are those to the records the reader
  has passed, and up to the next one it waits at everything is written. Where a server waits
  is its own choice, so the theorem (`Espera`) says of which servers it speaks: `Esperable`
  (it waits only where the protocol has an answer due: a management record, a second BEGIN
  on a connection that is not kept, the end of the input of a request whose parameters have
  ended) and `Limpio` (none of the records the library misreads). All
  the connections of the run are `Esperable`; some are not `Limpio`.
* **FcgiSalida** (`FcgiSalidaProofs`). A record with its header and its padding never
  passes the buffer of its writer (part of `TypeOK`), for any buffers and outputs; the
  induction needs that a stream is closed and discounted once (`InvCierre`).
  `OrdenSinError` and `MantieneEntera` from `InvHilo`: while no write has failed, what lies
  between what was written and what the server has (`Falta`) is in the buffers, or on its way
  in the form that the state of the server's parser asks for (`Trama`: header, content,
  end of the stream, end of the request). `SalidaEntregada` from `InvNulos`, read by read: each
  unit read has been handed over, is in the call in progress, follows a NUL of its read, or
  was in the line that the first read blanks (`QuitaEnTipo`).
* **Supervisor** (`SupervisorProofs`). `highest_sd` is the largest open socket; a
  connected client is in the queue or has exactly one socket; without an interrupted
  select, accept and recv are called only where there is something to read
  (`InvMarca`: the marked sockets the walk has not reached are open and ready).
* **Configura and Comprueba** (`ConfiguraProofs`). `ini_parse` is a fold over the lines
  of a text. `Pasos` gives its intermediate states, and `Lectura` that what it
  leaves of a key is either a value of the text, the same for every reader, or what the
  reader had; so `AcuerdoDeLectores`, for any text. `UnaTabla` from the one key that the
  inode gives (`InvClaves`, `InvNodo`) and the one size asked for before the first change
  (`InvInicio`). Of the tool, what its walk has been over (`InvVistas`, `RevisaTodas`) and
  that its key is the one of the file (`InvHClave`, `CodigoVeraz`).

What liveness rests on. That something happens at last takes fairness, and stays with TLC;
that nothing stands in its way does not, and is proved for every value of the constants.
Each theorem has two halves: whoever waits, waits for somebody who can go on; and each step
of an operation leaves less of it to do, in an order that cannot go down for ever (the
places left in a procedure, then the records, sockets, units or bytes left to look at), while
no step of anybody else takes it back.

| Theorem | Nothing stands in the way of |
|---|---|
| `ApiShmProofs!TrabajoAvanza` | `ArranqueTermina`, `LimpiezaCompleta`: the semaphore is free or its owner goes on, or SIGTERM caught the owner, launcher or supervisor, with the semaphore (`Atascado`; start.c:255, supervisor.c:1239) |
| `CreaTablaProofs!CreacionAvanza` | `LlegaAServir`, `BarreUltima`: a semaphore that was looked up is there, and held by one who gives it back without waiting, unless its creator died or stopped before SETVAL (`Huerfano`) or the supervisor stopped with it (`Retenido`) |
| `LanzadorProofs!PeticionAvanza` | `OcupadoSeLibera`: a launcher on the pipes or in `wait` has a child that can go on or has ended, or something left behind holds the pipes (`dejo`) |
| `ComandoProofs!NadieEsperaSinAlarma` | `TerminaSinNietos`: whoever is blocked on the pipes or in `wait` has its own timer running against its own child, or the child left a process behind |
| `FcgiEntradaProofs!LectorAvanza` | `AvisoTermina`: the reading stops only in a read the server has not answered |
| `FcgiSalidaProofs!FinishAvanza` | `AcabaSiempre`: `FCGX_Finish_r` always has a step to take |
| `SupervisorProofs!VueltaCompleta` | `ClienteAtendido`: a socket that is ready stays marked until the walk attends it |
| `SupervisorProofs!RefrescoNoSePierde` | `RefrescoAtendido`: a reload waiting has its flag up, but for `tarde` (supervisor.c:1007) |

Assumptions on constants are the named `ASSUME`s of the modules, which TLC evaluates in
the runs. Type invariants of the modules that have proofs are theorems, not properties
of the runs (but for `ApiShm`). The induction principles of the library take an operator
as a parameter, which the provers here cannot instantiate; where an induction was
needed (sums, the fold of a text, the positions of a sequence) it is written out on a
set of numbers or on cardinalities.

Only model-checked:

* Liveness itself, with its fairness (`ArranqueTermina`, `LimpiezaCompleta`, `LlegaAServir`, `BarreUltima`,
  `OcupadoSeLibera`, `TerminaSinNietos`, `AvisoTermina`, `AcabaSiempre`, `ClienteAtendido`,
  `RefrescoAtendido`): ENABLED and fairness are out of the prover's reach, and so is
  putting the steps of an order that cannot go down for ever together into an end.
* `SoloEsperaValores` on a connection with a record that the library misreads (not `Limpio`):
  the positions that `InvEntrega` speaks of are others there. A server that is not
  `Esperable`, waiting where no answer is due, makes the launcher wait too.

## What the code does differently from what it says

One run finds a violation of what a comment says:

* `ApiShmInexistentes`: a removal decided for a dead process clears the record of the
  live launcher that took its place (api_shm.c:316 is outside the lock), while the
  sweep "borra los que no existan" (api_shm.c:541). That launcher never gets a record
  again, as its `tPos` is not 0.

Seen while modelling. What a model has is named; the rest is left out of the models.

| Where | What |
|---|---|
| api_shm.c:132 | `<=`: `num_max_procesos + 1` launchers register, the last beyond sweeps and counts (`Registros`) |
| api_shm.c:316-356 | two removals of one record decrement the counter twice and add its counters twice (`BorraLock`, `BorraSuma`) |
| start.c:255 | SIGTERM inside a critical section makes `interceptor` wait for the semaphore of its own process; nobody gets the lock again (`RecibeTerm`; `Atascado`) |
| api_shm.c:67 | launchers that register before the first values find one place and are then not counted (`PoneNum`; `NumSoloPierdePrimeros`) |
| api_shm.c:67 | a creator that dies before SETVAL leaves a semaphore without a value: everybody waits (`Huerfano`) |
| cshmem.c:29 | shmget that fails with anything but EEXIST is followed by `shmat(-1)`, whose result is not NULL (`MapeaFalla`) |
| cshmem.c:32 | a table cannot grow: a process with a larger `maxProcess` gets no table (`MapeaNoCabe`, `Cabe`) |
| supervisor.c:482 | `tabla[i]` is the table attached last: only the last installation is swept, reloaded, saved and reset (`Asigna`) |
| supervisor.c:331 | `contador_lectura` is never incremented: the sizes of all installations are read into place 0 (`Conf`) |
| start.c:1037 | `>` lets the hard limit be passed by one without any race (`ExcedeDuro`) |
| start.c:1033 | with `num_proc_registrados` below the soft limit nothing is counted: a lost count switches the limits off (`EntradaBien`) |
| start.c:957-966 | SIGUSR2 between registration and `set_signals` ends the launcher (`RecibeUsr2`; `SupPropaga`) |
| start.c:971 | `argv_exec[0]` is copied once: a hot reload never changes the CGI program (`programa`) |
| start.c:269 | `if (...);`: when get fails, what is put is uninitialised (`Basura`) |
| start.c:351 | the alarm kills the child only; a process it left behind holds the pipe (`nieto`) |
| start.c:353 | between `wait` and `alarm(0)` the handler kills a pid that has been reaped |
| start.c:512 | the "second" Content-type is searched for from the fourteenth byte on: the only one of an output that begins with another header is blanked (`Quita`) |
| start.c:517 | the blanks run to the next newline wherever it is: over NULs, other text, and past the end of the read if it has none (`Quita`, `Restos`) |
| start.c:524 | what follows a NUL in a read of the output is lost (`SalidaEntregada`) |
| start.c:552 | ends other than status 0 and signal 9 are counted nowhere (`Clasifica`) |
| start.c:713 | `getIn` does not tell an error from the end: a request cut between two parameters, or in its body, is served (`CompletaOError`) |
| start.c:852 | a key that the file has no more keeps its value in who runs and is 0 in who starts (`ReadConfig`) |
| start.c:883 | the key comes from the inode: after the file is replaced new launchers make another table (`Ftok`; `UnaTabla`); once mapped, nobody looks at the key again (`Inserta`) |
| ini.c:107 | an indented line goes on with the value before it and makes a limit 0 (`Continua`) |
| supervisor.c:1366 | a launcher that read the file before an edit and registers after the propagation misses it, and so does the record past the end (`Avisados`) |
| fcgiapp.c:936, 1418 | a buffer whose write failed is written again from its beginning by FCGX_FClose (`MantieneEntera` says that such a connection is not kept) |
| fcgiapp.c:1144 | an error between two pairs ends the environment as its end does (`FinParams`) |
| fcgiapp.c:1441, 1635 | a FCGI_GET_VALUES that ends the buffer is answered only when more bytes come, or never (`SoloEsperaValores`) |
| fcgiapp.c:1649 | padding after an empty record, and the skip of another request's empty record, are misread (`Limpio` leaves those connections out) |
| fcgiapp.c:1668 | padding after FCGI_BEGIN_REQUEST is read as a header (`Limpio`) |
| fcgiapp.c | NewReader drops what its buffer still held: requests written ahead on a kept connection are lost (`Persistente \o Persistente`), and a server that awaits the answer to a management record that was in it is never answered (`SoloEsperaValores`, `act # 0`) |
| os_unix.c:1166 | after SIGUSR1 with a socket it has just closed `OS_Accept` turns for ever (`Gira`) |
| supervisor.c:997 | after EINTR every socket counts as ready and an idle one blocks (`Usr2EnSelect`) |
| supervisor.c:951 | the time of select is set once, so that the loop spins after it has run out (`Select` may always return) |
| supervisor.c:1007 | a SIGUSR2 between `propagaRefresco` and `flagrefresco=0` is lost (`tarde`) |
| supervisor.c:1083 | a client that closes without asking is served: `TCPReciveMsg` never returns `TCP_OOB` (`Recibe`) |
| tcputil.c:738 | the final zero is written one past the `LEN_MSG` bytes that supervisor.c:1081 reserves |
| supervisor.c:1134 | a short answer that fails, or a reset connection, ends the supervisor (`Responde`, `RecibeFalla`) |
| supervisor.c:1250 | `CleanUp` sends SIGTERM to its own process and never gets back to the loop: `stop_loop` is not looked at, and only SIGKILL ends it (`CleanUp`). Caught with the semaphore it keeps it, and everybody waits: `SEM_UNDO` does nothing for who lives (`Atascado`, `Retenido`); caught between semget and SETVAL it leaves the semaphore without a value |
| procesos.c:63-98 | the record is read again for each test and each `kill`: it may be somebody else's by then, and a pid or `pid_hijo` that has become 0 sends SIGTERM to the group of the supervisor itself (`LimpiaVivo`; the group is left out but for the supervisor) |
| supervisor.c:1193 | `sockets[sd]` without a look at the size (`AceptaFuera`) |
| supervisor.c:659 | `strcpy(buffer,0)`: the "online" query (`Destinos`) |
| supervisor.c:611 | a failed send of the history returns without closing the file |
| supervisor.c:694 | a total that overflowed is repaired as `-x - LONG_MAX` before it is added to |
| reset_fecha.c:76 | the tool writes the date outside the lock and resets no counter (`Suma`) |
| checkFastCGI.c:386 | the loop over `stats` uses the `i` of the walk: installations are jumped over, or walked again for ever (`HStats`) |
| checkFastCGI.c:177 | the key is made once, when the tool starts (`Ipckey`) |
| checkFastCGI.c:340 | `grep` finds the digits of the key in any row (`Grep`) |
| checkFastCGI.c:80 | `st_mode & S_IFDIR != 0` tests the last bit of the mode |
| checkFastCGI.c:62 | a process of another user counts as not running, and an empty pid file as process 0 (`HConfiguracion`) |
| checkFastCGI.c:317 | a file that cannot be opened ends the tool with 1, also with "-V" (`HIlegible`) |

## What is not modelled

* The verdict of a request that SIGUSR1 interrupts (`FcgiSalida` has its output). A
  `pipe()` that fails.
* A launcher inherits nothing from its parent here: between fork and exec the child
  has `interceptor`, and a SIGTERM to the group would remove the parent's record from it.
* libfcgi: asynchronous input, filters, FCGX_Attach and FCGX_Detach, running as plain
  CGI, formatted output, and the wrappers of stdio that start.c does not call.
* The supervisor's own configuration file, read once; the text of its answers, the
  sessions file, the maximum of busy launchers, the repair of overflowed totals.
* What a write past the table of sockets, a bad pointer from `shmat(-1)` or address 0
  does beyond ending the process; pids used again by the kernel.
* Functions of the libraries that nothing calls: `borra_proceso_pid`, `Limpia_procesos`,
  `imprime_tabla`, `destruye_tabla`, `sm_destroy`, the client side of tcputil.
* The text of dates, files, sessions and messages; lengths of lines and names; logging
  (arqtraza); the sample CGI programs; the tool `key`.

## Plan

Done: `ApiShm`, `Registro`, `CreaTabla`, `Lanzador`, `Comando`, `Ejecuta`, `FcgiEntrada`, `FcgiSalida`,
`Contadores`, `Supervisor`, `Configura`, `Comprueba`, with the proofs above. Left, in order of
worth:

1. `FcgiSalida` between `Lanzador` and `Comando`, with the verdict after SIGUSR1: a read, a
   write and a wait cut short in `Comando`, and `Ejecuta` kept or not.
2. The child between fork and exec as a process of `ApiShm`, with the inherited handler.
3. The arithmetic of ConsultaOnline that repairs overflowed totals, against a
   reference on words of few bits.
4. `Supervisor` composed with the sweeps of `ApiShm`, to replace `Revisa`.
