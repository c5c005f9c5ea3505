------------------------- MODULE FcgiEntradaProofs -------------------------
(***************************************************************************)
(* Proofs about the input side of a launcher, for every web server, buffer *)
(* and number of signals: the pointers of the reader stay in their order,  *)
(* SIGUSR1 lets one connection more be accepted at most, what is handed    *)
(* over is what was sent up to where the reader is, a request that is      *)
(* served without an error is whole, and the launcher and a server that    *)
(* waits where an answer is due wait for each other at GET_VALUES only,    *)
(* and the reading of a connection goes on to its end.                     *)
(***************************************************************************)
EXTENDS FcgiEntrada, WellFoundedInduction, TLAPS

USE DEF aceptacion, peticion, registro, buffer, entregado, vars, Lector, Vuelve, Llena, Servida,
        Regs, Indices, Corte

\* ProcessHeader reads a body only inside FillBuffProc, and of a record of the
\* connection.
InvMarco == marco = "cuerpo" => act \in Indices /\ pc \in {"llena", "vuelve"}

\* Once a connection has been accepted after SIGUSR1, OS_Accept is not on its
\* way to accept, and will not be: each turn begins with shutdownPending.
InvAviso ==
  /\ tras \in {0, 1}
  /\ tras = 1 => shutdownPending /\ pc \notin {"ventana", "accept"}

IInv == TypeOK /\ InvMarco /\ InvAviso

\* The lengths are above zero.
LEMMA Largos == HeaderLen \in Nat \ {0} /\ BeginLen \in Nat \ {0} /\ BuffLen \in Nat \ {0}
BY FcgiEntradaAssumption

\* Zero is a length, and every length is one up to itself.
LEMMA Cero == 0 \in 0..(HeaderLen - 1) /\ \A b \in Nat : b \in 0..b
BY Largos

\* The inductive invariant holds at the beginning.
LEMMA InitIInv == Init => IInv
<1> SUFFICES ASSUME Init PROVE IInv
  OBVIOUS
<1>1. Entregado
  BY DEF Init, Entregado
<1>2. TypeOK
  BY <1>1, Cero DEF Init, TypeOK
<1> QED
  BY <1>2 DEF Init, IInv, InvMarco, InvAviso

\* The records of a connection are records.
LEMMA EsRegistro ==
  ASSUME TypeOK, NEW k \in Indices
  PROVE  /\ k \in Nat
         /\ Regs[k].cont \in Nat /\ Regs[k].pad \in Nat /\ Regs[k].id \in Nat
         /\ Regs[k].keep \in BOOLEAN /\ Regs[k].tipo \in Tipos
<1> DEFINE C == [regs: Seq(Registro), corte: Nat]
<1>1. Guiones \in Seq(C) /\ con \in DOMAIN Guiones
  BY FcgiEntradaAssumption DEF TypeOK
<1>2. Guiones[con] \in C
  <2> HIDE DEF C
  <2> QED BY <1>1
<1>3. Regs \in Seq(Registro)
  BY <1>2
<1>4. k \in Nat /\ Regs[k] \in Registro
  BY <1>3
<1> QED
  BY <1>4 DEF Registro

\* OS_Accept keeps the invariant.
LEMMA AcceptIInv ==
  ASSUME IInv, MiraAviso \/ EntraAccept \/ Accept \/ AcceptFalla \/ Keeper \/ Descarta
  PROVE  IInv'
<1> USE DEF IInv, TypeOK, InvMarco, InvAviso
<1>1. CASE MiraAviso
  BY <1>1 DEF MiraAviso, Entregado
<1>2. CASE EntraAccept
  BY <1>2 DEF EntraAccept, Entregado
<1>3. CASE Accept
  BY <1>3 DEF Accept, Entregado
<1>4. CASE AcceptFalla
  BY <1>4 DEF AcceptFalla, Entregado
<1>5. CASE Keeper
  <2>1. Entregado'
    BY <1>5 DEF Keeper, NewReader, Entregado
  <2> QED
    BY <1>5, <2>1, Cero DEF Keeper, NewReader
<1>6. CASE Descarta
  BY <1>6 DEF Descarta, Entregado
<1> QED
  BY <1>1, <1>2, <1>3, <1>4, <1>5, <1>6

\* The three ways in which ProcessHeader leaves FillBuffProc.
LEMMA CabeceraIInv ==
  ASSUME IInv, NEW k \in Indices,
         \/ BeginMal(k) \/ BeginOtro(k) \/ BeginNuevo(k) \/ GetValues(k) \/ Desconocido(k)
         \/ Ajeno(k) \/ Inesperado(k) \/ Flujo(k)
  PROVE  IInv'
<1> USE DEF IInv, InvMarco, InvAviso
<1>1. /\ k \in Nat /\ Regs[k].cont \in Nat /\ Regs[k].pad \in Nat /\ Regs[k].id \in Nat
  BY EsRegistro
<1>2. CabeceraDe(k)
  BY DEF BeginMal, BeginOtro, BeginNuevo, BeginBien, GetValues, Desconocido, DeFlujo, Ajeno, Inesperado,
         Flujo
<1>3. /\ headerLen' \in 0..(HeaderLen - 1) /\ rdNext' \in 0..buffStop' /\ stop' \in 0..buffStop'
      /\ buffStop' \in Nat /\ contentLen' \in Nat /\ paddingLen' \in Nat /\ act' = k
  BY <1>1, <1>2, Largos DEF TypeOK, CabeceraDe, Cabecera, FinCabecera, EnCabecera
<1>4. /\ UNCHANGED <<socket, shutdownPending, senyales, conexiones, tras, con, type, isBeginProcessed,
                     keepConnection, inicio, params, entrada>>
      /\ pc = "llena" /\ marco = "no"
  BY <1>2 DEF CabeceraDe, Cabecera, EnCabecera
<1>5. /\ marco' \in {"no", "cuerpo", "valores"} /\ leidos' \in Nat /\ skip' \in BOOLEAN
      /\ requestId' \in Nat
  <2>1. marco' \in {marco, "cuerpo", "valores"} /\ leidos' \in {leidos, 0}
    BY DEF BeginMal, BeginOtro, BeginNuevo, GetValues, Desconocido, Ajeno, Inesperado, Flujo
  <2>2. skip' \in {skip, TRUE}
    BY DEF BeginMal, BeginOtro, BeginNuevo, GetValues, Desconocido, Ajeno, Inesperado, Flujo
  <2>3. requestId' \in {requestId, Regs[k].id}
    BY DEF BeginMal, BeginOtro, BeginNuevo, GetValues, Desconocido, Ajeno, Inesperado, Flujo
  <2>4. skip' \in BOOLEAN
    BY <2>2 DEF TypeOK
  <2> QED
    BY <1>1, <2>1, <2>3, <2>4 DEF TypeOK
<1>6. pc' \in {"llena", "vuelve"} /\ isClosed' \in BOOLEAN /\ error' \in BOOLEAN
  <2>1. Falla \/ Sigue \/ (error' = error /\ pc' \in {"llena", "vuelve"} /\ isClosed' \in {isClosed, TRUE})
    BY <1>4 DEF BeginMal, BeginOtro, BeginNuevo, GetValues, Desconocido, Ajeno, Inesperado, Flujo,
       Responde, NoResponde
  <2> QED
    BY <2>1, <1>4 DEF TypeOK, Falla, Sigue
<1>7. resp' \subseteq Nat
  BY <1>1 DEF TypeOK, Entregado, BeginMal, BeginOtro, BeginNuevo, GetValues, Desconocido, Ajeno,
     Inesperado, Flujo, Responde, NoResponde
<1>8. Entregado'
  BY <1>2, <1>4, <1>7 DEF TypeOK, Entregado, CabeceraDe, Cabecera
<1>9. TypeOK'
  BY <1>1, <1>3, <1>4, <1>5, <1>6, <1>8 DEF TypeOK
<1> QED
  BY <1>3, <1>4, <1>6, <1>9

\* FillBuffProc keeps the invariant.
LEMMA FillBuffIInv ==
  ASSUME IInv, FillBuffProc
  PROVE  IInv'
<1> USE DEF IInv, TypeOK, InvMarco, InvAviso
<1>1. CASE Lee
  <2>1. PICK n \in 1..Menor(BuffLen, Escrito - buffStop) : buffStop' = buffStop + n
    BY <1>1 DEF Lee
  <2>2. buffStop' \in Nat /\ buffStop <= buffStop'
    BY <2>1
  <2>3. Entregado'
    BY <1>1, <2>2 DEF Lee, Entregado
  <2> QED
    BY <1>1, <2>2, <2>3 DEF Lee
<1>2. CASE LeeFin
  BY <1>2 DEF LeeFin, Falla, Entregado
<1>3. CASE Entrega
  BY <1>3 DEF Entrega, Menor, Entregado
<1>4. CASE Salta
  <2>1. PICK n \in Nat : /\ n <= contentLen /\ n <= buffStop - rdNext
                         /\ contentLen' = contentLen - n /\ rdNext' = rdNext + n
                         /\ skip' = (contentLen > n)
    BY <1>4 DEF Salta, Menor
  <2>2. contentLen' \in Nat /\ rdNext' \in 0..buffStop /\ skip' \in BOOLEAN
    BY <2>1
  <2>3. pc' \in {"llena", "vuelve"} /\ isClosed' \in BOOLEAN /\ stop' \in {stop, rdNext'}
    BY <1>4 DEF Salta, FinDeSalto, FinDeRegistro
  <2> QED
    BY <1>4, <2>2, <2>3 DEF Salta, Entregado
<1>5. CASE Relleno
  <2>1. PICK n \in Nat : /\ n <= paddingLen /\ n <= buffStop - rdNext
                         /\ paddingLen' = paddingLen - n /\ rdNext' = rdNext + n
    BY <1>5 DEF Relleno, Menor
  <2>2. paddingLen' \in Nat /\ rdNext' \in 0..buffStop
    BY <2>1
  <2>3. pc' \in {"llena", "vuelve"} /\ isClosed' \in BOOLEAN /\ stop' \in {stop, rdNext'}
    BY <1>5 DEF Relleno, FinDeRegistro
  <2> QED
    BY <1>5, <2>2, <2>3 DEF Relleno, Entregado
<1>6. CASE FinSinRelleno
  BY <1>6 DEF FinSinRelleno, FinDeRegistro, Entregado
<1>7. CASE CabeceraParte
  BY <1>7, Largos DEF CabeceraParte, EnCabecera, Entregado
<1>8. CASE CabeceraMala
  BY <1>8, Largos DEF CabeceraMala, Cabecera, EnCabecera, FinCabecera, Falla, Entregado
<1>9. CASE ProcessHeader
  BY <1>9, CabeceraIInv DEF ProcessHeader
<1> QED
  BY <1>1, <1>2, <1>3, <1>4, <1>5, <1>6, <1>7, <1>8, <1>9 DEF FillBuffProc

\* Another connection: the reader is empty.
LEMMA TryAgainIInv ==
  ASSUME IInv, TryAgain, pc \notin {"ventana", "accept"},
         requestId' \in Nat /\ isBeginProcessed' \in BOOLEAN /\ keepConnection' \in BOOLEAN /\ inicio' \in Nat
  PROVE  IInv'
<1>1. Entregado'
  BY DEF TryAgain, NewReader, Entregado
<1>2. TypeOK'
  BY <1>1, Cero DEF TryAgain, NewReader, IInv, TypeOK
<1> QED
  BY <1>2 DEF TryAgain, NewReader, IInv, InvMarco, InvAviso

\* The callers of FillBuffProc keep it.
LEMMA LlamadoresIInv ==
  ASSUME IInv, Llamadores
  PROVE  IInv'
<1> USE DEF IInv, TypeOK, InvMarco, InvAviso
<1>1. CASE Consume
  <2>1. Trozo \subseteq 0..buffStop
    BY DEF Trozo
  <2>2. Entregado'
    BY <1>1, <2>1 DEF Consume, Entregado
  <2>3. leidos' \in Nat /\ pc' \in {"llena", "vuelve"}
    BY <1>1 DEF Consume
  <2> QED
    BY <1>1, <2>2, <2>3 DEF Consume
<1>2. ASSUME Begin
      PROVE  /\ requestId' \in Nat /\ isBeginProcessed' \in BOOLEAN /\ keepConnection' \in BOOLEAN
             /\ inicio' \in Nat
  <2>1. act \in Indices
    BY <1>2 DEF Begin
  <2>2. Regs[act].keep \in BOOLEAN
    BY <2>1, EsRegistro
  <2> QED
    BY <1>2, <2>2 DEF Begin
<1>3. CASE Empieza
  <2>1. requestId' \in Nat /\ isBeginProcessed' \in BOOLEAN /\ keepConnection' \in BOOLEAN /\ inicio' \in Nat
    BY <1>2, <1>3 DEF Empieza
  <2> QED
    BY <1>3, <2>1 DEF Empieza, SetReaderType, Entregado
<1>4. CASE RolDesconocido
  BY <1>2, <1>4, TryAgainIInv DEF RolDesconocido, Begin
<1>5. CASE CuerpoCorto
  BY <1>5, TryAgainIInv DEF CuerpoCorto
<1>6. CASE Valores
  BY <1>6 DEF Valores, Entregado
<1>7. CASE SinPeticion
  BY <1>7, TryAgainIInv DEF SinPeticion
<1>8. CASE FinParams
  BY <1>8 DEF FinParams, SetReaderType, Entregado
<1>9. CASE ParamsCortados
  BY <1>9, TryAgainIInv DEF ParamsCortados
<1>10. CASE FinEntrada
  BY <1>10 DEF FinEntrada, Entregado
<1> QED
  BY <1>1, <1>3, <1>4, <1>5, <1>6, <1>7, <1>8, <1>9, <1>10 DEF Llamadores

\* FCGX_Finish_r and SIGUSR1.
LEMMA FinishIInv ==
  ASSUME IInv, Finish \/ Usr1
  PROVE  IInv'
<1> USE DEF IInv, TypeOK, InvMarco, InvAviso
<1>1. CASE Cierra
  BY <1>1, TryAgainIInv DEF Cierra
<1>2. CASE Mantiene
  <2>1. resp' \subseteq Nat
    BY <1>2, EsRegistro DEF Mantiene, Esperados, Entregado
  <2>2. Entregado'
    BY <1>2, <2>1 DEF Mantiene, NewReader, Entregado
  <2> QED
    BY <1>2, <2>2, Cero DEF Mantiene, NewReader
<1>3. CASE Usr1
  <2>1. /\ socket' \in {"no", "vivo", "cerrado"} /\ senyales' \in Nat
        /\ pc' \in {pc, "fuera", "acepta", "vuelve"} \ {"accept"}
    BY <1>3 DEF Usr1, Falla
  <2>2. shutdownPending' = TRUE
    BY <1>3 DEF Usr1
  <2>3. isClosed' \in BOOLEAN /\ error' \in BOOLEAN
    BY <1>3 DEF Usr1, Falla
  <2>4. marco = "cuerpo" => pc' \in {"llena", "vuelve"}
    BY <1>3 DEF Usr1, Falla
  <2>5. UNCHANGED <<conexiones, tras, con, resp, type, registro, buffer, peticion, entregado>>
    BY <1>3 DEF Usr1
  <2>6. Entregado'
    BY <2>5 DEF Entregado
  <2>7. TypeOK'
    BY <2>1, <2>5, <2>6, <2>2, <2>3
  <2> QED
    BY <2>1, <2>4, <2>5, <2>7, <2>2
<1> QED
  BY <1>1, <1>2, <1>3 DEF Finish

\* Every step keeps the inductive invariant.
LEMMA NextIInv == IInv /\ [Next]_vars => IInv'
<1> SUFFICES ASSUME IInv, [Next]_vars PROVE IInv'
  OBVIOUS
<1>1. CASE Next
  BY <1>1, AcceptIInv, FillBuffIInv, LlamadoresIInv, FinishIInv DEF Next, Biblioteca, OS_Accept
<1>2. CASE UNCHANGED vars
  BY <1>2 DEF IInv, TypeOK, InvMarco, InvAviso, Entregado
<1> QED
  BY <1>1, <1>2

\* The invariant holds in every run.
THEOREM EntradaIInv == Spec => []IInv
<1> USE DEF Spec
<1> QED
  BY InitIInv, NextIInv, PTL DEF Spec

\* However a connection is cut into reads, and whatever comes in it, the reader
\* never goes past the bytes that it has read, and the types are kept.
THEOREM EntradaTypeOK == Spec => []TypeOK
BY EntradaIInv, PTL DEF IInv

\* SIGUSR1 lets OS_Accept take one connection more at most, for any number of
\* signals and of connections: the one of the window.
THEOREM AvisoUnaMas == Spec => []AceptaUnaMas
<1>1. IInv => AceptaUnaMas
  BY DEF IInv, InvAviso, AceptaUnaMas
<1> QED
  BY EntradaIInv, <1>1, PTL

-----------------------------------------------------------------------------
(* What is delivered.  Once a header has been read the reader knows where the *)
(* record that it is in ends; the rest of the invariant says which records    *)
(* have gone by, and whose the bytes in hand are.                             *)

\* The reader of a connection, without an error.
Leyendo == pc \in {"llena", "vuelve", "sirve", "abandona"} /\ ~error
\* In a request, of a connection whose records libfcgi reads well.
EnPeticion == Leyendo /\ isBeginProcessed /\ Limpio

\* The first byte that has been neither delivered nor skipped.
Tope == IF rdNext < stop THEN stop ELSE rdNext

\* Before the first header there is nothing to read of a record, and outside a
\* request nothing has been handed over; who serves has seen the end.
InvReposo ==
  /\ Leyendo => (isBeginProcessed <=> type # "BEGIN")
  /\ Leyendo /\ type = "BEGIN" => params = {} /\ entrada = {}
  /\ Leyendo /\ act = 0 => contentLen = 0 /\ paddingLen = 0 /\ marco = "no" /\ type = "BEGIN"
  /\ act # 0 => act \in Indices
  /\ pc = "llena" \/ isClosed => stop <= rdNext
  /\ pc = "llena" => ~isClosed
  /\ pc = "sirve" => type = "STDIN" /\ isClosed
  /\ pc \in {"sirve", "abandona"} => marco = "no"

\* Where the reader is in the record of the last header.
InvPosicion ==
  Leyendo /\ act # 0 /\ (isBeginProcessed => Limpio) =>
    /\ Tope - headerLen + contentLen + paddingLen = Regs[act].fin
    /\ contentLen <= Regs[act].cont /\ paddingLen <= Regs[act].pad
    /\ contentLen > 0 \/ rdNext < stop => paddingLen = Regs[act].pad /\ headerLen = 0
    /\ headerLen > 0 => paddingLen = 0
    /\ Regs[act].ini + HeaderLen <= rdNext

\* The body of a BEGIN record, and GET_VALUES.
InvCuerpo ==
  /\ Leyendo /\ marco = "cuerpo" =>
       /\ ~isBeginProcessed /\ act # 0
       /\ Regs[act].tipo = "BEGIN" /\ Regs[act].cont = BeginLen
       /\ Regs[act].id = requestId /\ requestId # 0
       /\ Regs[act].ini + HeaderLen + leidos <= rdNext
  /\ Leyendo /\ marco = "valores" => act # 0 /\ Regs[act].id = 0
  /\ Leyendo /\ marco # "no" => headerLen = 0

\* The records of the request that have gone by, and the one at hand.
Vistos(t) == {k \in DePeticion(t) : k <= act}
InvPeticion ==
  EnPeticion =>
    /\ inicio \in Indices /\ inicio <= act /\ requestId # 0
    /\ \A k \in Vistos(type) : Regs[k].cont = 0 => k = act /\ isClosed
    /\ type = "PARAMS" => Vistos("STDIN") = {}
    /\ type = "STDIN" => \E e \in Vistos("PARAMS") : Regs[e].cont = 0
    /\ isClosed /\ marco = "no" => act \in DePeticion(type) /\ Regs[act].cont = 0
    /\ skip => contentLen > 0 /\ (Regs[act].id # requestId \/ Regs[act].tipo = "BEGIN")
    /\ marco = "no" /\ ((contentLen > 0 /\ ~skip) \/ rdNext < stop) => act \in DePeticion(type)

Dado(t) == {p \in Enviado(t) : p < rdNext}
InvDatos ==
  EnPeticion => params = Dado("PARAMS") /\ entrada = Dado("STDIN")

InvEntrega == InvReposo /\ InvPosicion /\ InvCuerpo /\ InvPeticion /\ InvDatos

\* Every record is one, in its place among the others.
LEMMA EnOrden ==
  ASSUME TypeOK
  PROVE  /\ \A k \in Indices :
              /\ k \in Nat \ {0}
              /\ Regs[k].ini \in Nat /\ Regs[k].fin \in Nat
              /\ Regs[k].cont \in Nat /\ Regs[k].pad \in Nat /\ Regs[k].id \in Nat
              /\ Regs[k].fin = Regs[k].ini + HeaderLen + Regs[k].cont + Regs[k].pad
         /\ \A j, k \in Indices : j < k => Regs[j].fin <= Regs[k].ini
<1> DEFINE C == [regs: Seq(Registro), corte: Nat]
<1>1. Guiones \in Seq(C) /\ con \in DOMAIN Guiones
  BY FcgiEntradaAssumption DEF TypeOK
<1>2. Guiones[con] \in C
  <2> HIDE DEF C
  <2> QED BY <1>1
<1>3. Regs \in Seq(Registro)
  BY <1>2
<1>4. \A k \in Indices : k \in Nat \ {0} /\ Regs[k] \in Registro
  BY <1>3
<1>5. \A k \in Indices :
        /\ k \in Nat \ {0} /\ Regs[k].ini \in Nat /\ Regs[k].fin \in Nat
        /\ Regs[k].cont \in Nat /\ Regs[k].pad \in Nat /\ Regs[k].id \in Nat
  BY <1>4 DEF Registro
<1>6. \A k \in Indices : Regs[k].fin = Regs[k].ini + HeaderLen + Regs[k].cont + Regs[k].pad
  BY <1>1, FcgiEntradaAssumption
<1>7. \A j, k \in Indices : j < k => Regs[j].fin <= Regs[k].ini
  BY <1>1, FcgiEntradaAssumption
<1> QED
  BY <1>5, <1>6, <1>7

\* Between a record and the one whose header begins at its end there is none.
LEMMA ElSiguiente ==
  ASSUME TypeOK, NEW j \in Indices, NEW k \in Indices, Regs[k].ini = Regs[j].fin
  PROVE  j < k /\ \A i \in Indices : i <= k => i <= j \/ i = k
<1>1. HeaderLen \in Nat \ {0}
  BY Largos
<1>2. \A i \in Indices :
        i \in Nat /\ Regs[i].ini \in Nat /\ Regs[i].fin \in Nat /\ Regs[i].ini < Regs[i].fin
  BY <1>1, EnOrden
<1>3. \A i \in Indices : ~(i < k /\ k <= j) /\ ~(j < i /\ i < k)
  BY <1>2, EnOrden
<1>4. ~(k <= j)
  BY <1>2, EnOrden
<1> QED
  BY <1>2, <1>3, <1>4

\* A byte of the stream is in the content of one record, and in nothing else.
LEMMA EnSuRegistro ==
  ASSUME TypeOK, NEW t, NEW p \in Enviado(t), NEW k \in Indices
  PROVE  /\ p \in Nat
         /\ Regs[k].ini <= p /\ p < Regs[k].fin =>
              k \in DePeticion(t) /\ Regs[k].ini + HeaderLen <= p /\ p < Regs[k].ini + HeaderLen + Regs[k].cont
         /\ Regs[k].fin <= p => Regs[k].fin + HeaderLen <= p
<1>1. PICK j \in Indices : /\ j \in DePeticion(t)
                          /\ Regs[j].ini + HeaderLen <= p /\ p <= Regs[j].ini + HeaderLen + Regs[j].cont - 1
                          /\ p \in (Regs[j].ini + HeaderLen)..(Regs[j].ini + HeaderLen + Regs[j].cont - 1)
  BY DEF Enviado, DePeticion, Contenido
<1>2. HeaderLen \in Nat \ {0}
  BY Largos
<1>3. /\ Regs[j].ini \in Nat /\ Regs[j].cont \in Nat /\ Regs[j].pad \in Nat
      /\ Regs[j].fin = Regs[j].ini + HeaderLen + Regs[j].cont + Regs[j].pad
      /\ Regs[k].ini \in Nat /\ Regs[k].cont \in Nat /\ Regs[k].pad \in Nat
      /\ Regs[k].fin = Regs[k].ini + HeaderLen + Regs[k].cont + Regs[k].pad
      /\ j \in Nat /\ k \in Nat
  BY EnOrden
<1>4. p \in Nat
  BY <1>1, <1>2, <1>3
<1>5. CASE j = k
  BY <1>1, <1>2, <1>3, <1>4, <1>5
<1>6. CASE j < k
  <2>1. Regs[j].fin <= Regs[k].ini
    BY <1>6, EnOrden
  <2> QED BY <1>1, <1>2, <1>3, <1>4, <2>1
<1>7. CASE k < j
  <2>1. Regs[k].fin <= Regs[j].ini
    BY <1>7, EnOrden
  <2> QED BY <1>1, <1>2, <1>3, <1>4, <2>1
<1> QED
  BY <1>3, <1>5, <1>6, <1>7

\* What was sent does not change while a request is read.
LEMMA PeticionIgual ==
  ASSUME UNCHANGED <<con, requestId, inicio>>, NEW t
  PROVE  DePeticion(t)' = DePeticion(t) /\ Enviado(t)' = Enviado(t) /\ (Limpio' <=> Limpio)
<1>1. DePeticion(t)' = DePeticion(t)
  BY DEF DePeticion
<1>2. \A k : Contenido(k)' = Contenido(k)
  BY DEF Contenido
<1>3. Enviado(t)' = Enviado(t)
  BY <1>1, <1>2 DEF Enviado
<1>4. Limpio' <=> Limpio
  BY DEF Limpio
<1> QED
  BY <1>1, <1>3, <1>4

\* Another reader: nothing has been read of it.
LEMMA NuevoEntrega ==
  ASSUME NEW b, b \in Nat, NewReader(b),
         pc' = "acepta" \/ (pc' = "llena" /\ isBeginProcessed' = FALSE)
  PROVE  InvEntrega'
BY DEF NewReader, InvEntrega, InvReposo, InvPosicion, InvCuerpo, InvPeticion, InvDatos, Leyendo,
       EnPeticion

\* OS_Accept and the end of the loop: nobody reads.
LEMMA FueraEntrega ==
  ASSUME InvEntrega, pc' \notin {"llena", "vuelve", "sirve", "abandona"},
         UNCHANGED <<con, act, isClosed, stop, rdNext>>
  PROVE  InvEntrega'
BY DEF InvEntrega, InvReposo, InvPosicion, InvCuerpo, InvPeticion, InvDatos, Leyendo, EnPeticion

\* An error: what has been delivered is not all.
LEMMA FallaEntrega ==
  ASSUME InvEntrega, error' = TRUE, con' = con, act' \in Indices \cup {act}, marco' \in {marco, "no"},
         pc' = "vuelve", stop' <= rdNext'
  PROVE  InvEntrega'
BY DEF InvEntrega, InvReposo, InvPosicion, InvCuerpo, InvPeticion, InvDatos, Leyendo, EnPeticion

\* The reader goes on to a byte before which there is nothing more of either
\* stream.
LEMMA AvanzaDatos ==
  ASSUME InvDatos, TypeOK, EnPeticion, act \in Indices, UNCHANGED <<con, requestId, inicio, params, entrada>>,
         rdNext' \in Nat, rdNext <= rdNext',
         \A t \in {"PARAMS", "STDIN"} : \A p \in Enviado(t) : p < rdNext \/ rdNext' <= p
  PROVE  InvDatos'
<1>1. ASSUME NEW t \in {"PARAMS", "STDIN"} PROVE Dado(t)' = Dado(t)
  <2>1. \A p \in Enviado(t) : p \in Nat
    BY EnSuRegistro
  <2>2. Enviado(t)' = Enviado(t)
    BY PeticionIgual
  <2>3. rdNext \in Nat
    BY DEF TypeOK
  <2> QED BY <2>1, <2>2, <2>3 DEF Dado
<1> QED
  BY <1>1 DEF InvDatos

\* The numbers of the reader and of the record at hand.
LEMMA Numeros ==
  ASSUME TypeOK, act \in Indices
  PROVE  /\ Regs[act].ini \in Nat /\ Regs[act].fin \in Nat /\ Regs[act].cont \in Nat
         /\ Regs[act].pad \in Nat /\ Regs[act].id \in Nat
         /\ Regs[act].fin = Regs[act].ini + HeaderLen + Regs[act].cont + Regs[act].pad
         /\ HeaderLen \in Nat \ {0} /\ BeginLen \in Nat \ {0}
         /\ rdNext \in Nat /\ stop \in Nat /\ buffStop \in Nat /\ contentLen \in Nat
         /\ paddingLen \in Nat /\ headerLen \in Nat /\ headerLen < HeaderLen
         /\ rdNext <= buffStop /\ stop <= buffStop /\ leidos \in Nat /\ act \in Nat
BY EnOrden, Largos DEF TypeOK

\* Inside a request a header has been read, and the reader is after BEGIN.
LEMMA EnPeticionAct ==
  ASSUME InvReposo, EnPeticion
  PROVE  act # 0 /\ act \in Indices /\ type # "BEGIN"
BY DEF InvReposo, EnPeticion, Leyendo

\* A read brings bytes to the buffer and nothing else.
LEMMA LeeEntrega ==
  ASSUME IInv, InvEntrega, Lee
  PROVE  InvEntrega'
<1>1. UNCHANGED <<pc, con, type, registro, rdNext, stop, isClosed, error, peticion, entregado>>
  BY DEF Lee
<1>2. \A t : DePeticion(t)' = DePeticion(t) /\ Enviado(t)' = Enviado(t) /\ (Limpio' <=> Limpio)
  BY <1>1, PeticionIgual
<1>3. InvReposo'
  BY <1>1 DEF InvEntrega, InvReposo, Leyendo
<1>4. InvPosicion'
  BY <1>1, <1>2 DEF InvEntrega, InvPosicion, Leyendo, Tope
<1>5. InvCuerpo'
  BY <1>1 DEF InvEntrega, InvCuerpo, Leyendo
<1>6. InvPeticion' /\ InvDatos'
  BY <1>1, <1>2 DEF InvEntrega, InvPeticion, InvDatos, Dado, Vistos, EnPeticion, Leyendo
<1> QED
  BY <1>3, <1>4, <1>5, <1>6 DEF InvEntrega

\* Content in hand belongs to the stream that is being read, or to the body of
\* a record that ProcessHeader reads.
LEMMA EntregaEntrega ==
  ASSUME IInv, InvEntrega, Entrega
  PROVE  InvEntrega'
<1>1. /\ UNCHANGED <<con, type, marco, act, headerLen, paddingLen, skip, leidos, rdNext, isClosed, error,
                     peticion, entregado>>
      /\ pc = "llena" /\ pc' = "vuelve" /\ rdNext < buffStop /\ contentLen > 0 /\ ~skip
  BY DEF Entrega
<1>2. PICK n \in Nat : /\ n > 0 /\ n <= contentLen /\ n <= buffStop - rdNext
                       /\ contentLen' = contentLen - n /\ stop' = rdNext + n
  BY <1>1 DEF Entrega, Menor, IInv, TypeOK
<1>3. \A t : DePeticion(t)' = DePeticion(t) /\ Enviado(t)' = Enviado(t) /\ (Limpio' <=> Limpio)
  BY <1>1, PeticionIgual
<1>4. stop <= rdNext /\ ~isClosed /\ contentLen' \in Nat /\ rdNext < stop'
  BY <1>1, <1>2 DEF InvEntrega, InvReposo, IInv, TypeOK
<1>5. InvReposo'
  BY <1>1, <1>4 DEF InvEntrega, InvReposo, Leyendo
<1>6. InvPosicion'
  <2> SUFFICES ASSUME Leyendo', act # 0, isBeginProcessed => Limpio PROVE InvPosicion'
    BY <1>1, <1>3 DEF InvPosicion
  <2>1. act \in Indices
    BY DEF InvEntrega, InvReposo
  <2>2. /\ Tope - headerLen + contentLen + paddingLen = Regs[act].fin
        /\ contentLen <= Regs[act].cont /\ paddingLen = Regs[act].pad /\ headerLen = 0
        /\ Regs[act].ini + HeaderLen <= rdNext
    BY <1>1 DEF InvEntrega, InvPosicion, Leyendo
  <2>3. Tope = rdNext /\ Tope' = rdNext + n
    BY <1>1, <1>2, <1>4 DEF Tope, IInv, TypeOK
  <2> QED
    BY <1>1, <1>2, <2>1, <2>2, <2>3, Numeros DEF InvPosicion, IInv
<1>7. InvCuerpo'
  BY <1>1 DEF InvEntrega, InvCuerpo, Leyendo
<1>8. InvPeticion'
  BY <1>1, <1>3, <1>4 DEF InvEntrega, InvPeticion, Vistos, EnPeticion, Leyendo
<1>9. InvDatos'
  BY <1>1, <1>3 DEF InvEntrega, InvDatos, Dado, EnPeticion, Leyendo
<1> QED
  BY <1>5, <1>6, <1>7, <1>8, <1>9 DEF InvEntrega

\* Bytes that nobody asks for go by: content of a record of another request,
\* and padding.
LEMMA PasaBytes ==
  ASSUME IInv, InvEntrega, pc = "llena", NEW n \in Nat, n <= buffStop - rdNext,
         UNCHANGED <<con, type, marco, act, headerLen, leidos, error, peticion, entregado>>,
         rdNext' = rdNext + n, contentLen' \in Nat, paddingLen' \in Nat,
         \/ /\ contentLen > 0 /\ skip /\ contentLen' = contentLen - n /\ paddingLen' = paddingLen
            /\ skip' <=> contentLen' > 0
         \/ contentLen = 0 /\ contentLen' = 0 /\ paddingLen' = paddingLen - n /\ skip' = skip,
         \/ UNCHANGED <<pc, stop, isClosed>>
         \/ pc' = "vuelve" /\ stop' = rdNext' /\ isClosed' = TRUE /\ marco # "no"
  PROVE  InvEntrega'
<1>1. stop <= rdNext /\ ~isClosed /\ rdNext \in Nat /\ stop \in Nat /\ stop' <= rdNext'
  BY DEF InvEntrega, InvReposo, IInv, TypeOK
<1>2. \A t : DePeticion(t)' = DePeticion(t) /\ Enviado(t)' = Enviado(t) /\ (Limpio' <=> Limpio)
  BY PeticionIgual
<1>3. Tope = rdNext /\ Tope' = rdNext + n
  BY <1>1 DEF Tope
<1>4. InvReposo'
  <2>1. Leyendo' => Leyendo
    BY DEF Leyendo
  <2>2. act = 0 /\ Leyendo => contentLen = 0 /\ paddingLen = 0
    BY DEF InvEntrega, InvReposo
  <2>3. act = 0 /\ Leyendo => contentLen' = 0 /\ paddingLen' = 0
    BY <2>2 DEF IInv, TypeOK
  <2> QED BY <1>1, <2>1, <2>3 DEF InvEntrega, InvReposo
<1>5. InvPosicion'
  <2> SUFFICES ASSUME Leyendo', act # 0, isBeginProcessed => Limpio PROVE InvPosicion'
    BY <1>2 DEF InvPosicion
  <2>1. act \in Indices
    BY DEF InvEntrega, InvReposo
  <2>2. /\ rdNext - headerLen + contentLen + paddingLen = Regs[act].fin
        /\ contentLen <= Regs[act].cont /\ paddingLen <= Regs[act].pad
        /\ contentLen > 0 => paddingLen = Regs[act].pad /\ headerLen = 0
        /\ headerLen > 0 => paddingLen = 0
        /\ Regs[act].ini + HeaderLen <= rdNext
    BY <1>3 DEF InvEntrega, InvPosicion, Leyendo
  <2> QED
    BY <1>1, <1>3, <2>1, <2>2, Numeros DEF InvPosicion, IInv
<1>6. InvCuerpo'
  <2>1. Leyendo' => Leyendo
    BY DEF Leyendo
  <2>2. Leyendo /\ marco = "cuerpo" => act # 0 /\ act \in Indices /\ Regs[act].ini + HeaderLen + leidos <= rdNext
    BY DEF InvEntrega, InvCuerpo, InvReposo
  <2>3. Leyendo /\ marco = "cuerpo" => Regs[act].ini + HeaderLen + leidos <= rdNext'
    BY <1>1, <2>2, Numeros DEF IInv
  <2> QED BY <2>1, <2>3 DEF InvEntrega, InvCuerpo
<1>7. InvPeticion'
  BY <1>1, <1>2 DEF InvEntrega, InvPeticion, Vistos, EnPeticion, Leyendo
<1>8. InvDatos'
  <2> SUFFICES ASSUME EnPeticion PROVE InvDatos'
    BY <1>2 DEF InvDatos, EnPeticion, Leyendo
  <2>1. act # 0 /\ act \in Indices
    BY EnPeticionAct DEF InvEntrega
  <2>2. /\ rdNext - headerLen + contentLen + paddingLen = Regs[act].fin
        /\ contentLen <= Regs[act].cont /\ paddingLen <= Regs[act].pad
        /\ contentLen > 0 => paddingLen = Regs[act].pad /\ headerLen = 0
        /\ headerLen > 0 => paddingLen = 0
        /\ Regs[act].ini + HeaderLen <= rdNext
    BY <1>3, <2>1 DEF InvEntrega, InvPosicion, Leyendo, EnPeticion
  <2>3. skip => \A t \in {"PARAMS", "STDIN"} : act \notin DePeticion(t)
    BY DEF InvEntrega, InvPeticion, DePeticion
  <2>4. ASSUME NEW t \in {"PARAMS", "STDIN"}, NEW p \in Enviado(t), rdNext <= p, p < rdNext'
        PROVE FALSE
    <3>1. /\ p \in Nat
          /\ Regs[act].ini <= p /\ p < Regs[act].fin =>
               act \in DePeticion(t) /\ p < Regs[act].ini + HeaderLen + Regs[act].cont
      BY <2>1, EnSuRegistro DEF IInv
    <3>2. rdNext' <= Regs[act].fin
      <4>1. n > 0
        BY <1>1, <2>4, <3>1
      <4>2. headerLen = 0
        BY <2>1, <2>2, <4>1, Numeros DEF IInv
      <4> QED BY <2>1, <2>2, <4>2, Numeros DEF IInv
    <3>3. act \in DePeticion(t) /\ p < Regs[act].ini + HeaderLen + Regs[act].cont
      BY <2>1, <2>2, <2>4, <3>1, <3>2, Numeros DEF IInv
    <3>4. ~skip
      BY <2>3, <3>3
    <3> QED
      BY <2>1, <2>2, <2>4, <3>1, <3>3, <3>4, Numeros DEF IInv
  <2>5. \A t \in {"PARAMS", "STDIN"} : \A p \in Enviado(t) : p \in Nat
    BY <2>1, EnSuRegistro DEF IInv
  <2>6. \A t \in {"PARAMS", "STDIN"} : \A p \in Enviado(t) : p < rdNext \/ rdNext' <= p
    BY <1>1, <2>4, <2>5
  <2> QED
    BY <1>1, <2>1, <2>6, AvanzaDatos DEF InvEntrega, IInv
<1> QED
  BY <1>4, <1>5, <1>6, <1>7, <1>8 DEF InvEntrega

\* Skipped content, padding and its absence hand nothing over.
LEMMA SaltaEntrega ==
  ASSUME IInv, InvEntrega, Salta \/ Relleno \/ FinSinRelleno
  PROVE  InvEntrega'
<1>1. CASE Salta
  <2>1. PICK n \in Nat : /\ n = Menor(contentLen, buffStop - rdNext)
                         /\ n <= contentLen /\ n <= buffStop - rdNext
                         /\ contentLen' = contentLen - n /\ rdNext' = rdNext + n
                         /\ FinDeSalto(n)
    BY <1>1 DEF Salta, Menor, IInv, TypeOK
  <2>2. contentLen' \in Nat /\ (skip' <=> contentLen' > 0)
    <3>1. skip' = (contentLen > n)
      BY <1>1, <2>1 DEF Salta
    <3>2. (contentLen > n) <=> contentLen' > 0
      BY <2>1 DEF IInv, TypeOK
    <3>3. skip' <=> contentLen' > 0
      BY <3>1, <3>2, Zenon
    <3> QED BY <2>1, <3>3 DEF IInv, TypeOK
  <2>3. \/ UNCHANGED <<pc, stop, isClosed>>
        \/ pc' = "vuelve" /\ stop' = rdNext' /\ isClosed' = TRUE /\ marco # "no"
    BY <2>1 DEF FinDeSalto, FinDeRegistro
  <2>4. /\ pc = "llena" /\ contentLen > 0 /\ skip /\ paddingLen' = paddingLen /\ paddingLen' \in Nat
        /\ UNCHANGED <<con, type, marco, act, headerLen, leidos, error, peticion, entregado>>
    BY <1>1 DEF Salta, IInv, TypeOK
  <2> QED
    BY <2>1, <2>2, <2>3, <2>4, PasaBytes
<1>2. CASE Relleno
  <2>1. PICK n \in Nat : /\ n = Menor(paddingLen, buffStop - rdNext)
                         /\ n <= paddingLen /\ n <= buffStop - rdNext
                         /\ paddingLen' = paddingLen - n /\ rdNext' = rdNext + n
    BY <1>2 DEF Relleno, Menor, IInv, TypeOK
  <2>2. paddingLen' \in Nat
    BY <2>1 DEF IInv, TypeOK
  <2>3. \/ UNCHANGED <<pc, stop, isClosed>>
        \/ pc' = "vuelve" /\ stop' = rdNext' /\ isClosed' = TRUE /\ marco # "no"
    BY <1>2, <2>1 DEF Relleno, FinDeRegistro
  <2>4. /\ pc = "llena" /\ contentLen = 0 /\ contentLen' = 0 /\ skip' = skip
        /\ UNCHANGED <<con, type, marco, act, headerLen, leidos, error, peticion, entregado>>
    BY <1>2 DEF Relleno
  <2> QED
    BY <2>1, <2>2, <2>3, <2>4, PasaBytes
<1>3. CASE FinSinRelleno
  <2>1. PICK n \in Nat : n = 0 /\ n <= buffStop - rdNext
    BY <1>3 DEF FinSinRelleno, IInv, TypeOK
  <2>2. /\ pc = "llena" /\ contentLen = 0 /\ contentLen' = 0 /\ skip' = skip /\ paddingLen' = paddingLen - n
        /\ rdNext' = rdNext + n /\ contentLen' \in Nat /\ paddingLen' \in Nat
        /\ pc' = "vuelve" /\ stop' = rdNext' /\ isClosed' = TRUE /\ marco # "no"
        /\ UNCHANGED <<con, type, marco, act, headerLen, leidos, error, peticion, entregado>>
    BY <1>3, <2>1 DEF FinSinRelleno, FinDeRegistro, IInv, TypeOK
  <2> QED
    BY <2>1, <2>2, PasaBytes
<1> QED
  BY <1>1, <1>2, <1>3

\* Between a record and the end of the next header there is nothing of a stream.
LEMMA BytesDeCabecera ==
  ASSUME IInv, InvEntrega, EnPeticion, pc = "llena", contentLen = 0, paddingLen = 0,
         NEW m \in Nat, m <= rdNext + HeaderLen - headerLen
  PROVE  \A t \in {"PARAMS", "STDIN"} : \A p \in Enviado(t) : p < rdNext \/ m <= p
<1>1. act # 0 /\ act \in Indices
  BY EnPeticionAct DEF InvEntrega
<1>2. stop <= rdNext /\ rdNext \in Nat /\ stop \in Nat
  BY DEF InvEntrega, InvReposo, IInv, TypeOK
<1>3. rdNext - headerLen = Regs[act].fin
  <2>1. Tope = rdNext
    BY <1>2 DEF Tope
  <2>2. Tope - headerLen + contentLen + paddingLen = Regs[act].fin
    BY <1>1 DEF InvEntrega, InvPosicion, EnPeticion
  <2> QED BY <1>1, <2>1, <2>2, Numeros DEF IInv
<1> SUFFICES ASSUME NEW t \in {"PARAMS", "STDIN"}, NEW p \in Enviado(t), rdNext <= p PROVE m <= p
  <2>1. \A t \in {"PARAMS", "STDIN"} : \A p \in Enviado(t) : p \in Nat
    BY <1>1, EnSuRegistro DEF IInv
  <2> QED BY <1>2, <2>1
<1>4. p \in Nat /\ (Regs[act].fin <= p => Regs[act].fin + HeaderLen <= p)
  BY <1>1, EnSuRegistro DEF IInv
<1> QED
  BY <1>1, <1>3, <1>4, Numeros DEF IInv

\* Half a header hands nothing over.
LEMMA CabeceraParteEntrega ==
  ASSUME IInv, InvEntrega, CabeceraParte
  PROVE  InvEntrega'
<1>1. /\ UNCHANGED <<pc, con, type, marco, act, contentLen, paddingLen, skip, leidos, stop, isClosed, error,
                     peticion, entregado>>
      /\ pc = "llena" /\ contentLen = 0 /\ paddingLen = 0 /\ marco = "no" /\ rdNext < buffStop
      /\ headerLen' = headerLen + (buffStop - rdNext) /\ rdNext' = buffStop
      /\ headerLen + (buffStop - rdNext) < HeaderLen
  BY DEF CabeceraParte, EnCabecera
<1>2. \A t : DePeticion(t)' = DePeticion(t) /\ Enviado(t)' = Enviado(t) /\ (Limpio' <=> Limpio)
  BY <1>1, PeticionIgual
<1>3. /\ stop <= rdNext /\ ~isClosed /\ rdNext \in Nat /\ stop \in Nat /\ buffStop \in Nat
      /\ stop <= rdNext' /\ headerLen \in Nat /\ HeaderLen \in Nat
  BY <1>1, Largos DEF InvEntrega, InvReposo, IInv, TypeOK
<1>4. Tope = rdNext /\ Tope' = buffStop
  BY <1>1, <1>3 DEF Tope
<1>5. InvReposo'
  BY <1>1, <1>3 DEF InvEntrega, InvReposo, Leyendo
<1>6. InvPosicion'
  <2> SUFFICES ASSUME Leyendo, act # 0, isBeginProcessed => Limpio PROVE InvPosicion'
    BY <1>1, <1>2 DEF InvPosicion, Leyendo
  <2>1. act \in Indices
    BY DEF InvEntrega, InvReposo
  <2>2. /\ Tope - headerLen + contentLen + paddingLen = Regs[act].fin
        /\ Regs[act].ini + HeaderLen <= rdNext
        /\ contentLen <= Regs[act].cont /\ paddingLen <= Regs[act].pad
    BY DEF InvEntrega, InvPosicion
  <2> QED
    BY <1>1, <1>3, <1>4, <2>1, <2>2, Numeros DEF InvPosicion, IInv
<1>7. InvCuerpo'
  BY <1>1 DEF InvCuerpo
<1>8. InvPeticion'
  BY <1>1, <1>2, <1>3 DEF InvEntrega, InvPeticion, Vistos, EnPeticion, Leyendo
<1>9. InvDatos'
  <2> SUFFICES ASSUME EnPeticion PROVE InvDatos'
    BY <1>1, <1>2 DEF InvDatos, EnPeticion, Leyendo
  <2>1. act \in Indices
    BY EnPeticionAct DEF InvEntrega
  <2>2. \A t \in {"PARAMS", "STDIN"} : \A p \in Enviado(t) : p < rdNext \/ buffStop <= p
    <3>1. buffStop <= rdNext + HeaderLen - headerLen
      BY <1>1, <1>3
    <3> QED BY <1>1, <1>3, <3>1, BytesDeCabecera
  <2> QED
    BY <1>1, <1>3, <2>1, <2>2, AvanzaDatos DEF InvEntrega, IInv
<1> QED
  BY <1>5, <1>6, <1>7, <1>8, <1>9 DEF InvEntrega

\* What ProcessHeader has when it knows the record.
LEMMA LaCabecera ==
  ASSUME IInv, InvEntrega, NEW k \in Indices, CabeceraDe(k)
  PROVE  /\ pc = "llena" /\ contentLen = 0 /\ paddingLen = 0 /\ marco = "no" /\ ~isClosed /\ stop <= rdNext
         /\ UNCHANGED <<con, type, isBeginProcessed, inicio, params, entrada>>
         /\ act' = k /\ headerLen' = 0 /\ contentLen' = Regs[k].cont /\ paddingLen' = Regs[k].pad
         /\ rdNext' = Regs[k].ini + HeaderLen /\ stop' = rdNext'
         /\ rdNext' = rdNext + HeaderLen - headerLen /\ rdNext <= rdNext'
         /\ k # 0 /\ Regs[k].ini = rdNext - headerLen
<1>1. /\ pc = "llena" /\ contentLen = 0 /\ paddingLen = 0 /\ marco = "no"
      /\ UNCHANGED <<con, type, isBeginProcessed, inicio, params, entrada>>
      /\ act' = k /\ headerLen' = 0 /\ contentLen' = Regs[k].cont /\ paddingLen' = Regs[k].pad
      /\ rdNext' = rdNext + HeaderLen - headerLen /\ stop' = rdNext'
      /\ k = RegistroEn(FinCabecera - HeaderLen)
  BY DEF CabeceraDe, Cabecera, EnCabecera, FinCabecera
<1>2. ~isClosed /\ stop <= rdNext
  BY <1>1 DEF InvEntrega, InvReposo
<1>3. k # 0
  BY EnOrden DEF IInv
<1>4. PICK b : b = FinCabecera - HeaderLen
  OBVIOUS
<1>5. Regs[k].ini = b
  BY <1>1, <1>3, <1>4 DEF RegistroEn
<1>6. /\ rdNext \in Nat /\ headerLen \in Nat /\ HeaderLen \in Nat /\ headerLen < HeaderLen
  BY Largos DEF IInv, TypeOK
<1>7. b = rdNext - headerLen
  BY <1>4, <1>6 DEF FinCabecera
<1>8. rdNext' = b + HeaderLen /\ rdNext <= rdNext'
  BY <1>1, <1>6, <1>7
<1> QED
  BY <1>1, <1>2, <1>3, <1>5, <1>7, <1>8

\* A header says where the reader is.
LEMMA CabeceraPosicion ==
  ASSUME IInv, InvEntrega, NEW k \in Indices, CabeceraDe(k)
  PROVE  InvPosicion'
<1>1. /\ act' = k /\ headerLen' = 0 /\ contentLen' = Regs[k].cont /\ paddingLen' = Regs[k].pad
      /\ rdNext' = Regs[k].ini + HeaderLen /\ stop' = rdNext' /\ con' = con
  BY LaCabecera
<1>2. /\ Regs[k].ini \in Nat /\ Regs[k].cont \in Nat /\ Regs[k].pad \in Nat /\ HeaderLen \in Nat
      /\ Regs[k].fin = Regs[k].ini + HeaderLen + Regs[k].cont + Regs[k].pad
  BY EnOrden, Largos DEF IInv
<1>3. Tope' = rdNext'
  BY <1>1 DEF Tope
<1> QED
  BY <1>1, <1>2, <1>3 DEF InvPosicion

\* A header hands nothing over.
LEMMA CabeceraDatos ==
  ASSUME IInv, InvEntrega, NEW k \in Indices, CabeceraDe(k), requestId' = requestId, error' = error
  PROVE  InvDatos'
<1>1. /\ pc = "llena" /\ contentLen = 0 /\ paddingLen = 0
      /\ UNCHANGED <<con, isBeginProcessed, inicio, params, entrada>>
      /\ rdNext' = Regs[k].ini + HeaderLen /\ rdNext' = rdNext + HeaderLen - headerLen /\ rdNext <= rdNext'
  BY LaCabecera
<1>2. rdNext' \in Nat
  BY <1>1, EnOrden, Largos DEF IInv
<1> SUFFICES ASSUME EnPeticion PROVE InvDatos'
  BY <1>1, PeticionIgual DEF InvDatos, EnPeticion, Leyendo
<1>3. act \in Indices
  BY EnPeticionAct DEF InvEntrega
<1>4. PICK m \in Nat : m = rdNext'
  BY <1>2
<1>5. m <= rdNext + HeaderLen - headerLen
  <2>1. rdNext + HeaderLen - headerLen \in Int
    BY Numeros, <1>3 DEF IInv
  <2> QED BY <1>1, <1>4, <2>1
<1>6. \A t \in {"PARAMS", "STDIN"} : \A p \in Enviado(t) : p < rdNext \/ m <= p
  BY <1>1, <1>5, BytesDeCabecera
<1> QED
  BY <1>1, <1>2, <1>3, <1>4, <1>6, AvanzaDatos DEF InvEntrega, IInv

\* No record of the connection is passed over.
LEMMA CabeceraVistos ==
  ASSUME IInv, InvEntrega, EnPeticion, NEW k \in Indices, CabeceraDe(k), requestId' = requestId
  PROVE  /\ inicio \in Indices /\ inicio < k
         /\ ~skip
         /\ \A t : DePeticion(t)' = DePeticion(t)
         /\ \A t : \A j : j \in Vistos(t)' <=> j \in Vistos(t) \/ (j = k /\ k \in DePeticion(t))
         /\ \A j \in Vistos(type) : Regs[j].cont # 0
<1>1. act # 0 /\ act \in Indices
  BY EnPeticionAct DEF InvEntrega
<1>2. /\ pc = "llena" /\ contentLen = 0 /\ paddingLen = 0 /\ marco = "no" /\ ~isClosed /\ stop <= rdNext
      /\ UNCHANGED <<con, type, isBeginProcessed, inicio>>
      /\ act' = k /\ Regs[k].ini = rdNext - headerLen
  BY LaCabecera
<1>3. Regs[k].ini = Regs[act].fin
  <2>1. Tope = rdNext
    BY <1>1, <1>2, Numeros DEF Tope, IInv
  <2>2. Tope - headerLen + contentLen + paddingLen = Regs[act].fin
    BY <1>1 DEF InvEntrega, InvPosicion, EnPeticion
  <2> QED BY <1>1, <1>2, <2>1, <2>2, Numeros DEF IInv
<1>4. act < k /\ \A i \in Indices : i <= k => i <= act \/ i = k
  BY <1>1, <1>3, ElSiguiente DEF IInv
<1>5. inicio \in Indices /\ inicio <= act /\ \A j \in Vistos(type) : Regs[j].cont # 0
  BY <1>2 DEF InvEntrega, InvPeticion
<1>6. ~skip
  BY <1>2 DEF InvEntrega, InvPeticion
<1>7. \A t : DePeticion(t)' = DePeticion(t)
  BY <1>2, PeticionIgual
<1>8. act \in Nat /\ k \in Nat /\ inicio \in Nat /\ \A i \in Indices : i \in Nat
  BY <1>1, <1>5, EnOrden DEF IInv
<1>9. \A t : \A j : j \in Vistos(t)' <=> j \in Vistos(t) \/ (j = k /\ k \in DePeticion(t))
  <2>1. \A t : \A j \in DePeticion(t) : j \in Indices
    BY DEF DePeticion
  <2>2. \A t : \A j : j \in Vistos(t)' <=> j \in DePeticion(t) /\ j <= k
    BY <1>2, <1>7 DEF Vistos
  <2>3. \A t : \A j : j \in Vistos(t) <=> j \in DePeticion(t) /\ j <= act
    BY DEF Vistos
  <2> QED BY <1>4, <1>8, <2>1, <2>2, <2>3
<1>10. inicio < k
  BY <1>4, <1>5, <1>8
<1> QED
  BY <1>5, <1>6, <1>7, <1>9, <1>10

\* A record that is not of either stream of the request.
LEMMA CabeceraAjena ==
  ASSUME IInv, InvEntrega, NEW k \in Indices, CabeceraDe(k), requestId' = requestId,
         UNCHANGED <<pc, isClosed, error>>, marco' \in {"no", "valores"},
         EnPeticion => /\ \A t \in {"PARAMS", "STDIN"} : k \notin DePeticion(t)
                       /\ skip' => Regs[k].cont > 0 /\ (Regs[k].id # requestId \/ Regs[k].tipo = "BEGIN")
                       /\ ~skip' => Regs[k].cont = 0 \/ marco' # "no",
         marco' = "valores" => Regs[k].id = 0
  PROVE  InvEntrega'
<1>1. /\ pc = "llena" /\ marco = "no" /\ ~isClosed
      /\ UNCHANGED <<con, type, isBeginProcessed, inicio, params, entrada>>
      /\ act' = k /\ headerLen' = 0 /\ contentLen' = Regs[k].cont /\ stop' = rdNext' /\ k # 0
  BY LaCabecera
<1>2. rdNext' \in Nat
  BY LaCabecera, EnOrden, Largos DEF IInv
<1>3. InvReposo'
  BY <1>1, <1>2 DEF InvEntrega, InvReposo, Leyendo
<1>4. InvCuerpo'
  BY <1>1 DEF InvCuerpo
<1>5. InvPeticion'
  <2> SUFFICES ASSUME EnPeticion PROVE InvPeticion'
    BY <1>1, PeticionIgual DEF InvPeticion, EnPeticion, Leyendo
  <2>1. /\ inicio \in Indices /\ inicio < k
        /\ \A t : DePeticion(t)' = DePeticion(t)
        /\ \A t : \A j : j \in Vistos(t)' <=> j \in Vistos(t) \/ (j = k /\ k \in DePeticion(t))
        /\ \A j \in Vistos(type) : Regs[j].cont # 0
    BY CabeceraVistos
  <2>2. type \in {"PARAMS", "STDIN"}
    BY EnPeticionAct DEF InvEntrega, IInv, TypeOK
  <2>3. Vistos("PARAMS")' = Vistos("PARAMS") /\ Vistos("STDIN")' = Vistos("STDIN")
    BY <2>1
  <2>4. Vistos(type)' = Vistos(type)
    BY <1>1, <2>2, <2>3
  <2>5. inicio \in Nat /\ k \in Nat
    BY <2>1, EnOrden DEF IInv
  <2>6. requestId # 0
    BY DEF InvEntrega, InvPeticion
  <2>7. \A j \in Vistos(type)' : Regs[j].cont # 0
    BY <2>1, <2>4
  <2>8. type = "PARAMS" => Vistos("STDIN")' = {}
    BY <2>3 DEF InvEntrega, InvPeticion
  <2>9. type = "STDIN" => \E e \in Vistos("PARAMS")' : Regs[e].cont = 0
    BY <2>3 DEF InvEntrega, InvPeticion
  <2>10. rdNext' = stop' /\ ~(rdNext' < stop')
    BY <1>1, <1>2
  <2> QED
    BY <1>1, <2>1, <2>5, <2>6, <2>7, <2>8, <2>9, <2>10 DEF InvPeticion
<1> QED
  BY <1>3, <1>4, <1>5, CabeceraPosicion, CabeceraDatos DEF InvEntrega

\* A record of the stream that is being read.
LEMMA FlujoEntrega ==
  ASSUME IInv, InvEntrega, NEW k \in Indices, Flujo(k)
  PROVE  InvEntrega'
<1>1. /\ CabeceraDe(k) /\ Regs[k].tipo = type /\ Regs[k].tipo # "BEGIN" /\ Regs[k].id = requestId
      /\ requestId' = requestId /\ error' = error /\ marco' = marco /\ skip' = skip
      /\ Regs[k].cont = 0 => isClosed' = TRUE /\ pc' = "vuelve"
      /\ Regs[k].cont # 0 => UNCHANGED <<isClosed, pc>>
  BY DEF Flujo, DeFlujo
<1>2. /\ pc = "llena" /\ marco = "no" /\ ~isClosed
      /\ UNCHANGED <<con, type, isBeginProcessed, inicio, params, entrada>>
      /\ act' = k /\ headerLen' = 0 /\ contentLen' = Regs[k].cont /\ stop' = rdNext' /\ k # 0
  BY <1>1, LaCabecera
<1>3. rdNext' \in Nat /\ Regs[k].cont \in Nat
  BY <1>1, LaCabecera, EnOrden, Largos DEF IInv
<1>4. InvReposo'
  BY <1>1, <1>2, <1>3 DEF InvEntrega, InvReposo, Leyendo
<1>5. InvCuerpo'
  BY <1>1, <1>2 DEF InvCuerpo
<1>6. InvPeticion'
  <2> SUFFICES ASSUME EnPeticion PROVE InvPeticion'
    <3>1. Leyendo' => Leyendo
      BY <1>1, <1>2 DEF Leyendo
    <3> QED BY <1>1, <1>2, <3>1, PeticionIgual DEF InvPeticion, EnPeticion
  <2>1. /\ inicio \in Indices /\ inicio < k /\ ~skip
        /\ \A t : DePeticion(t)' = DePeticion(t)
        /\ \A t : \A j : j \in Vistos(t)' <=> j \in Vistos(t) \/ (j = k /\ k \in DePeticion(t))
        /\ \A j \in Vistos(type) : Regs[j].cont # 0
    BY <1>1, CabeceraVistos
  <2>2. type \in {"PARAMS", "STDIN"}
    BY EnPeticionAct DEF InvEntrega, IInv, TypeOK
  <2>3. inicio \in Nat /\ k \in Nat
    BY <2>1, EnOrden DEF IInv
  <2>4. requestId # 0
    BY DEF InvEntrega, InvPeticion
  <2>41. PICK u : u = type
    OBVIOUS
  <2>42. type' = u
    BY <1>2, <2>41
  <2>43. k \in DePeticion(u) /\ DePeticion(u)' = DePeticion(u)
    BY <1>1, <2>1, <2>3, <2>41 DEF DePeticion
  <2>44. \A j : j \in Vistos(u)' <=> j \in Vistos(u) \/ j = k
    BY <2>1, <2>43
  <2>5. k \in DePeticion(type) /\ k \in DePeticion(type)'
    BY <2>41, <2>42, <2>43
  <2>6. \A t \in {"PARAMS", "STDIN"} : t # type => k \notin DePeticion(t)
    BY <1>1 DEF DePeticion
  <2>7. \A j \in Vistos(type)' : Regs[j].cont = 0 => j = k /\ isClosed'
    <3>1. \A j \in Vistos(u)' : Regs[j].cont = 0 => j = k
      BY <2>1, <2>41, <2>44
    <3> QED BY <1>1, <2>42, <3>1
  <2>8. type = "PARAMS" => Vistos("STDIN")' = {}
    BY <2>1, <2>6 DEF InvEntrega, InvPeticion
  <2>9. type = "STDIN" => \E e \in Vistos("PARAMS")' : Regs[e].cont = 0
    BY <2>1, <2>6 DEF InvEntrega, InvPeticion
  <2>10. isClosed' => Regs[k].cont = 0
    BY <1>1, <1>2
  <2> QED
    BY <1>1, <1>2, <2>1, <2>3, <2>4, <2>5, <2>7, <2>8, <2>9, <2>10 DEF InvPeticion
<1> QED
  BY <1>1, <1>4, <1>5, <1>6, CabeceraPosicion, CabeceraDatos DEF InvEntrega

\* ProcessHeader, whatever the record.
LEMMA HeaderEntrega ==
  ASSUME IInv, InvEntrega, NEW k \in Indices,
         \/ BeginMal(k) \/ BeginOtro(k) \/ BeginNuevo(k) \/ GetValues(k) \/ Desconocido(k)
         \/ Ajeno(k) \/ Inesperado(k) \/ Flujo(k)
  PROVE  InvEntrega'
<1>1. CabeceraDe(k)
  BY DEF BeginMal, BeginOtro, BeginNuevo, BeginBien, GetValues, Desconocido, DeFlujo, Ajeno, Inesperado,
         Flujo
<1>2. /\ pc = "llena" /\ contentLen = 0 /\ paddingLen = 0 /\ marco = "no" /\ ~isClosed /\ stop <= rdNext
      /\ UNCHANGED <<con, type, isBeginProcessed, inicio, params, entrada>>
      /\ act' = k /\ headerLen' = 0 /\ contentLen' = Regs[k].cont /\ paddingLen' = Regs[k].pad
      /\ rdNext' = Regs[k].ini + HeaderLen /\ stop' = rdNext' /\ k # 0
  BY <1>1, LaCabecera
<1>3. /\ Regs[k].ini \in Nat /\ Regs[k].cont \in Nat /\ Regs[k].id \in Nat /\ rdNext' \in Nat
      /\ BeginLen \in Nat \ {0} /\ HeaderLen \in Nat
  BY <1>2, EnOrden, Largos DEF IInv
<1>4. ASSUME Falla, marco' = marco PROVE InvEntrega'
  <2>1. error' = TRUE /\ pc' = "vuelve" /\ act' \in Indices /\ stop' <= rdNext'
    BY <1>2, <1>3, <1>4 DEF Falla
  <2> QED BY <1>2, <1>4, <2>1, FallaEntrega
<1>5. EnPeticion => requestId # 0 /\ Limpio /\ isBeginProcessed /\ ~skip
  <2>1. EnPeticion => requestId # 0 /\ (skip => contentLen > 0)
    BY DEF InvEntrega, InvPeticion
  <2> QED BY <1>2, <2>1 DEF EnPeticion
<1>6. CASE BeginMal(k) \/ Inesperado(k)
  BY <1>4, <1>6 DEF BeginMal, Inesperado
<1>7. CASE BeginOtro(k)
  <2>1. Regs[k].tipo = "BEGIN" /\ Regs[k].cont = BeginLen /\ UNCHANGED <<marco, leidos, requestId>>
    BY <1>7 DEF BeginOtro, BeginBien
  <2>2. CASE Responde(k) /\ skip' = TRUE
    <3>1. \A t \in {"PARAMS", "STDIN"} : k \notin DePeticion(t)
      BY <2>1 DEF DePeticion
    <3> QED BY <1>1, <1>2, <1>3, <2>1, <2>2, <3>1, CabeceraAjena DEF Responde, Sigue
  <2>3. CASE NoResponde
    BY <1>4, <2>1, <2>3 DEF NoResponde
  <2> QED BY <1>7, <2>2, <2>3 DEF BeginOtro
<1>8. CASE BeginNuevo(k)
  <2>1. /\ Regs[k].tipo = "BEGIN" /\ Regs[k].cont = BeginLen /\ Regs[k].id # 0
        /\ ~isBeginProcessed /\ requestId' = Regs[k].id /\ marco' = "cuerpo" /\ leidos' = 0
        /\ UNCHANGED <<pc, isClosed, error, skip>>
    BY <1>8 DEF BeginNuevo, BeginBien, Sigue
  <2>2. InvReposo'
    BY <1>2, <1>3, <2>1 DEF InvEntrega, InvReposo, Leyendo
  <2>3. InvCuerpo'
    BY <1>2, <1>3, <2>1 DEF InvCuerpo
  <2>4. InvPeticion' /\ InvDatos'
    BY <1>2, <2>1 DEF InvPeticion, InvDatos, EnPeticion
  <2> QED BY <1>1, <2>2, <2>3, <2>4, CabeceraPosicion DEF InvEntrega
<1>9. CASE GetValues(k)
  <2>1. /\ Regs[k].id = 0 /\ marco' = "valores" /\ UNCHANGED <<pc, isClosed, error, skip, requestId>>
    BY <1>9 DEF GetValues, Sigue
  <2>2. EnPeticion => \A t \in {"PARAMS", "STDIN"} : k \notin DePeticion(t)
    BY <1>5, <2>1 DEF DePeticion
  <2> QED BY <1>1, <1>5, <2>1, <2>2, CabeceraAjena
<1>10. CASE Desconocido(k)
  <2>1. /\ Regs[k].id = 0 /\ Regs[k].tipo \notin {"BEGIN", "GET_VALUES"}
        /\ UNCHANGED <<marco, skip, leidos, requestId>>
    BY <1>10 DEF Desconocido
  <2>2. CASE Responde(k)
    <3>1. EnPeticion => Regs[k].cont = 0 /\ \A t \in {"PARAMS", "STDIN"} : k \notin DePeticion(t)
      BY <1>5, <2>1 DEF DePeticion, Limpio
    <3> QED BY <1>1, <1>2, <1>5, <2>1, <2>2, <3>1, CabeceraAjena DEF Responde, Sigue
  <2>3. CASE NoResponde
    BY <1>4, <2>1, <2>3 DEF NoResponde
  <2> QED BY <1>10, <2>2, <2>3 DEF Desconocido
<1>11. CASE Ajeno(k)
  <2>1. /\ Regs[k].id # 0 /\ Regs[k].id # requestId /\ skip' = TRUE
        /\ UNCHANGED <<pc, isClosed, error, marco, requestId>>
    BY <1>11 DEF Ajeno, DeFlujo, Sigue
  <2>2. EnPeticion => Regs[k].cont > 0 /\ \A t \in {"PARAMS", "STDIN"} : k \notin DePeticion(t)
    <3>1. EnPeticion => Regs[k].cont # 0
      BY <1>5, <2>1 DEF Limpio
    <3>2. \A t \in {"PARAMS", "STDIN"} : k \notin DePeticion(t)
      BY <2>1 DEF DePeticion
    <3> QED BY <1>3, <3>1, <3>2
  <2> QED BY <1>1, <1>2, <2>1, <2>2, CabeceraAjena
<1>12. CASE Flujo(k)
  BY <1>12, FlujoEntrega
<1> QED
  BY <1>6, <1>7, <1>8, <1>9, <1>10, <1>11, <1>12

\* What has been delivered is taken: of the stream that is being read, exactly
\* the next bytes.
LEMMA ConsumeDatos ==
  ASSUME IInv, InvEntrega, EnPeticion, Consume
  PROVE  InvDatos'
<1>1. /\ UNCHANGED <<con, requestId, inicio, type, marco, act>>
      /\ rdNext < stop /\ rdNext' = stop /\ ~isClosed
      /\ params' = params \cup (IF marco = "no" /\ type = "PARAMS" THEN Trozo ELSE {})
      /\ entrada' = entrada \cup (IF marco = "no" /\ type = "STDIN" THEN Trozo ELSE {})
  BY DEF Consume
<1>2. act # 0 /\ act \in Indices /\ type \in {"PARAMS", "STDIN"}
  BY EnPeticionAct DEF InvEntrega, IInv, TypeOK
<1>3. /\ Tope = stop /\ headerLen = 0 /\ paddingLen = Regs[act].pad /\ contentLen <= Regs[act].cont
      /\ Tope - headerLen + contentLen + paddingLen = Regs[act].fin
      /\ Regs[act].ini + HeaderLen <= rdNext
  <2>1. Tope = stop
    BY <1>1 DEF Tope
  <2> QED BY <1>1, <1>2, <2>1 DEF InvEntrega, InvPosicion, EnPeticion
<1>4. stop <= Regs[act].ini + HeaderLen + Regs[act].cont /\ stop <= Regs[act].fin
  BY <1>2, <1>3, Numeros DEF IInv
<1>5. params = Dado("PARAMS") /\ entrada = Dado("STDIN")
  BY DEF InvEntrega, InvDatos
<1>6. ASSUME NEW t PROVE Dado(t)' = Dado(t) \cup (IF act \in DePeticion(t) THEN {p \in Enviado(t) : p \in Trozo} ELSE {})
  <2>1. Enviado(t)' = Enviado(t)
    BY <1>1, PeticionIgual
  <2>2. ASSUME NEW p \in Enviado(t)
        PROVE  /\ p \in Nat
               /\ p < stop <=> p < rdNext \/ (act \in DePeticion(t) /\ p \in Trozo)
    <3>1. /\ p \in Nat
          /\ Regs[act].ini <= p /\ p < Regs[act].fin => act \in DePeticion(t)
      BY <1>2, EnSuRegistro DEF IInv
    <3>2. p \in Trozo <=> rdNext <= p /\ p < stop
      BY <1>2, <3>1, Numeros DEF Trozo, IInv
    <3>3. rdNext <= p /\ p < stop => act \in DePeticion(t)
      BY <1>2, <1>3, <1>4, <3>1, Numeros DEF IInv
    <3> QED BY <1>1, <1>2, <3>1, <3>2, <3>3, Numeros DEF IInv
  <2>3. Dado(t)' = {p \in Enviado(t) : p < stop}
    BY <1>1, <2>1 DEF Dado
  <2> QED BY <2>2, <2>3 DEF Dado
<1>7. CASE marco = "no"
  <2>1. PICK u : u = type
    OBVIOUS
  <2>2. act \in DePeticion(u)
    BY <1>1, <1>7, <2>1 DEF InvEntrega, InvPeticion
  <2>3. \A t \in {"PARAMS", "STDIN"} : t # u => act \notin DePeticion(t)
    BY <1>2, <2>1, <2>2 DEF DePeticion
  <2>4. \A j \in DePeticion(u) : j < act => Regs[j].cont > 0
    <3>1. \A j \in Vistos(u) : Regs[j].cont # 0
      BY <1>1, <2>1 DEF InvEntrega, InvPeticion
    <3>2. \A j \in DePeticion(u) : j \in Indices /\ j \in Nat /\ Regs[j].cont \in Nat
      BY EnOrden DEF DePeticion, IInv
    <3> QED BY <1>2, <3>1, <3>2, Numeros DEF Vistos, IInv
  <2>5. Trozo \subseteq Enviado(u)
    <3>1. Trozo \subseteq Contenido(act)
      BY <1>2, <1>3, <1>4, Numeros DEF Trozo, Contenido, IInv
    <3> QED BY <2>2, <2>4, <3>1 DEF Enviado
  <2>6. {p \in Enviado(u) : p \in Trozo} = Trozo
    BY <2>5
  <2>7. CASE u = "PARAMS"
    <3>1. Dado("PARAMS")' = params \cup Trozo /\ Dado("STDIN")' = entrada
      BY <1>5, <1>6, <2>2, <2>3, <2>6, <2>7
    <3> QED BY <1>1, <1>7, <2>1, <2>7, <3>1 DEF InvDatos
  <2>8. CASE u = "STDIN"
    <3>1. Dado("STDIN")' = entrada \cup Trozo /\ Dado("PARAMS")' = params
      BY <1>5, <1>6, <2>2, <2>3, <2>6, <2>8
    <3> QED BY <1>1, <1>7, <2>1, <2>8, <3>1 DEF InvDatos
  <2> QED BY <1>2, <2>1, <2>7, <2>8
<1>8. CASE marco # "no"
  <2>1. marco = "valores"
    BY <1>8 DEF InvEntrega, InvCuerpo, EnPeticion, IInv, TypeOK
  <2>2. Regs[act].id = 0 /\ requestId # 0
    BY <2>1 DEF InvEntrega, InvCuerpo, InvPeticion, EnPeticion
  <2>3. \A t : act \notin DePeticion(t)
    BY <2>2 DEF DePeticion
  <2>4. Dado("STDIN")' = entrada /\ Dado("PARAMS")' = params
    BY <1>5, <1>6, <2>3
  <2> QED BY <1>1, <1>8, <2>4 DEF InvDatos
<1> QED
  BY <1>7, <1>8

\* What the callers take is the next bytes of the record at hand.
LEMMA ConsumeEntrega ==
  ASSUME IInv, InvEntrega, Consume
  PROVE  InvEntrega'
<1>1. /\ UNCHANGED <<con, type, marco, act, headerLen, contentLen, paddingLen, skip, stop, isClosed, error,
                     peticion>>
      /\ pc = "vuelve" /\ ~isClosed /\ rdNext < stop /\ rdNext' = stop /\ (marco = "no" => type # "BEGIN")
      /\ leidos' = leidos + (IF marco = "no" THEN 0 ELSE stop - rdNext)
      /\ params' = params \cup (IF marco = "no" /\ type = "PARAMS" THEN Trozo ELSE {})
      /\ entrada' = entrada \cup (IF marco = "no" /\ type = "STDIN" THEN Trozo ELSE {})
      /\ pc' \in {"vuelve", "llena"}
  BY DEF Consume
<1>2. \A t : DePeticion(t)' = DePeticion(t) /\ Enviado(t)' = Enviado(t) /\ (Limpio' <=> Limpio)
  BY <1>1, PeticionIgual
<1>3. rdNext \in Nat /\ stop \in Nat /\ Tope = stop /\ Tope' = stop /\ ~(rdNext' < stop')
  BY <1>1 DEF IInv, TypeOK, Tope
<1>4. InvReposo'
  BY <1>1, <1>3 DEF InvEntrega, InvReposo, Leyendo
<1>5. InvPosicion'
  <2> SUFFICES ASSUME Leyendo, act # 0, isBeginProcessed => Limpio PROVE InvPosicion'
    BY <1>1, <1>2 DEF InvPosicion, Leyendo
  <2>1. act \in Indices
    BY DEF InvEntrega, InvReposo
  <2>2. /\ Tope - headerLen + contentLen + paddingLen = Regs[act].fin
        /\ Regs[act].ini + HeaderLen <= rdNext
        /\ contentLen <= Regs[act].cont /\ paddingLen = Regs[act].pad /\ headerLen = 0
    BY <1>1 DEF InvEntrega, InvPosicion
  <2> QED
    BY <1>1, <1>3, <2>1, <2>2, Numeros DEF InvPosicion, IInv
<1>6. InvCuerpo'
  <2>1. Leyendo' => Leyendo
    BY <1>1 DEF Leyendo
  <2>2. Leyendo /\ marco = "cuerpo" => act # 0 /\ act \in Indices /\ Regs[act].ini + HeaderLen + leidos <= rdNext
    BY DEF InvEntrega, InvCuerpo, InvReposo
  <2>3. Leyendo /\ marco = "cuerpo" => Regs[act].ini + HeaderLen + leidos' <= rdNext'
    BY <1>1, <2>2, Numeros DEF IInv
  <2> QED BY <1>1, <2>1, <2>3 DEF InvEntrega, InvCuerpo
<1>7. InvPeticion'
  BY <1>1, <1>2, <1>3 DEF InvEntrega, InvPeticion, Vistos, EnPeticion, Leyendo
<1>8. InvDatos'
  <2>1. EnPeticion' => EnPeticion
    BY <1>1, <1>2 DEF EnPeticion, Leyendo
  <2> QED BY <2>1, ConsumeDatos DEF InvDatos
<1> QED
  BY <1>4, <1>5, <1>6, <1>7, <1>8 DEF InvEntrega

\* A request begins at the end of its first record.
LEMMA EmpiezaEntrega ==
  ASSUME IInv, InvEntrega, Empieza
  PROVE  InvEntrega'
<1>1. /\ marco = "cuerpo" /\ ~isClosed /\ leidos = BeginLen /\ pc = "vuelve" /\ pc' = "llena"
      /\ isBeginProcessed' = TRUE /\ inicio' = act /\ type' = "PARAMS" /\ marco' = "no"
      /\ contentLen' = 0 /\ paddingLen' = 0 /\ skip' = FALSE /\ stop' = rdNext /\ isClosed' = FALSE
      /\ UNCHANGED <<con, requestId, act, headerLen, leidos, rdNext, error, params, entrada>>
  BY DEF Empieza, Begin, SetReaderType
<1>2. CASE error
  <2>1. ~Leyendo'
    BY <1>1, <1>2 DEF Leyendo
  <2>2. stop' <= rdNext'
    BY <1>1 DEF IInv, TypeOK
  <2> QED BY <1>1, <2>1, <2>2 DEF InvEntrega, InvReposo, InvPosicion, InvCuerpo, InvPeticion, InvDatos, EnPeticion
<1>3. CASE ~error
  <2>1. Leyendo
    BY <1>1, <1>3 DEF Leyendo
  <2>2. /\ ~isBeginProcessed /\ act # 0 /\ act \in Indices
        /\ Regs[act].tipo = "BEGIN" /\ Regs[act].cont = BeginLen /\ Regs[act].id = requestId /\ requestId # 0
        /\ Regs[act].ini + HeaderLen + leidos <= rdNext /\ headerLen = 0
        /\ type = "BEGIN" /\ params = {} /\ entrada = {}
    BY <1>1, <2>1 DEF InvEntrega, InvCuerpo, InvReposo, IInv, TypeOK
  <2>3. Limpio => rdNext = Regs[act].fin
    <3> SUFFICES ASSUME Limpio PROVE rdNext = Regs[act].fin
      OBVIOUS
    <3>1. Regs[act].pad = 0
      BY <2>2 DEF Limpio
    <3>2. Tope - headerLen + contentLen + paddingLen = Regs[act].fin
      BY <2>1, <2>2 DEF InvEntrega, InvPosicion
    <3>3. rdNext <= Tope /\ Tope \in Nat
      BY <2>2, Numeros DEF Tope, IInv
    <3> QED BY <1>1, <2>2, <3>1, <3>2, <3>3, Numeros DEF IInv
  <2>4. Limpio' <=> Limpio
    BY <1>1 DEF Limpio
  <2>5. rdNext \in Nat /\ stop' <= rdNext' /\ ~(rdNext' < stop') /\ Tope' = rdNext
    BY <1>1 DEF IInv, TypeOK, Tope
  <2>6. InvReposo'
    BY <1>1, <2>2, <2>5 DEF InvReposo
  <2>7. InvPosicion'
    BY <1>1, <2>2, <2>3, <2>4, <2>5, Numeros DEF InvPosicion, IInv
  <2>8. InvCuerpo'
    BY <1>1 DEF InvCuerpo
  <2>9. \A t : Vistos(t)' = {}
    <3>1. \A t : \A k \in DePeticion(t)' : k \in Indices /\ k > act
      BY <1>1 DEF DePeticion
    <3>2. \A k \in Indices : k \in Nat
      BY EnOrden DEF IInv
    <3> QED BY <1>1, <2>2, <3>1, <3>2 DEF Vistos
  <2>10. InvPeticion'
    <3>1. act \in Nat
      BY <2>2, EnOrden DEF IInv
    <3> QED BY <1>1, <2>2, <2>5, <2>9, <3>1 DEF InvPeticion
  <2>11. InvDatos'
    <3> SUFFICES ASSUME Limpio PROVE InvDatos'
      BY <2>4 DEF InvDatos, EnPeticion
    <3>1. ASSUME NEW t, NEW p \in Enviado(t)' PROVE p \in Nat /\ ~(p < rdNext)
      <4>1. PICK k \in Indices : /\ k > act
                                 /\ p \in (Regs[k].ini + HeaderLen)..(Regs[k].ini + HeaderLen + Regs[k].cont - 1)
        BY <1>1, <3>1 DEF Enviado, DePeticion, Contenido
      <4>2. Regs[act].fin <= Regs[k].ini /\ Regs[k].ini \in Nat /\ Regs[k].cont \in Nat
        BY <2>2, <4>1, EnOrden DEF IInv
      <4> QED BY <2>2, <2>3, <4>1, <4>2, Numeros DEF IInv
    <3>2. \A t : Dado(t)' = {}
      BY <1>1, <3>1 DEF Dado
    <3> QED BY <1>1, <2>2, <3>2 DEF InvDatos
  <2> QED BY <2>6, <2>7, <2>8, <2>10, <2>11 DEF InvEntrega
<1> QED BY <1>2, <1>3

\* The end of the parameters: the input follows, from the next byte.
LEMMA FinParamsEntrega ==
  ASSUME IInv, InvEntrega, FinParams
  PROVE  InvEntrega'
<1>1. /\ marco = "no" /\ type = "PARAMS" /\ isClosed /\ pc = "vuelve" /\ pc' \in {"llena", "abandona"}
      /\ type' = "STDIN" /\ contentLen' = 0 /\ paddingLen' = 0 /\ skip' = FALSE /\ stop' = rdNext
      /\ isClosed' = FALSE
      /\ UNCHANGED <<con, marco, act, headerLen, rdNext, error, peticion, params, entrada>>
  BY DEF FinParams, SetReaderType
<1>2. rdNext \in Nat /\ stop' <= rdNext' /\ ~(rdNext' < stop') /\ Tope' = rdNext /\ stop <= rdNext
  BY <1>1 DEF IInv, TypeOK, Tope, InvEntrega, InvReposo
<1>3. \A t : DePeticion(t)' = DePeticion(t) /\ Enviado(t)' = Enviado(t) /\ (Limpio' <=> Limpio)
  BY <1>1, PeticionIgual
<1>4. Leyendo' <=> Leyendo
  BY <1>1 DEF Leyendo
<1>5. InvReposo'
  BY <1>1, <1>2, <1>4 DEF InvEntrega, InvReposo
<1>6. InvCuerpo'
  BY <1>1 DEF InvCuerpo
<1>7. InvPosicion' /\ InvPeticion' /\ InvDatos'
  <2>1. CASE ~EnPeticion
    <3>1. Leyendo => isBeginProcessed
      BY <1>1 DEF InvEntrega, InvReposo
    <3>2. ~EnPeticion' /\ ~(Leyendo' /\ (isBeginProcessed' => Limpio'))
      BY <1>1, <1>3, <1>4, <2>1, <3>1 DEF EnPeticion
    <3> QED BY <3>2 DEF InvPosicion, InvPeticion, InvDatos
  <2>2. CASE EnPeticion
    <3>1. act # 0 /\ act \in Indices /\ Limpio
      BY <2>2, EnPeticionAct DEF InvEntrega, EnPeticion
    <3>2. act \in DePeticion("PARAMS") /\ Regs[act].cont = 0
      BY <1>1, <2>2 DEF InvEntrega, InvPeticion
    <3>3. Regs[act].pad = 0
      BY <3>1, <3>2 DEF Limpio
    <3>4. /\ Tope - headerLen + contentLen + paddingLen = Regs[act].fin
          /\ contentLen <= Regs[act].cont /\ paddingLen <= Regs[act].pad
          /\ Regs[act].ini + HeaderLen <= rdNext
      BY <2>2, <3>1 DEF InvEntrega, InvPosicion, EnPeticion
    <3>5. Tope = rdNext
      BY <1>2, <3>1, Numeros DEF Tope, IInv
    <3>6. rdNext - headerLen = Regs[act].fin
      BY <3>1, <3>2, <3>3, <3>4, <3>5, Numeros DEF IInv
    <3>7. InvPosicion'
      BY <1>1, <1>2, <3>1, <3>2, <3>3, <3>4, <3>6, Numeros DEF InvPosicion, IInv
    <3>8. \A t : Vistos(t)' = Vistos(t)
      BY <1>1, <1>3 DEF Vistos
    <3>9. Vistos("STDIN") = {} /\ act \in Vistos("PARAMS")
      BY <1>1, <2>2, <3>1, <3>2, Numeros DEF InvEntrega, InvPeticion, Vistos, IInv
    <3>10. InvPeticion'
      <4>1. inicio \in Indices /\ inicio <= act /\ requestId # 0
        BY <2>2 DEF InvEntrega, InvPeticion
      <4>2. Vistos(type)' = {}
        BY <1>1, <3>8, <3>9
      <4>3. \E e \in Vistos("PARAMS")' : Regs[e].cont = 0
        BY <3>2, <3>8, <3>9
      <4> QED BY <1>1, <1>2, <4>1, <4>2, <4>3 DEF InvPeticion
    <3>11. InvDatos'
      BY <1>1, <1>3, <2>2 DEF InvEntrega, InvDatos, Dado
    <3> QED BY <3>7, <3>10, <3>11
  <2> QED BY <2>1, <2>2
<1> QED
  BY <1>5, <1>6, <1>7 DEF InvEntrega

\* The rest of the callers of FillBuffProc.
LEMMA LlamadoresEntrega ==
  ASSUME IInv, InvEntrega, Llamadores
  PROVE  InvEntrega'
<1>1. ASSUME TryAgain PROVE InvEntrega'
  BY <1>1, NuevoEntrega DEF TryAgain
<1>2. CASE Consume
  BY <1>2, ConsumeEntrega
<1>3. CASE Empieza
  BY <1>3, EmpiezaEntrega
<1>4. CASE RolDesconocido \/ CuerpoCorto \/ SinPeticion \/ ParamsCortados
  BY <1>1, <1>4 DEF RolDesconocido, CuerpoCorto, SinPeticion, ParamsCortados
<1>5. CASE Valores
  <2>1. /\ marco = "valores" /\ isClosed /\ marco' = "no" /\ pc = "vuelve"
        /\ UNCHANGED <<con, type, act, headerLen, contentLen, paddingLen, skip, leidos, rdNext, stop, peticion,
                       entregado>>
        /\ stop <= rdNext
    BY <1>5 DEF Valores, InvEntrega, InvReposo
  <2>2. CASE error' = TRUE /\ UNCHANGED <<isClosed, pc>>
    BY <2>1, <2>2, FallaEntrega
  <2>3. CASE contentLen = 0 /\ ~error /\ isClosed' = FALSE /\ pc' = "llena" /\ error' = error
    <3>1. \A t : DePeticion(t)' = DePeticion(t) /\ Enviado(t)' = Enviado(t) /\ (Limpio' <=> Limpio)
      BY <2>1, PeticionIgual
    <3>2. Leyendo /\ Leyendo' /\ act # 0 /\ Regs[act].id = 0 /\ ~(rdNext < stop)
      BY <2>1, <2>3 DEF Leyendo, InvEntrega, InvCuerpo, IInv, TypeOK
    <3>3. InvReposo'
      BY <2>1, <2>3, <3>2 DEF InvEntrega, InvReposo
    <3>4. InvPosicion'
      BY <2>1, <3>1, <3>2 DEF InvEntrega, InvPosicion, Tope
    <3>5. InvCuerpo'
      BY <2>1 DEF InvCuerpo
    <3>6. InvPeticion'
      <4> SUFFICES ASSUME EnPeticion PROVE InvPeticion'
        BY <2>1, <3>1, <3>2 DEF InvPeticion, EnPeticion
      <4>1. \A t : act \notin DePeticion(t)
        BY <3>2 DEF DePeticion, InvEntrega, InvPeticion
      <4>2. \A t : Vistos(t)' = Vistos(t)
        BY <2>1, <3>1 DEF Vistos
      <4>3. \A k \in Vistos(type) : Regs[k].cont # 0
        BY <4>1 DEF InvEntrega, InvPeticion, Vistos
      <4>4. ~skip
        BY <2>3 DEF InvEntrega, InvPeticion
      <4>5. Vistos(type)' = Vistos(type)
        BY <2>1, <4>2
      <4>6. /\ inicio \in Indices /\ inicio <= act /\ requestId # 0
            /\ type = "PARAMS" => Vistos("STDIN") = {}
            /\ type = "STDIN" => \E e \in Vistos("PARAMS") : Regs[e].cont = 0
        BY DEF InvEntrega, InvPeticion
      <4> QED BY <2>1, <2>3, <3>2, <4>2, <4>3, <4>4, <4>5, <4>6 DEF InvPeticion
    <3>7. InvDatos'
      BY <2>1, <3>1, <3>2 DEF InvEntrega, InvDatos, Dado, EnPeticion
    <3> QED BY <3>3, <3>4, <3>5, <3>6, <3>7 DEF InvEntrega
  <2> QED BY <1>5, <2>2, <2>3 DEF Valores
<1>6. CASE FinParams
  BY <1>6, FinParamsEntrega
<1>7. CASE FinEntrada
  <2>1. /\ pc = "vuelve" /\ marco = "no" /\ type = "STDIN" /\ pc' \in {"sirve", "abandona"}
        /\ pc' = "sirve" => isClosed
        /\ UNCHANGED <<con, type, registro, rdNext, stop, isClosed, error, peticion, entregado>>
    BY <1>7 DEF FinEntrada
  <2>2. Leyendo' <=> Leyendo
    BY <2>1 DEF Leyendo
  <2>3. \A t : DePeticion(t)' = DePeticion(t) /\ Enviado(t)' = Enviado(t) /\ (Limpio' <=> Limpio)
    BY <2>1, PeticionIgual
  <2>4. InvReposo'
    BY <2>1, <2>2 DEF InvEntrega, InvReposo
  <2>5. InvPosicion'
    BY <2>1, <2>2, <2>3 DEF InvEntrega, InvPosicion, Tope
  <2>6. InvCuerpo'
    BY <2>1 DEF InvCuerpo
  <2>7. InvPeticion' /\ InvDatos'
    BY <2>1, <2>2, <2>3 DEF InvEntrega, InvPeticion, InvDatos, Dado, Vistos, EnPeticion
  <2> QED BY <2>4, <2>5, <2>6, <2>7 DEF InvEntrega
<1> QED
  BY <1>2, <1>3, <1>4, <1>5, <1>6, <1>7 DEF Llamadores

\* The whole program.
LEMMA EntregaPaso == IInv /\ InvEntrega /\ [Next]_vars => InvEntrega'
<1> SUFFICES ASSUME IInv, InvEntrega, [Next]_vars PROVE InvEntrega'
  OBVIOUS
<1>1. CASE OS_Accept \/ AcceptFalla
  <2>1. CASE Keeper
    BY <2>1, NuevoEntrega DEF Keeper
  <2>2. CASE MiraAviso \/ EntraAccept \/ Accept \/ AcceptFalla \/ Descarta
    BY <2>2, FueraEntrega DEF MiraAviso, EntraAccept, Accept, AcceptFalla, Descarta
  <2> QED BY <1>1, <2>1, <2>2 DEF OS_Accept
<1>2. CASE FillBuffProc
  <2>1. CASE LeeFin \/ CabeceraMala
    <3>1. error' = TRUE /\ pc' = "vuelve" /\ con' = con /\ act' = act /\ marco' = marco
      BY <2>1 DEF LeeFin, CabeceraMala, Cabecera, Falla
    <3>2. stop' <= rdNext'
      <4>1. CASE LeeFin
        BY <4>1 DEF LeeFin, InvEntrega, InvReposo
      <4>2. CASE CabeceraMala
        BY <4>2, Largos DEF CabeceraMala, Cabecera, FinCabecera, EnCabecera, IInv, TypeOK
      <4> QED BY <2>1, <4>1, <4>2
    <3> QED BY <3>1, <3>2, FallaEntrega
  <2>2. CASE ProcessHeader
    BY <2>2, HeaderEntrega DEF ProcessHeader
  <2> QED
    BY <1>2, <2>1, <2>2, LeeEntrega, EntregaEntrega, SaltaEntrega, CabeceraParteEntrega DEF FillBuffProc
<1>3. CASE Llamadores
  BY <1>3, LlamadoresEntrega
<1>4. CASE Finish
  <2>1. CASE Cierra
    BY <2>1, NuevoEntrega DEF Cierra, TryAgain
  <2>2. CASE Mantiene
    <3>1. buffStop \in Nat
      BY DEF IInv, TypeOK
    <3> QED BY <2>2, <3>1, NuevoEntrega DEF Mantiene
  <2> QED BY <1>4, <2>1, <2>2 DEF Finish
<1>5. CASE Usr1
  <2>1. UNCHANGED <<con, type, registro, rdNext, stop, peticion, entregado>>
    BY <1>5 DEF Usr1
  <2>2. CASE Llena /\ Falla
    BY <2>1, <2>2, FallaEntrega DEF Falla, InvEntrega, InvReposo
  <2>3. CASE UNCHANGED <<isClosed, error>> /\ pc' \notin {"llena", "vuelve", "sirve", "abandona"}
    BY <2>1, <2>3, FueraEntrega
  <2>4. CASE UNCHANGED <<pc, isClosed, error>>
    BY <2>1, <2>4, PeticionIgual DEF InvEntrega, InvReposo, InvPosicion, InvCuerpo, InvPeticion, InvDatos,
       Dado, Vistos, Tope, EnPeticion, Leyendo
  <2> QED BY <1>5, <2>2, <2>3, <2>4 DEF Usr1
<1>6. CASE UNCHANGED vars
  BY <1>6, PeticionIgual DEF InvEntrega, InvReposo, InvPosicion, InvCuerpo, InvPeticion, InvDatos,
     Dado, Vistos, Tope, EnPeticion, Leyendo
<1> QED
  BY <1>1, <1>2, <1>3, <1>4, <1>5, <1>6 DEF Next, Biblioteca

\* Nothing has been handed over at the beginning.
LEMMA EntregaInicial == Init => InvEntrega
BY DEF Init, InvEntrega, InvReposo, InvPosicion, InvCuerpo, InvPeticion, InvDatos, Leyendo, EnPeticion

\* Every reachable state has it.
THEOREM EntregaInvariante == Spec => [](IInv /\ InvEntrega)
BY EntregaInicial, EntregaPaso, EntradaIInv, PTL DEF Spec

\* For every connection, every cut of it into reads and every size of the
\* buffer: what ReadParams and getIn have been handed is what the server sent of
\* their streams, up to the place of the reader (FillBuffProc, ProcessHeader).
THEOREM Exacta == Spec => []EntregaExacta
<1>1. InvEntrega => EntregaExacta
  BY DEF InvEntrega, InvDatos, EntregaExacta, EnPeticion, Leyendo, Dado
<1> QED
  BY <1>1, EntregaInvariante, PTL

\* A request that start.c serves is complete, or the error of the stream is
\* set (start.c looks at neither).
THEOREM Completa == Spec => []CompletaOError
<1>1. IInv /\ InvEntrega => CompletaOError
  <2> SUFFICES ASSUME IInv, InvEntrega, pc = "sirve", ~error, Limpio
               PROVE  params = Enviado("PARAMS") /\ entrada = Enviado("STDIN")
    BY DEF CompletaOError
  <2>1. type = "STDIN" /\ isClosed /\ marco = "no" /\ Leyendo /\ isBeginProcessed /\ EnPeticion
    BY DEF InvEntrega, InvReposo, Leyendo, EnPeticion
  <2>2. act # 0 /\ act \in Indices
    BY <2>1, EnPeticionAct DEF InvEntrega
  <2>3. /\ \E e \in Vistos("PARAMS") : Regs[e].cont = 0
        /\ act \in DePeticion("STDIN") /\ Regs[act].cont = 0
    BY <2>1 DEF InvEntrega, InvPeticion
  <2>4. act \in Vistos("STDIN")
    BY <2>2, <2>3, Numeros DEF Vistos, IInv
  <2>5. Regs[act].ini + HeaderLen <= rdNext
    BY <2>1, <2>2 DEF InvEntrega, InvPosicion
  <2>6. ASSUME NEW t, \E e \in Vistos(t) : Regs[e].cont = 0 PROVE Dado(t) = Enviado(t)
    <3>1. PICK e \in DePeticion(t) : e <= act /\ Regs[e].cont = 0
      BY <2>6 DEF Vistos
    <3>2. ASSUME NEW p \in Enviado(t) PROVE p < rdNext
      <4>1. PICK k \in DePeticion(t) :
              /\ p \in (Regs[k].ini + HeaderLen)..(Regs[k].ini + HeaderLen + Regs[k].cont - 1)
              /\ \A j \in DePeticion(t) : j < k => Regs[j].cont > 0
        BY DEF Enviado, Contenido
      <4>2. k \in Indices /\ e \in Indices
        BY <3>1, <4>1 DEF DePeticion
      <4>3. /\ k \in Nat /\ e \in Nat /\ Regs[e].cont \in Nat /\ Regs[k].cont \in Nat /\ Regs[k].ini \in Nat
            /\ Regs[k].pad \in Nat /\ Regs[k].fin = Regs[k].ini + HeaderLen + Regs[k].cont + Regs[k].pad
        BY <4>2, EnOrden DEF IInv
      <4>4. k <= act
        BY <2>2, <3>1, <4>1, <4>3, Numeros DEF IInv
      <4>5. CASE k = act
        BY <2>2, <2>3, <2>5, <4>1, <4>3, <4>5, Numeros DEF IInv
      <4>6. CASE k < act
        <5>1. Regs[k].fin <= Regs[act].ini
          BY <2>2, <4>2, <4>6, EnOrden DEF IInv
        <5> QED BY <2>2, <2>5, <4>1, <4>3, <5>1, Numeros DEF IInv
      <4> QED BY <2>2, <4>3, <4>4, <4>5, <4>6, Numeros DEF IInv
    <3> QED BY <3>2 DEF Dado
  <2>7. Dado("PARAMS") = Enviado("PARAMS") /\ Dado("STDIN") = Enviado("STDIN")
    BY <2>3, <2>4, <2>6
  <2> QED BY <2>1, <2>7 DEF InvEntrega, InvDatos
<1> QED
  BY <1>1, EntregaInvariante, PTL

-----------------------------------------------------------------------------
(* What the launcher waits for.  The server waits at records of its own       *)
(* choice; for one that waits where an answer is due, each of them is a header *)
(* that the reader comes to, and that it answers or ends its reading at.       *)

\* The web server: which records begin a request, whether one of them asks for
\* the connection to be kept, and the ends of an input at which it waits.
Empiezan == {j \in Indices : Regs[j].tipo = "BEGIN" /\ Regs[j].id # 0 /\ Regs[j].cont = BeginLen}
Guarda == \E j \in Empiezan : Regs[j].keep
Finales == {k \in Indices : Regs[k].espera /\ Regs[k].tipo = "STDIN" /\ Regs[k].id # 0}

\* Record b begins the request whose input ends at k: on a connection that is
\* not kept the first request, on a kept one the only one since the last end.
Comienza(b, k) ==
  /\ b \in Empiezan /\ b < k /\ Regs[b].id = Regs[k].id
  /\ \A s \in Finales : s < b \/ k <= s
  /\ \A j \in Empiezan : j < k /\ j # b =>
       (b < j /\ ~Guarda) \/ \E s \in Finales : j < s /\ s < b

FinDeParams(e, b, k) ==
  /\ e \in Indices /\ b < e /\ e < k
  /\ Regs[e].tipo = "PARAMS" /\ Regs[e].cont = 0 /\ Regs[e].id = Regs[k].id

Seguidos == \A k \in Indices : k + 1 \in Indices => Regs[k + 1].ini = Regs[k].fin

\* It waits only where an answer is due: at a management record, at a second
\* BEGIN of a connection that is not kept, and at the end of the input of a
\* request whose parameters have ended.
Esperable ==
  /\ Seguidos
  /\ \A k \in Indices : Regs[k].espera =>
       \/ Regs[k].id = 0 /\ Regs[k].tipo # "BEGIN"
       \/ k \in Empiezan /\ ~Guarda /\ \E j \in Empiezan : j < k
       \/ /\ k \in Finales /\ Regs[k].cont = 0
          /\ \E b \in Indices : Comienza(b, k) /\ \E e \in Indices : FinDeParams(e, b, k)

\* The next end of an input at which it will wait.
Proximo(k) == k \in Finales \ resp /\ \A s \in Finales : s < k => s \in resp

\* Somebody reads the connection, and may go on.
Leido == pc \in {"llena", "vuelve", "sirve", "abandona"}
EnLector == pc \in {"llena", "vuelve"}

\* The first byte of the next header.
Sig == Tope - headerLen + contentLen + paddingLen

\* Nothing after a record that awaits its answer has been read.
InvEscrito ==
  Leido =>
    /\ \A k \in Esperados : buffStop <= Regs[k].fin
    /\ act # 0 => \A k \in Esperados : act <= k

\* FillBuffProc goes on after an error only to read the input.
InvTipo ==
  /\ Leido => (isBeginProcessed <=> type # "BEGIN")
  /\ pc = "llena" /\ error => type = "STDIN"
  /\ pc = "vuelve" /\ error /\ type # "STDIN" => isClosed
  /\ pc \in {"sirve", "abandona"} => type = "STDIN"

\* The record that began the request, or is about to.
InvBegin ==
  /\ Leido /\ type # "BEGIN" =>
       inicio \in Empiezan /\ Regs[inicio].ini + HeaderLen <= rdNext /\ (keepConnection => Guarda)
  /\ EnLector /\ marco = "cuerpo" =>
       type = "BEGIN" /\ act \in Empiezan /\ Regs[act].ini + HeaderLen <= rdNext

\* Ends of input are answered on kept connections only, and the reader is past
\* the beginnings before them.
InvServidos ==
  Leido =>
    \A s \in Finales \cap resp : Guarda /\ \A j \in Empiezan : j < s => Regs[j].ini + HeaderLen <= rdNext

\* The request at hand is the one whose input ends next.
InvTurno ==
  \A k, b \in Indices : Proximo(k) /\ Comienza(b, k) =>
    /\ Leido /\ type # "BEGIN" => inicio = b /\ requestId = Regs[k].id
    /\ EnLector /\ marco = "cuerpo" => act = b /\ requestId = Regs[k].id

\* Before a request begins, its beginning is still to come; a kept connection
\* may be in the rest of the last one.
InvAntes ==
  EnLector /\ type = "BEGIN" /\ marco # "cuerpo" /\ ~error =>
    /\ ~Guarda => \A j \in Empiezan : Sig <= Regs[j].ini
    /\ Guarda => \A k, b \in Indices : Proximo(k) /\ Comienza(b, k) =>
                   requestId = Regs[k].id \/ Sig <= Regs[b].ini

\* Inside the parameters their end is still to come.
InvParams ==
  EnLector /\ type = "PARAMS" /\ ~error /\ ~(isClosed /\ marco = "no") =>
    \A k, b \in Indices : Proximo(k) /\ Comienza(b, k) =>
      \E e \in Indices : FinDeParams(e, b, k) /\ Sig <= Regs[e].ini

\* The reader does not run into a record without having seen its header, unless
\* it is about to stop.
InvPaso ==
  EnLector /\ act # 0 /\ (isBeginProcessed => Limpio) /\ (error /\ isClosed => type = "PARAMS") =>
    \A k \in Indices : act < k => Sig <= Regs[k].ini

\* A record whose header has been seen awaits its answer no more, unless it is
\* a FCGI_GET_VALUES or the end.
InvQueda ==
  EnLector /\ act \in Esperados =>
    \/ Regs[act].tipo = "GET_VALUES" \/ Escrito = Corte
    \/ type = "BEGIN" /\ error
    \/ type = "STDIN" /\ isClosed /\ marco = "no"

InvGuion == InvServidos /\ InvTurno /\ InvAntes /\ InvParams /\ InvPaso /\ InvQueda
InvEspera == InvEscrito /\ InvTipo /\ InvBegin /\ (Esperable => InvGuion)

\* What the server does with a connection does not change while it is read.
LEMMA GuionIgual ==
  ASSUME con' = con
  PROVE  /\ Empiezan' = Empiezan /\ Finales' = Finales
         /\ Guarda' <=> Guarda
         /\ \A b, k : Comienza(b, k)' <=> Comienza(b, k)
         /\ \A e, b, k : FinDeParams(e, b, k)' <=> FinDeParams(e, b, k)
         /\ Esperable' <=> Esperable
<1>1. Empiezan' = Empiezan /\ Finales' = Finales
  BY DEF Empiezan, Finales
<1>2. Guarda' <=> Guarda
  BY <1>1 DEF Guarda
<1>3. \A b, k : Comienza(b, k)' <=> Comienza(b, k)
  BY <1>1, <1>2 DEF Comienza
<1>4. \A e, b, k : FinDeParams(e, b, k)' <=> FinDeParams(e, b, k)
  BY DEF FinDeParams
<1>5. Seguidos' <=> Seguidos
  BY DEF Seguidos
<1>6. Esperable' <=> Esperable
  BY <1>1, <1>2, <1>3, <1>4, <1>5 DEF Esperable
<1> QED
  BY <1>1, <1>2, <1>3, <1>4, <1>6

\* The first record whose answer the server awaits.
LEMMA PrimerEsperado ==
  ASSUME TypeOK, Esperados # {}
  PROVE  \E m \in Esperados : \A y \in Esperados : m <= y
<1>1. Esperados \subseteq Nat
  BY EnOrden DEF Esperados
<1>2. PICK m \in Esperados : \A y \in Esperados : ~(<<y, m>> \in OpToRel(<, Nat))
  BY <1>1, NatLessThanWellFounded, WFMin
<1>3. ASSUME NEW y \in Esperados PROVE m <= y
  <2>1. y \in Nat /\ m \in Nat
    BY <1>1
  <2>2. ~(y < m)
    BY <1>2, <2>1 DEF OpToRel
  <2> QED BY <2>1, <2>2
<1> QED
  BY <1>3

\* A connection closes at a byte.
LEMMA CorteNat ==
  ASSUME TypeOK
  PROVE  Corte \in Nat
<1> DEFINE C == [regs: Seq(Registro), corte: Nat]
<1>1. Guiones \in Seq(C) /\ con \in DOMAIN Guiones
  BY FcgiEntradaAssumption DEF TypeOK
<1>2. Guiones[con] \in C
  <2> HIDE DEF C
  <2> QED BY <1>1
<1> QED
  BY <1>2

\* The server writes up to the first record whose answer it awaits.
LEMMA CotaEscrito ==
  ASSUME TypeOK
  PROVE  Escrito \in Nat /\ \A j \in Esperados : Escrito <= Regs[j].fin
<1>1. Esperados \subseteq Nat /\ \A k \in Esperados : k \in Indices
  BY EnOrden DEF Esperados
<1>2. CASE \A k \in Esperados : Corte <= Regs[k].fin
  BY <1>2, CorteNat DEF Escrito
<1>3. CASE ~\A k \in Esperados : Corte <= Regs[k].fin
  <2>1. PICK k \in Esperados : (\A y \in Esperados : k <= y) /\ Escrito = Regs[k].fin
    BY <1>3, PrimerEsperado DEF Escrito
  <2> SUFFICES ASSUME NEW j \in Esperados PROVE Escrito \in Nat /\ Escrito <= Regs[j].fin
    BY <1>1, <2>1, EnOrden
  <2>2. k = j \/ k < j
    BY <1>1, <2>1
  <2>3. /\ Regs[k].fin \in Nat /\ Regs[j].fin \in Nat /\ Regs[j].ini \in Nat /\ Regs[j].ini <= Regs[j].fin
        /\ k < j => Regs[k].fin <= Regs[j].ini
    BY <1>1, Largos, EnOrden
  <2> QED BY <2>1, <2>2, <2>3
<1> QED
  BY <1>2, <1>3

\* Of two records the one that begins first ends before the other begins.
LEMMA UnoTrasOtro ==
  ASSUME TypeOK, NEW j \in Indices, NEW k \in Indices
  PROVE  /\ j # k /\ Regs[j].ini <= Regs[k].ini => Regs[j].fin <= Regs[k].ini
         /\ Regs[j].ini < Regs[k].fin => j <= k
         /\ j < k => ~(Regs[k].ini <= Regs[j].ini)
<1>1. /\ j \in Nat /\ k \in Nat
      /\ Regs[j].ini \in Nat /\ Regs[j].fin \in Nat /\ Regs[j].ini < Regs[j].fin
      /\ Regs[k].ini \in Nat /\ Regs[k].fin \in Nat /\ Regs[k].ini < Regs[k].fin
  BY EnOrden, Largos
<1>2. (j < k => Regs[j].fin <= Regs[k].ini) /\ (k < j => Regs[k].fin <= Regs[j].ini)
  BY EnOrden
<1> QED
  BY <1>1, <1>2

\* The places of the reader are numbers.
LEMMA NumerosLector ==
  ASSUME TypeOK
  PROVE  /\ rdNext \in Nat /\ stop \in Nat /\ buffStop \in Nat /\ contentLen \in Nat
         /\ paddingLen \in Nat /\ headerLen \in Nat /\ headerLen < HeaderLen /\ HeaderLen \in Nat \ {0}
         /\ rdNext <= buffStop /\ stop <= buffStop /\ Tope \in Nat /\ Sig \in Int /\ rdNext <= Tope
         /\ stop <= rdNext => Tope = rdNext
BY Largos DEF TypeOK, Tope, Sig

\* Nobody reads.
LEMMA FueraEspera ==
  ASSUME pc' \notin {"llena", "vuelve", "sirve", "abandona"}
  PROVE  InvEspera'
BY DEF InvEspera, InvEscrito, InvTipo, InvBegin, InvGuion, InvServidos, InvTurno, InvAntes, InvParams,
       InvPaso, InvQueda, Leido, EnLector

\* A connection of which nothing has been read.
Arranca ==
  /\ TypeOK /\ pc = "llena" /\ resp = {} /\ ~isBeginProcessed
  /\ rdNext = 0 /\ stop = 0 /\ buffStop = 0 /\ type = "BEGIN" /\ marco = "no" /\ act = 0
  /\ headerLen = 0 /\ contentLen = 0 /\ paddingLen = 0 /\ ~isClosed /\ ~error

\* From its first byte everything is still to come.
LEMMA ArrancaEspera == Arranca => InvEspera
<1> SUFFICES ASSUME Arranca PROVE InvEspera
  OBVIOUS
<1>1. TypeOK /\ Sig = 0
  BY DEF Arranca, Sig, Tope
<1>2. \A k \in Indices : k \in Nat \ {0} /\ Regs[k].ini \in Nat /\ Regs[k].fin \in Nat
  BY <1>1, EnOrden
<1>3. InvEscrito
  BY <1>2 DEF Arranca, InvEscrito, Esperados
<1>4. InvTipo /\ InvBegin
  BY DEF Arranca, InvTipo, InvBegin
<1>5. InvServidos /\ InvTurno /\ InvParams /\ InvPaso
  BY DEF Arranca, InvServidos, InvTurno, InvParams, InvPaso
<1>6. InvAntes
  BY <1>1, <1>2 DEF InvAntes, Empiezan
<1>7. InvQueda
  BY <1>2 DEF Arranca, InvQueda, Esperados
<1> QED
  BY <1>3, <1>4, <1>5, <1>6, <1>7 DEF InvEspera, InvGuion

\* The records of a connection are a sequence.
LEMMA RegsSeq ==
  ASSUME TypeOK
  PROVE  Regs \in Seq(Registro)
<1> DEFINE C == [regs: Seq(Registro), corte: Nat]
<1>1. Guiones \in Seq(C) /\ con \in DOMAIN Guiones
  BY FcgiEntradaAssumption DEF TypeOK
<1>2. Guiones[con] \in C
  <2> HIDE DEF C
  <2> QED BY <1>1
<1> QED
  BY <1>2

\* The same of the connection that is accepted.
LEMMA LlegaEspera == Arranca' => InvEspera'
BY ArrancaEspera, PTL

\* The same ends of input are still to come.
LEMMA ProximoIgual ==
  ASSUME con' = con, \A s \in Finales : s \in resp' <=> s \in resp
  PROVE  /\ \A k : Proximo(k)' <=> Proximo(k)
         /\ Finales' \cap resp' = Finales \cap resp
<1>1. Finales' = Finales
  BY GuionIgual
<1> QED
  BY <1>1 DEF Proximo

\* The reader goes on inside the same record, or stops with an error.
LEMMA AvanzaEspera ==
  ASSUME IInv, InvEntrega, InvEspera, EnLector, EnLector', ~isClosed,
         UNCHANGED <<con, resp, type, marco, act, peticion>>,
         rdNext' \in Nat, rdNext <= rdNext', Sig' = Sig,
         \A k \in Esperados : buffStop' <= Regs[k].fin,
         UNCHANGED error \/ (error' /\ isClosed' /\ pc' = "vuelve")
  PROVE  InvEspera'
<1>1. Leido /\ Leido'
  BY DEF Leido, EnLector
<1>2. /\ Empiezan' = Empiezan /\ Finales' = Finales /\ (Guarda' <=> Guarda) /\ (Esperable' <=> Esperable)
      /\ \A b, k : Comienza(b, k)' <=> Comienza(b, k)
      /\ \A e, b, k : FinDeParams(e, b, k)' <=> FinDeParams(e, b, k)
      /\ \A k : Proximo(k)' <=> Proximo(k)
  BY GuionIgual, ProximoIgual
<1>3. Esperados' = Esperados /\ Escrito' = Escrito
  BY DEF Esperados, Escrito
<1>4. error => type = "STDIN"
  BY DEF InvEspera, InvTipo, EnLector
<1>5. InvEscrito'
  BY <1>1, <1>3 DEF InvEspera, InvEscrito
<1>6. InvTipo'
  BY <1>1, <1>4 DEF InvEspera, InvTipo, EnLector
<1>7. \A j \in Empiezan : Regs[j].ini + HeaderLen <= rdNext => Regs[j].ini + HeaderLen <= rdNext'
  <2>1. \A j \in Empiezan : Regs[j].ini \in Nat
    BY EnOrden DEF Empiezan, IInv
  <2> QED BY <2>1, NumerosLector DEF IInv
<1>8. InvBegin'
  BY <1>1, <1>2, <1>7 DEF InvEspera, InvBegin
<1> SUFFICES ASSUME Esperable PROVE InvGuion'
  BY <1>2, <1>5, <1>6, <1>8 DEF InvEspera
<1>9. InvServidos'
  BY <1>1, <1>2, <1>7 DEF InvEspera, InvGuion, InvServidos
<1>10. InvTurno'
  BY <1>1, <1>2 DEF InvEspera, InvGuion, InvTurno
<1>11. InvAntes'
  BY <1>2 DEF InvEspera, InvGuion, InvAntes
<1>12. InvParams'
  <2> SUFFICES ASSUME type = "PARAMS", ~error, NEW k \in Indices, NEW b \in Indices, Proximo(k), Comienza(b, k)
               PROVE  \E e \in Indices : FinDeParams(e, b, k)' /\ Sig' <= Regs[e].ini
    BY <1>2 DEF InvParams
  <2>1. PICK e \in Indices : FinDeParams(e, b, k) /\ Sig <= Regs[e].ini
    BY DEF InvEspera, InvGuion, InvParams
  <2> QED BY <1>2, <2>1
<1>13. InvPaso'
  <2>1. Limpio' <=> Limpio
    BY PeticionIgual
  <2> QED BY <2>1 DEF InvEspera, InvGuion, InvPaso
<1>14. InvQueda'
  BY <1>3, <1>4 DEF InvEspera, InvGuion, InvQueda
<1> QED
  BY <1>9, <1>10, <1>11, <1>12, <1>13, <1>14 DEF InvGuion

\* Reading, delivering, skipping and taking leave the next header where it is.
LEMMA MismoRegistro ==
  ASSUME IInv, InvEntrega, InvEspera,
         Lee \/ LeeFin \/ Entrega \/ Salta \/ Relleno \/ FinSinRelleno \/ CabeceraParte \/ Consume
  PROVE  InvEspera'
<1>1. /\ rdNext \in Nat /\ stop \in Nat /\ buffStop \in Nat /\ contentLen \in Nat
      /\ paddingLen \in Nat /\ headerLen \in Nat /\ rdNext <= buffStop /\ stop <= buffStop
  BY NumerosLector DEF IInv
<1>2. pc = "llena" => stop <= rdNext /\ ~isClosed
  BY DEF InvEntrega, InvReposo
<1>3. EnLector => \A k \in Esperados : buffStop <= Regs[k].fin
  BY DEF InvEspera, InvEscrito, Leido, EnLector
<1>4. CASE Lee
  <2>1. /\ pc = "llena" /\ buffStop < Escrito
        /\ UNCHANGED <<pc, con, resp, type, marco, act, peticion, rdNext, stop, headerLen, contentLen, paddingLen, error>>
    BY <1>4 DEF Lee
  <2>2. Sig' = Sig
    BY <2>1 DEF Sig, Tope
  <2>3. \A k \in Esperados : buffStop' <= Regs[k].fin
    <3> SUFFICES ASSUME NEW k \in Esperados PROVE buffStop' <= Regs[k].fin
      OBVIOUS
    <3>1. Escrito <= Regs[k].fin /\ Regs[k].fin \in Nat
      BY CotaEscrito, EnOrden DEF Esperados, IInv
    <3>2. Escrito \in Nat
      BY CotaEscrito DEF IInv
    <3>3. PICK n \in 1..Menor(BuffLen, Escrito - buffStop) : buffStop' = buffStop + n
      BY <1>4 DEF Lee
    <3>4. n <= Escrito - buffStop
      BY <1>1, <3>2, <3>3, Largos DEF Menor
    <3> QED BY <1>1, <3>1, <3>2, <3>3, <3>4
  <2> QED BY <1>1, <1>2, <2>1, <2>2, <2>3, AvanzaEspera DEF EnLector
<1>5. CASE LeeFin
  <2>1. /\ pc = "llena" /\ pc' = "vuelve" /\ error' = TRUE /\ isClosed' = TRUE
        /\ UNCHANGED <<con, resp, type, marco, act, peticion, rdNext, stop, headerLen, contentLen, paddingLen, buffStop>>
    BY <1>5 DEF LeeFin, Falla
  <2>2. Sig' = Sig
    BY <2>1 DEF Sig, Tope
  <2> QED BY <1>1, <1>2, <1>3, <2>1, <2>2, AvanzaEspera DEF EnLector
<1>6. CASE Entrega
  <2>1. /\ pc = "llena" /\ pc' = "vuelve" /\ rdNext < buffStop /\ contentLen > 0
        /\ UNCHANGED <<con, resp, type, marco, act, peticion, rdNext, headerLen, paddingLen, buffStop, error>>
    BY <1>6 DEF Entrega
  <2>2. PICK n \in Nat : n > 0 /\ contentLen' = contentLen - n /\ stop' = rdNext + n
    BY <1>1, <1>6, <2>1 DEF Entrega, Menor
  <2>3. Sig' = Sig
    BY <1>1, <1>2, <2>1, <2>2 DEF Sig, Tope
  <2> QED BY <1>1, <1>2, <1>3, <2>1, <2>3, AvanzaEspera DEF EnLector
<1>7. CASE Salta
  <2>1. /\ pc = "llena" /\ rdNext < buffStop
        /\ UNCHANGED <<con, resp, type, marco, act, peticion, headerLen, paddingLen, buffStop, error>>
    BY <1>7 DEF Salta
  <2>2. PICK n \in Nat : /\ contentLen' = contentLen - n /\ rdNext' = rdNext + n
                         /\ FinDeSalto(n)
    BY <1>1, <1>7, <2>1 DEF Salta, Menor
  <2>3. EnLector' /\ ~(rdNext' < stop')
    BY <1>1, <1>2, <2>1, <2>2 DEF FinDeSalto, FinDeRegistro, EnLector
  <2>4. Tope' = rdNext + n /\ Tope = rdNext
    BY <1>1, <1>2, <2>1, <2>2, <2>3 DEF Tope
  <2>5. Sig' = Sig
    BY <1>1, <2>1, <2>2, <2>4 DEF Sig
  <2> QED BY <1>1, <1>2, <1>3, <2>1, <2>2, <2>3, <2>5, AvanzaEspera DEF EnLector
<1>8. CASE Relleno
  <2>1. /\ pc = "llena" /\ rdNext < buffStop
        /\ UNCHANGED <<con, resp, type, marco, act, peticion, headerLen, contentLen, buffStop, error>>
    BY <1>8 DEF Relleno
  <2>2. PICK n \in Nat : /\ paddingLen' = paddingLen - n /\ rdNext' = rdNext + n
                         /\ \/ FinDeRegistro(rdNext + n)
                            \/ UNCHANGED <<pc, stop, isClosed>>
    BY <1>1, <1>8, <2>1 DEF Relleno, Menor
  <2>3. EnLector' /\ ~(rdNext' < stop')
    BY <1>1, <1>2, <2>1, <2>2 DEF FinDeRegistro, EnLector
  <2>4. Tope' = rdNext + n /\ Tope = rdNext
    BY <1>1, <1>2, <2>1, <2>2, <2>3 DEF Tope
  <2>5. Sig' = Sig
    BY <1>1, <2>1, <2>2, <2>4 DEF Sig
  <2> QED BY <1>1, <1>2, <1>3, <2>1, <2>2, <2>3, <2>5, AvanzaEspera DEF EnLector
<1>9. CASE FinSinRelleno
  <2>1. /\ pc = "llena" /\ pc' = "vuelve" /\ stop' = rdNext
        /\ UNCHANGED <<con, resp, type, marco, act, peticion, rdNext, headerLen, contentLen, paddingLen, buffStop, error>>
    BY <1>9 DEF FinSinRelleno, FinDeRegistro
  <2>2. Sig' = Sig
    BY <1>1, <1>2, <2>1 DEF Sig, Tope
  <2> QED BY <1>1, <1>2, <1>3, <2>1, <2>2, AvanzaEspera DEF EnLector
<1>10. CASE CabeceraParte
  <2>1. /\ pc = "llena" /\ rdNext < buffStop /\ rdNext' = buffStop
        /\ headerLen' = headerLen + (buffStop - rdNext)
        /\ UNCHANGED <<pc, con, resp, type, marco, act, peticion, stop, contentLen, paddingLen, buffStop, error>>
    BY <1>10 DEF CabeceraParte, EnCabecera
  <2>2. Sig' = Sig
    BY <1>1, <1>2, <2>1 DEF Sig, Tope
  <2> QED BY <1>1, <1>2, <1>3, <2>1, <2>2, AvanzaEspera DEF EnLector
<1>11. CASE Consume
  <2>1. /\ pc = "vuelve" /\ pc' \in {"llena", "vuelve"} /\ ~isClosed /\ rdNext < stop /\ rdNext' = stop
        /\ UNCHANGED <<con, resp, type, marco, act, peticion, headerLen, contentLen, paddingLen, stop, buffStop, error>>
    BY <1>11 DEF Consume
  <2>2. Sig' = Sig
    BY <1>1, <2>1 DEF Sig, Tope
  <2> QED BY <1>1, <1>3, <2>1, <2>2, AvanzaEspera DEF EnLector
<1> QED
  BY <1>4, <1>5, <1>6, <1>7, <1>8, <1>9, <1>10, <1>11

\* Nothing of what is read changes.
LEMMA IgualEspera ==
  ASSUME InvEspera, UNCHANGED <<pc, con, resp, type, registro, buffer, isClosed, error, peticion>>
  PROVE  InvEspera'
<1>1. /\ Empiezan' = Empiezan /\ Finales' = Finales /\ (Guarda' <=> Guarda) /\ (Esperable' <=> Esperable)
      /\ \A b, k : Comienza(b, k)' <=> Comienza(b, k)
      /\ \A e, b, k : FinDeParams(e, b, k)' <=> FinDeParams(e, b, k)
      /\ \A k : Proximo(k)' <=> Proximo(k)
  BY GuionIgual, ProximoIgual
<1>2. /\ Sig' = Sig /\ Esperados' = Esperados /\ Escrito' = Escrito /\ (Limpio' <=> Limpio)
      /\ (Leido' <=> Leido) /\ (EnLector' <=> EnLector)
  BY PeticionIgual DEF Sig, Tope, Esperados, Escrito, Leido, EnLector
<1>3. InvEscrito' /\ InvTipo' /\ InvBegin'
  BY <1>1, <1>2 DEF InvEspera, InvEscrito, InvTipo, InvBegin
<1> SUFFICES ASSUME Esperable PROVE InvGuion'
  BY <1>1, <1>3 DEF InvEspera
<1>4. InvServidos' /\ InvTurno'
  BY <1>1, <1>2 DEF InvEspera, InvGuion, InvServidos, InvTurno
<1>5. InvAntes'
  BY <1>1, <1>2 DEF InvEspera, InvGuion, InvAntes
<1>6. InvParams'
  <2> SUFFICES ASSUME EnLector, type = "PARAMS", ~error, ~(isClosed /\ marco = "no"),
                      NEW k \in Indices, NEW b \in Indices, Proximo(k), Comienza(b, k)
               PROVE  \E e \in Indices : FinDeParams(e, b, k)' /\ Sig' <= Regs[e].ini
    BY <1>1, <1>2 DEF InvParams
  <2>1. PICK e \in Indices : FinDeParams(e, b, k) /\ Sig <= Regs[e].ini
    BY DEF InvEspera, InvGuion, InvParams
  <2> QED BY <1>1, <1>2, <2>1
<1>7. InvPaso' /\ InvQueda'
  BY <1>1, <1>2 DEF InvEspera, InvGuion, InvPaso, InvQueda
<1> QED
  BY <1>4, <1>5, <1>6, <1>7 DEF InvGuion

\* What a header says of the place of the reader and of the server: none of the
\* records it waits at is before this one.
LEMMA CabeceraLugar ==
  ASSUME IInv, InvEntrega, InvEspera, NEW k \in Indices, CabeceraDe(k)
  PROVE  /\ Sig = Regs[k].ini /\ Sig' = Regs[k].fin /\ rdNext <= rdNext'
         /\ \A j \in Indices : j # k /\ Sig <= Regs[j].ini => Sig' <= Regs[j].ini
         /\ \A j \in Indices : k < j => Sig' <= Regs[j].ini
         /\ \A j \in Esperados : k <= j
         /\ \A j \in Indices : j < k => ~(Sig <= Regs[j].ini)
         /\ Regs[k].ini + HeaderLen > rdNext
         /\ error => type = "STDIN"
<1>1. /\ pc = "llena" /\ contentLen = 0 /\ paddingLen = 0 /\ marco = "no" /\ stop <= rdNext
      /\ con' = con /\ act' = k /\ headerLen' = 0 /\ contentLen' = Regs[k].cont /\ paddingLen' = Regs[k].pad
      /\ rdNext' = Regs[k].ini + HeaderLen /\ stop' = rdNext'
      /\ rdNext <= rdNext' /\ Regs[k].ini = rdNext - headerLen
  BY LaCabecera
<1>2. /\ Regs[k].ini \in Nat /\ Regs[k].cont \in Nat /\ Regs[k].pad \in Nat /\ Regs[k].fin \in Nat
      /\ Regs[k].fin = Regs[k].ini + HeaderLen + Regs[k].cont + Regs[k].pad /\ k \in Nat
  BY EnOrden DEF IInv
<1>3. /\ rdNext \in Nat /\ stop \in Nat /\ buffStop \in Nat /\ headerLen \in Nat /\ headerLen < HeaderLen
      /\ HeaderLen \in Nat \ {0} /\ Tope = rdNext
  BY <1>1, NumerosLector DEF IInv
<1>4. Sig = Regs[k].ini
  BY <1>1, <1>3 DEF Sig
<1>5. Tope' = rdNext'
  BY <1>1, <1>2, <1>3 DEF Tope
<1>6. Sig' = Regs[k].fin
  BY <1>1, <1>2, <1>3, <1>5 DEF Sig
<1>7. \A j \in Indices : j # k /\ Sig <= Regs[j].ini => Sig' <= Regs[j].ini
  BY <1>4, <1>6, UnoTrasOtro DEF IInv
<1>8. \A j \in Indices : k < j => Sig' <= Regs[j].ini
  BY <1>6, EnOrden DEF IInv
<1>9. ASSUME NEW j \in Esperados PROVE k <= j
  <2>1. buffStop <= Regs[j].fin /\ j \in Indices /\ Regs[j].fin \in Nat
    BY <1>1, EnOrden DEF InvEspera, InvEscrito, Leido, Esperados, IInv
  <2>2. rdNext' <= buffStop
    BY <1>1 DEF CabeceraDe, Cabecera
  <2>3. Regs[k].ini < Regs[j].fin
    BY <1>1, <1>2, <1>3, <2>1, <2>2
  <2> QED BY <2>1, <2>3, UnoTrasOtro DEF IInv
<1>10. \A j \in Indices : j < k => ~(Sig <= Regs[j].ini)
  BY <1>4, UnoTrasOtro DEF IInv
<1>11. Regs[k].ini + HeaderLen > rdNext
  BY <1>1, <1>2, <1>3
<1>12. error => type = "STDIN"
  BY <1>1 DEF InvEspera, InvTipo
<1> QED
  BY <1>1, <1>4, <1>6, <1>7, <1>8, <1>9, <1>10, <1>11, <1>12

\* A header after which the reader is where it was in the connection: the same
\* request, and the same ends of input to come.
LEMMA CabeceraEspera ==
  ASSUME IInv, InvEntrega, InvEspera, NEW k \in Indices, CabeceraDe(k), EnLector',
         resp' = resp \/ (resp' = resp \cup {k} /\ k \notin Finales),
         UNCHANGED error \/ (error' /\ isClosed' /\ pc' = "vuelve"),
         marco' = "cuerpo" => BeginNuevo(k)
  PROVE  /\ InvEscrito' /\ InvTipo' /\ InvBegin'
         /\ Esperable => InvServidos' /\ InvPaso'
<1>1. /\ pc = "llena" /\ marco = "no" /\ ~isClosed
      /\ UNCHANGED <<con, type, isBeginProcessed, inicio>> /\ act' = k /\ k # 0
  BY LaCabecera
<1>2. keepConnection' = keepConnection /\ buffStop' = buffStop
  BY DEF CabeceraDe, Cabecera
<1>3. /\ Sig' = Regs[k].fin /\ rdNext <= rdNext' /\ rdNext' = Regs[k].ini + HeaderLen
      /\ \A j \in Indices : k < j => Sig' <= Regs[j].ini
      /\ \A j \in Esperados : k <= j
      /\ error => type = "STDIN"
  BY LaCabecera, CabeceraLugar
<1>4. Leido /\ Leido' /\ EnLector
  BY <1>1 DEF Leido, EnLector
<1>5. /\ Empiezan' = Empiezan /\ Finales' = Finales /\ (Guarda' <=> Guarda)
      /\ Finales' \cap resp' = Finales \cap resp
  <2>1. \A s \in Finales : s \in resp' <=> s \in resp
    OBVIOUS
  <2> QED BY <1>1, <2>1, GuionIgual, ProximoIgual
<1>6. Esperados' \subseteq Esperados
  BY <1>1 DEF Esperados
<1>7. InvEscrito'
  <2>1. \A j \in Esperados' : buffStop <= Regs[j].fin /\ k <= j
    BY <1>3, <1>4, <1>6 DEF InvEspera, InvEscrito
  <2> QED BY <1>1, <1>2, <2>1 DEF InvEscrito
<1>8. InvTipo'
  BY <1>1, <1>3, <1>4 DEF InvEspera, InvTipo, EnLector
<1>9. \A j \in Empiezan : Regs[j].ini + HeaderLen <= rdNext => Regs[j].ini + HeaderLen <= rdNext'
  <2>1. \A j \in Empiezan : Regs[j].ini \in Nat
    BY EnOrden DEF Empiezan, IInv
  <2>2. rdNext' \in Nat
    BY <1>3, EnOrden, Largos DEF IInv
  <2> QED BY <1>3, <2>1, <2>2, NumerosLector DEF IInv
<1>10. InvBegin'
  <2>1. BeginNuevo(k) => k \in Empiezan /\ type = "BEGIN"
    BY <1>4 DEF BeginNuevo, BeginBien, Empiezan, InvEspera, InvTipo
  <2>2. Regs[k].ini + HeaderLen <= rdNext'
    BY <1>3, EnOrden, Largos DEF IInv
  <2> QED BY <1>1, <1>2, <1>4, <1>5, <1>9, <2>1, <2>2 DEF InvEspera, InvBegin
<1>11. ASSUME Esperable PROVE InvServidos'
  <2> SUFFICES ASSUME NEW s \in Finales \cap resp
               PROVE  Guarda /\ \A j \in Empiezan : j < s => Regs[j].ini + HeaderLen <= rdNext'
    BY <1>1, <1>5 DEF InvServidos
  <2>1. Guarda /\ \A j \in Empiezan : j < s => Regs[j].ini + HeaderLen <= rdNext
    BY <1>4, <1>11 DEF InvEspera, InvGuion, InvServidos
  <2> QED BY <1>9, <2>1
<1>12. InvPaso'
  BY <1>1, <1>3 DEF InvPaso
<1> QED
  BY <1>7, <1>8, <1>10, <1>11, <1>12

\* The header of a record other than the beginning of a request.
LEMMA CabeceraGuion ==
  ASSUME IInv, InvEntrega, InvEspera, NEW k \in Indices, CabeceraDe(k), EnLector', Esperable,
         resp' = resp \/ (resp' = resp \cup {k} /\ k \notin Finales),
         UNCHANGED error \/ (error' /\ isClosed' /\ pc' = "vuelve"),
         requestId' = requestId, marco' # "cuerpo",
         type = "BEGIN" /\ ~error' => k \notin Empiezan,
         k \in Esperados' => \/ Regs[k].tipo = "GET_VALUES" \/ Escrito' = Corte
                             \/ type = "BEGIN" /\ error'
                             \/ type = "STDIN" /\ isClosed' /\ marco' = "no",
         type = "PARAMS" /\ Regs[k].tipo = "PARAMS" /\ Regs[k].cont = 0 /\ Regs[k].id = requestId
           /\ Regs[k].id # 0 => isClosed' /\ marco' = "no"
  PROVE  InvEspera'
<1>1. /\ pc = "llena" /\ marco = "no" /\ ~isClosed
      /\ UNCHANGED <<con, type, isBeginProcessed, inicio>> /\ act' = k
  BY LaCabecera
<1>2. /\ Sig = Regs[k].ini /\ Sig' = Regs[k].fin
      /\ \A j \in Indices : j # k /\ Sig <= Regs[j].ini => Sig' <= Regs[j].ini
      /\ error => type = "STDIN"
  BY CabeceraLugar
<1>3. Leido /\ EnLector
  BY <1>1 DEF Leido, EnLector
<1>4. /\ Empiezan' = Empiezan /\ Finales' = Finales /\ (Guarda' <=> Guarda) /\ (Esperable' <=> Esperable)
      /\ \A b, j : Comienza(b, j)' <=> Comienza(b, j)
      /\ \A e, b, j : FinDeParams(e, b, j)' <=> FinDeParams(e, b, j)
      /\ \A j : Proximo(j)' <=> Proximo(j)
  <2>1. \A s \in Finales : s \in resp' <=> s \in resp
    OBVIOUS
  <2> QED BY <1>1, <2>1, GuionIgual, ProximoIgual
<1>5. /\ InvEscrito' /\ InvTipo' /\ InvBegin' /\ InvServidos' /\ InvPaso'
  BY CabeceraEspera
<1>6. InvTurno'
  BY <1>1, <1>3, <1>4 DEF InvEspera, InvGuion, InvTurno
<1>7. InvAntes'
  <2> SUFFICES ASSUME type = "BEGIN", ~error' PROVE InvAntes'
    BY <1>1 DEF InvAntes
  <2>1. ~error /\ k \notin Empiezan
    BY <1>2
  <2>2. /\ ~Guarda => \A j \in Empiezan : Sig <= Regs[j].ini
        /\ Guarda => \A j, b \in Indices : Proximo(j) /\ Comienza(b, j) =>
                       requestId = Regs[j].id \/ Sig <= Regs[b].ini
    BY <1>1, <1>3, <2>1 DEF InvEspera, InvGuion, InvAntes
  <2>3. \A j \in Empiezan : j \in Indices /\ j # k
    BY <2>1 DEF Empiezan
  <2>4. \A j, b \in Indices : Comienza(b, j) => b # k
    BY <2>1 DEF Comienza
  <2> QED BY <1>1, <1>2, <1>4, <2>2, <2>3, <2>4 DEF InvAntes
<1>8. InvParams'
  <2> SUFFICES ASSUME type = "PARAMS", ~error', ~(isClosed' /\ marco' = "no"),
                      NEW j \in Indices, NEW b \in Indices, Proximo(j), Comienza(b, j)
               PROVE  \E e \in Indices : FinDeParams(e, b, j)' /\ Sig' <= Regs[e].ini
    BY <1>1, <1>4 DEF InvParams
  <2>1. PICK e \in Indices : FinDeParams(e, b, j) /\ Sig <= Regs[e].ini
    BY <1>1, <1>2, <1>3 DEF InvEspera, InvGuion, InvParams
  <2>2. requestId = Regs[j].id /\ Regs[j].id # 0
    BY <1>3 DEF InvEspera, InvGuion, InvTurno, Proximo, Finales
  <2>3. e # k
    BY <2>1, <2>2 DEF FinDeParams
  <2> QED BY <1>2, <1>4, <2>1, <2>3
<1>9. InvQueda'
  BY <1>1 DEF InvQueda
<1> QED
  BY <1>4, <1>5, <1>6, <1>7, <1>8, <1>9 DEF InvEspera, InvGuion

\* At the header of an end of input at which the server waits, the request is
\* that one's; before its beginning and inside its parameters it does not come.
LEMMA FinalLeido ==
  ASSUME IInv, InvEntrega, InvEspera, Esperable, NEW k \in Indices, CabeceraDe(k), k \in Finales \ resp
  PROVE  Regs[k].cont = 0 /\ Regs[k].id = requestId /\ (type # "BEGIN" => type = "STDIN")
<1>1. pc = "llena" /\ marco = "no" /\ ~isClosed /\ k \in Nat
  BY LaCabecera, EnOrden DEF IInv
<1>2. /\ \A j \in Indices : j < k => ~(Sig <= Regs[j].ini)
      /\ \A j \in Esperados : k <= j
      /\ error => type = "STDIN"
  BY CabeceraLugar
<1>3. Leido /\ EnLector
  BY <1>1 DEF Leido, EnLector
<1>4. Proximo(k)
  <2>1. \A s \in Finales : s \in Nat /\ (s \in resp \/ s \in Esperados)
    BY EnOrden DEF Finales, Esperados, IInv
  <2> QED BY <1>1, <1>2, <2>1 DEF Proximo
<1>5. PICK b \in Indices : Regs[k].cont = 0 /\ Comienza(b, k)
  <2>1. Regs[k].espera /\ Regs[k].id # 0 /\ k \notin Empiezan
    BY DEF Finales, Empiezan
  <2> QED BY <2>1 DEF Esperable
<1>6. b < k /\ b \in Empiezan
  BY <1>5 DEF Comienza
<1>7. type = "BEGIN" => Regs[k].id = requestId
  <2> SUFFICES ASSUME type = "BEGIN" PROVE Regs[k].id = requestId
    OBVIOUS
  <2>1. /\ ~Guarda => \A j \in Empiezan : Sig <= Regs[j].ini
        /\ Guarda => requestId = Regs[k].id \/ Sig <= Regs[b].ini
    BY <1>1, <1>2, <1>3, <1>4, <1>5 DEF InvEspera, InvGuion, InvAntes
  <2> QED BY <1>2, <1>6, <2>1
<1>8. type # "BEGIN" => Regs[k].id = requestId
  BY <1>3, <1>4, <1>5 DEF InvEspera, InvGuion, InvTurno
<1>9. type # "PARAMS"
  <2> SUFFICES ASSUME type = "PARAMS" PROVE FALSE
    OBVIOUS
  <2>1. PICK e \in Indices : FinDeParams(e, b, k) /\ Sig <= Regs[e].ini
    BY <1>1, <1>2, <1>3, <1>4, <1>5 DEF InvEspera, InvGuion, InvParams
  <2> QED BY <1>2, <2>1 DEF FinDeParams
<1> QED
  BY <1>5, <1>7, <1>8, <1>9 DEF IInv, TypeOK

\* Where the server may wait.
LEMMA DondeEspera ==
  ASSUME Esperable, NEW k \in Indices, k \in Esperados
  PROVE  \/ Regs[k].id = 0 /\ Regs[k].tipo # "BEGIN"
         \/ k \in Empiezan /\ ~Guarda /\ \E j \in Empiezan : j < k
         \/ k \in Finales \ resp
BY DEF Esperable, Esperados

\* A BEGIN that begins a request is the beginning of the one that ends next.
LEMMA BeginEspera ==
  ASSUME IInv, InvEntrega, InvEspera, NEW k \in Indices, BeginNuevo(k)
  PROVE  InvEspera'
<1>1. /\ CabeceraDe(k) /\ ~isBeginProcessed /\ k \in Empiezan
      /\ requestId' = Regs[k].id /\ marco' = "cuerpo" /\ UNCHANGED <<pc, isClosed, error, resp>>
  BY DEF BeginNuevo, BeginBien, Sigue, Empiezan
<1>2. /\ pc = "llena" /\ marco = "no" /\ ~isClosed
      /\ UNCHANGED <<con, type, isBeginProcessed, inicio>> /\ act' = k /\ k \in Nat
  BY <1>1, LaCabecera, EnOrden DEF IInv
<1>3. /\ Leido /\ EnLector /\ EnLector' /\ type = "BEGIN"
      /\ Sig = Regs[k].ini /\ \A j \in Indices : j < k => ~(Sig <= Regs[j].ini)
      /\ \A j \in Esperados : k <= j
      /\ Regs[k].ini + HeaderLen > rdNext /\ ~error
  <2>1. Leido /\ EnLector /\ EnLector' /\ type = "BEGIN"
    BY <1>1, <1>2 DEF Leido, EnLector, InvEspera, InvTipo
  <2> QED BY <1>1, <2>1, CabeceraLugar
<1>4. /\ InvEscrito' /\ InvTipo' /\ InvBegin'
      /\ Esperable => InvServidos' /\ InvPaso'
  BY <1>1, <1>3, CabeceraEspera
<1>5. /\ Empiezan' = Empiezan /\ Finales' = Finales /\ (Guarda' <=> Guarda) /\ (Esperable' <=> Esperable)
      /\ \A b, j : Comienza(b, j)' <=> Comienza(b, j)
      /\ \A j : Proximo(j)' <=> Proximo(j)
  BY <1>1, <1>2, GuionIgual, ProximoIgual
<1> SUFFICES ASSUME Esperable PROVE InvTurno' /\ InvAntes' /\ InvParams' /\ InvQueda'
  BY <1>4, <1>5 DEF InvEspera, InvGuion
<1>6. ~Guarda => \A j \in Empiezan : Sig <= Regs[j].ini
  BY <1>2, <1>3 DEF InvEspera, InvGuion, InvAntes
<1>7. ASSUME NEW j \in Indices, NEW b \in Indices, Proximo(j), Comienza(b, j)
      PROVE  k = b
  <2>1. j \in Esperados /\ j \in Nat /\ b \in Nat /\ j # k
    BY <1>1, <1>7, EnOrden DEF Proximo, Finales, Esperados, Empiezan, IInv
  <2>2. k < j
    BY <1>2, <1>3, <2>1
  <2>3. ASSUME k # b PROVE FALSE
    <3>1. CASE b < k /\ ~Guarda
      BY <1>3, <1>6, <1>7, <3>1 DEF Comienza
    <3>2. CASE \E s \in Finales : k < s /\ s < b
      <4>1. PICK s \in Finales : k < s /\ s < b
        BY <3>2
      <4>2. s \in Nat /\ b < j
        BY <1>7, <4>1, EnOrden DEF Finales, Comienza, IInv
      <4>3. s \in resp
        BY <1>7, <2>1, <4>1, <4>2 DEF Proximo
      <4>4. Regs[k].ini + HeaderLen <= rdNext
        BY <1>1, <1>3, <4>1, <4>3 DEF InvEspera, InvGuion, InvServidos
      <4> QED BY <1>3, <4>4, EnOrden, NumerosLector DEF IInv
    <3> QED BY <1>1, <1>7, <2>2, <2>3, <3>1, <3>2 DEF Comienza
  <2> QED BY <2>3
<1>8. InvTurno'
  <2>1. \A j, b : Comienza(b, j) => Regs[b].id = Regs[j].id
    BY DEF Comienza
  <2> QED BY <1>1, <1>2, <1>3, <1>5, <1>7, <2>1 DEF InvTurno
<1>9. InvAntes' /\ InvParams'
  BY <1>1, <1>2, <1>3 DEF InvAntes, InvParams
<1>10. InvQueda'
  <2>1. k \notin Esperados
    <3> SUFFICES ASSUME k \in Esperados PROVE FALSE
      OBVIOUS
    <3>1. ~Guarda /\ \E j \in Empiezan : j < k
      BY <1>1, DondeEspera DEF Empiezan, Finales
    <3> QED BY <1>3, <1>6, <3>1 DEF Empiezan
  <2>2. Esperados' = Esperados
    BY <1>1, <1>2 DEF Esperados
  <2> QED BY <1>2, <2>1, <2>2 DEF InvQueda
<1> QED
  BY <1>8, <1>9, <1>10

\* ProcessHeader answers a record that awaits its answer, or ends the stream at
\* it, or is about to stop.
LEMMA HeaderEspera ==
  ASSUME IInv, InvEntrega, InvEspera, NEW k \in Indices,
         \/ BeginMal(k) \/ BeginOtro(k) \/ BeginNuevo(k) \/ GetValues(k) \/ Desconocido(k)
         \/ Ajeno(k) \/ Inesperado(k) \/ Flujo(k)
  PROVE  InvEspera'
<1>1. CabeceraDe(k)
  BY DEF BeginMal, BeginOtro, BeginNuevo, BeginBien, GetValues, Desconocido, DeFlujo, Ajeno, Inesperado,
         Flujo
<1>2. /\ pc = "llena" /\ marco = "no" /\ ~isClosed
      /\ UNCHANGED <<con, type, isBeginProcessed, inicio>> /\ act' = k
  BY <1>1, LaCabecera
<1>3. error => type = "STDIN"
  BY <1>1, CabeceraLugar
<1>4. Leido /\ EnLector /\ (isBeginProcessed <=> type # "BEGIN")
  BY <1>2 DEF Leido, EnLector, InvEspera, InvTipo
<1>5. CASE BeginNuevo(k)
  BY <1>5, BeginEspera
<1>6. CASE ~Esperable
  <2>1. EnLector' /\ (UNCHANGED error \/ (error' /\ isClosed' /\ pc' = "vuelve"))
        /\ (resp' = resp \/ (resp' = resp \cup {k} /\ k \notin Finales))
        /\ (marco' = "cuerpo" => BeginNuevo(k))
    BY <1>2 DEF EnLector, Falla, Sigue, Responde, NoResponde, BeginMal, BeginOtro, BeginNuevo, BeginBien,
       GetValues, Desconocido, DeFlujo, Ajeno, Inesperado, Flujo, Finales
  <2>2. InvEscrito' /\ InvTipo' /\ InvBegin'
    BY <1>1, <2>1, CabeceraEspera
  <2>3. ~Esperable'
    BY <1>2, <1>6, GuionIgual
  <2> QED BY <2>2, <2>3 DEF InvEspera
<1> SUFFICES ASSUME Esperable PROVE InvEspera'
  BY <1>6
<1>7. Escrito = Corte /\ resp' = resp => Escrito' = Corte
  BY <1>2 DEF Escrito, Esperados
<1>8. Esperados' = {j \in Indices : Regs[j].espera /\ j \notin resp'}
  BY <1>2 DEF Esperados
<1>9. ASSUME k \in Esperados'
      PROVE  \/ Regs[k].id = 0 /\ Regs[k].tipo # "BEGIN"
             \/ k \in Empiezan
             \/ k \in Finales /\ Regs[k].cont = 0 /\ Regs[k].id = requestId
                /\ (type # "BEGIN" => type = "STDIN")
  <2>1. k \in Esperados \/ k \notin Esperados
    OBVIOUS
  <2>2. resp \subseteq resp'
    BY DEF Responde, NoResponde, BeginMal, BeginOtro, BeginNuevo, GetValues, Desconocido, Ajeno, Inesperado,
       Flujo
  <2>3. k \in Esperados
    BY <1>8, <1>9, <2>2 DEF Esperados
  <2> QED BY <1>1, <2>3, DondeEspera, FinalLeido
<1>10. CASE BeginMal(k)
  <2>1. /\ k \notin Empiezan /\ Regs[k].tipo = "BEGIN" /\ Falla /\ UNCHANGED <<resp, marco, requestId>>
    BY <1>10 DEF BeginMal, Empiezan
  <2>2. k \notin Esperados'
    BY <1>9, <2>1 DEF Finales
  <2> QED BY <1>1, <1>2, <2>1, <2>2, CabeceraGuion DEF Falla, EnLector
<1>11. CASE BeginOtro(k)
  <2>1. Regs[k].tipo = "BEGIN" /\ isBeginProcessed /\ UNCHANGED <<marco, requestId>> /\ k \notin Finales
    BY <1>11 DEF BeginOtro, BeginBien, Finales
  <2>2. CASE Responde(k)
    <3>1. k \notin Esperados' /\ resp' = resp \cup {k} /\ UNCHANGED <<pc, isClosed, error>>
      BY <1>8, <2>2 DEF Responde, Sigue
    <3> QED BY <1>1, <1>2, <1>4, <2>1, <3>1, CabeceraGuion DEF EnLector
  <2>3. CASE NoResponde
    BY <1>1, <1>2, <1>4, <1>7, <2>1, <2>3, CabeceraGuion DEF NoResponde, Falla, EnLector
  <2> QED BY <1>11, <2>2, <2>3 DEF BeginOtro
<1>12. CASE GetValues(k)
  <2>1. /\ Regs[k].tipo = "GET_VALUES" /\ Regs[k].id = 0 /\ marco' = "valores"
        /\ UNCHANGED <<pc, isClosed, error, resp, requestId>> /\ k \notin Empiezan
    BY <1>12 DEF GetValues, Sigue, Empiezan
  <2> QED BY <1>1, <1>2, <1>4, <2>1, CabeceraGuion DEF EnLector
<1>13. CASE Desconocido(k)
  <2>1. /\ Regs[k].tipo # "BEGIN" /\ Regs[k].id = 0 /\ UNCHANGED <<marco, requestId>>
        /\ k \notin Finales /\ k \notin Empiezan
    BY <1>13 DEF Desconocido, Finales, Empiezan
  <2>2. CASE Responde(k)
    <3>1. k \notin Esperados' /\ resp' = resp \cup {k} /\ UNCHANGED <<pc, isClosed, error>>
      BY <1>8, <2>2 DEF Responde, Sigue
    <3> QED BY <1>1, <1>2, <1>4, <2>1, <3>1, CabeceraGuion DEF EnLector
  <2>3. CASE NoResponde
    BY <1>1, <1>2, <1>4, <1>7, <2>1, <2>3, CabeceraGuion DEF NoResponde, Falla, EnLector
  <2> QED BY <1>13, <2>2, <2>3 DEF Desconocido
<1>14. CASE Ajeno(k)
  <2>1. /\ Regs[k].tipo # "BEGIN" /\ Regs[k].id # 0 /\ Regs[k].id # requestId
        /\ UNCHANGED <<pc, isClosed, error, resp, marco, requestId>> /\ k \notin Empiezan
    BY <1>14 DEF Ajeno, DeFlujo, Sigue, Empiezan
  <2>2. k \notin Esperados'
    BY <1>9, <2>1
  <2> QED BY <1>1, <1>2, <1>4, <2>1, <2>2, CabeceraGuion DEF EnLector
<1>15. CASE Inesperado(k)
  <2>1. /\ Regs[k].tipo # "BEGIN" /\ Regs[k].id # 0 /\ Regs[k].tipo # type /\ Falla
        /\ UNCHANGED <<resp, marco, requestId>> /\ k \notin Empiezan
    BY <1>15 DEF Inesperado, DeFlujo, Empiezan
  <2>2. k \in Esperados' => type = "BEGIN"
    BY <1>9, <2>1 DEF Finales
  <2> QED BY <1>1, <1>2, <2>1, <2>2, CabeceraGuion DEF Falla, EnLector
<1>16. CASE Flujo(k)
  <2>1. /\ Regs[k].tipo # "BEGIN" /\ Regs[k].id # 0 /\ Regs[k].tipo = type
        /\ Regs[k].cont = 0 => isClosed' = TRUE /\ pc' = "vuelve"
        /\ Regs[k].cont # 0 => UNCHANGED <<isClosed, pc>>
        /\ UNCHANGED <<error, resp, marco, requestId>> /\ k \notin Empiezan
    BY <1>16 DEF Flujo, DeFlujo, Empiezan
  <2>2. k \in Esperados' => type = "STDIN" /\ isClosed'
    BY <1>9, <2>1 DEF Finales
  <2> QED BY <1>1, <1>2, <2>1, <2>2, CabeceraGuion DEF EnLector
<1> QED
  BY <1>5, <1>10, <1>11, <1>12, <1>13, <1>14, <1>15, <1>16

\* Bytes that are no header: the reader stops, and inside the parameters no
\* record is left.
LEMMA MalaEspera ==
  ASSUME IInv, InvEntrega, InvEspera, CabeceraMala
  PROVE  InvEspera'
<1>1. /\ pc = "llena" /\ marco = "no" /\ contentLen = 0 /\ paddingLen = 0
      /\ pc' = "vuelve" /\ error' /\ isClosed' /\ rdNext' = FinCabecera
      /\ RegistroEn(FinCabecera - HeaderLen) = 0
      /\ UNCHANGED <<con, resp, type, marco, act, peticion, buffStop>>
      /\ ~isClosed /\ stop <= rdNext
  BY DEF CabeceraMala, Cabecera, EnCabecera, Falla, InvEntrega, InvReposo
<1>2. /\ rdNext \in Nat /\ stop \in Nat /\ headerLen \in Nat /\ headerLen < HeaderLen
      /\ HeaderLen \in Nat /\ rdNext <= rdNext' /\ rdNext' \in Nat
      /\ FinCabecera - HeaderLen = rdNext - headerLen
  BY <1>1, NumerosLector DEF IInv, FinCabecera
<1>3. Leido /\ Leido' /\ EnLector /\ EnLector'
  BY <1>1 DEF Leido, EnLector
<1>4. /\ Empiezan' = Empiezan /\ Finales' = Finales /\ (Guarda' <=> Guarda) /\ (Esperable' <=> Esperable)
      /\ \A b, k : Comienza(b, k)' <=> Comienza(b, k)
      /\ \A k : Proximo(k)' <=> Proximo(k)
  BY <1>1, GuionIgual, ProximoIgual
<1>5. Esperados' = Esperados /\ Escrito' = Escrito /\ (Limpio' <=> Limpio)
  BY <1>1, PeticionIgual DEF Esperados, Escrito
<1>6. \A j \in Empiezan : Regs[j].ini + HeaderLen <= rdNext => Regs[j].ini + HeaderLen <= rdNext'
  BY <1>2, EnOrden DEF Empiezan, IInv
<1>7. InvEscrito' /\ InvTipo'
  BY <1>1, <1>3, <1>5 DEF InvEspera, InvEscrito, InvTipo
<1>8. InvBegin'
  BY <1>1, <1>3, <1>4, <1>6 DEF InvEspera, InvBegin
<1> SUFFICES ASSUME Esperable PROVE InvGuion'
  BY <1>4, <1>7, <1>8 DEF InvEspera
<1>9. InvServidos'
  BY <1>1, <1>3, <1>4, <1>6 DEF InvEspera, InvGuion, InvServidos
<1>10. InvTurno'
  BY <1>1, <1>3, <1>4 DEF InvEspera, InvGuion, InvTurno
<1>11. InvAntes' /\ InvParams'
  BY <1>1 DEF InvAntes, InvParams
<1>12. InvPaso'
  <2> SUFFICES ASSUME act # 0, type = "PARAMS", isBeginProcessed => Limpio, NEW k \in Indices, act < k
               PROVE  FALSE
    BY <1>1, <1>5 DEF InvPaso
  <2>1. Leyendo /\ act \in Indices
    BY <1>1 DEF InvEspera, InvTipo, Leyendo, InvEntrega, InvReposo
  <2>2. Tope = rdNext
    BY <1>1, <1>2 DEF Tope
  <2>3. rdNext - headerLen = Regs[act].fin
    BY <1>1, <1>2, <2>1, <2>2 DEF InvEntrega, InvPosicion
  <2>4. act + 1 \in Indices
    <3>1. Regs \in Seq(Registro)
      BY RegsSeq DEF IInv
    <3>2. Len(Regs) \in Nat /\ Indices = 1..Len(Regs)
      BY <3>1
    <3> QED BY <2>1, <3>2
  <2>5. Regs[act + 1].ini = Regs[act].fin
    BY <2>1, <2>4 DEF Esperable, Seguidos
  <2>7. RegistroEn(Regs[act].fin) = 0
    BY <1>1, <1>2, <2>3
  <2>8. 0 \in Indices
    BY <2>4, <2>5, <2>7 DEF RegistroEn
  <2> QED BY <2>8, EnOrden DEF IInv
<1>13. InvQueda'
  BY <1>1, <1>3, <1>5 DEF InvEspera, InvGuion, InvQueda
<1> QED
  BY <1>9, <1>10, <1>11, <1>12, <1>13 DEF InvGuion

\* A request begins: it is the one whose input ends next, and the end of its
\* parameters is still to come.
LEMMA EmpiezaEspera ==
  ASSUME IInv, InvEntrega, InvEspera, Empieza
  PROVE  InvEspera'
<1>1. /\ marco = "cuerpo" /\ ~isClosed /\ pc = "vuelve" /\ pc' = "llena"
      /\ isBeginProcessed' = TRUE /\ inicio' = act /\ type' = "PARAMS" /\ marco' = "no"
      /\ keepConnection' = Regs[act].keep
      /\ contentLen' = 0 /\ paddingLen' = 0 /\ stop' = rdNext /\ isClosed' = FALSE
      /\ UNCHANGED <<con, resp, requestId, act, headerLen, rdNext, buffStop, error>>
  BY DEF Empieza, Begin, SetReaderType
<1>2. Leido /\ Leido' /\ EnLector /\ EnLector'
  BY <1>1 DEF Leido, EnLector
<1>3. /\ Empiezan' = Empiezan /\ Finales' = Finales /\ (Guarda' <=> Guarda) /\ (Esperable' <=> Esperable)
      /\ \A b, k : Comienza(b, k)' <=> Comienza(b, k)
      /\ \A e, b, k : FinDeParams(e, b, k)' <=> FinDeParams(e, b, k)
      /\ \A k : Proximo(k)' <=> Proximo(k)
  BY <1>1, GuionIgual, ProximoIgual
<1>4. Esperados' = Esperados /\ Escrito' = Escrito
  BY <1>1 DEF Esperados, Escrito
<1>5. type = "BEGIN" /\ act \in Empiezan /\ act \in Indices /\ Regs[act].ini + HeaderLen <= rdNext
  BY <1>1, <1>2 DEF InvEspera, InvBegin, Empiezan
<1>6. ~error /\ Leyendo /\ act # 0 /\ headerLen = 0 /\ Regs[act].pad \in Nat
  <2>1. ~error
    BY <1>1, <1>5 DEF InvEspera, InvTipo
  <2>2. Leyendo
    BY <1>1, <2>1 DEF Leyendo
  <2> QED BY <1>1, <1>5, <2>1, <2>2, EnOrden DEF InvEntrega, InvCuerpo, IInv
<1>7. Tope' = rdNext /\ Sig' = rdNext
  <2>1. rdNext \in Nat
    BY NumerosLector DEF IInv
  <2>2. Tope' = rdNext
    BY <1>1, <2>1 DEF Tope
  <2> QED BY <1>1, <1>6, <2>1, <2>2 DEF Sig
<1>8. rdNext <= Regs[act].fin /\ Regs[act].fin \in Nat
  <2>1. ~isBeginProcessed
    BY <1>2, <1>5 DEF InvEspera, InvTipo
  <2>2. Tope - headerLen + contentLen + paddingLen = Regs[act].fin
    BY <1>6, <2>1 DEF InvEntrega, InvPosicion
  <2> QED BY <1>5, <1>6, <2>2, NumerosLector, EnOrden DEF IInv
<1>9. \A j \in Indices : act < j => Sig' <= Regs[j].ini
  <2>1. \A j \in Indices : act < j => Regs[act].fin <= Regs[j].ini /\ Regs[j].ini \in Nat
    BY <1>5, EnOrden DEF IInv
  <2> QED BY <1>7, <1>8, <2>1, NumerosLector DEF IInv
<1>10. InvEscrito' /\ InvTipo'
  BY <1>1, <1>2, <1>4, <1>6 DEF InvEspera, InvEscrito, InvTipo
<1>11. InvBegin'
  BY <1>1, <1>3, <1>5 DEF InvBegin, Guarda
<1> SUFFICES ASSUME Esperable PROVE InvGuion'
  BY <1>3, <1>10, <1>11 DEF InvEspera
<1>12. InvServidos'
  BY <1>1, <1>2, <1>3 DEF InvEspera, InvGuion, InvServidos
<1>13. \A k, b \in Indices : Proximo(k) /\ Comienza(b, k) => act = b /\ requestId = Regs[k].id
  BY <1>1, <1>2 DEF InvEspera, InvGuion, InvTurno
<1>14. InvTurno'
  BY <1>1, <1>3, <1>13 DEF InvTurno
<1>15. InvAntes' /\ InvQueda'
  <2>1. act \notin Esperados \/ Regs[act].tipo = "GET_VALUES" \/ Escrito = Corte
    BY <1>1, <1>2, <1>5, <1>6 DEF InvEspera, InvGuion, InvQueda
  <2> QED BY <1>1, <1>4, <2>1 DEF InvAntes, InvQueda
<1>16. InvParams'
  <2> SUFFICES ASSUME NEW k \in Indices, NEW b \in Indices, Proximo(k), Comienza(b, k)
               PROVE  \E e \in Indices : FinDeParams(e, b, k)' /\ Sig' <= Regs[e].ini
    BY <1>1, <1>3 DEF InvParams
  <2>1. act = b
    BY <1>13
  <2>2. PICK b0 \in Indices : Comienza(b0, k) /\ \E e \in Indices : FinDeParams(e, b0, k)
    <3>1. Regs[k].espera /\ Regs[k].id # 0 /\ k \notin Empiezan
      BY DEF Proximo, Finales, Empiezan
    <3> QED BY <3>1 DEF Esperable
  <2>3. act = b0
    BY <1>13, <2>2
  <2>4. PICK e \in Indices : FinDeParams(e, b, k)
    BY <2>1, <2>2, <2>3
  <2>5. act < e
    BY <2>1, <2>4 DEF FinDeParams
  <2> QED BY <1>3, <1>9, <2>4, <2>5
<1>17. InvPaso'
  BY <1>1, <1>9 DEF InvPaso
<1> QED
  BY <1>12, <1>14, <1>15, <1>16, <1>17 DEF InvGuion

\* The input follows the parameters.
LEMMA FinParamsEspera ==
  ASSUME IInv, InvEntrega, InvEspera, FinParams
  PROVE  InvEspera'
<1>1. /\ marco = "no" /\ type = "PARAMS" /\ isClosed /\ pc = "vuelve" /\ pc' \in {"llena", "abandona"}
      /\ type' = "STDIN" /\ contentLen' = 0 /\ paddingLen' = 0 /\ stop' = rdNext /\ isClosed' = FALSE
      /\ UNCHANGED <<con, resp, marco, act, headerLen, rdNext, buffStop, error, peticion>>
  BY DEF FinParams, SetReaderType
<1>2. Leido /\ Leido' /\ EnLector
  BY <1>1 DEF Leido, EnLector
<1>3. /\ Empiezan' = Empiezan /\ Finales' = Finales /\ (Guarda' <=> Guarda) /\ (Esperable' <=> Esperable)
      /\ \A b, k : Comienza(b, k)' <=> Comienza(b, k)
      /\ \A k : Proximo(k)' <=> Proximo(k)
  BY <1>1, GuionIgual, ProximoIgual
<1>4. Esperados' = Esperados /\ Escrito' = Escrito /\ (Limpio' <=> Limpio)
  BY <1>1, PeticionIgual DEF Esperados, Escrito
<1>5. Sig' \in Int /\ Sig \in Int /\ Sig' <= Sig
  <2>1. /\ rdNext \in Nat /\ headerLen \in Nat /\ contentLen \in Nat /\ paddingLen \in Nat
        /\ Tope \in Nat /\ rdNext <= Tope
    BY NumerosLector DEF IInv
  <2>2. Tope' = rdNext
    BY <1>1, <2>1 DEF Tope
  <2> QED BY <1>1, <2>1, <2>2 DEF Sig
<1>6. InvEscrito' /\ InvTipo'
  BY <1>1, <1>2, <1>4 DEF InvEspera, InvEscrito, InvTipo
<1>7. InvBegin'
  BY <1>1, <1>2, <1>3 DEF InvEspera, InvBegin
<1> SUFFICES ASSUME Esperable PROVE InvGuion'
  BY <1>3, <1>6, <1>7 DEF InvEspera
<1>8. InvServidos'
  BY <1>1, <1>2, <1>3 DEF InvEspera, InvGuion, InvServidos
<1>9. InvTurno'
  BY <1>1, <1>2, <1>3 DEF InvEspera, InvGuion, InvTurno
<1>10. InvAntes' /\ InvParams'
  BY <1>1 DEF InvAntes, InvParams
<1>11. InvPaso'
  <2> SUFFICES ASSUME act # 0, isBeginProcessed => Limpio, NEW k \in Indices, act < k
               PROVE  Sig' <= Regs[k].ini
    BY <1>1, <1>4 DEF InvPaso
  <2>1. Sig <= Regs[k].ini
    BY <1>1, <1>2 DEF InvEspera, InvGuion, InvPaso
  <2> QED BY <1>5, <2>1, EnOrden DEF IInv
<1>12. InvQueda'
  BY <1>1, <1>2, <1>4 DEF InvEspera, InvGuion, InvQueda
<1> QED
  BY <1>8, <1>9, <1>10, <1>11, <1>12 DEF InvGuion

\* FCGI_GET_VALUES has been answered, or cannot be.
LEMMA ValoresEspera ==
  ASSUME IInv, InvEntrega, InvEspera, Valores
  PROVE  InvEspera'
<1>1. /\ marco = "valores" /\ isClosed /\ marco' = "no" /\ pc = "vuelve" /\ pc' \in {"vuelve", "llena"}
      /\ UNCHANGED <<con, type, act, headerLen, contentLen, paddingLen, rdNext, stop, buffStop, peticion>>
      /\ \/ ~error /\ resp' = resp \cup {act} /\ isClosed' = FALSE /\ pc' = "llena" /\ UNCHANGED error
         \/ error' = TRUE /\ UNCHANGED <<resp, isClosed, pc>>
  BY DEF Valores
<1>2. Leido /\ Leido' /\ EnLector /\ EnLector'
  BY <1>1 DEF Leido, EnLector
<1>3. resp' = resp \cup {act} => act \notin Finales \/ resp' = resp
  BY <1>1 DEF InvEntrega, InvCuerpo, Leyendo, Finales
<1>4. /\ Empiezan' = Empiezan /\ Finales' = Finales /\ (Guarda' <=> Guarda) /\ (Esperable' <=> Esperable)
      /\ \A b, k : Comienza(b, k)' <=> Comienza(b, k)
      /\ \A e, b, k : FinDeParams(e, b, k)' <=> FinDeParams(e, b, k)
      /\ \A k : Proximo(k)' <=> Proximo(k)
      /\ Finales' \cap resp' = Finales \cap resp
  <2>1. \A s \in Finales : s \in resp' <=> s \in resp
    BY <1>1, <1>3
  <2> QED BY <1>1, <2>1, GuionIgual, ProximoIgual
<1>5. Esperados' \subseteq Esperados /\ (Limpio' <=> Limpio)
  BY <1>1, PeticionIgual DEF Esperados
<1>6. Sig' = Sig
  BY <1>1 DEF Sig, Tope
<1>7. InvEscrito'
  BY <1>1, <1>2, <1>5 DEF InvEspera, InvEscrito
<1>8. InvTipo'
  <2>1. isBeginProcessed' <=> type' # "BEGIN"
    BY <1>1, <1>2 DEF InvEspera, InvTipo
  <2>2. CASE ~error' /\ pc' = "llena"
    BY <1>1, <2>1, <2>2 DEF InvTipo
  <2>3. CASE isClosed' /\ pc' = "vuelve"
    BY <1>1, <2>1, <2>3 DEF InvTipo
  <2>4. (~error' /\ pc' = "llena") \/ (isClosed' /\ pc' = "vuelve")
    <3>1. CASE error' = TRUE /\ UNCHANGED <<resp, isClosed, pc>>
      BY <1>1, <3>1
    <3> QED BY <1>1, <3>1
  <2> QED BY <2>2, <2>3, <2>4
<1>9. InvBegin'
  BY <1>1, <1>2, <1>4 DEF InvEspera, InvBegin
<1> SUFFICES ASSUME Esperable PROVE InvGuion'
  BY <1>4, <1>7, <1>8, <1>9 DEF InvEspera
<1>10. InvServidos'
  BY <1>1, <1>2, <1>4 DEF InvEspera, InvGuion, InvServidos
<1>11. InvTurno'
  BY <1>1, <1>2, <1>4 DEF InvEspera, InvGuion, InvTurno
<1>12. InvAntes'
  BY <1>1, <1>2, <1>4, <1>6 DEF InvEspera, InvGuion, InvAntes
<1>13. InvParams'
  <2> SUFFICES ASSUME type = "PARAMS", ~error', NEW k \in Indices, NEW b \in Indices, Proximo(k), Comienza(b, k)
               PROVE  \E e \in Indices : FinDeParams(e, b, k)' /\ Sig' <= Regs[e].ini
    BY <1>1, <1>4 DEF InvParams
  <2>1. PICK e \in Indices : FinDeParams(e, b, k) /\ Sig <= Regs[e].ini
    BY <1>1, <1>2 DEF InvEspera, InvGuion, InvParams
  <2> QED BY <1>4, <1>6, <2>1
<1>14. InvPaso'
  <2> SUFFICES ASSUME act # 0, isBeginProcessed => Limpio, error' /\ isClosed' => type = "PARAMS",
                      NEW k \in Indices, act < k
               PROVE  Sig <= Regs[k].ini
    BY <1>1, <1>5, <1>6 DEF InvPaso
  <2>1. error => type = "PARAMS"
    BY <1>1
  <2> QED BY <1>1, <1>2, <2>1 DEF InvEspera, InvGuion, InvPaso
<1>15. InvQueda'
  <2> SUFFICES ASSUME act \in Esperados'
               PROVE  \/ Regs[act].tipo = "GET_VALUES" \/ Escrito' = Corte
                      \/ type = "BEGIN" /\ error'
                      \/ type = "STDIN" /\ isClosed'
    BY <1>1, <1>2 DEF InvQueda
  <2>1. UNCHANGED <<resp, isClosed>> /\ error'
    BY <1>1 DEF Esperados
  <2>2. Esperados' = Esperados /\ Escrito' = Escrito
    BY <1>1, <2>1 DEF Esperados, Escrito
  <2> QED BY <1>1, <1>2, <2>1, <2>2 DEF InvEspera, InvGuion, InvQueda
<1> QED
  BY <1>10, <1>11, <1>12, <1>13, <1>14, <1>15 DEF InvGuion

\* getIn has read the input, or as much as it could.
LEMMA FinEntradaEspera ==
  ASSUME IInv, InvEntrega, InvEspera, FinEntrada
  PROVE  InvEspera'
<1>1. /\ pc = "vuelve" /\ marco = "no" /\ type = "STDIN" /\ pc' \in {"sirve", "abandona"}
      /\ UNCHANGED <<con, resp, type, marco, act, rdNext, buffStop, error, peticion>>
  BY DEF FinEntrada
<1>2. Leido /\ Leido' /\ ~EnLector'
  BY <1>1 DEF Leido, EnLector
<1>3. /\ Empiezan' = Empiezan /\ Finales' = Finales /\ (Guarda' <=> Guarda) /\ (Esperable' <=> Esperable)
      /\ \A b, k : Comienza(b, k)' <=> Comienza(b, k)
      /\ \A k : Proximo(k)' <=> Proximo(k)
  BY <1>1, GuionIgual, ProximoIgual
<1>4. Esperados' = Esperados
  BY <1>1 DEF Esperados
<1>5. InvEscrito' /\ InvTipo'
  BY <1>1, <1>2, <1>4 DEF InvEspera, InvEscrito, InvTipo
<1>6. InvBegin'
  BY <1>1, <1>2, <1>3 DEF InvEspera, InvBegin
<1> SUFFICES ASSUME Esperable PROVE InvGuion'
  BY <1>3, <1>5, <1>6 DEF InvEspera
<1>7. InvServidos' /\ InvTurno'
  BY <1>1, <1>2, <1>3 DEF InvEspera, InvGuion, InvServidos, InvTurno
<1>8. InvAntes' /\ InvParams' /\ InvPaso' /\ InvQueda'
  BY <1>2 DEF InvAntes, InvParams, InvPaso, InvQueda
<1> QED
  BY <1>7, <1>8 DEF InvGuion

\* A kept connection: the end of input at which the server waits is answered,
\* and the beginning of the next request has not been read.
LEMMA MantieneEspera ==
  ASSUME IInv, InvEntrega, InvEspera, Mantiene
  PROVE  InvEspera'
<1> DEFINE M == {k \in Esperados : Regs[k].tipo = "STDIN" /\ \A j \in Esperados : k <= j}
<1>1. /\ pc \in {"sirve", "abandona"} /\ keepConnection /\ ~error
      /\ pc' = "llena" /\ ~isBeginProcessed' /\ resp' = resp \cup M
      /\ rdNext' = buffStop /\ stop' = buffStop /\ buffStop' = buffStop
      /\ type' = "BEGIN" /\ marco' = "no" /\ act' = 0
      /\ headerLen' = 0 /\ contentLen' = 0 /\ paddingLen' = 0 /\ ~isClosed' /\ ~error'
      /\ con' = con /\ requestId' = requestId
  BY DEF Mantiene, NewReader
<1>2. Leido /\ Leido' /\ type # "BEGIN"
  BY <1>1 DEF Leido, InvEspera, InvTipo
<1>3. /\ Empiezan' = Empiezan /\ Finales' = Finales /\ (Guarda' <=> Guarda) /\ (Esperable' <=> Esperable)
      /\ \A b, k : Comienza(b, k)' <=> Comienza(b, k)
  BY <1>1, GuionIgual
<1>4. Esperados' \subseteq Esperados
  BY <1>1 DEF Esperados
<1>5. Guarda /\ inicio \in Empiezan /\ Regs[inicio].ini + HeaderLen <= rdNext
  BY <1>1, <1>2 DEF InvEspera, InvBegin
<1>6. /\ buffStop \in Nat /\ rdNext \in Nat /\ rdNext <= buffStop /\ HeaderLen \in Nat
      /\ \A j \in Indices : j \in Nat \ {0} /\ Regs[j].ini \in Nat /\ Regs[j].fin \in Nat
  BY EnOrden, NumerosLector DEF IInv
<1>7. Sig' = buffStop
  <2>1. Tope' = buffStop
    BY <1>1 DEF Tope
  <2> QED BY <1>1, <1>6, <2>1 DEF Sig
<1>8. InvEscrito' /\ InvTipo' /\ InvBegin'
  BY <1>1, <1>2, <1>4 DEF InvEspera, InvEscrito, InvTipo, InvBegin
<1> SUFFICES ASSUME Esperable PROVE InvGuion'
  BY <1>3, <1>8 DEF InvEspera
<1>9. \A s \in Finales : s \in Indices /\ (s \in resp \/ s \in Esperados)
  BY DEF Finales, Esperados
<1>10. ASSUME NEW s \in Finales, s \in resp, NEW j \in Empiezan, j < s
       PROVE  Regs[j].ini + HeaderLen <= rdNext
  BY <1>2, <1>10 DEF InvEspera, InvGuion, InvServidos
<1>11. ASSUME NEW s \in Finales, s \in M, s \notin resp, NEW j \in Empiezan, j < s
       PROVE  Regs[j].ini + HeaderLen <= rdNext
  <2>1. s \in Indices /\ j \in Indices /\ \A i \in Esperados : s <= i
    BY <1>9, <1>11 DEF Empiezan
  <2>2. Proximo(s)
    <3>1. ASSUME NEW i \in Finales, i < s PROVE i \in resp
      <4>1. i \in Indices /\ (i \in resp \/ i \in Esperados)
        BY <1>9
      <4>2. ~(s <= i)
        BY <1>6, <2>1, <3>1, <4>1
      <4> QED BY <2>1, <4>1, <4>2
    <3> QED BY <1>11, <3>1 DEF Proximo
  <2>3. PICK b \in Indices : Comienza(b, s)
    <3>1. Regs[s].espera /\ Regs[s].id # 0 /\ s \notin Empiezan
      BY DEF Finales, Empiezan
    <3> QED BY <2>1, <3>1 DEF Esperable
  <2>4. inicio = b
    BY <1>2, <2>1, <2>2, <2>3 DEF InvEspera, InvGuion, InvTurno
  <2>5. CASE j = b
    BY <1>5, <2>4, <2>5
  <2>6. CASE j # b
    <3>1. PICK i \in Finales : j < i /\ i < b
      BY <1>5, <1>11, <2>3, <2>6 DEF Comienza
    <3>2. i \in Nat /\ b \in Nat /\ s \in Nat /\ b < s
      BY <1>6, <1>9, <2>1, <2>3 DEF Comienza
    <3>3. i \in resp
      BY <2>2, <3>1, <3>2 DEF Proximo
    <3> QED BY <1>10, <3>1, <3>3
  <2> QED BY <2>5, <2>6
<1>12. InvServidos'
  <2> SUFFICES ASSUME NEW s \in Finales, s \in resp \cup M, NEW j \in Empiezan, j < s
               PROVE  Regs[j].ini + HeaderLen <= buffStop
    BY <1>1, <1>3, <1>5 DEF InvServidos
  <2>1. Regs[j].ini + HeaderLen <= rdNext
    BY <1>10, <1>11
  <2> QED BY <1>6, <2>1 DEF Empiezan
<1>13. InvTurno' /\ InvParams' /\ InvPaso'
  BY <1>1 DEF InvTurno, InvParams, InvPaso
<1>14. InvAntes'
  <2> SUFFICES ASSUME NEW k \in Indices, NEW b \in Indices, Proximo(k)', Comienza(b, k)
               PROVE  requestId = Regs[k].id \/ buffStop <= Regs[b].ini
    BY <1>1, <1>3, <1>5, <1>7 DEF InvAntes
  <2>1. k \in Finales /\ k \notin resp \cup M /\ \A s \in Finales : s < k => s \in resp \cup M
    BY <1>1, <1>3 DEF Proximo
  <2>2. CASE Proximo(k)
    BY <1>2, <2>2 DEF InvEspera, InvGuion, InvTurno
  <2>3. CASE ~Proximo(k)
    <3>1. PICK s \in Finales : s < k /\ s \notin resp /\ s \in M
      BY <2>1, <2>3 DEF Proximo
    <3>2. s \in Indices /\ s < b
      <4>1. s < b \/ k <= s
        BY <3>1 DEF Comienza
      <4>2. s \in Indices
        BY <1>9
      <4> QED BY <1>6, <3>1, <4>1, <4>2
    <3>3. buffStop <= Regs[s].fin
      BY <1>2, <3>1 DEF InvEspera, InvEscrito
    <3>4. Regs[s].fin <= Regs[b].ini
      BY <3>2, EnOrden DEF IInv
    <3> QED BY <1>6, <3>2, <3>3, <3>4
  <2> QED BY <2>2, <2>3
<1>15. InvQueda'
  BY <1>1, <1>3, <1>4, <1>6 DEF InvQueda, Esperados
<1> QED
  BY <1>12, <1>13, <1>14, <1>15 DEF InvGuion

\* SIGUSR1 may end a read.
LEMMA Usr1Espera ==
  ASSUME IInv, InvEntrega, InvEspera, Usr1
  PROVE  InvEspera'
<1>1. UNCHANGED <<con, resp, type, registro, buffer, peticion>>
  BY DEF Usr1
<1>2. Sig' = Sig /\ Esperados' = Esperados /\ Escrito' = Escrito /\ (Limpio' <=> Limpio)
  BY <1>1, PeticionIgual DEF Sig, Tope, Esperados, Escrito
<1>3. CASE Llena /\ Falla
  <2>1. /\ EnLector /\ EnLector' /\ ~isClosed /\ rdNext' \in Nat /\ rdNext <= rdNext'
        /\ \A k \in Esperados : buffStop' <= Regs[k].fin
    <3>1. rdNext \in Nat
      BY NumerosLector DEF IInv
    <3> QED BY <1>1, <1>3, <3>1 DEF EnLector, Leido, Falla, InvEntrega, InvReposo, InvEspera, InvEscrito
  <2> QED BY <1>1, <1>2, <1>3, <2>1, AvanzaEspera DEF Falla
<1>4. CASE pc' \notin {"llena", "vuelve", "sirve", "abandona"}
  BY <1>4, FueraEspera
<1>5. CASE UNCHANGED <<pc, isClosed, error>>
  BY <1>1, <1>5, IgualEspera
<1> QED
  BY <1>3, <1>4, <1>5 DEF Usr1

\* Every step of the launcher, and the signal.
LEMMA EsperaPaso == IInv /\ InvEntrega /\ InvEspera /\ [Next]_vars => InvEspera'
<1> SUFFICES ASSUME IInv, InvEntrega, InvEspera, [Next]_vars PROVE InvEspera'
  OBVIOUS
<1>1. CASE OS_Accept \/ AcceptFalla
  <2>1. CASE Keeper
    <3>1. TypeOK'
      BY <2>1, AcceptIInv DEF IInv
    <3> QED BY <2>1, <3>1, LlegaEspera DEF Keeper, NewReader, Arranca
  <2>2. CASE MiraAviso \/ EntraAccept \/ Accept \/ AcceptFalla \/ Descarta
    BY <2>2, FueraEspera DEF MiraAviso, EntraAccept, Accept, AcceptFalla, Descarta
  <2> QED BY <1>1, <2>1, <2>2 DEF OS_Accept
<1>2. CASE FillBuffProc
  BY <1>2, MismoRegistro, MalaEspera, HeaderEspera DEF FillBuffProc, ProcessHeader
<1>3. CASE Llamadores
  <2>1. CASE RolDesconocido \/ CuerpoCorto \/ SinPeticion \/ ParamsCortados
    BY <2>1, FueraEspera DEF RolDesconocido, CuerpoCorto, SinPeticion, ParamsCortados, TryAgain
  <2> QED
    BY <1>3, <2>1, MismoRegistro, EmpiezaEspera, FinParamsEspera, ValoresEspera, FinEntradaEspera DEF Llamadores
<1>4. CASE Finish
  <2>1. CASE Cierra
    BY <2>1, FueraEspera DEF Cierra, TryAgain
  <2> QED BY <1>4, <2>1, MantieneEspera DEF Finish
<1>5. CASE Usr1
  BY <1>5, Usr1Espera
<1>6. CASE UNCHANGED vars
  BY <1>6, IgualEspera
<1> QED
  BY <1>1, <1>2, <1>3, <1>4, <1>5, <1>6 DEF Next, Biblioteca

\* Every reachable state has it.
THEOREM EsperaInvariante == Spec => [](IInv /\ InvEntrega /\ InvEspera)
<1>1. Init => InvEspera
  BY DEF Init, InvEspera, InvEscrito, InvTipo, InvBegin, InvGuion, InvServidos, InvTurno, InvAntes, InvParams,
     InvPaso, InvQueda, Leido, EnLector
<1> QED
  BY <1>1, EsperaPaso, EntregaInvariante, PTL DEF Spec

\* A launcher that waits for a server that waits has read the header of the
\* record at which it waits, and that is a FCGI_GET_VALUES.
LEMMA SoloEnValores ==
  ASSUME IInv, InvEntrega, InvEspera, isBeginProcessed => Limpio, Esperable
  PROVE  SoloEsperaValores
<1> SUFFICES ASSUME EsperaServidor, act # 0, NEW k \in Esperados, Regs[k].fin = Escrito
             PROVE  Regs[k].tipo = "GET_VALUES"
  BY DEF SoloEsperaValores
<1>1. /\ pc = "llena" /\ rdNext = buffStop /\ buffStop = Escrito /\ buffStop < Corte
      /\ ~isClosed /\ stop <= rdNext
  BY DEF EsperaServidor, InvEntrega, InvReposo
<1>2. Leido /\ EnLector /\ (error => type = "STDIN")
  BY <1>1 DEF Leido, EnLector, InvEspera, InvTipo
<1>3. k \in Indices /\ act \in Indices /\ act <= k
  BY <1>2 DEF Esperados, InvEspera, InvEscrito, InvEntrega, InvReposo
<1>4. /\ k \in Nat /\ act \in Nat /\ Corte \in Nat
      /\ Regs[k].ini \in Nat /\ Regs[k].cont \in Nat /\ Regs[k].pad \in Nat
      /\ Regs[k].fin = Regs[k].ini + HeaderLen + Regs[k].cont + Regs[k].pad
      /\ rdNext \in Nat /\ headerLen \in Nat /\ contentLen \in Nat /\ paddingLen \in Nat
      /\ headerLen < HeaderLen /\ HeaderLen \in Nat /\ Tope = rdNext
  BY <1>1, <1>3, EnOrden, CorteNat, NumerosLector DEF IInv
<1>5. CASE act = k
  BY <1>1, <1>2, <1>4, <1>5 DEF InvEspera, InvGuion, InvQueda
<1>6. CASE act < k
  <2>1. Sig <= Regs[k].ini
    BY <1>1, <1>2, <1>3, <1>6 DEF InvEspera, InvGuion, InvPaso
  <2> QED BY <1>1, <1>4, <2>1 DEF Sig
<1> QED
  BY <1>3, <1>4, <1>5, <1>6

\* For every server that waits only where an answer is due, and connections
\* that libfcgi reads well: the launcher and the server wait for each other at
\* FCGI_GET_VALUES and nowhere else (FillBuffProc, ProcessHeader, NewReader).
THEOREM Espera == Spec => []((isBeginProcessed => Limpio) /\ Esperable => SoloEsperaValores)
<1>1. IInv /\ InvEntrega /\ InvEspera => ((isBeginProcessed => Limpio) /\ Esperable => SoloEsperaValores)
  BY SoloEnValores
<1> QED
  BY <1>1, EsperaInvariante, PTL

-----------------------------------------------------------------------------
(* The reading of a connection goes on and comes to its end: the safety half *)
(* of AvisoTermina.                                                          *)

\* Nothing has been read that the server has not written, and FillBuffProc
\* returns only with something to take, at an end or with an error.
InvLlega ==
  /\ Leido => buffStop <= Escrito
  /\ pc = "vuelve" /\ ~isClosed => rdNext < stop \/ (marco = "cuerpo" /\ leidos = BeginLen)

\* The one place where the launcher can be stopped: EsperaServidor.
NoSeDetiene ==
  /\ Llena /\ rdNext = buffStop /\ ~EsperaServidor => buffStop < Escrito \/ buffStop >= Corte
  /\ pc = "vuelve" /\ ~isClosed => rdNext < stop \/ (marco = "cuerpo" /\ leidos = BeginLen)

\* What a request goes through between two bytes: the body of BEGIN, the
\* parameters, the input, the answer and, on a kept connection, the next BEGIN.
Tramo ==
  IF pc \in {"sirve", "abandona"} THEN 2
  ELSE IF marco = "cuerpo" THEN 5
  ELSE IF type = "PARAMS" THEN 4
  ELSE IF type = "STDIN" THEN 3 ELSE 1

\* A step after which less of the connection is left: bytes to receive, bytes
\* to take, stretches of the request, a body inside a record, or the return of
\* FillBuffProc; the first difference decides.
LeeMas == buffStop < buffStop' /\ buffStop' <= Corte
TomaMas == buffStop' = buffStop /\ rdNext < rdNext' /\ rdNext' <= buffStop
PasaTramo ==
  /\ UNCHANGED <<rdNext, buffStop>>
  /\ \/ Tramo' < Tramo
     \/ Tramo' = Tramo /\ marco = "valores" /\ marco' # "valores"
     \/ Tramo' = Tramo /\ marco' = marco /\ pc = "llena" /\ pc' = "vuelve"
QuedaMenos == con' = con /\ (LeeMas \/ TomaMas \/ PasaTramo)

\* A signal that changes nothing of the reading.
SoloSenyal == senyales' > senyales /\ UNCHANGED <<pc, Lector>>

\* What the server has written ends where it closes, or at a record that waits.
EnEscrito ==
  /\ Escrito \in Nat /\ Escrito <= Corte
  /\ Escrito = Corte \/ \E k \in Esperados : Escrito = Regs[k].fin
  /\ \A k \in Esperados : Escrito <= Regs[k].fin

\* It does, in every state.
LEMMA EscritoEs == TypeOK => EnEscrito
<1> SUFFICES ASSUME TypeOK PROVE EnEscrito
  OBVIOUS
<1> USE DEF EnEscrito
<1>1. Escrito \in Nat /\ Corte \in Nat /\ \A k \in Esperados : Escrito <= Regs[k].fin
  BY CotaEscrito, CorteNat
<1>2. CASE \A k \in Esperados : Corte <= Regs[k].fin
  <2>1. Escrito = Corte
    BY <1>2 DEF Escrito
  <2> QED BY <1>1, <2>1
<1>3. CASE ~\A k \in Esperados : Corte <= Regs[k].fin
  <2>1. PICK k \in Esperados : Escrito = Regs[k].fin
    BY <1>3, PrimerEsperado DEF Escrito
  <2>2. PICK j \in Esperados : ~(Corte <= Regs[j].fin)
    BY <1>3
  <2>3. Regs[j].fin \in Nat /\ Escrito <= Regs[j].fin
    BY <1>1, EnOrden DEF Esperados
  <2> QED BY <1>1, <2>1, <2>2, <2>3
<1> QED BY <1>2, <1>3

\* The same, after a step.
LEMMA EscritoSera == TypeOK' => EnEscrito'
BY EscritoEs, PTL

\* An answer lets the server write more, and never less.
LEMMA EscritoCrece ==
  ASSUME TypeOK, TypeOK', con' = con, resp \subseteq resp'
  PROVE  Escrito <= Escrito'
<1> USE DEF EnEscrito
<1>1. Esperados' \subseteq Esperados /\ Corte' = Corte
  BY DEF Esperados
<1>2. Escrito \in Nat /\ Escrito' \in Nat
  BY EscritoEs, EscritoSera
<1>3. CASE Escrito' = Corte'
  BY <1>1, <1>2, <1>3, EscritoEs
<1>4. CASE \E k \in Esperados' : Escrito' = Guiones[con'].regs[k].fin
  <2>1. PICK k \in Esperados' : Escrito' = Regs[k].fin
    BY <1>4
  <2> QED BY <1>1, <2>1, EscritoEs
<1> QED BY <1>3, <1>4, EscritoSera

\* What stays of what has been read, whatever is answered.
LEMMA LlegaIgual ==
  ASSUME IInv, IInv', InvLlega, Leido, con' = con, resp \subseteq resp', buffStop' = buffStop
  PROVE  buffStop' <= Escrito'
<1>1. Escrito <= Escrito' /\ Escrito \in Nat /\ Escrito' \in Nat
  BY EscritoCrece, EscritoEs, EscritoSera DEF IInv, EnEscrito
<1>2. buffStop <= Escrito /\ buffStop \in Nat
  BY DEF InvLlega, IInv, TypeOK
<1> QED BY <1>1, <1>2

\* What ProcessHeader does, whatever the record: it takes the header, answers
\* or not, and returns only at an end or with an error.
LEMMA LaCabeceraHace ==
  ASSUME ProcessHeader
  PROVE  Cabecera /\ resp \subseteq resp' /\ (pc' = "vuelve" => isClosed')
<1>1. PICK k : \/ BeginMal(k) \/ BeginOtro(k) \/ BeginNuevo(k) \/ GetValues(k) \/ Desconocido(k)
               \/ Ajeno(k) \/ Inesperado(k) \/ Flujo(k)
  BY DEF ProcessHeader
<1>2. CabeceraDe(k)
  BY <1>1 DEF BeginMal, BeginOtro, BeginNuevo, BeginBien, GetValues, Desconocido, DeFlujo, Ajeno, Inesperado,
     Flujo
<1>3. Cabecera /\ pc = "llena"
  BY <1>2 DEF CabeceraDe, Cabecera, EnCabecera
<1>4. resp' = resp \/ Responde(k)
  BY <1>1 DEF BeginMal, BeginOtro, BeginNuevo, GetValues, Desconocido, Ajeno, Inesperado, Flujo, NoResponde
<1>5. Falla \/ Sigue \/ Flujo(k)
  BY <1>1 DEF BeginMal, BeginOtro, BeginNuevo, GetValues, Desconocido, Ajeno, Inesperado, Responde, NoResponde
<1>6. pc' = "vuelve" => isClosed'
  BY <1>3, <1>5 DEF Falla, Sigue, Flujo
<1> QED BY <1>3, <1>4, <1>6 DEF Responde

\* Each step of FillBuffProc reads, takes or returns.
LEMMA LlenaAvanza ==
  ASSUME IInv, InvLlega, FillBuffProc
  PROVE  QuedaMenos
<1> USE DEF QuedaMenos
<1>1. /\ pc = "llena" /\ con' = con /\ type' = type
      /\ rdNext \in Nat /\ buffStop \in Nat /\ contentLen \in Nat /\ paddingLen \in Nat
      /\ headerLen \in Nat /\ headerLen < HeaderLen /\ HeaderLen \in Nat
  <2>1. pc = "llena" /\ con' = con /\ type' = type
    BY LaCabeceraHace DEF FillBuffProc, Lee, LeeFin, Entrega, Salta, Relleno, FinSinRelleno, CabeceraParte,
       CabeceraMala, EnCabecera, Cabecera
  <2> QED BY <2>1, NumerosLector DEF IInv
<1>2. CASE Lee
  <2>1. Escrito <= Corte /\ Escrito \in Nat /\ Corte \in Nat
    BY EscritoEs, CorteNat DEF IInv, EnEscrito
  <2>2. PICK n \in 1..Menor(BuffLen, Escrito - buffStop) : buffStop' = buffStop + n
    BY <1>2 DEF Lee
  <2>3. n \in Nat /\ n >= 1 /\ n <= Escrito - buffStop
    BY <1>1, <2>1, Largos DEF Menor
  <2> QED BY <1>1, <2>1, <2>2, <2>3 DEF LeeMas
<1>3. CASE LeeFin \/ Entrega \/ FinSinRelleno
  <2>1. UNCHANGED <<rdNext, buffStop, marco, type>> /\ pc' = "vuelve"
    BY <1>3 DEF LeeFin, Falla, Entrega, FinSinRelleno, FinDeRegistro
  <2> QED BY <1>1, <2>1 DEF PasaTramo, Tramo
<1>4. CASE Salta
  <2>1. PICK n \in Nat : n = Menor(contentLen, buffStop - rdNext) /\ rdNext' = rdNext + n
    BY <1>1, <1>4 DEF Salta, Menor
  <2>2. n >= 1 /\ n <= buffStop - rdNext /\ buffStop' = buffStop
    BY <1>1, <1>4, <2>1 DEF Salta, Menor
  <2> QED BY <1>1, <2>1, <2>2 DEF TomaMas
<1>5. CASE Relleno
  <2>1. PICK n \in Nat : n = Menor(paddingLen, buffStop - rdNext) /\ rdNext' = rdNext + n
    BY <1>1, <1>5 DEF Relleno, Menor
  <2>2. n >= 1 /\ n <= buffStop - rdNext /\ buffStop' = buffStop
    BY <1>1, <1>5, <2>1 DEF Relleno, Menor
  <2> QED BY <1>1, <2>1, <2>2 DEF TomaMas
<1>6. CASE CabeceraParte
  BY <1>1, <1>6 DEF CabeceraParte, EnCabecera, TomaMas
<1>7. ASSUME Cabecera PROVE QuedaMenos
  BY <1>1, <1>7 DEF Cabecera, FinCabecera, TomaMas
<1>8. CASE CabeceraMala \/ ProcessHeader
  BY <1>7, <1>8, LaCabeceraHace DEF CabeceraMala
<1> QED BY <1>2, <1>3, <1>4, <1>5, <1>6, <1>8 DEF FillBuffProc

\* Each step of its callers takes, goes on in the request or ends with the
\* connection.
LEMMA LlamadoresAvanzan ==
  ASSUME IInv, InvEntrega, InvEspera, Llamadores \/ Finish
  PROVE  QuedaMenos \/ pc' = "acepta"
<1> USE DEF QuedaMenos
<1>1. /\ rdNext \in Nat /\ buffStop \in Nat /\ stop \in Nat /\ rdNext <= buffStop /\ stop <= buffStop
      /\ type \in {"BEGIN", "PARAMS", "STDIN"} /\ marco \in {"no", "cuerpo", "valores"}
  BY NumerosLector DEF IInv, TypeOK
<1>2. CASE RolDesconocido \/ CuerpoCorto \/ SinPeticion \/ ParamsCortados \/ Cierra
  BY <1>2 DEF RolDesconocido, CuerpoCorto, SinPeticion, ParamsCortados, Cierra, TryAgain
<1>3. CASE Consume
  <2>1. rdNext < stop /\ rdNext' = stop /\ UNCHANGED <<con, buffStop>>
    BY <1>3 DEF Consume
  <2> QED BY <1>1, <2>1 DEF TomaMas
<1>4. CASE Empieza
  <2>1. /\ UNCHANGED <<con, rdNext, buffStop>> /\ pc = "vuelve" /\ pc' = "llena"
        /\ marco = "cuerpo" /\ marco' = "no" /\ type' = "PARAMS"
    BY <1>4 DEF Empieza, Begin, SetReaderType
  <2> QED BY <2>1 DEF PasaTramo, Tramo
<1>5. CASE Valores
  <2>1. /\ UNCHANGED <<con, rdNext, buffStop, type>> /\ pc = "vuelve" /\ pc' \in {"vuelve", "llena"}
        /\ marco = "valores" /\ marco' = "no"
    BY <1>5 DEF Valores
  <2> QED BY <2>1 DEF PasaTramo, Tramo
<1>6. CASE FinParams
  <2>1. /\ UNCHANGED <<con, rdNext, buffStop, marco>> /\ pc = "vuelve" /\ pc' \in {"llena", "abandona"}
        /\ type = "PARAMS" /\ type' = "STDIN" /\ marco = "no"
    BY <1>6 DEF FinParams, SetReaderType
  <2> QED BY <2>1 DEF PasaTramo, Tramo
<1>7. CASE FinEntrada
  <2>1. /\ UNCHANGED <<con, rdNext, buffStop, marco, type>> /\ pc = "vuelve" /\ pc' \in {"sirve", "abandona"}
        /\ type = "STDIN" /\ marco = "no"
    BY <1>7 DEF FinEntrada
  <2> QED BY <2>1 DEF PasaTramo, Tramo
<1>8. CASE Mantiene
  <2>1. /\ UNCHANGED <<con, buffStop>> /\ rdNext' = buffStop /\ pc \in {"sirve", "abandona"} /\ pc' = "llena"
        /\ marco' = "no" /\ type' = "BEGIN"
    BY <1>8 DEF Mantiene, NewReader
  <2>2. CASE rdNext < buffStop
    BY <1>1, <2>1, <2>2 DEF TomaMas
  <2>3. CASE rdNext = buffStop
    BY <2>1, <2>3 DEF PasaTramo, Tramo
  <2> QED BY <1>1, <2>2, <2>3
<1> QED
  BY <1>2, <1>3, <1>4, <1>5, <1>6, <1>7, <1>8 DEF Llamadores, Finish

\* SIGUSR1 ends a read, or changes nothing of it.
LEMMA Usr1Avanza ==
  ASSUME IInv, Leido, Usr1
  PROVE  QuedaMenos \/ SoloSenyal
<1>1. senyales' > senyales /\ UNCHANGED <<con, resp, type, registro, buffer, peticion, entregado>>
  BY DEF Usr1, IInv, TypeOK
<1>2. CASE UNCHANGED <<pc, isClosed, error>>
  BY <1>1, <1>2 DEF SoloSenyal
<1>3. CASE Llena /\ Falla
  <2>1. pc = "llena" /\ pc' = "vuelve"
    BY <1>3 DEF Falla
  <2> QED BY <1>1, <2>1 DEF QuedaMenos, PasaTramo, Tramo
<1> QED BY <1>2, <1>3 DEF Usr1, Leido

\* Every step of the launcher that reads a connection.
LEMMA LectorPaso ==
  ASSUME IInv, InvEntrega, InvEspera, InvLlega, Leido, Next
  PROVE  QuedaMenos \/ pc' = "acepta" \/ SoloSenyal
<1>1. ~OS_Accept /\ ~AcceptFalla
  BY DEF Leido, OS_Accept, AcceptFalla, MiraAviso, EntraAccept, Accept, Keeper, Descarta
<1> QED BY <1>1, LlenaAvanza, LlamadoresAvanzan, Usr1Avanza DEF Next, Biblioteca

\* FillBuffProc returns with something, and has read nothing that was not there.
LEMMA LlegaPaso == IInv /\ InvEntrega /\ InvEspera /\ InvLlega /\ [Next]_vars => InvLlega'
<1> SUFFICES ASSUME IInv, InvEntrega, InvEspera, InvLlega, [Next]_vars PROVE InvLlega'
  OBVIOUS
<1>1. IInv'
  BY NextIInv
<1>2. Escrito \in Nat /\ Escrito' \in Nat /\ buffStop \in Nat
  BY <1>1, EscritoEs, EscritoSera DEF IInv, TypeOK, EnEscrito
<1>3. ASSUME Leido'
      PROVE  buffStop' <= Escrito'
  <2>1. CASE Keeper
    BY <1>2, <2>1 DEF Keeper, NewReader
  <2>2. CASE Lee
    <3>1. Escrito' = Escrito
      BY <2>2 DEF Lee, Escrito, Esperados
    <3>2. PICK n \in 1..Menor(BuffLen, Escrito - buffStop) : buffStop' = buffStop + n
      BY <2>2 DEF Lee
    <3>3. n \in Nat /\ n <= Escrito - buffStop
      BY <1>2, Largos DEF Menor
    <3> QED BY <1>2, <3>1, <3>2, <3>3
  <2>3. CASE Leido /\ con' = con /\ resp \subseteq resp' /\ buffStop' = buffStop
    BY <1>1, <2>3, LlegaIgual
  <2>4. CASE FillBuffProc /\ ~Lee
    <3>1. pc = "llena" /\ con' = con /\ buffStop' = buffStop /\ resp \subseteq resp'
      BY <2>4, LaCabeceraHace DEF FillBuffProc, LeeFin, Entrega, Salta, Relleno, FinSinRelleno,
         CabeceraParte, CabeceraMala, EnCabecera, Cabecera
    <3> QED BY <2>3, <3>1 DEF Leido
  <2>5. CASE Llamadores \/ Finish
    <3>1. ~RolDesconocido /\ ~CuerpoCorto /\ ~SinPeticion /\ ~ParamsCortados /\ ~Cierra
      BY <1>3 DEF Leido, RolDesconocido, CuerpoCorto, SinPeticion, ParamsCortados, Cierra, TryAgain
    <3>2. Leido /\ con' = con /\ buffStop' = buffStop /\ resp \subseteq resp'
      BY <2>5, <3>1 DEF Llamadores, Finish, Consume, Empieza, Begin, SetReaderType, Valores, FinParams,
         FinEntrada, Mantiene, NewReader, Leido
    <3> QED BY <2>3, <3>2
  <2>6. CASE Usr1
    <3>1. Leido /\ UNCHANGED <<con, resp, buffStop>>
      BY <1>3, <2>6 DEF Usr1, Falla, Leido
    <3> QED BY <2>3, <3>1
  <2>7. CASE UNCHANGED vars
    BY <1>3, <2>3, <2>7 DEF Leido
  <2>8. ~MiraAviso /\ ~EntraAccept /\ ~Accept /\ ~AcceptFalla /\ ~Descarta
    BY <1>3 DEF Leido, MiraAviso, EntraAccept, Accept, AcceptFalla, Descarta
  <2> QED
    BY <2>1, <2>2, <2>4, <2>5, <2>6, <2>7, <2>8 DEF Next, Biblioteca, OS_Accept
<1>4. ASSUME pc' = "vuelve", ~isClosed'
      PROVE  rdNext' < stop' \/ (marco' = "cuerpo" /\ leidos' = BeginLen)
  <2>1. CASE Entrega
    <3>1. /\ contentLen \in Nat /\ buffStop \in Nat /\ rdNext \in Nat /\ rdNext < buffStop /\ contentLen > 0
          /\ rdNext' = rdNext /\ stop' = rdNext + Menor(contentLen, buffStop - rdNext)
      BY <2>1, NumerosLector DEF Entrega, IInv
    <3> QED BY <3>1 DEF Menor
  <2>2. CASE Consume
    BY <1>4, <2>2 DEF Consume
  <2>3. CASE FillBuffProc /\ ~Entrega
    BY <1>4, <2>3, LaCabeceraHace DEF FillBuffProc, Lee, LeeFin, Salta, Relleno, FinSinRelleno, FinDeSalto,
       FinDeRegistro, Falla, CabeceraParte, CabeceraMala, EnCabecera
  <2>4. CASE (Llamadores /\ ~Consume) \/ Finish
    BY <1>4, <2>4 DEF Llamadores, Finish, Empieza, RolDesconocido, CuerpoCorto, Valores, SinPeticion,
       FinParams, ParamsCortados, FinEntrada, Cierra, Mantiene, TryAgain
  <2>5. CASE Usr1
    <3>1. UNCHANGED <<registro, buffer>>
      BY <2>5 DEF Usr1
    <3>2. UNCHANGED <<pc, isClosed>>
      BY <1>4, <2>5 DEF Usr1, Falla
    <3> QED BY <1>4, <3>1, <3>2 DEF InvLlega
  <2>6. CASE UNCHANGED vars
    BY <1>4, <2>6 DEF InvLlega
  <2>7. CASE OS_Accept \/ AcceptFalla
    BY <1>4, <2>7 DEF OS_Accept, AcceptFalla, MiraAviso, EntraAccept, Accept, Keeper, Descarta
  <2> QED BY <2>1, <2>2, <2>3, <2>4, <2>5, <2>6, <2>7 DEF Next, Biblioteca
<1> QED BY <1>3, <1>4 DEF InvLlega

\* For every server, buffer and number of signals: the reading of a connection
\* stops nowhere but in a read that the server has left without an answer, and
\* never goes round: each step leaves less of the connection than there was, in
\* an order that cannot go down for ever, or leaves the connection, or is a
\* signal that changes nothing of it.
THEOREM LectorAvanza ==
  Spec => /\ []NoSeDetiene
          /\ [][Leido => QuedaMenos \/ pc' = "acepta" \/ SoloSenyal]_vars
<1>1. Init => InvLlega
  BY DEF Init, InvLlega, Leido
<1>2. Spec => [](IInv /\ InvEntrega /\ InvEspera /\ InvLlega)
  BY <1>1, LlegaPaso, EsperaInvariante, PTL DEF Spec
<1>3. IInv /\ InvLlega => NoSeDetiene
  <2> SUFFICES ASSUME IInv, InvLlega, Llena, ~EsperaServidor, rdNext = buffStop
               PROVE  buffStop < Escrito \/ buffStop >= Corte
    BY DEF NoSeDetiene, InvLlega
  <2>1. buffStop <= Escrito /\ buffStop \in Nat /\ Escrito \in Nat /\ Corte \in Nat
    BY EscritoEs, CorteNat DEF InvLlega, Leido, IInv, TypeOK, EnEscrito
  <2> QED BY <2>1 DEF EsperaServidor
<1>4. IInv /\ InvEntrega /\ InvEspera /\ InvLlega /\ [Next]_vars =>
        [Leido => QuedaMenos \/ pc' = "acepta" \/ SoloSenyal]_vars
  BY LectorPaso
<1> QED BY <1>2, <1>3, <1>4, PTL DEF Spec
=============================================================================
