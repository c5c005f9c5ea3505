-------------------------- MODULE SupervisorProofs --------------------------
(***************************************************************************)
(* Proofs about Supervisor, for any table of sockets, any set of clients   *)
(* and any number of signals: select watches every client, nobody is       *)
(* forgotten or waited for without need, the walk over the sockets goes on *)
(* to its end without passing one by, and no reload is forgotten.          *)
(***************************************************************************)
EXTENDS Supervisor, TLAPS

EnMarcha == {"recibe", "sirve", "envia", "responde", "cierra", "recarga",
             "baja_recarga"}

\* Where the walk is: the listening socket is the only one that accepts, and a
\* client is attended at an open socket.
InvPaso ==
  /\ \A s \in Indices : accion[s] = "ACCEPT_CALL" <=> s = Escucha
  /\ pc = "acepta" => i = Escucha
  /\ pc \in {"acepta", "recibe"} => i \in readmask
  /\ pc \in EnMarcha => i \in Indices /\ accion[i] = "ATTEND_CLIENT"

\* The queue of connections has no client twice.
InvCola == \A a, b \in 1..Len(cola) : cola[a] = cola[b] => a = b

\* The sockets the walk has not come to yet.
PorVer(s) ==
  \/ pc \in {"propaga", "baja", "recorre", "acepta", "recibe"} /\ s <= i
  \/ pc \in EnMarcha /\ s < i

\* What select marked and the walk has not reached is open and still ready.
InvMarca ==
  /\ pc = "select" => readmask \subseteq Abiertos
  /\ ~interrumpido => \A s \in readmask : PorVer(s) => Abierto(s) /\ Listo(s)

IInv == TypeOK /\ VigilaTodos /\ InvPaso /\ CadaClienteSuSocket /\ InvCola /\ InvMarca

\* The program starts there.
LEMMA InitIInv == Init => IInv
<1> SUFFICES ASSUME Init PROVE IInv
  OBVIOUS
<1> USE SupervisorAssumption
<1>1. TypeOK
  BY DEF Init, TypeOK, Indices, Acciones, Peticiones
<1>2. VigilaTodos
  BY DEF Init, VigilaTodos, Abierto, Indices
<1>3. InvPaso
  BY DEF Init, InvPaso, EnMarcha
<1>4. CadaClienteSuSocket
  BY DEF Init, CadaClienteSuSocket, Conectado, EnCola
<1>5. InvCola
  BY DEF Init, InvCola
<1>6. InvMarca
  BY DEF Init, InvMarca
<1> QED BY <1>1, <1>2, <1>3, <1>4, <1>5, <1>6 DEF IInv

\* Type correctness is inductive, with the place of the walk.
LEMMA TypePaso == TypeOK /\ VigilaTodos /\ InvPaso /\ [Next]_vars => TypeOK'
<1> SUFFICES ASSUME TypeOK, VigilaTodos, InvPaso, [Next]_vars PROVE TypeOK'
  OBVIOUS
<1> USE SupervisorAssumption DEF TypeOK, Indices, sockVars, refresco
<1>1. CASE Revisa \/ Select \/ Propaga \/ BajaFlag
  <2>1. CASE Revisa
    BY <2>1 DEF Revisa, Abiertos
  <2>2. CASE Select
    <3>1. pc' \in {"propaga", "recorre"}
      BY <2>2, Zenon DEF Select
    <3>2. readmask' \subseteq Indices
      BY <2>2 DEF Select
    <3>3. i' \in -1..(MAX_OPENED_SOCKETS - 1)
      BY <2>2 DEF Select
    <3> QED BY <2>2, <3>1, <3>2, <3>3 DEF Select
  <2>3. CASE Propaga
    BY <2>3 DEF Propaga
  <2>4. CASE BajaFlag
    BY <2>4 DEF BajaFlag
  <2> QED BY <1>1, <2>1, <2>2, <2>3, <2>4
<1>2. CASE Recorre \/ RecorreFin
  <2>1. CASE Recorre
    <3>1. i' \in Indices /\ pc' \in {"acepta", "recibe"}
      BY <2>1 DEF Recorre, Marcados
    <3> QED BY <2>1, <3>1 DEF Recorre
  <2>2. CASE RecorreFin
    BY <2>2 DEF RecorreFin
  <2> QED BY <1>2, <2>1, <2>2
<1>3. ASSUME NEW n \in Indices, Acepta(n) PROVE TypeOK'
  <2>1. Head(cola) \in Clientes /\ Tail(cola) \in Seq(Clientes)
    BY <1>3 DEF Acepta
  <2>2. i = Escucha
    BY <1>3 DEF Acepta, InvPaso
  <2> QED BY <1>3, <2>1, <2>2 DEF Acepta, Acciones
<1>4. CASE AceptaFuera \/ AceptaFalla
  BY <1>4 DEF AceptaFuera, AceptaFalla
<1>5. CASE Recibe \/ RecibeFalla
  BY <1>5 DEF Recibe, RecibeFalla, Atendido
<1>6. CASE Sirve
  <2>1. pc' \in {"envia", "muerto", "cierra", "recarga", "responde"}
    BY <1>6 DEF Sirve, Destinos, Peticiones
  <2> QED BY <1>6, <2>1 DEF Sirve
<1>7. CASE EnviaLee \/ EnviaFalla \/ Responde
  BY <1>7 DEF EnviaLee, EnviaFalla, Responde
<1>8. CASE Cierra
  <2>1. i \in Indices
    BY <1>8 DEF Cierra, InvPaso, EnMarcha
  <2>2. highest' \in Indices
    <3>1. CASE i = highest
      <4>1. PICK is \in 0..(i - 1) : highest' = is
        BY <1>8, <3>1 DEF Cierra, Baja
      <4> QED BY <2>1, <4>1
    <3>2. CASE i # highest
      BY <1>8, <3>2 DEF Cierra, Baja
    <3> QED BY <3>1, <3>2
  <2>3. /\ accion' \in [Indices -> Acciones]
        /\ enlace' \in [Indices -> Clientes \cup {Nadie}]
        /\ cli' \in [Clientes -> {"fuera", "abierta", "pedida", "cerrada", "rota",
                                 "leida", "acabada"}]
    BY <1>8, <2>1 DEF Cierra, Acciones
  <2>4. i' \in -1..(MAX_OPENED_SOCKETS - 1) /\ pc' = "recorre"
    BY <1>8, <2>1 DEF Cierra
  <2> QED BY <1>8, <2>2, <2>3, <2>4 DEF Cierra, Peticiones
<1>9. CASE Usr2 \/ Usr2EnSelect \/ Term \/ CleanUp
  <2>1. CASE Usr2
    <3>1. tarde' \in BOOLEAN
      BY <2>1, Zenon DEF Usr2
    <3>2. senyales' \in 0..MaxSenyales
      BY <2>1 DEF Usr2, Senyala
    <3> QED BY <2>1, <3>1, <3>2 DEF Usr2
  <2>2. CASE Usr2EnSelect \/ Term
    <3>1. senyales' \in 0..MaxSenyales
      BY <2>2 DEF Usr2EnSelect, Term, Senyala
    <3>2. CASE Usr2EnSelect
      BY <3>1, <3>2 DEF Usr2EnSelect
    <3>3. CASE Term
      BY <3>1, <3>3 DEF Term
    <3> QED BY <2>2, <3>2, <3>3
  <2>3. CASE CleanUp
    BY <2>3 DEF CleanUp, Parando
  <2> QED BY <1>9, <2>1, <2>2, <2>3
<1>10. ASSUME NEW c \in Clientes, Conecta(c) \/ Pide(c) \/ Cuelga(c) \/ Rompe(c)
       PROVE  TypeOK'
  <2>1. CASE Conecta(c)
    <3>1. cola' \in Seq(Clientes)
      BY <2>1 DEF Conecta
    <3> QED BY <2>1, <3>1 DEF Conecta, Hace
  <2>2. CASE Pide(c) \/ Cuelga(c) \/ Rompe(c)
    <3>1. PICK e \in {"pedida", "cerrada", "rota"} :
            Hace(c, e) /\ UNCHANGED cola
      BY <2>2 DEF Pide, Cuelga, Rompe
    <3> QED BY <3>1 DEF Hace
  <2> QED BY <1>10, <2>1, <2>2
<1>11. CASE UNCHANGED vars
  BY <1>11 DEF vars
<1> QED
  BY <1>1, <1>2, <1>3, <1>4, <1>5, <1>6, <1>7, <1>8, <1>9, <1>10, <1>11
     DEF Next, Bucle, AceptaAlgo, Atiende

\* So is highest_sd.
LEMMA VigilaPaso ==
  TypeOK /\ VigilaTodos /\ InvPaso /\ [Next]_vars => VigilaTodos' /\ InvPaso'
<1> SUFFICES ASSUME TypeOK, VigilaTodos, InvPaso, [Next]_vars
             PROVE  VigilaTodos' /\ InvPaso'
  OBVIOUS
<1> USE SupervisorAssumption
    DEF TypeOK, VigilaTodos, InvPaso, EnMarcha, Indices, Abierto, sockVars
<1>1. CASE Revisa \/ Select \/ Propaga \/ BajaFlag
  BY <1>1 DEF Revisa, Select, Propaga, BajaFlag
<1>2. CASE Recorre \/ RecorreFin
  BY <1>2 DEF Recorre, RecorreFin, Marcados, Acciones
<1>3. ASSUME NEW n \in Indices, Acepta(n) PROVE VigilaTodos' /\ InvPaso'
  <2>1. accion[n] = "no" /\ n # Escucha
    BY <1>3 DEF Acepta, EsNuevo, Abiertos
  <2>2. VigilaTodos'
    BY <1>3, <2>1 DEF Acepta
  <2>3. InvPaso'
    BY <1>3, <2>1 DEF Acepta
  <2> QED BY <2>2, <2>3
<1>4. CASE AceptaFuera \/ AceptaFalla
  BY <1>4 DEF AceptaFuera, AceptaFalla
<1>5. CASE Recibe \/ RecibeFalla
  BY <1>5 DEF Recibe, RecibeFalla
<1>6. CASE Sirve
  <2>1. pc' \in {"envia", "muerto", "cierra", "recarga", "responde"}
    BY <1>6 DEF Sirve, Destinos, Peticiones
  <2> QED BY <1>6, <2>1 DEF Sirve
<1>7. CASE EnviaLee \/ EnviaFalla \/ Responde
  BY <1>7 DEF EnviaLee, EnviaFalla, Responde
<1>8. CASE Cierra
  <2>1. i \in Indices /\ i # Escucha /\ accion[Escucha] # "no"
    BY <1>8 DEF Cierra
  <2>2. InvPaso'
    BY <1>8, <2>1 DEF Cierra
  <2>3. CASE i = highest
    <3>1. PICK is \in 0..(i - 1) :
            /\ is = 0 \/ accion[is] # "no"
            /\ \A t \in (is + 1)..(i - 1) : accion[t] = "no"
            /\ highest' = is
      BY <1>8, <2>3 DEF Cierra, Baja
    <3>2. Escucha < i
      BY <2>1, <2>3
    <3>3. Escucha <= is
      BY <3>1, <3>2, <2>1
    <3>4. accion[is] # "no"
      BY <3>1, <3>3, <2>1
    <3> QED BY <1>8, <2>1, <2>2, <2>3, <3>1, <3>4 DEF Cierra
  <2>4. CASE i # highest
    BY <1>8, <2>1, <2>2, <2>4 DEF Cierra, Baja
  <2> QED BY <2>3, <2>4
<1>9. CASE Usr2 \/ Usr2EnSelect \/ Term \/ CleanUp
  BY <1>9 DEF Usr2, Usr2EnSelect, Term, CleanUp, Parando
<1>10. ASSUME NEW c \in Clientes, Conecta(c) \/ Pide(c) \/ Cuelga(c) \/ Rompe(c)
       PROVE  VigilaTodos' /\ InvPaso'
  BY <1>10 DEF Conecta, Pide, Cuelga, Rompe, Hace
<1>11. CASE UNCHANGED vars
  BY <1>11 DEF vars
<1> QED
  BY <1>1, <1>2, <1>3, <1>4, <1>5, <1>6, <1>7, <1>8, <1>9, <1>10, <1>11
     DEF Next, Bucle, AceptaAlgo, Atiende

\* So is the account of the connections.
LEMMA ClientePaso ==
  /\ TypeOK /\ InvPaso /\ CadaClienteSuSocket /\ InvCola /\ [Next]_vars
  => CadaClienteSuSocket' /\ InvCola'
<1> SUFFICES ASSUME TypeOK, InvPaso, CadaClienteSuSocket, InvCola, [Next]_vars
             PROVE  CadaClienteSuSocket' /\ InvCola'
  OBVIOUS
<1> USE SupervisorAssumption DEF Indices, sockVars
<1>1. CASE UNCHANGED <<cola, cli, accion, enlace>>
  BY <1>1 DEF CadaClienteSuSocket, InvCola, EnCola, Conectado
<1>2. CASE Revisa \/ Select \/ Propaga \/ BajaFlag \/ Recorre \/ RecorreFin
  BY <1>1, <1>2 DEF Revisa, Select, Propaga, BajaFlag, Recorre, RecorreFin
<1>3. CASE \/ AceptaFuera \/ AceptaFalla \/ RecibeFalla \/ Sirve \/ EnviaLee
           \/ EnviaFalla \/ Responde
  BY <1>1, <1>3 DEF AceptaFuera, AceptaFalla, RecibeFalla, Sirve, EnviaLee,
                    EnviaFalla, Responde
<1>4. CASE Usr2 \/ Usr2EnSelect \/ Term \/ CleanUp \/ UNCHANGED vars
  BY <1>1, <1>4 DEF Usr2, Usr2EnSelect, Term, CleanUp, vars
<1>5. ASSUME NEW n \in Indices, Acepta(n)
      PROVE  CadaClienteSuSocket' /\ InvCola'
  <2> DEFINE h == Head(cola)
  <2>1. /\ cola # <<>> /\ accion[n] = "no"
        /\ accion' = [accion EXCEPT ![n] = "ATTEND_CLIENT"]
        /\ enlace' = [enlace EXCEPT ![n] = h]
        /\ cola' = Tail(cola)
        /\ cli' = cli
    BY <1>5 DEF Acepta, EsNuevo, Abiertos, Abierto
  <2>2. enlace[n] = Nadie
    BY <2>1 DEF CadaClienteSuSocket, TypeOK
  <2>3. /\ Len(cola') = Len(cola) - 1 /\ Len(cola) \in Nat \ {0}
        /\ \A k \in 1..Len(cola') : cola'[k] = cola[k + 1]
        /\ h = cola[1] /\ h \in Clientes
    BY <2>1 DEF TypeOK
  <2>4. \A c \in Clientes : c \in EnCola' <=> c \in EnCola /\ c # h
    <3>1. ASSUME NEW k \in 1..Len(cola') PROVE cola'[k] \in EnCola /\ cola'[k] # h
      BY <2>3, <3>1 DEF InvCola, EnCola
    <3>2. ASSUME NEW k \in 1..Len(cola), cola[k] # h PROVE cola[k] \in EnCola'
      <4>1. k - 1 \in 1..Len(cola') /\ cola'[k - 1] = cola[k]
        BY <2>3, <3>2
      <4> QED BY <4>1 DEF EnCola
    <3> QED BY <3>1, <3>2 DEF EnCola
  <2>5. InvCola'
    BY <2>3 DEF InvCola
  <2>6. h \in EnCola
    BY <2>3 DEF EnCola
  <2>7. \A s \in Indices : enlace[s] # h
    BY <2>6 DEF CadaClienteSuSocket
  <2>8. \A s \in Indices : enlace'[s] = IF s = n THEN h ELSE enlace[s]
    BY <2>1 DEF TypeOK
  <2>9. \A s \in Indices : accion'[s] = IF s = n THEN "ATTEND_CLIENT" ELSE accion[s]
    BY <2>1 DEF TypeOK
  <2>10. \A c \in Clientes : Conectado(c)' <=>
           (c \in EnCola' \/ \E s \in Indices : enlace'[s] = c)
    <3> SUFFICES ASSUME NEW c \in Clientes
                 PROVE  Conectado(c)' <=>
                          (c \in EnCola' \/ \E s \in Indices : enlace'[s] = c)
      OBVIOUS
    <3>1. CASE c = h
      BY <2>1, <2>6, <2>8, <3>1 DEF CadaClienteSuSocket, Conectado
    <3>2. CASE c # h
      BY <2>1, <2>2, <2>4, <2>8, <3>2 DEF CadaClienteSuSocket, Conectado
    <3> QED BY <3>1, <3>2
  <2>11. \A s, t \in Indices : enlace'[s] = enlace'[t] /\ s # t => enlace'[s] = Nadie
    BY <2>7, <2>8 DEF CadaClienteSuSocket
  <2>12. \A s \in Indices : enlace'[s] # Nadie <=> accion'[s] = "ATTEND_CLIENT"
    BY <2>3, <2>8, <2>9 DEF CadaClienteSuSocket
  <2>13. \A s \in Indices : enlace'[s] \notin EnCola'
    <3>1. EnCola' \subseteq EnCola \ {h}
      <4> SUFFICES ASSUME NEW k \in 1..Len(cola') PROVE cola'[k] \in EnCola \ {h}
        BY DEF EnCola
      <4>1. k + 1 \in 1..Len(cola) /\ cola'[k] = cola[k + 1]
        BY <2>3, <2>5 DEF InvCola
      <4>2. 1 \in 1..Len(cola) /\ k + 1 # 1 /\ h = cola[1]
        BY <2>3, <2>5, <4>1 DEF InvCola
      <4> QED BY <4>1, <4>2 DEF EnCola, InvCola
    <3> QED BY <2>8, <3>1 DEF CadaClienteSuSocket
  <2> QED BY <2>5, <2>10, <2>11, <2>12, <2>13 DEF CadaClienteSuSocket
<1>6. CASE Recibe
  <2>1. i \in Indices /\ enlace[i] \in Clientes
    BY <1>6 DEF Recibe, InvPaso, EnMarcha, CadaClienteSuSocket, TypeOK
  <2>2. \A c \in Clientes : Conectado(c)' <=> Conectado(c)
    BY <1>6, <2>1 DEF Recibe, Conectado, TypeOK, Atendido
  <2> QED BY <1>6, <2>2 DEF Recibe, CadaClienteSuSocket, InvCola, EnCola
<1>7. CASE Cierra
  <2> DEFINE d == enlace[i]
  <2>1. i \in Indices /\ d \in Clientes
    BY <1>7 DEF Cierra, InvPaso, EnMarcha, CadaClienteSuSocket, TypeOK
  <2>2. \A c \in Clientes : Conectado(c)' <=> Conectado(c) /\ c # d
    BY <1>7, <2>1 DEF Cierra, Conectado, TypeOK, Atendido
  <2>3. \A s \in Indices : enlace'[s] = IF s = i THEN Nadie ELSE enlace[s]
    BY <1>7 DEF Cierra, TypeOK
  <2>4. \A s \in Indices : accion'[s] = IF s = i THEN "no" ELSE accion[s]
    BY <1>7 DEF Cierra, TypeOK
  <2>5. cola' = cola /\ EnCola' = EnCola
    BY <1>7 DEF Cierra, EnCola
  <2>6. d \notin EnCola /\ \A s \in Indices : enlace[s] = d => s = i
    BY <2>1 DEF CadaClienteSuSocket
  <2>7. Nadie \notin EnCola
    BY DEF EnCola, TypeOK
  <2>8. \A c \in Clientes : Conectado(c)' <=>
          (c \in EnCola' \/ \E s \in Indices : enlace'[s] = c)
    BY <2>1, <2>2, <2>3, <2>5, <2>6 DEF CadaClienteSuSocket
  <2>9. \A s, t \in Indices : enlace'[s] = enlace'[t] /\ s # t => enlace'[s] = Nadie
    BY <2>3 DEF CadaClienteSuSocket
  <2>10. \A s \in Indices : enlace'[s] # Nadie <=> accion'[s] = "ATTEND_CLIENT"
    BY <2>3, <2>4 DEF CadaClienteSuSocket
  <2>11. \A s \in Indices : enlace'[s] \notin EnCola'
    BY <2>3, <2>5, <2>7 DEF CadaClienteSuSocket
  <2>12. InvCola'
    BY <2>5 DEF InvCola
  <2> QED BY <2>8, <2>9, <2>10, <2>11, <2>12 DEF CadaClienteSuSocket
<1>8. ASSUME NEW c \in Clientes, Conecta(c)
      PROVE  CadaClienteSuSocket' /\ InvCola'
  <2>1. /\ cola' = Append(cola, c) /\ ~Conectado(c)
        /\ \A x \in Clientes : Conectado(x)' <=> Conectado(x) \/ x = c
        /\ accion' = accion /\ enlace' = enlace
    BY <1>8 DEF Conecta, Hace, Conectado, TypeOK
  <2>2. /\ Len(cola') = Len(cola) + 1 /\ Len(cola) \in Nat
        /\ cola'[Len(cola) + 1] = c
        /\ \A k \in 1..Len(cola) : cola'[k] = cola[k] /\ cola[k] \in Clientes
    BY <2>1 DEF TypeOK
  <2>3. c \notin EnCola /\ \A s \in Indices : enlace[s] # c
    BY <2>1 DEF CadaClienteSuSocket
  <2>4. EnCola' = EnCola \cup {c}
    <3>1. ASSUME NEW k \in 1..Len(cola') PROVE cola'[k] \in EnCola \cup {c}
      BY <2>2, <3>1 DEF EnCola
    <3>2. ASSUME NEW k \in 1..Len(cola) PROVE cola[k] \in EnCola'
      BY <2>2, <3>2 DEF EnCola
    <3>3. c \in EnCola'
      BY <2>2 DEF EnCola
    <3> QED BY <3>1, <3>2, <3>3 DEF EnCola
  <2>5. InvCola'
    BY <2>2, <2>3 DEF InvCola, EnCola
  <2> QED BY <2>1, <2>3, <2>4, <2>5 DEF CadaClienteSuSocket
<1>9. ASSUME NEW c \in Clientes, Pide(c) \/ Cuelga(c) \/ Rompe(c)
      PROVE  CadaClienteSuSocket' /\ InvCola'
  <2>1. /\ cola' = cola /\ accion' = accion /\ enlace' = enlace
        /\ \A x \in Clientes : Conectado(x)' <=> Conectado(x)
    BY <1>9 DEF Pide, Cuelga, Rompe, Hace, Conectado, TypeOK
  <2> QED BY <2>1 DEF CadaClienteSuSocket, InvCola, EnCola
<1> QED
  BY <1>2, <1>3, <1>4, <1>5, <1>6, <1>7, <1>8, <1>9
     DEF Next, Bucle, AceptaAlgo, Atiende

\* What is marked stays ready until the walk comes to it: a step that takes no
\* client out of a socket, makes nobody unready and does not go up the walk.
LEMMA MarcaIgual ==
  ASSUME InvMarca, pc # "select", pc' # "select",
         interrumpido' = interrumpido, readmask' = readmask,
         readmask \subseteq Indices,
         \A s \in readmask : PorVer(s)' => PorVer(s),
         \A s \in readmask :
           PorVer(s)' /\ Abierto(s) /\ Listo(s) => Abierto(s)' /\ Listo(s)'
  PROVE  InvMarca'
BY DEF InvMarca

\* So is what select marked.
LEMMA MarcaPaso == IInv /\ [Next]_vars => InvMarca'
<1> SUFFICES ASSUME IInv, [Next]_vars PROVE InvMarca'
  OBVIOUS
<1> USE SupervisorAssumption DEF sockVars, refresco
<1>0. TypeOK /\ InvPaso /\ CadaClienteSuSocket /\ InvMarca
  BY DEF IInv
<1>1. CASE Revisa
  BY <1>1 DEF Revisa, InvMarca, PorVer, Abiertos, Abierto, EnMarcha
<1>2. CASE Select
  <2>1. /\ readmask' = {s \in readmask : s <= highest /\ Listo(s)}
        /\ pc' \in {"propaga", "recorre"}
        /\ UNCHANGED <<accion, enlace, cola, cli>>
    BY <1>2, Zenon DEF Select
  <2>2. readmask \subseteq Abiertos
    BY <1>0, <1>2 DEF Select, InvMarca
  <2>3. \A s \in readmask' : Abierto(s)' /\ Listo(s)'
    BY <2>1, <2>2 DEF Abiertos, Abierto, Listo, PorLeer
  <2> QED BY <2>1, <2>3 DEF InvMarca
<1>3. CASE Usr2EnSelect
  BY <1>3 DEF Usr2EnSelect, InvMarca
<1>4. CASE UNCHANGED <<accion, enlace, cola, cli, readmask, interrumpido, pc, i>>
  BY <1>0, <1>4 DEF InvMarca, PorVer, Abiertos, Abierto, Listo, PorLeer
<1>5. CASE Usr2 \/ UNCHANGED vars
  BY <1>4, <1>5 DEF Usr2, vars
<1>6. ASSUME UNCHANGED <<accion, enlace, cola, cli, readmask, interrumpido>>,
             pc # "select", pc' # "select",
             \A s \in readmask : PorVer(s)' => PorVer(s)
      PROVE  InvMarca'
  BY <1>0, <1>6, MarcaIgual DEF TypeOK, Abierto, Listo, PorLeer
<1>7. CASE Propaga
  BY <1>6, <1>7 DEF Propaga, PorVer, EnMarcha
<1>8. CASE BajaFlag
  BY <1>6, <1>8 DEF BajaFlag, PorVer, EnMarcha
<1>9. CASE Recorre
  <2>1. pc = "recorre" /\ i' <= i /\ i' \in Indices /\ pc' \in {"acepta", "recibe"}
    BY <1>0, <1>9 DEF Recorre, Marcados, TypeOK, Indices
  <2>2. ASSUME NEW s \in readmask, PorVer(s)' PROVE PorVer(s)
    <3>1. s \in Int /\ i' \in Int /\ i \in Int
      BY <1>0, <2>1 DEF TypeOK, Indices
    <3>2. s <= i'
      BY <2>1, <2>2, <3>1 DEF PorVer, EnMarcha
    <3> QED BY <2>1, <3>1, <3>2 DEF PorVer
  <2> QED BY <1>6, <1>9, <2>1, <2>2 DEF Recorre
<1>10. CASE RecorreFin
  BY <1>10 DEF RecorreFin, InvMarca
<1>11. ASSUME NEW n \in Indices, Acepta(n) PROVE InvMarca'
  <2>1. i = Escucha /\ i' = i - 1 /\ pc = "acepta" /\ pc' = "recorre"
    BY <1>0, <1>11 DEF Acepta, InvPaso
  <2>2. accion[n] = "no" /\ n # Escucha
    BY <1>0, <1>11 DEF Acepta, EsNuevo, Abiertos, Abierto, InvPaso
  <2>3. \A s \in readmask : PorVer(s)' => PorVer(s) /\ s # Escucha
    BY <1>0, <1>11, <2>1 DEF Acepta, PorVer, EnMarcha, TypeOK, Indices
  <2>4. \A s \in Indices : s # n => accion'[s] = accion[s] /\ enlace'[s] = enlace[s]
    BY <1>0, <1>11 DEF Acepta, TypeOK
  <2>5. \A s \in readmask :
          PorVer(s)' /\ Abierto(s) /\ Listo(s) => Abierto(s)' /\ Listo(s)'
    BY <1>0, <1>11, <2>2, <2>3, <2>4 DEF Acepta, Abierto, Listo, PorLeer, TypeOK
  <2> QED
    BY <1>0, <1>11, <2>1, <2>3, <2>5, MarcaIgual DEF Acepta, TypeOK
<1>12. CASE AceptaFuera \/ AceptaFalla \/ RecibeFalla \/ Term \/ CleanUp
  <2>1. pc' \in {"desborda", "fin", "cleanup", "mata"}
    BY <1>12 DEF AceptaFuera, AceptaFalla, RecibeFalla, Term, CleanUp
  <2> QED BY <2>1 DEF InvMarca, PorVer, EnMarcha
<1>13. CASE Recibe
  <2>1. /\ i \in Indices /\ enlace[i] \in Clientes /\ i # Escucha
        /\ pc = "recibe" /\ pc' = "sirve" /\ i' = i
        /\ \A c \in Clientes : c # enlace[i] => cli'[c] = cli[c]
    BY <1>0, <1>13
       DEF Recibe, InvPaso, EnMarcha, CadaClienteSuSocket, TypeOK, Atendido
  <2>2. \A s \in readmask : PorVer(s)' => PorVer(s) /\ s < i
    BY <1>0, <1>13, <2>1 DEF Recibe, PorVer, EnMarcha, TypeOK, Indices
  <2>3. \A s \in readmask : s < i => s \in Indices /\ s # i
    BY <1>0, <2>1 DEF TypeOK, Indices
  <2>4. \A s \in readmask :
          PorVer(s)' /\ Abierto(s) /\ Listo(s) => Abierto(s)' /\ Listo(s)'
    BY <1>0, <1>13, <2>1, <2>2, <2>3
       DEF Recibe, Abierto, Listo, PorLeer, TypeOK, CadaClienteSuSocket
  <2> QED BY <1>0, <1>13, <2>1, <2>2, <2>4, MarcaIgual DEF Recibe, TypeOK
<1>14. CASE Sirve
  <2>1. /\ pc = "sirve" /\ i' = i
        /\ pc' \in {"envia", "muerto", "cierra", "recarga", "responde"}
    BY <1>0, <1>14 DEF Sirve, Destinos, TypeOK, Peticiones
  <2> QED BY <1>6, <1>14, <2>1 DEF Sirve, PorVer, EnMarcha
<1>15. CASE EnviaLee \/ EnviaFalla \/ Responde
  <2>1. /\ pc \in {"envia", "responde"} /\ i' = i
        /\ pc' \in {"cierra", "fin"}
        /\ UNCHANGED <<accion, enlace, cola, cli, readmask, interrumpido>>
    BY <1>15 DEF EnviaLee, EnviaFalla, Responde
  <2> QED BY <1>6, <2>1 DEF PorVer, EnMarcha
<1>16. CASE Cierra
  <2>1. /\ i \in Indices /\ enlace[i] \in Clientes /\ i # Escucha
        /\ pc = "cierra" /\ pc' = "recorre" /\ i' = i - 1
        /\ \A c \in Clientes : c # enlace[i] => cli'[c] = cli[c]
        /\ \A s \in Indices : s # i => accion'[s] = accion[s] /\ enlace'[s] = enlace[s]
    BY <1>0, <1>16
       DEF Cierra, InvPaso, EnMarcha, CadaClienteSuSocket, TypeOK, Atendido
  <2>2. \A s \in readmask : PorVer(s)' => PorVer(s) /\ s \in Indices /\ s # i
    BY <1>0, <1>16, <2>1 DEF Cierra, PorVer, EnMarcha, TypeOK, Indices
  <2>3. \A s \in readmask :
          PorVer(s)' /\ Abierto(s) /\ Listo(s) => Abierto(s)' /\ Listo(s)'
    BY <1>0, <1>16, <2>1, <2>2
       DEF Cierra, Abierto, Listo, PorLeer, TypeOK, CadaClienteSuSocket
  <2> QED BY <1>0, <1>16, <2>1, <2>2, <2>3, MarcaIgual DEF Cierra, TypeOK
<1>17. ASSUME NEW c \in Clientes, Conecta(c) \/ Pide(c) \/ Cuelga(c) \/ Rompe(c)
       PROVE  InvMarca'
  <2>1. /\ UNCHANGED <<accion, enlace, readmask, interrumpido, pc, i>>
        /\ \A x \in Clientes : cli[x] \in {"pedida", "cerrada", "rota"}
                              => cli'[x] \in {"pedida", "cerrada", "rota"}
    BY <1>0, <1>17 DEF Conecta, Pide, Cuelga, Rompe, Hace, TypeOK
  <2>2. cola # <<>> => cola' # <<>>
    BY <1>0, <1>17 DEF Conecta, Pide, Cuelga, Rompe, TypeOK
  <2>3. \A s \in Indices : Listo(s) => Listo(s)'
    BY <1>0, <2>1, <2>2 DEF Listo, PorLeer, TypeOK
  <2> QED BY <1>0, <2>1, <2>3 DEF InvMarca, PorVer, Abiertos, Abierto, TypeOK
<1> QED
  BY <1>1, <1>2, <1>3, <1>5, <1>7, <1>8, <1>9, <1>10, <1>11, <1>12, <1>13, <1>14,
     <1>15, <1>16, <1>17 DEF Next, Bucle, AceptaAlgo, Atiende

\* The invariant behind the theorems.
THEOREM IInvInvariante == Spec => []IInv
<1>1. IInv /\ [Next]_vars => IInv'
  BY TypePaso, VigilaPaso, ClientePaso, MarcaPaso DEF IInv
<1> QED BY InitIInv, <1>1, PTL DEF Spec

\* The variables keep their types, and highest_sd stays inside the table.
THEOREM Tipos == Spec => []TypeOK
BY IInvInvariante, PTL DEF IInv

\* select watches every open socket, for any table and any clients.
\* (RegisterSocket, UnRegisterSocket.)
THEOREM Vigila == Spec => []VigilaTodos
BY IInvInvariante, PTL DEF IInv

\* No connection is forgotten and no descriptor is lost.  (ExecuteAction.)
THEOREM Conexiones == Spec => []CadaClienteSuSocket
BY IInvInvariante, PTL DEF IInv

\* Only after a signal does the supervisor sleep in accept or recv: in a walk
\* that follows a select that returned, what was marked is still open, is the
\* same connection and has something to read.  (SocketsEventLoop.)
THEOREM NoDuerme == Spec => []SoloDuermeTrasSenyal
<1>1. IInv => SoloDuermeTrasSenyal
  <2> SUFFICES ASSUME IInv, pc \in {"acepta", "recibe"}, ~interrumpido PROVE Listo(i)
    BY DEF SoloDuermeTrasSenyal
  <2>1. i \in readmask /\ i \in Int
    BY DEF IInv, InvPaso, TypeOK, Indices
  <2> QED BY <2>1 DEF IInv, InvMarca, PorVer
<1> QED BY IInvInvariante, <1>1, PTL

-----------------------------------------------------------------------------
(* What makes a client, or a SIGUSR2, be attended: the loop does not pass    *)
(* over a socket that had something to read when select returned, each of    *)
(* its steps takes the walk nearer to its end, and the flag of a reload is   *)
(* up until the reload is propagated.                                        *)

\* The step does not end the loop.
Continua == pc' \notin {"fin", "muerto", "desborda", "cleanup", "mata"}
EnVuelta == pc \in EnMarcha \cup {"propaga", "baja", "recorre", "acepta"}

\* The kinds of steps, as the walk sees them.
Ajeno == UNCHANGED <<accion, enlace, readmask, pc, i>>
EnSitio ==
  /\ UNCHANGED <<accion, enlace, readmask, i>>
  /\ \/ pc = "propaga" /\ pc' = "baja"
     \/ pc = "baja" /\ pc' = "recorre"
     \/ pc = "recibe" /\ pc' = "sirve"
     \/ pc = "sirve" /\ pc' \in {"envia", "cierra", "recarga", "responde"}
     \/ pc = "recarga" /\ pc' = "baja_recarga"
     \/ pc = "baja_recarga" /\ pc' = "responde"
     \/ pc \in {"envia", "responde"} /\ pc' = "cierra"
Recorrido ==
  /\ UNCHANGED <<accion, enlace, readmask>>
  /\ pc = "recorre" /\ pc' \in {"acepta", "recibe"}
  /\ i' \in Marcados /\ \A t \in Marcados : t <= i'
Recorrida == pc = "recorre" /\ pc' = "revisa" /\ Marcados = {}
Abre ==
  /\ UNCHANGED readmask
  /\ pc = "acepta" /\ pc' = "recorre" /\ i' = i - 1
  /\ \A s \in Indices : accion[s] # "no" => accion'[s] = accion[s] /\ enlace'[s] = enlace[s]
Quita ==
  /\ UNCHANGED readmask
  /\ pc = "cierra" /\ pc' = "recorre" /\ i' = i - 1
  /\ \A s \in Indices : s # i => accion'[s] = accion[s] /\ enlace'[s] = enlace[s]
Mascara ==
  /\ UNCHANGED <<accion, enlace>>
  /\ pc = "revisa" /\ pc' = "select" /\ readmask' = Abiertos
Vuelta ==
  /\ UNCHANGED <<accion, enlace>>
  /\ pc = "select" /\ pc' \in {"propaga", "recorre"} /\ i' = MAX_OPENED_SOCKETS - 1
  /\ flagrefresco' => pc' = "propaga"
  /\ \A s \in readmask : s <= highest /\ Listo(s) => s \in readmask'

\* There are no others.
LEMMA Clases ==
  ASSUME IInv, [Next]_vars, Continua
  PROVE  Ajeno \/ EnSitio \/ Recorrido \/ Recorrida \/ Abre \/ Quita \/ Mascara \/ Vuelta
<1> USE DEF sockVars, refresco
<1>0. TypeOK /\ InvPaso
  BY DEF IInv
<1>1. CASE Revisa
  BY <1>1 DEF Revisa, Mascara
<1>2. CASE Select
  BY <1>2 DEF Select, Vuelta
<1>3. CASE Usr2EnSelect
  BY <1>3 DEF Usr2EnSelect, Vuelta
<1>4. CASE Propaga
  BY <1>4 DEF Propaga, EnSitio
<1>5. CASE BajaFlag
  BY <1>5 DEF BajaFlag, EnSitio
<1>6. CASE Recorre
  BY <1>6 DEF Recorre, Recorrido
<1>7. CASE RecorreFin
  BY <1>7 DEF RecorreFin, Recorrida
<1>8. ASSUME NEW n \in Indices, Acepta(n) PROVE Abre
  <2>1. accion[n] = "no"
    BY <1>8 DEF Acepta, EsNuevo, Abiertos, Abierto
  <2> QED BY <1>0, <1>8, <2>1 DEF Acepta, Abre, TypeOK
<1>9. CASE AceptaFuera \/ AceptaFalla \/ RecibeFalla \/ Term \/ CleanUp
  BY <1>9 DEF AceptaFuera, AceptaFalla, RecibeFalla, Term, CleanUp, Continua
<1>10. CASE Recibe
  BY <1>10 DEF Recibe, EnSitio
<1>11. CASE Sirve
  <2>1. pc' \in {"envia", "muerto", "cierra", "recarga", "responde"}
    BY <1>0, <1>11 DEF Sirve, Destinos, TypeOK, Peticiones
  <2> QED BY <1>11, <2>1 DEF Sirve, EnSitio, Continua
<1>12. CASE EnviaLee \/ EnviaFalla \/ Responde
  BY <1>12 DEF EnviaLee, EnviaFalla, Responde, EnSitio, Continua
<1>13. CASE Cierra
  BY <1>0, <1>13 DEF Cierra, Quita, TypeOK
<1>14. CASE Usr2 \/ UNCHANGED vars
  BY <1>14 DEF Usr2, vars, Ajeno
<1>15. ASSUME NEW c \in Clientes, Conecta(c) \/ Pide(c) \/ Cuelga(c) \/ Rompe(c) PROVE Ajeno
  BY <1>15 DEF Conecta, Pide, Cuelga, Rompe, Hace, Ajeno
<1> QED
  BY <1>1, <1>2, <1>3, <1>4, <1>5, <1>6, <1>7, <1>8, <1>9, <1>10, <1>11, <1>12, <1>13, <1>14, <1>15
     DEF Next, Bucle, AceptaAlgo, Atiende

\* select is asked about every open socket.
InvSelect == pc = "select" => readmask = Abiertos

\* The mask is made of the table, and the table does not change before select.
LEMMA SelectPaso == IInv /\ InvSelect /\ [Next]_vars => InvSelect'
<1> SUFFICES ASSUME IInv, InvSelect, [Next]_vars, pc' = "select" PROVE readmask' = Abiertos'
  BY DEF InvSelect
<1>1. Continua
  BY DEF Continua
<1>2. Ajeno \/ Mascara
  BY <1>1, Clases DEF Ajeno, EnSitio, Recorrido, Recorrida, Abre, Quita, Mascara, Vuelta
<1> QED BY <1>2 DEF Ajeno, Mascara, InvSelect, Abiertos, Abierto

\* A marked socket that the walk has not come to.
Espera(s) == s \in readmask /\ Abierto(s) /\ PorVer(s)

\* What is ready when select returns is marked, and ahead of the walk.
LEMMA SelectMarca ==
  ASSUME IInv, InvSelect, [Next]_vars, Continua, pc = "select", pc' # "select",
         NEW s \in Indices, Abierto(s), Listo(s)
  PROVE  Espera(s)' /\ enlace'[s] = enlace[s]
<1>1. Vuelta
  BY Clases DEF Ajeno, EnSitio, Recorrido, Recorrida, Abre, Quita, Mascara
<1>2. s \in readmask /\ s <= highest
  BY DEF InvSelect, Abiertos, IInv, VigilaTodos
<1>3. s <= i' /\ pc' \in {"propaga", "recorre"}
  BY <1>1, SupervisorAssumption DEF Vuelta, Indices
<1> QED BY <1>1, <1>2, <1>3 DEF Vuelta, Espera, Abierto, PorVer

\* The walk passes over nothing that is marked.
LEMMA NoSalta ==
  ASSUME IInv, [Next]_vars, Continua, NEW s \in Indices, Espera(s)
  PROVE  \/ Espera(s)' /\ enlace'[s] = enlace[s]
         \/ pc \in {"acepta", "recibe"} /\ i = s
<1> USE DEF Espera, Abierto
<1>0. s \in Int /\ i \in Int /\ EnVuelta /\ s <= i
  BY SupervisorAssumption DEF IInv, TypeOK, Indices, EnVuelta, PorVer, EnMarcha
<1>1. CASE Ajeno
  BY <1>1 DEF Ajeno, PorVer
<1>2. CASE EnSitio
  BY <1>0, <1>2 DEF EnSitio, PorVer, EnMarcha
<1>3. CASE Recorrido
  <2>1. s \in Marcados
    BY <1>0 DEF Marcados
  <2> QED BY <1>3, <2>1 DEF Recorrido, PorVer
<1>4. CASE Recorrida
  BY <1>0, <1>4 DEF Recorrida, Marcados
<1>5. CASE Abre
  BY <1>0, <1>5 DEF Abre, PorVer, EnMarcha
<1>6. CASE Quita
  <2>1. s < i
    BY <1>6 DEF Quita, PorVer
  <2> QED BY <1>0, <1>6, <2>1 DEF Quita, PorVer
<1>7. ~Mascara /\ ~Vuelta
  BY <1>0 DEF Mascara, Vuelta, EnVuelta, EnMarcha
<1> QED BY <1>1, <1>2, <1>3, <1>4, <1>5, <1>6, <1>7, Clases

\* What is left of the request, or of the reload, at hand.
Tramo(l) ==
  CASE l = "propaga" -> 9 [] l = "baja" -> 8 [] l = "recorre" -> 7 [] l \in {"acepta", "recibe"} -> 6
    [] l = "sirve" -> 5 [] l = "recarga" -> 4 [] l = "baja_recarga" -> 3
    [] l \in {"envia", "responde"} -> 2 [] OTHER -> 1
Adelanta == i' < i \/ (i' = i /\ Tramo(pc') < Tramo(pc))

\* Each step of the loop within the walk goes to another place.
LEMMA BucleMueve ==
  ASSUME IInv, Bucle, EnVuelta
  PROVE  pc' # pc
<1>1. CASE Revisa \/ Select \/ Propaga \/ BajaFlag \/ Recorre \/ RecorreFin \/ AceptaFuera \/ CleanUp
  BY <1>1 DEF Revisa, Select, Propaga, BajaFlag, Recorre, RecorreFin, AceptaFuera, CleanUp, EnVuelta, EnMarcha
<1>2. ASSUME NEW n \in Indices, Acepta(n) PROVE pc' # pc
  BY <1>2 DEF Acepta
<1>3. CASE Recibe \/ RecibeFalla \/ EnviaFalla \/ Responde \/ Cierra
  BY <1>3 DEF Recibe, RecibeFalla, EnviaFalla, Responde, Cierra
<1>4. CASE Sirve
  BY <1>4 DEF Sirve, Destinos, IInv, TypeOK, Peticiones
<1> QED BY <1>1, <1>2, <1>3, <1>4 DEF Bucle, AceptaAlgo, Atiende

\* The steps of the loop go down the table, and through a request.
LEMMA BucleAvanza ==
  ASSUME IInv, [Next]_vars, Continua, EnVuelta
  PROVE  Adelanta \/ pc' = "revisa" \/ (UNCHANGED <<pc, i>> /\ ~Bucle)
<1>0. i \in Int
  BY SupervisorAssumption DEF IInv, TypeOK, Indices
<1>1. CASE EnSitio
  BY <1>0, <1>1 DEF EnSitio, Adelanta, Tramo
<1>2. CASE Recorrido
  <2>1. i' <= i /\ i' \in Int
    BY <1>0, <1>2, SupervisorAssumption DEF Recorrido, Marcados, IInv, TypeOK, Indices
  <2> QED BY <1>0, <1>2, <2>1 DEF Recorrido, Adelanta, Tramo
<1>3. CASE Abre \/ Quita
  BY <1>0, <1>3 DEF Abre, Quita, Adelanta
<1>4. CASE Ajeno
  BY <1>4, BucleMueve DEF Ajeno
<1>6. CASE Recorrida
  BY <1>6 DEF Recorrida
<1>5. ~Mascara /\ ~Vuelta
  BY DEF Mascara, Vuelta, EnVuelta, EnMarcha
<1> QED BY <1>1, <1>2, <1>3, <1>4, <1>5, <1>6, Clases

\* A socket that has something to read when select returns is marked, and stays
\* so with the same client until the walk attends it, whatever is opened, closed
\* or signalled meanwhile; and each step of the loop takes the walk nearer to its
\* end, and no step of a client or a signal takes it back.
\* With the fairness of Supervisor, and but for the places where it sleeps
\* (NoDuerme), this is why a client that has asked is attended.
\* (SocketsEventLoop.)
THEOREM VueltaCompleta ==
  Spec => /\ [][Continua /\ pc = "select" /\ pc' # "select" =>
                  \A s \in Indices : Abierto(s) /\ Listo(s) => Espera(s)' /\ enlace'[s] = enlace[s]]_vars
          /\ [][Continua => \A s \in Indices : Espera(s) =>
                  \/ Espera(s)' /\ enlace'[s] = enlace[s]
                  \/ pc \in {"acepta", "recibe"} /\ i = s]_vars
          /\ [][Continua /\ EnVuelta => Adelanta \/ pc' = "revisa" \/ (UNCHANGED <<pc, i>> /\ ~Bucle)]_vars
<1>1. Init => InvSelect
  BY DEF Init, InvSelect
<1>2. IInv /\ InvSelect /\ [Next]_vars =>
        [Continua /\ pc = "select" /\ pc' # "select" =>
           \A s \in Indices : Abierto(s) /\ Listo(s) => Espera(s)' /\ enlace'[s] = enlace[s]]_vars
  BY SelectMarca
<1>3. IInv /\ [Next]_vars =>
        [Continua => \A s \in Indices : Espera(s) =>
           \/ Espera(s)' /\ enlace'[s] = enlace[s]
           \/ pc \in {"acepta", "recibe"} /\ i = s]_vars
  BY NoSalta
<1>4. IInv /\ [Next]_vars =>
        [Continua /\ EnVuelta => Adelanta \/ pc' = "revisa" \/ (UNCHANGED <<pc, i>> /\ ~Bucle)]_vars
  BY BucleAvanza
<1> QED BY <1>1, <1>2, <1>3, <1>4, SelectPaso, IInvInvariante, PTL DEF Spec

\* A reload that is still to be propagated has its flag up, unless its signal
\* came between a propagation and its flagrefresco=0.
InvPedido ==
  /\ pedido => flagrefresco \/ tarde
  /\ pc \in {"baja", "baja_recarga"} /\ pedido => tarde

\* Only Propaga and a signal touch the request, only BajaFlag lowers the flag.
LEMMA PedidoPaso == TypeOK /\ InvPedido /\ [Next]_vars => InvPedido'
<1> SUFFICES ASSUME TypeOK, InvPedido, [Next]_vars PROVE InvPedido'
  OBVIOUS
<1> USE DEF sockVars, refresco, InvPedido
<1>1. CASE Propaga
  BY <1>1 DEF Propaga
<1>2. CASE BajaFlag
  <2>1. pedido => tarde
    BY <1>2 DEF BajaFlag
  <2> QED BY <1>2, <2>1 DEF BajaFlag
<1>3. CASE Usr2
  <2>1. flagrefresco' = TRUE /\ pc' = pc
    BY <1>3 DEF Usr2
  <2>2. pc \in {"baja", "baja_recarga"} => tarde' = TRUE
    BY <1>3, Zenon DEF Usr2
  <2> QED BY <2>1, <2>2
<1>4. CASE Usr2EnSelect
  BY <1>4 DEF Usr2EnSelect
<1>5. ASSUME UNCHANGED refresco, pc' \notin {"baja", "baja_recarga"} \/ pc' = pc
      PROVE  InvPedido'
  BY <1>5
<1>6. CASE Revisa \/ Select \/ Recorre \/ RecorreFin \/ AceptaFuera \/ AceptaFalla \/ Recibe
           \/ RecibeFalla \/ EnviaLee \/ EnviaFalla \/ Responde \/ Cierra \/ Term \/ CleanUp
  <2>1. UNCHANGED refresco
    BY <1>6 DEF Revisa, Select, Recorre, RecorreFin, AceptaFuera, AceptaFalla, Recibe, RecibeFalla,
                EnviaLee, EnviaFalla, Responde, Cierra, Term, CleanUp
  <2>2. pc' \notin {"baja", "baja_recarga"}
    BY <1>6 DEF Revisa, Select, Recorre, RecorreFin, AceptaFuera, AceptaFalla, Recibe, RecibeFalla,
                EnviaLee, EnviaFalla, Responde, Cierra, Term, CleanUp
  <2> QED BY <1>5, <2>1, <2>2
<1>7. CASE Sirve
  BY <1>5, <1>7 DEF Sirve, Destinos, TypeOK, Peticiones
<1>8. ASSUME NEW n \in Indices, Acepta(n) PROVE InvPedido'
  BY <1>5, <1>8 DEF Acepta
<1>9. ASSUME NEW c \in Clientes, Conecta(c) \/ Pide(c) \/ Cuelga(c) \/ Rompe(c) PROVE InvPedido'
  <2>1. UNCHANGED <<refresco, pc>>
    BY <1>9 DEF Conecta, Pide, Cuelga, Rompe, Hace
  <2> QED BY <1>5, <2>1
<1>10. CASE UNCHANGED vars
  BY <1>5, <1>10 DEF vars
<1> QED
  BY <1>1, <1>2, <1>3, <1>4, <1>6, <1>7, <1>8, <1>9, <1>10 DEF Next, Bucle, AceptaAlgo, Atiende

\* No reload is forgotten but in the one place where tarde says so: its flag is up
\* until a propagation follows, and the next time select returns the loop goes
\* there.  (flagPropagaRefresco, SocketsEventLoop.)
THEOREM RefrescoNoSePierde ==
  Spec => /\ [](pedido => flagrefresco \/ tarde)
          /\ [][Continua /\ pc = "select" /\ pc' # "select" /\ pedido /\ ~tarde =>
                  pc' = "propaga"]_vars
<1>1. Init => InvPedido
  BY DEF Init, InvPedido
<1>2. InvPedido => (pedido => flagrefresco \/ tarde)
  BY DEF InvPedido
<1>3. IInv => TypeOK
  BY DEF IInv
<1>4. IInv /\ InvPedido /\ [Next]_vars =>
        [Continua /\ pc = "select" /\ pc' # "select" /\ pedido /\ ~tarde => pc' = "propaga"]_vars
  <2> SUFFICES ASSUME IInv, InvPedido, [Next]_vars, Continua, pc = "select", pc' # "select",
                      pedido, ~tarde
               PROVE  pc' = "propaga"
    OBVIOUS
  <2>1. Select \/ Usr2EnSelect
    BY DEF Next, Bucle, AceptaAlgo, Atiende, Continua, vars, sockVars, Revisa, Propaga, BajaFlag, Recorre,
           RecorreFin, Acepta, AceptaFuera, AceptaFalla, Recibe, RecibeFalla, Sirve, EnviaLee, EnviaFalla,
           Responde, Cierra, CleanUp, Parando, Usr2, Term, Conecta, Pide, Cuelga, Rompe, Hace
  <2>2. flagrefresco
    BY DEF InvPedido
  <2> QED BY <2>1, <2>2 DEF Select, Usr2EnSelect
<1> QED BY <1>1, <1>2, <1>3, <1>4, PedidoPaso, IInvInvariante, PTL DEF Spec
=============================================================================
