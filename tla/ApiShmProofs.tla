---------------------------- MODULE ApiShmProofs ----------------------------
(* The proofs that ApiShm preserves its inductive invariant IInv, that it    *)
(* implements Registro and that whoever works on the table goes on, for any  *)
(* number of launchers and supervisors and any size of the table; and those  *)
(* about the statistics: they do not disturb the table (every step of        *)
(* Contadores is a step of ApiShm or leaves it alone, so what is proved of   *)
(* the table holds with them too), their types, that the history file adds   *)
(* up to the partials, and that without accidents the counters and the       *)
(* totals are the requests served.                                           *)
EXTENDS ApiShmRegistro, FiniteSetTheorems, Contadores, TLAPS

(* First layer: types, the lock, the places a process can be in and the      *)
(* records a sweep removes.  None of it depends on the counter.              *)
Inv1 == TypeOK /\ CerrojoExacto /\ InvPapeles /\ InvIndice

\* Before anything runs the first layer holds.
LEMMA Inv1Init == Init => Inv1
BY ConstantesAssumption
   DEF Init, Inv1, TypeOK, CerrojoExacto, InvPapeles, InvIndice, Dueno, Procs,
       EnCritica, PCsLanzador, PCsSupervisor, PCsBorra, Registros, Revisados

\* The end of a process, wherever it is, preserves the first layer: the
\* kernel's undo entry restores the semaphore exactly.
LEMMA AcabaInv1 ==
  ASSUME Inv1, NEW p \in Procs, Acaba(p)
  PROVE  Inv1'
<1> USE ConstantesAssumption DEF Inv1, Procs, Acaba, Va, locales
<1>1. TypeOK'
  BY DEF TypeOK, CerrojoExacto, Dueno, EnCritica, PCsLanzador, PCsSupervisor, PCsBorra, InvPapeles
<1>2. CerrojoExacto'
  BY DEF TypeOK, CerrojoExacto, Dueno, EnCritica
<1>3. InvPapeles'
  BY DEF TypeOK, InvPapeles, PCsLanzador, PCsSupervisor, PCsBorra
<1>4. InvIndice'
  BY DEF TypeOK, InvIndice, PCsBorra
<1> QED BY <1>1, <1>2, <1>3, <1>4

\* Every step preserves the first layer.
LEMMA Inv1Paso == Inv1 /\ [Next]_vars => Inv1'
<1> SUFFICES ASSUME Inv1, [Next]_vars PROVE Inv1'
  OBVIOUS
<1> USE ConstantesAssumption
    DEF Inv1, TypeOK, CerrojoExacto, InvPapeles, InvIndice, Dueno, Procs, Va,
        Lock, Unlock, EnCritica, PCsLanzador, PCsSupervisor, PCsBorra,
        memoria, senales, locales
<1>1. ASSUME NEW p \in Lanzadores, ArrancaLanzador(p) PROVE Inv1'
  BY <1>1 DEF ArrancaLanzador
<1>2. ASSUME NEW p \in Lanzadores, InsertaEntra(p) PROVE Inv1'
  BY <1>2 DEF InsertaEntra, Primero, Libres, Registros
<1>3. ASSUME NEW p \in Lanzadores, InsertaLlena(p) PROVE Inv1'
  BY <1>3 DEF InsertaLlena, Revisados
<1>4. ASSUME NEW p \in Lanzadores, InsertaEscribe(p) PROVE Inv1'
  BY <1>4 DEF InsertaEscribe, Registros, Revisados
<1>5. ASSUME NEW p \in Lanzadores, InsertaSale(p) PROVE Inv1'
  BY <1>5 DEF InsertaSale, Revisados
<1>6. ASSUME NEW p \in Lanzadores, ChequeoBorra(p) PROVE Inv1'
  BY <1>6 DEF ChequeoBorra
<1>7. ASSUME NEW p \in Lanzadores, ChequeoSigue(p) PROVE Inv1'
  BY <1>7 DEF ChequeoSigue, Registros, Revisados
<1>8. ASSUME NEW p \in Lanzadores, ChequeoFin(p) PROVE Inv1'
  BY <1>8 DEF ChequeoFin
<1>9. ASSUME NEW p \in Lanzadores, Atiende(p) PROVE Inv1'
  BY <1>9 DEF Atiende
<1>10. ASSUME NEW p \in Lanzadores, RecibeTerm(p) PROVE Inv1'
  <2>1. CASE p \in armado
    <3>1. /\ pc' = [pc EXCEPT ![p] = "bor_mira"]
          /\ vuelve' = [vuelve EXCEPT ![p] = "muere"]
          /\ id' = [id EXCEPT ![p] = tPos[p]]
          /\ rotos' \subseteq rotos \cup {p}
          /\ pend' \subseteq pend
          /\ UNCHANGED <<sem, undo, num, pid, armado, huerfano, tPos, sirvio, victima, ultima>>
      BY <1>10, <2>1 DEF RecibeTerm
    <3> HIDE DEF PCsLanzador, PCsSupervisor, PCsBorra
    <3>2. "bor_mira" \in PCsLanzador /\ "bor_mira" \in PCsSupervisor
      BY DEF PCsLanzador, PCsSupervisor, PCsBorra
    <3>3. TypeOK'
      BY <3>1, <3>2
    <3>4. CerrojoExacto'
      BY <3>1
    <3>5. InvPapeles'
      BY <3>1, <3>2
    <3>6. InvIndice'
      BY <3>1, <3>2
    <3> QED
      BY <3>3, <3>4, <3>5, <3>6
  <2>2. CASE p \notin armado
    <3>1. Acaba(p)
      BY <1>10, <2>2 DEF RecibeTerm
    <3> QED
      BY <3>1, AcabaInv1
  <2> QED
    BY <2>1, <2>2
<1>11. ASSUME NEW p \in Procs, EnviaTerm(p) PROVE Inv1'
  BY <1>11 DEF EnviaTerm, Vivo
<1>12. ASSUME NEW p \in Procs, BorraVacio(p) PROVE Inv1'
  <2>1. CASE vuelve[p] = "muere"
    BY <1>12, <2>1 DEF BorraVacio
  <2>2. CASE vuelve[p] = "inactivo"
    BY <1>12, <2>2 DEF BorraVacio
  <2>3. CASE vuelve[p] = "chequeo"
    BY <1>12, <2>3 DEF BorraVacio, Revisados
  <2>4. CASE vuelve[p] = "limpia"
    BY <1>12, <2>4 DEF BorraVacio, Revisados
  <2> QED
    BY <2>1, <2>2, <2>3, <2>4
<1>13. ASSUME NEW p \in Procs, BorraMira(p) PROVE Inv1'
  BY <1>13 DEF BorraMira, Registros, Revisados
<1>14. ASSUME NEW p \in Procs, BorraLock(p) PROVE Inv1'
  BY <1>14 DEF BorraLock, Registros, Revisados
<1>15. ASSUME NEW p \in Procs, BorraCero(p) PROVE Inv1'
  BY <1>15 DEF BorraCero, Registros, Revisados
<1>16. ASSUME NEW p \in Procs, BorraSuma(p) PROVE Inv1'
  <2>1. CASE vuelve[p] = "muere"
    BY <1>16, <2>1 DEF BorraSuma, VuelveAlPadre
  <2>2. CASE vuelve[p] = "chequeo"
    BY <1>16, <2>2 DEF BorraSuma, VuelveAlPadre, Revisados
  <2>3. CASE VuelveAlPadre(p)
    BY <1>16, <2>3 DEF BorraSuma, VuelveAlPadre, Revisados
  <2>4. CASE vuelve[p] \in {"limpia", "inactivo"} /\ ~VuelveAlPadre(p)
    BY <1>16, <2>4 DEF BorraSuma, Revisados
  <2> QED
    BY <2>1, <2>2, <2>3, <2>4
<1>17. ASSUME NEW q \in Supervisores, ArrancaSupervisor(q) PROVE Inv1'
  BY <1>17 DEF ArrancaSupervisor, Registros, Revisados
<1>18. ASSUME NEW q \in Supervisores, LimpiaEmpieza(q) PROVE Inv1'
  BY <1>18 DEF LimpiaEmpieza, Registros, Revisados
<1>19. ASSUME NEW q \in Supervisores, LimpiaFin(q) PROVE Inv1'
  BY <1>19 DEF LimpiaFin, Olvida, Registros, Revisados
<1>20. ASSUME NEW q \in Supervisores, LimpiaVacio(q) PROVE Inv1'
  BY <1>20 DEF LimpiaVacio, Registros, Revisados
<1>21. ASSUME NEW q \in Supervisores, LimpiaMuerto(q) PROVE Inv1'
  BY <1>21 DEF LimpiaMuerto, Registros, Revisados
<1>22. ASSUME NEW q \in Supervisores, LimpiaVivo(q) PROVE Inv1'
  BY <1>22 DEF LimpiaVivo, Registros, Revisados
<1>30. ASSUME NEW q \in Supervisores, LimpiaOcupado(q) PROVE Inv1'
  BY <1>30 DEF LimpiaOcupado, Registros, Revisados
<1>31. ASSUME NEW q \in Supervisores, LimpiaFecha(q) PROVE Inv1'
  BY <1>31 DEF LimpiaFecha, Registros, Revisados
<1>32. ASSUME NEW q \in Supervisores, LimpiaPid(q) PROVE Inv1'
  BY <1>32 DEF LimpiaPid, Registros, Revisados
<1>33. ASSUME NEW q \in Supervisores, SupLock(q) PROVE Inv1'
  BY <1>33 DEF SupLock, Registros, Revisados
<1>34. ASSUME NEW q \in Supervisores, SupUnlock(q) PROVE Inv1'
  BY <1>34 DEF SupUnlock, Registros, Revisados
<1>35. ASSUME NEW q \in Supervisores, CleanUp(q) PROVE Inv1'
  BY <1>35 DEF CleanUp, Olvida, Registros, Revisados
<1>23. ASSUME NEW q \in Supervisores, LimpiaInactivo(q) PROVE Inv1'
  BY <1>23 DEF LimpiaInactivo, Registros, Revisados, Recibe, HijoCero
<1>24. ASSUME NEW q \in Supervisores, LimpiaActivo(q) PROVE Inv1'
  BY <1>24 DEF LimpiaActivo, Registros, Revisados
<1>25. ASSUME NEW q \in Supervisores, LimpiaHuerfano(q) PROVE Inv1'
  BY <1>25 DEF LimpiaHuerfano, Registros, Revisados, Recibe
<1>26. ASSUME NEW q \in Supervisores, LimpiaSigue(q) PROVE Inv1'
  BY <1>26 DEF LimpiaSigue, Registros, Revisados
<1>27. ASSUME NEW p \in Procs, Acaba(p) PROVE Inv1'
  BY <1>27, AcabaInv1
<1>28. CASE CaeApache
  BY <1>28 DEF CaeApache
<1>29. CASE UNCHANGED vars
  BY <1>29 DEF vars
<1> QED
  BY <1>1, <1>2, <1>3, <1>4, <1>5, <1>6, <1>7, <1>8, <1>9, <1>10, <1>11, <1>12, <1>13, <1>14, <1>15, <1>16, <1>17, <1>18, <1>19, <1>20, <1>21, <1>22, <1>23, <1>24, <1>25, <1>26, <1>27, <1>28, <1>29, <1>30, <1>31, <1>32, <1>33, <1>34, <1>35
     DEF Next, PasoLanzador, PasoSupervisor, Borra, SaleDelBucle, Suicidio, Muere

\* The first layer is an invariant of the specification.
THEOREM Inv1Invariante == Spec => []Inv1
<1>1. Init => Inv1
  BY Inv1Init
<1>2. Inv1 /\ [Next]_vars => Inv1'
  BY Inv1Paso
<1> QED
  BY <1>1, <1>2, PTL DEF Spec

-----------------------------------------------------------------------------
(* Second layer: whose record is whose.  It rests on the lock: between the   *)
(* choice of a free record and the write of the pid nobody else writes.      *)
Inv2 == RegistroPropio /\ InvInserta /\ InvMuere

\* Before anything runs the table is empty and no launcher has a record.
LEMMA Inv2Init == Init => Inv2
BY ConstantesAssumption
   DEF Init, Inv2, RegistroPropio, InvInserta, InvMuere, Ocupados, Registros, Procs

\* The end of a process changes no record; one that dies while it registers
\* is remembered in rotos.
LEMMA AcabaInv2 ==
  ASSUME Inv1, Inv2, NEW p \in Procs, Acaba(p)
  PROVE  Inv2'
<1> USE ConstantesAssumption
    DEF Inv1, Inv2, TypeOK, Procs, Acaba, Va, locales
<1>1. RegistroPropio'
  BY DEF RegistroPropio, Ocupados
<1>2. InvInserta'
  BY DEF InvInserta
<1>3. InvMuere'
  BY DEF InvMuere
<1> QED
  BY <1>1, <1>2, <1>3

\* Every step preserves the second layer.
LEMMA Inv2Paso == Inv1 /\ Inv2 /\ [Next]_vars => Inv2'
<1> SUFFICES ASSUME Inv1, Inv2, [Next]_vars PROVE Inv2'
  OBVIOUS
<1> USE ConstantesAssumption
    DEF Inv1, Inv2, TypeOK, CerrojoExacto, InvPapeles, Dueno, Procs, EnCritica,
        RegistroPropio, InvInserta, InvMuere, Ocupados, PCsBorra,
        Va, Lock, Unlock, memoria, senales, locales
<1>1. ASSUME NEW p \in Lanzadores, ArrancaLanzador(p) PROVE Inv2'
  BY <1>1 DEF ArrancaLanzador
<1>2. ASSUME NEW p \in Lanzadores, InsertaEntra(p) PROVE Inv2'
  <2> PICK s \in Registros : Primero(s) /\ tPos' = [tPos EXCEPT ![p] = s]
    BY <1>2 DEF InsertaEntra
  <2>1. pid[s] = SinPid /\ pid' = pid
    BY <1>2 DEF InsertaEntra, Primero, Libres
  <2>2. \A r \in Ocupados : pid[r] # p
    BY <1>2 DEF InsertaEntra, Registros
  <2>3. RegistroPropio'
    BY <2>1, <2>2
  <2>4. InvInserta' /\ InvMuere'
    BY <1>2, <2>1 DEF InsertaEntra
  <2> QED
    BY <2>3, <2>4
<1>3. ASSUME NEW p \in Lanzadores, InsertaLlena(p) PROVE Inv2'
  BY <1>3 DEF InsertaLlena
<1>4. ASSUME NEW p \in Lanzadores, InsertaEscribe(p) PROVE Inv2'
  BY <1>4 DEF InsertaEscribe
<1>5. ASSUME NEW p \in Lanzadores, InsertaSale(p) PROVE Inv2'
  BY <1>5 DEF InsertaSale
<1>6. ASSUME NEW p \in Lanzadores, ChequeoBorra(p) PROVE Inv2'
  BY <1>6 DEF ChequeoBorra
<1>7. ASSUME NEW p \in Lanzadores, ChequeoSigue(p) PROVE Inv2'
  BY <1>7 DEF ChequeoSigue
<1>8. ASSUME NEW p \in Lanzadores, ChequeoFin(p) PROVE Inv2'
  BY <1>8 DEF ChequeoFin
<1>9. ASSUME NEW p \in Lanzadores, Atiende(p) PROVE Inv2'
  BY <1>9 DEF Atiende
<1>10. ASSUME NEW p \in Lanzadores, RecibeTerm(p) PROVE Inv2'
  <2>1. CASE p \in armado
    BY <1>10, <2>1 DEF RecibeTerm
  <2>2. CASE p \notin armado
    <3>1. Acaba(p)
      BY <1>10, <2>2 DEF RecibeTerm
    <3> QED
      BY <3>1, AcabaInv2
  <2> QED
    BY <2>1, <2>2
<1>11. ASSUME NEW p \in Procs, EnviaTerm(p) PROVE Inv2'
  BY <1>11 DEF EnviaTerm
<1>12. ASSUME NEW p \in Procs, BorraVacio(p) PROVE Inv2'
  BY <1>12 DEF BorraVacio
<1>13. ASSUME NEW p \in Procs, BorraMira(p) PROVE Inv2'
  BY <1>13 DEF BorraMira
<1>14. ASSUME NEW p \in Procs, BorraLock(p) PROVE Inv2'
  BY <1>14 DEF BorraLock
<1>15. ASSUME NEW p \in Procs, BorraCero(p) PROVE Inv2'
  BY <1>15 DEF BorraCero
<1>16. ASSUME NEW p \in Procs, BorraSuma(p) PROVE Inv2'
  BY <1>16 DEF BorraSuma, VuelveAlPadre
<1>17. ASSUME NEW q \in Supervisores, ArrancaSupervisor(q) PROVE Inv2'
  BY <1>17 DEF ArrancaSupervisor
<1>18. ASSUME NEW q \in Supervisores, LimpiaEmpieza(q) PROVE Inv2'
  BY <1>18 DEF LimpiaEmpieza
<1>19. ASSUME NEW q \in Supervisores, LimpiaFin(q) PROVE Inv2'
  BY <1>19 DEF LimpiaFin, Olvida
<1>20. ASSUME NEW q \in Supervisores, LimpiaVacio(q) PROVE Inv2'
  BY <1>20 DEF LimpiaVacio
<1>21. ASSUME NEW q \in Supervisores, LimpiaMuerto(q) PROVE Inv2'
  BY <1>21 DEF LimpiaMuerto
<1>22. ASSUME NEW q \in Supervisores, LimpiaVivo(q) PROVE Inv2'
  BY <1>22 DEF LimpiaVivo
<1>30. ASSUME NEW q \in Supervisores, LimpiaOcupado(q) PROVE Inv2'
  BY <1>30 DEF LimpiaOcupado
<1>31. ASSUME NEW q \in Supervisores, LimpiaFecha(q) PROVE Inv2'
  BY <1>31 DEF LimpiaFecha
<1>32. ASSUME NEW q \in Supervisores, LimpiaPid(q) PROVE Inv2'
  BY <1>32 DEF LimpiaPid
<1>33. ASSUME NEW q \in Supervisores, SupLock(q) PROVE Inv2'
  BY <1>33 DEF SupLock
<1>34. ASSUME NEW q \in Supervisores, SupUnlock(q) PROVE Inv2'
  BY <1>34 DEF SupUnlock
<1>35. ASSUME NEW q \in Supervisores, CleanUp(q) PROVE Inv2'
  BY <1>35 DEF CleanUp, Olvida
<1>23. ASSUME NEW q \in Supervisores, LimpiaInactivo(q) PROVE Inv2'
  BY <1>23 DEF LimpiaInactivo
<1>24. ASSUME NEW q \in Supervisores, LimpiaActivo(q) PROVE Inv2'
  BY <1>24 DEF LimpiaActivo
<1>25. ASSUME NEW q \in Supervisores, LimpiaHuerfano(q) PROVE Inv2'
  BY <1>25 DEF LimpiaHuerfano
<1>26. ASSUME NEW q \in Supervisores, LimpiaSigue(q) PROVE Inv2'
  BY <1>26 DEF LimpiaSigue
<1>27. ASSUME NEW p \in Procs, Acaba(p) PROVE Inv2'
  BY <1>27, AcabaInv2
<1>28. CASE CaeApache
  BY <1>28 DEF CaeApache
<1>29. CASE UNCHANGED vars
  BY <1>29 DEF vars
<1> QED
  BY <1>1, <1>2, <1>3, <1>4, <1>5, <1>6, <1>7, <1>8, <1>9, <1>10, <1>11, <1>12, <1>13,
     <1>14, <1>15, <1>16, <1>17, <1>18, <1>19, <1>20, <1>21, <1>22, <1>23, <1>24, <1>25, <1>26,
     <1>27, <1>28, <1>29, <1>30, <1>31, <1>32, <1>33, <1>34, <1>35
     DEF Next, PasoLanzador, PasoSupervisor, Borra, SaleDelBucle, Suicidio, Muere

\* Records belong to the launchers whose tPos names them.
THEOREM Inv2Invariante == Spec => []Inv2
<1>1. Init => Inv2
  BY Inv2Init
<1>2. Inv1 /\ Inv2 /\ [Next]_vars => Inv2'
  BY Inv2Paso
<1> QED
  BY <1>1, <1>2, Inv1Invariante, PTL DEF Spec
-----------------------------------------------------------------------------
(* Third layer: the counter.  Between num_proc_registrados++ and the write    *)
(* of the pid it is one ahead of the table, and a launcher stopped there      *)
(* leaves it one ahead for good; a removal takes one from the counter before  *)
(* it takes a record from the table, so whatever two removals of one record   *)
(* do, the counter is never ahead by more than that.                          *)

\* The records in use are finitely many.
LEMMA OcupadosFinito ==
  IsFiniteSet(Ocupados) /\ Cardinality(Ocupados) \in Nat
<1>1. IsFiniteSet(Registros)
  BY FS_Interval, ConstantesAssumption DEF Registros
<1>2. IsFiniteSet(Ocupados)
  BY <1>1, FS_Subset DEF Ocupados
<1> QED
  BY <1>2, FS_CardinalityType

\* Before anything runs the counter is zero.
LEMMA InvNumInit == Init => InvNum
<1> SUFFICES ASSUME Init PROVE InvNum
  OBVIOUS
<1>1. IsFiniteSet(rotos) /\ Cardinality(rotos) = 0
  BY FS_EmptySet DEF Init
<1> QED
  BY <1>1, OcupadosFinito DEF Init, InvNum, Procs

\* A step that leaves the counter, the table and the registrations in
\* progress alone, and does not take the lock to remove, preserves InvNum.
LEMMA NumMarco ==
  ASSUME InvNum, UNCHANGED <<num, pid, rotos>>, Insertando' = Insertando,
         \A p \in Procs : pc'[p] = "bor_cero" => pc[p] = "bor_cero"
  PROVE  InvNum'
BY DEF InvNum, Ocupados

\* A launcher stopped between num_proc_registrados++ and the write of its
\* pid: the unit the counter is ahead passes to rotos.
LEMMA NumCorte ==
  ASSUME Inv1, Inv2, InvNum, NEW p \in Procs, pc[p] = "ins_escribe",
         NEW l, l \notin {"ins_escribe", "bor_cero"}, pc' = [pc EXCEPT ![p] = l],
         rotos' = rotos \cup {p}, UNCHANGED <<num, pid>>
  PROVE  InvNum'
<1>1. p \in Lanzadores /\ p \notin rotos
  BY DEF Inv1, Inv2, InvPapeles, InvMuere, Procs, PCsSupervisor, PCsBorra
<1>2. IsFiniteSet(rotos') /\ Cardinality(rotos') = Cardinality(rotos) + 1
  BY <1>1, FS_AddElement DEF InvNum
<1>3. Ocupados' = Ocupados
  BY DEF Ocupados
<1>4. \A q \in Procs : pc'[q] # "bor_cero"
  BY DEF Inv1, CerrojoExacto, EnCritica, TypeOK
<1>5. num <= Cardinality(Ocupados) + Cardinality(rotos) + 1
  BY DEF InvNum
<1>6. Cardinality(rotos) \in Nat /\ Cardinality(Ocupados) \in Nat /\ num \in Nat
  BY OcupadosFinito, FS_CardinalityType DEF InvNum, Inv1, TypeOK
<1> QED
  BY <1>2, <1>3, <1>4, <1>5, <1>6 DEF InvNum

\* The end of a process preserves InvNum.
LEMMA AcabaNum ==
  ASSUME Inv1, Inv2, InvNum, NEW p \in Procs, Acaba(p)
  PROVE  InvNum'
<1>1. CASE pc[p] = "ins_escribe"
  BY <1>1, NumCorte DEF Acaba, Va
<1>2. CASE pc[p] # "ins_escribe"
  BY <1>2, NumMarco DEF Acaba, Va, Insertando, Inv1, TypeOK, Procs
<1> QED
  BY <1>1, <1>2

\* While the semaphore is free nobody is between the two writes of a
\* registration, so the counter is within the records in use and rotos.
LEMMA LibreSinInsertar ==
  Inv1 /\ sem = 1 => Insertando = {}
BY DEF Inv1, CerrojoExacto, Insertando, EnCritica, Procs, Dueno, TypeOK

\* num_proc_registrados++ : one ahead.
LEMMA InsertaEntraNum ==
  ASSUME Inv1, Inv2, InvNum, NEW p \in Lanzadores, InsertaEntra(p)
  PROVE  InvNum'
<1> USE ConstantesAssumption DEF Procs
<1>1. sem = 1 /\ num' = num + 1 /\ pid' = pid /\ rotos' = rotos
        /\ pc' = [pc EXCEPT ![p] = "ins_escribe"]
  BY DEF InsertaEntra, Lock, Va, Inv1, TypeOK
<1>2. num <= Cardinality(Ocupados) + Cardinality(rotos)
  BY <1>1, LibreSinInsertar DEF InvNum
<1>3. Insertando' # {}
  BY <1>1 DEF Insertando, Inv1, TypeOK
<1>4. \A q \in Procs : pc[q] # "bor_cero"
  BY <1>1 DEF Inv1, CerrojoExacto, EnCritica, TypeOK
<1>5. \A q \in Procs : pc'[q] # "bor_cero"
  BY <1>1, <1>4 DEF Inv1, TypeOK
<1>6. Ocupados' = Ocupados
  BY <1>1 DEF Ocupados
<1>7. Cardinality(rotos) \in Nat /\ Cardinality(Ocupados) \in Nat /\ num \in Nat
  BY OcupadosFinito, FS_CardinalityType DEF InvNum, Inv1, TypeOK
<1>8. IsFiniteSet(rotos)
  BY DEF InvNum
<1> QED
  BY <1>1, <1>2, <1>3, <1>5, <1>6, <1>7, <1>8 DEF InvNum

\* The pid is written: the table catches up.
LEMMA InsertaEscribeNum ==
  ASSUME Inv1, Inv2, InvNum, NEW p \in Lanzadores, InsertaEscribe(p)
  PROVE  InvNum'
<1> USE ConstantesAssumption DEF Procs
<1>1. tPos[p] \in Registros /\ pid[tPos[p]] = SinPid
  BY DEF InsertaEscribe, Inv2, InvInserta
<1>2. Ocupados' = Ocupados \cup {tPos[p]} /\ tPos[p] \notin Ocupados
  BY <1>1 DEF InsertaEscribe, Ocupados, Inv1, TypeOK
<1>3. Cardinality(Ocupados') = Cardinality(Ocupados) + 1
  BY <1>2, OcupadosFinito, FS_AddElement
<1>4. \A q \in Procs : pc[q] # "bor_cero"
  BY DEF InsertaEscribe, Inv1, CerrojoExacto, EnCritica, TypeOK
<1>5. \A q \in Procs : pc'[q] # "bor_cero"
  BY <1>4 DEF InsertaEscribe, Va, Inv1, TypeOK
<1>6. Cardinality(rotos) \in Nat /\ Cardinality(Ocupados) \in Nat /\ num \in Nat
  BY OcupadosFinito, FS_CardinalityType DEF InvNum, Inv1, TypeOK
<1>7. IsFiniteSet(rotos) /\ num <= Cardinality(Ocupados) + Cardinality(rotos) + 1
        /\ num' = num /\ rotos' = rotos
  BY DEF InvNum, InsertaEscribe
<1> QED
  BY <1>3, <1>5, <1>6, <1>7 DEF InvNum

\* num_proc_registrados-- : one behind, unless it was zero.
LEMMA BorraLockNum ==
  ASSUME Inv1, Inv2, InvNum, NEW p \in Procs, BorraLock(p)
  PROVE  InvNum'
<1>1. sem = 1 /\ pid' = pid /\ rotos' = rotos
        /\ num' = IF num > 0 THEN num - 1 ELSE num
  BY DEF BorraLock, Lock, Inv1, TypeOK
<1>2. num <= Cardinality(Ocupados) + Cardinality(rotos)
  BY <1>1, LibreSinInsertar DEF InvNum
<1>3. Ocupados' = Ocupados
  BY <1>1 DEF Ocupados
<1>4. Cardinality(rotos) \in Nat /\ Cardinality(Ocupados) \in Nat /\ num \in Nat
  BY OcupadosFinito, FS_CardinalityType DEF InvNum, Inv1, TypeOK
<1>5. IsFiniteSet(rotos)
  BY DEF InvNum
<1>6. num' <= Cardinality(Ocupados) + Cardinality(rotos)
        /\ (num' = 0 \/ num' + 1 <= Cardinality(Ocupados) + Cardinality(rotos))
  BY <1>1, <1>2, <1>4
<1>7. num' \in Nat
  BY <1>1, <1>4
<1> QED
  BY <1>1, <1>3, <1>4, <1>5, <1>6, <1>7 DEF InvNum

\* The record is cleared; it may have been cleared before.
LEMMA BorraCeroNum ==
  ASSUME Inv1, Inv2, InvNum, NEW p \in Procs, BorraCero(p)
  PROVE  InvNum'
<1>1. num' = num /\ rotos' = rotos /\ pc' = [pc EXCEPT ![p] = "bor_suma"]
        /\ pc[p] = "bor_cero"
  BY DEF BorraCero, Va
<1>2. Ocupados' = Ocupados \ {id[p]}
  BY DEF BorraCero, Ocupados, Inv1, TypeOK
<1>3. /\ Cardinality(Ocupados') \in {Cardinality(Ocupados), Cardinality(Ocupados) - 1}
      /\ Cardinality(Ocupados') \in Nat
  BY <1>2, OcupadosFinito, FS_RemoveElement, FS_CardinalityType
<1>4. num = 0 \/ num + 1 <= Cardinality(Ocupados) + Cardinality(rotos)
  BY <1>1 DEF InvNum
<1>5. \A q \in Procs : pc'[q] # "bor_cero"
  BY <1>1 DEF Inv1, CerrojoExacto, EnCritica, TypeOK
<1>6. Cardinality(rotos) \in Nat /\ Cardinality(Ocupados) \in Nat /\ num \in Nat
  BY OcupadosFinito, FS_CardinalityType DEF InvNum, Inv1, TypeOK
<1>7. IsFiniteSet(rotos)
  BY DEF InvNum
<1> QED
  BY <1>1, <1>3, <1>4, <1>5, <1>6, <1>7 DEF InvNum

\* Every step preserves InvNum.
LEMMA InvNumPaso == Inv1 /\ Inv2 /\ InvNum /\ [Next]_vars => InvNum'
<1> SUFFICES ASSUME Inv1, Inv2, InvNum, [Next]_vars PROVE InvNum'
  OBVIOUS
<1> USE DEF Inv1, TypeOK, Procs, Insertando, Va, memoria, senales, locales
<1>1. ASSUME NEW p \in Lanzadores, ArrancaLanzador(p) PROVE InvNum'
  BY <1>1, NumMarco DEF ArrancaLanzador
<1>2. ASSUME NEW p \in Lanzadores, InsertaEntra(p) PROVE InvNum'
  BY <1>2, InsertaEntraNum
<1>3. ASSUME NEW p \in Lanzadores, InsertaLlena(p) PROVE InvNum'
  BY <1>3, NumMarco DEF InsertaLlena
<1>4. ASSUME NEW p \in Lanzadores, InsertaEscribe(p) PROVE InvNum'
  BY <1>4, InsertaEscribeNum
<1>5. ASSUME NEW p \in Lanzadores, InsertaSale(p) PROVE InvNum'
  BY <1>5, NumMarco DEF InsertaSale
<1>6. ASSUME NEW p \in Lanzadores, ChequeoBorra(p) PROVE InvNum'
  BY <1>6, NumMarco DEF ChequeoBorra
<1>7. ASSUME NEW p \in Lanzadores, ChequeoSigue(p) PROVE InvNum'
  BY <1>7, NumMarco DEF ChequeoSigue
<1>8. ASSUME NEW p \in Lanzadores, ChequeoFin(p) PROVE InvNum'
  BY <1>8, NumMarco DEF ChequeoFin
<1>9. ASSUME NEW p \in Lanzadores, Atiende(p) PROVE InvNum'
  BY <1>9, NumMarco DEF Atiende
<1>10. ASSUME NEW p \in Lanzadores, RecibeTerm(p) PROVE InvNum'
  <2>1. CASE p \in armado /\ pc[p] = "ins_escribe"
    BY <1>10, <2>1, NumCorte DEF RecibeTerm
  <2>2. CASE p \in armado /\ pc[p] # "ins_escribe"
    BY <1>10, <2>2, NumMarco DEF RecibeTerm
  <2>3. CASE p \notin armado
    <3>1. Acaba(p)
      BY <1>10, <2>3 DEF RecibeTerm
    <3> QED
      BY <3>1, AcabaNum
  <2> QED
    BY <2>1, <2>2, <2>3
<1>11. ASSUME NEW p \in Procs, EnviaTerm(p) PROVE InvNum'
  BY <1>11, NumMarco DEF EnviaTerm
<1>12. ASSUME NEW p \in Procs, BorraVacio(p) PROVE InvNum'
  BY <1>12, NumMarco DEF BorraVacio
<1>13. ASSUME NEW p \in Procs, BorraMira(p) PROVE InvNum'
  BY <1>13, NumMarco DEF BorraMira
<1>14. ASSUME NEW p \in Procs, BorraLock(p) PROVE InvNum'
  BY <1>14, BorraLockNum
<1>15. ASSUME NEW p \in Procs, BorraCero(p) PROVE InvNum'
  BY <1>15, BorraCeroNum
<1>16. ASSUME NEW p \in Procs, BorraSuma(p) PROVE InvNum'
  BY <1>16, NumMarco DEF BorraSuma
<1>17. ASSUME NEW q \in Supervisores, ArrancaSupervisor(q) PROVE InvNum'
  BY <1>17, NumMarco DEF ArrancaSupervisor
<1>18. ASSUME NEW q \in Supervisores, LimpiaEmpieza(q) PROVE InvNum'
  BY <1>18, NumMarco DEF LimpiaEmpieza
<1>19. ASSUME NEW q \in Supervisores, LimpiaFin(q) PROVE InvNum'
  BY <1>19, NumMarco DEF LimpiaFin, Olvida
<1>20. ASSUME NEW q \in Supervisores, LimpiaVacio(q) PROVE InvNum'
  BY <1>20, NumMarco DEF LimpiaVacio
<1>21. ASSUME NEW q \in Supervisores, LimpiaMuerto(q) PROVE InvNum'
  BY <1>21, NumMarco DEF LimpiaMuerto
<1>22. ASSUME NEW q \in Supervisores, LimpiaVivo(q) PROVE InvNum'
  BY <1>22, NumMarco DEF LimpiaVivo
<1>30. ASSUME NEW q \in Supervisores, LimpiaOcupado(q) PROVE InvNum'
  BY <1>30, NumMarco DEF LimpiaOcupado
<1>31. ASSUME NEW q \in Supervisores, LimpiaFecha(q) PROVE InvNum'
  BY <1>31, NumMarco DEF LimpiaFecha
<1>32. ASSUME NEW q \in Supervisores, LimpiaPid(q) PROVE InvNum'
  BY <1>32, NumMarco DEF LimpiaPid
<1>33. ASSUME NEW q \in Supervisores, SupLock(q) PROVE InvNum'
  BY <1>33, NumMarco DEF SupLock
<1>34. ASSUME NEW q \in Supervisores, SupUnlock(q) PROVE InvNum'
  BY <1>34, NumMarco DEF SupUnlock
<1>35. ASSUME NEW q \in Supervisores, CleanUp(q) PROVE InvNum'
  BY <1>35, NumMarco DEF CleanUp, Olvida, InvPapeles, PCsSupervisor, PCsBorra
<1>23. ASSUME NEW q \in Supervisores, LimpiaInactivo(q) PROVE InvNum'
  BY <1>23, NumMarco DEF LimpiaInactivo
<1>24. ASSUME NEW q \in Supervisores, LimpiaActivo(q) PROVE InvNum'
  BY <1>24, NumMarco DEF LimpiaActivo
<1>25. ASSUME NEW q \in Supervisores, LimpiaHuerfano(q) PROVE InvNum'
  BY <1>25, NumMarco DEF LimpiaHuerfano
<1>26. ASSUME NEW q \in Supervisores, LimpiaSigue(q) PROVE InvNum'
  BY <1>26, NumMarco DEF LimpiaSigue
<1>27. ASSUME NEW p \in Procs, Acaba(p) PROVE InvNum'
  BY <1>27, AcabaNum
<1>28. CASE CaeApache
  BY <1>28, NumMarco DEF CaeApache
<1>29. CASE UNCHANGED vars
  BY <1>29, NumMarco DEF vars
<1> QED
  BY <1>1, <1>2, <1>3, <1>4, <1>5, <1>6, <1>7, <1>8, <1>9, <1>10, <1>11, <1>12, <1>13,
     <1>14, <1>15, <1>16, <1>17, <1>18, <1>19, <1>20, <1>21, <1>22, <1>23, <1>24, <1>25, <1>26,
     <1>27, <1>28, <1>29, <1>30, <1>31, <1>32, <1>33, <1>34, <1>35
     DEF Next, PasoLanzador, PasoSupervisor, Borra, SaleDelBucle, Suicidio, Muere

-----------------------------------------------------------------------------
\* The inductive invariant holds of every behaviour.
THEOREM IInvInvariante == Spec => []IInv
<1>1. Init => Inv1 /\ Inv2 /\ InvNum
  BY Inv1Init, Inv2Init, InvNumInit
<1>2. Inv1 /\ Inv2 /\ InvNum /\ [Next]_vars => (Inv1 /\ Inv2 /\ InvNum)'
  BY Inv1Paso, Inv2Paso, InvNumPaso
<1>3. Inv1 /\ Inv2 /\ InvNum => IInv
  BY DEF Inv1, Inv2, IInv
<1> QED
  BY <1>1, <1>2, <1>3, PTL DEF Spec

\* The types of the table, the semaphore and the processes' registers.
THEOREM Tipos == Spec => []TypeOK
<1>1. IInv => TypeOK
  BY DEF IInv
<1> QED
  BY <1>1, IInvInvariante, PTL

\* The semaphore protects the table whoever is killed and wherever.
THEOREM Cerrojo == Spec => []CerrojoExacto
<1>1. IInv => CerrojoExacto
  BY DEF IInv
<1> QED
  BY <1>1, IInvInvariante, PTL

\* No launcher ever has two records.
THEOREM Propio == Spec => []RegistroPropio
<1>1. IInv => RegistroPropio
  BY DEF IInv
<1> QED
  BY <1>1, IInvInvariante, PTL

\* num_proc_registrados never counts launchers that are not there, except one
\* for each launcher stopped between its two writes.
THEOREM NoExcede == Spec => []NumNuncaExcede
<1>1. IInv => NumNuncaExcede
  BY LibreSinInsertar DEF IInv, Inv1, InvNum, NumNuncaExcede
<1> QED
  BY <1>1, IInvInvariante, PTL

-----------------------------------------------------------------------------
(* ApiShm implements Registro. *)

\* The process with an undo entry is the owner.
LEMMA DuenoEs ==
  ASSUME CerrojoExacto, NEW p \in Procs, Dueno(p)
  PROVE  duenoActual = p
<1>1. \A q \in Procs : Dueno(q) => q = p
  BY DEF CerrojoExacto
<1> QED
  BY <1>1 DEF duenoActual

\* Without undo entries the lock has no owner.
LEMMA DuenoNadie ==
  ASSUME \A p \in Procs : ~Dueno(p)
  PROVE  duenoActual = Nadie
BY DEF duenoActual

\* Lock() is Toma.
LEMMA LockEsToma ==
  ASSUME Inv1, Inv1', NEW p \in Procs, Lock(p), pid' = pid
  PROVE  Abstracto!Toma(p)
<1>1. \A q \in Procs : ~Dueno(q)
  BY DEF Lock, Inv1, CerrojoExacto, TypeOK
<1>2. Dueno(p)'
  BY <1>1 DEF Lock, Dueno, Inv1, TypeOK
<1>3. duenoActual' = p
  BY <1>2, DuenoEs DEF Inv1, CerrojoExacto, duenoActual
<1> QED
  BY <1>1, <1>3, DuenoNadie DEF Abstracto!Toma

\* Unlock() and the end of the owner are Suelta.
LEMMA SueltaEs ==
  ASSUME Inv1, NEW p \in Procs, undo[p] = 1, undo' = [undo EXCEPT ![p] = 0],
         pid' = pid
  PROVE  Abstracto!Suelta(p)
<1>1. duenoActual = p
  BY DuenoEs DEF Inv1, Dueno
<1>2. \A q \in Procs : ~(undo'[q] = 1)
  BY DEF Inv1, CerrojoExacto, Dueno, TypeOK
<1>3. duenoActual' = Nadie
  BY <1>2 DEF duenoActual, Dueno
<1> QED
  BY <1>1, <1>3 DEF Abstracto!Suelta

\* A step that changes neither the undo entries nor the pids stutters.
LEMMA Balbuceo ==
  ASSUME UNCHANGED <<undo, pid>>
  PROVE  UNCHANGED Abstracto!vars
BY DEF Abstracto!vars, duenoActual, Dueno

\* The end of a process releases the lock or does nothing.
LEMMA AcabaImplementa ==
  ASSUME Inv1, NEW p \in Procs, Acaba(p)
  PROVE  Abstracto!Suelta(p) \/ UNCHANGED Abstracto!vars
<1>1. CASE undo[p] = 1
  BY <1>1, SueltaEs DEF Acaba
<1>2. CASE undo[p] = 0
  BY <1>2, Balbuceo DEF Acaba, Inv1, TypeOK
<1> QED
  BY <1>1, <1>2 DEF Inv1, TypeOK

\* The write of the pid is Inscribe: the launcher owns the lock, the record
\* is free and no record has its pid.
LEMMA InsertaEscribeImplementa ==
  ASSUME Inv1, Inv2, NEW p \in Lanzadores, InsertaEscribe(p)
  PROVE  \E s \in Registros : Abstracto!Inscribe(p, s)
<1> USE DEF Procs
<1>1. duenoActual = p
  BY DuenoEs DEF InsertaEscribe, Inv1, CerrojoExacto, EnCritica
<1>2. tPos[p] \in Registros /\ pid[tPos[p]] = SinPid
  BY DEF InsertaEscribe, Inv2, InvInserta
<1>3. \A r \in Registros : pid[r] # p
  BY <1>2, ConstantesAssumption DEF Inv2, RegistroPropio, Ocupados
<1>4. duenoActual' = duenoActual
  BY DEF InsertaEscribe, duenoActual, Dueno
<1> QED
  BY <1>1, <1>2, <1>3, <1>4 DEF Abstracto!Inscribe, InsertaEscribe

\* Clearing the pid is Retira, of a record in use or of one already cleared.
LEMMA BorraCeroImplementa ==
  ASSUME Inv1, NEW p \in Procs, BorraCero(p)
  PROVE  (\E s \in Registros : Abstracto!Retira(p, s)) \/ UNCHANGED Abstracto!vars
<1>1. duenoActual = p
  BY DuenoEs DEF BorraCero, Inv1, CerrojoExacto, EnCritica
<1>2. duenoActual' = duenoActual
  BY DEF BorraCero, duenoActual, Dueno
<1>3. CASE id[p] \in Registros
  BY <1>1, <1>2, <1>3 DEF Abstracto!Retira, BorraCero
<1>4. CASE id[p] \notin Registros
  <2>1. pid' = pid
    BY <1>4 DEF BorraCero, Inv1, TypeOK
  <2> QED
    BY <2>1, Balbuceo DEF BorraCero
<1> QED
  BY <1>3, <1>4

\* Every step of ApiShm is a step of Registro or stutters.
LEMMA PasoImplementa ==
  Inv1 /\ Inv1' /\ Inv2 /\ [Next]_vars => [Abstracto!Next]_(Abstracto!vars)
<1> SUFFICES ASSUME Inv1, Inv1', Inv2, [Next]_vars
             PROVE  Abstracto!Next \/ UNCHANGED Abstracto!vars
  OBVIOUS
<1> USE DEF Procs, memoria, senales, locales
<1>1. ASSUME NEW p \in Lanzadores, InsertaEntra(p) PROVE Abstracto!Next
  BY <1>1, LockEsToma DEF InsertaEntra, Abstracto!Next
<1>2. ASSUME NEW p \in Procs, BorraLock(p) \/ SupLock(p) PROVE Abstracto!Next
  BY <1>2, LockEsToma DEF BorraLock, SupLock, Abstracto!Next
<1>3. ASSUME NEW p \in Procs, InsertaSale(p) \/ BorraSuma(p) \/ SupUnlock(p)
      PROVE  Abstracto!Next
  <2>1. undo[p] = 1
    BY <1>3 DEF InsertaSale, BorraSuma, SupUnlock, Inv1, CerrojoExacto, EnCritica, Dueno
  <2>2. undo' = [undo EXCEPT ![p] = 0] /\ pid' = pid
    BY <1>3, <2>1 DEF InsertaSale, BorraSuma, SupUnlock, Unlock, Inv1, TypeOK
  <2> QED
    BY <2>1, <2>2, SueltaEs DEF Abstracto!Next
<1>4. ASSUME NEW p \in Lanzadores, InsertaEscribe(p) PROVE Abstracto!Next
  BY <1>4, InsertaEscribeImplementa DEF Abstracto!Next
<1>5. ASSUME NEW p \in Procs, BorraCero(p)
      PROVE  Abstracto!Next \/ UNCHANGED Abstracto!vars
  BY <1>5, BorraCeroImplementa DEF Abstracto!Next
<1>6. ASSUME NEW p \in Procs, Acaba(p)
      PROVE  Abstracto!Next \/ UNCHANGED Abstracto!vars
  BY <1>6, AcabaImplementa DEF Abstracto!Next
<1>7. ASSUME NEW p \in Lanzadores, RecibeTerm(p)
      PROVE  Abstracto!Next \/ UNCHANGED Abstracto!vars
  BY <1>6, <1>7, Balbuceo DEF RecibeTerm
<1>8. ASSUME NEW p \in Lanzadores,
             \/ ArrancaLanzador(p) \/ InsertaLlena(p) \/ Atiende(p)
             \/ ChequeoBorra(p) \/ ChequeoSigue(p) \/ ChequeoFin(p)
      PROVE  UNCHANGED Abstracto!vars
  BY <1>8, Balbuceo DEF ArrancaLanzador, InsertaLlena, Atiende,
       ChequeoBorra, ChequeoSigue, ChequeoFin
<1>9. ASSUME NEW p \in Procs, BorraVacio(p) \/ BorraMira(p) \/ EnviaTerm(p)
      PROVE  UNCHANGED Abstracto!vars
  BY <1>9, Balbuceo DEF BorraVacio, BorraMira, EnviaTerm
<1>10. ASSUME NEW q \in Supervisores,
              \/ ArrancaSupervisor(q) \/ LimpiaEmpieza(q) \/ LimpiaFin(q)
              \/ LimpiaVacio(q) \/ LimpiaOcupado(q) \/ LimpiaMuerto(q)
              \/ LimpiaVivo(q) \/ LimpiaFecha(q) \/ LimpiaPid(q)
              \/ LimpiaInactivo(q) \/ LimpiaActivo(q) \/ LimpiaHuerfano(q)
              \/ LimpiaSigue(q) \/ CleanUp(q)
       PROVE  UNCHANGED Abstracto!vars
  BY <1>10, Balbuceo DEF ArrancaSupervisor, LimpiaEmpieza, LimpiaFin,
       LimpiaVacio, LimpiaOcupado, LimpiaMuerto, LimpiaVivo, LimpiaFecha, LimpiaPid,
       LimpiaInactivo, LimpiaActivo, LimpiaHuerfano, LimpiaSigue, CleanUp
<1>11. CASE CaeApache
  BY <1>11, Balbuceo DEF CaeApache
<1>12. CASE UNCHANGED vars
  BY <1>12, Balbuceo DEF vars
<1> QED
  BY <1>1, <1>2, <1>3, <1>4, <1>5, <1>6, <1>7, <1>8, <1>9, <1>10, <1>11, <1>12
     DEF Next, PasoLanzador, PasoSupervisor, Borra, SaleDelBucle, Suicidio, Muere

\* The code's table implements the abstract one: no record is written or
\* cleared outside the lock, whatever the interleaving, the kills and the
\* signals.
THEOREM Implementa == Spec => ImplementaRegistro
<1>1. Init => Abstracto!Init
  BY DuenoNadie DEF Init, Abstracto!Init, Dueno
<1>2. Inv1 /\ Inv1' /\ Inv2 /\ [Next]_vars => [Abstracto!Next]_(Abstracto!vars)
  BY PasoImplementa
<1> QED
  BY <1>1, <1>2, Inv1Invariante, Inv2Invariante, PTL
     DEF Spec, ImplementaRegistro, Abstracto!Spec

-----------------------------------------------------------------------------
(* Whoever waits for the semaphore waits for a process that goes on, unless  *)
(* SIGTERM caught that process with it, and what is under way comes nearer   *)
(* to its end with every step of its process.                                *)
EnManejador(p) == p \in Lanzadores /\ vuelve[p] = "muere"

\* The owner of the semaphore is inside the critical section, or SIGTERM took it
\* out of it.
InvDueno ==
  \A p \in Procs : Dueno(p) =>
    \/ pc[p] \in EnCritica
    \/ EnManejador(p) /\ pc[p] \in {"bor_mira", "bor_lock", "suicidio"}
    \/ p \in Supervisores /\ pc[p] = "cleanup"

\* Whoever has the semaphore is where nothing is waited for.
DuenoSigue ==
  sem = 0 =>
    \/ Atascado
    \/ \E p \in Procs :
         /\ Dueno(p)
         /\ pc[p] \in EnCritica \/ (EnManejador(p) /\ pc[p] \in {"bor_mira", "suicidio"})

\* It registers, sweeps, removes a record or is in a critical section; and where
\* that ends, in the supervisor's CleanUp too.
Final == {"acepta", "reposo", "cleanup", "muerto"}
EnMarcha(p) == pc[p] \notin Final \cup {"nuevo"}

\* What is left to do: the registration and then the sweep, or the handler; of
\* a sweep the records from id on; and of a record, where the sweep is with it.
Etapa(l, v) ==
  CASE v = "muere" -> 0
    [] v # "muere" /\ l = "inserta" -> 4
    [] v # "muere" /\ l = "ins_escribe" -> 3
    [] v # "muere" /\ l = "ins_sale" -> 2
    [] OTHER -> 1
Tramo(l, v) ==
  LET b == IF v = "inactivo" THEN 5 ELSE 0
  IN  CASE l \in {"chequeo", "limpia"} -> 14 [] l = "lim_existe" -> 13
        [] l = "lim_fecha" -> 12 [] l = "lim_pid" -> 11 [] l = "lim_inactivo" -> 10
        [] l = "bor_mira" -> b + 4 [] l = "bor_lock" -> b + 3
        [] l = "bor_cero" -> b + 2 [] l = "bor_suma" -> b + 1
        [] l = "lim_padre" -> 5 [] OTHER -> 0

Adelanta(p) ==
  \/ pc'[p] \in Final
  \/ Etapa(pc'[p], vuelve'[p]) < Etapa(pc[p], vuelve[p])
  \/ /\ Etapa(pc'[p], vuelve'[p]) = Etapa(pc[p], vuelve[p])
     /\ \/ id'[p] > id[p]
        \/ id'[p] = id[p] /\ Tramo(pc'[p], vuelve'[p]) < Tramo(pc[p], vuelve[p])
Quieto(p) == pc'[p] = pc[p] /\ id'[p] = id[p] /\ vuelve'[p] = vuelve[p]

\* The end of a process is the end of its work, and takes the semaphore from it.
LEMMA AcabaAvanza ==
  ASSUME Inv1, InvDueno, NEW r \in Procs, Acaba(r)
  PROVE  InvDueno' /\ \A p \in Procs : Adelanta(p) \/ Quieto(p)
<1> USE DEF Inv1, TypeOK, Acaba, Va, locales
<1>1. InvDueno'
  BY DEF InvDueno, Dueno, EnManejador
<1>2. ASSUME NEW p \in Procs PROVE Adelanta(p) \/ Quieto(p)
  BY DEF Adelanta, Quieto, Final
<1> QED BY <1>1, <1>2

\* The owner of the semaphore stays where InvDueno has it.
LEMMA DuenoPaso == Inv1 /\ InvMuere /\ InvDueno /\ [Next]_vars => InvDueno'
<1> SUFFICES ASSUME Inv1, InvMuere, InvDueno, [Next]_vars PROVE InvDueno'
  OBVIOUS
<1> USE ConstantesAssumption
    DEF Inv1, TypeOK, CerrojoExacto, InvPapeles, InvDueno, EnManejador, Dueno, Procs, Va, Lock, Unlock,
        EnCritica, memoria, senales, locales
<1>1. ASSUME NEW r \in Lanzadores, ArrancaLanzador(r) PROVE InvDueno'
  BY <1>1 DEF ArrancaLanzador
<1>2. ASSUME NEW r \in Lanzadores, InsertaEntra(r) PROVE InvDueno'
  BY <1>2 DEF InsertaEntra
<1>3. ASSUME NEW r \in Lanzadores, InsertaLlena(r) PROVE InvDueno'
  BY <1>3 DEF InsertaLlena
<1>4. ASSUME NEW r \in Lanzadores, InsertaEscribe(r) PROVE InvDueno'
  BY <1>4 DEF InsertaEscribe
<1>5. ASSUME NEW r \in Lanzadores, InsertaSale(r) PROVE InvDueno'
  BY <1>5 DEF InsertaSale
<1>6. ASSUME NEW r \in Lanzadores, ChequeoBorra(r) PROVE InvDueno'
  BY <1>6 DEF ChequeoBorra
<1>7. ASSUME NEW r \in Lanzadores, ChequeoSigue(r) PROVE InvDueno'
  BY <1>7 DEF ChequeoSigue
<1>8. ASSUME NEW r \in Lanzadores, ChequeoFin(r) PROVE InvDueno'
  BY <1>8 DEF ChequeoFin
<1>9. ASSUME NEW r \in Lanzadores, Atiende(r) PROVE InvDueno'
  BY <1>9 DEF Atiende
<1>10. ASSUME NEW r \in Procs, EnviaTerm(r) PROVE InvDueno'
  BY <1>10 DEF EnviaTerm
<1>11. ASSUME NEW r \in Procs, BorraMira(r) PROVE InvDueno'
  BY <1>11 DEF BorraMira
<1>12. ASSUME NEW r \in Procs, BorraLock(r) PROVE InvDueno'
  BY <1>12 DEF BorraLock
<1>13. ASSUME NEW r \in Procs, BorraCero(r) PROVE InvDueno'
  BY <1>13 DEF BorraCero
<1>14. ASSUME NEW r \in Procs, BorraVacio(r) PROVE InvDueno'
  <2>1. CASE vuelve[r] = "muere"
    BY <1>14, <2>1 DEF BorraVacio
  <2>2. CASE vuelve[r] = "inactivo"
    BY <1>14, <2>2 DEF BorraVacio
  <2>3. CASE vuelve[r] \in {"chequeo", "limpia"}
    BY <1>14, <2>3 DEF BorraVacio
  <2> QED BY <2>1, <2>2, <2>3
<1>15. ASSUME NEW r \in Procs, BorraSuma(r) PROVE InvDueno'
  <2>1. CASE vuelve[r] = "muere"
    BY <1>15, <2>1 DEF BorraSuma
  <2>2. CASE vuelve[r] = "chequeo"
    BY <1>15, <2>2 DEF BorraSuma
  <2>3. CASE vuelve[r] \in {"limpia", "inactivo"}
    BY <1>15, <2>3 DEF BorraSuma, VuelveAlPadre
  <2> QED BY <2>1, <2>2, <2>3
<1>16. ASSUME NEW r \in Lanzadores, RecibeTerm(r) PROVE InvDueno'
  <2>1. CASE r \in armado
    BY <1>16, <2>1 DEF RecibeTerm, Vivo
  <2>2. CASE r \notin armado
    <3>1. Acaba(r)
      BY <1>16, <2>2 DEF RecibeTerm
    <3> QED BY <3>1, AcabaAvanza
  <2> QED BY <2>1, <2>2
<1>17. ASSUME NEW r \in Supervisores, ArrancaSupervisor(r) PROVE InvDueno'
  BY <1>17 DEF ArrancaSupervisor
<1>18. ASSUME NEW r \in Supervisores, LimpiaEmpieza(r) PROVE InvDueno'
  BY <1>18 DEF LimpiaEmpieza
<1>19. ASSUME NEW r \in Supervisores, LimpiaFin(r) PROVE InvDueno'
  BY <1>19 DEF LimpiaFin, Olvida, Olvida
<1>20. ASSUME NEW r \in Supervisores, LimpiaVacio(r) PROVE InvDueno'
  BY <1>20 DEF LimpiaVacio
<1>21. ASSUME NEW r \in Supervisores, LimpiaMuerto(r) PROVE InvDueno'
  BY <1>21 DEF LimpiaMuerto
<1>22. ASSUME NEW r \in Supervisores, LimpiaVivo(r) PROVE InvDueno'
  BY <1>22 DEF LimpiaVivo
<1>30. ASSUME NEW r \in Supervisores, LimpiaOcupado(r) PROVE InvDueno'
  BY <1>30 DEF LimpiaOcupado
<1>31. ASSUME NEW r \in Supervisores, LimpiaFecha(r) PROVE InvDueno'
  BY <1>31 DEF LimpiaFecha
<1>32. ASSUME NEW r \in Supervisores, LimpiaPid(r) PROVE InvDueno'
  BY <1>32 DEF LimpiaPid
<1>33. ASSUME NEW r \in Supervisores, SupLock(r) PROVE InvDueno'
  BY <1>33 DEF SupLock
<1>34. ASSUME NEW r \in Supervisores, SupUnlock(r) PROVE InvDueno'
  BY <1>34 DEF SupUnlock
<1>35. ASSUME NEW r \in Supervisores, CleanUp(r) PROVE InvDueno'
  BY <1>35 DEF CleanUp, Olvida
<1>23. ASSUME NEW r \in Supervisores, LimpiaInactivo(r) PROVE InvDueno'
  BY <1>23 DEF LimpiaInactivo
<1>24. ASSUME NEW r \in Supervisores, LimpiaActivo(r) PROVE InvDueno'
  BY <1>24 DEF LimpiaActivo
<1>25. ASSUME NEW r \in Supervisores, LimpiaHuerfano(r) PROVE InvDueno'
  BY <1>25 DEF LimpiaHuerfano
<1>26. ASSUME NEW r \in Supervisores, LimpiaSigue(r) PROVE InvDueno'
  BY <1>26 DEF LimpiaSigue
<1>27. ASSUME NEW r \in Procs, Acaba(r) PROVE InvDueno'
  BY <1>27, AcabaAvanza
<1>28. CASE CaeApache
  BY <1>28 DEF CaeApache
<1>29. CASE UNCHANGED vars
  BY <1>29 DEF vars
<1> QED
  BY <1>1, <1>2, <1>3, <1>4, <1>5, <1>6, <1>7, <1>8, <1>9, <1>10, <1>11, <1>12, <1>13, <1>14, <1>15, <1>16, <1>17, <1>18, <1>19, <1>20, <1>21, <1>22, <1>23, <1>24, <1>25, <1>26, <1>27, <1>28, <1>29, <1>30, <1>31, <1>32, <1>33, <1>34, <1>35
     DEF Next, PasoLanzador, PasoSupervisor, Borra, SaleDelBucle, Suicidio, Muere

\* Every step of a process takes it nearer to the end of what it is doing, and
\* no step of another does anything to that.
LEMMA AvanzaPaso ==
  ASSUME Inv1, InvMuere, InvDueno, [Next]_vars, NEW p \in Procs, EnMarcha(p)
  PROVE  Adelanta(p) \/ Quieto(p)
<1> USE ConstantesAssumption
    DEF Inv1, TypeOK, InvPapeles, InvMuere, EnMarcha, Final, Procs, Va, PCsLanzador, PCsSupervisor, PCsBorra,
        memoria, senales, locales
<1>1. ASSUME NEW r \in Lanzadores, ArrancaLanzador(r) PROVE Adelanta(p) \/ Quieto(p)
  <2>1. CASE p # r
    BY <1>1, <2>1 DEF ArrancaLanzador, Quieto
  <2>2. CASE p = r
    BY <1>1, <2>2 DEF ArrancaLanzador, Adelanta, Final, Quieto, Etapa, Tramo
  <2> QED BY <2>1, <2>2
<1>2. ASSUME NEW r \in Lanzadores, InsertaEntra(r) PROVE Adelanta(p) \/ Quieto(p)
  <2>1. CASE p # r
    BY <1>2, <2>1 DEF InsertaEntra, Quieto
  <2>2. CASE p = r
    BY <1>2, <2>2 DEF InsertaEntra, Adelanta, Final, Quieto, Etapa, Tramo
  <2> QED BY <2>1, <2>2
<1>3. ASSUME NEW r \in Lanzadores, InsertaLlena(r) PROVE Adelanta(p) \/ Quieto(p)
  <2>1. CASE p # r
    BY <1>3, <2>1 DEF InsertaLlena, Quieto
  <2>2. CASE p = r
    BY <1>3, <2>2 DEF InsertaLlena, Adelanta, Final, Quieto, Etapa, Tramo
  <2> QED BY <2>1, <2>2
<1>4. ASSUME NEW r \in Lanzadores, InsertaEscribe(r) PROVE Adelanta(p) \/ Quieto(p)
  <2>1. CASE p # r
    BY <1>4, <2>1 DEF InsertaEscribe, Quieto
  <2>2. CASE p = r
    BY <1>4, <2>2 DEF InsertaEscribe, Adelanta, Final, Quieto, Etapa, Tramo
  <2> QED BY <2>1, <2>2
<1>5. ASSUME NEW r \in Lanzadores, InsertaSale(r) PROVE Adelanta(p) \/ Quieto(p)
  <2>1. CASE p # r
    BY <1>5, <2>1 DEF InsertaSale, Quieto
  <2>2. CASE p = r
    BY <1>5, <2>2 DEF InsertaSale, Adelanta, Final, Quieto, Etapa, Tramo
  <2> QED BY <2>1, <2>2
<1>6. ASSUME NEW r \in Lanzadores, ChequeoBorra(r) PROVE Adelanta(p) \/ Quieto(p)
  <2>1. CASE p # r
    BY <1>6, <2>1 DEF ChequeoBorra, Quieto
  <2>2. CASE p = r
    BY <1>6, <2>2 DEF ChequeoBorra, Adelanta, Final, Quieto, Etapa, Tramo
  <2> QED BY <2>1, <2>2
<1>7. ASSUME NEW r \in Lanzadores, ChequeoSigue(r) PROVE Adelanta(p) \/ Quieto(p)
  <2>1. CASE p # r
    BY <1>7, <2>1 DEF ChequeoSigue, Quieto
  <2>2. CASE p = r
    BY <1>7, <2>2 DEF ChequeoSigue, Adelanta, Final, Quieto, Etapa, Tramo
  <2> QED BY <2>1, <2>2
<1>8. ASSUME NEW r \in Lanzadores, ChequeoFin(r) PROVE Adelanta(p) \/ Quieto(p)
  <2>1. CASE p # r
    BY <1>8, <2>1 DEF ChequeoFin, Quieto
  <2>2. CASE p = r
    BY <1>8, <2>2 DEF ChequeoFin, Adelanta, Final, Quieto, Etapa, Tramo
  <2> QED BY <2>1, <2>2
<1>9. ASSUME NEW r \in Lanzadores, Atiende(r) PROVE Adelanta(p) \/ Quieto(p)
  <2>1. CASE p # r
    BY <1>9, <2>1 DEF Atiende, Quieto
  <2>2. CASE p = r
    BY <1>9, <2>2 DEF Atiende, Adelanta, Final, Quieto, Etapa, Tramo
  <2> QED BY <2>1, <2>2
<1>10. ASSUME NEW r \in Procs, EnviaTerm(r) PROVE Adelanta(p) \/ Quieto(p)
  <2>1. CASE p # r
    BY <1>10, <2>1 DEF EnviaTerm, Quieto
  <2>2. CASE p = r
    BY <1>10, <2>2 DEF EnviaTerm, Adelanta, Final, Quieto, Etapa, Tramo
  <2> QED BY <2>1, <2>2
<1>11. ASSUME NEW r \in Procs, BorraMira(r) PROVE Adelanta(p) \/ Quieto(p)
  <2>1. CASE p # r
    BY <1>11, <2>1 DEF BorraMira, Quieto
  <2>2. CASE p = r
    BY <1>11, <2>2 DEF BorraMira, Adelanta, Final, Quieto, Etapa, Tramo
  <2> QED BY <2>1, <2>2
<1>12. ASSUME NEW r \in Procs, BorraLock(r) PROVE Adelanta(p) \/ Quieto(p)
  <2>1. CASE p # r
    BY <1>12, <2>1 DEF BorraLock, Quieto
  <2>2. CASE p = r
    BY <1>12, <2>2 DEF BorraLock, Adelanta, Final, Quieto, Etapa, Tramo
  <2> QED BY <2>1, <2>2
<1>13. ASSUME NEW r \in Procs, BorraCero(r) PROVE Adelanta(p) \/ Quieto(p)
  <2>1. CASE p # r
    BY <1>13, <2>1 DEF BorraCero, Quieto
  <2>2. CASE p = r
    BY <1>13, <2>2 DEF BorraCero, Adelanta, Final, Quieto, Etapa, Tramo
  <2> QED BY <2>1, <2>2
<1>14. ASSUME NEW r \in Procs, BorraVacio(r) PROVE Adelanta(p) \/ Quieto(p)
  <2>1. CASE p # r
    BY <1>14, <2>1 DEF BorraVacio, Quieto
  <2>2. CASE p = r /\ vuelve[r] = "muere"
    BY <1>14, <2>2 DEF BorraVacio, Adelanta, Final, Quieto, Etapa, Tramo
  <2>3. CASE p = r /\ vuelve[r] = "inactivo"
    BY <1>14, <2>3 DEF BorraVacio, Adelanta, Final, Quieto, Etapa, Tramo
  <2>4. CASE p = r /\ vuelve[r] \in {"chequeo", "limpia"}
    BY <1>14, <2>4 DEF BorraVacio, Adelanta, Final, Quieto, Etapa, Tramo
  <2> QED BY <2>1, <2>2, <2>3, <2>4
<1>15. ASSUME NEW r \in Procs, BorraSuma(r) PROVE Adelanta(p) \/ Quieto(p)
  <2>1. CASE p # r
    BY <1>15, <2>1 DEF BorraSuma, Quieto
  <2>2. CASE p = r /\ vuelve[r] = "muere"
    BY <1>15, <2>2 DEF BorraSuma, VuelveAlPadre, Adelanta, Final, Quieto, Etapa, Tramo
  <2>3. CASE p = r /\ vuelve[r] = "chequeo"
    BY <1>15, <2>3 DEF BorraSuma, VuelveAlPadre, Adelanta, Final, Quieto, Etapa, Tramo
  <2>4. CASE p = r /\ VuelveAlPadre(r)
    BY <1>15, <2>4 DEF BorraSuma, VuelveAlPadre, Adelanta, Final, Quieto, Etapa, Tramo
  <2>5. CASE p = r /\ vuelve[r] \in {"limpia", "inactivo"} /\ ~VuelveAlPadre(r)
    BY <1>15, <2>5 DEF BorraSuma, Adelanta, Final, Quieto, Etapa, Tramo
  <2> QED BY <2>1, <2>2, <2>3, <2>4, <2>5
<1>16. ASSUME NEW r \in Lanzadores, RecibeTerm(r) PROVE Adelanta(p) \/ Quieto(p)
  <2>1. CASE r \in armado /\ p # r
    BY <1>16, <2>1 DEF RecibeTerm, Quieto
  <2>2. CASE r \in armado /\ p = r
    BY <1>16, <2>2 DEF RecibeTerm, Vivo, Adelanta, Final, Quieto, Etapa, Tramo
  <2>3. CASE r \notin armado
    <3>1. Acaba(r)
      BY <1>16, <2>3 DEF RecibeTerm
    <3> QED BY <3>1, AcabaAvanza
  <2> QED BY <2>1, <2>2, <2>3
<1>17. ASSUME NEW r \in Supervisores, ArrancaSupervisor(r) PROVE Adelanta(p) \/ Quieto(p)
  <2>1. CASE p # r
    BY <1>17, <2>1 DEF ArrancaSupervisor, Quieto
  <2>2. CASE p = r
    BY <1>17, <2>2 DEF ArrancaSupervisor, Adelanta, Final, Quieto, Etapa, Tramo
  <2> QED BY <2>1, <2>2
<1>18. ASSUME NEW r \in Supervisores, LimpiaEmpieza(r) PROVE Adelanta(p) \/ Quieto(p)
  <2>1. CASE p # r
    BY <1>18, <2>1 DEF LimpiaEmpieza, Quieto
  <2>2. CASE p = r
    BY <1>18, <2>2 DEF LimpiaEmpieza, Adelanta, Final, Quieto, Etapa, Tramo
  <2> QED BY <2>1, <2>2
<1>19. ASSUME NEW r \in Supervisores, LimpiaFin(r) PROVE Adelanta(p) \/ Quieto(p)
  <2>1. CASE p # r
    BY <1>19, <2>1 DEF LimpiaFin, Olvida, Quieto
  <2>2. CASE p = r
    BY <1>19, <2>2 DEF LimpiaFin, Olvida, Adelanta, Final, Quieto, Etapa, Tramo
  <2> QED BY <2>1, <2>2
<1>20. ASSUME NEW r \in Supervisores, LimpiaVacio(r) PROVE Adelanta(p) \/ Quieto(p)
  <2>1. CASE p # r
    BY <1>20, <2>1 DEF LimpiaVacio, Quieto
  <2>2. CASE p = r
    BY <1>20, <2>2 DEF LimpiaVacio, Adelanta, Final, Quieto, Etapa, Tramo
  <2> QED BY <2>1, <2>2
<1>21. ASSUME NEW r \in Supervisores, LimpiaMuerto(r) PROVE Adelanta(p) \/ Quieto(p)
  <2>1. CASE p # r
    BY <1>21, <2>1 DEF LimpiaMuerto, Quieto
  <2>2. CASE p = r
    BY <1>21, <2>2 DEF LimpiaMuerto, Adelanta, Final, Quieto, Etapa, Tramo
  <2> QED BY <2>1, <2>2
<1>22. ASSUME NEW r \in Supervisores, LimpiaVivo(r) PROVE Adelanta(p) \/ Quieto(p)
  <2>1. CASE p # r
    BY <1>22, <2>1 DEF LimpiaVivo, Quieto
  <2>2. CASE p = r
    BY <1>22, <2>2 DEF LimpiaVivo, Adelanta, Final, Quieto, Etapa, Tramo
  <2> QED BY <2>1, <2>2
<1>30. ASSUME NEW r \in Supervisores, LimpiaOcupado(r) PROVE Adelanta(p) \/ Quieto(p)
  <2>1. CASE p # r
    BY <1>30, <2>1 DEF LimpiaOcupado, Quieto
  <2>2. CASE p = r
    BY <1>30, <2>2 DEF LimpiaOcupado, Adelanta, Final, Quieto, Etapa, Tramo
  <2> QED BY <2>1, <2>2
<1>31. ASSUME NEW r \in Supervisores, LimpiaFecha(r) PROVE Adelanta(p) \/ Quieto(p)
  <2>1. CASE p # r
    BY <1>31, <2>1 DEF LimpiaFecha, Quieto
  <2>2. CASE p = r
    BY <1>31, <2>2 DEF LimpiaFecha, Adelanta, Final, Quieto, Etapa, Tramo
  <2> QED BY <2>1, <2>2
<1>32. ASSUME NEW r \in Supervisores, LimpiaPid(r) PROVE Adelanta(p) \/ Quieto(p)
  <2>1. CASE p # r
    BY <1>32, <2>1 DEF LimpiaPid, Quieto
  <2>2. CASE p = r
    BY <1>32, <2>2 DEF LimpiaPid, Adelanta, Final, Quieto, Etapa, Tramo
  <2> QED BY <2>1, <2>2
<1>33. ASSUME NEW r \in Supervisores, SupLock(r) PROVE Adelanta(p) \/ Quieto(p)
  <2>1. CASE p # r
    BY <1>33, <2>1 DEF SupLock, Quieto
  <2>2. CASE p = r
    BY <1>33, <2>2 DEF SupLock, Adelanta, Final, Quieto, Etapa, Tramo
  <2> QED BY <2>1, <2>2
<1>34. ASSUME NEW r \in Supervisores, SupUnlock(r) PROVE Adelanta(p) \/ Quieto(p)
  <2>1. CASE p # r
    BY <1>34, <2>1 DEF SupUnlock, Quieto
  <2>2. CASE p = r
    BY <1>34, <2>2 DEF SupUnlock, Adelanta, Final, Quieto, Etapa, Tramo
  <2> QED BY <2>1, <2>2
<1>35. ASSUME NEW r \in Supervisores, CleanUp(r) PROVE Adelanta(p) \/ Quieto(p)
  <2>1. CASE p # r
    BY <1>35, <2>1 DEF CleanUp, Olvida, Quieto
  <2>2. CASE p = r
    BY <1>35, <2>2 DEF CleanUp, Olvida, Adelanta, Final, Quieto, Etapa, Tramo
  <2> QED BY <2>1, <2>2
<1>23. ASSUME NEW r \in Supervisores, LimpiaInactivo(r) PROVE Adelanta(p) \/ Quieto(p)
  <2>1. CASE p # r
    BY <1>23, <2>1 DEF LimpiaInactivo, Quieto
  <2>2. CASE p = r
    BY <1>23, <2>2 DEF LimpiaInactivo, Adelanta, Final, Quieto, Etapa, Tramo
  <2> QED BY <2>1, <2>2
<1>24. ASSUME NEW r \in Supervisores, LimpiaActivo(r) PROVE Adelanta(p) \/ Quieto(p)
  <2>1. CASE p # r
    BY <1>24, <2>1 DEF LimpiaActivo, Quieto
  <2>2. CASE p = r
    BY <1>24, <2>2 DEF LimpiaActivo, Adelanta, Final, Quieto, Etapa, Tramo
  <2> QED BY <2>1, <2>2
<1>25. ASSUME NEW r \in Supervisores, LimpiaHuerfano(r) PROVE Adelanta(p) \/ Quieto(p)
  <2>1. CASE p # r
    BY <1>25, <2>1 DEF LimpiaHuerfano, Quieto
  <2>2. CASE p = r
    BY <1>25, <2>2 DEF LimpiaHuerfano, Adelanta, Final, Quieto, Etapa, Tramo
  <2> QED BY <2>1, <2>2
<1>26. ASSUME NEW r \in Supervisores, LimpiaSigue(r) PROVE Adelanta(p) \/ Quieto(p)
  <2>1. CASE p # r
    BY <1>26, <2>1 DEF LimpiaSigue, Quieto
  <2>2. CASE p = r
    BY <1>26, <2>2 DEF LimpiaSigue, Adelanta, Final, Quieto, Etapa, Tramo
  <2> QED BY <2>1, <2>2
<1>27. ASSUME NEW r \in Procs, Acaba(r) PROVE Adelanta(p) \/ Quieto(p)
  BY <1>27, AcabaAvanza
<1>28. CASE CaeApache
  BY <1>28 DEF CaeApache, Quieto
<1>29. CASE UNCHANGED vars
  BY <1>29 DEF vars, Quieto
<1> QED
  BY <1>1, <1>2, <1>3, <1>4, <1>5, <1>6, <1>7, <1>8, <1>9, <1>10, <1>11, <1>12, <1>13, <1>14, <1>15, <1>16, <1>17, <1>18, <1>19, <1>20, <1>21, <1>22, <1>23, <1>24, <1>25, <1>26, <1>27, <1>28, <1>29, <1>30, <1>31, <1>32, <1>33, <1>34, <1>35
     DEF Next, PasoLanzador, PasoSupervisor, Borra, SaleDelBucle, Suicidio, Muere

\* Whoever is killed or told to end, launchers and supervisors alike, and
\* wherever: the semaphore is free, or its owner goes on, or SIGTERM caught the
\* owner with it (a launcher waits for itself in its handler, a supervisor is in
\* CleanUp for ever); and registrations, sweeps and removals come nearer to their
\* end with each step of their process and with none of another, a supervisor's
\* ending in CleanUp if SIGTERM comes.  With the fairness of ApiShm this is why a
\* launcher gets to serve and the sweeps that begin end (Lock, api_blk.c;
\* chequeo_peticiones; Limpia_procesos_tabla; interceptor, start.c:255; CleanUp,
\* supervisor.c:1239).
THEOREM TrabajoAvanza ==
  Spec => /\ []DuenoSigue
          /\ [][\A p \in Procs : EnMarcha(p) => Adelanta(p) \/ Quieto(p)]_vars
<1>1. Init => InvDueno
  BY DEF Init, InvDueno, Dueno
<1>2. IInv => Inv1 /\ InvMuere
  BY DEF IInv, Inv1
<1>3. ASSUME IInv, InvDueno PROVE DuenoSigue
  <2>1. SUFFICES ASSUME sem = 0, ~Atascado
                 PROVE  \E p \in Procs :
                          /\ Dueno(p)
                          /\ \/ pc[p] \in EnCritica
                             \/ EnManejador(p) /\ pc[p] \in {"bor_mira", "suicidio"}
    BY DEF DuenoSigue
  <2>2. PICK p \in Procs : Dueno(p)
    BY <1>3, <2>1 DEF IInv, CerrojoExacto
  <2>3. ~(EnManejador(p) /\ pc[p] = "bor_lock")
    BY <2>1, <2>2 DEF Atascado, EnManejador
  <2>4. ~(p \in Supervisores /\ pc[p] = "cleanup")
    BY <2>1, <2>2 DEF Atascado
  <2> QED BY <1>3, <2>2, <2>3, <2>4 DEF InvDueno
<1>4. IInv /\ InvDueno /\ [Next]_vars =>
        [\A p \in Procs : EnMarcha(p) => Adelanta(p) \/ Quieto(p)]_vars
  BY <1>2, AvanzaPaso
<1> QED BY <1>1, <1>2, <1>3, <1>4, DuenoPaso, IInvInvariante, PTL DEF Spec

-----------------------------------------------------------------------------
(* The statistics. *)

\* The steps of the table are among those of ApiShm.
LEMMA PasoTabla == [NextC]_varsC => [Next]_vars
<1> SUFFICES ASSUME [NextC]_varsC PROVE [Next]_vars
  OBVIOUS
<1> USE DEF Next
<1>1. ASSUME NEW p \in Lanzadores, LanzadorIgual(p) PROVE Next
  BY <1>1 DEF LanzadorIgual, PasoLanzador
<1>2. ASSUME NEW p \in Lanzadores, InsertaSaleC(p) PROVE Next
  BY <1>2 DEF InsertaSaleC, PasoLanzador
<1>3. ASSUME NEW p \in Procs, BorraC(p) PROVE Borra(p) \/ EnviaTerm(p)
  BY <1>3 DEF BorraC, ProcesoIgual, BorraCeroC, BorraSumaC, Borra
<1>4. ASSUME NEW p \in Lanzadores, Cuenta(p) PROVE [Next]_vars
  BY <1>4 DEF Cuenta, Pide, GetContadores, PutMira, PutEscribe, AcabaPeticion
<1>5. ASSUME NEW q \in Supervisores, SupervisorIgual(q) PROVE Next
  BY <1>5 DEF SupervisorIgual, PasoSupervisor
<1>6. ASSUME NEW q \in Supervisores, ArrancaSupervisorC(q) PROVE Next
  BY <1>6 DEF ArrancaSupervisorC
<1>7. ASSUME NEW q \in Supervisores, Foto(q) \/ ResetSinFoto(q) \/ Reset(q)
      PROVE  [Next]_vars
  BY <1>7 DEF Foto, FotoAbre, FotoLee, FotoTotales, FotoAcumula, FotoEscribe,
              CriticaEntra, CriticaSale, ResetSinFoto, Reset, PasoSupervisor
<1>8. ASSUME NEW p \in Procs, Corta(p) PROVE Next
  BY <1>8 DEF Corta, PasoLanzador, PasoSupervisor
<1>9. ASSUME NEW p \in Lanzadores, BorraC(p) PROVE Next
  BY <1>3, <1>9 DEF PasoLanzador, Procs
<1>10. ASSUME NEW q \in Supervisores, BorraC(q) PROVE Next
  BY <1>3, <1>10 DEF PasoSupervisor, Procs
<1>11. CASE UNCHANGED varsC
  BY <1>11 DEF varsC
<1> QED
  BY <1>1, <1>2, <1>4, <1>5, <1>6, <1>7, <1>8, <1>9, <1>10, <1>11 DEF NextC

\* The table with statistics is the table of ApiShm: a refinement with the
\* identity on its variables.
THEOREM TablaIntacta == SpecC => Spec
<1>1. InitC => Init
  BY DEF InitC
<1> QED
  BY <1>1, PasoTabla, PTL DEF SpecC, Spec

-----------------------------------------------------------------------------
(* Types. *)
\* A removal past its test names a record.
InvBorra ==
  \A p \in Procs :
    pc[p] \in {"bor_lock", "bor_cero", "bor_suma"} => id[p] \in Registros

\* The counters alone.
TiposCuentas ==
  /\ cont \in [Registros -> Nat]
  /\ total \in Nat /\ parcial \in Int
  /\ pet \in [Procs -> {"libre", "get", "mira", "pone", "fin",
                        "foto", "acumula", "escribe", "reset"}]
  /\ aux \in [Procs -> Int]
  /\ \A p \in Lanzadores : aux[p] \in Nat
  /\ propio \in [Lanzadores -> Nat]
  /\ lee \in [Supervisores -> 1..(MaxProcesos + 1)]
  /\ resetea \subseteq Supervisores
  /\ pedidas \in 0..MaxPeticiones
  /\ puestas \in Nat
  /\ escrito \in Int
  /\ limpio \in BOOLEAN

\* A removal checks its argument before it locks and does not change it.
LEMMA BorraPaso == Inv1 /\ InvBorra /\ [Next]_vars => InvBorra'
<1> SUFFICES ASSUME Inv1, InvBorra, [Next]_vars PROVE InvBorra'
  OBVIOUS
<1> USE ConstantesAssumption
    DEF Inv1, TypeOK, InvBorra, Procs, Va, memoria, senales, locales
<1>1. ASSUME NEW p \in Procs, Borra(p) PROVE InvBorra'
  BY <1>1 DEF Borra, BorraVacio, BorraMira, BorraLock, BorraCero, BorraSuma
<1>2. ASSUME NEW p \in Procs, Acaba(p) PROVE InvBorra'
  BY <1>2 DEF Acaba
<1>3. ASSUME NEW p \in Lanzadores, PasoLanzador(p) PROVE InvBorra'
  <2>1. CASE \/ InsertaEntra(p) \/ InsertaLlena(p) \/ InsertaEscribe(p)
             \/ InsertaSale(p) \/ ChequeoBorra(p) \/ ChequeoSigue(p)
             \/ ChequeoFin(p)
    BY <2>1 DEF InsertaEntra, InsertaLlena, InsertaEscribe, InsertaSale,
                ChequeoBorra, ChequeoSigue, ChequeoFin
  <2>2. CASE RecibeTerm(p)
    BY <2>2, <1>2 DEF RecibeTerm
  <2>3. CASE Borra(p) \/ Suicidio(p)
    BY <2>3, <1>1, <1>2 DEF Suicidio
  <2> QED BY <1>3, <2>1, <2>2, <2>3 DEF PasoLanzador
<1>4. ASSUME NEW p \in Lanzadores,
             ArrancaLanzador(p) \/ Atiende(p) \/ SaleDelBucle(p)
      PROVE  InvBorra'
  BY <1>4, <1>2 DEF ArrancaLanzador, Atiende, SaleDelBucle
<1>5. ASSUME NEW q \in Supervisores, PasoSupervisor(q) PROVE InvBorra'
  <2>1. CASE \/ LimpiaFin(q) \/ LimpiaVacio(q) \/ LimpiaOcupado(q) \/ LimpiaMuerto(q)
             \/ LimpiaVivo(q) \/ LimpiaFecha(q) \/ LimpiaPid(q) \/ LimpiaInactivo(q)
             \/ LimpiaActivo(q) \/ LimpiaHuerfano(q) \/ LimpiaSigue(q)
             \/ SupUnlock(q) \/ CleanUp(q)
    BY <2>1 DEF LimpiaFin, LimpiaVacio, LimpiaOcupado, LimpiaMuerto, LimpiaVivo, LimpiaFecha,
                LimpiaPid, LimpiaInactivo, LimpiaActivo, LimpiaHuerfano, LimpiaSigue,
                SupUnlock, CleanUp
  <2> QED BY <1>5, <1>1, <2>1 DEF PasoSupervisor
<1>6. ASSUME NEW q \in Supervisores,
             ArrancaSupervisor(q) \/ LimpiaEmpieza(q) \/ SupLock(q)
      PROVE  InvBorra'
  BY <1>6 DEF ArrancaSupervisor, LimpiaEmpieza, SupLock
<1>7. ASSUME NEW p \in Procs, Muere(p) \/ EnviaTerm(p) PROVE InvBorra'
  BY <1>7, <1>2 DEF Muere, EnviaTerm
<1>8. CASE CaeApache \/ UNCHANGED vars
  BY <1>8 DEF CaeApache, vars
<1> QED
  BY <1>3, <1>4, <1>5, <1>6, <1>7, <1>8 DEF Next

\* What a put does to the counters and to the progress of its launcher.
LEMMA PutEfecto ==
  ASSUME NEW p, limpio \in BOOLEAN, PutEscribe(p)
  PROVE  /\ limpio' \in BOOLEAN
         /\ cont' = [cont EXCEPT ![tPos[p]] = aux[p] + 1]
         /\ puestas' = puestas + 1
         /\ pet' = [pet EXCEPT ![p] = "fin"]
         /\ UNCHANGED <<total, parcial, escrito, aux, propio, lee, resetea, pedidas>>
<1>1. limpio' \in BOOLEAN
  BY Zenon DEF PutEscribe, Mio
<1>2. /\ cont' = [cont EXCEPT ![tPos[p]] = aux[p] + 1]
      /\ puestas' = puestas + 1
      /\ pet' = [pet EXCEPT ![p] = "fin"]
      /\ UNCHANGED <<total, parcial, escrito, aux, propio, lee, resetea, pedidas>>
  BY Zenon DEF PutEscribe, Pasa
<1> QED BY <1>1, <1>2

\* Every step keeps the counters typed.
LEMMA CuentasPaso ==
  TypeOK /\ InvBorra /\ TiposCuentas /\ [NextC]_varsC => TiposCuentas'
<1> SUFFICES ASSUME TypeOK, InvBorra, TiposCuentas, [NextC]_varsC
             PROVE  TiposCuentas'
  OBVIOUS
<1> USE ConstantesAssumption, ContadoresAssumption
    DEF TiposCuentas, Procs, Pasa, cuentas, historia, progreso, contVars
<1>1. ASSUME NEW p \in Lanzadores, LanzadorIgual(p) PROVE TiposCuentas'
  BY <1>1 DEF LanzadorIgual
<1>2. ASSUME NEW p \in Lanzadores, InsertaSaleC(p) PROVE TiposCuentas'
  BY <1>2 DEF InsertaSaleC
<1>3. ASSUME NEW p \in Procs, BorraC(p) PROVE TiposCuentas'
  <2>1. CASE ProcesoIgual(p) \/ BorraCeroC(p)
    BY <2>1 DEF ProcesoIgual, BorraCeroC
  <2>2. CASE BorraSumaC(p)
    <3>1. cont[id[p]] \in Nat
      BY <2>2 DEF BorraSumaC, BorraSuma, InvBorra
    <3> QED BY <2>2, <3>1 DEF BorraSumaC
  <2> QED BY <1>3, <2>1, <2>2 DEF BorraC
<1>4. ASSUME NEW p \in Lanzadores, Cuenta(p) PROVE TiposCuentas'
  <2>1. CASE Pide(p)
    BY <2>1 DEF Pide
  <2>2. CASE GetContadores(p)
    <3>1. PICK v \in IF Mio(p) THEN {cont[tPos[p]]} ELSE Basura :
                aux' = [aux EXCEPT ![p] = v]
      BY <2>2 DEF GetContadores
    <3>2. v \in Nat
      BY <3>1 DEF Mio
    <3> QED BY <2>2, <3>1, <3>2 DEF GetContadores
  <2>3. CASE PutMira(p)
    BY <2>3 DEF PutMira
  <2>4. CASE PutEscribe(p)
    BY <2>4, PutEfecto
  <2>5. CASE AcabaPeticion(p)
    BY <2>5 DEF AcabaPeticion
  <2> QED BY <1>4, <2>1, <2>2, <2>3, <2>4, <2>5 DEF Cuenta
<1>5. ASSUME NEW q \in Supervisores, SupervisorIgual(q) \/ ArrancaSupervisorC(q)
      PROVE  TiposCuentas'
  BY <1>5 DEF SupervisorIgual, ArrancaSupervisorC
<1>6. ASSUME NEW q \in Supervisores, Foto(q) PROVE TiposCuentas'
  <2>1. CASE FotoAbre(q)
    BY <2>1 DEF FotoAbre
  <2>2. CASE FotoLee(q)
    BY <2>2, SMTT(30) DEF FotoLee, Revisados, Registros
  <2>3. CASE FotoTotales(q)
    BY <2>3 DEF FotoTotales
  <2>4. CASE FotoAcumula(q) \/ FotoEscribe(q) \/ CriticaEntra(q) \/ CriticaSale(q)
    BY <2>4 DEF FotoAcumula, FotoEscribe, CriticaEntra, CriticaSale
  <2> QED BY <1>6, <2>1, <2>2, <2>3, <2>4 DEF Foto
<1>7. ASSUME NEW q \in Supervisores, ResetSinFoto(q) \/ Reset(q)
      PROVE  TiposCuentas'
  <2>1. CASE ResetSinFoto(q)
    BY <2>1 DEF ResetSinFoto
  <2>2. CASE Reset(q)
    <3>1. limpio' \in BOOLEAN
      BY <2>2, Zenon DEF Reset
    <3>2. Oculto \in Nat
      BY DEF Oculto, Registros
    <3> QED BY <2>2, <3>1, <3>2 DEF Reset
  <2> QED BY <1>7, <2>1, <2>2
<1>8. ASSUME NEW p \in Procs, Corta(p) PROVE TiposCuentas'
  <2>1. limpio' \in BOOLEAN
    BY <1>8, Zenon DEF Corta
  <2> QED BY <1>8, <2>1 DEF Corta
<1>9. CASE UNCHANGED varsC
  BY <1>9 DEF varsC
<1> QED
  BY <1>1, <1>2, <1>3, <1>4, <1>5, <1>6, <1>7, <1>8, <1>9 DEF NextC

\* The invariant behind the types.
InvTipos == Inv1 /\ InvBorra /\ TiposCuentas

\* Every reachable state has it.
THEOREM InvTiposInvariante == SpecC => []InvTipos
<1>1. InitC => InvTipos
  <2> SUFFICES ASSUME InitC PROVE InvTipos
    OBVIOUS
  <2>1. Inv1
    BY Inv1Init DEF InitC
  <2>2. InvBorra
    BY DEF InitC, Init, InvBorra
  <2>3. TiposCuentas
    BY ConstantesAssumption, ContadoresAssumption DEF InitC, TiposCuentas, Procs
  <2> QED BY <2>1, <2>2, <2>3 DEF InvTipos
<1>2. InvTipos /\ [NextC]_varsC => InvTipos'
  BY PasoTabla, Inv1Paso, BorraPaso, CuentasPaso DEF InvTipos, Inv1
<1> QED
  BY <1>1, <1>2, PTL DEF SpecC

\* Type correctness of the statistics: counters and totals never become
\* negative, and the supervisor's index stays in the table.
THEOREM TiposC == SpecC => []TypeOKC
<1>1. InvTipos => TypeOKC
  BY DEF InvTipos, Inv1, TiposCuentas, TypeOKC
<1> QED
  BY <1>1, InvTiposInvariante, PTL

-----------------------------------------------------------------------------
(* The history file. *)
\* A supervisor in the middle of a snapshot is in none of the steps of a sweep.
InvFoto ==
  \A q \in Supervisores :
    /\ pet[q] \in {"libre", "foto", "acumula", "escribe", "reset"}
    /\ pet[q] # "libre" => pc[q] \in {"reposo", "critica", "cleanup"}

\* One supervisor, which is not killed.
UnSupervisor ==
  /\ \A q, r \in Supervisores : q = r
  /\ Supervisores \cap Matables = {}

\* What the file and the partials say in the middle of a snapshot too.
InvHistorico == InvFoto /\ HistoricoCuadra

\* Every step keeps the file and the partials together.
LEMMA HistoricoPaso ==
  UnSupervisor /\ InvTipos /\ InvHistorico /\ [NextC]_varsC => InvHistorico'
<1> SUFFICES ASSUME UnSupervisor, InvTipos, InvHistorico, [NextC]_varsC
             PROVE  InvHistorico'
  OBVIOUS
<1> USE ConstantesAssumption
    DEF InvHistorico, InvFoto, HistoricoCuadra, Esta, Pasa, Procs, Va, UnSupervisor,
        InvTipos, TiposCuentas, Inv1, TypeOK, cuentas, historia, progreso, contVars
<1>1. ASSUME NEW p \in Lanzadores, LanzadorIgual(p) PROVE InvHistorico'
  <2>1. \A q \in Supervisores : pc'[q] = pc[q]
    BY <1>1 DEF LanzadorIgual, ArrancaLanzador, InsertaEntra, InsertaLlena,
         InsertaEscribe, ChequeoBorra, ChequeoSigue, ChequeoFin, Suicidio,
         SaleDelBucle, Acaba
  <2> QED BY <1>1, <2>1 DEF LanzadorIgual
<1>2. ASSUME NEW p \in Lanzadores, InsertaSaleC(p) PROVE InvHistorico'
  BY <1>2 DEF InsertaSaleC, InsertaSale
<1>3. ASSUME NEW p \in Procs, BorraC(p) PROVE InvHistorico'
  <2>1. \A q \in Supervisores :
          pc[q] \in {"reposo", "critica", "cleanup"} => pc'[q] = pc[q]
    BY <1>3 DEF BorraC, ProcesoIgual, BorraCeroC, BorraSumaC, BorraVacio,
         BorraMira, BorraLock, BorraCero, BorraSuma, EnviaTerm
  <2> QED BY <1>3, <2>1 DEF BorraC, ProcesoIgual, BorraCeroC, BorraSumaC
<1>4. ASSUME NEW p \in Lanzadores, Cuenta(p) PROVE InvHistorico'
  BY <1>4 DEF Cuenta, Pide, GetContadores, PutMira, PutEscribe, AcabaPeticion,
              Atiende, vars
<1>5. ASSUME NEW q \in Supervisores, SupervisorIgual(q) PROVE InvHistorico'
  <2>1. Esta(q, "libre") /\ UNCHANGED contVars
    BY <1>5 DEF SupervisorIgual
  <2> QED BY <2>1
<1>6. ASSUME NEW q \in Supervisores, ArrancaSupervisorC(q) PROVE InvHistorico'
  BY <1>6 DEF ArrancaSupervisorC, ArrancaSupervisor
<1>7. ASSUME NEW q \in Supervisores, Foto(q) \/ ResetSinFoto(q) \/ Reset(q)
      PROVE  InvHistorico'
  <2>1. CASE CriticaEntra(q) \/ CriticaSale(q)
    BY <2>1 DEF CriticaEntra, CriticaSale, SupLock, SupUnlock
  <2> QED
    BY <1>7, <2>1 DEF Foto, FotoAbre, FotoLee, FotoTotales, FotoAcumula, FotoEscribe,
                      ResetSinFoto, Reset, vars
<1>8. ASSUME NEW p \in Procs, Corta(p) PROVE InvHistorico'
  <2>1. UNCHANGED <<cuentas, puestas, escrito, progreso>>
    BY <1>8 DEF Corta
  <2>2. \A q \in Supervisores : pc'[q] = pc[q] \/ pc'[q] = "cleanup"
    BY <1>8 DEF Corta, Muere, RecibeTerm, CleanUp, Acaba
  <2> QED BY <2>1, <2>2
<1>9. CASE UNCHANGED varsC
  BY <1>9 DEF varsC, vars
<1> QED
  BY <1>1, <1>2, <1>3, <1>4, <1>5, <1>6, <1>7, <1>8, <1>9 DEF NextC

\* With one supervisor that is not killed the partials are the sum of what the
\* history file holds, for any number of launchers and requests, whatever they
\* do while the table is read.
THEOREM Historico == UnSupervisor /\ SpecC => []HistoricoCuadra
<1>1. InitC => InvHistorico
  BY DEF InitC, InvHistorico, InvFoto, HistoricoCuadra, Esta, Procs
<1>2. UnSupervisor /\ InvTipos /\ InvHistorico /\ [NextC]_varsC => InvHistorico'
  BY HistoricoPaso
<1>3. InvHistorico => HistoricoCuadra
  BY DEF InvHistorico
<1>4. UnSupervisor => []UnSupervisor
  OBVIOUS
<1> QED
  BY <1>1, <1>2, <1>3, <1>4, InvTiposInvariante, PTL DEF SpecC

-----------------------------------------------------------------------------
(* Sums over finite sets.                                                    *)

\* Induction over the number of elements.
LEMMA Induccion ==
  ASSUME NEW T, 0 \in T, \A n \in Nat : n \in T => n + 1 \in T
  PROVE  Nat \subseteq T
<1> SUFFICES ASSUME Nat \ T # {} PROVE FALSE
  OBVIOUS
<1>1. PICK x \in Nat \ T : \A y \in Nat \ T : ~(<<y, x>> \in OpToRel(<, Nat))
  <2>1. Nat \ T \subseteq Nat
    OBVIOUS
  <2> QED BY <2>1, NatLessThanWellFounded, WFMin
<1>2. \A y \in Nat \ T : ~(y < x)
  BY <1>1 DEF OpToRel
<1>3. x # 0 /\ x - 1 \in Nat
  OBVIOUS
<1>4. x - 1 \in T
  BY <1>2, <1>3
<1>5. x - 1 + 1 \in T /\ x - 1 + 1 = x
  BY <1>3, <1>4
<1> QED BY <1>5

Elige(T) == CHOOSE x \in T : TRUE
SumaDe(f, S) == MapThenSumSet(LAMBDA s : f[s], S)

\* What MapThenSumSet chooses: the sum of every subset of D of at most k elements.
Sumas(g, f, D, k) ==
  g = [T \in {U \in SUBSET D : Cardinality(U) <= k} |->
         IF T = {} THEN 0 ELSE f[Elige(T)] + g[T \ {Elige(T)}]]
TodasSumas(g, f, D) ==
  g = [T \in SUBSET D |-> IF T = {} THEN 0 ELSE f[Elige(T)] + g[T \ {Elige(T)}]]

\* Cardinalities of the subsets of a finite set, and the element that the sum
\* takes first of each.
LEMMA Subconjunto ==
  ASSUME NEW D, IsFiniteSet(D), NEW T \in SUBSET D
  PROVE  /\ IsFiniteSet(T) /\ Cardinality(T) \in Nat /\ Cardinality(T) <= Cardinality(D)
         /\ Cardinality(T) = 0 <=> T = {}
         /\ T # {} => Elige(T) \in T
         /\ \A x \in T : Cardinality(T \ {x}) = Cardinality(T) - 1 /\ T \ {x} \in SUBSET D
<1>1. IsFiniteSet(T) /\ Cardinality(T) <= Cardinality(D)
  BY FS_Subset
<1>2. Cardinality(T) \in Nat /\ (Cardinality(T) = 0 <=> T = {})
  BY <1>1, FS_CardinalityType, FS_EmptySet
<1>3. ASSUME NEW x \in T PROVE Cardinality(T \ {x}) = Cardinality(T) - 1
  BY <1>1, FS_RemoveElement
<1>4. T # {} => Elige(T) \in T
  BY DEF Elige
<1> QED BY <1>1, <1>2, <1>3, <1>4

\* What MapThenSumSet chooses exists: a function with the sum over every subset.
LEMMA HaySumas ==
  ASSUME NEW f, NEW D, IsFiniteSet(D)
  PROVE  \E g : TodasSumas(g, f, D)
<1> DEFINE E == {k \in Nat : \E g : Sumas(g, f, D, k)}
<1>1. 0 \in E
  <2> DEFINE g == [T \in {U \in SUBSET D : Cardinality(U) <= 0} |-> 0]
  <2>1. \A T \in {U \in SUBSET D : Cardinality(U) <= 0} : T = {}
    BY Subconjunto
  <2>2. Sumas(g, f, D, 0)
    BY <2>1 DEF Sumas
  <2> QED BY <2>2
<1>2. ASSUME NEW k \in Nat, k \in E PROVE k + 1 \in E
  <2>1. PICK g : Sumas(g, f, D, k)
    BY <1>2
  <2> DEFINE V(n) == {U \in SUBSET D : Cardinality(U) <= n}
  <2> DEFINE G == [T \in V(k + 1) |-> IF T = {} THEN 0 ELSE f[Elige(T)] + g[T \ {Elige(T)}]]
  <2>2. \A T \in V(k) : g[T] = IF T = {} THEN 0 ELSE f[Elige(T)] + g[T \ {Elige(T)}]
    BY <2>1 DEF Sumas
  <2>3. \A T \in V(k) : T \in V(k + 1) /\ G[T] = g[T]
    <3>1. \A T \in V(k) : T \in V(k + 1)
      BY Subconjunto
    <3> QED BY <2>2, <3>1
  <2>4. \A T \in V(k + 1) : T # {} => T \ {Elige(T)} \in V(k)
    BY Subconjunto
  <2>5. \A T \in V(k + 1) : G[T] = IF T = {} THEN 0 ELSE f[Elige(T)] + G[T \ {Elige(T)}]
    BY <2>3, <2>4
  <2>6. Sumas(G, f, D, k + 1)
    BY <2>5 DEF Sumas
  <2> QED BY <2>6
<1>3. Nat \subseteq E
  <2> HIDE DEF E
  <2> QED BY <1>1, <1>2, Induccion
<1>4. PICK n : n = Cardinality(D) /\ n \in Nat
  BY FS_CardinalityType
<1>5. PICK g : Sumas(g, f, D, n)
  BY <1>3, <1>4
<1>6. {U \in SUBSET D : Cardinality(U) <= n} = SUBSET D
  BY <1>4, Subconjunto
<1>7. TodasSumas(g, f, D)
  BY <1>5, <1>6 DEF Sumas, TodasSumas
<1> QED BY <1>7

EsSuma(g, f, D) ==
  \A T \in SUBSET D : g[T] = IF T = {} THEN 0 ELSE f[Elige(T)] + g[T \ {Elige(T)}]

\* A sum is that of such a function.
LEMMA SumaEs ==
  ASSUME NEW f, NEW S, IsFiniteSet(S)
  PROVE  \E g : SumaDe(f, S) = g[S] /\ EsSuma(g, f, S)
<1> DEFINE g == CHOOSE h : TodasSumas(h, f, S)
<1>1. TodasSumas(g, f, S)
  BY HaySumas
<1>2. SumaDe(f, S) = g[S]
  BY DEF SumaDe, MapThenSumSet, MapThenFoldSet, TodasSumas, Elige
<1>3. EsSuma(g, f, S)
  <2> HIDE DEF g
  <2> QED BY <1>1 DEF TodasSumas, EsSuma
<1> QED BY <1>2, <1>3

\* The sum of a set depends on the values of its elements only, and not on the
\* set that the function was made for.
LEMMA SumaUnica ==
  ASSUME NEW S, NEW R, IsFiniteSet(S), NEW f, NEW g, NEW p, NEW q,
         EsSuma(p, f, S),
         EsSuma(q, g, R),
         S \subseteq R, \A x \in S : f[x] = g[x]
  PROVE  p[S] = q[S]
<1> DEFINE E == {k \in Nat : \A T \in SUBSET S : Cardinality(T) = k => p[T] = q[T]}
<1>1. 0 \in E
  <2>1. \A T \in SUBSET S : Cardinality(T) = 0 => T = {}
    BY Subconjunto
  <2>2. p[{}] = 0 /\ q[{}] = 0
    BY DEF EsSuma
  <2> QED BY <2>1, <2>2
<1>2. ASSUME NEW k \in Nat, k \in E PROVE k + 1 \in E
  <2> SUFFICES ASSUME NEW T \in SUBSET S, Cardinality(T) = k + 1 PROVE p[T] = q[T]
    OBVIOUS
  <2>1. PICK e : e = Elige(T)
    OBVIOUS
  <2>2. T # {} /\ e \in T /\ T \ {e} \in SUBSET S /\ Cardinality(T \ {e}) = k
    <3>1. T # {}
      BY Subconjunto
    <3> QED BY <2>1, <3>1, Subconjunto
  <2>3. p[T \ {e}] = q[T \ {e}]
    BY <1>2, <2>2
  <2>4. p[T] = f[e] + p[T \ {e}] /\ q[T] = g[e] + q[T \ {e}] /\ f[e] = g[e]
    BY <2>1, <2>2 DEF EsSuma
  <2> QED BY <2>3, <2>4
<1>3. Nat \subseteq E
  <2> HIDE DEF E
  <2> QED BY <1>1, <1>2, Induccion
<1>4. Cardinality(S) \in Nat
  BY FS_CardinalityType
<1> QED BY <1>3, <1>4

\* The sum depends only on the values at the elements.
LEMMA SumaIgual ==
  ASSUME NEW S, IsFiniteSet(S), NEW f, NEW g, \A x \in S : f[x] = g[x]
  PROVE  SumaDe(f, S) = SumaDe(g, S)
<1>1. PICK p : SumaDe(f, S) = p[S] /\ EsSuma(p, f, S)
  BY SumaEs
<1>2. PICK q : SumaDe(g, S) = q[S] /\ EsSuma(q, g, S)
  BY SumaEs
<1>3. p[S] = q[S]
  BY <1>1, <1>2, SumaUnica
<1> QED BY <1>1, <1>2, <1>3

\* A sum is what its first element adds to the sum of the rest.
LEMMA SumaPaso ==
  ASSUME NEW S, IsFiniteSet(S), NEW f, S # {}
  PROVE  SumaDe(f, S) = f[Elige(S)] + SumaDe(f, S \ {Elige(S)})
<1>1. PICK R : R = S \ {Elige(S)}
  OBVIOUS
<1>2. IsFiniteSet(R) /\ R \subseteq S
  BY <1>1, FS_Subset
<1>3. PICK p : SumaDe(f, S) = p[S] /\ EsSuma(p, f, S)
  BY SumaEs
<1>4. PICK q : SumaDe(f, R) = q[R] /\ EsSuma(q, f, R)
  BY <1>2, SumaEs
<1>5. q[R] = p[R]
  BY <1>2, <1>3, <1>4, SumaUnica
<1>6. p[S] = f[Elige(S)] + p[R]
  BY <1>1, <1>3 DEF EsSuma
<1> QED BY <1>1, <1>3, <1>4, <1>5, <1>6

\* The sum over no element is 0.
LEMMA SumaVacia ==
  ASSUME NEW f, NEW S, S = {}
  PROVE  SumaDe(f, S) = 0
<1>1. IsFiniteSet(S)
  BY FS_EmptySet
<1>2. PICK p : SumaDe(f, S) = p[S] /\ EsSuma(p, f, S)
  BY <1>1, SumaEs
<1> QED BY <1>2 DEF EsSuma

\* What is closed under addition and has 0 has the sums of its elements.
LEMMA SumaEn ==
  ASSUME NEW V, 0 \in V, \A a, b \in V : a + b \in V,
         NEW S, IsFiniteSet(S), NEW f, \A x \in S : f[x] \in V
  PROVE  SumaDe(f, S) \in V
<1>1. PICK p : SumaDe(f, S) = p[S] /\ EsSuma(p, f, S)
  BY SumaEs
<1> DEFINE E == {k \in Nat : \A T \in SUBSET S : Cardinality(T) = k => p[T] \in V}
<1>2. 0 \in E
  <2>1. \A T \in SUBSET S : Cardinality(T) = 0 => T = {}
    BY Subconjunto
  <2>2. p[{}] = 0
    BY <1>1 DEF EsSuma
  <2> QED BY <2>1, <2>2
<1>3. ASSUME NEW k \in Nat, k \in E PROVE k + 1 \in E
  <2> SUFFICES ASSUME NEW T \in SUBSET S, Cardinality(T) = k + 1 PROVE p[T] \in V
    OBVIOUS
  <2>1. PICK e : e = Elige(T)
    OBVIOUS
  <2>2. T # {} /\ e \in T /\ T \ {e} \in SUBSET S /\ Cardinality(T \ {e}) = k
    <3>1. T # {}
      BY Subconjunto
    <3> QED BY <2>1, <3>1, Subconjunto
  <2>3. p[T \ {e}] \in V /\ f[e] \in V
    BY <1>3, <2>2
  <2>4. p[T] = f[e] + p[T \ {e}]
    BY <1>1, <2>1, <2>2 DEF EsSuma
  <2> QED BY <2>3, <2>4
<1>4. Nat \subseteq E
  <2> HIDE DEF E
  <2> QED BY <1>2, <1>3, Induccion
<1>5. Cardinality(S) \in Nat
  BY FS_CardinalityType
<1> QED BY <1>1, <1>4, <1>5

\* A sum of natural numbers is one.
LEMMA SumaNatural ==
  ASSUME NEW S, IsFiniteSet(S), NEW f, \A x \in S : f[x] \in Nat
  PROVE  SumaDe(f, S) \in Nat
<1>1. PICK V : V = Nat
  OBVIOUS
<1>2. 0 \in V /\ (\A a, b \in V : a + b \in V) /\ \A x \in S : f[x] \in V
  BY <1>1
<1>3. SumaDe(f, S) \in V
  BY <1>2, SumaEn
<1> QED BY <1>1, <1>3

\* A sum of zeros is 0.
LEMMA SumaNula ==
  ASSUME NEW S, IsFiniteSet(S), NEW f, \A x \in S : f[x] = 0
  PROVE  SumaDe(f, S) = 0
<1>1. PICK V : V = {0}
  OBVIOUS
<1>2. 0 \in V /\ (\A a, b \in V : a + b \in V) /\ \A x \in S : f[x] \in V
  BY <1>1
<1>3. SumaDe(f, S) \in V
  BY <1>2, SumaEn
<1> QED BY <1>1, <1>3

\* Any element can be taken first.
LEMMA SumaQuita ==
  ASSUME NEW S, IsFiniteSet(S), NEW f, \A x \in S : f[x] \in Nat, NEW x \in S
  PROVE  SumaDe(f, S) = f[x] + SumaDe(f, S \ {x})
<1> DEFINE E == {k \in Nat : \A T \in SUBSET S : Cardinality(T) = k =>
                   \A y \in T : SumaDe(f, T) = f[y] + SumaDe(f, T \ {y})}
<1>0. \A T \in SUBSET S : SumaDe(f, T) \in Nat
  <2>1. \A T \in SUBSET S : IsFiniteSet(T)
    BY Subconjunto
  <2> QED BY <2>1, SumaNatural
<1>1. 0 \in E
  BY Subconjunto
<1>2. ASSUME NEW k \in Nat, k \in E PROVE k + 1 \in E
  <2> SUFFICES ASSUME NEW T \in SUBSET S, Cardinality(T) = k + 1, NEW y \in T
               PROVE  SumaDe(f, T) = f[y] + SumaDe(f, T \ {y})
    OBVIOUS
  <2>1. PICK e : e = Elige(T)
    OBVIOUS
  <2>2. T # {} /\ e \in T /\ IsFiniteSet(T)
    BY <2>1, Subconjunto
  <2>3. \A z \in T : T \ {z} \in SUBSET S /\ Cardinality(T \ {z}) = k
    <3>1. \A z \in T : Cardinality(T \ {z}) = Cardinality(T) - 1
      BY Subconjunto
    <3> QED BY <3>1
  <2>4. SumaDe(f, T) = f[e] + SumaDe(f, T \ {e})
    BY <2>1, <2>2, SumaPaso
  <2>5. CASE y # e
    <3>1. PICK A, B, C : A = T \ {e} /\ B = T \ {y} /\ C = A \ {y}
      OBVIOUS
    <3>2. C = B \ {e} /\ y \in A /\ e \in B /\ A \in SUBSET S /\ B \in SUBSET S /\ C \in SUBSET S
      BY <2>2, <2>5, <3>1
    <3>3. Cardinality(A) = k /\ Cardinality(B) = k
      BY <2>2, <2>3, <3>1
    <3>4. SumaDe(f, A) = f[y] + SumaDe(f, A \ {y}) /\ SumaDe(f, B) = f[e] + SumaDe(f, B \ {e})
      BY <1>2, <3>2, <3>3
    <3>5. SumaDe(f, A) = f[y] + SumaDe(f, C) /\ SumaDe(f, B) = f[e] + SumaDe(f, C)
      BY <3>1, <3>2, <3>4
    <3>6. /\ SumaDe(f, A) \in Nat /\ SumaDe(f, B) \in Nat /\ SumaDe(f, C) \in Nat
          /\ f[y] \in Nat /\ f[e] \in Nat
      BY <1>0, <2>2, <3>2
    <3>7. SumaDe(f, T) = f[e] + SumaDe(f, A)
      BY <2>4, <3>1
    <3>8. SumaDe(f, T) = f[y] + SumaDe(f, B)
      BY ONLY <3>5, <3>6, <3>7
    <3> QED BY <3>1, <3>8
  <2> QED BY <2>4, <2>5
<1>3. Nat \subseteq E
  <2> HIDE DEF E
  <2> QED BY <1>1, <1>2, Induccion
<1>4. Cardinality(S) \in Nat
  BY FS_CardinalityType
<1> QED BY <1>3, <1>4

\* The sum over one element is its value.
LEMMA SumaUno ==
  ASSUME NEW x, NEW f, f[x] \in Nat
  PROVE  SumaDe(f, {x}) = f[x]
<1>1. PICK S : S = {x}
  OBVIOUS
<1>2. IsFiniteSet(S) /\ x \in S /\ S \ {x} = {} /\ \A y \in S : f[y] \in Nat
  BY <1>1, FS_Singleton
<1>3. SumaDe(f, S) = f[x] + SumaDe(f, S \ {x})
  BY <1>2, SumaQuita
<1>4. SumaDe(f, S \ {x}) = 0
  BY <1>2, SumaVacia
<1> QED BY <1>1, <1>3, <1>4

\* One more element, and one element whose value changes.
LEMMA SumaPone ==
  ASSUME NEW S, IsFiniteSet(S), NEW x, x \notin S, NEW f, \A y \in S \cup {x} : f[y] \in Nat
  PROVE  SumaDe(f, S \cup {x}) = f[x] + SumaDe(f, S)
<1>1. PICK R : R = S \cup {x}
  OBVIOUS
<1>2. IsFiniteSet(R) /\ x \in R /\ R \ {x} = S /\ \A y \in R : f[y] \in Nat
  BY <1>1, FS_AddElement
<1>3. SumaDe(f, R) = f[x] + SumaDe(f, R \ {x})
  BY <1>2, SumaQuita
<1> QED BY <1>1, <1>2, <1>3

\* A change at one element changes the sum by as much.
LEMMA SumaCambia ==
  ASSUME NEW S, IsFiniteSet(S), NEW x \in S, NEW f, NEW g,
         \A y \in S : f[y] \in Nat /\ g[y] \in Nat,
         \A y \in S \ {x} : f[y] = g[y]
  PROVE  SumaDe(g, S) + f[x] = SumaDe(f, S) + g[x]
<1>1. PICK R : R = S \ {x}
  OBVIOUS
<1>2. IsFiniteSet(R) /\ \A y \in R : f[y] = g[y] /\ f[y] \in Nat
  BY <1>1, FS_RemoveElement
<1>3. SumaDe(f, R) = SumaDe(g, R) /\ SumaDe(f, R) \in Nat
  BY <1>2, SumaIgual, SumaNatural
<1>4. SumaDe(f, S) = f[x] + SumaDe(f, R) /\ SumaDe(g, S) = g[x] + SumaDe(g, R)
  BY <1>1, SumaQuita
<1> QED BY <1>3, <1>4

-----------------------------------------------------------------------------
(* The figures.  A record counts from the moment its launcher leaves the     *)
(* registration until a removal clears its pid; from then on the removal     *)
(* carries the count until it has added it to the totals.                    *)

\* Inside the critical section a launcher has written the record it is about to
\* leave, and a removal has cleared the one that it is about to add.
InvMedio ==
  /\ \A p \in Lanzadores : pc[p] = "ins_sale" => tPos[p] \in Registros /\ pid[tPos[p]] = p
  /\ \A p \in Procs : pc[p] = "bor_suma" => pid[id[p]] = SinPid

\* A launcher that is in a request accepts, or has been stopped in it for good.
InvPet ==
  \A p \in Lanzadores :
    pet[p] # "libre" => pc[p] \in {"acepta", "muerto"} \/ vuelve[p] = "muere"

\* What a launcher has got is still what its record says.
InvAux ==
  limpio => \A p \in Lanzadores : pet[p] \in {"mira", "pone"} /\ Mio(p) => aux[p] = cont[tPos[p]]

InvCuenta == InvMedio /\ InvPet /\ InvAux /\ CuentaExacta

\* Steps that neither write a pid nor enter or leave the two places.
LEMMA MedioIgual ==
  ASSUME InvMedio, pid' = pid,
         \A p \in Lanzadores : pc'[p] = "ins_sale" => pc[p] = "ins_sale" /\ tPos'[p] = tPos[p],
         \A p \in Procs : pc'[p] = "bor_suma" => pc[p] = "bor_suma" /\ id'[p] = id[p]
  PROVE  InvMedio'
BY DEF InvMedio

\* Every step of the table keeps what is known of a removal in the middle.
LEMMA MedioPaso ==
  ASSUME Inv1, Inv2, InvBorra, InvMedio, [Next]_vars
  PROVE  InvMedio'
<1> USE ConstantesAssumption
    DEF Inv1, TypeOK, InvPapeles, PCsLanzador, PCsSupervisor, PCsBorra, Procs, Va,
        memoria, senales, locales
<1>1. ASSUME NEW p \in Procs, Acaba(p) PROVE InvMedio'
  BY <1>1, MedioIgual DEF Acaba
<1>2. ASSUME NEW p \in Lanzadores, InsertaEscribe(p) PROVE InvMedio'
  <2>1. /\ pc[p] = "ins_escribe" /\ pid' = [pid EXCEPT ![tPos[p]] = p]
        /\ pc' = [pc EXCEPT ![p] = "ins_sale"] /\ tPos' = tPos /\ id' = id
    BY <1>2 DEF InsertaEscribe
  <2>2. tPos[p] \in Registros
    BY <2>1 DEF Inv2, InvInserta
  <2>3. \A q \in Procs \ {p} : pc[q] \notin {"ins_sale", "bor_suma"}
    BY <2>1 DEF CerrojoExacto, EnCritica
  <2> QED BY <2>1, <2>2, <2>3 DEF InvMedio
<1>3. ASSUME NEW p \in Procs, BorraCero(p) PROVE InvMedio'
  <2>1. /\ pc[p] = "bor_cero" /\ pid' = [pid EXCEPT ![id[p]] = SinPid]
        /\ pc' = [pc EXCEPT ![p] = "bor_suma"] /\ tPos' = tPos /\ id' = id
    BY <1>3 DEF BorraCero
  <2>2. id[p] \in Registros
    BY <2>1 DEF InvBorra
  <2>3. \A q \in Procs \ {p} : pc[q] \notin {"ins_sale", "bor_suma"}
    BY <2>1 DEF CerrojoExacto, EnCritica
  <2> QED BY <2>1, <2>2, <2>3 DEF InvMedio
<1>4. ASSUME NEW p \in Procs, BorraVacio(p) \/ BorraMira(p) \/ BorraLock(p) \/ BorraSuma(p)
      PROVE  InvMedio'
  BY <1>4, MedioIgual DEF BorraVacio, BorraMira, BorraLock, BorraSuma
<1>5. ASSUME NEW p \in Procs, Borra(p) PROVE InvMedio'
  BY <1>3, <1>4, <1>5 DEF Borra
<1>6. ASSUME NEW p \in Lanzadores, PasoLanzador(p) PROVE InvMedio'
  <2>1. CASE InsertaEntra(p)
    BY <2>1, MedioIgual DEF InsertaEntra
  <2>2. CASE \/ InsertaLlena(p) \/ InsertaSale(p) \/ ChequeoBorra(p) \/ ChequeoSigue(p)
             \/ ChequeoFin(p)
    BY <2>2, MedioIgual DEF InsertaLlena, InsertaSale, ChequeoBorra, ChequeoSigue, ChequeoFin
  <2>3. CASE RecibeTerm(p)
    <3>1. CASE p \in armado
      BY <2>3, <3>1, MedioIgual DEF RecibeTerm
    <3>2. CASE p \notin armado
      BY <2>3, <3>2, <1>1 DEF RecibeTerm
    <3> QED BY <3>1, <3>2
  <2>4. CASE Borra(p) \/ Suicidio(p) \/ InsertaEscribe(p)
    BY <2>4, <1>1, <1>2, <1>5 DEF Suicidio
  <2> QED BY <1>6, <2>1, <2>2, <2>3, <2>4 DEF PasoLanzador
<1>7. ASSUME NEW p \in Lanzadores,
             ArrancaLanzador(p) \/ Atiende(p) \/ SaleDelBucle(p)
      PROVE  InvMedio'
  BY <1>7, <1>1, MedioIgual DEF ArrancaLanzador, Atiende, SaleDelBucle
<1>8. ASSUME NEW q \in Supervisores,
             PasoSupervisor(q) \/ ArrancaSupervisor(q) \/ LimpiaEmpieza(q) \/ SupLock(q)
      PROVE  InvMedio'
  <2>1. CASE \/ LimpiaEmpieza(q) \/ LimpiaFin(q) \/ LimpiaVacio(q) \/ LimpiaOcupado(q)
             \/ LimpiaMuerto(q) \/ LimpiaVivo(q) \/ LimpiaFecha(q) \/ LimpiaPid(q)
    BY <2>1, MedioIgual DEF LimpiaEmpieza, LimpiaFin, LimpiaVacio, LimpiaOcupado, LimpiaMuerto,
         LimpiaVivo, LimpiaFecha, LimpiaPid
  <2>2. CASE \/ LimpiaInactivo(q) \/ LimpiaActivo(q) \/ LimpiaHuerfano(q)
             \/ LimpiaSigue(q) \/ ArrancaSupervisor(q) \/ SupLock(q) \/ SupUnlock(q)
             \/ CleanUp(q)
    BY <2>2, MedioIgual DEF LimpiaInactivo, LimpiaActivo, LimpiaHuerfano, LimpiaSigue,
         ArrancaSupervisor, SupLock, SupUnlock, CleanUp
  <2> QED BY <1>8, <1>5, <2>1, <2>2 DEF PasoSupervisor
<1>9. ASSUME NEW p \in Procs, Muere(p) \/ EnviaTerm(p) PROVE InvMedio'
  BY <1>9, <1>1, MedioIgual DEF Muere, EnviaTerm
<1>10. CASE CaeApache \/ UNCHANGED vars
  BY <1>10, MedioIgual DEF CaeApache, vars
<1> QED BY <1>6, <1>7, <1>8, <1>9, <1>10 DEF Next

\* A launcher registers or sweeps only between two requests.
LEMMA PetPaso ==
  ASSUME Inv1, Inv2, TiposCuentas, InvPet, [NextC]_varsC
  PROVE  InvPet'
<1> USE ConstantesAssumption
    DEF Inv1, TypeOK, InvPapeles, PCsLanzador, PCsSupervisor, PCsBorra, Procs, Va, Esta, Pasa,
        TiposCuentas, memoria, senales, locales, cuentas, historia, progreso, contVars, InvPet
<1>1. ASSUME NEW p \in Lanzadores, LanzadorIgual(p) PROVE InvPet'
  <2>1. pet' = pet
    BY <1>1 DEF LanzadorIgual
  <2>2. CASE \/ ArrancaLanzador(p) \/ InsertaEntra(p) \/ InsertaLlena(p) \/ InsertaEscribe(p)
             \/ ChequeoSigue(p) \/ ChequeoFin(p)
    BY <2>1, <2>2 DEF ArrancaLanzador, InsertaEntra, InsertaLlena, InsertaEscribe, ChequeoSigue,
           ChequeoFin
  <2>3. CASE ChequeoBorra(p)
    <3>1. pc[p] = "chequeo" /\ vuelve' = [vuelve EXCEPT ![p] = "chequeo"]
            /\ pc' = [pc EXCEPT ![p] = "bor_mira"]
      BY <2>3 DEF ChequeoBorra
    <3>2. pet[p] = "libre"
      BY <3>1 DEF Inv2, InvMuere
    <3> QED BY <2>1, <3>1, <3>2
  <2>4. CASE Suicidio(p) \/ SaleDelBucle(p)
    BY <2>1, <2>4 DEF Suicidio, SaleDelBucle, Acaba
  <2> QED BY <1>1, <2>2, <2>3, <2>4 DEF LanzadorIgual
<1>2. ASSUME NEW p \in Lanzadores, InsertaSaleC(p) PROVE InvPet'
  BY <1>2 DEF InsertaSaleC, InsertaSale
<1>3. ASSUME NEW p \in Procs, BorraC(p) PROVE InvPet'
  <2>1. UNCHANGED <<pet, vuelve>>
    BY <1>3 DEF BorraC, ProcesoIgual, BorraCeroC, BorraSumaC, BorraVacio, BorraMira, BorraLock,
                BorraCero, BorraSuma, EnviaTerm
  <2>2. \A q \in Lanzadores : pc[q] \in {"acepta", "muerto"} => pc'[q] = pc[q]
    BY <1>3 DEF BorraC, ProcesoIgual, BorraCeroC, BorraSumaC, BorraVacio, BorraMira, BorraLock,
                BorraCero, BorraSuma, EnviaTerm
  <2> QED BY <2>1, <2>2
<1>4. ASSUME NEW p \in Lanzadores, Cuenta(p) PROVE InvPet'
  BY <1>4 DEF Cuenta, Pide, GetContadores, PutMira, PutEscribe, AcabaPeticion, Atiende, vars
<1>5. ASSUME NEW q \in Supervisores, SupervisorIgual(q) PROVE InvPet'
  BY <1>5 DEF SupervisorIgual, LimpiaEmpieza, LimpiaFin, LimpiaVacio, LimpiaOcupado, LimpiaMuerto,
         LimpiaVivo, LimpiaFecha, LimpiaPid, LimpiaInactivo, LimpiaActivo, LimpiaSigue, Olvida
<1>6. ASSUME NEW q \in Supervisores, ArrancaSupervisorC(q) PROVE InvPet'
  BY <1>6 DEF ArrancaSupervisorC, ArrancaSupervisor
<1>7. ASSUME NEW q \in Supervisores, Foto(q) \/ ResetSinFoto(q) \/ Reset(q) PROVE InvPet'
  <2>1. /\ vuelve' = vuelve /\ \A p \in Lanzadores : pc'[p] = pc[p]
        /\ \E l : pet' = [pet EXCEPT ![q] = l] \/ pet' = pet
    BY <1>7 DEF Foto, FotoAbre, FotoLee, FotoTotales, FotoAcumula, FotoEscribe,
                CriticaEntra, CriticaSale, SupLock, SupUnlock, ResetSinFoto, Reset, vars
  <2>2. \A p \in Lanzadores : pet'[p] = pet[p]
    BY <2>1
  <2> QED BY <2>1, <2>2
<1>8. ASSUME NEW p \in Procs, Corta(p) PROVE InvPet'
  BY <1>8 DEF Corta, Muere, RecibeTerm, CleanUp, Olvida, Acaba
<1>9. CASE UNCHANGED varsC
  BY <1>9 DEF varsC, vars
<1> QED
  BY <1>1, <1>2, <1>3, <1>4, <1>5, <1>6, <1>7, <1>8, <1>9 DEF NextC

\* Steps that leave the counters and what the launchers have read.
LEMMA AuxIgual ==
  ASSUME InvAux, limpio' => limpio, cont' = cont,
         \A p \in Lanzadores : aux'[p] = aux[p],
         \A p \in Lanzadores : pet'[p] \in {"mira", "pone"} /\ Mio(p)'
           => pet[p] \in {"mira", "pone"} /\ Mio(p) /\ tPos'[p] = tPos[p]
  PROVE  InvAux'
BY DEF InvAux

\* Between the get and the put of a launcher nobody else writes its counter,
\* unless one of the accidents happens.
LEMMA AuxPaso ==
  ASSUME Inv1, Inv2, TiposCuentas, InvMedio, InvPet, InvAux, [NextC]_varsC
  PROVE  InvAux'
<1> USE ConstantesAssumption
    DEF Inv1, TypeOK, InvPapeles, PCsLanzador, PCsSupervisor, PCsBorra, Procs, Va, Esta, Pasa,
        TiposCuentas, memoria, senales, locales, cuentas, historia, progreso, contVars
<1>1. ASSUME NEW p \in Lanzadores, LanzadorIgual(p) PROVE InvAux'
  <2>1. UNCHANGED <<cont, aux, pet, limpio>>
    BY <1>1 DEF LanzadorIgual
  <2>2. CASE InsertaEntra(p)
    <3>1. /\ pc[p] = "inserta" /\ pid' = pid
          /\ \A q \in Lanzadores \ {p} : tPos'[q] = tPos[q]
      BY <2>2 DEF InsertaEntra
    <3>2. pet[p] = "libre"
      BY <3>1 DEF InvPet, Inv2, InvMuere
    <3> QED BY <2>1, <3>1, <3>2, AuxIgual DEF Mio
  <2>3. CASE InsertaEscribe(p)
    <3>1. /\ pc[p] = "ins_escribe" /\ pid' = [pid EXCEPT ![tPos[p]] = p] /\ tPos' = tPos
      BY <2>3 DEF InsertaEscribe
    <3>2. pet[p] = "libre"
      BY <3>1 DEF InvPet, Inv2, InvMuere
    <3>3. \A q \in Lanzadores \ {p} : Mio(q)' => Mio(q)
      BY <3>1 DEF Mio
    <3> QED BY <2>1, <3>1, <3>2, <3>3, AuxIgual
  <2>4. CASE ~InsertaEntra(p) /\ ~InsertaEscribe(p)
    <3>1. UNCHANGED <<pid, tPos>>
      BY <1>1, <2>4 DEF LanzadorIgual, ArrancaLanzador, InsertaLlena, ChequeoBorra, ChequeoSigue,
           ChequeoFin, Suicidio, SaleDelBucle, Acaba
    <3> QED BY <2>1, <3>1, AuxIgual DEF Mio
  <2> QED BY <2>2, <2>3, <2>4
<1>2. ASSUME NEW p \in Lanzadores, InsertaSaleC(p) PROVE InvAux'
  <2>1. /\ pc[p] = "ins_sale" /\ pid' = pid /\ tPos' = tPos /\ pet' = pet /\ aux' = aux
        /\ cont' = [cont EXCEPT ![tPos[p]] = propio[p]] /\ (limpio' => limpio)
    BY <1>2 DEF InsertaSaleC, InsertaSale
  <2>2. pet[p] = "libre"
    BY <2>1 DEF InvPet, Inv2, InvMuere
  <2>3. tPos[p] \in Registros /\ pid[tPos[p]] = p
    BY <2>1 DEF InvMedio
  <2> QED BY <2>1, <2>2, <2>3 DEF InvAux, Mio
<1>3. ASSUME NEW p \in Procs, BorraC(p) PROVE InvAux'
  <2>1. /\ UNCHANGED <<tPos, pet, aux, cont>> /\ (limpio' => limpio)
    BY <1>3 DEF BorraC, ProcesoIgual, BorraCeroC, BorraSumaC, BorraVacio, BorraMira, BorraLock,
                BorraCero, BorraSuma, EnviaTerm
  <2>2. pid' = pid \/ pid' = [pid EXCEPT ![id[p]] = SinPid]
    BY <1>3 DEF BorraC, ProcesoIgual, BorraCeroC, BorraSumaC, BorraVacio, BorraMira, BorraLock,
                BorraCero, BorraSuma, EnviaTerm
  <2>3. \A q \in Lanzadores : Mio(q)' => Mio(q)
    BY <2>1, <2>2 DEF Mio
  <2> QED BY <2>1, <2>3, AuxIgual
<1>4. ASSUME NEW p \in Lanzadores, Cuenta(p) PROVE InvAux'
  <2>1. pid' = pid /\ tPos' = tPos
    BY <1>4 DEF Cuenta, Pide, GetContadores, PutMira, PutEscribe, AcabaPeticion, Atiende, vars
  <2>2. CASE Pide(p) \/ PutMira(p) \/ AcabaPeticion(p)
    <3>1. UNCHANGED <<cont, limpio, aux>>
      BY <2>2 DEF Pide, PutMira, AcabaPeticion
    <3>2. \A q \in Lanzadores : pet'[q] \in {"mira", "pone"} => pet[q] \in {"mira", "pone"}
      BY <2>2 DEF Pide, PutMira, AcabaPeticion
    <3> QED BY <2>1, <3>1, <3>2, AuxIgual DEF Mio
  <2>3. CASE GetContadores(p)
    <3>1. /\ UNCHANGED <<cont, limpio>>
          /\ pet' = [pet EXCEPT ![p] = "mira"]
          /\ \A q \in Lanzadores \ {p} : aux'[q] = aux[q]
          /\ Mio(p) => aux'[p] = cont[tPos[p]]
      BY <2>3 DEF GetContadores
    <3> QED BY <2>1, <3>1 DEF InvAux, Mio
  <2>4. CASE PutEscribe(p)
    <3>1. /\ cont' = [cont EXCEPT ![tPos[p]] = aux[p] + 1] /\ aux' = aux
          /\ pet' = [pet EXCEPT ![p] = "fin"] /\ (limpio' => limpio /\ Mio(p))
      BY <2>4 DEF PutEscribe
    <3> QED BY <2>1, <3>1 DEF InvAux, Mio
  <2> QED BY <1>4, <2>2, <2>3, <2>4 DEF Cuenta
<1>5. ASSUME NEW q \in Supervisores, SupervisorIgual(q) PROVE InvAux'
  <2>1. UNCHANGED <<pid, tPos, cont, limpio, aux, pet>>
    BY <1>5 DEF SupervisorIgual, LimpiaEmpieza, LimpiaFin, LimpiaVacio, LimpiaOcupado, LimpiaMuerto,
           LimpiaVivo, LimpiaFecha, LimpiaPid, LimpiaInactivo, LimpiaActivo, LimpiaSigue
  <2> QED BY <2>1, AuxIgual DEF Mio
<1>6. ASSUME NEW q \in Supervisores, ArrancaSupervisorC(q) PROVE InvAux'
  <2>1. UNCHANGED <<pid, tPos, cont, limpio, aux>> /\ pet' = [pet EXCEPT ![q] = "libre"]
    BY <1>6 DEF ArrancaSupervisorC, ArrancaSupervisor
  <2> QED BY <2>1, AuxIgual DEF Mio
<1>7. ASSUME NEW q \in Supervisores, Foto(q) \/ ResetSinFoto(q) PROVE InvAux'
  <2>1. UNCHANGED <<pid, tPos, cont, limpio>> /\ \A p \in Lanzadores : pet'[p] = pet[p]
    BY <1>7 DEF Foto, FotoAbre, FotoLee, FotoTotales, FotoAcumula, FotoEscribe, CriticaEntra,
                CriticaSale, SupLock, SupUnlock, ResetSinFoto, vars
  <2>2. \A p \in Lanzadores : aux'[p] = aux[p]
    BY <1>7 DEF Foto, FotoAbre, FotoLee, FotoTotales, FotoAcumula, FotoEscribe, CriticaEntra,
                CriticaSale, ResetSinFoto
  <2> QED BY <2>1, <2>2, AuxIgual DEF Mio
<1>8. ASSUME NEW q \in Supervisores, Reset(q) PROVE InvAux'
  <2>1. /\ UNCHANGED <<pid, tPos, aux>> /\ pet' = [pet EXCEPT ![q] = "libre"]
        /\ cont' = [s \in Registros |-> IF s \in Reseteados THEN 0 ELSE cont[s]]
        /\ (limpio' => limpio /\ ~ \E p \in Lanzadores : AContraReset(p))
    BY <1>8 DEF Reset, vars
  <2> QED BY <2>1 DEF InvAux, Mio, AContraReset
<1>9. ASSUME NEW p \in Procs, Corta(p) PROVE InvAux'
  <2>1. UNCHANGED <<pid, tPos, cont, aux, pet>> /\ (limpio' => limpio)
    BY <1>9 DEF Corta, Muere, RecibeTerm, CleanUp, Acaba
  <2> QED BY <2>1, AuxIgual DEF Mio
<1>10. CASE UNCHANGED varsC
  BY <1>10, AuxIgual DEF varsC, vars, Mio
<1> QED
  BY <1>1, <1>2, <1>3, <1>4, <1>5, <1>6, <1>7, <1>8, <1>9, <1>10 DEF NextC

\* CuentaExacta with its sums as sums of a function over a set.
Contados == {s \in Revisados : Asentado(s)}
Borrados == {id[p] : p \in Restando}
Cuadre ==
  limpio => total + SumaDe(cont, Contados) + Oculto + SumaDe(cont, Borrados) = puestas

\* CuentaExacta is the balance of its sums, named to keep them folded.
LEMMA CuentaEs == CuentaExacta <=> Cuadre
BY DEF CuentaExacta, Reportado, EnBorrado, Suma, Cuadre, Contados, Borrados, SumaDe

\* Steps that move neither the counters nor the two places.
LEMMA CuadreIgual ==
  ASSUME Cuadre, limpio' => limpio, UNCHANGED <<cont, total, puestas>>,
         Contados' = Contados, Oculto' = Oculto, Borrados' = Borrados
  PROVE  Cuadre'
BY DEF Cuadre

\* Who is at the two places, and where.
LEMMA CuadreMarco ==
  ASSUME Cuadre, limpio' => limpio, UNCHANGED <<cont, total, puestas>>, pid' = pid,
         \A p \in Lanzadores : pc'[p] = "ins_sale" <=> pc[p] = "ins_sale",
         \A p \in Lanzadores : pc[p] = "ins_sale" => tPos'[p] = tPos[p],
         \A p \in Procs : pc'[p] = "bor_suma" <=> pc[p] = "bor_suma",
         \A p \in Procs : pc[p] = "bor_suma" => id'[p] = id[p]
  PROVE  Cuadre'
<1>1. \A s : Asentado(s)' <=> Asentado(s)
  BY DEF Asentado
<1>2. Contados' = Contados
  BY <1>1 DEF Contados
<1>3. Oculto' = Oculto
  BY <1>1 DEF Oculto
<1>4. Restando' = Restando
  BY DEF Restando
<1>5. Borrados' = Borrados
  BY <1>4 DEF Borrados, Restando
<1> QED BY <1>2, <1>3, <1>5, CuadreIgual

\* The records can be added up.
LEMMA CuadreTipos ==
  ASSUME TiposCuentas, InvBorra, Inv1
  PROVE  /\ IsFiniteSet(Contados) /\ Contados \subseteq Registros
         /\ IsFiniteSet(Borrados) /\ Borrados \subseteq Registros
         /\ SumaDe(cont, Contados) \in Nat /\ SumaDe(cont, Borrados) \in Nat
         /\ Oculto \in Nat
<1>1. MaxProcesos \in Nat \ {0} /\ Revisados \subseteq Registros /\ MaxProcesos + 1 \in Registros
  BY ConstantesAssumption DEF Revisados, Registros
<1>2. IsFiniteSet(Registros)
  BY <1>1, FS_Interval DEF Registros
<1>3. Contados \subseteq Registros
  BY <1>1 DEF Contados
<1>4. Borrados \subseteq Registros
  BY DEF Borrados, Restando, InvBorra
<1>5. IsFiniteSet(Contados) /\ IsFiniteSet(Borrados)
  BY <1>2, <1>3, <1>4, FS_Subset
<1>6. \A s \in Registros : cont[s] \in Nat
  BY DEF TiposCuentas
<1>7. PICK c : c = cont
  OBVIOUS
<1>8. PICK R : R = Contados
  OBVIOUS
<1>9. PICK B : B = Borrados
  OBVIOUS
<1>10. (\A s \in R : c[s] \in Nat) /\ (\A s \in B : c[s] \in Nat)
  BY <1>3, <1>4, <1>6, <1>7, <1>8, <1>9
<1>11. SumaDe(c, R) \in Nat /\ SumaDe(c, B) \in Nat
  BY <1>5, <1>8, <1>9, <1>10, SumaNatural
<1>12. Oculto \in Nat
  BY <1>1, <1>6 DEF Oculto
<1> QED BY <1>3, <1>4, <1>5, <1>7, <1>8, <1>9, <1>11, <1>12

\* A launcher that leaves the registration starts to count, with what it
\* brings: nothing, unless it is the accident.
LEMMA CuadreSale ==
  ASSUME Inv1, InvBorra, InvMedio, TiposCuentas, Cuadre,
         NEW p \in Lanzadores, InsertaSaleC(p)
  PROVE  Cuadre'
<1> USE ConstantesAssumption
    DEF Inv1, TypeOK, InvPapeles, Procs, Va, TiposCuentas, memoria, senales, locales, progreso
<1> SUFFICES ASSUME limpio'
    PROVE total' + SumaDe(cont', Contados') + Oculto' + SumaDe(cont', Borrados') = puestas'
  BY DEF Cuadre
<1>1. PICK s : s = tPos[p]
  OBVIOUS
<1>2. /\ pc[p] = "ins_sale" /\ pc' = [pc EXCEPT ![p] = "chequeo"]
      /\ pid' = pid /\ tPos' = tPos /\ id' = [id EXCEPT ![p] = 1]
      /\ UNCHANGED <<total, puestas>> /\ limpio /\ propio[p] = 0
      /\ cont' = [cont EXCEPT ![s] = 0]
  BY <1>1 DEF InsertaSaleC, InsertaSale
<1>3. s \in Registros /\ pid[s] # SinPid
  BY <1>1, <1>2 DEF InvMedio
<1>4. \A q \in Procs \ {p} : pc[q] \notin {"ins_sale", "bor_suma"}
  BY <1>2 DEF CerrojoExacto, EnCritica
<1>5. ~Asentado(s) /\ Asentado(s)'
  BY <1>1, <1>2, <1>3, <1>4 DEF Asentado
<1>6. \A r \in Registros \ {s} : Asentado(r)' <=> Asentado(r)
  BY <1>1, <1>2, <1>4 DEF Asentado
<1>7. Borrados = {} /\ Borrados' = {}
  BY <1>2, <1>4 DEF Borrados, Restando
<1>8. PICK c : c = cont
  OBVIOUS
<1>9. PICK d : d = cont'
  OBVIOUS
<1>10. PICK R : R = Contados
  OBVIOUS
<1>11. PICK R1 : R1 = Contados'
  OBVIOUS
<1>12. SumaDe(cont, Borrados) = 0 /\ SumaDe(cont', Borrados') = 0
  <2>1. PICK B : B = {}
    OBVIOUS
  <2>2. SumaDe(c, B) = 0 /\ SumaDe(d, B) = 0
    BY <2>1, SumaVacia
  <2> QED BY <1>7, <1>8, <1>9, <2>1, <2>2
<1>13. IsFiniteSet(R) /\ s \notin R /\ SumaDe(c, R) \in Nat /\ Oculto \in Nat
  BY <1>5, <1>8, <1>10, CuadreTipos DEF Contados
<1>14. (\A r \in R : c[r] = d[r] /\ d[r] \in Nat) /\ d[s] = 0 /\ d[s] \in Nat
  BY <1>2, <1>3, <1>8, <1>9, <1>10, <1>13, CuadreTipos
<1>15. SumaDe(d, R) = SumaDe(c, R)
  BY <1>13, <1>14, SumaIgual
<1>16. SumaDe(d, R1) = SumaDe(c, R) /\ Oculto' = Oculto
  <2>1. CASE s \in Revisados
    <3>1. R1 = R \cup {s}
      BY <1>5, <1>6, <1>10, <1>11, <2>1 DEF Contados, Revisados, Registros
    <3>2. SumaDe(d, R \cup {s}) = d[s] + SumaDe(d, R)
      BY <1>13, <1>14, SumaPone
    <3>3. s # MaxProcesos + 1 /\ MaxProcesos + 1 \in Registros
      BY <2>1 DEF Revisados, Registros
    <3>4. Oculto' = Oculto
      BY <1>2, <1>6, <3>3 DEF Oculto
    <3> QED BY <1>13, <1>14, <1>15, <3>1, <3>2, <3>4
  <2>2. CASE s \notin Revisados
    <3>1. s = MaxProcesos + 1
      BY <1>3, <2>2 DEF Revisados, Registros
    <3>2. R1 = R
      BY <1>5, <1>6, <1>10, <1>11, <2>2 DEF Contados, Revisados, Registros
    <3>3. Oculto = 0 /\ Oculto' = 0
      BY <1>2, <1>5, <1>9, <1>14, <3>1 DEF Oculto
    <3> QED BY <1>15, <3>2, <3>3
  <2> QED BY <2>1, <2>2
<1>17. total + SumaDe(c, R) + Oculto + 0 = puestas
  BY <1>2, <1>8, <1>10, <1>12 DEF Cuadre
<1> QED BY <1>2, <1>9, <1>11, <1>12, <1>16, <1>17

\* A removal takes the record's counter with it...
LEMMA CuadreCero ==
  ASSUME Inv1, InvBorra, TiposCuentas, Cuadre, NEW p \in Procs, BorraCeroC(p)
  PROVE  Cuadre'
<1> USE ConstantesAssumption
    DEF Inv1, TypeOK, InvPapeles, Procs, Va, TiposCuentas, memoria, senales, locales, progreso,
        cuentas
<1> SUFFICES ASSUME limpio'
    PROVE total' + SumaDe(cont', Contados') + Oculto' + SumaDe(cont', Borrados') = puestas'
  BY DEF Cuadre
<1>1. PICK s : s = id[p]
  OBVIOUS
<1>2. /\ pc[p] = "bor_cero" /\ pc' = [pc EXCEPT ![p] = "bor_suma"]
      /\ pid' = [pid EXCEPT ![s] = SinPid] /\ tPos' = tPos /\ id' = id
      /\ UNCHANGED <<total, puestas, cont>> /\ limpio /\ pid[s] # SinPid
  BY <1>1 DEF BorraCeroC, BorraCero
<1>3. s \in Registros
  BY <1>1, <1>2 DEF InvBorra
<1>4. \A q \in Procs \ {p} : pc[q] \notin {"ins_sale", "bor_suma"}
  BY <1>2 DEF CerrojoExacto, EnCritica
<1>5. Asentado(s) /\ ~Asentado(s)'
  BY <1>2, <1>3, <1>4 DEF Asentado
<1>6. \A r \in Registros \ {s} : Asentado(r)' <=> Asentado(r)
  BY <1>2, <1>4 DEF Asentado
<1>7. Borrados = {} /\ Borrados' = {s}
  <2>1. Restando = {} /\ Restando' = {p}
    BY <1>2, <1>4 DEF Restando
  <2> QED BY <1>1, <1>2, <2>1 DEF Borrados
<1>8. PICK c : c = cont
  OBVIOUS
<1>9. PICK R : R = Contados
  OBVIOUS
<1>10. PICK R1 : R1 = Contados'
  OBVIOUS
<1>11. c[s] \in Nat
  BY <1>3, <1>8
<1>12. SumaDe(cont, Borrados) = 0 /\ SumaDe(cont', Borrados') = c[s]
  <2>1. PICK B : B = {}
    OBVIOUS
  <2>2. SumaDe(c, B) = 0 /\ SumaDe(c, {s}) = c[s]
    BY <1>11, <2>1, SumaVacia, SumaUno
  <2>3. cont' = c
    BY <1>2, <1>8
  <2> QED BY <1>7, <1>8, <2>1, <2>2, <2>3
<1>13. /\ IsFiniteSet(R) /\ R \subseteq Registros /\ SumaDe(c, R) \in Nat /\ Oculto \in Nat
  BY <1>8, <1>9, CuadreTipos
<1>14. \A r \in R : c[r] \in Nat
  BY <1>8, <1>13
<1>15. SumaDe(c, R) + Oculto = SumaDe(c, R1) + Oculto' + c[s] /\ SumaDe(c, R1) \in Nat
         /\ Oculto' \in Nat
  <2>1. CASE s \in Revisados
    <3>1. s \in R
      BY <1>5, <1>9, <2>1 DEF Contados
    <3>2. R1 = R \ {s}
      BY <1>5, <1>6, <1>9, <1>10, <2>1 DEF Contados, Revisados, Registros
    <3>3. SumaDe(c, R) = c[s] + SumaDe(c, R \ {s})
      BY <1>13, <1>14, <3>1, SumaQuita
    <3>4. s # MaxProcesos + 1 /\ MaxProcesos + 1 \in Registros
      BY <2>1 DEF Revisados, Registros
    <3>5. Oculto' = Oculto
      BY <1>2, <1>6, <3>4 DEF Oculto
    <3>6. IsFiniteSet(R \ {s}) /\ \A r \in R \ {s} : c[r] \in Nat
      BY <1>13, <1>14, FS_RemoveElement
    <3>7. PICK R2 : R2 = R \ {s}
      OBVIOUS
    <3>8. IsFiniteSet(R2) /\ \A r \in R2 : c[r] \in Nat
      BY <3>6, <3>7
    <3>9. SumaDe(c, R2) \in Nat
      BY <3>8, SumaNatural
    <3> QED BY <1>11, <1>13, <3>2, <3>3, <3>5, <3>7, <3>9
  <2>2. CASE s \notin Revisados
    <3>1. s = MaxProcesos + 1
      BY <1>3, <2>2 DEF Revisados, Registros
    <3>2. R1 = R
      BY <1>5, <1>6, <1>9, <1>10, <2>2 DEF Contados, Revisados, Registros
    <3>3. Oculto = c[s] /\ Oculto' = 0
      BY <1>5, <1>8, <3>1 DEF Oculto
    <3> QED BY <1>11, <1>13, <3>2, <3>3
  <2> QED BY <2>1, <2>2
<1>16. total + SumaDe(c, R) + Oculto + 0 = puestas
  BY <1>2, <1>8, <1>9, <1>12 DEF Cuadre
<1>17. cont' = c /\ total \in Nat /\ total' = total /\ puestas' = puestas
  BY <1>2, <1>8
<1>18. total + SumaDe(c, R1) + Oculto' + c[s] = puestas
  BY <1>11, <1>13, <1>15, <1>16, <1>17, SMTT(30)
<1> QED BY <1>10, <1>12, <1>17, <1>18

\* ...until it has added it to the totals.
LEMMA CuadreSuma ==
  ASSUME Inv1, InvBorra, TiposCuentas, Cuadre, NEW p \in Procs, BorraSumaC(p)
  PROVE  Cuadre'
<1> USE ConstantesAssumption
    DEF Inv1, TypeOK, InvPapeles, Procs, Va, TiposCuentas, memoria, senales, locales, progreso,
        historia
<1> SUFFICES ASSUME limpio'
    PROVE total' + SumaDe(cont', Contados') + Oculto' + SumaDe(cont', Borrados') = puestas'
  BY DEF Cuadre
<1>1. PICK s : s = id[p]
  OBVIOUS
<1>2. /\ pc[p] = "bor_suma" /\ pid' = pid /\ tPos' = tPos
      /\ pc'[p] \notin {"bor_suma", "ins_sale"} /\ \A q \in Procs \ {p} : pc'[q] = pc[q]
      /\ UNCHANGED <<puestas, cont>> /\ limpio /\ total' = total + cont[s]
  BY <1>1 DEF BorraSumaC, BorraSuma
<1>3. s \in Registros /\ cont[s] \in Nat
  BY <1>1, <1>2 DEF InvBorra
<1>4. \A q \in Procs \ {p} : pc[q] \notin {"ins_sale", "bor_suma"}
  BY <1>2 DEF CerrojoExacto, EnCritica
<1>5. \A r : Asentado(r)' <=> Asentado(r)
  BY <1>2, <1>4 DEF Asentado
<1>6. Contados' = Contados
  BY <1>5 DEF Contados
<1>7. Oculto' = Oculto
  BY <1>2, <1>5 DEF Oculto
<1>8. Borrados = {s} /\ Borrados' = {}
  <2>1. Restando = {p} /\ Restando' = {}
    BY <1>2, <1>4 DEF Restando
  <2> QED BY <1>1, <2>1 DEF Borrados
<1>9. PICK c : c = cont
  OBVIOUS
<1>10. SumaDe(cont, Borrados) = c[s] /\ SumaDe(cont', Borrados') = 0
  <2>1. PICK B : B = {}
    OBVIOUS
  <2>2. SumaDe(c, B) = 0 /\ SumaDe(c, {s}) = c[s]
    BY <1>3, <1>9, <2>1, SumaVacia, SumaUno
  <2>3. cont' = c
    BY <1>2, <1>9
  <2> QED BY <1>8, <1>9, <2>1, <2>2, <2>3
<1>11. SumaDe(cont, Contados) \in Nat /\ Oculto \in Nat
  BY CuadreTipos
<1>12. total + SumaDe(cont, Contados) + Oculto + c[s] = puestas
  BY <1>2, <1>10 DEF Cuadre
<1>13. SumaDe(cont', Contados') = SumaDe(cont, Contados)
  BY <1>2, <1>6
<1> QED BY <1>2, <1>3, <1>7, <1>9, <1>10, <1>11, <1>12, <1>13

\* A put counts one request more, in its own record.
LEMMA CuadrePone ==
  ASSUME Inv1, InvBorra, InvMedio, InvAux, TiposCuentas, Cuadre,
         NEW p \in Lanzadores, PutEscribe(p)
  PROVE  Cuadre'
<1> USE ConstantesAssumption
    DEF Inv1, TypeOK, InvPapeles, Procs, TiposCuentas, vars
<1> SUFFICES ASSUME limpio'
    PROVE total' + SumaDe(cont', Contados') + Oculto' + SumaDe(cont', Borrados') = puestas'
  BY DEF Cuadre
<1>1. PICK s : s = tPos[p]
  OBVIOUS
<1>2. /\ pc[p] = "acepta" /\ pet[p] = "pone" /\ UNCHANGED <<pid, pc, tPos, id, total>>
      /\ puestas' = puestas + 1 /\ limpio /\ Mio(p)
      /\ cont' = [cont EXCEPT ![s] = aux[p] + 1]
  BY <1>1 DEF PutEscribe, Esta
<1>3. s \in Registros /\ pid[s] = p /\ aux[p] = cont[s] /\ cont[s] \in Nat
  BY <1>1, <1>2 DEF Mio, InvAux
<1>4. Asentado(s)
  BY <1>2, <1>3 DEF Asentado, InvMedio
<1>5. s \notin Borrados
  BY <1>3 DEF Borrados, Restando, InvMedio
<1>6. Contados' = Contados /\ Borrados' = Borrados
  BY <1>2 DEF Contados, Borrados, Restando, Asentado
<1>7. PICK c : c = cont
  OBVIOUS
<1>8. PICK d : d = cont'
  OBVIOUS
<1>9. PICK R : R = Contados
  OBVIOUS
<1>10. PICK B : B = Borrados
  OBVIOUS
<1>11. /\ IsFiniteSet(R) /\ R \subseteq Registros /\ IsFiniteSet(B) /\ B \subseteq Registros
       /\ SumaDe(c, R) \in Nat /\ SumaDe(c, B) \in Nat /\ Oculto \in Nat
  BY <1>7, <1>9, <1>10, CuadreTipos
<1>12. /\ \A r \in Registros : c[r] \in Nat /\ d[r] \in Nat
       /\ \A r \in Registros \ {s} : c[r] = d[r]
       /\ d[s] = c[s] + 1
  BY <1>2, <1>3, <1>7, <1>8
<1>13. SumaDe(d, B) = SumaDe(c, B)
  <2>1. \A r \in B : d[r] = c[r]
    BY <1>5, <1>10, <1>11, <1>12
  <2> QED BY <1>11, <2>1, SumaIgual
<1>14. SumaDe(d, R) + Oculto' = SumaDe(c, R) + Oculto + 1 /\ SumaDe(d, R) \in Nat
         /\ Oculto' \in Nat
  <2>0. \A r \in R : d[r] \in Nat
    BY <1>11, <1>12
  <2>01. SumaDe(d, R) \in Nat
    BY <1>11, <2>0, SumaNatural
  <2>1. CASE s \in Revisados
    <3>1. s \in R
      BY <1>4, <1>9, <2>1 DEF Contados
    <3>2. (\A r \in R : c[r] \in Nat /\ d[r] \in Nat) /\ \A r \in R \ {s} : c[r] = d[r]
      BY <1>11, <1>12
    <3>3. SumaDe(d, R) + c[s] = SumaDe(c, R) + d[s]
      BY <1>11, <3>1, <3>2, SumaCambia
    <3>4. s # MaxProcesos + 1 /\ MaxProcesos + 1 \in Registros
      BY <2>1 DEF Revisados, Registros
    <3>5. Oculto' = Oculto
      BY <1>2, <3>4 DEF Oculto, Asentado
    <3> QED BY <1>3, <1>7, <1>11, <1>12, <2>01, <3>3, <3>5
  <2>2. CASE s \notin Revisados
    <3>1. s = MaxProcesos + 1
      BY <1>3, <2>2 DEF Revisados, Registros
    <3>2. \A r \in R : d[r] = c[r]
      BY <1>9, <1>11, <1>12, <2>2 DEF Contados
    <3>3. SumaDe(d, R) = SumaDe(c, R)
      BY <1>11, <3>2, SumaIgual
    <3>4. Asentado(s)'
      BY <1>2, <1>4 DEF Asentado
    <3>5. Oculto = c[s] /\ Oculto' = d[s]
      BY <1>4, <1>7, <1>8, <3>1, <3>4 DEF Oculto
    <3> QED BY <1>3, <1>7, <1>11, <1>12, <3>3, <3>5
  <2> QED BY <2>1, <2>2
<1>15. total + SumaDe(c, R) + Oculto + SumaDe(c, B) = puestas
  BY <1>2, <1>7, <1>9, <1>10 DEF Cuadre
<1>16. total \in Nat /\ total' = total /\ puestas' = puestas + 1
  BY <1>2
<1>17. total + SumaDe(d, R) + Oculto' + SumaDe(d, B) = puestas + 1
  BY <1>11, <1>13, <1>14, <1>15, <1>16
<1> QED BY <1>6, <1>8, <1>9, <1>10, <1>16, <1>17

\* A reset leaves nothing but what it does not look at: it has the lock, so
\* that every record in use is settled and no removal carries a count.
LEMMA CuadreReset ==
  ASSUME Inv1, InvBorra, TiposCuentas, Cuadre, NEW q \in Supervisores, Reset(q)
  PROVE  Cuadre'
<1> USE ConstantesAssumption
    DEF Inv1, TypeOK, InvPapeles, Procs, TiposCuentas, vars
<1>1. /\ pc[q] = "critica" /\ UNCHANGED <<pid, pc, tPos, id>>
      /\ cont' = [s \in Registros |-> IF s \in Reseteados THEN 0 ELSE cont[s]]
      /\ total' = 0 /\ puestas' = Oculto
  BY DEF Reset
<1>2. \A p \in Procs : pc[p] \notin {"ins_sale", "bor_suma"}
  BY <1>1 DEF CerrojoExacto, EnCritica
<1>3. Borrados' = {}
  BY <1>1, <1>2 DEF Borrados, Restando
<1>4. \A s : Asentado(s)' <=> pid[s] # SinPid
  BY <1>1, <1>2 DEF Asentado
<1>5. Contados' = Reseteados
  BY <1>4 DEF Contados, Reseteados
<1>6. Oculto' = Oculto
  <2>1. MaxProcesos + 1 \in Registros /\ MaxProcesos + 1 \notin Reseteados
    BY DEF Registros, Revisados, Reseteados
  <2>2. Asentado(MaxProcesos + 1)' <=> Asentado(MaxProcesos + 1)
    BY <1>1, <1>2 DEF Asentado
  <2> QED BY <1>1, <2>1, <2>2 DEF Oculto
<1>7. PICK d : d = cont'
  OBVIOUS
<1>8. PICK R : R = Reseteados
  OBVIOUS
<1>9. PICK B : B = {}
  OBVIOUS
<1>10. IsFiniteSet(R) /\ R \subseteq Registros
  <2>1. R \subseteq Revisados /\ Revisados \subseteq Registros
    BY <1>8 DEF Reseteados, Registros, Revisados
  <2>2. IsFiniteSet(Revisados)
    BY FS_Interval DEF Revisados
  <2> QED BY <2>1, <2>2, FS_Subset
<1>11. \A s \in R : d[s] = 0
  BY <1>1, <1>7, <1>8, <1>10
<1>12. SumaDe(d, R) = 0 /\ SumaDe(d, B) = 0
  BY <1>9, <1>10, <1>11, SumaNula, SumaVacia
<1>13. Oculto \in Nat
  BY CuadreTipos
<1> QED BY <1>1, <1>3, <1>5, <1>6, <1>7, <1>8, <1>9, <1>12, <1>13 DEF Cuadre

\* A stop outside the two places moves nothing; inside, it is an accident.
LEMMA CuadreCorta ==
  ASSUME Inv1, TiposCuentas, Cuadre, NEW p \in Procs, Corta(p)
  PROVE  Cuadre'
<1> USE ConstantesAssumption
    DEF Inv1, TypeOK, InvPapeles, Procs, Va, TiposCuentas, memoria, senales, locales, progreso,
        cuentas
<1> SUFFICES ASSUME limpio' PROVE Cuadre'
  BY DEF Cuadre
<1>1. limpio /\ ~AMedias(p)
  BY DEF Corta
<1>2. pc[p] \notin {"ins_sale", "bor_suma"} /\ UNCHANGED <<cont, total, puestas>>
  BY <1>1 DEF AMedias, Corta, Esta
<1>3. CASE Acaba(p)
  <2>1. UNCHANGED <<pid, tPos, id>> /\ pc' = [pc EXCEPT ![p] = "muerto"]
    BY <1>3 DEF Acaba
  <2> QED BY <1>1, <1>2, <2>1, CuadreMarco
<1>4. CASE p \in Lanzadores /\ RecibeTerm(p) /\ p \in armado
  <2>1. /\ UNCHANGED <<pid, tPos>> /\ pc' = [pc EXCEPT ![p] = "bor_mira"]
        /\ id' = [id EXCEPT ![p] = tPos[p]]
    BY <1>4 DEF RecibeTerm
  <2> QED BY <1>1, <1>2, <2>1, CuadreMarco
<1>5. CASE p \in Supervisores /\ CleanUp(p)
  <2>1. UNCHANGED <<pid, tPos, id>> /\ pc' = [pc EXCEPT ![p] = "cleanup"]
    BY <1>5 DEF CleanUp
  <2> QED BY <1>1, <1>2, <2>1, CuadreMarco
<1> QED BY <1>3, <1>4, <1>5 DEF Corta, Muere, RecibeTerm

\* Every step of the table and of the statistics keeps the balance.
LEMMA CuadrePaso ==
  ASSUME Inv1, Inv2, InvBorra, TiposCuentas, InvMedio, InvAux, Cuadre, [NextC]_varsC
  PROVE  Cuadre'
<1> USE ConstantesAssumption
    DEF Inv1, TypeOK, InvPapeles, PCsLanzador, PCsSupervisor, PCsBorra, Procs, Va,
        TiposCuentas, memoria, senales, locales, cuentas, historia, progreso, contVars
<1>1. ASSUME NEW p \in Lanzadores, LanzadorIgual(p) PROVE Cuadre'
  <2>1. UNCHANGED <<cont, total, puestas, limpio>>
    BY <1>1 DEF LanzadorIgual
  <2>2. CASE InsertaEscribe(p)
    <3>1. /\ pc[p] = "ins_escribe" /\ pid' = [pid EXCEPT ![tPos[p]] = p]
          /\ pc' = [pc EXCEPT ![p] = "ins_sale"] /\ tPos' = tPos /\ id' = id
      BY <2>2 DEF InsertaEscribe
    <3>2. tPos[p] \in Registros /\ pid[tPos[p]] = SinPid
      BY <3>1 DEF Inv2, InvInserta
    <3>3. \A s \in Registros : Asentado(s)' <=> Asentado(s)
      BY <3>1, <3>2 DEF Asentado
    <3>4. Revisados \subseteq Registros /\ MaxProcesos + 1 \in Registros
      BY DEF Revisados, Registros
    <3>5. Contados' = Contados
      BY <3>3, <3>4 DEF Contados
    <3>6. Oculto' = Oculto
      BY <2>1, <3>3, <3>4 DEF Oculto
    <3>7. Borrados' = Borrados
      <4>1. Restando' = Restando
        BY <3>1 DEF Restando
      <4> QED BY <3>1, <4>1 DEF Borrados
    <3> QED BY <2>1, <3>5, <3>6, <3>7, CuadreIgual
  <2>3. CASE ~InsertaEscribe(p)
    <3>1. pid' = pid /\ \A q \in Lanzadores \ {p} : tPos'[q] = tPos[q]
      BY <1>1, <2>3 DEF LanzadorIgual, ArrancaLanzador, InsertaEntra, InsertaLlena, ChequeoBorra,
           ChequeoSigue, ChequeoFin, Suicidio, SaleDelBucle, Acaba
    <3>2. pc[p] \notin {"ins_sale", "bor_suma"} /\ pc'[p] \notin {"ins_sale", "bor_suma"}
      BY <1>1, <2>3 DEF LanzadorIgual, ArrancaLanzador, InsertaEntra, InsertaLlena,
           ChequeoBorra, ChequeoSigue, ChequeoFin, Suicidio, SaleDelBucle, Acaba
    <3>3. \A q \in Procs \ {p} : pc'[q] = pc[q] /\ id'[q] = id[q]
      BY <1>1, <2>3 DEF LanzadorIgual, ArrancaLanzador, InsertaEntra, InsertaLlena,
           ChequeoBorra, ChequeoSigue, ChequeoFin, Suicidio, SaleDelBucle, Acaba
    <3> QED BY <2>1, <3>1, <3>2, <3>3, CuadreMarco
  <2> QED BY <2>2, <2>3
<1>2. ASSUME NEW p \in Procs, BorraC(p) PROVE Cuadre'
  <2>1. CASE ProcesoIgual(p)
    <3>1. UNCHANGED <<cont, total, puestas, limpio, pid, tPos>>
      BY <2>1 DEF ProcesoIgual, BorraVacio, BorraMira, BorraLock, EnviaTerm
    <3>2. CASE EnviaTerm(p)
      BY <3>1, <3>2, CuadreMarco DEF EnviaTerm
    <3>3. CASE ~EnviaTerm(p)
      <4>1. /\ pc[p] \notin {"ins_sale", "bor_suma"} /\ pc'[p] \notin {"ins_sale", "bor_suma"}
            /\ \A q \in Procs \ {p} : pc'[q] = pc[q] /\ id'[q] = id[q]
        BY <2>1, <3>3 DEF ProcesoIgual, BorraVacio, BorraMira, BorraLock
      <4> QED BY <3>1, <4>1, CuadreMarco
    <3> QED BY <3>2, <3>3
  <2> QED BY <1>2, <2>1, CuadreCero, CuadreSuma DEF BorraC
<1>3. ASSUME NEW p \in Lanzadores, Cuenta(p) PROVE Cuadre'
  <2>1. CASE PutEscribe(p)
    BY <2>1, CuadrePone
  <2>2. CASE ~PutEscribe(p)
    <3>1. UNCHANGED <<cont, total, puestas, limpio, pid, tPos, id>>
      BY <1>3, <2>2 DEF Cuenta, Pide, GetContadores, PutMira, AcabaPeticion, Atiende, vars
    <3>2. pc' = pc \/ (pc[p] = "acepta" /\ \E l \in {"inserta", "acepta"} : pc' = [pc EXCEPT ![p] = l])
      BY <1>3, <2>2 DEF Cuenta, Pide, GetContadores, PutMira, AcabaPeticion, Atiende, vars
    <3> QED BY <3>1, <3>2, CuadreMarco
  <2> QED BY <2>1, <2>2
<1>4. ASSUME NEW q \in Supervisores, SupervisorIgual(q) PROVE Cuadre'
  <2>1. /\ UNCHANGED <<cont, total, puestas, limpio, pid, tPos>>
        /\ pc[q] \notin {"ins_sale", "bor_suma"} /\ pc'[q] \notin {"ins_sale", "bor_suma"}
        /\ \A p \in Procs \ {q} : pc'[p] = pc[p] /\ id'[p] = id[p]
    BY <1>4 DEF SupervisorIgual, LimpiaEmpieza, LimpiaFin, LimpiaVacio, LimpiaOcupado,
           LimpiaMuerto, LimpiaVivo, LimpiaFecha, LimpiaPid, LimpiaInactivo, LimpiaActivo,
           LimpiaSigue
  <2> QED BY <2>1, CuadreMarco
<1>5. ASSUME NEW q \in Supervisores, ArrancaSupervisorC(q) PROVE Cuadre'
  <2>1. /\ UNCHANGED <<cont, total, puestas, limpio, pid, tPos, id>>
        /\ pc[q] \in {"nuevo", "muerto"} /\ pc' = [pc EXCEPT ![q] = "reposo"]
    BY <1>5 DEF ArrancaSupervisorC, ArrancaSupervisor
  <2> QED BY <2>1, CuadreMarco
<1>6. ASSUME NEW q \in Supervisores, Foto(q) \/ ResetSinFoto(q) PROVE Cuadre'
  <2>1. CASE CriticaEntra(q) \/ CriticaSale(q)
    <3>1. /\ UNCHANGED <<cont, total, puestas, limpio, pid, tPos, id>>
          /\ pc[q] \in {"reposo", "critica"}
          /\ \E l \in {"reposo", "critica"} : pc' = [pc EXCEPT ![q] = l]
      BY <2>1 DEF CriticaEntra, CriticaSale, SupLock, SupUnlock
    <3> QED BY <3>1, CuadreMarco
  <2>2. CASE ~(CriticaEntra(q) \/ CriticaSale(q))
    <3>1. UNCHANGED <<cont, total, puestas, limpio, pid, pc, tPos, id>>
      BY <1>6, <2>2 DEF Foto, FotoAbre, FotoLee, FotoTotales, FotoAcumula, FotoEscribe,
           ResetSinFoto, vars
    <3> QED BY <3>1, CuadreMarco
  <2> QED BY <2>1, <2>2
<1>7. CASE UNCHANGED varsC
  BY <1>7, CuadreMarco DEF varsC, vars
<1> QED
  BY <1>1, <1>2, <1>3, <1>4, <1>5, <1>6, <1>7, CuadreSale, CuadreReset, CuadreCorta DEF NextC

\* At the start nobody is inside and nothing has been counted.
LEMMA CuentaInit == InitC => InvMedio /\ InvPet /\ InvAux /\ CuentaExacta
<1> SUFFICES ASSUME InitC PROVE InvMedio /\ InvPet /\ InvAux /\ CuentaExacta
  OBVIOUS
<1> USE ConstantesAssumption DEF InitC, Init
<1>1. InvMedio /\ InvPet /\ InvAux
  BY DEF InvMedio, InvPet, InvAux, Mio, Procs, Registros
<1>2. Contados = {} /\ Borrados = {} /\ Oculto = 0
  <2>1. Revisados \subseteq Registros /\ MaxProcesos + 1 \in Registros
    BY DEF Revisados, Registros
  <2>2. \A s \in Registros : ~Asentado(s)
    BY DEF Asentado
  <2> QED BY <2>1, <2>2 DEF Contados, Borrados, Restando, Oculto, Procs
<1>3. PICK c : c = cont
  OBVIOUS
<1>4. PICK B : B = {}
  OBVIOUS
<1>5. SumaDe(c, B) = 0
  BY <1>4, SumaVacia
<1>6. Cuadre
  BY <1>2, <1>3, <1>4, <1>5 DEF Cuadre
<1> QED BY <1>1, <1>6, CuentaEs

\* What a query and the totals report is what the launchers have put since the
\* last reset, unless one of the five accidents listed at CuentaExacta has
\* happened: for every number of launchers, of supervisors and of records, and
\* whoever dies, is removed or registers on the way (incrementaContPro,
\* borra_proceso, inserta_proceso, resetFecha).
THEOREM Exacta == SpecC => []CuentaExacta
<1>1. InitC => InvMedio /\ InvPet /\ InvAux /\ Cuadre
  BY CuentaInit, CuentaEs
<1>2. InvTipos /\ Inv2 /\ InvMedio /\ InvPet /\ InvAux /\ Cuadre /\ [NextC]_varsC
        => InvMedio' /\ InvPet' /\ InvAux' /\ Cuadre'
  BY MedioPaso, PetPaso, AuxPaso, CuadrePaso, PasoTabla DEF InvTipos
<1> QED
  BY <1>1, <1>2, InvTiposInvariante, TablaIntacta, Inv2Invariante, CuentaEs, PTL DEF SpecC
=============================================================================
