--------------------------- MODULE CreaTablaProofs ---------------------------
(* The proofs that the creation and the attachment of the tables preserve    *)
(* IInv and go on to their end, for any number of launchers, installations   *)
(* and records, any configurations and any number of processes killed and    *)
(* calls that fail.                                                          *)
EXTENDS CreaTabla, FiniteSetTheorems, TLAPS

\* A table is asked for with a size that the bound allows.
LEMMA ConfTipo ==
  ASSUME TypeOK, NEW p \in Procesos
  PROVE  Conf(p) \in 0..MaxProcess
BY CreaTablaAssumption, SMTT(30) DEF TypeOK, Segmentos, Conf, Procesos, Instalaciones

\* A process has an installation wherever it uses it.
LEMMA ClaveTipo ==
  ASSUME TypeOK, InvPunteros, NEW p \in Procesos,
         pc[p] \in {"mapea", "semaforo", "setval", "lock", "num", "max"}
  PROVE  Clave(p) \in Instalaciones
BY CreaTablaAssumption DEF TypeOK, InvPunteros, Clave, Procesos, Instalaciones

\* What the fields of a segment may be changed to.
LEMMA SegmentoTipo ==
  ASSUME NEW s \in Segmentos
  PROVE  /\ \A n \in Nat : [s EXCEPT !.num = n] \in Segmentos
         /\ \A m \in 0..MaxProcess : [s EXCEPT !.max = m] \in Segmentos
         /\ \A n \in Nat, quien \in [Registros -> Procesos \cup {Nadie}] :
              [s EXCEPT !.pid = quien, !.num = n] \in Segmentos
BY DEF Segmentos

\* The records are finitely many.
LEMMA RegistrosFinitos ==
  ASSUME NEW S \in SUBSET Registros
  PROVE  IsFiniteSet(S) /\ Cardinality(S) \in Nat
<1>1. IsFiniteSet(Registros)
  BY CreaTablaAssumption, FS_Interval DEF Registros
<1>2. IsFiniteSet(S)
  BY <1>1, FS_Subset
<1> QED BY <1>2, FS_CardinalityType

\* What borra_proceso of the records rs leaves.
LEMMA BarreHace ==
  ASSUME TypeOK, NEW k \in Instalaciones, NEW rs \in SUBSET Registros, Barre(k, rs)
  PROVE  \E n \in Nat :
           /\ n = IF segmento[k].num - Cardinality(rs) < 0 THEN 0
                  ELSE segmento[k].num - Cardinality(rs)
           /\ segmento' = [segmento EXCEPT
                ![k] = [segmento[k] EXCEPT
                          !.pid = [r \in Registros |-> IF r \in rs THEN Nadie
                                                       ELSE segmento[k].pid[r]],
                          !.num = n]]
           /\ segmento' \in [Instalaciones -> Segmentos]
<1> DEFINE n == IF segmento[k].num - Cardinality(rs) < 0 THEN 0
                ELSE segmento[k].num - Cardinality(rs)
           quien == [r \in Registros |-> IF r \in rs THEN Nadie ELSE segmento[k].pid[r]]
           s == [segmento[k] EXCEPT !.pid = quien, !.num = n]
<1>1. n \in Nat
  BY RegistrosFinitos DEF TypeOK, Segmentos
<1>2. quien \in [Registros -> Procesos \cup {Nadie}]
  BY DEF TypeOK, Segmentos
<1>3. segmento' = [segmento EXCEPT ![k] = s]
  BY DEF Barre, TypeOK
<1>4. s \in Segmentos
  <2> HIDE DEF n, quien
  <2> QED BY <1>1, <1>2, SegmentoTipo DEF TypeOK
<1>5. segmento' \in [Instalaciones -> Segmentos]
  <2> HIDE DEF s
  <2> QED BY <1>3, <1>4 DEF TypeOK
<1> HIDE DEF n
<1>6. segmento' = [segmento EXCEPT ![k] = [segmento[k] EXCEPT
                          !.pid = [r \in Registros |-> IF r \in rs THEN Nadie
                                                       ELSE segmento[k].pid[r]],
                          !.num = n]]
  BY <1>3
<1> QED BY <1>1, <1>5, <1>6 DEF n

\* What a registration writes.
LEMMA InsertaHace ==
  ASSUME TypeOK, NEW p \in Lanzadores, Inserta(p)
  PROVE  LET k == tabla[p] IN
         /\ k \in Instalaciones
         /\ tPos' \in [Lanzadores -> Registros \cup {0}]
         /\ \/ UNCHANGED <<segmento, antes>>
            \/ /\ \E r \in Libres(k) :
                    /\ r \in Registros
                    /\ segmento' = [segmento EXCEPT
                         ![k] = [segmento[k] EXCEPT !.pid = [segmento[k].pid EXCEPT ![r] = p],
                                                    !.num = segmento[k].num + 1]]
                    /\ antes' = IF iniciada[k] THEN antes ELSE [antes EXCEPT ![k] = antes[k] + 1]
               /\ segmento' \in [Instalaciones -> Segmentos]
               /\ antes' \in [Instalaciones -> Nat]
<1> DEFINE k == tabla[p]
<1>1. k \in Instalaciones /\ p \in Procesos
  BY DEF Inserta, Cerrojo, Usable, Procesos
<1>2. CASE tPos' = [tPos EXCEPT ![p] = 0] /\ UNCHANGED <<segmento, antes>>
  BY <1>1, <1>2 DEF TypeOK
<1>3. ASSUME NEW r \in Libres(k),
             tPos' = [tPos EXCEPT ![p] = r],
             segmento' = [segmento EXCEPT ![k].pid[r] = p, ![k].num = @ + 1],
             antes' = IF iniciada[k] THEN antes ELSE [antes EXCEPT ![k] = @ + 1]
      PROVE  /\ r \in Registros
             /\ tPos' \in [Lanzadores -> Registros \cup {0}]
             /\ segmento' = [segmento EXCEPT
                  ![k] = [segmento[k] EXCEPT !.pid = [segmento[k].pid EXCEPT ![r] = p],
                                             !.num = segmento[k].num + 1]]
             /\ segmento' \in [Instalaciones -> Segmentos]
             /\ antes' \in [Instalaciones -> Nat]
  <2>1. r \in Registros
    BY <1>1, CreaTablaAssumption DEF TypeOK, Libres, Segmentos, Registros
  <2> DEFINE quien == [segmento[k].pid EXCEPT ![r] = p]
             n == segmento[k].num + 1
             s == [segmento[k] EXCEPT !.pid = quien, !.num = n]
  <2>2. segmento' = [segmento EXCEPT ![k] = s]
    BY <1>1, <1>3 DEF TypeOK
  <2>3. quien \in [Registros -> Procesos \cup {Nadie}] /\ n \in Nat
    BY <1>1, <2>1 DEF TypeOK, Segmentos
  <2>4. s \in Segmentos
    <3> HIDE DEF quien, n
    <3> QED BY <1>1, <2>3, SegmentoTipo DEF TypeOK
  <2>5. segmento' \in [Instalaciones -> Segmentos]
    <3> HIDE DEF s
    <3> QED BY <2>2, <2>4 DEF TypeOK
  <2>6. antes' \in [Instalaciones -> Nat] /\ tPos' \in [Lanzadores -> Registros \cup {0}]
    BY <1>1, <1>3, <2>1 DEF TypeOK
  <2> QED BY <2>1, <2>2, <2>5, <2>6
<1> QED BY <1>1, <1>2, <1>3 DEF Inserta

\* The types are preserved.
LEMMA TiposPaso == TypeOK /\ InvPunteros /\ [Next]_vars => TypeOK'
<1> SUFFICES ASSUME TypeOK, InvPunteros, [Next]_vars PROVE TypeOK'
  OBVIOUS
<1> USE CreaTablaAssumption
    DEF TypeOK, En, Pasa, recursos, deSupervisor, Lugares, Punteros, NULL, Mala, NoHay
<1>1. ASSUME NEW p \in Procesos, MapeaCrea(p) PROVE TypeOK'
  BY <1>1, ConfTipo, ClaveTipo DEF MapeaCrea, Vacia, Segmentos
<1>2. ASSUME NEW p \in Procesos, MapeaUne(p) PROVE TypeOK'
  BY <1>2, ClaveTipo DEF MapeaUne, Mapeada
<1>3. ASSUME NEW p \in Procesos, MapeaNoCabe(p) PROVE TypeOK'
  BY <1>3 DEF MapeaNoCabe, Mapeada, TrasError
<1>4. ASSUME NEW p \in Procesos, MapeaFalla(p) PROVE TypeOK'
  BY <1>4 DEF MapeaFalla, Mapeada, Percance
<1>5. ASSUME NEW p \in Procesos, SemCrea(p) PROVE TypeOK'
  BY <1>5, ClaveTipo DEF SemCrea, Semaforo
<1>6. ASSUME NEW p \in Procesos, SetVal(p) PROVE TypeOK'
  BY <1>6 DEF SetVal, TrasExito
<1>7. ASSUME NEW p \in Procesos, SemUsa(p) PROVE TypeOK'
  BY <1>7, ClaveTipo DEF SemUsa, Semaforo, TrasExito
<1>8. ASSUME NEW p \in Procesos, SemFalla(p) PROVE TypeOK'
  BY <1>8 DEF SemFalla, Semaforo, TrasError, Percance
<1>9. ASSUME NEW p \in Procesos, Lock(p) PROVE TypeOK'
  BY <1>9 DEF Lock
<1>10. ASSUME NEW p \in Procesos, PoneNum(p) PROVE TypeOK'
  <2>1. tabla[p] \in Instalaciones
    BY <1>10, ClaveTipo DEF PoneNum, InvPunteros, PunterosDe
  <2>2. segmento' = [segmento EXCEPT ![tabla[p]] = [segmento[tabla[p]] EXCEPT !.num = 0]]
    BY <1>10 DEF PoneNum
  <2>3. segmento' \in [Instalaciones -> Segmentos]
    BY <2>1, <2>2, SegmentoTipo
  <2> QED BY <1>10, <2>3 DEF PoneNum
<1>11. ASSUME NEW p \in Procesos, PoneMax(p) PROVE TypeOK'
  <2>1. tabla[p] \in Instalaciones /\ Conf(p) \in 0..MaxProcess
    BY <1>11, ClaveTipo, ConfTipo DEF PoneMax, InvPunteros, PunterosDe
  <2>2. segmento' = [segmento EXCEPT ![tabla[p]] = [segmento[tabla[p]] EXCEPT !.max = Conf(p)]]
    BY <1>11 DEF PoneMax
  <2>3. segmento' \in [Instalaciones -> Segmentos]
    BY <2>1, <2>2, SegmentoTipo
  <2> QED BY <1>11, <2>3 DEF PoneMax, TrasExito
<1>12. ASSUME NEW p \in Procesos, Acaba(p) PROVE TypeOK'
  BY <1>12 DEF Acaba, Desaparece
<1>13. ASSUME NEW p \in Lanzadores, Inserta(p) PROVE TypeOK'
  <2>1. /\ segmento' \in [Instalaciones -> Segmentos] /\ antes' \in [Instalaciones -> Nat]
        /\ tPos' \in [Lanzadores -> Registros \cup {0}]
    BY <1>13, InsertaHace
  <2> QED BY <1>13, <2>1 DEF Inserta, Procesos
<1>14. ASSUME NEW p \in Lanzadores, Chequea(p) PROVE TypeOK'
  <2>1. /\ tabla[p] \in Instalaciones /\ Muertos(tabla[p]) \in SUBSET Registros
    BY <1>14 DEF Chequea, Segmentos, InvPunteros, PunterosDe, Usable, Muertos, Registros, Procesos
  <2>2. segmento' \in [Instalaciones -> Segmentos]
    BY <1>14, <2>1, BarreHace DEF Chequea
  <2> QED BY <1>14, <2>2 DEF Chequea, Procesos
<1>15. ASSUME NEW p \in Lanzadores, Reintenta(p) PROVE TypeOK'
  BY <1>15 DEF Reintenta, Procesos
<1>16. CASE Repasa
  BY <1>16 DEF Repasa, Procesos
<1>17. CASE Asigna
  <2>1. i \in Instalaciones /\ i + 1 \in 1..(Instalations + 1)
    BY <1>17 DEF Asigna, InvPunteros, Instalaciones
  <2>2. /\ tablas' \in [Instalaciones -> Punteros]
        /\ i' \in {i, i + 1} /\ pc' \in [Procesos -> Lugares]
    BY <1>17, <2>1 DEF Asigna, Procesos
  <2> QED BY <1>17, <2>1, <2>2 DEF Asigna
<1>18. CASE Limpia
  <2>1. /\ tablas[i] \in Instalaciones /\ Muertos(tablas[i]) \in SUBSET Registros
        /\ i \in Instalaciones /\ tablas[i] = tabla[Supervisor]
    BY <1>18 DEF Limpia, PunteroMalo, InvPunteros, Segmentos, Muertos, Registros, Procesos
  <2>2. \/ segmento' = segmento
        \/ \E rs \in SUBSET Muertos(tablas[i]) : Barre(tabla[Supervisor], rs)
    BY <1>18 DEF Limpia
  <2>3. segmento' \in [Instalaciones -> Segmentos]
    <3>1. CASE segmento' = segmento
      BY <3>1
    <3>2. ASSUME NEW rs \in SUBSET Muertos(tablas[i]), Barre(tabla[Supervisor], rs)
          PROVE  segmento' \in [Instalaciones -> Segmentos]
      <4>1. rs \in SUBSET Registros /\ tabla[Supervisor] \in Instalaciones
        BY <2>1
      <4> QED BY <3>2, <4>1, BarreHace
    <3> QED BY <2>2, <3>1, <3>2
  <2>4. i' \in 1..(Instalations + 1) /\ pc' \in [Procesos -> Lugares]
    BY <1>18, <2>1 DEF Limpia, Procesos, Instalaciones
  <2> QED BY <1>18, <2>3, <2>4 DEF Limpia
<1>19. CASE Bucle
  BY <1>19 DEF Bucle, Procesos
<1>20. ASSUME NEW p \in Procesos, Muere(p) PROVE TypeOK'
  BY <1>20 DEF Muere, Desaparece, Percance
<1>21. CASE CleanUp
  BY <1>21 DEF CleanUp, Procesos, Usable, Cerrojo
<1>22. CASE UNCHANGED vars
  BY <1>22 DEF vars
<1> QED
  BY <1>1, <1>2, <1>3, <1>4, <1>5, <1>6, <1>7, <1>8, <1>9, <1>10, <1>11, <1>12,
     <1>13, <1>14, <1>15, <1>16, <1>17, <1>18, <1>19, <1>20, <1>21, <1>22
     DEF Next, Paso, crea_tabla, SinTabla, DeLanzador, Suma, DeSupervisor, LimpiaAcaba, Procesos

\* Who works on a table has its semaphore, and goes on having it.
LEMMA PunterosPaso == TypeOK /\ InvPunteros /\ [Next]_vars => InvPunteros'
<1> SUFFICES ASSUME TypeOK, InvPunteros, [Next]_vars PROVE InvPunteros'
  OBVIOUS
<1> USE CreaTablaAssumption, ClaveTipo
    DEF TypeOK, InvPunteros, PunterosDe, En, Pasa, recursos, deSupervisor, Punteros, Usable, Clave, Procesos,
        NULL, Mala, Instalaciones
<1>1. ASSUME NEW p \in Procesos, MapeaCrea(p) PROVE InvPunteros'
  BY <1>1 DEF MapeaCrea
<1>2. ASSUME NEW p \in Procesos, MapeaUne(p) PROVE InvPunteros'
  BY <1>2 DEF MapeaUne, Mapeada
<1>3. ASSUME NEW p \in Procesos, MapeaNoCabe(p) PROVE InvPunteros'
  BY <1>3, SMTT(30) DEF MapeaNoCabe, Mapeada, TrasError
<1>4. ASSUME NEW p \in Procesos, MapeaFalla(p) PROVE InvPunteros'
  BY <1>4 DEF MapeaFalla, Mapeada
<1>5. ASSUME NEW p \in Procesos, SemCrea(p) PROVE InvPunteros'
  <2>1. /\ pc[p] = "semaforo" /\ pc' = [pc EXCEPT ![p] = "setval"]
        /\ locksem' = [locksem EXCEPT ![p] = Clave(p)]
        /\ UNCHANGED <<tabla, creada, config, deSupervisor>>
        /\ Clave(p) \in Instalaciones /\ tabla[p] \in {Clave(p), Mala}
        /\ creada[p] => tabla[p] = Clave(p)
    BY <1>5 DEF SemCrea, Semaforo
  <2>2. Clave(p)' = Clave(p)
    BY <2>1
  <2>3. pc'[p] = "setval" /\ locksem'[p] = Clave(p) /\ tabla'[p] = tabla[p]
    BY <2>1
  <2>4. Mala \notin Instalaciones /\ NULL \notin Instalaciones
    OBVIOUS
  <2>5. \A q \in Procesos \ {p} : pc'[q] = pc[q] /\ locksem'[q] = locksem[q]
    BY <2>1
  <2>6. /\ tabla'[p] \in {Clave(p)', Mala} /\ (creada'[p] => tabla'[p] = Clave(p)')
        /\ locksem'[p] = Clave(p)'
        /\ Usable(p)' => locksem'[p] = tabla'[p]
    BY ONLY <2>1, <2>2, <2>3, <2>4 DEF Usable
  <2>7. /\ pc'[Supervisor] \notin {"repasa", "bucle", "cleanup", "muerto"} => i' \in Instalaciones
        /\ pc'[Supervisor] # "limpia" \/ (pc[Supervisor] = "limpia" /\ i' = i /\ tablas' = tablas)
    BY <2>1
  <2>8. tabla' = tabla /\ creada' = creada /\ config' = config /\ i' = i /\ tablas' = tablas
    BY <2>1
  <2>9. ASSUME NEW q \in Procesos PROVE PunterosDe(q)'
    <3>1. CASE q = p
      BY <2>3, <2>6, <3>1
    <3>2. CASE q # p
      <4>1. Clave(q)' = Clave(q) /\ Usable(q)' = Usable(q)
        BY <2>5, <2>8, <3>2
      <4> HIDE DEF Clave, Usable
      <4> QED BY <2>5, <2>8, <3>2, <4>1
    <3> QED BY <3>1, <3>2
  <2>10. pc'[Supervisor] # "limpia" \/ (pc[Supervisor] = "limpia" /\ tabla' = tabla)
    BY <2>7, <2>8
  <2> HIDE DEF PunterosDe
  <2> QED BY <2>7, <2>8, <2>9
<1>6. ASSUME NEW p \in Procesos, SetVal(p) PROVE InvPunteros'
  BY <1>6 DEF SetVal, TrasExito
<1>7. ASSUME NEW p \in Procesos, SemUsa(p) PROVE InvPunteros'
  BY <1>7, SMTT(30) DEF SemUsa, Semaforo, TrasExito
<1>8. ASSUME NEW p \in Procesos, SemFalla(p) PROVE InvPunteros'
  BY <1>8 DEF SemFalla, Semaforo, TrasError
<1>9. ASSUME NEW p \in Procesos, Lock(p) PROVE InvPunteros'
  BY <1>9 DEF Lock
<1>10. ASSUME NEW p \in Procesos, PoneNum(p) PROVE InvPunteros'
  BY <1>10 DEF PoneNum
<1>11. ASSUME NEW p \in Procesos, PoneMax(p) PROVE InvPunteros'
  BY <1>11 DEF PoneMax, TrasExito
<1>12. ASSUME NEW p \in Procesos, Acaba(p) PROVE InvPunteros'
  BY <1>12 DEF Acaba, Desaparece
<1>13. ASSUME NEW p \in Lanzadores, Inserta(p) PROVE InvPunteros'
  BY <1>13 DEF Inserta, Cerrojo
<1>14. ASSUME NEW p \in Lanzadores, Chequea(p) PROVE InvPunteros'
  BY <1>14 DEF Chequea, Barre
<1>15. ASSUME NEW p \in Lanzadores, Reintenta(p) PROVE InvPunteros'
  BY <1>15 DEF Reintenta
<1>16. CASE Repasa
  <2>1. \E l \in {"bucle", "mapea", "asigna"} :
          /\ pc' = [pc EXCEPT ![Supervisor] = l]
          /\ l # "bucle" => ~(i > Instalations)
    BY <1>16 DEF Repasa
  <2>2. pc[Supervisor] = "repasa" /\ UNCHANGED <<tabla, locksem, creada, config, tablas, i>>
    BY <1>16 DEF Repasa
  <2>3. pc'[Supervisor] # "bucle" => i \in Instalaciones
    BY <2>1
  <2>4. pc'[Supervisor] \in {"bucle", "mapea", "asigna"}
    BY <2>1
  <2>5. \A q \in Procesos \ {Supervisor} : pc'[q] = pc[q]
    BY <2>1
  <2> QED BY <2>2, <2>3, <2>4, <2>5
<1>17. CASE Asigna
  <2>1. /\ pc[Supervisor] = "asigna" /\ i \in Instalaciones
        /\ tablas' = [tablas EXCEPT ![i] = tabla[Supervisor]]
        /\ UNCHANGED <<tabla, locksem, creada, config>>
    BY <1>17 DEF Asigna
  <2>2. \/ i' = i + 1 /\ pc' = [pc EXCEPT ![Supervisor] = "repasa"]
        \/ /\ tablas'[i] # NULL /\ i' = i
           /\ pc' = [pc EXCEPT ![Supervisor] = "limpia"]
    BY <1>17 DEF Asigna
  <2>3. /\ \A q \in Procesos \ {Supervisor} : pc'[q] = pc[q] /\ Clave(q)' = Clave(q)
        /\ Supervisor \in Procesos /\ pc'[Supervisor] \in {"repasa", "limpia"}
    BY ONLY <2>1, <2>2, TypeOK DEF TypeOK, Procesos, Clave
  <2>4. \A q \in Procesos \ {Supervisor} : PunterosDe(q)'
    <3> SUFFICES ASSUME NEW q \in Procesos \ {Supervisor} PROVE PunterosDe(q)'
      OBVIOUS
    <3>1. PunterosDe(q)
      BY ONLY InvPunteros DEF InvPunteros
    <3> QED BY ONLY <2>1, <2>3, <3>1 DEF PunterosDe, Usable
  <2>5. PunterosDe(Supervisor)
    BY ONLY <2>3, InvPunteros DEF InvPunteros
  <2>6. PunterosDe(Supervisor)'
    BY ONLY <2>1, <2>3, <2>5 DEF PunterosDe, Usable
  <2>7. tablas'[i] = tabla[Supervisor]
    BY ONLY <2>1, TypeOK DEF TypeOK
  <2>8. pc'[Supervisor] = "limpia" =>
          i' \in Instalaciones /\ tablas'[i'] = tabla'[Supervisor] /\ tablas'[i'] # NULL
    BY ONLY <2>1, <2>2, <2>7, TypeOK DEF TypeOK
  <2>9. \A q \in Procesos : PunterosDe(q)'
    BY ONLY <2>4, <2>6
  <2> QED BY ONLY <2>3, <2>8, <2>9 DEF InvPunteros
<1>18. CASE Limpia
  BY <1>18 DEF Limpia, PunteroMalo, Barre
<1>19. CASE Bucle
  BY <1>19 DEF Bucle
<1>20. ASSUME NEW p \in Procesos, Muere(p) PROVE InvPunteros'
  BY <1>20 DEF Muere, Desaparece
<1>21. CASE CleanUp
  BY <1>21 DEF CleanUp
<1>22. CASE UNCHANGED vars
  BY <1>22 DEF vars
<1> QED
  BY <1>1, <1>2, <1>3, <1>4, <1>5, <1>6, <1>7, <1>8, <1>9, <1>10, <1>11, <1>12, <1>13, <1>14, <1>15, <1>16, <1>17, <1>18, <1>19, <1>20, <1>21, <1>22
     DEF Next, Paso, crea_tabla, SinTabla, DeLanzador, Suma, DeSupervisor, LimpiaAcaba, Procesos

\* No semaphore is given its value while somebody has it.
LEMMA SemaforoPaso == TypeOK /\ InvPunteros /\ InvSemaforo /\ [Next]_vars => InvSemaforo'
<1> SUFFICES ASSUME TypeOK, InvPunteros, InvSemaforo, [Next]_vars PROVE InvSemaforo'
  OBVIOUS
<1> USE CreaTablaAssumption, ClaveTipo
    DEF TypeOK, InvPunteros, PunterosDe, InvSemaforo, SemaforoExacto, SinValor, En, Pasa, recursos,
        deSupervisor, Usable, Clave, Procesos, NULL, Mala, NoHay
<1>1. ASSUME NEW p \in Procesos, MapeaCrea(p) PROVE InvSemaforo'
  BY <1>1 DEF MapeaCrea
<1>2. ASSUME NEW p \in Procesos, MapeaUne(p) PROVE InvSemaforo'
  BY <1>2 DEF MapeaUne, Mapeada
<1>3. ASSUME NEW p \in Procesos, MapeaNoCabe(p) PROVE InvSemaforo'
  BY <1>3 DEF MapeaNoCabe, Mapeada, TrasError
<1>4. ASSUME NEW p \in Procesos, MapeaFalla(p) PROVE InvSemaforo'
  BY <1>4 DEF MapeaFalla, Mapeada
<1>5. ASSUME NEW p \in Procesos, SemCrea(p) PROVE InvSemaforo'
  BY <1>5 DEF SemCrea, Semaforo
<1>6. ASSUME NEW p \in Procesos, SetVal(p) PROVE InvSemaforo'
  BY <1>6 DEF SetVal, TrasExito
<1>7. ASSUME NEW p \in Procesos, SemUsa(p) PROVE InvSemaforo'
  BY <1>7 DEF SemUsa, Semaforo, TrasExito
<1>8. ASSUME NEW p \in Procesos, SemFalla(p) PROVE InvSemaforo'
  BY <1>8 DEF SemFalla, Semaforo, TrasError
<1>9. ASSUME NEW p \in Procesos, Lock(p) PROVE InvSemaforo'
  BY <1>9 DEF Lock
<1>10. ASSUME NEW p \in Procesos, PoneNum(p) PROVE InvSemaforo'
  BY <1>10 DEF PoneNum
<1>11. ASSUME NEW p \in Procesos, PoneMax(p) PROVE InvSemaforo'
  BY <1>11 DEF PoneMax, TrasExito
<1>12. ASSUME NEW p \in Procesos, Acaba(p) PROVE InvSemaforo'
  BY <1>12 DEF Acaba, Desaparece
<1>13. ASSUME NEW p \in Lanzadores, Inserta(p) PROVE InvSemaforo'
  <2>1. /\ p \in Procesos /\ pc[p] = "inserta" /\ pc' = [pc EXCEPT ![p] = "chequea"]
        /\ UNCHANGED <<semaforo, dentro, tabla, i, config>>
    BY <1>13 DEF Inserta
  <2>2. \A q \in Procesos, l \in {"setval", "num", "max"} : pc'[q] = l <=> pc[q] = l
    BY ONLY <2>1, TypeOK DEF TypeOK
  <2>3. \A q \in Procesos : Clave(q)' = Clave(q)
    BY ONLY <2>1 DEF Clave
  <2> QED
    BY ONLY <2>1, <2>2, <2>3, InvSemaforo DEF InvSemaforo, SemaforoExacto, SinValor, En
<1>14. ASSUME NEW p \in Lanzadores, Chequea(p) PROVE InvSemaforo'
  BY <1>14 DEF Chequea, Barre
<1>15. ASSUME NEW p \in Lanzadores, Reintenta(p) PROVE InvSemaforo'
  BY <1>15 DEF Reintenta
<1>16. CASE Repasa
  BY <1>16 DEF Repasa
<1>17. CASE Asigna
  BY <1>17 DEF Asigna
<1>18. CASE Limpia
  BY <1>18 DEF Limpia, PunteroMalo, Barre
<1>19. CASE Bucle
  BY <1>19 DEF Bucle
<1>20. ASSUME NEW p \in Procesos, Muere(p) PROVE InvSemaforo'
  BY <1>20 DEF Muere, Desaparece
<1>21. CASE CleanUp
  BY <1>21 DEF CleanUp, Cerrojo
<1>22. CASE UNCHANGED vars
  BY <1>22 DEF vars
<1> QED
  BY <1>1, <1>2, <1>3, <1>4, <1>5, <1>6, <1>7, <1>8, <1>9, <1>10, <1>11, <1>12, <1>13, <1>14, <1>15, <1>16, <1>17, <1>18, <1>19, <1>20, <1>21, <1>22
     DEF Next, Paso, crea_tabla, SinTabla, DeLanzador, Suma, DeSupervisor, LimpiaAcaba, Procesos

\* Removing records leaves the size of every segment.
LEMMA BarreTam ==
  ASSUME TypeOK, NEW t \in Punteros, NEW rs, Barre(t, rs)
  PROVE  \A k \in Instalaciones : segmento'[k].tam = segmento[k].tam
BY DEF TypeOK, Segmentos, Barre

\* So does a registration.
LEMMA InsertaTam ==
  ASSUME TypeOK, NEW p \in Lanzadores, Inserta(p)
  PROVE  \A k \in Instalaciones : segmento'[k].tam = segmento[k].tam
<1>1. CASE UNCHANGED segmento
  BY <1>1
<1>2. ASSUME NEW r \in Registros,
             segmento' = [segmento EXCEPT
               ![tabla[p]] = [segmento[tabla[p]] EXCEPT
                                !.pid = [segmento[tabla[p]].pid EXCEPT ![r] = p],
                                !.num = segmento[tabla[p]].num + 1]]
      PROVE  \A k \in Instalaciones : segmento'[k].tam = segmento[k].tam
  BY <1>2 DEF TypeOK, Segmentos
<1> QED BY <1>1, <1>2, InsertaHace

\* A process that is not giving a table its first values does not disturb who is.
LEMMA IniciandoSigue ==
  ASSUME InvIniciando, NEW p \in Procesos, ~Iniciando(p)', pc'[p] # "max",
         \A q \in Procesos \ {p} :
           pc'[q] = pc[q] /\ tabla'[q] = tabla[q] /\ creada'[q] = creada[q],
         tabla'[p] \in Instalaciones => tabla'[p] = tabla[p],
         iniciada' = iniciada,
         \A k \in Instalaciones : segmento'[k].tam = segmento[k].tam
  PROVE  InvIniciando'
BY DEF InvIniciando, Iniciando

\* One process at most is giving a table its first values, once.
LEMMA IniciandoPaso == TypeOK /\ InvPunteros /\ InvSemaforo /\ InvIniciando /\ [Next]_vars => InvIniciando'
<1> SUFFICES ASSUME TypeOK, InvPunteros, InvSemaforo, InvIniciando, [Next]_vars PROVE InvIniciando'
  OBVIOUS
<1> USE CreaTablaAssumption, ClaveTipo, ConfTipo
    DEF TypeOK, InvPunteros, PunterosDe, InvIniciando, Iniciando, En, Pasa, recursos,
        deSupervisor, Usable, Procesos, NULL, Mala, NoHay
<1>1. ASSUME NEW p \in Procesos, MapeaCrea(p) PROVE InvIniciando'
  <2>1. /\ Clave(p) \in Instalaciones /\ segmento[Clave(p)].tam = NoHay /\ Conf(p) # NoHay
        /\ pc' = [pc EXCEPT ![p] = "semaforo"] /\ tabla' = [tabla EXCEPT ![p] = Clave(p)]
        /\ creada' = [creada EXCEPT ![p] = TRUE] /\ iniciada' = iniciada
        /\ segmento' = [segmento EXCEPT ![Clave(p)] = Vacia(Conf(p))]
    BY <1>1 DEF MapeaCrea
  <2>2. /\ segmento'[Clave(p)].tam # NoHay
        /\ \A k \in Instalaciones \ {Clave(p)} : segmento'[k] = segmento[k]
    BY <2>1 DEF Vacia
  <2>3. ~iniciada[Clave(p)] /\ \A q \in Procesos : tabla[q] # Clave(p)
    BY <2>1
  <2> HIDE DEF NoHay
  <2> QED BY <2>1, <2>2, <2>3
<1>2. ASSUME NEW p \in Procesos, MapeaUne(p) PROVE InvIniciando'
  BY <1>2 DEF MapeaUne, Mapeada
<1>3. ASSUME NEW p \in Procesos, MapeaNoCabe(p) PROVE InvIniciando'
  <2>1. /\ ~Iniciando(p)' /\ pc'[p] # "max" /\ tabla'[p] \notin Instalaciones
        /\ segmento' = segmento /\ iniciada' = iniciada
    BY <1>3 DEF MapeaNoCabe, Mapeada, TrasError, Instalaciones
  <2>2. \A q \in Procesos \ {p} :
          pc'[q] = pc[q] /\ tabla'[q] = tabla[q] /\ creada'[q] = creada[q]
    BY <1>3 DEF MapeaNoCabe, Mapeada, TrasError
  <2> QED BY ONLY <2>1, <2>2, IniciandoSigue, InvIniciando, p \in Procesos
<1>4. ASSUME NEW p \in Procesos, MapeaFalla(p) PROVE InvIniciando'
  <2>1. /\ ~Iniciando(p)' /\ pc'[p] # "max" /\ tabla'[p] \notin Instalaciones
        /\ segmento' = segmento /\ iniciada' = iniciada
    BY <1>4 DEF MapeaFalla, Mapeada, Instalaciones
  <2>2. \A q \in Procesos \ {p} :
          pc'[q] = pc[q] /\ tabla'[q] = tabla[q] /\ creada'[q] = creada[q]
    BY <1>4 DEF MapeaFalla, Mapeada
  <2> QED BY ONLY <2>1, <2>2, IniciandoSigue, InvIniciando, p \in Procesos
<1>5. ASSUME NEW p \in Procesos, SemCrea(p) PROVE InvIniciando'
  BY <1>5 DEF SemCrea, Semaforo
<1>6. ASSUME NEW p \in Procesos, SetVal(p) PROVE InvIniciando'
  BY <1>6 DEF SetVal, TrasExito
<1>7. ASSUME NEW p \in Procesos, SemUsa(p) PROVE InvIniciando'
  BY <1>7 DEF SemUsa, Semaforo, TrasExito
<1>8. ASSUME NEW p \in Procesos, SemFalla(p) PROVE InvIniciando'
  BY <1>8 DEF SemFalla, Semaforo, TrasError
<1>9. ASSUME NEW p \in Procesos, Lock(p) PROVE InvIniciando'
  BY <1>9 DEF Lock
<1>10. ASSUME NEW p \in Procesos, PoneNum(p) PROVE InvIniciando'
  BY <1>10 DEF PoneNum
<1>11. ASSUME NEW p \in Procesos, PoneMax(p) PROVE InvIniciando'
  BY <1>11 DEF PoneMax, TrasExito
<1>12. ASSUME NEW p \in Procesos, Acaba(p) PROVE InvIniciando'
  <2>1. /\ ~Iniciando(p)' /\ pc'[p] # "max" /\ tabla'[p] \notin Instalaciones
        /\ segmento' = segmento /\ iniciada' = iniciada
    BY <1>12 DEF Acaba, Desaparece, Instalaciones
  <2>2. \A q \in Procesos \ {p} :
          pc'[q] = pc[q] /\ tabla'[q] = tabla[q] /\ creada'[q] = creada[q]
    BY <1>12 DEF Acaba, Desaparece
  <2> QED BY ONLY <2>1, <2>2, IniciandoSigue, InvIniciando, p \in Procesos
<1>13. ASSUME NEW p \in Lanzadores, Inserta(p) PROVE InvIniciando'
  <2>1. /\ ~Iniciando(p)' /\ pc'[p] # "max" /\ UNCHANGED <<tabla, creada, iniciada>>
        /\ \A q \in Procesos \ {p} : pc'[q] = pc[q]
    BY <1>13 DEF Inserta
  <2>2. \A k \in Instalaciones : segmento'[k].tam = segmento[k].tam
    BY <1>13, InsertaTam
  <2> QED BY <2>1, <2>2, IniciandoSigue
<1>14. ASSUME NEW p \in Lanzadores, Chequea(p) PROVE InvIniciando'
  <2>1. /\ ~Iniciando(p)' /\ pc'[p] # "max" /\ UNCHANGED <<tabla, creada, iniciada>>
        /\ \A q \in Procesos \ {p} : pc'[q] = pc[q]
    BY <1>14 DEF Chequea
  <2>2. \A k \in Instalaciones : segmento'[k].tam = segmento[k].tam
    BY <1>14, BarreTam DEF Chequea
  <2> QED BY <2>1, <2>2, IniciandoSigue
<1>15. ASSUME NEW p \in Lanzadores, Reintenta(p) PROVE InvIniciando'
  BY <1>15 DEF Reintenta
<1>16. CASE Repasa
  BY <1>16 DEF Repasa
<1>17. CASE Asigna
  BY <1>17 DEF Asigna
<1>18. CASE Limpia
  <2>1. /\ ~Iniciando(Supervisor)' /\ pc'[Supervisor] # "max"
        /\ UNCHANGED <<tabla, creada, iniciada>>
        /\ \A q \in Procesos \ {Supervisor} : pc'[q] = pc[q]
    BY <1>18 DEF Limpia
  <2>2. \A k \in Instalaciones : segmento'[k].tam = segmento[k].tam
    BY <1>18, BarreTam DEF Limpia
  <2> QED BY <2>1, <2>2, IniciandoSigue
<1>19. CASE Bucle
  BY <1>19 DEF Bucle
<1>20. ASSUME NEW p \in Procesos, Muere(p) PROVE InvIniciando'
  <2>1. /\ ~Iniciando(p)' /\ pc'[p] # "max" /\ tabla'[p] \notin Instalaciones
        /\ segmento' = segmento /\ iniciada' = iniciada
    BY <1>20 DEF Muere, Desaparece, Instalaciones
  <2>2. \A q \in Procesos \ {p} :
          pc'[q] = pc[q] /\ tabla'[q] = tabla[q] /\ creada'[q] = creada[q]
    BY <1>20 DEF Muere, Desaparece
  <2> QED BY ONLY <2>1, <2>2, IniciandoSigue, InvIniciando, p \in Procesos
<1>21. CASE CleanUp
  <2>1. /\ ~Iniciando(Supervisor)' /\ pc'[Supervisor] # "max"
        /\ segmento' = segmento /\ iniciada' = iniciada
        /\ tabla' = tabla /\ creada' = creada
        /\ \A q \in Procesos \ {Supervisor} : pc'[q] = pc[q]
    BY <1>21 DEF CleanUp
  <2> QED BY <2>1, IniciandoSigue
<1>22. CASE UNCHANGED vars
  BY <1>22 DEF vars
<1> QED
  BY <1>1, <1>2, <1>3, <1>4, <1>5, <1>6, <1>7, <1>8, <1>9, <1>10, <1>11, <1>12, <1>13, <1>14, <1>15, <1>16, <1>17, <1>18, <1>19, <1>20, <1>21, <1>22
     DEF Next, Paso, crea_tabla, SinTabla, DeLanzador, Suma, DeSupervisor, LimpiaAcaba, Procesos

\* What InvPrimeros and NumSoloPierdePrimeros say of one table.
PrimerosDe(k) ==
  /\ segmento[k].tam = NoHay => antes[k] = 0
  /\ ~iniciada[k] =>
       /\ segmento[k].max = 0 /\ Ocupados(k) \subseteq {1}
       /\ segmento[k].num = antes[k] /\ Cardinality(Ocupados(k)) = antes[k]
  /\ antes[k] <= 1
  /\ segmento[k].num <= Cardinality(Ocupados(k))
  /\ segmento[k].num + antes[k] >= Cardinality(Ocupados(k))

\* They are what each table has.
LEMMA PrimerosPorTabla ==
  /\ InvPrimeros /\ NumSoloPierdePrimeros <=> \A k \in Instalaciones : PrimerosDe(k)
  /\ (InvPrimeros /\ NumSoloPierdePrimeros)' <=> \A k \in Instalaciones : PrimerosDe(k)'
BY DEF InvPrimeros, NumSoloPierdePrimeros, PrimerosDe

\* A table that a step leaves alone keeps them.
LEMMA PrimerosIgual ==
  ASSUME NEW k \in Instalaciones, PrimerosDe(k), segmento'[k] = segmento[k],
         antes'[k] = antes[k], iniciada'[k] = iniciada[k]
  PROVE  PrimerosDe(k)'
<1>1. Ocupados(k)' = Ocupados(k)
  BY DEF Ocupados
<1> QED BY <1>1 DEF PrimerosDe

\* The records in use are finitely many.
LEMMA OcupadosTipo ==
  ASSUME NEW k \in Instalaciones
  PROVE  /\ Ocupados(k) \in SUBSET Registros /\ IsFiniteSet(Ocupados(k))
         /\ Cardinality(Ocupados(k)) \in Nat
BY RegistrosFinitos DEF Ocupados

\* A registration adds one to the records and to num_proc_registrados; before the
\* first values there is one place, and it is counted in "antes".
LEMMA RegistraPrimeros ==
  ASSUME TypeOK, NEW k \in Instalaciones, PrimerosDe(k), segmento[k].tam # NoHay,
         NEW p \in Procesos, NEW r \in Registros, r \in Libres(k),
         segmento' = [segmento EXCEPT
               ![k] = [segmento[k] EXCEPT !.pid = [segmento[k].pid EXCEPT ![r] = p],
                                          !.num = segmento[k].num + 1]],
         antes' = IF iniciada[k] THEN antes ELSE [antes EXCEPT ![k] = antes[k] + 1],
         iniciada' = iniciada
  PROVE  PrimerosDe(k)'
<1>1. /\ segmento'[k].tam = segmento[k].tam /\ segmento'[k].max = segmento[k].max
      /\ segmento'[k].num = segmento[k].num + 1
      /\ segmento'[k].pid = [segmento[k].pid EXCEPT ![r] = p]
  BY DEF TypeOK, Segmentos
<1>2. r \notin Ocupados(k)
  BY DEF Libres, Ocupados
<1>3. Ocupados(k)' = Ocupados(k) \cup {r}
  <2>1. segmento[k].pid \in [Registros -> Procesos \cup {Nadie}] /\ p # Nadie
    BY CreaTablaAssumption DEF TypeOK, Segmentos
  <2>2. \A s \in Registros : segmento'[k].pid[s] = IF s = r THEN p ELSE segmento[k].pid[s]
    BY ONLY <1>1, <2>1
  <2> QED BY ONLY <2>1, <2>2, r \in Registros DEF Ocupados
<1>4. Cardinality(Ocupados(k)') = Cardinality(Ocupados(k)) + 1
  BY <1>2, <1>3, OcupadosTipo, FS_AddElement
<1>5. antes'[k] = IF iniciada[k] THEN antes[k] ELSE antes[k] + 1
  BY DEF TypeOK
<1>6. antes[k] \in Nat /\ segmento[k].num \in Nat /\ Cardinality(Ocupados(k)) \in Nat
  BY OcupadosTipo DEF TypeOK, Segmentos
<1>7. ~iniciada[k] => r = 1 /\ Ocupados(k) = {} /\ antes[k] = 0
  <2> SUFFICES ASSUME ~iniciada[k] PROVE r = 1 /\ Ocupados(k) = {} /\ antes[k] = 0
    OBVIOUS
  <2>1. segmento[k].max = 0 /\ Ocupados(k) \subseteq {1} /\ Cardinality(Ocupados(k)) = antes[k]
    BY DEF PrimerosDe
  <2>2. r = 1
    BY <2>1 DEF Libres
  <2>3. Ocupados(k) = {}
    BY <1>2, <2>1, <2>2
  <2> QED BY <2>1, <2>2, <2>3, FS_EmptySet
<1>8. ~iniciada[k] => Ocupados(k)' \subseteq {1} /\ segmento'[k].max = 0
  BY <1>1, <1>3, <1>7 DEF PrimerosDe
<1>9. /\ antes[k] <= 1 /\ segmento[k].num <= Cardinality(Ocupados(k))
      /\ segmento[k].num + antes[k] >= Cardinality(Ocupados(k))
      /\ ~iniciada[k] => segmento[k].num = antes[k] /\ Cardinality(Ocupados(k)) = antes[k]
  BY DEF PrimerosDe
<1>10. segmento'[k].num <= Cardinality(Ocupados(k)')
  BY ONLY <1>1, <1>4, <1>6, <1>9
<1>11. antes'[k] <= 1 /\ segmento'[k].num + antes'[k] >= Cardinality(Ocupados(k)')
  BY ONLY <1>1, <1>4, <1>5, <1>6, <1>7, <1>9
<1>12. ~iniciada'[k] => segmento'[k].num = antes'[k] /\ Cardinality(Ocupados(k)') = antes'[k]
  BY ONLY <1>1, <1>4, <1>5, <1>6, <1>9, iniciada' = iniciada
<1> QED BY <1>1, <1>8, <1>10, <1>11, <1>12 DEF PrimerosDe

\* borra_proceso takes as many from num_proc_registrados as from the records, and
\* stops at zero.
LEMMA BarrePrimeros ==
  ASSUME TypeOK, NEW k \in Instalaciones, PrimerosDe(k),
         NEW rs \in SUBSET Ocupados(k), iniciada[k], Barre(k, rs),
         antes' = antes, iniciada' = iniciada
  PROVE  \A j \in Instalaciones : PrimerosDe(j) => PrimerosDe(j)'
<1>0. rs \in SUBSET Registros
  BY DEF Ocupados
<1>1. PICK n \in Nat :
           /\ n = IF segmento[k].num - Cardinality(rs) < 0 THEN 0
                  ELSE segmento[k].num - Cardinality(rs)
           /\ segmento' = [segmento EXCEPT
                ![k] = [segmento[k] EXCEPT
                          !.pid = [r \in Registros |-> IF r \in rs THEN Nadie
                                                       ELSE segmento[k].pid[r]],
                          !.num = n]]
           /\ segmento' \in [Instalaciones -> Segmentos]
  BY <1>0, BarreHace
<1>2. /\ segmento'[k].tam = segmento[k].tam
      /\ segmento'[k].num = n
      /\ segmento'[k].pid = [r \in Registros |-> IF r \in rs THEN Nadie ELSE segmento[k].pid[r]]
      /\ \A j \in Instalaciones \ {k} : segmento'[j] = segmento[j]
  BY <1>1 DEF TypeOK, Segmentos
<1>3. Ocupados(k)' = Ocupados(k) \ rs
  BY <1>2 DEF Ocupados
<1>4. Cardinality(Ocupados(k)') = Cardinality(Ocupados(k)) - Cardinality(rs)
  <2>1. IsFiniteSet(Ocupados(k)) /\ IsFiniteSet(rs)
    BY <1>0, OcupadosTipo, RegistrosFinitos
  <2>2. Cardinality(Ocupados(k) \ rs) = Cardinality(Ocupados(k)) - Cardinality(Ocupados(k) \cap rs)
    BY <2>1, FS_Difference
  <2>3. Ocupados(k) \cap rs = rs
    OBVIOUS
  <2> QED BY <1>3, <2>2, <2>3
<1>5. /\ antes[k] \in Nat /\ segmento[k].num \in Nat /\ Cardinality(Ocupados(k)) \in Nat
      /\ Cardinality(rs) \in Nat /\ Cardinality(Ocupados(k)') \in Nat
  <2>1. Ocupados(k)' \in SUBSET Registros
    BY <1>3 DEF Ocupados
  <2> QED BY <1>0, <2>1, OcupadosTipo, RegistrosFinitos DEF TypeOK, Segmentos
<1>6. /\ antes[k] <= 1 /\ segmento[k].num <= Cardinality(Ocupados(k))
      /\ segmento[k].num + antes[k] >= Cardinality(Ocupados(k))
      /\ segmento[k].tam = NoHay => antes[k] = 0
  BY DEF PrimerosDe
<1>7. n <= Cardinality(Ocupados(k)') /\ n + antes[k] >= Cardinality(Ocupados(k)')
  BY ONLY <1>1, <1>4, <1>5, <1>6
<1>8. PrimerosDe(k)'
  BY <1>2, <1>6, <1>7 DEF PrimerosDe
<1> QED BY <1>2, <1>8, PrimerosIgual

\* A table without its first values has no dead record to remove, and the records
\* removed are records in use.
LEMMA MuertosTienePid ==
  ASSUME TypeOK, NEW k \in Instalaciones, PrimerosDe(k)
  PROVE  /\ Muertos(k) \in SUBSET Ocupados(k)
         /\ ~iniciada[k] => Muertos(k) = {}
<1>1. segmento[k].max \in 0..MaxProcess
  BY DEF TypeOK, Segmentos
<1>2. Muertos(k) \in SUBSET Ocupados(k)
  BY <1>1, CreaTablaAssumption DEF Muertos, Ocupados, Registros
<1>3. ~iniciada[k] => segmento[k].max = 0
  BY DEF PrimerosDe
<1> QED BY <1>2, <1>3 DEF Muertos

\* num_proc_registrados goes on being what the records say, but for the first ones.
LEMMA PrimerosPaso ==
  TypeOK /\ InvPunteros /\ InvIniciando /\ InvPrimeros /\ NumSoloPierdePrimeros /\ [Next]_vars
        => (InvPrimeros /\ NumSoloPierdePrimeros)'
<1> SUFFICES ASSUME TypeOK, InvPunteros, InvIniciando, InvPrimeros, NumSoloPierdePrimeros, [Next]_vars
             PROVE  (InvPrimeros /\ NumSoloPierdePrimeros)'
  OBVIOUS
<1> USE DEF En, Pasa
<1>1. ASSUME NEW p \in Procesos, MapeaCrea(p) PROVE (InvPrimeros /\ NumSoloPierdePrimeros)'
  <2> SUFFICES ASSUME NEW k \in Instalaciones, PrimerosDe(k) PROVE PrimerosDe(k)'
    BY PrimerosPorTabla
  <2>1. /\ Clave(p) \in Instalaciones /\ segmento[Clave(p)].tam = NoHay
        /\ segmento' = [segmento EXCEPT ![Clave(p)] = Vacia(Conf(p))]
        /\ antes' = antes /\ iniciada' = iniciada
    BY <1>1, ClaveTipo DEF MapeaCrea
  <2>2. CASE k # Clave(p)
    BY <2>1, <2>2, PrimerosIgual DEF TypeOK
  <2>3. CASE k = Clave(p)
    <3>1. segmento'[k] = Vacia(Conf(p)) /\ antes'[k] = 0 /\ ~iniciada'[k]
      BY <2>1, <2>3 DEF TypeOK, InvIniciando, PrimerosDe
    <3>2. Ocupados(k)' = {}
      BY <3>1 DEF Ocupados, Vacia
    <3>3. Cardinality(Ocupados(k)') = 0
      BY <3>2, FS_EmptySet
    <3> QED BY <3>1, <3>2, <3>3 DEF PrimerosDe, Vacia
  <2> QED BY <2>2, <2>3
<1>2. ASSUME NEW p \in Procesos, MapeaUne(p) PROVE (InvPrimeros /\ NumSoloPierdePrimeros)'
  <2>1. UNCHANGED <<segmento, antes, iniciada>>
    BY <1>2 DEF recursos, MapeaUne, Mapeada
  <2> QED BY <2>1 DEF InvPrimeros, NumSoloPierdePrimeros, Ocupados
<1>3. ASSUME NEW p \in Procesos, MapeaNoCabe(p) PROVE (InvPrimeros /\ NumSoloPierdePrimeros)'
  <2>1. UNCHANGED <<segmento, antes, iniciada>>
    BY <1>3 DEF recursos, MapeaNoCabe, Mapeada, TrasError
  <2> QED BY <2>1 DEF InvPrimeros, NumSoloPierdePrimeros, Ocupados
<1>4. ASSUME NEW p \in Procesos, MapeaFalla(p) PROVE (InvPrimeros /\ NumSoloPierdePrimeros)'
  <2>1. UNCHANGED <<segmento, antes, iniciada>>
    BY <1>4 DEF recursos, MapeaFalla, Mapeada
  <2> QED BY <2>1 DEF InvPrimeros, NumSoloPierdePrimeros, Ocupados
<1>5. ASSUME NEW p \in Procesos, SemCrea(p) PROVE (InvPrimeros /\ NumSoloPierdePrimeros)'
  <2>1. UNCHANGED <<segmento, antes, iniciada>>
    BY <1>5 DEF recursos, SemCrea, Semaforo
  <2> QED BY <2>1 DEF InvPrimeros, NumSoloPierdePrimeros, Ocupados
<1>6. ASSUME NEW p \in Procesos, SetVal(p) PROVE (InvPrimeros /\ NumSoloPierdePrimeros)'
  <2>1. UNCHANGED <<segmento, antes, iniciada>>
    BY <1>6 DEF recursos, SetVal, TrasExito
  <2> QED BY <2>1 DEF InvPrimeros, NumSoloPierdePrimeros, Ocupados
<1>7. ASSUME NEW p \in Procesos, SemUsa(p) PROVE (InvPrimeros /\ NumSoloPierdePrimeros)'
  <2>1. UNCHANGED <<segmento, antes, iniciada>>
    BY <1>7 DEF recursos, SemUsa, Semaforo, TrasExito
  <2> QED BY <2>1 DEF InvPrimeros, NumSoloPierdePrimeros, Ocupados
<1>8. ASSUME NEW p \in Procesos, SemFalla(p) PROVE (InvPrimeros /\ NumSoloPierdePrimeros)'
  <2>1. UNCHANGED <<segmento, antes, iniciada>>
    BY <1>8 DEF recursos, SemFalla, Semaforo, TrasError
  <2> QED BY <2>1 DEF InvPrimeros, NumSoloPierdePrimeros, Ocupados
<1>9. ASSUME NEW p \in Procesos, Lock(p) PROVE (InvPrimeros /\ NumSoloPierdePrimeros)'
  <2>1. UNCHANGED <<segmento, antes, iniciada>>
    BY <1>9 DEF recursos, Lock
  <2> QED BY <2>1 DEF InvPrimeros, NumSoloPierdePrimeros, Ocupados
<1>10. ASSUME NEW p \in Procesos, PoneNum(p) PROVE (InvPrimeros /\ NumSoloPierdePrimeros)'
  <2> SUFFICES ASSUME NEW k \in Instalaciones, PrimerosDe(k) PROVE PrimerosDe(k)'
    BY PrimerosPorTabla
  <2>1. /\ tabla[p] \in Instalaciones /\ ~iniciada[tabla[p]]
        /\ segmento' = [segmento EXCEPT ![tabla[p]] = [segmento[tabla[p]] EXCEPT !.num = 0]]
        /\ antes' = antes /\ iniciada' = [iniciada EXCEPT ![tabla[p]] = TRUE]
    BY <1>10, ClaveTipo DEF PoneNum, InvPunteros, PunterosDe, InvIniciando, Iniciando
  <2>2. CASE k # tabla[p]
    BY <2>1, <2>2, PrimerosIgual DEF TypeOK
  <2>3. CASE k = tabla[p]
    <3>1. /\ segmento'[k].tam = segmento[k].tam /\ segmento'[k].num = 0
          /\ segmento'[k].pid = segmento[k].pid /\ iniciada'[k]
      BY <2>1, <2>3 DEF TypeOK, Segmentos
    <3>2. Ocupados(k)' = Ocupados(k)
      BY <3>1 DEF Ocupados
    <3>3. /\ antes[k] <= 1 /\ Cardinality(Ocupados(k)) = antes[k]
          /\ segmento[k].tam = NoHay => antes[k] = 0
      BY <2>1, <2>3 DEF PrimerosDe
    <3>4. antes[k] \in Nat
      BY DEF TypeOK
    <3> QED BY <2>1, <3>1, <3>2, <3>3, <3>4 DEF PrimerosDe
  <2> QED BY <2>2, <2>3
<1>11. ASSUME NEW p \in Procesos, PoneMax(p) PROVE (InvPrimeros /\ NumSoloPierdePrimeros)'
  <2> SUFFICES ASSUME NEW k \in Instalaciones, PrimerosDe(k) PROVE PrimerosDe(k)'
    BY PrimerosPorTabla
  <2>1. /\ tabla[p] \in Instalaciones /\ iniciada[tabla[p]]
        /\ segmento' = [segmento EXCEPT ![tabla[p]] = [segmento[tabla[p]] EXCEPT !.max = Conf(p)]]
        /\ antes' = antes /\ iniciada' = iniciada
    BY <1>11, ClaveTipo DEF PoneMax, InvPunteros, PunterosDe, InvIniciando
  <2>2. CASE k # tabla[p]
    BY <2>1, <2>2, PrimerosIgual DEF TypeOK
  <2>3. CASE k = tabla[p]
    <3>1. /\ segmento'[k].tam = segmento[k].tam /\ segmento'[k].num = segmento[k].num
          /\ segmento'[k].pid = segmento[k].pid
      BY <2>1, <2>3 DEF TypeOK, Segmentos
    <3>2. Ocupados(k)' = Ocupados(k)
      BY <3>1 DEF Ocupados
    <3> QED BY <2>1, <2>3, <3>1, <3>2 DEF PrimerosDe
  <2> QED BY <2>2, <2>3
<1>12. ASSUME NEW p \in Procesos, Acaba(p) PROVE (InvPrimeros /\ NumSoloPierdePrimeros)'
  <2>1. UNCHANGED <<segmento, antes, iniciada>>
    BY <1>12 DEF recursos, Acaba, Desaparece
  <2> QED BY <2>1 DEF InvPrimeros, NumSoloPierdePrimeros, Ocupados
<1>13. ASSUME NEW p \in Lanzadores, Inserta(p) PROVE (InvPrimeros /\ NumSoloPierdePrimeros)'
  <2> SUFFICES ASSUME NEW k \in Instalaciones, PrimerosDe(k) PROVE PrimerosDe(k)'
    BY PrimerosPorTabla
  <2>1. /\ tabla[p] \in Instalaciones /\ p \in Procesos /\ iniciada' = iniciada
        /\ segmento[tabla[p]].tam # NoHay
    BY <1>13, InsertaHace DEF Inserta, Procesos, InvIniciando
  <2>2. CASE UNCHANGED <<segmento, antes>>
    BY <2>1, <2>2, PrimerosIgual
  <2>3. ASSUME NEW r \in Libres(tabla[p]), r \in Registros,
               segmento' = [segmento EXCEPT
                  ![tabla[p]] = [segmento[tabla[p]] EXCEPT
                                   !.pid = [segmento[tabla[p]].pid EXCEPT ![r] = p],
                                   !.num = segmento[tabla[p]].num + 1]],
               antes' = IF iniciada[tabla[p]] THEN antes
                        ELSE [antes EXCEPT ![tabla[p]] = antes[tabla[p]] + 1]
        PROVE  PrimerosDe(k)'
    <3>1. CASE k = tabla[p]
      BY <2>1, <2>3, <3>1, RegistraPrimeros
    <3>2. CASE k # tabla[p]
      <4>1. segmento'[k] = segmento[k] /\ antes'[k] = antes[k]
        BY <2>1, <2>3, <3>2 DEF TypeOK
      <4> QED BY <2>1, <4>1, PrimerosIgual
    <3> QED BY <3>1, <3>2
  <2> QED BY <1>13, <2>2, <2>3, InsertaHace
<1>14. ASSUME NEW p \in Lanzadores, Chequea(p) PROVE (InvPrimeros /\ NumSoloPierdePrimeros)'
  <2> SUFFICES ASSUME NEW k \in Instalaciones, PrimerosDe(k) PROVE PrimerosDe(k)'
    BY PrimerosPorTabla
  <2>1. antes' = antes /\ iniciada' = iniciada
    BY <1>14 DEF Chequea
  <2>2. CASE UNCHANGED segmento
    BY <2>1, <2>2, PrimerosIgual
  <2>3. CASE ~(UNCHANGED segmento)
    <3>1. PICK t \in Instalaciones, rs \in SUBSET Registros :
                 rs # {} /\ rs \subseteq Muertos(t) /\ Barre(t, rs)
      <4>1. tabla[p] \in Instalaciones
        BY <1>14 DEF Chequea, InvPunteros, PunterosDe, Usable, Procesos
      <4>2. Muertos(tabla[p]) \subseteq Registros
        BY <4>1, PrimerosPorTabla, MuertosTienePid DEF Ocupados
      <4> QED BY <1>14, <2>3, <4>1, <4>2 DEF Chequea
    <3>2. PrimerosDe(t)
      BY PrimerosPorTabla
    <3>3. rs \in SUBSET Ocupados(t) /\ iniciada[t]
      BY <3>1, <3>2, MuertosTienePid
    <3> QED BY <2>1, <3>1, <3>2, <3>3, BarrePrimeros
  <2> QED BY <2>2, <2>3
<1>15. ASSUME NEW p \in Lanzadores, Reintenta(p) PROVE (InvPrimeros /\ NumSoloPierdePrimeros)'
  <2>1. UNCHANGED <<segmento, antes, iniciada>>
    BY <1>15 DEF recursos, Reintenta
  <2> QED BY <2>1 DEF InvPrimeros, NumSoloPierdePrimeros, Ocupados
<1>16. CASE Repasa
  <2>1. UNCHANGED <<segmento, antes, iniciada>>
    BY <1>16 DEF recursos, Repasa
  <2> QED BY <2>1 DEF InvPrimeros, NumSoloPierdePrimeros, Ocupados
<1>17. CASE Asigna
  <2>1. UNCHANGED <<segmento, antes, iniciada>>
    BY <1>17 DEF recursos, Asigna
  <2> QED BY <2>1 DEF InvPrimeros, NumSoloPierdePrimeros, Ocupados
<1>18. CASE Limpia
  <2> SUFFICES ASSUME NEW k \in Instalaciones, PrimerosDe(k) PROVE PrimerosDe(k)'
    BY PrimerosPorTabla
  <2>1. antes' = antes /\ iniciada' = iniciada
    BY <1>18 DEF Limpia
  <2>2. CASE UNCHANGED segmento
    BY <2>1, <2>2, PrimerosIgual
  <2>3. CASE ~(UNCHANGED segmento)
    <3>1. PICK t \in Instalaciones, rs \in SUBSET Registros :
                 rs # {} /\ rs \subseteq Muertos(t) /\ Barre(t, rs)
      <4>1. tabla[Supervisor] = tablas[i] /\ tabla[Supervisor] \in Instalaciones
        BY <1>18 DEF Limpia, PunteroMalo, InvPunteros, TypeOK, Punteros, Procesos
      <4>2. {r \in Muertos(tablas[i]) : tabla[Supervisor] # NULL
                 /\ segmento[tabla[Supervisor]].pid[r] # Nadie} \subseteq Muertos(tabla[Supervisor])
        BY <4>1
      <4>3. Muertos(tabla[Supervisor]) \subseteq Registros
        BY <4>1, PrimerosPorTabla, MuertosTienePid DEF Ocupados
      <4> QED BY <1>18, <2>3, <4>1, <4>2, <4>3 DEF Limpia
    <3>2. PrimerosDe(t)
      BY PrimerosPorTabla
    <3>3. rs \in SUBSET Ocupados(t) /\ iniciada[t]
      BY <3>1, <3>2, MuertosTienePid
    <3> QED BY <2>1, <3>1, <3>2, <3>3, BarrePrimeros
  <2> QED BY <2>2, <2>3
<1>19. CASE Bucle
  <2>1. UNCHANGED <<segmento, antes, iniciada>>
    BY <1>19 DEF recursos, Bucle
  <2> QED BY <2>1 DEF InvPrimeros, NumSoloPierdePrimeros, Ocupados
<1>20. ASSUME NEW p \in Procesos, Muere(p) PROVE (InvPrimeros /\ NumSoloPierdePrimeros)'
  <2>1. UNCHANGED <<segmento, antes, iniciada>>
    BY <1>20 DEF recursos, Muere, Desaparece
  <2> QED BY <2>1 DEF InvPrimeros, NumSoloPierdePrimeros, Ocupados
<1>21. CASE CleanUp
  <2>1. UNCHANGED <<segmento, antes, iniciada>>
    BY <1>21 DEF CleanUp
  <2> QED BY <2>1 DEF InvPrimeros, NumSoloPierdePrimeros, Ocupados
<1>22. CASE UNCHANGED vars
  <2>1. UNCHANGED <<segmento, antes, iniciada>>
    BY <1>22 DEF recursos, vars
  <2> QED BY <2>1 DEF InvPrimeros, NumSoloPierdePrimeros, Ocupados
<1> QED
  BY <1>1, <1>2, <1>3, <1>4, <1>5, <1>6, <1>7, <1>8, <1>9, <1>10, <1>11, <1>12, <1>13, <1>14, <1>15, <1>16, <1>17, <1>18, <1>19, <1>20, <1>21, <1>22
     DEF Next, Paso, crea_tabla, SinTabla, DeLanzador, Suma, DeSupervisor, LimpiaAcaba, Procesos

\* What the system starts from.
LEMMA IInvInicial == Init => IInv
<1> SUFFICES ASSUME Init PROVE IInv
  OBVIOUS
<1> USE CreaTablaAssumption DEF Init, Procesos, Instalaciones, NULL, Mala, NoHay
<1>1. TypeOK
  BY DEF TypeOK, Segmentos, Vacia, Punteros, Lugares
<1>2. InvPunteros /\ InvSemaforo
  BY DEF InvPunteros, PunterosDe, Usable, InvSemaforo, SemaforoExacto, SinValor, En
<1>3. InvIniciando
  BY DEF InvIniciando, Iniciando, Vacia
<1>4. \A k \in Instalaciones : PrimerosDe(k)
  <2> SUFFICES ASSUME NEW k \in Instalaciones PROVE PrimerosDe(k)
    OBVIOUS
  <2>1. Ocupados(k) = {}
    BY DEF Ocupados, Vacia
  <2>2. Cardinality(Ocupados(k)) = 0
    BY <2>1, FS_EmptySet
  <2> QED BY <2>1, <2>2 DEF PrimerosDe, Vacia
<1> QED BY <1>1, <1>2, <1>3, <1>4, PrimerosPorTabla DEF IInv

\* IInv is inductive.
LEMMA IInvPaso == IInv /\ [Next]_vars => IInv'
BY TiposPaso, PunterosPaso, SemaforoPaso, IniciandoPaso, PrimerosPaso DEF IInv

\* IInv holds in every state.
THEOREM IInvInvariante == Spec => []IInv
BY IInvInicial, IInvPaso, PTL DEF Spec

\* Every table, semaphore and pointer has its type.
THEOREM Tipos == Spec => []TypeOK
<1>1. IInv => TypeOK
  BY DEF IInv
<1> QED BY <1>1, IInvInvariante, PTL

\* SETVAL never finds the semaphore of a table in use, however many processes
\* create it and its segment at the same time and wherever one is killed.
THEOREM UnSetVal == Spec => []SemaforoExacto
<1>1. IInv => SemaforoExacto
  BY DEF IInv, InvSemaforo
<1> QED BY <1>1, IInvInvariante, PTL

\* Whoever works on a table has, or is about to take, the semaphore of that table.
THEOREM Cerrojos == Spec => []SuCerrojo
<1>1. IInv => SuCerrojo
  BY DEF IInv, InvPunteros, PunterosDe, InvSemaforo, SuCerrojo
<1> QED BY <1>1, IInvInvariante, PTL

\* num_proc_registrados is never above the records in use, and below them by no
\* more than the launchers that registered before the first values.
THEOREM NumRegistrados == Spec => []NumSoloPierdePrimeros
<1>1. IInv => NumSoloPierdePrimeros
  BY DEF IInv
<1> QED BY <1>1, IInvInvariante, PTL

-----------------------------------------------------------------------------
(* Nobody is held up for ever by the code itself: a semaphore that is taken  *)
(* has somebody who gives it back without waiting, unless its creator died   *)
(* or stopped before SETVAL or the supervisor stopped with it, and every     *)
(* step of a process takes it nearer to serving, to the end of its turn over *)
(* the installations, or to its end.                                         *)

\* Who is inside is writing the first values, or has stopped there; who has looked a semaphore up has
\* one that exists.
InvDentro ==
  /\ \A k \in Instalaciones : dentro[k] # Nadie =>
       \/ Retenido(k)
       \/ dentro[k] \in Procesos /\ pc[dentro[k]] \in {"num", "max"} /\ tabla[dentro[k]] = k
  /\ \A p \in Procesos : locksem[p] # NULL => semaforo[locksem[p]] # NoHay

SemaforoVuelve ==
  /\ \A p \in Procesos : locksem[p] # NULL => semaforo[locksem[p]] \in {0, 1}
  /\ \A k \in Instalaciones : semaforo[k] = 0 =>
       \/ Huerfano(k) \/ Retenido(k)
       \/ \E p \in Procesos :
            (En(p, "setval") /\ Clave(p) = k) \/ (pc[p] \in {"num", "max"} /\ dentro[k] = p)

\* How far a process is with an installation.
Orden(l) ==
  CASE l = "repasa" -> 10 [] l = "mapea" -> 9 [] l = "semaforo" -> 8 [] l = "setval" -> 7
    [] l = "lock" -> 6 [] l = "num" -> 5 [] l = "max" -> 4 [] l \in {"inserta", "suma", "asigna"} -> 3
    [] l \in {"chequea", "limpia"} -> 2 [] OTHER -> 1
EnMarcha(p) == pc[p] \notin {"atiende", "bucle", "cleanup", "muerto"}
Adelanta(p) ==
  \/ pc'[p] \in {"atiende", "bucle", "cleanup", "muerto"}
  \/ p = Supervisor /\ i' > i
  \/ (p = Supervisor => i' = i) /\ Orden(pc'[p]) < Orden(pc[p])
Quieto(p) == pc'[p] = pc[p] /\ (p = Supervisor => i' = i)

\* Who is inside stays there until it gives the semaphore back, stops or dies.
LEMMA DentroPaso == TypeOK /\ InvPunteros /\ InvSemaforo /\ InvDentro /\ [Next]_vars => InvDentro'
<1> SUFFICES ASSUME TypeOK, InvPunteros, InvSemaforo, InvDentro, [Next]_vars PROVE InvDentro'
  OBVIOUS
<1> USE CreaTablaAssumption, ClaveTipo
    DEF TypeOK, InvPunteros, PunterosDe, InvSemaforo, InvDentro, SemaforoExacto, SinValor, Retenido, En,
        Pasa, recursos, deSupervisor, Usable, Clave, Procesos, NULL, Mala, NoHay
<1>1. ASSUME NEW p \in Procesos, MapeaCrea(p) PROVE InvDentro'
  BY <1>1 DEF MapeaCrea
<1>2. ASSUME NEW p \in Procesos, MapeaUne(p) PROVE InvDentro'
  BY <1>2 DEF MapeaUne, Mapeada
<1>3. ASSUME NEW p \in Procesos, MapeaNoCabe(p) PROVE InvDentro'
  BY <1>3 DEF MapeaNoCabe, Mapeada, TrasError
<1>4. ASSUME NEW p \in Procesos, MapeaFalla(p) PROVE InvDentro'
  BY <1>4 DEF MapeaFalla, Mapeada
<1>5. ASSUME NEW p \in Procesos, SemCrea(p) PROVE InvDentro'
  BY <1>5 DEF SemCrea, Semaforo
<1>6. ASSUME NEW p \in Procesos, SetVal(p) PROVE InvDentro'
  BY <1>6 DEF SetVal, TrasExito
<1>7. ASSUME NEW p \in Procesos, SemUsa(p) PROVE InvDentro'
  BY <1>7 DEF SemUsa, Semaforo, TrasExito
<1>8. ASSUME NEW p \in Procesos, SemFalla(p) PROVE InvDentro'
  BY <1>8 DEF SemFalla, Semaforo, TrasError
<1>9. ASSUME NEW p \in Procesos, Lock(p) PROVE InvDentro'
  BY <1>9 DEF Lock
<1>10. ASSUME NEW p \in Procesos, PoneNum(p) PROVE InvDentro'
  BY <1>10 DEF PoneNum
<1>11. ASSUME NEW p \in Procesos, PoneMax(p) PROVE InvDentro'
  BY <1>11 DEF PoneMax, TrasExito
<1>12. ASSUME NEW p \in Procesos, pc[p] \notin {"num", "max", "cleanup"}, Acaba(p) PROVE InvDentro'
  BY <1>12 DEF Acaba, Desaparece
<1>13. ASSUME NEW p \in Lanzadores, Inserta(p) PROVE InvDentro'
  BY <1>13 DEF Inserta
<1>14. ASSUME NEW p \in Lanzadores, Chequea(p) PROVE InvDentro'
  BY <1>14 DEF Chequea
<1>15. ASSUME NEW p \in Lanzadores, Reintenta(p) PROVE InvDentro'
  BY <1>15 DEF Reintenta
<1>16. CASE Repasa
  BY <1>16 DEF Repasa
<1>17. CASE Asigna
  BY <1>17 DEF Asigna
<1>18. CASE Limpia
  BY <1>18 DEF Limpia, PunteroMalo
<1>19. CASE Bucle
  BY <1>19 DEF Bucle
<1>20. ASSUME NEW p \in Procesos, Muere(p) PROVE InvDentro'
  BY <1>20 DEF Muere, Desaparece
<1>21. CASE CleanUp
  BY <1>21 DEF CleanUp, Cerrojo
<1>22. CASE UNCHANGED vars
  BY <1>22 DEF vars
<1> QED
  BY <1>1, <1>2, <1>3, <1>4, <1>5, <1>6, <1>7, <1>8, <1>9, <1>10, <1>11, <1>12, <1>13, <1>14, <1>15, <1>16, <1>17, <1>18, <1>19, <1>20, <1>21, <1>22
     DEF Next, Paso, crea_tabla, SinTabla, DeLanzador, Suma, DeSupervisor, LimpiaAcaba, En, Procesos

\* Every step of a process takes it nearer to the end of what it is doing, and
\* no step of another does anything to that.
LEMMA AvanzaPaso ==
  ASSUME TypeOK, InvPunteros, [Next]_vars, NEW q \in Procesos, EnMarcha(q)
  PROVE  Adelanta(q) \/ Quieto(q)
<1> USE CreaTablaAssumption
    DEF TypeOK, InvPunteros, EnMarcha, En, Pasa, recursos, deSupervisor, Procesos, Instalaciones
<1>1. ASSUME NEW p \in Procesos, MapeaCrea(p) PROVE Adelanta(q) \/ Quieto(q)
  BY <1>1 DEF MapeaCrea, Adelanta, Quieto, Orden
<1>2. ASSUME NEW p \in Procesos, MapeaUne(p) PROVE Adelanta(q) \/ Quieto(q)
  BY <1>2, SMTT(30) DEF MapeaUne, Mapeada, Adelanta, Quieto, Orden
<1>3. ASSUME NEW p \in Procesos, MapeaNoCabe(p) PROVE Adelanta(q) \/ Quieto(q)
  BY <1>3 DEF MapeaNoCabe, Mapeada, TrasError, Adelanta, Quieto, Orden
<1>4. ASSUME NEW p \in Procesos, MapeaFalla(p) PROVE Adelanta(q) \/ Quieto(q)
  BY <1>4 DEF MapeaFalla, Mapeada, Adelanta, Quieto, Orden
<1>5. ASSUME NEW p \in Procesos, SemCrea(p) PROVE Adelanta(q) \/ Quieto(q)
  BY <1>5 DEF SemCrea, Semaforo, Adelanta, Quieto, Orden
<1>6. ASSUME NEW p \in Procesos, SetVal(p) PROVE Adelanta(q) \/ Quieto(q)
  BY <1>6 DEF SetVal, TrasExito, Adelanta, Quieto, Orden
<1>7. ASSUME NEW p \in Procesos, SemUsa(p) PROVE Adelanta(q) \/ Quieto(q)
  BY <1>7 DEF SemUsa, Semaforo, TrasExito, Adelanta, Quieto, Orden
<1>8. ASSUME NEW p \in Procesos, SemFalla(p) PROVE Adelanta(q) \/ Quieto(q)
  BY <1>8 DEF SemFalla, Semaforo, TrasError, Adelanta, Quieto, Orden
<1>9. ASSUME NEW p \in Procesos, Lock(p) PROVE Adelanta(q) \/ Quieto(q)
  BY <1>9 DEF Lock, Adelanta, Quieto, Orden
<1>10. ASSUME NEW p \in Procesos, PoneNum(p) PROVE Adelanta(q) \/ Quieto(q)
  BY <1>10 DEF PoneNum, Adelanta, Quieto, Orden
<1>11. ASSUME NEW p \in Procesos, PoneMax(p) PROVE Adelanta(q) \/ Quieto(q)
  BY <1>11 DEF PoneMax, TrasExito, Adelanta, Quieto, Orden
<1>12. ASSUME NEW p \in Procesos, Acaba(p) PROVE Adelanta(q) \/ Quieto(q)
  BY <1>12 DEF Acaba, Desaparece, Adelanta, Quieto, Orden
<1>13. ASSUME NEW p \in Lanzadores, Inserta(p) PROVE Adelanta(q) \/ Quieto(q)
  BY <1>13 DEF Inserta, Adelanta, Quieto, Orden
<1>14. ASSUME NEW p \in Lanzadores, Chequea(p) PROVE Adelanta(q) \/ Quieto(q)
  BY <1>14 DEF Chequea, Adelanta, Quieto, Orden
<1>15. ASSUME NEW p \in Lanzadores, Reintenta(p) PROVE Adelanta(q) \/ Quieto(q)
  BY <1>15 DEF Reintenta, Adelanta, Quieto, Orden
<1>16. CASE Repasa
  BY <1>16 DEF Repasa, Adelanta, Quieto, Orden
<1>17. CASE Asigna
  BY <1>17 DEF Asigna, Adelanta, Quieto, Orden
<1>18. CASE Limpia
  BY <1>18 DEF Limpia, PunteroMalo, Adelanta, Quieto, Orden
<1>19. CASE Bucle
  BY <1>19 DEF Bucle, Adelanta, Quieto, Orden
<1>20. ASSUME NEW p \in Procesos, Muere(p) PROVE Adelanta(q) \/ Quieto(q)
  BY <1>20 DEF Muere, Desaparece, Adelanta, Quieto, Orden
<1>21. CASE CleanUp
  BY <1>21 DEF CleanUp, Adelanta, Quieto, Orden
<1>22. CASE UNCHANGED vars
  BY <1>22 DEF vars, Quieto
<1> QED
  BY <1>1, <1>2, <1>3, <1>4, <1>5, <1>6, <1>7, <1>8, <1>9, <1>10, <1>11, <1>12, <1>13, <1>14, <1>15, <1>16, <1>17, <1>18, <1>19, <1>20, <1>21, <1>22
     DEF Next, Paso, crea_tabla, SinTabla, DeLanzador, Suma, DeSupervisor, LimpiaAcaba, En, Procesos

\* A process that has looked its semaphore up finds it there, and taken only by
\* somebody who gives it back without waiting for anything, unless its creator
\* died or stopped before SETVAL, or a SIGTERM stopped the supervisor with it;
\* and each step of a launcher, the tool or the supervisor takes it nearer to
\* serving, to its end, to the next installation or to the rest of the loop.
\* With the fairness of CreaTabla this is why launchers serve and the supervisor
\* gets to the last installation (sm_create, crea_tabla, checkSHM, CleanUp).
THEOREM CreacionAvanza ==
  Spec => /\ []SemaforoVuelve
          /\ [][\A p \in Procesos : EnMarcha(p) => Adelanta(p) \/ Quieto(p)]_vars
<1>1. Init => InvDentro
  BY DEF Init, InvDentro
<1>2. IInv /\ InvDentro /\ [Next]_vars => InvDentro'
  BY DentroPaso DEF IInv
<1>3. IInv /\ InvDentro => SemaforoVuelve
  <2> SUFFICES ASSUME IInv, InvDentro PROVE SemaforoVuelve
    OBVIOUS
  <2>1. ASSUME NEW p \in Procesos, locksem[p] # NULL PROVE semaforo[locksem[p]] \in {0, 1}
    BY <2>1 DEF IInv, TypeOK, InvDentro
  <2>2. ASSUME NEW k \in Instalaciones, semaforo[k] = 0, ~Huerfano(k), ~Retenido(k)
        PROVE  \E p \in Procesos :
                 (En(p, "setval") /\ Clave(p) = k) \/ (pc[p] \in {"num", "max"} /\ dentro[k] = p)
    <3>1. dentro[k] # Nadie \/ SinValor(k)
      BY <2>2 DEF Huerfano
    <3> QED BY <2>2, <3>1 DEF InvDentro, SinValor
  <2> QED BY <2>1, <2>2 DEF SemaforoVuelve
<1>4. IInv /\ [Next]_vars => [\A p \in Procesos : EnMarcha(p) => Adelanta(p) \/ Quieto(p)]_vars
  BY AvanzaPaso DEF IInv
<1> QED BY <1>1, <1>2, <1>3, <1>4, IInvInvariante, PTL DEF Spec
=============================================================================
