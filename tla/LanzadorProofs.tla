--------------------------- MODULE LanzadorProofs ---------------------------
(* The proofs that the main loop preserves IInv, that each launcher           *)
(* implements Ejecuta and that each request goes on to its end, for any       *)
(* number of launchers, any size of the table, any limits and any number of   *)
(* reloads.                                                                   *)
EXTENDS Lanzador, FiniteSetTheorems, TLAPS

\* When the launchers start the invariant holds.
LEMMA InvInicial == Init => IInv
BY LanzadorAssumption
   DEF Init, IInv, TypeOK, InvSuma, InvRecarga, InvHijo, InvLibres, Registros, EnBucle

\* A count that is behind its index stays so after one record more.
LEMMA UnoMas ==
  ASSUME NEW m \in Nat, NEW a \in 1..m, NEW s \in 0..(m - 1), s < a, a # m,
         NEW v \in {s, s + 1}
  PROVE  v \in 0..m /\ v < a + 1 /\ a + 1 \in 1..m
  OBVIOUS

\* Every step preserves it.
LEMMA InvPaso == IInv /\ [Next]_vars => IInv'
<1> SUFFICES ASSUME IInv, [Next]_vars PROVE IInv'
  OBVIOUS
<1> USE LanzadorAssumption
    DEF IInv, TypeOK, EnBucle, Va, Lee, cuenta, recarga
<1>1. ASSUME NEW p \in Lanzadores, PoneSenales(p) PROVE IInv'
  <2>1. TypeOK'
    BY <1>1 DEF PoneSenales, Registros
  <2>2. InvSuma'
    BY <1>1 DEF PoneSenales, InvSuma
  <2>3. InvRecarga'
    BY <1>1 DEF PoneSenales, InvRecarga
  <2>4. InvHijo'
    BY <1>1 DEF PoneSenales, InvHijo
  <2>5. InvLibres'
    BY <1>1 DEF PoneSenales, InvLibres, Registros, ConPid
  <2> QED BY <2>1, <2>2, <2>3, <2>4, <2>5
<1>2. ASSUME NEW p \in Lanzadores, RecargaBaja(p) PROVE IInv'
  BY <1>2 DEF RecargaBaja, InvSuma, InvRecarga, InvHijo, InvLibres, Registros, ConPid
<1>3. ASSUME NEW p \in Lanzadores, RecargaLee(p) PROVE IInv'
  <2>1. TypeOK'
    BY <1>3 DEF RecargaLee, Registros
  <2>2. InvSuma'
    BY <1>3 DEF RecargaLee, InvSuma
  <2>3. InvRecarga'
    BY <1>3 DEF RecargaLee, InvRecarga
  <2>4. InvHijo'
    BY <1>3 DEF RecargaLee, InvHijo
  <2>5. InvLibres'
    BY <1>3 DEF RecargaLee, InvLibres, Registros, ConPid
  <2> QED BY <2>1, <2>2, <2>3, <2>4, <2>5
<1>4. ASSUME NEW p \in Lanzadores, RecargaFin(p) PROVE IInv'
  <2>1. TypeOK'
    BY <1>4 DEF RecargaFin, Registros
  <2>2. InvSuma'
    BY <1>4 DEF RecargaFin, InvSuma
  <2>3. InvRecarga'
    BY <1>4 DEF RecargaFin, InvRecarga
  <2>4. InvHijo'
    BY <1>4 DEF RecargaFin, InvHijo
  <2>5. InvLibres'
    BY <1>4 DEF RecargaFin, InvLibres, Registros, ConPid
  <2> QED BY <2>1, <2>2, <2>3, <2>4, <2>5
<1>5. ASSUME NEW p \in Lanzadores, EntradaMal(p) PROVE IInv'
  <2>1. TypeOK'
    BY <1>5 DEF EntradaMal, Registros
  <2>2. InvSuma'
    BY <1>5 DEF EntradaMal, InvSuma
  <2>3. InvRecarga'
    BY <1>5 DEF EntradaMal, InvRecarga
  <2>4. InvHijo'
    BY <1>5 DEF EntradaMal, InvHijo
  <2>5. InvLibres'
    BY <1>5 DEF EntradaMal, InvLibres, Registros, ConPid
  <2> QED BY <2>1, <2>2, <2>3, <2>4, <2>5
<1>6. ASSUME NEW p \in Lanzadores, EntradaBien(p) PROVE IInv'
  <2>1. TypeOK'
    BY <1>6 DEF EntradaBien, Registros
  <2>2. InvSuma'
    BY <1>6 DEF EntradaBien, InvSuma
  <2>3. InvRecarga'
    BY <1>6 DEF EntradaBien, InvRecarga
  <2>4. InvHijo'
    BY <1>6 DEF EntradaBien, InvHijo
  <2>5. InvLibres'
    BY <1>6 DEF EntradaBien, InvLibres, Registros, ConPid
  <2> QED BY <2>1, <2>2, <2>3, <2>4, <2>5
<1>7. ASSUME NEW p \in Lanzadores, CuentaUno(p) PROVE IInv'
  <2> DEFINE n == IF i[p] \in ConPid /\ estado[i[p]] THEN suma[p] + 1 ELSE suma[p]
  <2>1. /\ pc[p] = "cuenta" /\ i[p] \in 1..MaxProcesos
        /\ suma[p] \in 0..(MaxProcesos - 1) /\ suma[p] < i[p]
    BY <1>7 DEF CuentaUno, InvSuma, Registros
  <2>2. /\ n \in {suma[p], suma[p] + 1}
        /\ suma' = [suma EXCEPT ![p] = n]
        /\ UNCHANGED <<estado, sesion, hijo, recarga>>
    BY <1>7 DEF CuentaUno
  <2>3. \/ pc' = [pc EXCEPT ![p] = "decide"] /\ i' = i
        \/ i[p] # MaxProcesos /\ i' = [i EXCEPT ![p] = i[p] + 1] /\ pc' = pc
    BY <1>7 DEF CuentaUno
  <2> HIDE DEF n
  <2>4. TypeOK' /\ InvSuma'
    <3>1. CASE pc' = [pc EXCEPT ![p] = "decide"] /\ i' = i
      <4>1. n \in 0..MaxProcesos
        BY <2>1, <2>2
      <4>2. TypeOK'
        BY <2>2, <3>1, <4>1 DEF Registros
      <4>3. InvSuma'
        BY <2>2, <3>1 DEF InvSuma
      <4> QED BY <4>2, <4>3
    <3>2. CASE i[p] # MaxProcesos /\ i' = [i EXCEPT ![p] = i[p] + 1] /\ pc' = pc
      <4>0. MaxProcesos \in Nat /\ i[p] # MaxProcesos
        BY <3>2, LanzadorAssumption
      <4>1. n \in 0..MaxProcesos /\ n < i[p] + 1 /\ i[p] + 1 \in 1..MaxProcesos
        BY ONLY <2>1, <2>2, <4>0, UnoMas
      <4>2. TypeOK'
        BY <2>1, <2>2, <3>2, <4>1, SMTT(30) DEF Registros
      <4>3. InvSuma'
        <5>1. suma' = [suma EXCEPT ![p] = n]
          BY <2>2
        <5>2. /\ pc' = pc /\ i'[p] = i[p] + 1 /\ suma'[p] = n
              /\ \A q \in Lanzadores \ {p} : i'[q] = i[q] /\ suma'[q] = suma[q]
          BY <5>1, <3>2
        <5> QED BY <2>1, <4>1, <5>2 DEF InvSuma
      <4> QED BY <4>2, <4>3
    <3> QED BY <2>3, <3>1, <3>2
  <2>5. InvRecarga'
    BY <1>7 DEF CuentaUno, InvRecarga
  <2>6. InvHijo'
    BY <1>7 DEF CuentaUno, InvHijo
  <2>7. InvLibres'
    BY <1>7 DEF CuentaUno, InvLibres, Registros, ConPid
  <2> QED BY <2>4, <2>5, <2>6, <2>7
<1>8. ASSUME NEW p \in Lanzadores, RechazaDuro(p) PROVE IInv'
  <2>1. TypeOK'
    BY <1>8, SMTT(30) DEF RechazaDuro, Olvida, Registros
  <2>2. InvSuma'
    BY <1>8 DEF RechazaDuro, Olvida, InvSuma
  <2>3. InvRecarga'
    BY <1>8 DEF RechazaDuro, Olvida, InvRecarga
  <2>4. InvHijo'
    BY <1>8 DEF RechazaDuro, Olvida, InvHijo
  <2>5. InvLibres'
    BY <1>8 DEF RechazaDuro, Olvida, InvLibres, Registros, ConPid
  <2> QED BY <2>1, <2>2, <2>3, <2>4, <2>5
<1>9. ASSUME NEW p \in Lanzadores, RechazaBlando(p) PROVE IInv'
  <2>1. TypeOK'
    BY <1>9, SMTT(30) DEF RechazaBlando, Olvida, Registros
  <2>2. InvSuma'
    BY <1>9 DEF RechazaBlando, Olvida, InvSuma
  <2>3. InvRecarga'
    BY <1>9 DEF RechazaBlando, Olvida, InvRecarga
  <2>4. InvHijo'
    BY <1>9 DEF RechazaBlando, Olvida, InvHijo
  <2>5. InvLibres'
    BY <1>9 DEF RechazaBlando, Olvida, InvLibres, Registros, ConPid
  <2> QED BY <2>1, <2>2, <2>3, <2>4, <2>5
<1>10. ASSUME NEW p \in Lanzadores, Admite(p) PROVE IInv'
  <2>1. TypeOK'
    BY <1>10, SMTT(30) DEF Admite, Olvida, Registros
  <2>2. InvSuma'
    BY <1>10 DEF Admite, Olvida, InvSuma
  <2>3. InvRecarga'
    BY <1>10 DEF Admite, Olvida, InvRecarga
  <2>4. InvHijo'
    BY <1>10 DEF Admite, Olvida, InvHijo
  <2>5. InvLibres'
    BY <1>10 DEF Admite, Olvida, InvLibres, Registros, ConPid
  <2> QED BY <2>1, <2>2, <2>3, <2>4, <2>5
<1>11. ASSUME NEW p \in Lanzadores, Fork(p) PROVE IInv'
  <2>1. TypeOK'
    BY <1>11 DEF Fork, Registros
  <2>2. InvSuma'
    BY <1>11 DEF Fork, InvSuma
  <2>3. InvRecarga'
    BY <1>11 DEF Fork, InvRecarga
  <2>4. InvHijo'
    BY <1>11 DEF Fork, InvHijo
  <2>5. InvLibres'
    BY <1>11 DEF Fork, InvLibres, Registros, ConPid
  <2> QED BY <2>1, <2>2, <2>3, <2>4, <2>5
<1>12. ASSUME NEW p \in Lanzadores, ForkFalla(p) PROVE IInv'
  <2>1. TypeOK'
    BY <1>12 DEF ForkFalla
  <2>2. InvSuma'
    BY <1>12 DEF ForkFalla, InvSuma
  <2>3. InvRecarga'
    BY <1>12 DEF ForkFalla, InvRecarga
  <2>4. InvHijo'
    BY <1>12 DEF ForkFalla, InvHijo
  <2>5. InvLibres'
    BY <1>12 DEF ForkFalla, InvLibres, Registros, ConPid
  <2> QED BY <2>1, <2>2, <2>3, <2>4, <2>5
<1>13. ASSUME NEW p \in Lanzadores, Espera(p) PROVE IInv'
  <2>1. TypeOK'
    BY <1>13 DEF Espera, Registros
  <2>2. InvSuma'
    BY <1>13 DEF Espera, InvSuma
  <2>3. InvRecarga'
    BY <1>13 DEF Espera, InvRecarga
  <2>4. InvHijo'
    BY <1>13 DEF Espera, InvHijo
  <2>5. InvLibres'
    BY <1>13 DEF Espera, InvLibres, Registros, ConPid
  <2> QED BY <2>1, <2>2, <2>3, <2>4, <2>5
<1>22. ASSUME NEW p \in Lanzadores, FinDeSalida(p) PROVE IInv'
  <2>1. TypeOK'
    BY <1>22 DEF FinDeSalida
  <2>2. InvSuma'
    BY <1>22 DEF FinDeSalida, InvSuma
  <2>3. InvRecarga'
    BY <1>22 DEF FinDeSalida, InvRecarga
  <2>4. InvHijo'
    BY <1>22 DEF FinDeSalida, InvHijo
  <2>5. InvLibres'
    BY <1>22 DEF FinDeSalida, InvLibres, Registros, ConPid
  <2> QED BY <2>1, <2>2, <2>3, <2>4, <2>5
<1>14. ASSUME NEW p \in Lanzadores, Libera(p) PROVE IInv'
  <2>1. TypeOK'
    BY <1>14 DEF Libera, Modifica, Registros
  <2>2. InvSuma'
    BY <1>14 DEF Libera, Modifica, InvSuma
  <2>3. InvRecarga'
    BY <1>14 DEF Libera, Modifica, InvRecarga
  <2>4. InvHijo'
    BY <1>14 DEF Libera, Modifica, InvHijo, Registros
  <2>5. InvLibres'
    BY <1>14 DEF Libera, Modifica, InvLibres, Registros, ConPid
  <2> QED BY <2>1, <2>2, <2>3, <2>4, <2>5
<1>15. ASSUME NEW p \in Lanzadores, RecibeUsr2(p) PROVE IInv'
  <2>1. TypeOK'
    BY <1>15 DEF RecibeUsr2, Registros
  <2>2. InvSuma'
    BY <1>15 DEF RecibeUsr2, InvSuma
  <2>3. InvRecarga'
    BY <1>15 DEF RecibeUsr2, InvRecarga
  <2>4. InvHijo'
    BY <1>15 DEF RecibeUsr2, InvHijo
  <2>5. InvLibres'
    BY <1>15 DEF RecibeUsr2, InvLibres, Registros, ConPid
  <2> QED BY <2>1, <2>2, <2>3, <2>4, <2>5
<1>16. ASSUME NEW p \in Lanzadores, Acepta(p) PROVE IInv'
  <2>1. TypeOK'
    BY <1>16 DEF Acepta, Registros
  <2>2. InvSuma'
    BY <1>16 DEF Acepta, InvSuma
  <2>3. InvRecarga'
    BY <1>16 DEF Acepta, InvRecarga
  <2>4. InvHijo'
    BY <1>16 DEF Acepta, InvHijo
  <2>5. InvLibres'
    BY <1>16 DEF Acepta, InvLibres, Registros, ConPid
  <2> QED BY <2>1, <2>2, <2>3, <2>4, <2>5
<1>17. ASSUME NEW p \in Lanzadores, HijoMarca(p) PROVE IInv'
  <2>1. estado' \in [Registros -> BOOLEAN]
    BY <1>17 DEF HijoMarca, Modifica, Registros
  <2>2. TypeOK'
    BY <1>17, <2>1 DEF HijoMarca, Registros
  <2>3. InvSuma'
    BY <1>17 DEF HijoMarca, InvSuma
  <2>4. InvRecarga'
    BY <1>17 DEF HijoMarca, InvRecarga
  <2>5. InvHijo'
    <3>1. /\ hijo[p] = "creado" /\ pc' = pc
          /\ \A q \in Lanzadores \ {p} : hijo'[q] = hijo[q]
      BY <1>17 DEF HijoMarca
    <3>2. pc[p] \in {"tubos", "espera"}
      BY <3>1 DEF InvHijo
    <3>3. \A q \in Lanzadores \ {p} :
            Pos[q] # 0 /\ estado'[Pos[q]] => estado[Pos[q]]
      BY <1>17 DEF HijoMarca, Modifica, Registros
    <3> QED BY <3>1, <3>2, <3>3 DEF InvHijo
  <2>6. InvLibres'
    BY <1>17 DEF HijoMarca, Modifica, InvLibres, Registros, ConPid
  <2> QED BY <2>2, <2>3, <2>4, <2>5, <2>6
<1>18. ASSUME NEW p \in Lanzadores, HijoAcaba(p) PROVE IInv'
  <2>1. TypeOK'
    BY <1>18 DEF HijoAcaba
  <2>2. InvSuma'
    BY <1>18 DEF HijoAcaba, InvSuma
  <2>3. InvRecarga'
    BY <1>18 DEF HijoAcaba, InvRecarga
  <2>4. InvHijo'
    BY <1>18 DEF HijoAcaba, InvHijo
  <2>5. InvLibres'
    BY <1>18 DEF HijoAcaba, InvLibres, Registros, ConPid
  <2> QED BY <2>1, <2>2, <2>3, <2>4, <2>5
<1>23. ASSUME NEW p \in Lanzadores, HijoCierra(p) \/ NietoAcaba(p) PROVE IInv'
  <2>1. TypeOK'
    BY <1>23 DEF HijoCierra, NietoAcaba
  <2>2. InvSuma'
    BY <1>23 DEF HijoCierra, NietoAcaba, InvSuma
  <2>3. InvRecarga'
    BY <1>23 DEF HijoCierra, NietoAcaba, InvRecarga
  <2>4. InvHijo'
    BY <1>23 DEF HijoCierra, NietoAcaba, InvHijo
  <2>5. InvLibres'
    BY <1>23 DEF HijoCierra, NietoAcaba, InvLibres, Registros, ConPid
  <2> QED BY <2>1, <2>2, <2>3, <2>4, <2>5
<1>19. CASE CambiaFichero
  BY <1>19 DEF CambiaFichero, InvSuma, InvRecarga, InvHijo, InvLibres, Registros, ConPid
<1>20. CASE PropagaRefresco
  BY <1>20 DEF PropagaRefresco, InvSuma, InvRecarga, InvHijo, InvLibres, Registros, ConPid
<1>21. CASE UNCHANGED vars
  BY <1>21 DEF vars, InvSuma, InvRecarga, InvHijo, InvLibres, Registros, ConPid
<1> QED
  BY <1>1, <1>2, <1>3, <1>4, <1>5, <1>6, <1>7, <1>8, <1>9, <1>10, <1>11,
     <1>12, <1>13, <1>14, <1>15, <1>16, <1>17, <1>18, <1>19, <1>20, <1>21, <1>22, <1>23
     DEF Next, Paso, DelHijo

\* IInv holds for ever.
THEOREM IInvInvariante == Spec => []IInv
BY InvInicial, InvPaso, PTL DEF Spec

\* The variables have their types.
THEOREM Tipos == Spec => []TypeOK
BY IInvInvariante, PTL DEF IInv

\* A record marked busy belongs to a launcher inside piped_child.
THEOREM Veraz == Spec => []EstadoVeraz
<1>1. IInv => EstadoVeraz
  BY DEF IInv, InvHijo, InvLibres, EstadoVeraz, ConPid
<1> QED BY IInvInvariante, <1>1, PTL

\* No reload announced before a request was accepted is lost for it.
THEOREM RecargaLlega == Spec => []RecargaNoSePierde
<1>1. IInv => RecargaNoSePierde
  BY DEF IInv, InvRecarga, RecargaNoSePierde, EnBucle
<1> QED BY IInvInvariante, <1>1, PTL

-----------------------------------------------------------------------------
(***************************************************************************)
(* The limits.  A launcher counts the busy records one by one while others *)
(* are marking theirs, so no bound on the busy ones is inductive by        *)
(* itself.  What is: the launchers that have been accepted and not ended   *)
(* are numbered in the order of their acceptance (r, the next number is    *)
(* c), and J[p] is who was between accepting and marking when p was        *)
(* accepted, p included.  Everyone that is busy and older than p and not   *)
(* in J[p] was busy before p began to count, so p has counted it.          *)
(* c, r and J are a history of the run; the invariant says there is one.   *)
(***************************************************************************)
EnServicio(p) == Pos[p] # 0 /\ estado[Pos[p]]
Activo(p) == p \in EnVentana \/ EnServicio(p)
Anteriores(p, r, J) ==
  {q \in Lanzadores : EnServicio(q) /\ r[q] < r[p] /\ q \notin J[p]}
Contados(p, r, J) == {q \in Anteriores(p, r, J) : Pos[q] < i[p]}
Admitido(p) == pc[p] = "fork" \/ hijo[p] = "creado" \/ EnServicio(p)

InvTurno(c, r, J) ==
  /\ \A p \in Lanzadores :
       Activo(p) => r[p] < c /\ p \in J[p] /\ Cardinality(J[p]) <= Ventana
  /\ \A p, q \in Lanzadores : Activo(p) /\ Activo(q) /\ r[p] = r[q] => p = q
  /\ \A p, q \in Lanzadores : Activo(p) /\ q \in EnVentana /\ r[q] < r[p] => q \in J[p]

InvCuentaDe(p, r, J) ==
  /\ pc[p] = "cuenta" => Cardinality(Contados(p, r, J)) <= suma[p]
  /\ pc[p] = "decide" => Cardinality(Anteriores(p, r, J)) <= suma[p]
  /\ Admitido(p) =>
       /\ \/ Cardinality(Anteriores(p, r, J)) <= MaxBusyProcess
          \/ Cardinality(Anteriores(p, r, J)) <= MaxSoftBusyProcess
       /\ ~sesion[p] => Cardinality(Anteriores(p, r, J)) <= MaxSoftBusyProcess

InvLimite ==
  \E c \in Nat, r \in [Lanzadores -> Nat], J \in [Lanzadores -> SUBSET Lanzadores] :
    InvTurno(c, r, J) /\ \A p \in Lanzadores : InvCuentaDe(p, r, J)

\* The set of launchers is finite, and so is every part of it.
LEMMA Cuantos ==
  ASSUME NEW T \in SUBSET Lanzadores, NEW S \in SUBSET T
  PROVE  /\ IsFiniteSet(S) /\ IsFiniteSet(T)
         /\ Cardinality(S) \in Nat /\ Cardinality(T) \in Nat
         /\ Cardinality(S) <= Cardinality(T)
<1>1. IsFiniteSet(T)
  BY LanzadorAssumption, FS_Subset
<1>2. IsFiniteSet(S) /\ Cardinality(S) <= Cardinality(T)
  BY <1>1, FS_Subset
<1> QED BY <1>1, <1>2, FS_CardinalityType

\* A nonempty set of naturals has a smallest element.
LEMMA Menor ==
  ASSUME NEW T, T \subseteq Nat, T # {}
  PROVE  \E x \in T : \A y \in T : x <= y
<1>1. PICK x \in T : \A y \in T : ~(<<y, x>> \in OpToRel(<, Nat))
  BY NatLessThanWellFounded, WFMin
<1>2. \A y \in T : ~(y < x)
  BY <1>1 DEF OpToRel
<1> QED BY <1>2

\* Of several launchers with numbers below c there is a last one.
LEMMA Ultimo ==
  ASSUME NEW B \in SUBSET Lanzadores, B # {}, NEW c \in Nat,
         NEW r \in [Lanzadores -> Nat], \A q \in B : r[q] < c
  PROVE  \E p \in B : \A q \in B : r[q] <= r[p]
<1> DEFINE T == {c - r[q] : q \in B}
<1>1. T \subseteq Nat /\ T # {}
  OBVIOUS
<1> HIDE DEF T
<1>2. PICK x \in T : \A y \in T : x <= y
  BY <1>1, Menor
<1>3. PICK p \in B : x = c - r[p]
  BY <1>2 DEF T
<1>4. \A q \in B : c - r[p] <= c - r[q]
  BY <1>2, <1>3 DEF T
<1>5. \A q \in B : r[q] <= r[p]
  BY <1>4
<1> QED BY <1>5

\* The launchers with a record marked busy are no more than those registered.
LEMMA ServicioAcotado ==
  ASSUME CuentaCompleta, NEW x \in NumRegistrados,
         NEW S \in SUBSET {q \in Lanzadores : Pos[q] # 0}
  PROVE  Cardinality(S) <= x
<1>1. [q \in S |-> Pos[q]] \in Injection(S, ConPid)
  BY LanzadorAssumption DEF ConPid, Injection, IsInjective
<1>2. IsFiniteSet(0..(MaxProcesos + 1))
  BY LanzadorAssumption, FS_Interval
<1>3. ConPid \subseteq 0..(MaxProcesos + 1)
  BY LanzadorAssumption DEF ConPid
<1>4. IsFiniteSet(ConPid) /\ Cardinality(ConPid) \in Nat
  BY <1>2, <1>3, FS_Subset, FS_CardinalityType
<1>5. IsFiniteSet(S) /\ Cardinality(S) <= Cardinality(ConPid)
  BY <1>1, <1>4, FS_Injection
<1>6. Cardinality(S) \in Nat /\ x \in Nat /\ Cardinality(ConPid) <= x
  BY <1>5, FS_CardinalityType, LanzadorAssumption DEF CuentaCompleta
<1> QED BY <1>4, <1>5, <1>6

\* Nobody gets into the window or becomes busy without having been numbered:
\* the numbers stay good.
LEMMA TurnoSigue ==
  ASSUME NEW c, NEW r, NEW J, InvTurno(c, r, J),
         \A q \in Lanzadores : Activo(q)' => Activo(q),
         EnVentana' \subseteq EnVentana
  PROVE  InvTurno(c, r, J)'
BY DEF InvTurno

\* A launcher becomes busy from the window only, so those that an older count
\* must have seen are never more than they were.
LEMMA AnterioresNoCrece ==
  ASSUME NEW c, NEW r, NEW J, InvTurno(c, r, J), NEW p \in Lanzadores, Activo(p),
         \A q \in Lanzadores : EnServicio(q)' => EnServicio(q) \/ q \in EnVentana
  PROVE  Anteriores(p, r, J)' \subseteq Anteriores(p, r, J)
BY DEF InvTurno, Anteriores

\* What a launcher has counted stays good, whatever the others do, as long as it
\* does not count one more or decide.
LEMMA CuentaSigue ==
  ASSUME NEW c, NEW r, NEW J, InvTurno(c, r, J), NEW p \in Lanzadores,
         InvCuentaDe(p, r, J), IInv,
         \A q \in Lanzadores : EnServicio(q)' => EnServicio(q) \/ q \in EnVentana,
         pc'[p] = "cuenta" => pc[p] = "cuenta" /\ i'[p] = i[p] /\ suma'[p] = suma[p],
         pc'[p] = "decide" => pc[p] = "decide" /\ suma'[p] = suma[p],
         Admitido(p)' => Admitido(p) /\ sesion'[p] = sesion[p]
  PROVE  InvCuentaDe(p, r, J)'
<1> DEFINE A == Anteriores(p, r, J)
           B == Contados(p, r, J)
<1>1. CASE ~(pc'[p] \in {"cuenta", "decide"} \/ Admitido(p)')
  BY <1>1 DEF InvCuentaDe
<1>2. CASE pc'[p] \in {"cuenta", "decide"} \/ Admitido(p)'
  <2>1. Activo(p)
    BY <1>2 DEF Activo, Admitido, EnVentana
  <2>2. A' \subseteq A
    BY <2>1, AnterioresNoCrece
  <2>3. pc'[p] = "cuenta" => B' \subseteq B
    BY <2>2 DEF Contados
  <2>4. A \in SUBSET Lanzadores /\ B \in SUBSET Lanzadores
    BY DEF Anteriores, Contados
  <2>5. /\ Cardinality(A') \in Nat /\ Cardinality(A) \in Nat
        /\ Cardinality(A') <= Cardinality(A)
    BY <2>2, <2>4, Cuantos
  <2>6. pc'[p] = "cuenta" =>
          /\ Cardinality(B') \in Nat /\ Cardinality(B) \in Nat
          /\ Cardinality(B') <= Cardinality(B)
    BY <2>3, <2>4, Cuantos
  <2>7. suma[p] \in Nat
    BY LanzadorAssumption DEF IInv, TypeOK
  <2> HIDE DEF A, B
  <2>8. /\ pc[p] = "cuenta" => Cardinality(B) <= suma[p]
        /\ pc[p] = "decide" => Cardinality(A) <= suma[p]
        /\ Admitido(p) =>
             /\ Cardinality(A) <= MaxBusyProcess \/ Cardinality(A) <= MaxSoftBusyProcess
             /\ ~sesion[p] => Cardinality(A) <= MaxSoftBusyProcess
    BY DEF InvCuentaDe, A, B
  <2>9. pc'[p] = "cuenta" => Cardinality(B') <= suma'[p]
    BY <2>6, <2>7, <2>8
  <2>10. pc'[p] = "decide" => Cardinality(A') <= suma'[p]
    BY <2>5, <2>7, <2>8
  <2>11. Admitido(p)' =>
           /\ Cardinality(A') <= MaxBusyProcess \/ Cardinality(A') <= MaxSoftBusyProcess
           /\ ~sesion'[p] => Cardinality(A') <= MaxSoftBusyProcess
    <3> SUFFICES ASSUME Admitido(p)'
                 PROVE  /\ \/ Cardinality(A') <= MaxBusyProcess
                           \/ Cardinality(A') <= MaxSoftBusyProcess
                        /\ ~sesion'[p] => Cardinality(A') <= MaxSoftBusyProcess
      OBVIOUS
    <3> QED BY <2>5, <2>8, LanzadorAssumption
  <2> QED BY <2>9, <2>10, <2>11 DEF InvCuentaDe, A, B
<1> QED BY <1>1, <1>2

\* What every step but an acceptance does to the numbers and to the launchers
\* that are not the one that moves.
LEMMA SinAceptar ==
  ASSUME IInv, NEW p \in Lanzadores, Paso(p) \/ RecibeUsr2(p) \/ DelHijo(p)
  PROVE  /\ EnVentana' \subseteq EnVentana
         /\ \A q \in Lanzadores : Activo(q)' => Activo(q)
         /\ \A q \in Lanzadores : EnServicio(q)' => EnServicio(q) \/ q \in EnVentana
         /\ \A q \in Lanzadores \ {p} :
              /\ pc'[q] = pc[q] /\ i'[q] = i[q] /\ suma'[q] = suma[q]
              /\ sesion'[q] = sesion[q] /\ hijo'[q] = hijo[q]
              /\ EnServicio(q)' = EnServicio(q)
<1> USE LanzadorAssumption
    DEF IInv, TypeOK, Va, Lee, cuenta, recarga
<1>1. CASE Paso(p)
  <2>1. \/ estado' = estado
        \/ Modifica(p, FALSE)
    BY <1>1 DEF Paso, PoneSenales, RecargaBaja, RecargaLee, RecargaFin, EntradaMal,
       EntradaBien, CuentaUno, RechazaDuro, RechazaBlando, Admite, Fork, ForkFalla,
       FinDeSalida, Espera, Libera
  <2>2. EnServicio(p)' => EnServicio(p)
    BY <2>1 DEF Modifica, EnServicio, Registros
  <2>3. \A q \in Lanzadores \ {p} : EnServicio(q)' = EnServicio(q)
    BY <2>1, SMTT(30) DEF Modifica, EnServicio, Registros
  <2>4. \A q \in Lanzadores \ {p} :
              /\ pc'[q] = pc[q] /\ i'[q] = i[q] /\ suma'[q] = suma[q]
              /\ sesion'[q] = sesion[q] /\ hijo'[q] = hijo[q]
    BY <1>1 DEF Paso, PoneSenales, RecargaBaja, RecargaLee, RecargaFin, EntradaMal,
       EntradaBien, CuentaUno, RechazaDuro, RechazaBlando, Admite, Olvida, Fork, ForkFalla,
       FinDeSalida, Espera, Libera
  <2>5. p \in EnVentana' => p \in EnVentana
    BY <1>1 DEF Paso, PoneSenales, RecargaBaja, RecargaLee, RecargaFin, EntradaMal,
       EntradaBien, CuentaUno, RechazaDuro, RechazaBlando, Admite, Fork, ForkFalla,
       FinDeSalida, Espera, Libera, EnVentana
  <2>6. EnVentana' \subseteq EnVentana
    BY <2>4, <2>5 DEF EnVentana
  <2> QED BY <2>2, <2>3, <2>4, <2>6 DEF Activo
<1>2. CASE RecibeUsr2(p)
  BY <1>2 DEF RecibeUsr2, EnVentana, Activo, EnServicio
<1>3. CASE HijoMarca(p)
  <2>1. \A q \in Lanzadores \ {p} : EnServicio(q)' = EnServicio(q)
    BY <1>3 DEF HijoMarca, Modifica, EnServicio, Registros
  <2>2. EnVentana' \subseteq EnVentana /\ p \in EnVentana
    BY <1>3 DEF HijoMarca, EnVentana
  <2>3. \A q \in Lanzadores \ {p} :
              /\ pc'[q] = pc[q] /\ i'[q] = i[q] /\ suma'[q] = suma[q]
              /\ sesion'[q] = sesion[q] /\ hijo'[q] = hijo[q]
    BY <1>3 DEF HijoMarca
  <2> QED BY <2>1, <2>2, <2>3 DEF Activo
<1>4. CASE HijoAcaba(p) \/ HijoCierra(p) \/ NietoAcaba(p)
  BY <1>4 DEF HijoAcaba, HijoCierra, NietoAcaba, EnVentana, Activo, EnServicio
<1> QED BY <1>1, <1>2, <1>3, <1>4 DEF DelHijo

\* The step of a launcher that is not counting, nor entering the count, nor
\* deciding to admit keeps the invariant.
LEMMA LimiteTranquilo ==
  ASSUME IInv, NEW c, NEW r, NEW J, InvTurno(c, r, J),
         \A p \in Lanzadores : InvCuentaDe(p, r, J),
         NEW p \in Lanzadores,
         Paso(p) \/ RecibeUsr2(p) \/ DelHijo(p),
         ~EntradaBien(p), ~CuentaUno(p), ~Admite(p)
  PROVE  InvTurno(c, r, J)' /\ \A q \in Lanzadores : InvCuentaDe(q, r, J)'
<1>1. /\ EnVentana' \subseteq EnVentana
      /\ \A q \in Lanzadores : Activo(q)' => Activo(q)
      /\ \A q \in Lanzadores : EnServicio(q)' => EnServicio(q) \/ q \in EnVentana
      /\ \A q \in Lanzadores \ {p} :
           /\ pc'[q] = pc[q] /\ i'[q] = i[q] /\ suma'[q] = suma[q]
           /\ sesion'[q] = sesion[q] /\ hijo'[q] = hijo[q]
           /\ EnServicio(q)' = EnServicio(q)
  BY SinAceptar
<1>2. InvTurno(c, r, J)'
  BY <1>1, TurnoSigue
<1>3. ASSUME NEW q \in Lanzadores \ {p} PROVE InvCuentaDe(q, r, J)'
  BY <1>1, CuentaSigue DEF Admitido
<1>4. InvCuentaDe(p, r, J)'
  <2>1. pc'[p] \notin {"cuenta", "decide"} \/ (pc'[p] = pc[p] /\ i' = i /\ suma' = suma)
    BY LanzadorAssumption
       DEF Paso, PoneSenales, RecargaBaja, RecargaLee, RecargaFin, EntradaMal,
       RechazaDuro, RechazaBlando, Fork, ForkFalla, FinDeSalida, Espera, Libera, RecibeUsr2,
       DelHijo, HijoMarca, HijoAcaba, HijoCierra, NietoAcaba, Va, cuenta, IInv, TypeOK
  <2>2. Admitido(p)' => Admitido(p) /\ sesion' = sesion
    BY LanzadorAssumption
       DEF Paso, PoneSenales, RecargaBaja, RecargaLee, RecargaFin, EntradaMal,
       RechazaDuro, RechazaBlando, Fork, ForkFalla, FinDeSalida, Espera, Libera, RecibeUsr2,
       DelHijo, HijoMarca, HijoAcaba, HijoCierra, NietoAcaba, Va, cuenta, recarga, Modifica, EnServicio,
       Admitido,
       IInv, InvHijo, TypeOK, Registros
  <2> QED BY <1>1, <2>1, <2>2, CuentaSigue
<1> QED BY <1>2, <1>3, <1>4

\* Entering the count, with nothing read yet, or going past it because no more
\* than the soft limit are registered.
LEMMA LimiteEntrada ==
  ASSUME IInv, CuentaCompleta, NEW c, NEW r, NEW J, InvTurno(c, r, J),
         NEW p \in Lanzadores, EntradaBien(p)
  PROVE  InvCuentaDe(p, r, J)'
<1> USE LanzadorAssumption DEF IInv, TypeOK, Va, cuenta, recarga
<1>1. PICK x \in NumRegistrados :
        Va(p, IF x > MaxSoftBusyProcess THEN "cuenta" ELSE "fork")
  BY DEF EntradaBien
<1>2. x \in Nat
  OBVIOUS
<1>3. ~EnServicio(p)' /\ hijo'[p] # "creado" /\ i'[p] = 1 /\ suma'[p] = 0
  BY DEF EntradaBien, InvHijo, InvSuma, EnServicio
<1>4. CASE x > MaxSoftBusyProcess
  <2>1. pc'[p] = "cuenta"
    BY <1>1, <1>4
  <2>2. Contados(p, r, J)' = {}
    BY <1>3 DEF Contados, Anteriores, EnServicio, Registros
  <2>3. Cardinality(Contados(p, r, J)') = 0
    BY <2>2, FS_EmptySet
  <2> QED BY <1>3, <2>1, <2>3 DEF InvCuentaDe, Admitido
<1>5. CASE ~(x > MaxSoftBusyProcess)
  <2>1. pc'[p] = "fork"
    BY <1>1, <1>5
  <2>2. Anteriores(p, r, J)' \in SUBSET {q \in Lanzadores : Pos[q] # 0}
    BY DEF Anteriores, EnServicio
  <2>3. Anteriores(p, r, J)' \in SUBSET Lanzadores
    BY <2>2
  <2>4. /\ Cardinality(Anteriores(p, r, J)') <= x
        /\ Cardinality(Anteriores(p, r, J)') \in Nat
    BY <2>2, <2>3, ServicioAcotado, Cuantos
  <2>5. Cardinality(Anteriores(p, r, J)') <= MaxSoftBusyProcess
    BY <1>2, <1>5, <2>4
  <2> QED BY <2>1, <2>5 DEF InvCuentaDe
<1> QED BY <1>4, <1>5

\* Reading one record more, and the two ways the count ends: all the records have
\* been read, or as many busy ones have been counted as there are launchers.
LEMMA LimiteUnoMas ==
  ASSUME IInv, CuentaCompleta, NEW c, NEW r, NEW J, InvTurno(c, r, J),
         NEW p \in Lanzadores, InvCuentaDe(p, r, J), CuentaUno(p)
  PROVE  InvCuentaDe(p, r, J)'
<1> DEFINE n == IF i[p] \in ConPid /\ estado[i[p]] THEN suma[p] + 1 ELSE suma[p]
           A == Anteriores(p, r, J)
           B == Contados(p, r, J)
           C == {q \in A : Pos[q] <= i[p]}
<1> USE LanzadorAssumption DEF IInv, TypeOK, Va, Lee, cuenta, recarga
<1>1. /\ pc[p] = "cuenta" /\ estado' = estado /\ hijo' = hijo /\ suma'[p] = n
      /\ suma[p] \in Nat /\ i[p] \in 1..MaxProcesos
  BY DEF CuentaUno, InvSuma, Registros
<1>2. PICK x \in NumRegistrados :
        IF (i[p] \in ConPid /\ n = x) \/ i[p] = MaxProcesos
          THEN Va(p, "decide") /\ UNCHANGED i
          ELSE Lee(p, i[p] + 1) /\ UNCHANGED pc
  BY DEF CuentaUno
<1>3. ~EnServicio(p)' /\ hijo'[p] # "creado"
  BY <1>1 DEF InvHijo, EnServicio
<1>4. A' = A
  BY <1>1 DEF Anteriores, EnServicio
<1>5. A \in SUBSET Lanzadores /\ B \in SUBSET Lanzadores /\ C \in SUBSET Lanzadores
  BY DEF Anteriores, Contados
<1>6. Cardinality(A) \in Nat /\ Cardinality(B) \in Nat /\ Cardinality(C) \in Nat
      /\ IsFiniteSet(B)
  BY <1>5, Cuantos
<1>7. Cardinality(B) <= suma[p]
  BY <1>1 DEF InvCuentaDe
<1>8. Cardinality(C) <= n /\ n \in Nat
  <2>1. CASE \E q \in A : Pos[q] = i[p]
    <3>1. PICK q \in A : Pos[q] = i[p]
      BY <2>1
    <3>2. i[p] \in ConPid /\ estado[i[p]]
      BY <3>1 DEF Anteriores, EnServicio, ConPid
    <3>3. C \subseteq B \cup {q}
      BY <3>1, <1>1 DEF Contados, Anteriores
    <3>4. B \cup {q} \in SUBSET Lanzadores
      BY <1>5, <3>1
    <3>7. Cardinality(B \cup {q}) <= Cardinality(B) + 1
      <4> HIDE DEF B
      <4>1. Cardinality(B \cup {q}) = IF q \in B THEN Cardinality(B) ELSE Cardinality(B) + 1
        BY <1>6, FS_AddElement
      <4> QED BY <1>6, <4>1
    <3>5. Cardinality(C) <= Cardinality(B \cup {q}) /\ Cardinality(B \cup {q}) \in Nat
      BY <3>3, <3>4, Cuantos
    <3>6. n = suma[p] + 1
      BY <3>2
    <3> HIDE DEF n, A, B, C
    <3> QED BY <1>1, <1>6, <1>7, <3>5, <3>6, <3>7
  <2>2. CASE ~\E q \in A : Pos[q] = i[p]
    <3>1. C \subseteq B
      BY <2>2, <1>1 DEF Contados, Anteriores
    <3>2. Cardinality(C) <= Cardinality(B)
      BY <3>1, <1>5, Cuantos
    <3>3. n \in {suma[p], suma[p] + 1}
      OBVIOUS
    <3> HIDE DEF n, A, B, C
    <3> QED BY <1>1, <1>6, <1>7, <3>2, <3>3
  <2> QED BY <2>1, <2>2
<1>9. CASE i[p] \in ConPid /\ n = x
  <2>1. pc'[p] = "decide"
    BY <1>2, <1>9
  <2>2. A \in SUBSET {q \in Lanzadores : Pos[q] # 0}
    BY DEF Anteriores, EnServicio
  <2>3. Cardinality(A) <= x
    BY <2>2, ServicioAcotado
  <2> QED BY <1>1, <1>3, <1>4, <1>9, <2>1, <2>3 DEF InvCuentaDe, Admitido
<1>10. CASE ~(i[p] \in ConPid /\ n = x) /\ i[p] = MaxProcesos
  <2>1. pc'[p] = "decide"
    BY <1>2, <1>10
  <2>2. \A q \in A : Pos[q] \in ConPid /\ Pos[q] \in 0..(MaxProcesos + 1)
    BY DEF Anteriores, EnServicio, ConPid
  <2>3. \A q \in A : Pos[q] <= i[p]
    BY <1>10, <2>2 DEF CuentaCompleta
  <2>4. C = A
    BY <2>3
  <2> QED BY <1>1, <1>3, <1>4, <1>8, <2>1, <2>4 DEF InvCuentaDe, Admitido
<1>11. CASE ~(i[p] \in ConPid /\ n = x) /\ i[p] # MaxProcesos
  <2>1. pc'[p] = "cuenta" /\ i'[p] = i[p] + 1
    BY <1>1, <1>2, <1>11
  <2>2. B' = C
    BY <1>1, <1>4, <2>1 DEF Contados, Anteriores
  <2> QED BY <1>1, <1>3, <1>8, <2>1, <2>2 DEF InvCuentaDe, Admitido
<1> QED BY <1>9, <1>10, <1>11

\* Admitting: the count was not above the limits.
LEMMA LimiteAdmite ==
  ASSUME IInv, NEW c, NEW r, NEW J, InvTurno(c, r, J),
         NEW p \in Lanzadores, InvCuentaDe(p, r, J), Admite(p)
  PROVE  InvCuentaDe(p, r, J)'
<1> DEFINE A == Anteriores(p, r, J)
<1> USE LanzadorAssumption DEF IInv, TypeOK, Va, recarga
<1>1. /\ pc[p] = "decide" /\ pc'[p] = "fork" /\ estado' = estado /\ sesion' = sesion
      /\ suma[p] \in Nat /\ ~(suma[p] > MaxBusyProcess)
      /\ ~(suma[p] > MaxSoftBusyProcess /\ ~sesion[p])
  BY DEF Admite, ExcedeDuro, ExcedeBlando
<1>2. A' = A
  BY <1>1 DEF Anteriores, EnServicio
<1>3. Cardinality(A) \in Nat
  BY Cuantos DEF Anteriores
<1>4. Cardinality(A) <= suma[p]
  BY <1>1 DEF InvCuentaDe
<1> HIDE DEF A
<1>5. Cardinality(A') <= MaxBusyProcess /\ (~sesion[p] => Cardinality(A') <= MaxSoftBusyProcess)
  BY <1>1, <1>2, <1>3, <1>4
<1> QED BY <1>1, <1>5 DEF InvCuentaDe, A

\* An acceptance takes the next number.
LEMMA LimiteAcepta ==
  ASSUME IInv, NEW c \in Nat, NEW r \in [Lanzadores -> Nat],
         NEW J \in [Lanzadores -> SUBSET Lanzadores], InvTurno(c, r, J),
         \A q \in Lanzadores : InvCuentaDe(q, r, J),
         NEW p \in Lanzadores, Acepta(p)
  PROVE  InvLimite'
<1> USE LanzadorAssumption DEF IInv, TypeOK, Va, cuenta, recarga
<1>1. /\ estado' = estado /\ hijo' = hijo /\ i' = i /\ suma' = suma
      /\ pc[p] = "acepta" /\ pc'[p] \in {"recarga", "lee"}
      /\ \A q \in Lanzadores \ {p} : pc'[q] = pc[q] /\ sesion'[q] = sesion[q]
      /\ Cardinality(EnVentana) < Ventana
  BY DEF Acepta
<1>2. hijo[p] = "no" /\ ~EnServicio(p) /\ p \notin EnVentana
  BY <1>1 DEF InvHijo, EnServicio, EnVentana
<1>3. EnVentana' = EnVentana \cup {p}
  BY <1>1 DEF EnVentana
<1>4. \A q \in Lanzadores : EnServicio(q)' = EnServicio(q)
  BY <1>1 DEF EnServicio
<1>5. EnVentana \in SUBSET Lanzadores /\ EnVentana \cup {p} \in SUBSET Lanzadores
  BY DEF EnVentana
<1>6. Cardinality(EnVentana \cup {p}) <= Ventana
  <2>1. IsFiniteSet(EnVentana) /\ Cardinality(EnVentana) \in Nat
    BY <1>5, Cuantos
  <2>2. Cardinality(EnVentana \cup {p}) = Cardinality(EnVentana) + 1
    BY <1>2, <2>1, FS_AddElement
  <2> QED BY <1>1, <2>1, <2>2
<1>7. PICK rr \in [Lanzadores -> Nat], JJ \in [Lanzadores -> SUBSET Lanzadores] :
        /\ rr[p] = c /\ JJ[p] = EnVentana \cup {p}
        /\ \A q \in Lanzadores \ {p} : rr[q] = r[q] /\ JJ[q] = J[q]
  <2> DEFINE r1 == [r EXCEPT ![p] = c]
             J1 == [J EXCEPT ![p] = EnVentana \cup {p}]
  <2>1. r1 \in [Lanzadores -> Nat] /\ J1 \in [Lanzadores -> SUBSET Lanzadores]
    BY <1>5
  <2>2. /\ r1[p] = c /\ J1[p] = EnVentana \cup {p}
        /\ \A q \in Lanzadores \ {p} : r1[q] = r[q] /\ J1[q] = J[q]
    OBVIOUS
  <2> HIDE DEF r1, J1
  <2> QED BY <2>1, <2>2
<1>8. \A q \in Lanzadores \ {p} : Activo(q)' => Activo(q) /\ r[q] < c
  BY <1>3, <1>4 DEF Activo, InvTurno
<1>9. InvTurno(c + 1, rr, JJ)'
  <2>1. ASSUME NEW q \in Lanzadores, Activo(q)'
        PROVE  rr[q] < c + 1 /\ q \in JJ[q] /\ Cardinality(JJ[q]) <= Ventana
    <3>1. CASE q = p
      <4>1. rr[q] = c /\ JJ[q] = EnVentana \cup {p} /\ q \in EnVentana \cup {p}
        BY <1>7, <3>1
      <4>2. Cardinality(JJ[q]) <= Ventana
        BY ONLY <1>6, <4>1, Zenon
      <4> QED BY <4>1, <4>2
    <3>2. CASE q # p
      BY <1>7, <1>8, <2>1, <3>2 DEF InvTurno
    <3> QED BY <3>1, <3>2
  <2>2. ASSUME NEW q \in Lanzadores, NEW s \in Lanzadores,
               Activo(q)', Activo(s)', rr[q] = rr[s]
        PROVE  q = s
    BY <1>7, <1>8, <2>2 DEF InvTurno
  <2>3. ASSUME NEW q \in Lanzadores, NEW s \in Lanzadores,
               Activo(q)', s \in EnVentana', rr[s] < rr[q]
        PROVE  s \in JJ[q]
    <3>1. CASE q = p
      BY <1>3, <1>7, <2>3, <3>1
    <3>2. CASE q # p /\ s = p
      BY <1>7, <1>8, <2>3, <3>2
    <3>3. CASE q # p /\ s # p
      BY <1>3, <1>7, <1>8, <2>3, <3>3 DEF InvTurno
    <3> QED BY <3>1, <3>2, <3>3
  <2> QED BY <2>1, <2>2, <2>3 DEF InvTurno
<1>10. ASSUME NEW q \in Lanzadores PROVE InvCuentaDe(q, rr, JJ)'
  <2>1. CASE q = p
    BY <1>1, <1>2, <1>4, <2>1 DEF InvCuentaDe, Admitido
  <2>2. CASE q # p
    <3>1. Anteriores(q, rr, JJ)' = Anteriores(q, r, J)
      BY <1>2, <1>4, <1>7, <2>2 DEF Anteriores
    <3>2. Contados(q, rr, JJ)' = Contados(q, r, J)
      BY <1>1, <3>1 DEF Contados
    <3>3. Admitido(q)' = Admitido(q)
      BY <1>1, <1>4, <2>2 DEF Admitido
    <3>4. InvCuentaDe(q, r, J)
      OBVIOUS
    <3> QED BY <1>1, <2>2, <3>1, <3>2, <3>3, <3>4 DEF InvCuentaDe
  <2> QED BY <2>1, <2>2
<1>11. c + 1 \in Nat
  OBVIOUS
<1> QED BY <1>7, <1>9, <1>10, <1>11 DEF InvLimite

\* Nobody has been accepted when the launchers start.
LEMMA LimiteInicial == Init => InvLimite
<1> SUFFICES ASSUME Init PROVE InvLimite
  OBVIOUS
<1> DEFINE r == [p \in Lanzadores |-> 0]
           J == [p \in Lanzadores |-> {}]
<1>1. r \in [Lanzadores -> Nat] /\ J \in [Lanzadores -> SUBSET Lanzadores]
  OBVIOUS
<1>2. \A p \in Lanzadores : ~Activo(p) /\ ~Admitido(p) /\ pc[p] = "arranque"
  BY LanzadorAssumption DEF Init, Activo, Admitido, EnVentana, EnServicio, Registros
<1>3. InvTurno(0, r, J)
  BY <1>2 DEF InvTurno
<1>4. \A p \in Lanzadores : InvCuentaDe(p, r, J)
  BY <1>2 DEF InvCuentaDe
<1> QED BY <1>1, <1>3, <1>4 DEF InvLimite

\* Every step keeps a history that explains the counts.
LEMMA LimitePaso == CuentaCompleta /\ IInv /\ InvLimite /\ [Next]_vars => InvLimite'
<1> SUFFICES ASSUME CuentaCompleta, IInv, InvLimite, [Next]_vars PROVE InvLimite'
  OBVIOUS
<1>1. PICK c \in Nat, r \in [Lanzadores -> Nat], J \in [Lanzadores -> SUBSET Lanzadores] :
        InvTurno(c, r, J) /\ \A p \in Lanzadores : InvCuentaDe(p, r, J)
  BY DEF InvLimite
<1>2. ASSUME NEW p \in Lanzadores, Acepta(p) PROVE InvLimite'
  BY <1>1, <1>2, LimiteAcepta
<1>3. ASSUME NEW p \in Lanzadores, Paso(p) \/ RecibeUsr2(p) \/ DelHijo(p)
      PROVE  InvLimite'
  <2>1. CASE ~EntradaBien(p) /\ ~CuentaUno(p) /\ ~Admite(p)
    BY <1>1, <1>3, <2>1, LimiteTranquilo DEF InvLimite
  <2>2. CASE EntradaBien(p) \/ CuentaUno(p) \/ Admite(p)
    <3>1. InvCuentaDe(p, r, J)'
      BY <1>1, <2>2, LimiteEntrada, LimiteUnoMas, LimiteAdmite
    <3>2. /\ EnVentana' \subseteq EnVentana
          /\ \A q \in Lanzadores : Activo(q)' => Activo(q)
          /\ \A q \in Lanzadores : EnServicio(q)' => EnServicio(q) \/ q \in EnVentana
          /\ \A q \in Lanzadores \ {p} :
               /\ pc'[q] = pc[q] /\ i'[q] = i[q] /\ suma'[q] = suma[q]
               /\ sesion'[q] = sesion[q] /\ hijo'[q] = hijo[q]
               /\ EnServicio(q)' = EnServicio(q)
      BY <1>3, SinAceptar
    <3>3. InvTurno(c, r, J)'
      BY <1>1, <3>2, TurnoSigue
    <3>4. ASSUME NEW q \in Lanzadores \ {p} PROVE InvCuentaDe(q, r, J)'
      BY <1>1, <3>2, CuentaSigue DEF Admitido
    <3> QED BY <1>1, <3>1, <3>3, <3>4 DEF InvLimite
  <2> QED BY <2>1, <2>2
<1>4. CASE CambiaFichero \/ PropagaRefresco \/ UNCHANGED vars
  <2>1. UNCHANGED <<estado, pc, cuenta, sesion, hijo>>
    BY <1>4 DEF CambiaFichero, PropagaRefresco, vars
  <2>2. InvTurno(c, r, J)'
    BY <1>1, <2>1 DEF InvTurno, Activo, EnVentana, EnServicio
  <2>3. \A p \in Lanzadores : InvCuentaDe(p, r, J)'
    BY <1>1, <2>1 DEF InvCuentaDe, Contados, Anteriores, Admitido, EnServicio, cuenta
  <2> QED BY <1>1, <2>2, <2>3 DEF InvLimite
<1> QED BY <1>2, <1>3, <1>4 DEF Next

\* The history exists for ever.
LEMMA LimiteInvariante == ASSUME CuentaCompleta PROVE Spec => []InvLimite
<1>1. Init => InvLimite
  BY LimiteInicial
<1>2. IInv /\ InvLimite /\ [Next]_vars => InvLimite'
  BY LimitePaso
<1> QED BY <1>1, <1>2, IInvInvariante, PTL DEF Spec

\* The youngest of a set of busy launchers has counted all of them but those that
\* were in the window when it was accepted.
LEMMA DelUltimo ==
  ASSUME NEW c \in Nat, NEW r \in [Lanzadores -> Nat],
         NEW J \in [Lanzadores -> SUBSET Lanzadores], InvTurno(c, r, J),
         NEW B \in SUBSET {q \in Lanzadores : EnServicio(q)}, B # {}
  PROVE  \E p \in B : /\ Cardinality(Anteriores(p, r, J)) \in Nat
                      /\ Cardinality(B) \in Nat
                      /\ Cardinality(B) <= Cardinality(Anteriores(p, r, J)) + Ventana
<1>1. B \in SUBSET Lanzadores /\ \A q \in B : r[q] < c
  BY DEF InvTurno, Activo
<1>2. PICK p \in B : \A q \in B : r[q] <= r[p]
  BY <1>1, Ultimo
<1>3. Activo(p) /\ p \in Lanzadores
  BY <1>1 DEF Activo
<1>4. B \subseteq Anteriores(p, r, J) \cup J[p]
  <2> SUFFICES ASSUME NEW q \in B, q \notin J[p] PROVE q \in Anteriores(p, r, J)
    OBVIOUS
  <2>1. Activo(q) /\ q \in Lanzadores /\ q # p
    BY <1>3 DEF Activo, InvTurno
  <2>2. r[q] # r[p] /\ r[q] <= r[p]
    BY <1>2, <1>3, <2>1 DEF InvTurno
  <2>3. r[q] < r[p]
    BY <1>3, <2>1, <2>2
  <2> QED BY <2>1, <2>3 DEF Anteriores
<1>5. /\ Anteriores(p, r, J) \in SUBSET Lanzadores
      /\ J[p] \in SUBSET Lanzadores /\ Cardinality(J[p]) <= Ventana
  BY <1>3 DEF Anteriores, InvTurno
<1> DEFINE A == Anteriores(p, r, J)
<1>6. /\ IsFiniteSet(A) /\ IsFiniteSet(J[p]) /\ IsFiniteSet(A \cap J[p])
      /\ Cardinality(A) \in Nat /\ Cardinality(J[p]) \in Nat /\ Cardinality(A \cap J[p]) \in Nat
  BY <1>5, Cuantos
<1>7. /\ Cardinality(B) \in Nat /\ Cardinality(A \cup J[p]) \in Nat
      /\ Cardinality(B) <= Cardinality(A \cup J[p])
  BY <1>4, <1>5, Cuantos
<1>8. Cardinality(A \cup J[p]) = Cardinality(A) + Cardinality(J[p]) - Cardinality(A \cap J[p])
  BY <1>6, FS_Union
<1>9. Cardinality(B) <= Cardinality(A) + Ventana
  <2> HIDE DEF A
  <2> QED BY <1>5, <1>6, <1>7, <1>8, LanzadorAssumption
<1> QED BY <1>6, <1>7, <1>9

\* The busy launchers without a session pass the soft limit by no more than the
\* launchers that are between accepting and marking at one time.
THEOREM Blando == ASSUME CuentaCompleta PROVE Spec => []LimiteBlando
<1>1. IInv /\ InvLimite => LimiteBlando
  <2> SUFFICES ASSUME IInv, InvLimite PROVE LimiteBlando
    OBVIOUS
  <2> DEFINE B == {p \in Lanzadores : Pos[p] \in Ocupados /\ ~sesion[p]}
  <2>1. PICK c \in Nat, r \in [Lanzadores -> Nat], J \in [Lanzadores -> SUBSET Lanzadores] :
          InvTurno(c, r, J) /\ \A p \in Lanzadores : InvCuentaDe(p, r, J)
    BY DEF InvLimite
  <2>2. B \in SUBSET {q \in Lanzadores : EnServicio(q)}
    BY DEF EnServicio, Ocupados, Registros
  <2>3. CASE B = {}
    <3>1. Cardinality(B) = 0
      BY <2>3, FS_EmptySet
    <3> QED BY <3>1, LanzadorAssumption DEF LimiteBlando
  <2>4. CASE B # {}
    <3>1. PICK p \in B : /\ Cardinality(Anteriores(p, r, J)) \in Nat
                         /\ Cardinality(B) \in Nat
                         /\ Cardinality(B) <= Cardinality(Anteriores(p, r, J)) + Ventana
      BY <2>1, <2>2, <2>4, DelUltimo
    <3>2. Cardinality(Anteriores(p, r, J)) <= MaxSoftBusyProcess
      BY <2>1, <2>2 DEF InvCuentaDe, Admitido
    <3> QED BY <3>1, <3>2, LanzadorAssumption DEF LimiteBlando
  <2> QED BY <2>3, <2>4
<1> QED BY <1>1, IInvInvariante, LimiteInvariante, PTL

\* The busy records pass the hard limit by no more than that, if the hard limit
\* is not below the soft one.
THEOREM Duro ==
  ASSUME CuentaCompleta, MaxSoftBusyProcess <= MaxBusyProcess
  PROVE  Spec => []LimiteDuro
<1>1. IInv /\ InvLimite => LimiteDuro
  <2> SUFFICES ASSUME IInv, InvLimite PROVE LimiteDuro
    OBVIOUS
  <2> DEFINE B == {p \in Lanzadores : EnServicio(p)}
             f == [p \in B |-> Pos[p]]
  <2>1. PICK c \in Nat, r \in [Lanzadores -> Nat], J \in [Lanzadores -> SUBSET Lanzadores] :
          InvTurno(c, r, J) /\ \A p \in Lanzadores : InvCuentaDe(p, r, J)
    BY DEF InvLimite
  <2>2. IsFiniteSet(B) /\ Cardinality(B) \in Nat
    BY Cuantos
  <2>3. f \in Surjection(B, Ocupados)
    BY LanzadorAssumption
       DEF Surjection, EnServicio, Ocupados, IInv, InvLibres, ConPid, Registros
  <2>4. Cardinality(Ocupados) <= Cardinality(B) /\ Cardinality(Ocupados) \in Nat
    BY <2>2, <2>3, FS_Surjection, FS_CardinalityType
  <2>5. Cardinality(B) <= MaxBusyProcess + Ventana
    <3>1. CASE B = {}
      BY <3>1, FS_EmptySet, LanzadorAssumption
    <3>2. CASE B # {}
      <4>1. PICK p \in B : /\ Cardinality(Anteriores(p, r, J)) \in Nat
                           /\ Cardinality(B) <= Cardinality(Anteriores(p, r, J)) + Ventana
        BY <2>1, <3>2, DelUltimo
      <4>2. Cardinality(Anteriores(p, r, J)) <= MaxBusyProcess
        BY <2>1, <4>1, LanzadorAssumption DEF InvCuentaDe, Admitido
      <4> QED BY <2>2, <4>1, <4>2, LanzadorAssumption
    <3> QED BY <3>1, <3>2
  <2> QED BY <2>2, <2>4, <2>5, LanzadorAssumption DEF LimiteDuro
<1> QED BY <1>1, IInvInvariante, LimiteInvariante, PTL

-----------------------------------------------------------------------------
(* The call of piped_child seen from the table implements Ejecuta too. *)

\* The call of launcher p and its child, as Ejecuta sees them.
faseDe(p) ==
  CASE pc[p] \in {"tubos", "espera"} -> "dentro" [] pc[p] = "libera" -> "fin" [] OTHER -> "fuera"
hijaDe(p) ==
  CASE hijo[p] \in {"creado", "cgi", "cerrado"} -> "viva" [] hijo[p] \in {"dejo", "muerto"} -> "muerta"
    [] OTHER -> "no"

Abstracto(p) == INSTANCE Ejecuta WITH fase <- faseDe(p), hija <- hijaDe(p)

\* What leaves the call and the child of a launcher as they are is a stutter.
LEMMA Balbuceo ==
  ASSUME NEW p \in Lanzadores, faseDe(p)' = faseDe(p), hijaDe(p)' = hijaDe(p)
  PROVE  UNCHANGED Abstracto(p)!vars
BY DEF Abstracto!vars

\* Every step of a launcher is a step of Ejecuta or stutters.
LEMMA PasoPropio ==
  ASSUME IInv, NEW p \in Lanzadores,
         Paso(p) \/ RecibeUsr2(p) \/ Acepta(p) \/ DelHijo(p)
  PROVE  Abstracto(p)!Next \/ UNCHANGED Abstracto(p)!vars
<1> USE DEF Va, recarga, cuenta, faseDe, hijaDe
<1>1. /\ pc \in [Lanzadores -> EnBucle \cup {"arranque", "muerto"}]
      /\ hijo \in [Lanzadores -> {"no", "creado", "cgi", "cerrado", "dejo", "muerto"}]
      /\ hijo[p] # "no" => pc[p] \in {"tubos", "espera"}
  BY DEF IInv, TypeOK, InvHijo
<1>2. CASE \/ PoneSenales(p) \/ RecargaBaja(p) \/ RecargaLee(p) \/ RecargaFin(p)
           \/ EntradaMal(p) \/ EntradaBien(p) \/ CuentaUno(p) \/ RechazaDuro(p) \/ RechazaBlando(p)
           \/ Admite(p) \/ RecibeUsr2(p) \/ Acepta(p)
  <2>1. hijaDe(p)' = hijaDe(p)
    BY <1>1, <1>2 DEF PoneSenales, RecargaBaja, RecargaLee, RecargaFin, EntradaMal, EntradaBien, CuentaUno,
       RechazaDuro, RechazaBlando, Admite, RecibeUsr2, Acepta
  <2>2. pc' = pc \/ (pc[p] \notin {"tubos", "espera", "libera"} /\ pc'[p] \notin {"tubos", "espera", "libera"})
    BY <1>1, <1>2 DEF PoneSenales, RecargaBaja, RecargaLee, RecargaFin, EntradaMal, EntradaBien, CuentaUno,
       RechazaDuro, RechazaBlando, Admite, RecibeUsr2, Acepta
  <2>3. faseDe(p)' = faseDe(p)
    BY <2>2
  <2> QED BY <2>1, <2>3, Balbuceo
<1>3. CASE Fork(p)
  BY <1>1, <1>3 DEF Fork, Abstracto!Next, Abstracto!Crea
<1>4. CASE ForkFalla(p)
  BY <1>1, <1>4 DEF ForkFalla, Abstracto!Next, Abstracto!NoCrea
<1>5. CASE HijoAcaba(p)
  BY <1>1, <1>5 DEF HijoAcaba, Abstracto!Next, Abstracto!Muere
<1>8. CASE HijoMarca(p) \/ HijoCierra(p) \/ NietoAcaba(p) \/ FinDeSalida(p)
  <2>1. hijaDe(p)' = hijaDe(p)
    BY <1>1, <1>8 DEF HijoMarca, HijoCierra, NietoAcaba, FinDeSalida
  <2>2. pc' = pc \/ (pc[p] = "tubos" /\ pc'[p] = "espera")
    BY <1>1, <1>8 DEF HijoMarca, HijoCierra, NietoAcaba, FinDeSalida
  <2>3. faseDe(p)' = faseDe(p)
    BY <2>2
  <2> QED BY <2>1, <2>3, Balbuceo
<1>6. CASE Espera(p)
  BY <1>1, <1>6 DEF Espera, Abstracto!Next, Abstracto!Recoge
<1>7. CASE Libera(p)
  BY <1>1, <1>7 DEF Libera, Abstracto!Next, Abstracto!Acaba
<1> QED
  BY <1>2, <1>3, <1>4, <1>5, <1>6, <1>7, <1>8 DEF Paso, DelHijo

\* The steps of the others, and the file, are stutters.
LEMMA PasoAjeno ==
  ASSUME IInv, NEW p \in Lanzadores, NEW q \in Lanzadores, q # p,
         Paso(q) \/ RecibeUsr2(q) \/ Acepta(q) \/ DelHijo(q)
  PROVE  UNCHANGED Abstracto(p)!vars
<1>1. /\ pc \in [Lanzadores -> EnBucle \cup {"arranque", "muerto"}]
      /\ hijo \in [Lanzadores -> {"no", "creado", "cgi", "cerrado", "dejo", "muerto"}]
  BY DEF IInv, TypeOK
<1>2. pc'[p] = pc[p]
  BY <1>1 DEF Va, Paso, PoneSenales, RecargaBaja, RecargaLee, RecargaFin, EntradaMal, EntradaBien, CuentaUno,
     RechazaDuro, RechazaBlando, Admite, RecibeUsr2, Acepta, DelHijo, HijoMarca, HijoAcaba, HijoCierra,
     NietoAcaba, Fork, ForkFalla, FinDeSalida, Espera,
     Libera
<1>3. hijo'[p] = hijo[p]
  BY <1>1 DEF Paso, PoneSenales, RecargaBaja, RecargaLee, RecargaFin, EntradaMal, EntradaBien, CuentaUno,
     RechazaDuro, RechazaBlando, Admite, RecibeUsr2, Acepta, DelHijo, HijoMarca, HijoAcaba, HijoCierra,
     NietoAcaba, Fork, ForkFalla, FinDeSalida, Espera,
     Libera
<1> QED
  BY <1>2, <1>3, Balbuceo DEF faseDe, hijaDe

\* For any number of launchers: each has one child at most, and goes on to the
\* next request only when that child has ended and wait has collected it, just
\* as piped_child does in Comando.
THEOREM Implementa == ASSUME NEW p \in Lanzadores PROVE Spec => Abstracto(p)!Spec
<1>1. Init => Abstracto(p)!Init
  BY DEF Init, Abstracto!Init, faseDe, hijaDe
<1>2. IInv /\ [Next]_vars => [Abstracto(p)!Next]_(Abstracto(p)!vars)
  <2> SUFFICES ASSUME IInv, [Next]_vars
               PROVE  Abstracto(p)!Next \/ UNCHANGED Abstracto(p)!vars
    OBVIOUS
  <2>1. CASE CambiaFichero \/ PropagaRefresco \/ UNCHANGED vars
    BY <2>1, Balbuceo DEF CambiaFichero, PropagaRefresco, vars, faseDe, hijaDe
  <2> QED BY <2>1, PasoPropio, PasoAjeno DEF Next
<1> QED
  BY <1>1, <1>2, IInvInvariante, PTL DEF Spec, Abstracto!Spec

-----------------------------------------------------------------------------
(* Every request comes to its end: the safety half of OcupadoSeLibera. *)

\* How many turns of the main loop are left to a launcher, and how many steps to
\* its child.
Rango(l) ==
  CASE l = "recarga" -> 10 [] l = "parsea" -> 9 [] l = "aplica" -> 8 [] l = "lee" -> 7
    [] l = "cuenta" -> 6 [] l = "decide" -> 5 [] l = "fork" -> 4 [] l = "tubos" -> 3
    [] l = "espera" -> 2 [] l = "libera" -> 1 [] OTHER -> 0
RangoHijo(h) ==
  CASE h = "creado" -> 3 [] h = "cgi" -> 2 [] h \in {"cerrado", "dejo"} -> 1 [] OTHER -> 0

\* A step that brings launcher p nearer to its next accept: it goes on in the
\* loop, it counts one record more and there are more, or its child does.
Acerca(p) ==
  \/ Rango(pc'[p]) < Rango(pc[p])
  \/ pc'[p] = pc[p] /\ pc[p] = "cuenta" /\ i'[p] = i[p] + 1 /\ i[p] < MaxProcesos
  \/ pc'[p] = pc[p] /\ pc[p] \in {"tubos", "espera"} /\ RangoHijo(hijo'[p]) < RangoHijo(hijo[p])
Quieto(p) == pc'[p] = pc[p] /\ i'[p] = i[p] /\ hijo'[p] = hijo[p]

\* The pipes are written and read with a child, or what it left, at the other end,
\* and wait is called with a child that has closed them.
EsperaAHijo ==
  \A p \in Lanzadores :
    /\ pc[p] = "tubos" => hijo[p] # "no"
    /\ pc[p] = "espera" => hijo[p] \in {"cerrado", "muerto"}

\* A launcher's own step, or its child's, takes it nearer.
LEMMA AcercaPropio ==
  ASSUME IInv, NEW p \in Lanzadores, pc[p] \in EnBucle \ {"acepta"},
         Paso(p) \/ RecibeUsr2(p) \/ Acepta(p) \/ DelHijo(p)
  PROVE  Acerca(p) \/ Quieto(p)
<1> USE DEF Va, recarga, cuenta, Acerca, Quieto
<1>1. /\ pc \in [Lanzadores -> EnBucle \cup {"arranque", "muerto"}]
      /\ i \in [Lanzadores -> Registros]
      /\ hijo \in [Lanzadores -> {"no", "creado", "cgi", "cerrado", "dejo", "muerto"}]
      /\ hijo[p] # "no" => pc[p] \in {"tubos", "espera"}
      /\ pc[p] = "cuenta" => i[p] <= MaxProcesos
      /\ i[p] \in Int /\ MaxProcesos \in Int
  BY LanzadorAssumption DEF IInv, TypeOK, InvHijo, InvSuma, Registros
<1>2. CASE RecargaBaja(p) \/ RecargaLee(p) \/ RecargaFin(p) \/ EntradaMal(p) \/ Admite(p)
           \/ RechazaDuro(p) \/ RechazaBlando(p)
  <2>1. Rango(pc'[p]) < Rango(pc[p])
    BY <1>1, <1>2 DEF RecargaBaja, RecargaLee, RecargaFin, EntradaMal, Admite, RechazaDuro, RechazaBlando,
       Rango
  <2> QED BY <2>1
<1>3. CASE EntradaBien(p)
  <2>1. pc[p] = "lee" /\ pc'[p] \in {"cuenta", "fork"}
    BY <1>1, <1>3 DEF EntradaBien
  <2> QED BY <2>1 DEF Rango
<1>4. CASE CuentaUno(p)
  <2>1. \/ pc[p] = "cuenta" /\ pc'[p] = "decide"
        \/ pc' = pc /\ pc[p] = "cuenta" /\ i'[p] = i[p] + 1 /\ i[p] # MaxProcesos
    BY <1>1, <1>4 DEF CuentaUno, Lee
  <2> QED BY <1>1, <2>1 DEF Rango
<1>5. CASE Fork(p) \/ ForkFalla(p) \/ FinDeSalida(p) \/ Espera(p) \/ Libera(p)
  <2>1. \/ pc[p] = "fork" /\ pc'[p] \in {"tubos", "libera"}
        \/ pc[p] = "tubos" /\ pc'[p] = "espera"
        \/ pc[p] = "espera" /\ pc'[p] = "libera"
        \/ pc[p] = "libera" /\ pc'[p] = "acepta"
    BY <1>1, <1>5 DEF Fork, ForkFalla, FinDeSalida, Espera, Libera
  <2> QED BY <2>1 DEF Rango
<1>6. CASE DelHijo(p)
  <2>1. pc' = pc /\ pc[p] \in {"tubos", "espera"}
    BY <1>1, <1>6 DEF DelHijo, HijoMarca, HijoAcaba, HijoCierra, NietoAcaba
  <2>2. \/ hijo[p] = "creado" /\ hijo'[p] \in {"cgi", "muerto"}
        \/ hijo[p] = "cgi" /\ hijo'[p] \in {"cerrado", "dejo", "muerto"}
        \/ hijo[p] \in {"cerrado", "dejo"} /\ hijo'[p] = "muerto"
    BY <1>1, <1>6 DEF DelHijo, HijoMarca, HijoAcaba, HijoCierra, NietoAcaba
  <2>3. RangoHijo(hijo'[p]) < RangoHijo(hijo[p])
    BY <2>2 DEF RangoHijo
  <2> QED BY <2>1, <2>3
<1>7. CASE RecibeUsr2(p)
  BY <1>7 DEF RecibeUsr2, EnBucle
<1>8. ~PoneSenales(p) /\ ~Acepta(p)
  BY DEF PoneSenales, Acepta, EnBucle
<1> QED BY <1>2, <1>3, <1>4, <1>5, <1>6, <1>7, <1>8 DEF Paso

\* The steps of the others leave it where it is.
LEMMA QuietoAjeno ==
  ASSUME IInv, NEW p \in Lanzadores, NEW q \in Lanzadores, q # p,
         Paso(q) \/ RecibeUsr2(q) \/ Acepta(q) \/ DelHijo(q)
  PROVE  Quieto(p)
<1>1. /\ pc \in [Lanzadores -> EnBucle \cup {"arranque", "muerto"}]
      /\ hijo \in [Lanzadores -> {"no", "creado", "cgi", "cerrado", "dejo", "muerto"}]
      /\ i \in [Lanzadores -> Registros]
  BY DEF IInv, TypeOK
<1>2. pc'[p] = pc[p]
  BY <1>1 DEF Va, Paso, PoneSenales, RecargaBaja, RecargaLee, RecargaFin, EntradaMal, EntradaBien, CuentaUno,
     RechazaDuro, RechazaBlando, Admite, RecibeUsr2, Acepta, DelHijo, HijoMarca, HijoAcaba, HijoCierra,
     NietoAcaba, Fork, ForkFalla, FinDeSalida, Espera,
     Libera
<1>3. hijo'[p] = hijo[p]
  BY <1>1 DEF Paso, PoneSenales, RecargaBaja, RecargaLee, RecargaFin, EntradaMal, EntradaBien, CuentaUno,
     RechazaDuro, RechazaBlando, Admite, RecibeUsr2, Acepta, DelHijo, HijoMarca, HijoAcaba, HijoCierra,
     NietoAcaba, Fork, ForkFalla, FinDeSalida, Espera,
     Libera
<1>4. i'[p] = i[p]
  BY <1>1 DEF Lee, Olvida, cuenta, Paso, PoneSenales, RecargaBaja, RecargaLee, RecargaFin, EntradaMal,
     EntradaBien, CuentaUno, RechazaDuro, RechazaBlando, Admite, RecibeUsr2, Acepta, DelHijo, HijoMarca,
     HijoAcaba, HijoCierra, NietoAcaba,
     Fork, ForkFalla, FinDeSalida, Espera, Libera
<1> QED BY <1>2, <1>3, <1>4 DEF Quieto

\* Nobody reads, or calls wait, without a child.
LEMMA EsperaPaso == IInv /\ EsperaAHijo /\ [Next]_vars => EsperaAHijo'
<1> DEFINE Bien(l, h) == (l = "tubos" => h # "no") /\ (l = "espera" => h \in {"cerrado", "muerto"})
<1> SUFFICES ASSUME IInv, EsperaAHijo, [Next]_vars, NEW p \in Lanzadores
             PROVE  Bien(pc'[p], hijo'[p])
  BY DEF EsperaAHijo
<1>1. /\ pc \in [Lanzadores -> EnBucle \cup {"arranque", "muerto"}]
      /\ hijo \in [Lanzadores -> {"no", "creado", "cgi", "cerrado", "dejo", "muerto"}]
      /\ Bien(pc[p], hijo[p])
  BY DEF IInv, TypeOK, EsperaAHijo
<1>2. CASE CambiaFichero \/ PropagaRefresco \/ UNCHANGED vars
  BY <1>1, <1>2 DEF CambiaFichero, PropagaRefresco, vars
<1>3. ASSUME NEW q \in Lanzadores, q # p,
             Paso(q) \/ RecibeUsr2(q) \/ Acepta(q) \/ DelHijo(q)
      PROVE  Bien(pc'[p], hijo'[p])
  BY <1>1, <1>3, QuietoAjeno DEF Quieto
<1>4. CASE Fork(p) \/ FinDeSalida(p) \/ DelHijo(p)
  BY <1>1, <1>4 DEF Va, Fork, FinDeSalida, DelHijo, HijoMarca, HijoAcaba, HijoCierra, NietoAcaba
<1>5. CASE RecibeUsr2(p)
  BY <1>1, <1>5 DEF RecibeUsr2, Va
<1>6. CASE Acepta(p) \/ (Paso(p) /\ ~Fork(p) /\ ~FinDeSalida(p))
  <2>1. pc'[p] \notin {"tubos", "espera"}
    BY <1>1, <1>6 DEF Va, Acepta, Paso, PoneSenales, RecargaBaja, RecargaLee, RecargaFin, EntradaMal,
       EntradaBien, CuentaUno, RechazaDuro, RechazaBlando, Admite, ForkFalla, Espera, Libera
  <2> QED BY <2>1
<1> QED BY <1>2, <1>3, <1>4, <1>5, <1>6 DEF Next, Paso

\* From accept to the next accept the main loop only goes forward, whatever the
\* other launchers, their children and the reloads do: each step of a launcher,
\* of its child or of what the child left brings it nearer, nobody's step takes
\* it back, and what it waits for is there: a child, or what it left, that holds
\* the pipes, and then a child that has closed them.
THEOREM PeticionAvanza ==
  Spec => /\ []EsperaAHijo
          /\ [][\A p \in Lanzadores : pc[p] \in EnBucle \ {"acepta"} => Acerca(p) \/ Quieto(p)]_vars
<1>1. Init => EsperaAHijo
  BY DEF Init, EsperaAHijo
<1>2. ASSUME IInv, [Next]_vars, NEW p \in Lanzadores, pc[p] \in EnBucle \ {"acepta"}
      PROVE  Acerca(p) \/ Quieto(p)
  <2>1. CASE CambiaFichero \/ PropagaRefresco \/ UNCHANGED vars
    BY <2>1 DEF CambiaFichero, PropagaRefresco, vars, cuenta, Quieto
  <2> QED BY <1>2, <2>1, AcercaPropio, QuietoAjeno DEF Next
<1>3. IInv /\ [Next]_vars =>
        [\A p \in Lanzadores : pc[p] \in EnBucle \ {"acepta"} => Acerca(p) \/ Quieto(p)]_vars
  BY <1>2
<1> QED BY <1>1, <1>3, EsperaPaso, IInvInvariante, PTL DEF Spec
=============================================================================
