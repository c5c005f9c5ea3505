--------------------------- MODULE ComandoProofs ---------------------------
(* The proofs that piped_child preserves IInv, that nobody waits in it       *)
(* without the alarm and that it implements Ejecuta, for any number of       *)
(* requests, any input, any capacity of the pipes and any CGI program.       *)
EXTENDS Comando, TLAPS

\* Before the first request the invariant holds.
LEMMA InvInicial == Init => IInv
<1> SUFFICES ASSUME Init PROVE IInv
  OBVIOUS
<1> USE ComandoAssumption DEF Init, PCs, Sirve, Recogido, Contadores
<1>1. TypeOK
  <2>1. /\ pc \in PCs /\ n \in Nat /\ alarma \in Nat
        /\ pidComando \in {-1, 0, n} \/ (pc \in {"maneja", "arma"} /\ pidComando = n - 1)
    OBVIOUS
  <2>2. /\ falta \in 0..MaxEntrada /\ entra \in 0..Capacidad /\ sale \in 0..Capacidad
        /\ hijo \in {"no", "corre", "zombi", "recogido"}
        /\ causa \in {"nada", "fork", "ok", "matado", "otro", "alarma"}
        /\ stat \in {"0", "9", "otro"}
    OBVIOUS
  <2>3. /\ manejador \in BOOLEAN /\ extremo \in BOOLEAN /\ nieto \in BOOLEAN /\ suyos \subseteq Extremos
        /\ vencida \in BOOLEAN
        /\ status \in Contadores /\ cont \in [Contadores -> Nat]
    OBVIOUS
  <2> QED BY <2>1, <2>2, <2>3 DEF TypeOK
<1>2. AlarmaDeSuPeticion /\ InvManejador
  BY DEF AlarmaDeSuPeticion, InvManejador
<1>3. InvHijo /\ InvStat /\ InvPid
  BY DEF InvHijo, InvStat, InvPid
<1> QED BY <1>1, <1>2, <1>3 DEF IInv

\* It says nothing of the ends of the pipes but their type.
LEMMA InvCierra ==
  ASSUME IInv, suyos' \subseteq Extremos,
         UNCHANGED <<pc, n, padre, tubos, hijo, nieto, causa, veredicto>>
  PROVE  IInv'
<1> USE DEF padre, tubos, veredicto
<1>1. TypeOK'
  BY DEF IInv, TypeOK
<1>2. AlarmaDeSuPeticion' /\ InvManejador' /\ InvStat' /\ InvPid'
  BY DEF IInv, AlarmaDeSuPeticion, InvManejador, InvStat, InvPid
<1>3. InvHijo'
  BY DEF IInv, InvHijo
<1> QED BY <1>1, <1>2, <1>3 DEF IInv

\* Every step preserves it.
LEMMA InvPaso == IInv /\ [Next]_vars => IInv'
<1> SUFFICES ASSUME IInv, [Next]_vars PROVE IInv'
  OBVIOUS
<1> USE ComandoAssumption
    DEF IInv, TypeOK, AlarmaDeSuPeticion, InvManejador, InvHijo, InvStat, InvPid, PCs,
        Sirve, Recogido, Contadores, Extremos, Avanza, padre, tubos, proceso, veredicto
<1>1. CASE Fork
  <2>1. TypeOK'
    <3>1. /\ pc' \in PCs /\ n' \in Nat /\ alarma' \in Nat
          /\ pidComando' \in {-1, 0, n'} \/ (pc' \in {"maneja", "arma"} /\ pidComando' = n' - 1)
      BY <1>1 DEF Fork
    <3>2. /\ falta' \in 0..MaxEntrada /\ entra' \in 0..Capacidad /\ sale' \in 0..Capacidad
          /\ hijo' \in {"no", "corre", "zombi", "recogido"}
          /\ causa' \in {"nada", "fork", "ok", "matado", "otro", "alarma"}
          /\ stat' \in {"0", "9", "otro"}
      BY <1>1 DEF Fork
    <3>3. /\ manejador' \in BOOLEAN /\ extremo' \in BOOLEAN /\ nieto' \in BOOLEAN /\ suyos' \subseteq Extremos
          /\ vencida' \in BOOLEAN
          /\ status' \in Contadores /\ cont' \in [Contadores -> Nat]
      BY <1>1 DEF Fork
    <3> QED BY <3>1, <3>2, <3>3 DEF TypeOK
  <2>2. AlarmaDeSuPeticion' /\ InvManejador'
    BY <1>1 DEF Fork
  <2>3. InvHijo'
    BY <1>1 DEF Fork
  <2>4. InvStat'
    BY <1>1 DEF Fork
  <2>5. InvPid'
    BY <1>1 DEF Fork
  <2> QED BY <2>1, <2>2, <2>3, <2>4, <2>5
<1>2. CASE PoneManejador
  BY <1>2 DEF PoneManejador
<1>3. CASE Arma
  BY <1>3 DEF Arma
<1>4. CASE Escribe
  BY <1>4 DEF Escribe
<1>5. CASE CierraEntrada
  BY <1>5 DEF CierraEntrada
<1>6. CASE Lee
  BY <1>6 DEF Lee
<1>7. CASE FinDeSalida
  BY <1>7 DEF FinDeSalida
<1>8. CASE Espera
  BY <1>8 DEF Espera, Estado
<1>9. CASE Desarma
  BY <1>9 DEF Desarma
<1>10. CASE QuitaManejador
  <2>1. TypeOK'
    <3>1. /\ pc' \in PCs /\ n' \in Nat /\ alarma' \in Nat
          /\ pidComando' \in {-1, 0, n'}
      BY <1>10 DEF QuitaManejador
    <3>2. /\ falta' \in 0..MaxEntrada /\ entra' \in 0..Capacidad /\ sale' \in 0..Capacidad
          /\ hijo' \in {"no", "corre", "zombi", "recogido"}
          /\ causa' \in {"nada", "fork", "ok", "matado", "otro", "alarma"}
          /\ stat' \in {"0", "9", "otro"}
      BY <1>10 DEF QuitaManejador
    <3>3. /\ manejador' \in BOOLEAN /\ extremo' \in BOOLEAN /\ nieto' \in BOOLEAN /\ suyos' \subseteq Extremos
          /\ vencida' \in BOOLEAN
          /\ status' \in Contadores /\ cont' \in [Contadores -> Nat]
      BY <1>10 DEF QuitaManejador
    <3> QED BY <3>1, <3>2, <3>3 DEF TypeOK
  <2>2. AlarmaDeSuPeticion' /\ InvManejador'
    BY <1>10 DEF QuitaManejador
  <2>3. InvHijo'
    BY <1>10 DEF QuitaManejador
  <2>4. InvStat'
    BY <1>10 DEF QuitaManejador
  <2>5. InvPid'
    BY <1>10 DEF QuitaManejador
  <2> QED BY <2>1, <2>2, <2>3, <2>4, <2>5
<1>11. CASE Clasifica
  BY <1>11 DEF Clasifica, Cuenta
<1>12. CASE Alarma
  BY <1>12 DEF Alarma, TrasAlarma
<1>13. CASE HijoLee
  BY <1>13 DEF HijoLee
<1>14. CASE HijoEscribe
  BY <1>14 DEF HijoEscribe
<1>15. CASE HijoAcaba
  BY <1>15 DEF HijoAcaba
<1>16. CASE CreaNieto
  BY <1>16 DEF CreaNieto
<1>17. CASE NietoAcaba
  <2>1. TypeOK'
    <3>1. /\ pc' \in PCs /\ n' \in Nat /\ alarma' \in Nat
          /\ pidComando' \in {-1, 0, n'} \/ (pc' \in {"maneja", "arma"} /\ pidComando' = n' - 1)
      BY <1>17 DEF NietoAcaba
    <3>2. /\ falta' \in 0..MaxEntrada /\ entra' \in 0..Capacidad /\ sale' \in 0..Capacidad
          /\ hijo' \in {"no", "corre", "zombi", "recogido"}
          /\ causa' \in {"nada", "fork", "ok", "matado", "otro", "alarma"}
          /\ stat' \in {"0", "9", "otro"}
      BY <1>17 DEF NietoAcaba
    <3>3. /\ manejador' \in BOOLEAN /\ extremo' \in BOOLEAN /\ nieto' \in BOOLEAN /\ suyos' \subseteq Extremos
          /\ vencida' \in BOOLEAN
          /\ status' \in Contadores /\ cont' \in [Contadores -> Nat]
      BY <1>17 DEF NietoAcaba
    <3> QED BY <3>1, <3>2, <3>3 DEF TypeOK
  <2>2. AlarmaDeSuPeticion' /\ InvManejador'
    BY <1>17 DEF NietoAcaba
  <2>3. InvHijo'
    BY <1>17 DEF NietoAcaba
  <2>4. InvStat'
    BY <1>17 DEF NietoAcaba
  <2>5. InvPid'
    BY <1>17 DEF NietoAcaba
  <2> QED BY <2>1, <2>2, <2>3, <2>4, <2>5
<1>18. CASE HijoCierra
  <2>1. suyos' \subseteq Extremos /\ UNCHANGED <<pc, n, padre, tubos, hijo, nieto, causa, veredicto>>
    BY <1>18 DEF HijoCierra
  <2> QED BY <2>1, InvCierra
<1>19. CASE UNCHANGED vars
  BY <1>19 DEF vars
<1> QED
  BY <1>1, <1>2, <1>3, <1>4, <1>5, <1>6, <1>7, <1>8, <1>9, <1>10, <1>11,
     <1>12, <1>13, <1>14, <1>15, <1>16, <1>17, <1>18, <1>19
     DEF Next, Padre, Hijo

\* IInv holds for ever.
THEOREM IInvInvariante == Spec => []IInv
BY InvInicial, InvPaso, PTL DEF Spec

\* The variables have their types and the launcher never dies of its alarm.
THEOREM Tipos == Spec => []TypeOK
BY IInvInvariante, PTL DEF IInv

\* A timer runs only in the request that set it, against that request's child.
THEOREM Alarmas == Spec => []AlarmaDeSuPeticion
BY IInvInvariante, PTL DEF IInv

\* The verdict of a request says what happened to its child.
THEOREM Veredictos == Spec => VeredictoVeraz
<1>1. ASSUME IInv, [Next]_vars, pc = "clasifica", pc' = "listo", causa # "fork"
      PROVE  /\ causa = "alarma" => Contada("TIMEOUT")
             /\ Contada("TIMEOUT") => vencida
             /\ Contada("ERRORGEN") => causa = "matado" /\ ~vencida
             /\ Contada("OK") => causa = "ok"
  <2>1. Clasifica
    BY <1>1 DEF Next, Padre, Hijo, vars, Avanza, Fork, PoneManejador, Arma, Escribe,
       CierraEntrada, Lee, FinDeSalida, Espera, Desarma, QuitaManejador, Alarma, TrasAlarma, HijoLee,
       HijoEscribe, HijoCierra, HijoAcaba, CreaNieto, NietoAcaba
  <2>2. stat = Estado(causa) /\ pidComando = IF vencida THEN 0 ELSE n
    BY <1>1 DEF IInv, InvStat, InvPid, Recogido, Sirve, PCs
  <2>3. causa \in {"ok", "matado", "otro", "alarma"} /\ n # 0 /\ (causa = "alarma" => vencida)
    BY <1>1 DEF IInv, TypeOK, InvHijo, InvPid, Recogido
  <2>4. cont \in [Contadores -> Nat]
    BY <1>1 DEF IInv, TypeOK
  <2> QED BY <2>1, <2>2, <2>3, <2>4 DEF Clasifica, Cuenta, Contada, Estado, Contadores, veredicto
<1>2. IInv /\ [Next]_vars =>
        [pc = "clasifica" /\ pc' = "listo" /\ causa # "fork" =>
           /\ causa = "alarma" => Contada("TIMEOUT")
           /\ Contada("TIMEOUT") => vencida
           /\ Contada("ERRORGEN") => causa = "matado" /\ ~vencida
           /\ Contada("OK") => causa = "ok"]_vars
  BY <1>1
<1> QED BY <1>2, IInvInvariante, PTL DEF Spec, VeredictoVeraz

-----------------------------------------------------------------------------
(* What ends every wait of the parent: the safety half of TerminaSinNietos. *)

\* The parent is inside a call that does not return: write on a full pipe that
\* somebody may still read, read of an empty pipe that somebody may still
\* write, wait for a child that runs.
Detenido ==
  \/ pc = "escribe" /\ falta > 0 /\ HayLector /\ entra >= Capacidad
  \/ pc = "lee" /\ sale = 0 /\ HayEscritor
  \/ pc = "espera" /\ hijo \notin {"zombi", "no"}

\* A child that runs while the parent is in those calls has its timer running,
\* and the parent's own copy of the output is closed before them.
InvDetenido ==
  /\ hijo = "corre" /\ pc \in {"escribe", "lee", "espera"} => alarma # 0
  /\ extremo => pc \in {"maneja", "arma"}

\* Every step preserves that: the alarm goes off only by killing the child.
LEMMA DetenidoPaso == IInv /\ InvDetenido /\ [Next]_vars => InvDetenido'
<1> SUFFICES ASSUME IInv, InvDetenido, [Next]_vars PROVE InvDetenido'
  OBVIOUS
<1> USE DEF InvDetenido, Avanza, padre, tubos, proceso, veredicto
<1>1. CASE Fork \/ PoneManejador
  BY <1>1 DEF Fork, PoneManejador
<1>2. CASE Arma
  <2>1. n # 0 /\ n \in Nat
    BY <1>2 DEF IInv, TypeOK, InvHijo, Arma
  <2> QED BY <1>2, <2>1 DEF Arma
<1>3. CASE Escribe \/ CierraEntrada \/ Lee \/ FinDeSalida
  BY <1>3 DEF Escribe, CierraEntrada, Lee, FinDeSalida
<1>4. CASE Espera \/ Desarma \/ QuitaManejador \/ Clasifica
  BY <1>4 DEF Espera, Desarma, QuitaManejador, Clasifica
<1>5. CASE Alarma
  <2>1. /\ manejador
        /\ pc \in {"escribe", "lee", "espera", "desarma"}
        /\ hijo = "corre" => pidComando = n
    BY <1>5 DEF Alarma, IInv, AlarmaDeSuPeticion, InvHijo
  <2>2. hijo' # "corre"
    <3>1. CASE hijo = "corre"
      BY <1>5, <2>1, <3>1 DEF Alarma
    <3>2. CASE hijo # "corre"
      BY <1>5, <3>2 DEF Alarma
    <3> QED BY <3>1, <3>2
  <2>3. ~extremo /\ extremo' = extremo
    BY <1>5, <2>1 DEF Alarma
  <2> QED BY <2>2, <2>3
<1>6. CASE HijoLee \/ HijoEscribe \/ HijoCierra \/ HijoAcaba \/ CreaNieto \/ NietoAcaba
  BY <1>6 DEF HijoLee, HijoEscribe, HijoCierra, HijoAcaba, CreaNieto, NietoAcaba
<1>7. CASE UNCHANGED vars
  BY <1>7 DEF vars
<1> QED
  BY <1>1, <1>2, <1>3, <1>4, <1>5, <1>6, <1>7 DEF Next, Padre, Hijo

\* The parent is never inside a call that does not return without the timer of
\* this very request running against this very child, or a process the program
\* left behind with the pipes open: the two full pipes, the silent child and the
\* child that does not end are all cut by the alarm (piped_child).
THEOREM NadieEsperaSinAlarma ==
  Spec => [](Detenido => nieto \/ (alarma = n /\ n # 0 /\ manejador /\ hijo = "corre" /\ pidComando = n))
<1>1. Init => InvDetenido
  BY DEF Init, InvDetenido
<1>2. IInv /\ InvDetenido =>
        (Detenido => nieto \/ (alarma = n /\ n # 0 /\ manejador /\ hijo = "corre" /\ pidComando = n))
  <2> SUFFICES ASSUME IInv, InvDetenido, Detenido, ~nieto
               PROVE  alarma = n /\ n # 0 /\ manejador /\ hijo = "corre" /\ pidComando = n
    OBVIOUS
  <2>1. hijo = "corre" /\ pc \in {"escribe", "lee", "espera"}
    BY DEF Detenido, HayLector, HayEscritor, InvDetenido, IInv, InvHijo, Recogido
  <2>2. alarma # 0 /\ causa # "fork"
    BY <2>1 DEF InvDetenido, IInv, InvHijo
  <2> QED BY <2>1, <2>2 DEF IInv, AlarmaDeSuPeticion
<1> QED BY <1>1, <1>2, DetenidoPaso, IInvInvariante, PTL DEF Spec

-----------------------------------------------------------------------------
(* piped_child implements Ejecuta. *)

\* The call and the child, as Ejecuta sees them.
faseActual ==
  CASE pc = "listo" -> "fuera"
    [] pc # "listo" /\ (pc \in Recogido \/ causa = "fork") -> "fin"
    [] OTHER -> "dentro"
hijaActual == CASE hijo = "corre" -> "viva" [] hijo = "zombi" -> "muerta" [] OTHER -> "no"

Abstracto == INSTANCE Ejecuta WITH fase <- faseActual, hija <- hijaActual

\* What keeps the call and the child as they are is a stutter.
LEMMA Balbuceo ==
  ASSUME faseActual' = faseActual, hijaActual' = hijaActual
  PROVE  UNCHANGED Abstracto!vars
BY DEF Abstracto!vars

\* Every step of piped_child, of its alarm and of the CGI program is a step of
\* Ejecuta or stutters.
LEMMA PasoImplementa == IInv /\ [Next]_vars => [Abstracto!Next]_(Abstracto!vars)
<1> SUFFICES ASSUME IInv, [Next]_vars
             PROVE  Abstracto!Next \/ UNCHANGED Abstracto!vars
  OBVIOUS
<1> USE DEF padre, tubos, proceso, veredicto, Avanza, faseActual, hijaActual, Recogido
<1>1. /\ pc \in PCs
      /\ hijo \in IF pc \in Recogido THEN {"no", "recogido"} ELSE {"no", "corre", "zombi"}
      /\ hijo = "no" => causa = "fork" \/ pc = "listo"
      /\ causa = "fork" => hijo = "no"
      /\ alarma # 0 => manejador /\ pc \in {"escribe", "lee", "espera", "desarma"}
  BY DEF IInv, TypeOK, InvHijo, AlarmaDeSuPeticion
<1>2. CASE Fork
  <2>1. pc = "listo" /\ pc' = "maneja" /\ hijaActual = "no"
    BY <1>1, <1>2 DEF Fork
  <2>2. CASE hijo' = "corre" /\ causa' = "nada"
    BY <2>1, <2>2 DEF Abstracto!Next, Abstracto!Crea
  <2>3. CASE hijo' = "no" /\ causa' = "fork"
    BY <2>1, <2>3 DEF Abstracto!Next, Abstracto!NoCrea
  <2> QED BY <1>2, <2>2, <2>3 DEF Fork
<1>3. CASE PoneManejador \/ Arma \/ Escribe \/ CierraEntrada \/ Lee \/ FinDeSalida \/ Desarma
           \/ QuitaManejador
  <2>1. hijaActual' = hijaActual
    BY <1>3 DEF PoneManejador, Arma, Escribe, CierraEntrada, Lee, FinDeSalida, Desarma, QuitaManejador
  <2>2. faseActual' = faseActual
    BY <1>1, <1>3 DEF PoneManejador, Arma, Escribe, CierraEntrada, Lee, FinDeSalida, Desarma, QuitaManejador, PCs
  <2> QED BY <2>1, <2>2, Balbuceo
<1>4. CASE Espera
  <2>1. pc = "espera" /\ pc' = "desarma" /\ causa' = causa /\ faseActual' = "fin"
    BY <1>4 DEF Espera
  <2>2. CASE hijo = "zombi" /\ hijo' = "recogido"
    <3>1. faseActual = "dentro"
      BY <1>1, <2>1, <2>2
    <3> QED BY <2>1, <2>2, <3>1 DEF Abstracto!Next, Abstracto!Recoge
  <2>3. CASE hijo = "no" /\ hijo' = hijo
    <3>1. faseActual = "fin" /\ hijaActual' = hijaActual
      BY <1>1, <2>1, <2>3
    <3> QED BY <2>1, <3>1, Balbuceo
  <2> QED BY <1>4, <2>2, <2>3 DEF Espera
<1>5. CASE Clasifica
  <2>1. faseActual = "fin" /\ hijaActual = "no" /\ faseActual' = "fuera" /\ hijaActual' = hijaActual
    BY <1>1, <1>5 DEF Clasifica
  <2> QED BY <2>1 DEF Abstracto!Next, Abstracto!Acaba
<1>6. CASE Alarma
  <2>1. pc # "listo" /\ pc' # "listo" /\ (pc' \in Recogido <=> pc \in Recogido)
    BY <1>1, <1>6 DEF Alarma, TrasAlarma
  <2>2. CASE UNCHANGED <<hijo, causa>>
    BY <2>1, <2>2, Balbuceo
  <2>3. CASE hijo = "corre" /\ hijo' = "zombi" /\ causa' = "alarma"
    BY <1>1, <2>1, <2>3 DEF Abstracto!Next, Abstracto!Muere
  <2> QED BY <1>6, <2>2, <2>3 DEF Alarma
<1>7. CASE HijoAcaba
  <2>1. hijo = "corre" /\ hijo' = "zombi" /\ causa' # "fork" /\ pc' = pc
    BY <1>7 DEF HijoAcaba
  <2> QED BY <1>1, <2>1 DEF Abstracto!Next, Abstracto!Muere
<1>8. CASE HijoLee \/ HijoEscribe \/ HijoCierra \/ CreaNieto \/ NietoAcaba \/ UNCHANGED vars
  BY <1>8, Balbuceo DEF HijoLee, HijoEscribe, HijoCierra, CreaNieto, NietoAcaba, vars
<1> QED
  BY <1>2, <1>3, <1>4, <1>5, <1>6, <1>7, <1>8 DEF Next, Padre, Hijo

\* For any number of requests and any CGI program, the alarm included: a request
\* has one child at most, and is over only when the child has ended and wait has
\* collected it (piped_child).
THEOREM Implementa == Spec => Abstracto!Spec
<1>1. Init => Abstracto!Init
  BY DEF Init, Abstracto!Init, faseActual, hijaActual
<1> QED
  BY <1>1, PasoImplementa, IInvInvariante, PTL DEF Spec, Abstracto!Spec
=============================================================================
