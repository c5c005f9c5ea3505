SPECIFICATION FairSpec
CONSTANTS
  Peticiones = 3
  MaxEntrada = 3
  Capacidad = 2
  Nietos = TRUE
CHECK_DEADLOCK FALSE
INVARIANT AlarmaDeSuPeticion
PROPERTY VeredictoVeraz
PROPERTY TerminaSinNietos
