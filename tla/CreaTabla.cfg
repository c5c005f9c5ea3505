SPECIFICATION Spec
CONSTANTS
  a = a
  b = b
  reset = reset
  Lanzadores = {a, b}
  Supervisor = sup
  ResetFecha = reset
  Nadie = nadie
  Instalations = 2
  MaxProcess = 2
  TamHerramienta = 1
  Configuraciones <- MCConfiguraciones
  MaxPercances = 1
INVARIANTS
  SemaforoExacto
  NumSoloPierdePrimeros
  SuCerrojo
PROPERTIES
  LlegaAServir
  BarreUltima
CHECK_DEADLOCK FALSE
