SPECIFICATION Spec
CONSTANTS
  NSalida = 6
  Nulos = {3}
  Tipos = {1, 2}
  Lineas = {1, 3}
  MaxRestos = 1
  LeeLen = 3
  BuffLen = 3
  MaxErr = 1
  MaxPeticiones = 2
  MaxSenyales = 1
CHECK_DEADLOCK FALSE
INVARIANTS
  OrdenSinError
  MantieneEntera
  SalidaEntregada
PROPERTY
  AcabaSiempre
