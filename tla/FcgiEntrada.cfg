SPECIFICATION Spec
CONSTANTS
  Guiones <- MCGuiones
  MaxConexiones = 2
  MaxSenyales = 1
  HeaderLen = 2
  BeginLen = 2
  ParLen = 2
  BuffLen = 3
INVARIANTS EntregaExacta CompletaOError SoloEsperaValores AceptaUnaMas
PROPERTY AvisoTermina
CHECK_DEADLOCK FALSE
