SPECIFICATION SpecC
CONSTANTS
  l1 = l1
  l2 = l2
  s1 = s1
  Lanzadores = {l1, l2}
  Supervisores = {s1}
  MaxProcesos = 1
  SinPid = SinPid
  Matables = {l1}
  Terminables = {}
  TimeOutKill = TRUE
  ApacheCae = FALSE
  MaxPeticiones = 2
  Basura = {7}
  ConReset = TRUE
CHECK_DEADLOCK FALSE
INVARIANT CuentaExacta
INVARIANT HistoricoCuadra
