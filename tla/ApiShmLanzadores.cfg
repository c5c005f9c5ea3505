SPECIFICATION Spec
CONSTANTS
  l1 = l1
  l2 = l2
  l3 = l3
  s1 = s1
  Lanzadores = {l1, l2, l3}
  Supervisores = {}
  MaxProcesos = 1
  SinPid = SinPid
  Nadie = Nadie
  Matables = {l1, l2, l3}
  Terminables = {l1, l2, l3}
  TimeOutKill = FALSE
  ApacheCae = FALSE
SYMMETRY Simetria
CHECK_DEADLOCK FALSE
INVARIANT TypeOK
INVARIANT RegistroPropio
PROPERTY ImplementaRegistro
