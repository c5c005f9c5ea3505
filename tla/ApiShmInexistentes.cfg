SPECIFICATION Spec
CONSTANTS
  l1 = l1
  l2 = l2
  l3 = l3
  s1 = s1
  Lanzadores = {l1, l2, l3}
  Supervisores = {s1}
  MaxProcesos = 1
  SinPid = SinPid
  Nadie = Nadie
  Matables = {l1, l2, l3}
  Terminables = {}
  TimeOutKill = FALSE
  ApacheCae = FALSE
PROPERTY SoloBorraInexistentes
