SPECIFICATION FairSpec
CONSTANTS
  l1 = l1
  l2 = l2
  l3 = l3
  s1 = s1
  Lanzadores = {l1, l2}
  Supervisores = {s1}
  MaxProcesos = 1
  SinPid = SinPid
  Nadie = Nadie
  Matables = {l2}
  Terminables = {l1, s1}
  TimeOutKill = TRUE
  ApacheCae = TRUE
CHECK_DEADLOCK FALSE
INVARIANT CerrojoExacto
INVARIANT NumNuncaExcede
PROPERTY ArranqueTermina
PROPERTY LimpiezaCompleta
