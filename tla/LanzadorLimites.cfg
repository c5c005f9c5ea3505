SPECIFICATION Spec
CONSTANTS
  l1 = l1
  l2 = l2
  l3 = l3
  l4 = l4
  Lanzadores = {l1, l2, l3, l4}
  MaxProcesos = 4
  Pos <- Pos4
  NumRegistrados = {4}
  MaxBusyProcess = 1
  MaxSoftBusyProcess = 0
  Ventana = 2
  MaxRecargas = 0
INVARIANT LimiteDuro
INVARIANT LimiteBlando
