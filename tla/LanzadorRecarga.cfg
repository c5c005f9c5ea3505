SPECIFICATION FairSpec
CONSTANTS
  l1 = l1
  l2 = l2
  l3 = l3
  l4 = l4
  Lanzadores = {l1, l2}
  MaxProcesos = 2
  Pos <- Pos2
  NumRegistrados = {1, 2}
  MaxBusyProcess = 1
  MaxSoftBusyProcess = 1
  Ventana = 2
  MaxRecargas = 1
INVARIANT EstadoVeraz
INVARIANT RecargaNoSePierde
PROPERTY OcupadoSeLibera
