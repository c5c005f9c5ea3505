\* Two launchers and their supervisor, one change of the file, and a tool that
\* looks at two installations.
CONSTANTS
  Lanzadores = {l1, l2}
  Textos = {"uno", "dos", "falto", "sangrado"}
  Lineas <- LasLineas
  ConfDefecto <- LosDefectos
  Nodos = {1, 2}
  MaxCambios = 1
  Instalations = 2
  SinFichero = "no"
  SinLeer = "?"
  OtrosTextos = {"uno", "no"}
SPECIFICATION SpecH
INVARIANT UnaTabla
INVARIANT AcuerdoDeLectores
INVARIANT RevisaTodas
PROPERTY CodigoVeraz
CHECK_DEADLOCK FALSE
