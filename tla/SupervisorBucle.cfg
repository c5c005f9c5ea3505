\* Three clients on a table with room for two, and one signal.
CONSTANTS
  MAX_OPENED_SOCKETS = 5
  Ajenos = {0, 1}
  Escucha = 2
  Clientes = {c1, c2, c3}
  Nadie = nadie
  MaxSenyales = 1
SPECIFICATION SpecJusto
INVARIANT VigilaTodos
INVARIANT CadaClienteSuSocket
INVARIANT SoloDuermeTrasSenyal
PROPERTY ClienteAtendido
PROPERTY RefrescoAtendido
CHECK_DEADLOCK FALSE
