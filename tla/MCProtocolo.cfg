SPECIFICATION FairSpec
CONSTANTS
  Textos <- MCTextos
  Instrucciones <- MCInstrucciones
  Pids <- MCPids
  Sobras <- MCSobras
  MaxEnvios = 2
INVARIANTS
  TypeOK
  Fiel
  EsperaLoDebido
  DispatchSordo
PROPERTIES
  TodoLlega
  InterruptTermina
CHECK_DEADLOCK FALSE
