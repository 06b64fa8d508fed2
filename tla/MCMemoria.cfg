SPECIFICATION FairSpec
CONSTANTS
  k = k
  o1 = o1
  o2 = o2
  Clientes <- MCClientes
  Kernels <- MCKernels
  MaxRutas = 1
CONSTRAINT KernelSolo
INVARIANTS
  TypeOK
  RutasEnOrden
  CompartenSoloTrasIda
PROPERTIES
  CierreSoloTrasIda
  RutaLlega
CHECK_DEADLOCK FALSE
