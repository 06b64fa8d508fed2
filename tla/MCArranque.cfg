SPECIFICATION FairSpec
CONSTANTS
  i1 = i1
  i2 = i2
  Interfaces <- MCInterfaces
INVARIANTS
  TypeOK
  AtencionPorLlegada
  ConectadosAntesDeServir
PROPERTIES
  KernelArranca
  UnaInterfazSirve
  TodosAtendidos
CHECK_DEADLOCK FALSE
