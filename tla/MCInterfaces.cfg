SPECIFICATION Spec
CONSTANTS
  i1 = i1
  i2 = i2
  basura = basura
  Programas <- MCDos
  Tipo <- MCTipo
  Basura <- basura
INVARIANTS
  TypeOK
  RegistroPropio
PROPERTY CierreAjenoSoloPorReuso
CHECK_DEADLOCK FALSE
