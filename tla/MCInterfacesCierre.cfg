SPECIFICATION Spec
CONSTANTS
  i1 = i1
  i2 = i2
  basura = basura
  Programas <- MCDos
  Tipo <- MCTipo
  Basura <- basura
PROPERTY CierraLaCerrada
CHECK_DEADLOCK FALSE
