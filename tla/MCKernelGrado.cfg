SPECIFICATION Spec
CONSTANTS
  r1 = r1
  r2 = r2
  basura = basura
  Rutas <- MCUnaRuta
  Basura <- basura
  Grados <- MCGrados
  Guion <- MCGuion
  GradoInicial = 2
  MaxProcesos = 5
  MaxPedidos = 1
PROPERTY AdmisionDentroDelGrado
CHECK_DEADLOCK FALSE
