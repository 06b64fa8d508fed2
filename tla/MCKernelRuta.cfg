SPECIFICATION Spec
CONSTANTS
  r1 = r1
  r2 = r2
  basura = basura
  Rutas <- MCRutas
  Basura <- basura
  Grados <- MCGrados
  Guion <- MCGuion
  GradoInicial = 2
  MaxProcesos = 2
  MaxPedidos = 1
INVARIANT RutaFiel
CHECK_DEADLOCK FALSE
