SPECIFICATION FairSpec
CONSTANTS
  r1 = r1
  r2 = r2
  basura = basura
  Rutas <- MCUnaRuta
  Basura <- basura
  Grados <- MCGrados
  Guion <- MCGuionVacio
  GradoInicial = 2
  MaxProcesos = 2
  MaxPedidos = 1
PROPERTIES
  PrimeroSeDespacha
  NewEsperaSoloCupo
  ConsolaSoloEsperaCupo
CHECK_DEADLOCK FALSE
