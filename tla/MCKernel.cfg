SPECIFICATION Spec
CONSTANTS
  r1 = r1
  r2 = r2
  basura = basura
  Rutas <- MCUnaRuta
  Basura <- basura
  Grados <- MCGrados
  Guion <- MCGuion
  GradoInicial = 2
  MaxProcesos = 3
  MaxPedidos = 1
INVARIANTS
  TypeOK
  OrdenDeLlegada
  NadieSePierde
  CaidaDeListaPorCarrera
  CaidaDeEstado
  UnSoloDespacho
  AjusteExacto
  CupoDelPedido
  SinAvisoPerdido
PROPERTY CumplePlanificacion
CHECK_DEADLOCK FALSE
