SPECIFICATION Spec
CONSTANTS
  i1 = i1
  i2 = i2
  Interfaces <- MCInterfaces
INVARIANT HiloDelCliente
CHECK_DEADLOCK FALSE
