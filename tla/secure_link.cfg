SPECIFICATION Spec
CONSTANTS
  careful = careful
  careless = careless
  Conns <- LinkConns
  Careful = {careful}
  Length <- LinkLength
  BufSize = 4
  MaxLength = 6
  Garbage = {3, 6}
  MaxSent = 2
  SocketFaults = TRUE
INVARIANT TypeOK
PROPERTIES
  DeliversMessages
  CarefulClientIsServed
  DepartedClientIsLetGo
