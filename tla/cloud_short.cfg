SPECIFICATION Spec
CONSTANTS
  NumChunks = 4
  ChunkSize = 2
  LastSize = 1
  SectorSize = 4
  PingAfter = 2
  AckWait = 1
  ChunkWait = 1
  Watchdog = 3
  Window = 3
PROPERTY ErasedIsSentAgain
