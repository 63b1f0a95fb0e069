SPECIFICATION ImSpec
CONSTANTS
  ImFiles <- MCImFiles
  ImConfs <- MCImConfs
  MaxBulkInsert = 2
  MaxBulkValues = 3
  PacketRoom = 4
INVARIANT RowsAllImported
CHECK_DEADLOCK FALSE
