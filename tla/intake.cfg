SPECIFICATION Spec
CONSTANTS
  Pid = {1, 2, 4, 5}
  Resident = {1, 2}
  Exe = {"e1", "e2"}
  Tcp = {"l", "a", "b"}
  Udp = {"u"}
  Fixed <- MCFixed
  Inode <- MCInode
  Bucket <- MCBucket
  Half = 8
  MaxMoves = 1
  GroupBits = 2
  Addr <- MCAddr
  Listening = {"l"}
  Strays <- MCStrays
  PortNr = {0, 1}
  Tables <- MCTables
  Default <- MCDefault
INVARIANTS TypeOK NamedByHolder HolderIsFound VerdictIsFirstMatch PidSearchExact
