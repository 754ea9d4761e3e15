SPECIFICATION FairSpec
CONSTANTS
  lo = lo  eth = eth  wl = wl  br = br
  Main = Main  Comm = Comm  Free = Free
  Iface = {lo, eth, wl, br}
  Lo = lo
  Odd = {br}
  JunkIdx = {1}
  Interval = 1
  MaxIndex = 5
  MaxNow = 2
INVARIANTS TypeOK StampedIsRead IndexIsKernels LabelIsInterface
PROPERTIES RebuildEnds
CHECK_DEADLOCK FALSE
