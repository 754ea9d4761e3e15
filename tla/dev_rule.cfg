SPECIFICATION Spec
CONSTANTS
  lo = lo  eth = eth  wl = wl  br = br
  Main = Main  Comm = Comm  Free = Free
  Iface = {lo, eth, wl}
  Lo = lo
  Odd = {}
  JunkIdx = {1}
  Interval = 1
  MaxIndex = 5
  MaxNow = 2
INVARIANTS RuleKeepsToItsInterface
CHECK_DEADLOCK FALSE
