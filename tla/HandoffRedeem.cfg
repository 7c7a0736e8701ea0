SPECIFICATION Spec
CONSTANTS
  t1 = t1
  c1 = c1
  c2 = c2
  p1 = p1
  p2 = p2
  Ticket <- MCTicket
  Conn <- MCConn
  Proc <- MCProc
  None = None
  SEC = 2
  TTL = 3
  MaxNow = 7
CHECK_DEADLOCK FALSE
SYMMETRY Symmetry
PROPERTIES RedeemedOnce OneTimeTicket
