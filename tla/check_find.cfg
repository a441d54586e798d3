SPECIFICATION FairFind
CONSTANTS
  p1 = p1  p2 = p2  p3 = p3  p4 = p4  p5 = p5
  Cand = {p1, p2, p3, p4, p5}
  AddrOf <- MCAddrOf
  Parsed = {p1, p2, p3, p4, p5}
  Screened = {p1, p2, p3, p4}
  Dedup = TRUE
  MaxConn = 2
  Limit = 2
  Unlimited = Unlimited
  CHANNEL_CAPACITY = 1
INVARIANTS TypeOK ExactLimit PermitsConserved StatsCoverOutput
PROPERTIES ImplementsStream RunEnds
CHECK_DEADLOCK FALSE
