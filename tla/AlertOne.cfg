SPECIFICATION BooksSpec
CONSTANTS
  c1 = c1  p1 = p1  p2 = p2  p3 = p3  r1 = r1  r2 = r2  r3 = r3
  Companies = {c1}
  Postings = {p1, p2}
  BoardOf <- MCBoardOf
  Years <- MCYears
  Unstated = Unstated
  PostedAt <- MCPostedAt
  Undated = Undated
  Runs = {r1, r2}
  NoRun = NoRun
  MaxClock = 3
  Senders = {alert}
  Forces = {TRUE, FALSE}
  TxLag = 1
  StampCap = 1
SYMMETRY Symmetry
INVARIANTS StampedWasMailed SentIsStamped GapOnlyInFlight SentMailsDisjoint SuccessWasReported
PROPERTIES StampIsFinal
