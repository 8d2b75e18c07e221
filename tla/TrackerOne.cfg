SPECIFICATION Spec
CONSTANTS
  a1 = a1  a2 = a2  a3 = a3  l1 = l1  l2 = l2  p1 = p1  m1 = m1
  c1 = c1  c2 = c2  q1 = q1
  Apps = {a1, a2}
  LeadIds = {l1, l2}
  Postings = {p1}
  Mails = {m1}
  NoMail = NoMail
  Clicks = {c1, c2}
  Requests = {q1}
  None = None
SYMMETRY Interchangeable
INVARIANTS OneApplicationPerPosting NothingDangles RepliedIsStamped
PROPERTIES UndoneInTimeIsKept
