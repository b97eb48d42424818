\* One article from creation to publication, a request and a scheduler, and a
\* reader between whose statements they commit.
SPECIFICATION ReadsSpec
CONSTANTS
  Articles = {a1}
  Users = {ed}
  Editors = {ed}
  Requests = {r1}
  Schedulers = {s1}
  Readers = {q1}
  Free = Free
  System = System
  Fields = {title}
  Headline = {title}
  IfMatch <- OneToFour
  Horizon = 2
  BatchLimit = 1
CHECK_DEADLOCK FALSE
INVARIANTS  RevisionNamesState DetailHoldsTogether OnePublicText PublishedOnce PublicIsApproved
