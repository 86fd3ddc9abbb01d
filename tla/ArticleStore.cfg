SPECIFICATION FairSpec
CONSTANTS
  x1 = x1
  y1 = y1
  y2 = y2
  T1 = T1
  T2 = T2
  None = None
  Workers = {1, 2}
  Reports = {x1, y1, y2}
  Titles = {T1, T2}
  Feed <- MCFeed
  Guid <- MCGuid
  Url <- MCUrl
  Content <- MCContent
  Title <- MCTitle
  Near <- MCNear
  Relisted = {x1, y1}
  MaxUpsets = 1
INVARIANTS
  TypeOK
  OnlyRivalsCopy
PROPERTIES
  CountSettles
  StoriesMeet
