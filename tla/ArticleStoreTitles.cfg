SPECIFICATION Spec
CONSTANTS
  x1 = x1
  y1 = y1
  y2 = y2
  T1 = T1
  T2 = T2
  None = None
  Workers = {1}
  Reports = {x1, y1, y2}
  Titles = {T1, T2}
  Feed <- MCFeed
  Guid <- MCGuid
  Url <- MCUrl
  Content <- MCContent
  Title <- MCOneTitle
  Near <- MCNear
  Relisted = {}
  MaxUpsets = 0
INVARIANTS
  TitleOnce
