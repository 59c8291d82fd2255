SPECIFICATION MatchSpec
CONSTANTS
  a = a  b = b  c = c  d = d  p = p  s1 = s1  s2 = s2
  m1 = m1  m2 = m2  k1 = k1  k2 = k2  k3 = k3
  None = None
  Teams = {a, b, c, d}
  Place <- MCPlace
  Players = {p}
  TeamOf <- MCTeamOf
  ListedIn <- MCListedIn
  Seasons = {s1, s2}
  First = s1
  Types = {"LEAGUE", "CUP"}
  MatchIds = {m1, m2, k1, k2, k3}
  Fixtures <- MCFixtures
  Free <- MCFree
  Drafts <- MCDrafts
  Edits <- MCEdits
  Groupings <- MCGroupings
  Requests = {r1, r2}
  MaxChanges <- MCMaxChanges
SYMMETRY Symmetry
INVARIANTS CardsAreCounted SuspensionIsServed TablesAreCurrent WinnerIsCanonical EachQualifiesOnce
CHECK_DEADLOCK FALSE
