SPECIFICATION Spec
CONSTANTS
  t1 = t1  t2 = t2  p1 = p1  p2 = p2  p3 = p3  s1 = s1  s2 = s2  u1 = u1  u2 = u2
  NoOne = NoOne
  Teams = {t1, t2}
  Fitting = {t1}
  Players = {p1, p2, p3}
  Students = {s1, s2}
  FirstTeam <- OneEach
  FirstStudent <- TheirIds
  Staff = {u1}
  Clubs = {t1, t2}
  Rosters <- SomeLists
PROPERTIES RosterIsList FollowsWorkflow
CHECK_DEADLOCK FALSE
