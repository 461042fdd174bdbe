CONSTANTS
  r1 = r1
  r2 = r2
  Regions = {r1}
  Tokens = {t1, t2}
  Minters = {m1}
  Commits <- MCCommitsOneRegion
  NoToken = NoToken
  NoRegion = NoRegion
SPECIFICATION FairSpec
PROPERTY RetirementFinishes
