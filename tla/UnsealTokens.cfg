CONSTANTS
  r1 = r1
  r2 = r2
  Regions = {r1, r2}
  Tokens = {t1, t2}
  Minters = {m1}
  Commits <- MCCommits
  NoToken = NoToken
  NoRegion = NoRegion
SPECIFICATION Spec
INVARIANTS
  TypeOK
  HandedTokensStayOnRecord
  NothingOutlivesTheKey
  KeysFollowTheLists
PROPERTIES
  ReissueNeverStrandsANode
