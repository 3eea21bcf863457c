SPECIFICATION FairSpec
CONSTANTS
  Fields = {"photo", "docs"}
  Types = {"pdf", "png"}
  Files = {1, 2}
  Junk = 0
  Users = {u1, u2}
  Owners = {u1}
  Sessions = {s1}
  Presigns = {p1, p2}
  Records = {r1}
  Schemas <- MCSchemas
  DefLists <- MCDefLists
  Templates <- MCTemplates
  Datas <- MCDatas
  Kinds <- MCKinds
  TTL = 2
  Nobody = Nobody
INVARIANTS TypeOK QuotaConserved CompensationComplete RecordFilesComplete DefinitionsReadBack
PROPERTIES SessionWindsDown SessionEnds
CHECK_DEADLOCK FALSE
