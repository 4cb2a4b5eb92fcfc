\* Two requests at once on one provider, two processes started on one key file.
SPECIFICATION Spec
CONSTANTS
  s1 = s1
  s2 = s2
  p1 = p1
  r1 = r1
  r2 = r2
  tok = tok
  acc = acc
  v1 = v1
  v2 = v2
  Servers <- TwoServers
  MaxKeys = 2
  Providers <- OneId
  Requests <- TwoHandlers
  Vars <- TwoVars
  SecretNamed <- SecretVar
  Vals <- TwoVals
  Forms <- SomeForms
  Typed <- SomeTyped
  Saved <- AccountConf
INVARIANTS
  TypeOK
  SecretsReadable
  NoSecretInClear
  AsAsked
PROPERTIES
  DeletedStaysDeleted
SYMMETRY Interchangeable
