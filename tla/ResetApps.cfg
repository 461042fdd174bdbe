SPECIFICATION Spec
CONSTANTS
  sprue = sprue
  hilt = hilt
  bucket = bucket
  Services = {sprue, hilt}
  Apps <- MCApps
  Hilt = hilt
  Outside = {bucket}
  WriterOf <- MCWriterOf
  Tenants = {t1, t2}
  Invocations = {p1, p2}
  MaxFailures = 2
INVARIANTS
  TypeOK
  RowsKeepTheirSecrets
PROPERTIES
  ResetIsComplete
  ServicesComeBack
