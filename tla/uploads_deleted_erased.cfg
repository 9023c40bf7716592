SPECIFICATION Spec
CONSTANTS
  f1 = f1  f2 = f2  d1 = d1
  Uploads = {f1, f2}
  Digests = {d1}
  DigestOf <- SameContent
  ClamavRequired = TRUE
  Failures = FALSE
  Crashes = TRUE
INVARIANTS DeletedMeansErased
CHECK_DEADLOCK FALSE
