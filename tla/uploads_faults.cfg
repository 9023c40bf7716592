SPECIFICATION FairSpec
CONSTANTS
  f1 = f1  f2 = f2  d1 = d1
  Uploads = {f1, f2}
  Digests = {d1}
  DigestOf <- SameContent
  ClamavRequired = FALSE
  Failures = TRUE
  Crashes = TRUE
INVARIANTS UploadTypeOK OneLiveCopyPerDigest OnlyVettedDelivered
PROPERTIES OpenedWhileRecorded ExpiredIsDeleted
CHECK_DEADLOCK FALSE
