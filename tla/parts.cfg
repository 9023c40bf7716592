\* One instance of each part around the write path.
SPECIFICATION PartsSpec
CONSTANTS
  c1 = c1  c2 = c2  c3 = c3  c4 = c4
  Calls = {c1, c2, c3, c4}
  KindOf <- Kinds
  ScopeOf <- Breaker
  Scopes = {"read", "write", "reconcile"}
  Workers = {"w1", "w2"}
  QueueSize = 1
  Attempts = 2
  Threshold = 2
  Admins = {"r1", "r2"}
  Restarts = 1
  Entries = {1, 2, 3, 4}
  Plain = {1, 3}
  Initially = {1, 2, 3}
  PageSize = 2
  Capacity = 2
  Edits = 2
  Refreshes = 1
  Reads = 2
  Conversations = {"k1", "k2"}
  People = {"p1", "p2"}
  ReadFunctions = {"read"}
  WriteFunctions = {"write"}
  Ttl = 2
  MaxConversations = 2
  AtOnce = 2
  Said = 3
  MaxNow = 2
  Requesters = {"q1", "q2"}
  MaxForms = 2
  Documents = 2
  DraftTtl = 2
  MaxDrafts = 2
  Onboardings = 2
  LastHour = 4
  Messages = {"m1", "m2", "m3"}
  Author <- Authors
  Private = {"m2"}
  Followed = {"m1", "m2"}
  UserLimit = 1
  ChannelLimit = 1
  Window = 2
  Slots = 1
  LastMinute = 2
  Records = {1, 2}
  RecordEdits = 2
  Requester = "req"
  Approver = "app"
  Looks = {"x", "y"}
  TargetEdits = 2
  GrantChanges = 2
  Staff = {"e1", "e2"}
  Years = {1, 2, 3}
  ThisYear = 3
  YearCapacity = 2
  YearReads = 2
  Talks = 2
INVARIANTS PartsTypeOK PageIsExclusive ProbeOwned CredentialsAreGuarded OnlyVerifiedSessions ReadsAreTrue ContextIsHonoured DraftsEndInTime NoFlood UsageIsTruthful WritesAreAsApproved NothingIsLeft AudienceIsRight
PROPERTIES EveryCallEnds
CHECK_DEADLOCK FALSE
