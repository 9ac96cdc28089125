CONSTANTS
  Ids = {i1, i2, i3}
  Usernames = {u1, u2}
  Passwords = {p1, p2}
  Browsers = {b1, b2}
  Sessions = {c1, c2, c3}
  Threads = {t1, t2}
  Overlap = TRUE
  FirstAdmin = i1
  FirstName = u1
  FirstPassword = p1
  MaxEntries = 3
  TypedNames <- ShortNames
  AppNames <- SomeNames
  AppIds <- SomeIds
  Owners <- TwoOwners
  MaxPart = 3
  MaxLabel = 12
  MaxAccounts = 2
  MaxApps = 2
  Nodes = {n1, n2}
  SizeOf <- TwoSizes
  Uses <- InUse
  Servers = {s1, s2}
  Outcomes <- SshOutcomes
  Thousand = 10
  Kilo = 11
  PlainCores = 10
  Sampled = 2
  SampledDisks = 1
  n1 = n1
  n2 = n2
  s1 = s1
  s2 = s2
  None = None
  Absent = Absent
SPECIFICATION Spec
SYMMETRY Alike
INVARIANTS
  PartsTypeOK
  NamesAreUnique
  NamesHold
PROPERTIES
  GoneForGood
  ServedAsAsked
  UsageHolds
CHECK_DEADLOCK FALSE
