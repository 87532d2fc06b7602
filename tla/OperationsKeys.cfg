CONSTANTS
  Foci = {"secrets"}

  SecretCalls = {"s1", "s2", "s3"}
  Isolates = {one, two}
  SecretProviders = {"vertex"}
  CloudProvider = "vertex"
  KeyInputs = {{"k"}, {}}
  SettingsInputs <- MCSettingsInputs

  DirCalls = {"d1", "d2", "d3"}
  DirIsolates = {one, two}
  SystemPrefixes = {"p1", "p2"}
  CustomInputs = {"none", "p1", "own"}
  MaxTries = 2

  Asks = {one, two}
  Users = {"u1", "u2"}
  InitialRoles <- MCInitialRoles
  Scenes <- MCScenes
  GivenRoles = {"member"}
  Keys = {"k1"}
  CacheTtl = 2
  TeamUntil = 2

  Checks = {"r1"}
  Subjects <- MCSubjects
  Levels <- MCLevels
  WebhookEvent <- MCWebhookEvent
  Admins = {"b1"}
  Hooks = {"h1"}
  Cooldown = 1
  AlertUntil = 2
SYMMETRY OperationsSymmetry
SPECIFICATION OperationsSpec
INVARIANT KeysDecryptable
CHECK_DEADLOCK FALSE
