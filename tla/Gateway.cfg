CONSTANTS
  Foci = {"rates", "dialog", "stream", "tokens", "answers", "chat", "catalog"}

  Turns = {t1, t2}
  TurnKeys = {tk1}
  RateSettings <- MCRates
  Estimates = {0, 1}
  TokenUses = {2}
  Minute = 2
  RateMaxTime = 2
  CapMax = 1
  RateMax = 1

  Openings <- MCOpenings
  UserItems <- MCUserItems
  TurnParts <- MCTurnParts
  DialogTools = {"f", "g"}
  Texts = {"", "{}", "t", "r", "result", "a", "b", "f", "g", "s", "u"}
  MaxAnswers = 2

  Streams <- MCStreams
  ChunkMax = 3
  UsageTail = 2
  CaptureCap = 2

  Callers = {tc1, tc2, tc3}
  Accounts = {"robot"}
  Lifetimes = {1, 3}
  TokenTtl = 2
  RefreshSkew = 0
  LastHour = 3

  CacheKeys = {"ck"}
  CacheValues = {1, 2}
  Ttls = {1, 2}
  CacheUntil = 3

  Chats = {c1, c2}
  ChatKeys <- MCChatKeys
  Bodies <- MCBodies
  CanonicalName <- MCCanonical
  CompatProviders = {"openai", "local"}
  PiProviders = {"anthropic", "google-ai-studio", "google"}
  VertexProvider = "google-vertex"
  CuratedDefault <- MCDefault
  ChatSettings <- MCSettings
  ConfigsOf <- MCConfigs

  Clients = {cm1}
  StudioProvider = "google-ai-studio"
  Baked <- MCBaked
  Pinned <- MCPinned
  LiveIds <- MCLiveIds
  OwnScope <- MCOwnScope
SPECIFICATION GatewaySpec
INVARIANTS
  GatewayTypeOK
  WindowBounded RetryAdmitted
  ContentsWellFormed CallsReturnSigned StreamAgrees
  UsageFound CaptureFaithful
  TokenServedAlive AnswerServedFresh
  RecordedOnce CompletedOnce SentWhereAllowed CacheHoldsCompletions
  ListedModelsAllowed EmbeddedWhereAllowed
CHECK_DEADLOCK FALSE
