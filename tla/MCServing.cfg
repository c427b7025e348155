SPECIFICATION WebSocketSpec
CONSTANTS
  Names = {"gpt-image", "grok"}
  Providers = {"", "openai", "xai"}
  ProviderOf <- MCProviderOf
  LongContextNames = {"grok"}
  LongContext = 3
  BundledPrices <- MCBundled
  MaxInt64 = 20
  Workers = {w1, w2}
  Feeds = {1, 2}
  Feed <- MCFeed
  MinimumEntries = 2
  Asked <- MCAsked
  MaxRestarts = 1
  Requests = {1, 2}
  Keys = {"k1", "k2"}
  Scenarios <- MCScenarios
  Responses <- MCResponses
  RateLimit = 1
  TokenLimit = 3
  Minute = 2
  DayLength = 1
  FinalizationSlots = 1
  Deny = FALSE
  MaxEvents = 2
INVARIANTS
    PricesAddUp
    
    ChargedForUsage
    
PROPERTIES
    
    SessionsEnd
CHECK_DEADLOCK FALSE
