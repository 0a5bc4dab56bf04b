SPECIFICATION GeminiSpec
CONSTANTS
  MaxRetries = 0
  MaxRequests = 1
  Primary = Primary  Fallback = Fallback  other = other
  Others <- OneOther
  FallbackEnabled = TRUE
  MaxDay = 2
PROPERTIES RateLimitFallsBack
CHECK_DEADLOCK FALSE
