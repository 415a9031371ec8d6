SPECIFICATION Spec
CONSTANTS
  h1 = h1
  h2 = h2
  a1 = a1
  slug = slug
  typed = typed
  rubbish = rubbish
  Nobody = Nobody
  Handlers = {h1, h2}
  Addresses = {a1}
  Spellings = {slug, typed, rubbish}
  Slug <- MCSlug
  PerMinute = 1
  Minute = 1
  Keys <- MCKeys
  Limiter <- MCLimiter
  Allowed <- MCAllowed
  Window = 4
  MaxKeys = 1
  MaxTime = 5
  MaxCalls = 5
  MaxRefused = 1
INVARIANTS TypeOK WindowsKept QuotaIsFailures
PROPERTY RetryAfterStands
SYMMETRY Symmetry
CHECK_DEADLOCK FALSE
