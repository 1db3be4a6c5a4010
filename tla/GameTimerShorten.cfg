SPECIFICATION Spec
CONSTANTS
  Seconds <- MCSeconds
  MaxTime = 6
  MaxLength = 7
INVARIANT ShortenedPastElapsedExpires
