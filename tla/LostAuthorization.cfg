SPECIFICATION TopupSpec
CONSTANTS
  Attempts = {1, 2}
  Months = {1, 2}
  Quotes = {2}
  Credit = 2
  Limits = {3}
  Keys = {"k1", "k2"}
INVARIANT AuthorizationKept
