SPECIFICATION MCSpec
CONSTANTS
  b1 = b1
  b2 = b2
  r1 = r1
  r2 = r2
  r3 = r3
  t1 = t1
  t2 = t2
  Requests = {r1, r2, r3}
  Browsers = {b1, b2}
  BrowserOf <- Origin
  OldTokens = {t1, t2}
  Expiring = {t1}
  MaxFaults = 1
  NoToken = NoToken
INVARIANT RotatedOnce CookieIsLive
PROPERTY SessionsSurvive EveryRequestEnds
CHECK_DEADLOCK FALSE
