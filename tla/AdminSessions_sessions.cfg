SPECIFICATION FairSpec
CONSTANTS
  t1 = t1
  t2 = t2
  b1 = b1
  b2 = b2
  Tabs = {t1, t2}
  Browsers = {b1, b2}
  BrowserOf <- MCBrowserOf
  Passwords = {pw1, pw2}
  NoPassword = NoPassword
  InitialHashes = {NoPassword, pw1}
  NoToken = NoToken
  Tokens = {s1, s2, s3, s4, s5}
  MaxChanges = 2
  MaxLogouts = 1
  MaxFaults = 1
INVARIANT TypeOK
INVARIANT OldSessionsStraddle
INVARIANT CallerStaysIn
PROPERTY RightPasswordGetsIn
