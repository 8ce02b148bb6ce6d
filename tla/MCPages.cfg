SPECIFICATION HarnessFairSpec
CONSTANTS
  None = None
  t1 = t1
  t2 = t2
  b1 = b1
  b2 = b2
  k1 = k1
  k2 = k2
  Files = {f1, f2}
  Runs = {r1, r2}
  MaxChoices = 2
  Scripts = {r1, r2}
  Readers = {t1}
  Estimate = 2
  Prices = {1, 3}
  Tokens = 4
  MaxRestarts = 1
  Orders = {o1, o2}
  Attached = {o1}
  Buyers = {t1}
  Watch = 1
  Recent = 1
  Patience = 1
  MaxTime = 2
  Scenes = {"spotlight", "sessions", "studio", "speech", "buying"}
  Tabs = {t1, t2}
  Browsers = {b1, b2}
  TabBrowser <- OwnBrowsers
  Calls = {k1, k2}
  CallTab <- BothCallsOfT1
  Codes = {c1}
  NoCode = None
  MaxTokens = 4
  MaxRequests = 2
  Pad = 1
  Gap = 1
  Margin = 1
  CardW = 5
  CardMin = 4
  Targets <- MCTargets
  Widths = {6, 15}
  Heights = {9}
  CardHs = {2, 3}
  Likes <- MCLikes
  Count = 2
INVARIANTS StatesOK SessionsKept SameClip CardBesideHole PaidAndTold
PROPERTY WaitsEnd
CHECK_DEADLOCK FALSE
