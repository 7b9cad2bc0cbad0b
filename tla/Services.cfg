CONSTANTS
  o1 = o1
  g1 = g1
  g2 = g2
  a1 = a1
  a2 = a2
  c1 = c1
  c2 = c2
  h1 = h1
  h2 = h2
  w1 = w1
  w2 = w2
  n1 = n1
  n2 = n2
  n3 = n3
  ch1 = ch1
  ch2 = ch2
  id = id
  t1 = t1
  t2 = t2
  e1 = e1
  e2 = e2
  u1 = u1

  ShopOrders = {o1}
  GatewayIds = {g1, g2}
  Accounts = {a1, a2}
  SharedAccount = a1
  Unset = Unset
  Creates = {c1, c2}
  Hooks = {h1, h2}
  QuoteLife = 1
  HookAttempts = 2
  Loads <- SomeLoads
  OrderTime = 1
  MaxFaults = 1

  Shops = {w1, w2}
  States = {n1, n2}
  Callbacks = {c1, c2}
  StateTTL = 1
  InstallTime = 3

  Wallets = {w1, w2}
  Merchant = w1
  Nonces = {n1, n2, n3}
  Logins = {c1, c2}
  Window = 2
  SessionCap = 1
  SignInTime = 2

  Boarders = {w1}
  MaxCalls = 2
  Edits = {e1, e2}
  Days <- SomeDays
  Urls = {u1}
  Blank = Blank
  Asks <- SomeAsks

  Browsers <- SomeBrowsers
  Kit <- SomeKit
  Pickers = {c1, c2}
  Overlapping <- SomeOverlaps
  Unchosen = Unchosen
  MaxReloads = 1

  Chains = {ch1, ch2}
  ServedBy <- SomeChains
  Addresses = {id, a1, a2}
  ZoneByte <- SomeZones
  WellFormed = {id, a2}
  Identity = id
  Nowhere = Nowhere
  Seeders = {c1, c2}
  Makers = {h1}
  MaxLinks = 2

  Plugins = {c1, c2}
  Slugs = {g1, g2}
  Supplied = {o1}
  References = {n1, n2}
  Nothing = Nothing
  Fixed = Fixed
  RateTTL = 1
  AbortAfter = 1
  BodyTime = 0
  Markets <- SomeMarkets

  Taps = {h1, h2}
  Visits <- SomeVisits
  MaxSends = 2
  MaxReads = 1

  Native = Native
  Tokens = {w1, w2}
  NoRecord = NoRecord
  MaxMishaps = 2
  MaxReleases = 1

  Tabs = {t1, t2}
  Sessions = {n1, n2}
  Holder <- SomeHolder
  Nobody = Nobody
  MaxUpsets = 1

  Absent = Absent
  MaxSessions = 2
  SessionLife = 2
  StaleAfter = 1
  DefaultChain = ch1
  Networks = {ch1, ch2}
  Owners = {w1, w2}
  Keys = {n1, n2, n3}
  Payments = {c1, c2}
  Pool <- SomePool
  Minted = {h1, h2}
  Payers = {a1, a2}
  ShopNames = {w1, w2}
  StateLife = 1
  LinkCap = 2
  MaxAttempts = 2
  StoreTime = 3

SPECIFICATION Spec
INVARIANTS
  ServicesTypeOK
  PaymentOnBooks
  LinkFindsMerchant
  FreshUnlessFailed
  
  SaysPaidOnlyIfPaid
  WalletsKeptApart
  Interchangeable
PROPERTIES
  PaidGetsMarked
  TokensAreOneTime
  SettingsKept
  AttemptEnds
  DeploymentCompletes
  DashboardSettles
CHECK_DEADLOCK FALSE
