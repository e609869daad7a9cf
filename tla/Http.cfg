SPECIFICATION FairSpec
CONSTANTS
  r1 = r1
  r2 = r2
  r3 = r3
  r4 = r4
  p1 = p1
  p2 = p2
  acme = acme
  gone = gone
  k = k
  ka = ka
  kg = kg
  home = home
  away = away
  Notification = {r1, r2, r3, r4}
  Read = {p1, p2}
  Probe = {h}
  Client = {acme, gone}
  ApiKey = {ka, kg}
  Address = {home, away}
  KeyOf <- MCKeyOf
  ApiKeyOf <- MCApiKeyOf
  AddressOf <- MCAddressOf
  Accounts <- MCAccounts
  Asked <- MCAsked
  Bodies <- MCBodies
  Budget = 2
  MaxFailures = 1
  Threads = 2
  PoolSize = 2
  MaxAttempts = 5
  Countdowns <- MCCountdowns
  None = None
INVARIANTS
  TypeOK
  NothingLeaks
  StallsOnlyInGridlock
  RateIsPerClient
  RefusedWithoutTrace
  StrandedIsReported
PROPERTIES
  EveryRequestAnswered
