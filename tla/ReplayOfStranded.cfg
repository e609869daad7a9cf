SPECIFICATION Spec
CONSTANTS
  r1 = r1
  r2 = r2
  r3 = r3
  r4 = r4
  r5 = r5
  acme = acme
  other = other
  k = k
  Notification = {r1, r2, r3, r4, r5}
  Client = {acme, other}
  Owner <- MCOwner
  KeyOf <- MCKeyOf
  MaxAttempts = 5
  Countdowns <- MCCountdowns
  None = None
  RequestFaults = {"publish"}
  MaxRequestFaults = 1
INVARIANTS
  AcceptedIsEnqueued
