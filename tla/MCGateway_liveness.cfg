SPECIFICATION FairSpec
CONSTANTS
  r1 = r1
  r2 = r2
  r3 = r3
  r4 = r4
  h1 = h1
  h2 = h2
  h3 = h3
  a1 = a1
  a2 = a2
  k1 = k1
  k2 = k2
  u1 = u1
  u2 = u2
  None = None
  Requests = {r1, r2, r3}
  Hashes = {h1, h2}
  Resources = {a1}
  Keys = {k1}
  Currencies = {u1}
  Configs <- OneConfig
  Faults = {"drop", "crash"}
INVARIANTS PaidNotTurnedAway
PROPERTIES Answered PaidIsRedeemed
