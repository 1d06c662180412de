SPECIFICATION Spec
CONSTANTS
  LotIds <- MCLotIds
  GrantKeys <- MCKeys
  Subs <- MCSubs
  GrantInputs <- MCGrantInputs
  Ops = {t1}
  MaxCredits = 2
  MaxTime = 2
  NoSource = NoSource
  NoKey = NoKey
  s1 = s1
  k1 = k1
  k2 = k2
  k3 = k3
CHECK_DEADLOCK FALSE
INVARIANTS
  SubscriptionExpiryIsFinal
