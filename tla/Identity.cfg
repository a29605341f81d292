SPECIFICATION FairSpec

CONSTANTS
  m1 = m1
  m2 = m2
  m3 = m3
  anna = anna
  ben = ben
  w1 = w1
  w2 = w2
  w3 = w3
  Worker = {w1, w2, w3}
  Message = {m1, m2, m3}
  User = {anna, ben}
  UserOf <- Senders
  PhoneTries = 5
  MaxDuplicates = 1
  MaxCrashes = 1
  NoMessage = NoMessage

INVARIANTS
  NoDeadlock
  OnlyContactsCollide
  IdentityInv
PROPERTIES
  ImplementsAtomicIdentity
  EveryMessageRegistered
