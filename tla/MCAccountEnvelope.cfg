SPECIFICATION FairSpec
CONSTANTS
  alice = alice
  bob = bob
  phone = phone
  tablet = tablet
  desk = desk
  laptop = laptop
  Account = {alice, bob}
  Root = {phone, tablet, desk}
  Contact = {desk, laptop}
  Owner <- Owners
  MaxGeneration = 3
  MaxLinks = 1
  MaxKeys = 3
  MaxLosses = 1
  MaxResponse = 2
  MaxEnvelopes = 1
  MaxTitle = 4
  MaxTag = 3
  MaxTags = 2
  Padding = 14
  Typed <- Previews
INVARIANTS SuccessorUnique SameAnchorSameKeys EnvelopesOpen
PROPERTIES RotationsReachContacts
CHECK_DEADLOCK FALSE
