\* Three updates and three versions: a snapshot while the log has entries, a
\* second one, and leftovers of an interrupted one.
SPECIFICATION FairSpec
CONSTANTS
  MaxUpdate = 3
  MaxVersion = 3
  Adversity = {}
INVARIANTS
  TypeOK
  NoUpdateLost
  VersionsAgree
PROPERTIES
  ImplementsStore
  StartsAgain
