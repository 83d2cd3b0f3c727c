SPECIFICATION DevicesSpec
CONSTANTS
  NumHw = 1
  MaxTimers = 6
  Rank = {1, 2}
  NBits = 2
  LinkModes <- Modes
  MaxDisturbed = 2
  Addr <- Addrs
  Low <- Lows
  SectorOf <- SectorMap
  Groups = {"g"}
  GroupsOf <- SectorGroups
  Full = 4
  Units = {0, 1, 2}
  MaxLate = 1
  DbBp = {a, b}
  DbShape <- Shapes
  MaxSlots = 5
  MaxShows = 1
  Uses <- Purposes
  Addresses <- Corners
  Radix = 2
  MaxTime = 3
INVARIANTS
  DevicesTypeOK
  ListsSound
  LinkIntact
  FlashStatus
  UserReload
  BpSound
  ModelsSound
PROPERTIES
  LinkSettled
  FlashErased
  UnlockEarned
  ImplementsClock
SYMMETRY Alike
CHECK_DEADLOCK FALSE
