SPECIFICATION ClientsSpec
CONSTANTS
  NServices = 3
  NPorts = 1
  Dev = {lamp, other}
  Lamp = {lamp}
  Example = example
  User = user
  Client = {example, user}
  None = None
  Empty = Empty
  MaxSockets = 2
  Description <- MCDescription
  Long = {3}
  NULL = NULL
  Garbage = Garbage
  WantedType = "light"
  WantedLocation = "outside"
  MaxUses = 1
CHECK_DEADLOCK FALSE
INVARIANTS
  SearchIsSound
  OnlyLampsAreSwitched
PROPERTIES
  ExampleEnds
