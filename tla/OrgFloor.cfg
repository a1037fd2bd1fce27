SPECIFICATION FloorSpec
CONSTANTS
  Employees = {"lead", "dev", "new", "late"}
  Kits <- SmallKits
  MaxRooms = 4
  MaxHires = 2
  FirstRoles <- TwoRoles
INVARIANTS
  RoomsStandApart
  RestartsRebuildTheFloor
PROPERTIES
  NewcomersGetADesk
CHECK_DEADLOCK FALSE
