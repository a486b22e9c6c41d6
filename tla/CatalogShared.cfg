SPECIFICATION FairSpec
CONSTANTS
  Catalogs = {"c1", "c2"}
  Names = {"z1", "z2"}
  ConfigZones = {"z1"}
  MaxRestarts = 0
PROPERTIES
  MembersMonitored
