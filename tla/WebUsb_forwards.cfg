\* Two devices, two overlapping forwards, one reset.
SPECIFICATION FairSpec
CONSTANTS
  a = a
  b = b
  f1 = f1
  f2 = f2
  Devices <- TwoDevices
  Forwards <- TwoForwards
  MaxResets = 1
INVARIANTS
  TypeOK
  UrbAfterProbe
PROPERTIES
  HangsOnlyOnDeadSocket
