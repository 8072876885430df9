SPECIFICATION Spec
VIEW View
CONSTANTS
  Slots <- MCSlots
  Python = slot99
  AppSlot = slot8
  Nowhere = nowhere
  Wires = {w}
  OutOfRange = volts
  NoFile = absent
  None = none
  MaxFaults = 1
  MaxWrites = 1
PROPERTY SwitchKeepsEdits
