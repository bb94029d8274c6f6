CONSTANTS
  Users = {u1, u2}
  Names = {hd0}
  Files = {img0, img1}
  NoFile = NoFile
  NoUser = NoUser
  NFds = 2
  MaxDevices = 2
  MaxResets = 2
SPECIFICATION Spec
INVARIANTS TypeOK ActiveDisksAreBacked DescriptorsAccounted StrayIoNeedsReset
SYMMETRY Symmetry
CHECK_DEADLOCK FALSE
