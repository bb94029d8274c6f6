CONSTANTS
  Threads = {t1, t2}
  Names = {hd0, hd1}
  Files = {img0, img1}
  NoFile = NoFile
  NoThread = NoThread
  NFds = 3
  MaxDevices = 2
  MaxCreated = 2
SPECIFICATION Spec
INVARIANTS IoOnOpenedDevice
SYMMETRY Symmetry
CHECK_DEADLOCK FALSE
