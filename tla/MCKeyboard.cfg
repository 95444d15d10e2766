SPECIFICATION KbdSpec
CONSTANTS
  AltKeys = {"lalt", "ralt"}
  CtrlKeys = {"lctrl"}
  LockKeys = {"caps"}
  FnKeys = {"F2"}
  ConsoleOf <- SecondConsole
  Space = " "
  OtherKeys = {}
  Consoles = {"vt1", "vt2"}
  Ours = "vt1"
  SocketSize = 1
  MaxCodes = 4
  MaxSwitches = 1
INVARIANTS
  KbdTypeOK
  ModifiersAreHeld
  LocksFollowStrokes
CHECK_DEADLOCK FALSE
