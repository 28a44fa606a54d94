\* main: command lines, the log, and hdmi2usb_main with signals, reloads,
\* addresses in use and serial devices that come and go.
SPECIFICATION DaemonSpec
CONSTANTS
  any = any
  lo4 = lo4
  lo6 = lo6
  AnyAddr = any
  AddrLists <- MCAddrLists
  Foreign <- MCForeign
  Ttys = {"viz0", "acm0"}
  Specs <- MCSpecs
  CommandLines <- MCCommandLines
  Numbers <- MCNumbers
  Bauds = {115200}
  Locations <- MCLocations
  MaxSerialSpecs = 6
  AutoPort <- MCAutoPort
INVARIANTS
  DaemonTypeOK
  HandlersInPlace
  ListensOnce
  NothingSkipped
  QuietHonoured
  NothingSilent
PROPERTIES
  InterruptEnds
  BindRetried
  GoneEnds
CHECK_DEADLOCK FALSE
