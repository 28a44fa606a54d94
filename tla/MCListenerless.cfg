CONSTANTS
  any = any
  lo4 = lo4
  lo6 = lo6
  eth4 = eth4
  AnyAddr = any
  AddrLists <- MCAddrLists
  Foreign <- MCForeign
  Ttys = {"viz0", "acm0"}
  Specs <- MCSpecs
SPECIFICATION FairSpec
PROPERTIES
  ListenerlessEnds
CHECK_DEADLOCK FALSE
