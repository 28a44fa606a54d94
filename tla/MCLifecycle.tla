---------------------------- MODULE MCLifecycle ----------------------------
(* Lifecycle with the answers getaddrinfo gives for localhost, for a host  *)
(* with two addresses of a family, and for all interfaces, and three ways  *)
(* to name two serial devices, one of them with an empty pattern.          *)
EXTENDS Lifecycle

CONSTANTS any, lo4, lo6, eth4

V4(addr) == [family |-> 4, addr |-> addr]
V6(addr) == [family |-> 6, addr |-> addr]

MCAddrLists == {<<V6(lo6), V4(lo4)>>, <<V4(lo4), V4(eth4), V6(lo6)>>, <<V4(any)>>, <<V4(lo4), V4(any)>>}
MCForeign   == {lo4, any}
MCSpecs     == {<<<<"viz0">>, <<"acm0">>>>, <<<<"acm0", "viz0">>>>, <<<<>>, <<"acm0">>>>}
==============================================================================
