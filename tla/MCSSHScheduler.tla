--------------------------- MODULE MCSSHScheduler ---------------------------
(* Three threads with two jobs each.  Node a has two cores on its default  *)
(* single connection, node b one core and a port beyond 65535; node z is   *)
(* given zero cores.                                                        *)
EXTENDS SSHScheduler

CONSTANTS t1, t2, t3

MCThreads == {t1, t2, t3}
NodeA == [port |-> Absent, cores |-> 2, connections |-> Absent]
NodeB == [port |-> 70000, cores |-> 1, connections |-> Absent]
NodeZ == [port |-> Absent, cores |-> 0, connections |-> Absent]
TwoNodes == <<NodeA, NodeB>>
ZeroCores == <<NodeZ>>

=============================================================================
