------------------------ MODULE MCSessionSupervisor ------------------------
EXTENDS SessionSupervisor

\* Sessions share the stop route and the process only: one stands for each.
MCSessions == {"s1"}
=============================================================================
