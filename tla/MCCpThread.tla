----------------------------- MODULE MCCpThread -----------------------------
(* Instances of CpThread for TLC: an object started up to twice, on two    *)
(* processors, with a priority that is inherited and one that is not.      *)
EXTENDS CpThread

MCPriorities == {inherit_priority, rr_highest_priority}
MCCpus == {1, 2}

=============================================================================
