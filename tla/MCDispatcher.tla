---------------------------- MODULE MCDispatcher ----------------------------
(* An instance of Dispatcher for TLC: the host owns two nodes, a child and    *)
(* its parent, and a third one next to them.                                  *)
EXTENDS Dispatcher

CONSTANTS child, parent, single

MCHostJobs == {child, parent, single}
MCParentOf ==
  [j \in MCHostJobs |-> IF j = child THEN parent ELSE Root]
=============================================================================
