-------------------------- MODULE MCMasterToSlave --------------------------
(* Instances of MasterToSlave for TLC.                                        *)
EXTENDS MasterToSlave

MCMsg == Senders \X (1 .. MaxSends)
=============================================================================
