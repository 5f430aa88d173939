-------------------------- MODULE MCSlaveToMaster --------------------------
(* Instances of SlaveToMaster for TLC.                                        *)
EXTENDS SlaveToMaster

MCMsg == Senders \X (1 .. MaxSends)
=============================================================================
