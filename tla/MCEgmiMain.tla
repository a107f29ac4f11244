----------------------------- MODULE MCEgmiMain -----------------------------
(***************************************************************************)
(* Model-checking instance of EgmiMain: two server status changes, two     *)
(* calls of the public methods, and the reply kinds the server sends.      *)
(***************************************************************************)
EXTENDS EgmiMain

\* Well-formed replies: every branch of the callbacks except those that throw.
MCWellFormedStatusReplies == AllStatusReplies \ {"noBricks", "nullBody"}
MCWellFormedMasterReplies == AllMasterReplies \ {"nullBody"}

=============================================================================
