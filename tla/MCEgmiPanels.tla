---------------------------- MODULE MCEgmiPanels ----------------------------
(***************************************************************************)
(* Model-checking instance of EgmiPanels: three requests in all, enough    *)
(* for a POST of each panel and a volume action to be pending together.   *)
(***************************************************************************)
EXTENDS EgmiPanels

\* Every reply kind but the null body, which makes the success callback throw.
MCWellFormedReplies == AllReplies \ {"nullBody"}

=============================================================================
