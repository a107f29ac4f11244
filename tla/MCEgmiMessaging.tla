--------------------------- MODULE MCEgmiMessaging ---------------------------
(***************************************************************************)
(* Model-checking instance of EgmiMessaging.                               *)
(***************************************************************************)
EXTENDS EgmiMessaging

=============================================================================
