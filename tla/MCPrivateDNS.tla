----------------------------- MODULE MCPrivateDNS -----------------------------
(***************************************************************************)
(* The instance of PrivateDNS for TLC; its constants are in the            *)
(* configuration.                                                          *)
(***************************************************************************)
EXTENDS PrivateDNS
==============================================================================
