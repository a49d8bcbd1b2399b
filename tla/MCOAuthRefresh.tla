--------------------------- MODULE MCOAuthRefresh ---------------------------
(***************************************************************************)
(* Instances of OAuthRefresh for TLC.                                      *)
(***************************************************************************)
EXTENDS OAuthRefresh

\* every call may fail but the read that decides whether a race was lost
StepsButRecover == Steps \ {"recover"}
=============================================================================
