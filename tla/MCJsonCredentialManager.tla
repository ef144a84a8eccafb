----------------------- MODULE MCJsonCredentialManager -----------------------
(***************************************************************************)
(* A small instance of JsonCredentialManager for TLC.                      *)
(***************************************************************************)
EXTENDS JsonCredentialManager, TLC

=============================================================================
