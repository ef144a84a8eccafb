------------------------- MODULE MCSnowflakeService -------------------------
(***************************************************************************)
(* A small instance of SnowflakeService for TLC.                           *)
(***************************************************************************)
EXTENDS SnowflakeService, TLC

=============================================================================
