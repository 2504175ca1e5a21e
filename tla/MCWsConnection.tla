--------------------------- MODULE MCWsConnection ---------------------------
(* The instance of WsConnection for TLC; its bounds are numbers in the     *)
(* .cfg.                                                                   *)
EXTENDS WsConnection
=============================================================================
