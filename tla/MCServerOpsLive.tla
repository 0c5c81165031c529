----------------------------- MODULE MCServerOpsLive -----------------------------
(* Small instances of ServerOpsLive for TLC. *)
EXTENDS MCServerOps, ServerOpsLive

================================================================================
