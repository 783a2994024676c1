------------------------------- MODULE MCPush -------------------------------
(* Small instances of Push: a blob of three bytes or none, in one PUT or   *)
(* in chunks of two, one retry, one redirect hop per request.              *)
EXTENDS Push, TLC
=============================================================================
