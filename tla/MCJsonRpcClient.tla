-------------------------- MODULE MCJsonRpcClient --------------------------
(* Small instances of JsonRpcClient for TLC.                               *)
EXTENDS JsonRpcClient
=============================================================================
