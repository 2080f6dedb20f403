----------------------------- MODULE SharedRpc -----------------------------
(***************************************************************************)
(* What TrueNASClient.call() promises to the coordinators, switches and    *)
(* buttons of one config entry, whatever the network does: the calls take  *)
(* turns on the server connection, the server carries out each of them at  *)
(* most twice (the first send and one retry), and a call returns a result  *)
(* only when the server has carried it out.  Nothing is promised about     *)
(* when: a request may be carried out after its caller was told it failed. *)
(***************************************************************************)
CONSTANT Calls

VARIABLES
  status,   \* "idle", "waiting" for its turn, "active", or how the call ended
  ran       \* which of the call's (at most two) sends the server carried out

rpcVars == <<status, ran>>

Ending == {"result", "auth", "connection", "crash"}

Status == {"idle", "waiting", "active"} \cup Ending

RpcInit ==
  /\ status = [c \in Calls |-> "idle"]
  /\ ran = [c \in Calls |-> {}]

Submit(c) ==
  /\ status[c] = "idle"
  /\ status' = [status EXCEPT ![c] = "waiting"]
  /\ UNCHANGED ran

TakeTurn(c) ==
  /\ status[c] = "waiting"
  /\ \A d \in Calls : status[d] # "active"
  /\ status' = [status EXCEPT ![c] = "active"]
  /\ UNCHANGED ran

CarryOut(c) ==
  /\ status[c] \notin {"idle", "waiting"}
  /\ \E k \in {1, 2} \ ran[c] : ran' = [ran EXCEPT ![c] = @ \cup {k}]
  /\ UNCHANGED status

Return(c) ==
  /\ status[c] = "active"
  /\ \E o \in Ending :
       /\ o = "result" => ran[c] # {}
       /\ status' = [status EXCEPT ![c] = o]
  /\ UNCHANGED ran

RpcNext == \E c \in Calls : Submit(c) \/ TakeTurn(c) \/ CarryOut(c) \/ Return(c)

RpcSpec == RpcInit /\ [][RpcNext]_rpcVars
=============================================================================
