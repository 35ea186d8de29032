----------------------------- MODULE SerialGraph -----------------------------
(***************************************************************************)
(* What the service-graph lock promises to the operations of the Pi Host:  *)
(* they run one at a time, and the Host's identity moves only while the    *)
(* mutation that moves it is the one running.                              *)
(***************************************************************************)
CONSTANTS
    Operations,     \* everything that runs under the graph lock
    Writers,        \* the operations that may move the identity
    Identities      \* workspace, session and package revisions taken together

VARIABLES
    inside,     \* the operations that are running
    identity    \* the Host's identity

serialVars == <<inside, identity>>

SerialInit == inside = {} /\ identity \in Identities

Enter(op) ==
    /\ inside = {}
    /\ inside' = {op}
    /\ UNCHANGED identity

Write(op) ==
    /\ inside = {op}
    /\ identity' \in Identities
    /\ UNCHANGED inside

Leave(op) ==
    /\ inside = {op}
    /\ inside' = {}
    /\ UNCHANGED identity

SerialNext ==
    \/ \E op \in Operations : Enter(op) \/ Leave(op)
    \/ \E op \in Writers : Write(op)

SerialSpec == SerialInit /\ [][SerialNext]_serialVars
=============================================================================
