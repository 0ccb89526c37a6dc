----------------------------- MODULE MCOutbound -----------------------------
(* Small instances of both halves of the outbound limiter for TLC.  acquire  *)
(* sends a dispatch to one half or the other by its endpoint alone, and the  *)
(* halves share no state: an instance is one bucket or one engine.           *)
EXTENDS UpstreamLimiter, EngineGate

VARIABLE local  \* is_local_endpoint of the instance's endpoint

MCInit == Init /\ GateInit /\ local \in BOOLEAN

MCNext ==
    /\ UNCHANGED local
    /\ \/ ~ local /\ Next /\ UNCHANGED gateVars
       \/ local /\ GateNext /\ UNCHANGED vars

MCSpec == MCInit /\ [][MCNext]_<<vars, gateVars, local>> /\ Fairness
=============================================================================
