----------------------------- MODULE MCServing -----------------------------
(* The parts of the serving process that share no state, each explored while *)
(* the others stand still: `focus` says which.  Three are looked at from two *)
(* sides each:                                                               *)
(*   "keys"     failures of two requests, the first bound to a key and of    *)
(*              any role, the second of the lowest, over a fixed pool;       *)
(*   "admin"    one request, no failure counted, a pool that changes;        *)
(*   "races"    deletions, resumes and writes of one account;                *)
(*   "locks"    a deletion per account, and writes that name both;           *)
(*   "views"    one server, a request and warm-ups, one delete;              *)
(*   "restores" a server that only serves what another one stored.           *)
EXTENDS HedgedStream, HedgedCall, KeyPool, UserSlots, ErasureFence, AdminViews

CONSTANTS r1, r2, u1,   \* two requests of the key pool, an affinity key
          d1, d2,       \* two deletions
          p1, p2,       \* two servers
          v1, v2        \* a request for a view, a warm-up

VARIABLE focus

mcVars == <<hs, hc, poolVars, slotVars, erasureVars, viewVars, focus>>

MCInit ==
    /\ HedgedStreamInit /\ HedgedCallInit /\ PoolInit /\ SlotsInit /\ ErasureInit /\ ViewsInit
    /\ focus \in {"stream", "call", "keys", "admin", "slots", "races", "locks", "views",
                 "restores"}
    /\ focus # "admin" => \A k \in Slots : ~keys[k].removed
    /\ focus \notin {"admin", "keys"} => \A k \in Slots : keys[k].tier = 0
    /\ focus = "keys" => keys[1].tier = 0
    /\ focus # "slots" => ~parseFirst /\ limit = 0
    /\ view[v1].server = p1

StreamSide ==
    /\ focus = "stream" /\ HedgedStreamNext
    /\ UNCHANGED <<hc, poolVars, slotVars, erasureVars, viewVars, focus>>

CallSide ==
    /\ focus = "call" /\ HedgedCallNext
    /\ UNCHANGED <<hs, poolVars, slotVars, erasureVars, viewVars, focus>>

KeysSide ==
    /\ focus \in {"keys", "admin"} /\ PoolNext
    /\ rq'[r2].user = Drifter
    /\ focus = "keys" =>
          /\ \A k \in Slots : keys'[k].removed = keys[k].removed /\ keys'[k].tier = keys[k].tier
          /\ rq'[r1].at # "idle" => rq'[r1].user = u1
          /\ rq'[r2].role = 0
          /\ bound[u1].slot # 0 /\ bound'[u1].slot = 0 => rq' # rq
    /\ focus = "admin" =>
          /\ \A k \in Slots : keys'[k].streak = 0
          /\ rq'[r2] = NoRequest
    /\ UNCHANGED <<hs, hc, slotVars, erasureVars, viewVars, focus>>

SlotsSide ==
    /\ focus = "slots" /\ SlotsNext
    /\ UNCHANGED <<hs, hc, poolVars, erasureVars, viewVars, focus>>

ErasureSide ==
    /\ focus \in {"races", "locks"} /\ ErasureNext
    /\ focus = "races" =>
          /\ \A w \in Writers : wr'[w].names \subseteq {1}
          /\ \A d \in Deleters : del'[d].of # 2
          /\ \A r \in Resumers : res'[r].of # 2
          /\ user'[2].status = "active"
    /\ focus = "locks" =>
          /\ \A r \in Resumers : res'[r].at = "idle"
          /\ del'[d1].of # 2 /\ del'[d2].of # 1
          /\ \A d \in Deleters : del'[d].at # "failing"
          /\ \A w \in Writers : wr'[w].at = "locking" => wr'[w].names = {1, 2}
    /\ UNCHANGED <<hs, hc, poolVars, slotVars, viewVars, focus>>

ViewsSide ==
    /\ focus \in {"views", "restores"} /\ ViewsNext
    /\ view'[v1].server = p1 /\ view'[v2].at \notin {"waiting", "served"}
    /\ focus = "views" =>
          /\ view'[v2].server = p1 /\ gen' <= 2
          /\ view[v2].at = "idle" => view'[v2].at # "checked"
    /\ focus = "restores" =>
          /\ job'[p1] = NoJob
          /\ view[v2].at # "idle" => view'[v2].server = p2
          /\ view'[v2].at \in {"idle", "checked"} /\ mem'[p2].seen = 0
          /\ view'[v2].at = "checked" => job'[p2] = job[p2]
    /\ UNCHANGED <<hs, hc, poolVars, slotVars, erasureVars, focus>>

MCNext == StreamSide \/ CallSide \/ KeysSide \/ SlotsSide \/ ErasureSide \/ ViewsSide

\* The fairness of HedgedStream, while it is looked at.
MCFairness ==
    /\ WF_hs(focus = "stream" /\ HedgedStreamTask) /\ WF_hs(focus = "stream" /\ TimerFires)
    /\ WF_hs(focus = "stream" /\ DeadlineFires) /\ WF_hs(focus = "stream" /\ StreamEnds)

MCSpec == MCInit /\ [][MCNext]_mcVars /\ MCFairness

\* RaceEnds of HedgedStream: the race of a hedged stream is decided and what it
\* opened is closed, even when both providers hang.
StreamRaceEnds == focus = "stream" => RaceEnds

=============================================================================
