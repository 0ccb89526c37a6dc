------------------------------ MODULE KeyPool ------------------------------
(***************************************************************************)
(* The API keys of one provider route (serving/adapters/key_pool.py) and   *)
(* the requests that rotate through them (_post_with_pool and              *)
(* _open_stream_with_pool of openai_compat.py), while an admin adds,       *)
(* removes and reserves keys.                                              *)
(*                                                                         *)
(* Every operation of the pool runs under its lock and is one step.  A key *)
(* is its slot: adding a key not seen before fills a slot that was never   *)
(* used.  A role is its rank; a caller without one may use what the        *)
(* highest may.  How long a mute lasts is left open: it ends at any time.  *)
(***************************************************************************)
EXTENDS Naturals, FiniteSets, FiniteSetsExt

CONSTANTS Slots,       \* 1 .. n, in configuration order
          Ranks,       \* ranks of the roles, from 0
          Patience,    \* SOLE_KEY_BACKOFF_THRESHOLD
          Sticky,      \* affinity keys
          Drifter,     \* a caller without one (affinity_key is None)
          PoolClients  \* requests at the same time

ASSUME PoolAssumption ==
    /\ Slots \subseteq Nat \ {0} /\ IsFiniteSet(Slots)
    /\ Ranks \subseteq Nat /\ 0 \in Ranks
    /\ Patience \in Nat
    /\ Drifter \notin Sticky

VARIABLES
    keys,   \* of each slot: removed, muted, consecutive_failures, min_role
    bound,  \* _affinity: slot (0: none) and role of each binding
    rq      \* of each request: where it is, who for, tried, attempts left, lease

poolVars == <<keys, bound, rq>>

Unbound == [slot |-> 0, role |-> 0]
NoRequest == [at |-> "idle", user |-> Drifter, role |-> 0, tried |-> {}, left |-> 0, lease |-> 0]

PoolTypeOK ==
    /\ keys \in [Slots -> [removed : BOOLEAN, muted : BOOLEAN, streak : 0 .. Patience + 1,
                           tier : Ranks]]
    /\ bound \in [Sticky -> [slot : Slots \cup {0}, role : Ranks]]
    /\ rq \in [PoolClients -> [at : {"idle", "choosing", "sending", "streaming"},
                               user : Sticky \cup {Drifter}, role : Ranks, tried : SUBSET Slots,
                               left : 0 .. Cardinality(Slots), lease : Slots \cup {0}]]

PoolInit ==
    /\ keys \in [Slots -> [removed : BOOLEAN, muted : {FALSE}, streak : {0}, tier : Ranks]]
    /\ \E k \in Slots : ~keys[k].removed
    /\ bound = [u \in Sticky |-> Unbound]
    /\ rq = [c \in PoolClients |-> NoRequest]

-----------------------------------------------------------------------------
(* The pool *)

\* _role_may_use, of a key in the pool.
Entitled(ks, role) == {k \in Slots : ~ks[k].removed /\ ks[k].tier <= role}

\* The keys a role can be handed now.
Usable(ks, role) == {k \in Entitled(ks, role) : ~ks[k].muted}

\* _pick_first_available_locked: the highest reservation, then the first slot.
Pick(ks, cands) ==
    LET top == {k \in cands : \A j \in cands : ks[j].tier <= ks[k].tier} IN Min(top)

\* The caller's binding is good for this attempt.
Honoured(u, role, tried) ==
    /\ u # Drifter /\ bound[u].slot \in Usable(keys, role) \ tried
    /\ bound[u].role = role

\* _drop_repointed_affinities_locked.
DropRepointed(ks) ==
    [u \in Sticky |->
        LET b == bound[u] IN
        IF /\ b.slot # 0
           /\ \/ b.slot \notin Entitled(ks, b.role)
              \/ Usable(ks, b.role) # {} /\ Pick(ks, Usable(ks, b.role)) # b.slot
          THEN Unbound ELSE b]

\* add_key: a slot comes back, or one not used before is filled; a tier not
\* given leaves the slot's reservation as it was.
AddKey(k, tier) ==
    LET ks == [keys EXCEPT ![k].removed = FALSE, ![k].tier = tier] IN
    /\ ks # keys
    /\ keys' = ks
    /\ bound' = DropRepointed(ks)
    /\ UNCHANGED rq

\* set_key_min_role.
SetTier(k, tier) ==
    LET ks == [keys EXCEPT ![k].tier = tier] IN
    /\ ~keys[k].removed /\ keys[k].tier # tier
    /\ keys' = ks
    /\ bound' = DropRepointed(ks)
    /\ UNCHANGED rq

\* remove_key: the slot stays, for leases that still name it.
RemoveKey(k) ==
    LET ks == [keys EXCEPT ![k].removed = TRUE] IN
    /\ ~keys[k].removed
    /\ keys' = ks
    /\ bound' = DropRepointed(ks)
    /\ UNCHANGED rq

\* cooldown_until passes.
CooldownEnds(k) ==
    /\ keys[k].muted
    /\ keys' = [keys EXCEPT ![k].muted = FALSE]
    /\ UNCHANGED <<bound, rq>>

\* expires_at passes: the binding is never honoured again.
BindingLapses(u) ==
    /\ bound[u].slot # 0
    /\ bound' = [bound EXCEPT ![u] = Unbound]
    /\ UNCHANGED <<keys, rq>>

-----------------------------------------------------------------------------
(* release *)

\* One more failure, counted up to what makes a difference.
Failing(ks, k) == [ks EXCEPT ![k].streak = IF @ > Patience THEN @ ELSE @ + 1]

\* A release that counts every other usable key as a way out.
IsSoleForAll(ks, k, role) == \A j \in Slots : ks[j].removed \/ ks[j].muted \/ j = k

\* Not _has_other_usable_key_locked.
IsSole(ks, k, role) == Usable(ks, role) \subseteq {k}

\* What release does with a failure worth rotating for; an empty tried is a
\* caller that cannot rotate.
Outcome(ks, k, role, tried, specific) ==
    CASE tried # {} /\ Usable(ks, role) \ (tried \cup {k}) # {}  -> "rotated"
      [] IsSole(ks, k, role) /\ ~specific                        -> "propagate"
      [] IsSole(ks, k, role) /\ ks[k].streak <= Patience         -> "propagate"
      [] OTHER                                                   -> "muted"

AfterFailure(k, role, tried, specific) ==
    LET ks == Failing(keys, k) IN
    IF Outcome(ks, k, role, tried, specific) = "muted" THEN [ks EXCEPT ![k].muted = TRUE] ELSE ks

-----------------------------------------------------------------------------
(* A request *)

Ended(c) == rq' = [rq EXCEPT ![c] = NoRequest]

\* max_attempts is the number of keys the role has now; with none the request
\* is refused.
StartRotation(c, u, role) ==
    /\ rq[c].at = "idle" /\ Entitled(keys, role) # {}
    /\ rq' = [rq EXCEPT ![c] = [NoRequest EXCEPT !.at = "choosing", !.user = u, !.role = role,
                                                 !.left = Cardinality(Entitled(keys, role))]]
    /\ UNCHANGED <<keys, bound>>

\* acquire: the caller's own key, or the first it may use, to which it is bound.
Acquire(c) ==
    LET r == rq[c]
        cands == Usable(keys, r.role) \ r.tried
        mine == Honoured(r.user, r.role, r.tried)
        k == IF mine THEN bound[r.user].slot ELSE Pick(keys, cands)
    IN  /\ r.at = "choosing" /\ r.left > 0
        /\ mine \/ cands # {}
        /\ bound' = IF mine \/ r.user = Drifter THEN bound
                    ELSE [bound EXCEPT ![r.user] = [slot |-> k, role |-> r.role]]
        /\ rq' = [rq EXCEPT ![c].at = "sending", ![c].lease = k, ![c].tried = @ \cup {k},
                            ![c].left = @ - 1]
        /\ UNCHANGED keys

\* KeyPoolExhausted: a binding that is no good is dropped all the same.
NoKeyLeft(c) ==
    LET r == rq[c] IN
    /\ r.at = "choosing" /\ r.left > 0
    /\ Usable(keys, r.role) \subseteq r.tried
    /\ bound' = IF r.user = Drifter THEN bound ELSE [bound EXCEPT ![r.user] = Unbound]
    /\ Ended(c)
    /\ UNCHANGED keys

\* Every attempt is used up.
AllErrored(c) ==
    /\ rq[c].at = "choosing" /\ rq[c].left = 0
    /\ Ended(c)
    /\ UNCHANGED <<keys, bound>>

\* UpstreamSaturated: a neutral release, and on to the next key.
Saturated(c) ==
    /\ rq[c].at = "sending"
    /\ rq' = [rq EXCEPT ![c].at = "choosing", ![c].lease = 0]
    /\ UNCHANGED <<keys, bound>>

\* A failure before any output.
FailsEarly(c, specific) ==
    LET r == rq[c]
        out == Outcome(Failing(keys, r.lease), r.lease, r.role, r.tried, specific)
    IN  /\ r.at = "sending"
        /\ keys' = AfterFailure(r.lease, r.role, r.tried, specific)
        /\ IF out = "propagate" THEN Ended(c)
           ELSE rq' = [rq EXCEPT ![c].at = "choosing", ![c].lease = 0]
        /\ UNCHANGED bound

\* An empty stream, or a failure after output: nothing to rotate any more.
FailsLate(c, specific) ==
    LET r == rq[c] IN
    /\ \/ r.at = "streaming"
       \/ r.at = "sending" /\ ~specific
    /\ keys' = AfterFailure(r.lease, r.role, {}, specific)
    /\ Ended(c)
    /\ UNCHANGED bound

\* The stream's first chunk commits the lease.
FirstChunk(c) ==
    /\ rq[c].at = "sending"
    /\ rq' = [rq EXCEPT ![c].at = "streaming"]
    /\ UNCHANGED <<keys, bound>>

Answered(c) ==
    /\ rq[c].at \in {"sending", "streaming"}
    /\ keys' = [keys EXCEPT ![rq[c].lease].streak = 0]
    /\ Ended(c)
    /\ UNCHANGED bound

\* A request-scoped error, an I/O error of unknown outcome, or a caller that
\* left: the key is unchanged.
EndsNeutral(c) ==
    /\ rq[c].at \in {"sending", "streaming"}
    /\ Ended(c)
    /\ UNCHANGED <<keys, bound>>

\* What a request does next; a provider's call has a time limit of its own.
RotationStep(c) ==
    \/ Acquire(c) \/ NoKeyLeft(c) \/ AllErrored(c) \/ Saturated(c)
    \/ \E specific \in BOOLEAN : FailsEarly(c, specific) \/ FailsLate(c, specific)
    \/ FirstChunk(c) \/ Answered(c) \/ EndsNeutral(c)

AdminChanges ==
    \E k \in Slots : RemoveKey(k) \/ \E tier \in Ranks : AddKey(k, tier) \/ SetTier(k, tier)

PoolNext ==
    \/ AdminChanges
    \/ \E k \in Slots : CooldownEnds(k)
    \/ \E u \in Sticky : BindingLapses(u)
    \/ \E c \in PoolClients :
          \/ \E u \in Sticky \cup {Drifter}, role \in Ranks : StartRotation(c, u, role)
          \/ RotationStep(c)

PoolSpec == PoolInit /\ [][PoolNext]_poolVars

-----------------------------------------------------------------------------
(* Properties *)

\* "a single upstream blip cannot take a sole-key route offline": the failure
\* of a request leaves its role a usable key, or takes the last one after more
\* failures in a row than are free; other requests fail and mute meanwhile.
LastKeyGoesLast ==
    [][\A c \in PoolClients :
          LET k == rq[c].lease IN
          k # 0 /\ ~keys[k].muted /\ keys'[k].muted /\ rq'[c].lease = 0 =>
              Usable(keys', rq[c].role) # {} \/ keys'[k].streak > Patience]_poolVars

=============================================================================
