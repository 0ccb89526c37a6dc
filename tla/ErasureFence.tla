---------------------------- MODULE ErasureFence ----------------------------
(***************************************************************************)
(* The hard delete of accounts, against the writers of api_logs: the       *)
(* admin's endpoints (routers/admin/users.py), the claim in the            *)
(* operational store, and the fence, its locks and the purge in the log    *)
(* store (erasure_fence.py, hard_delete_user_data).                        *)
(*                                                                         *)
(* A step is one statement or one transaction of a store.  A lock queue    *)
(* lets nobody share past a deletion that waits.  The two stores may be    *)
(* different databases.  One secret derives every digest; a log store      *)
(* started with another one does not serve.  What happens only to a row    *)
(* that names no account is left out.                                      *)
(***************************************************************************)
EXTENDS Naturals, FiniteSets

CONSTANTS Accounts,  \* numbered in the order of their lock keys
          Deleters,  \* calls of the hard-delete endpoint
          Resumers,  \* calls of the resume endpoint
          Writers,   \* log writes
          Nil

ASSUME ErasureAssumption ==
    /\ Accounts \subseteq Nat /\ IsFiniteSet(Accounts)
    /\ Nil \notin Deleters

VARIABLES
    user,       \* of each account: status, hard_delete_claim_token (Nil: not pending)
    fenced,     \* erasure_fence
    rows,       \* api_logs: the accounts each committed row names
    del,        \* of each deleter: where it is, its account
    res,        \* of each resumer
    wr,         \* of each writer: where it is, the accounts of its row, locks held
    overtaken   \* accounts fenced by a deleter that had lost its claim

erasureVars == <<user, fenced, rows, del, res, wr, overtaken>>

NoDelete == [at |-> "idle", of |-> Nil]
NoWrite == [at |-> "idle", names |-> {}, held |-> {}]

ErasureInit ==
    /\ user = [u \in Accounts |-> [status |-> "active", token |-> Nil]]
    /\ fenced = {} /\ rows = {} /\ overtaken = {}
    /\ del = [d \in Deleters |-> NoDelete]
    /\ res = [r \in Resumers |-> NoDelete]
    /\ wr = [w \in Writers |-> NoWrite]

-----------------------------------------------------------------------------
(* Advisory locks, held to the end of a transaction *)

Sharing(u) == {w \in Writers : u \in wr[w].held}
Erasing(u) == {d \in Deleters : del[d].at = "erasing" /\ del[d].of = u}
Queued(u) == {d \in Deleters : del[d].at = "queued" /\ del[d].of = u}

CanShare(u) == Erasing(u) = {} /\ Queued(u) = {}

-----------------------------------------------------------------------------
(* insert_api_logs_row *)

BeginWrite(w, names) ==
    /\ wr[w].at = "idle"
    /\ wr' = [wr EXCEPT ![w] = [at |-> "locking", names |-> names, held |-> {}]]
    /\ UNCHANGED <<user, fenced, rows, del, res, overtaken>>

\* A write that takes its locks in the order of the row.
AnyOf(left) == left

\* The order of api_logs_fence_keys.
NextKeys(left) == {u \in left : \A v \in left : u <= v}

\* lock_fence_keys_shared, one lock after the other.
LockShared(w) ==
    /\ wr[w].at = "locking"
    /\ LET left == wr[w].names \ wr[w].held IN
       \E u \in NextKeys(left) :
          /\ CanShare(u)
          /\ wr' = [wr EXCEPT ![w] = [at |-> IF left = {u} THEN "locked" ELSE "locking",
                                      names |-> @.names, held |-> @.held \cup {u}]]
    /\ UNCHANGED <<user, fenced, rows, del, res, overtaken>>

\* The insert, and not the fence before it, is what a write ends with.
InsertUnread(w) ==
    /\ wr[w].at = "locked"
    /\ wr' = [wr EXCEPT ![w].at = "inserted"]
    /\ UNCHANGED <<user, fenced, rows, del, res, overtaken>>

\* The fence is read and the row inserted, in a statement after the locks'.
InsertRow(w) ==
    /\ wr[w].at = "locked"
    /\ wr' = [wr EXCEPT ![w].at = IF wr[w].names \cap fenced = {} THEN "inserted"
                                                                 ELSE "suppressed"]
    /\ UNCHANGED <<user, fenced, rows, del, res, overtaken>>

CommitWrite(w) ==
    /\ wr[w].at \in {"inserted", "suppressed"}
    /\ rows' = IF wr[w].at = "inserted" THEN rows \cup {wr[w].names} ELSE rows
    /\ wr' = [wr EXCEPT ![w] = NoWrite]
    /\ UNCHANGED <<user, fenced, del, res, overtaken>>

\* A write that is lost with its connection.
LoseWrite(w) ==
    /\ wr[w].at # "idle"
    /\ wr' = [wr EXCEPT ![w] = NoWrite]
    /\ UNCHANGED <<user, fenced, rows, del, res, overtaken>>

-----------------------------------------------------------------------------
(* The hard delete *)

SoftDelete(u) ==
    /\ user[u].status = "active"
    /\ user' = [user EXCEPT ![u].status = "deleted"]
    /\ UNCHANGED <<fenced, rows, del, res, wr, overtaken>>

Goes(d, at) == del' = [del EXCEPT ![d].at = at]
Stops(d) == del' = [del EXCEPT ![d] = NoDelete]

BeginDelete(d, u) ==
    /\ del[d].at = "idle" /\ user[u].status = "deleted"
    /\ del' = [del EXCEPT ![d] = [at |-> "checked", of |-> u]]
    /\ UNCHANGED <<user, fenced, rows, res, wr, overtaken>>

\* begin_hard_delete_user: a later attempt takes the claim over.
Claim(d) ==
    LET u == del[d].of IN
    /\ del[d].at = "checked"
    /\ IF user[u].status = "deleted"
         THEN user' = [user EXCEPT ![u].token = d] /\ Goes(d, "claimed")
         ELSE Stops(d) /\ UNCHANGED user
    /\ UNCHANGED <<fenced, rows, res, wr, overtaken>>

\* hard_delete_user_data asks for the exclusive lock.
AskExclusive(d) ==
    /\ del[d].at = "claimed"
    /\ Goes(d, "queued")
    /\ UNCHANGED <<user, fenced, rows, res, wr, overtaken>>

\* The lock is granted once nobody shares it.
LockExclusive(d) ==
    /\ del[d].at = "queued"
    /\ Sharing(del[d].of) = {} /\ Erasing(del[d].of) = {}
    /\ Goes(d, "erasing")
    /\ UNCHANGED <<user, fenced, rows, res, wr, overtaken>>

Fence(d) ==
    /\ fenced' = fenced \cup {del[d].of}
    /\ overtaken' = IF user[del[d].of].token # d THEN overtaken \cup {del[d].of} ELSE overtaken

\* The tombstone, the purge and everything computed from the rows commit
\* together; the commit may be reported as a failure.
Erase(d, reported) ==
    /\ del[d].at = "erasing"
    /\ Fence(d)
    /\ rows' = {r \in rows : del[d].of \notin r}
    /\ Goes(d, IF reported THEN "erased" ELSE "failing")
    /\ UNCHANGED <<user, res, wr>>

\* The log store fails before anything is committed.
EraseFails(d) ==
    /\ del[d].at \in {"claimed", "queued", "erasing"}
    /\ Goes(d, "failing")
    /\ UNCHANGED <<user, fenced, rows, res, wr, overtaken>>

\* account_has_erasure_fence, which waits for deletions under way; a check
\* that fails counts as a fence.
CheckFence(d, known) ==
    /\ del[d].at = "failing"
    /\ known => CanShare(del[d].of)
    /\ IF known /\ del[d].of \notin fenced THEN Goes(d, "releasing") ELSE Stops(d)
    /\ UNCHANGED <<user, fenced, rows, res, wr, overtaken>>

\* release_hard_delete_user_claim.
ReleaseClaim(d) ==
    LET u == del[d].of IN
    /\ del[d].at = "releasing"
    /\ user' = IF user[u].status = "deleted" /\ user[u].token = d
                 THEN [user EXCEPT ![u].token = Nil] ELSE user
    /\ Stops(d)
    /\ UNCHANGED <<fenced, rows, res, wr, overtaken>>

\* hard_delete_user, the last step; a claim lost meanwhile stops it.
RemoveUser(d) ==
    LET u == del[d].of IN
    /\ del[d].at = "erased"
    /\ user' = IF user[u].status = "deleted" /\ user[u].token = d
                 THEN [user EXCEPT ![u] = [status |-> "gone", token |-> Nil]] ELSE user
    /\ Stops(d)
    /\ UNCHANGED <<fenced, rows, res, wr, overtaken>>

\* The process dies or the admin's call is cancelled, another store fails
\* after the fence, or the claim cannot be released: the claim is kept.
StopDelete(d) ==
    /\ del[d].at # "idle"
    /\ Stops(d)
    /\ UNCHANGED <<user, fenced, rows, res, wr, overtaken>>

-----------------------------------------------------------------------------
(* resume_user *)

CheckResume(r, u) ==
    /\ res[r].at = "idle" /\ user[u].status = "deleted"
    /\ res' = [res EXCEPT ![r] = [at |-> "checked", of |-> u]]
    /\ UNCHANGED <<user, fenced, rows, del, wr, overtaken>>

CheckNotFenced(r) ==
    LET u == res[r].of IN
    /\ res[r].at = "checked" /\ CanShare(u)
    /\ res' = [res EXCEPT ![r] = IF u \in fenced THEN NoDelete ELSE [@ EXCEPT !.at = "unfenced"]]
    /\ UNCHANGED <<user, fenced, rows, del, wr, overtaken>>

\* A resume that does not ask for a claim.
ResumeClaimed(r) ==
    LET u == res[r].of IN
    /\ res[r].at = "unfenced"
    /\ user' = IF user[u].status # "gone" THEN [user EXCEPT ![u].status = "active"] ELSE user
    /\ res' = [res EXCEPT ![r] = NoDelete]
    /\ UNCHANGED <<fenced, rows, del, wr, overtaken>>

\* The operational store refuses an account that is claimed.
Resume(r) ==
    LET u == res[r].of IN
    /\ res[r].at = "unfenced"
    /\ user' = IF user[u].status # "gone" /\ user[u].token = Nil
                 THEN [user EXCEPT ![u].status = "active"] ELSE user
    /\ res' = [res EXCEPT ![r] = NoDelete]
    /\ UNCHANGED <<fenced, rows, del, wr, overtaken>>

-----------------------------------------------------------------------------

WriterStep(w) == LockShared(w) \/ InsertRow(w) \/ CommitWrite(w)

DeleterStep(d) ==
    \/ Claim(d) \/ AskExclusive(d) \/ LockExclusive(d)
    \/ \E reported \in BOOLEAN : Erase(d, reported)
    \/ \E known \in BOOLEAN : CheckFence(d, known)
    \/ ReleaseClaim(d) \/ RemoveUser(d)

ErasureNext ==
    \/ \E u \in Accounts : SoftDelete(u)
    \/ \E w \in Writers :
          \/ \E names \in (SUBSET Accounts) \ {{}} : BeginWrite(w, names)
          \/ WriterStep(w) \/ LoseWrite(w)
    \/ \E d \in Deleters :
          \/ \E u \in Accounts : BeginDelete(d, u)
          \/ DeleterStep(d) \/ EraseFails(d) \/ StopDelete(d)
    \/ \E r \in Resumers :
          (\E u \in Accounts : CheckResume(r, u)) \/ CheckNotFenced(r) \/ Resume(r)

ErasureSpec == ErasureInit /\ [][ErasureNext]_erasureVars

-----------------------------------------------------------------------------
(* Properties *)

\* What keeps the log clean, step by step: a row is inserted under shared
\* locks on all it names, after its fences were read; a deletion has its
\* account's lock alone; and no committed row names a fenced account.
FenceInv ==
    /\ \A w \in Writers :
          /\ wr[w].held \subseteq wr[w].names
          /\ wr[w].at \in {"locked", "inserted"} => wr[w].held = wr[w].names
          /\ wr[w].at = "inserted" => wr[w].names \cap fenced = {}
    /\ \A d \in Deleters : del[d].at = "erasing" => Sharing(del[d].of) = {}
    /\ \A r \in rows : r \cap fenced = {}

\* What keeps an erased account from coming back: only a deleted account is
\* claimed; once its claim's holder has fenced it, the claim stays and nobody
\* is about to release it; and a user row goes only after the fence.
ClaimInv ==
    /\ \A u \in Accounts : user[u].token # Nil => user[u].status = "deleted"
    /\ \A u \in fenced \ overtaken :
          \/ user[u].status = "gone"
          \/ user[u].token # Nil /\ del[user[u].token] # [at |-> "releasing", of |-> u]
    /\ \A d \in Deleters : del[d].at = "erased" => del[d].of \in fenced
    /\ \A u \in Accounts : user[u].status = "gone" => u \in fenced

\* "once it COMMITs, no identifying row can exist and no new one can be
\* inserted": whatever was queued, begun or locked before the deletion.
NoRowOfErased == \A r \in rows : r \cap fenced = {}

\* A fenced account is not resumed: only where a later attempt took the claim
\* over, and gave it back, before the first one fenced the account.
ResumedOnlyIfOvertaken ==
    \A u \in fenced \ overtaken : user[u].status # "active"

\* "If a concurrent resume won first and reactivated the user, it raises
\* HardDeleteStateChanged": an account in use is not fenced.
ActiveNotFenced == \A u \in fenced : user[u].status # "active"

\* A user row goes only when the log of the account is fenced and empty of it.
GoneIsFenced ==
    \A u \in Accounts : user[u].status = "gone" => u \in fenced

\* "writers checking overlapping keys cannot deadlock", nor with deletions
\* that queue between them: while anyone waits for a lock, someone who holds
\* or waits for one can go on.
LockHoldersMove ==
    LET waiting == {w \in Writers : wr[w].at = "locking"}
        queued == {d \in Deleters : del[d].at = "queued"}
    IN  waiting # {} \/ queued # {} =>
          \/ \E w \in Writers : wr[w].at \in {"locked", "inserted", "suppressed"}
          \/ \E d \in Deleters : del[d].at = "erasing"
          \/ \E w \in waiting : \E u \in NextKeys(wr[w].names \ wr[w].held) : CanShare(u)
          \/ \E d \in queued : Sharing(del[d].of) = {}

=============================================================================
