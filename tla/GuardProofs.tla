---------------------------- MODULE GuardProofs -----------------------------
(***************************************************************************)
(* Two guards of the serving process, for every value of the constants:    *)
(* the fence around an account that is being erased (ErasureFence), for    *)
(* any accounts, writers, deletions and resumes; and the slots that bound  *)
(* what a user has in flight (UserSlots), for any number of requests,      *)
(* models and limits.                                                      *)
(***************************************************************************)
EXTENDS ErasureFence, UserSlots, Sums, TLAPS

\* A leaf that names no prover is tried with SMT, then with Zenon.
USE SMTT(30), ZenonT(30)

-----------------------------------------------------------------------------
(* ErasureFence *)

\* The types the invariant's steps need.
FenceTypes ==
    /\ wr \in [Writers -> [at : {"idle", "locking", "locked", "inserted", "suppressed"},
                           names : SUBSET Accounts, held : SUBSET Accounts]]
    /\ del \in [Deleters -> [at : {"idle", "checked", "claimed", "queued", "erasing", "erased",
                                   "failing", "releasing"},
                             of : Accounts \cup {Nil}]]

IFence == FenceTypes /\ FenceInv

\* The first state has neither writes, deletions nor rows.
LEMMA FenceInit == ErasureInit => IFence
  BY DEF ErasureInit, IFence, FenceTypes, FenceInv, NoDelete, NoWrite, Sharing

\* A step that changes neither the writers, the deletions, the fence nor the
\* rows keeps the invariant.
LEMMA FenceFrame ==
    ASSUME IFence, UNCHANGED <<wr, del, fenced, rows>> PROVE IFence'
  BY DEF IFence, FenceTypes, FenceInv, Sharing

\* A deletion that moves without entering or leaving its transaction.
LEMMA DeleterMoves ==
    ASSUME IFence, NEW d \in Deleters, UNCHANGED <<wr, fenced, rows>>,
           NEW e \in [at : {"idle", "checked", "claimed", "queued", "erased", "failing",
                            "releasing"},
                      of : Accounts \cup {Nil}],
           del' = [del EXCEPT ![d] = e]
    PROVE IFence'
<1>1. FenceTypes'
  BY DEF IFence, FenceTypes
<1>2. \A x \in Deleters : del'[x].at = "erasing" => Sharing(del[x].of)' = {}
  BY DEF IFence, FenceTypes, FenceInv, Sharing
<1> QED
  BY <1>1, <1>2 DEF IFence, FenceInv

\* Where a deletion goes, in the form of the lemma above.
LEMMA GoesSomewhere ==
    ASSUME IFence, NEW d \in Deleters,
           NEW at \in {"checked", "claimed", "queued", "erased", "failing", "releasing"},
           Goes(d, at), UNCHANGED <<wr, fenced, rows>>
    PROVE IFence'
<1> DEFINE e == [at |-> at, of |-> del[d].of]
<1>1. e \in [at : {"idle", "checked", "claimed", "queued", "erased", "failing", "releasing"},
             of : Accounts \cup {Nil}]
  BY DEF IFence, FenceTypes
<1>2. del' = [del EXCEPT ![d] = e]
  <2>1. del[d] \in [at : {"idle", "checked", "claimed", "queued", "erasing", "erased", "failing",
                          "releasing"},
                    of : Accounts \cup {Nil}]
    BY DEF IFence, FenceTypes
  <2>2. [del[d] EXCEPT !.at = at] = e
    BY <2>1
  <2>3. del' = [del EXCEPT ![d] = [del[d] EXCEPT !.at = at]]
    BY DEF Goes
  <2> QED
    BY <2>2, <2>3, Zenon
<1> HIDE DEF e
<1> QED
  BY <1>1, <1>2, DeleterMoves, Zenon

\* A deletion that ends, in the form of the same lemma.
LEMMA StopsSomewhere ==
    ASSUME IFence, NEW d \in Deleters, Stops(d), UNCHANGED <<wr, fenced, rows>>
    PROVE IFence'
<1>1. NoDelete \in [at : {"idle", "checked", "claimed", "queued", "erased", "failing",
                          "releasing"},
                    of : Accounts \cup {Nil}]
  BY DEF NoDelete
<1>2. del' = [del EXCEPT ![d] = NoDelete]
  BY DEF Stops
<1> HIDE DEF NoDelete
<1> QED
  BY <1>1, <1>2, DeleterMoves, Zenon

\* The writers' steps.
LEMMA WriterKeeps ==
    ASSUME IFence, NEW w \in Writers,
           \/ \E names \in (SUBSET Accounts) \ {{}} : BeginWrite(w, names)
           \/ WriterStep(w) \/ LoseWrite(w)
    PROVE IFence'
<1>1. ASSUME NEW names \in SUBSET Accounts, BeginWrite(w, names) PROVE IFence'
  BY <1>1 DEF BeginWrite, IFence, FenceTypes, FenceInv, Sharing
<1>2. CASE LockShared(w)
  <2>1. PICK u \in wr[w].names \ wr[w].held :
           /\ CanShare(u)
           /\ wr' = [wr EXCEPT ![w] =
                        [at |-> IF wr[w].names \ wr[w].held = {u} THEN "locked" ELSE "locking",
                         names |-> wr[w].names, held |-> wr[w].held \cup {u}]]
    BY <1>2, Zenon DEF LockShared, NextKeys
  <2>2. /\ wr[w].at = "locking"
        /\ UNCHANGED <<fenced, rows, del>>
    BY <1>2 DEF LockShared
  <2>3. wr[w] \in [at : {"idle", "locking", "locked", "inserted", "suppressed"},
                   names : SUBSET Accounts, held : SUBSET Accounts]
    BY DEF IFence, FenceTypes
  <2>4. FenceTypes'
    BY <2>1, <2>2, <2>3 DEF IFence, FenceTypes
  <2>5. \A x \in Writers :
           /\ wr'[x].held \subseteq wr'[x].names
           /\ wr'[x].at \in {"locked", "inserted"} => wr'[x].held = wr'[x].names
           /\ wr'[x].at = "inserted" => wr'[x].names \cap fenced' = {}
    BY <2>1, <2>2, <2>3, ZenonT(40) DEF IFence, FenceTypes, FenceInv
  <2>6. ASSUME NEW d \in Deleters, del'[d].at = "erasing" PROVE Sharing(del[d].of)' = {}
    <3>1. del[d].of # u
      BY <2>1, <2>2, <2>6 DEF CanShare, Erasing
    <3>2. Sharing(del[d].of) = {}
      BY <2>2, <2>6 DEF IFence, FenceInv
    <3> QED
      BY <2>1, <2>2, <3>1, <3>2 DEF Sharing, IFence, FenceTypes
  <2> QED
    BY <2>2, <2>4, <2>5, <2>6 DEF IFence, FenceInv
<1>3. CASE InsertRow(w)
  BY <1>3 DEF InsertRow, IFence, FenceTypes, FenceInv, Sharing
<1>4. CASE CommitWrite(w)
  <2>1. FenceTypes'
    BY <1>4, Zenon DEF CommitWrite, NoWrite, IFence, FenceTypes
  <2>2. \A r \in rows' : r \cap fenced' = {}
    BY <1>4 DEF CommitWrite, IFence, FenceInv
  <2> QED
    BY <1>4, <2>1, <2>2 DEF CommitWrite, NoWrite, IFence, FenceTypes, FenceInv, Sharing
<1>5. CASE LoseWrite(w)
  BY <1>5 DEF LoseWrite, NoWrite, IFence, FenceTypes, FenceInv, Sharing
<1> QED
  BY <1>1, <1>2, <1>3, <1>4, <1>5 DEF WriterStep

\* The hard delete's steps.
LEMMA DeleterKeeps ==
    ASSUME IFence, NEW d \in Deleters,
           \/ \E u \in Accounts : BeginDelete(d, u)
           \/ DeleterStep(d) \/ EraseFails(d) \/ StopDelete(d)
    PROVE IFence'
<1>1. ASSUME NEW u \in Accounts, BeginDelete(d, u) PROVE IFence'
  <2> DEFINE e == [at |-> "checked", of |-> u]
  <2>1. e \in [at : {"idle", "checked", "claimed", "queued", "erased", "failing", "releasing"},
               of : Accounts \cup {Nil}]
    OBVIOUS
  <2>2. del' = [del EXCEPT ![d] = e] /\ UNCHANGED <<wr, fenced, rows>>
    BY <1>1 DEF BeginDelete
  <2> HIDE DEF e
  <2> QED
    BY <2>1, <2>2, DeleterMoves, Zenon
<1>2. CASE Claim(d)
  BY <1>2, GoesSomewhere, StopsSomewhere DEF Claim
<1>3. CASE AskExclusive(d)
  BY <1>3, GoesSomewhere DEF AskExclusive
<1>4. CASE LockExclusive(d)
  <2>1. FenceTypes'
    BY <1>4 DEF LockExclusive, Goes, IFence, FenceTypes
  <2>2. \A x \in Deleters : del'[x].at = "erasing" => Sharing(del[x].of)' = {}
    BY <1>4 DEF LockExclusive, Goes, IFence, FenceTypes, FenceInv, Sharing
  <2> QED
    BY <1>4, <2>1, <2>2 DEF LockExclusive, IFence, FenceInv
<1>5. ASSUME NEW reported \in BOOLEAN, Erase(d, reported) PROVE IFence'
  <2>1. FenceTypes'
    BY <1>5 DEF Erase, Goes, IFence, FenceTypes
  <2>2. Sharing(del[d].of) = {} /\ UNCHANGED wr /\ fenced' = fenced \cup {del[d].of}
    BY <1>5 DEF Erase, Fence, IFence, FenceInv
  <2>3. \A w \in Writers : wr[w].at = "inserted" => wr[w].names \cap fenced' = {}
    BY <2>2 DEF Sharing, IFence, FenceInv
  <2>4. \A r \in rows' : r \cap fenced' = {}
    BY <1>5, <2>2 DEF Erase, IFence, FenceInv
  <2>5. \A x \in Deleters : del'[x].at = "erasing" => Sharing(del[x].of)' = {}
    BY <1>5, <2>2 DEF Erase, Goes, IFence, FenceTypes, FenceInv, Sharing
  <2> QED
    BY <2>1, <2>2, <2>3, <2>4, <2>5 DEF IFence, FenceInv
<1>6. CASE EraseFails(d)
  BY <1>6, GoesSomewhere DEF EraseFails
<1>7. ASSUME NEW known \in BOOLEAN, CheckFence(d, known) PROVE IFence'
  BY <1>7, GoesSomewhere, StopsSomewhere DEF CheckFence
<1>8. CASE ReleaseClaim(d) \/ RemoveUser(d) \/ StopDelete(d)
  BY <1>8, StopsSomewhere DEF ReleaseClaim, RemoveUser, StopDelete
<1> QED
  BY <1>1, <1>2, <1>3, <1>4, <1>5, <1>6, <1>7, <1>8 DEF DeleterStep

\* Every step keeps the invariant.
LEMMA FenceStep == IFence /\ [ErasureNext]_erasureVars => IFence'
<1> SUFFICES ASSUME IFence, [ErasureNext]_erasureVars PROVE IFence'
  OBVIOUS
<1>1. CASE \E u \in Accounts : SoftDelete(u)
  BY <1>1, FenceFrame DEF SoftDelete
<1>2. ASSUME NEW w \in Writers,
             \/ \E names \in (SUBSET Accounts) \ {{}} : BeginWrite(w, names)
             \/ WriterStep(w) \/ LoseWrite(w)
      PROVE IFence'
  BY <1>2, WriterKeeps
<1>3. ASSUME NEW d \in Deleters,
             \/ \E u \in Accounts : BeginDelete(d, u)
             \/ DeleterStep(d) \/ EraseFails(d) \/ StopDelete(d)
      PROVE IFence'
  BY <1>3, DeleterKeeps
<1>4. ASSUME NEW r \in Resumers,
             (\E u \in Accounts : CheckResume(r, u)) \/ CheckNotFenced(r) \/ Resume(r)
      PROVE IFence'
  BY <1>4, FenceFrame DEF CheckResume, CheckNotFenced, Resume
<1>5. CASE UNCHANGED erasureVars
  BY <1>5, FenceFrame DEF erasureVars
<1> QED
  BY <1>1, <1>2, <1>3, <1>4, <1>5 DEF ErasureNext

\* Once the hard delete of an account has committed, api_logs holds no row that
\* names it and never will again, whatever log writes were queued, begun or
\* holding locks when it did.
THEOREM ErasedLeavesNoRow == ErasureSpec => []NoRowOfErased
<1>1. IFence => NoRowOfErased
  BY DEF IFence, FenceInv, NoRowOfErased
<1> QED
  BY <1>1, FenceInit, FenceStep, PTL DEF ErasureSpec
-----------------------------------------------------------------------------
(* The claim *)

ClaimTypes ==
    /\ user \in [Accounts -> [status : {"active", "deleted", "gone"},
                              token : Deleters \cup {Nil}]]
    /\ del \in [Deleters -> [at : {"idle", "checked", "claimed", "queued", "erasing", "erased",
                                   "failing", "releasing"},
                             of : Accounts \cup {Nil}]]
    /\ res \in [Resumers -> [at : {"idle", "checked", "unfenced"}, of : Accounts \cup {Nil}]]
    /\ \A d \in Deleters : del[d].at # "idle" => del[d].of \in Accounts
    /\ \A r \in Resumers : res[r].at # "idle" => res[r].of \in Accounts
    /\ fenced \subseteq Accounts

IClaim == ClaimTypes /\ ClaimInv

\* The first state has neither claims nor fences.
LEMMA ClaimInit == ErasureInit => IClaim
  BY DEF ErasureInit, IClaim, ClaimTypes, ClaimInv, NoDelete

\* A step that changes neither the users, the deletions, the resumes nor the
\* fence keeps the invariant.
LEMMA ClaimFrame ==
    ASSUME IClaim, UNCHANGED <<user, del, res, fenced, overtaken>> PROVE IClaim'
  BY DEF IClaim, ClaimTypes, ClaimInv

\* A deletion that moves while users and fence stay: it may not come to release
\* an account that is fenced, nor to be done with one that is not.
LEMMA ClaimMoves ==
    ASSUME IClaim, NEW d \in Deleters, UNCHANGED <<user, res, fenced, overtaken>>,
           NEW e \in [at : {"idle", "checked", "claimed", "queued", "erasing", "erased", "failing",
                            "releasing"},
                      of : Accounts \cup {Nil}],
           e.at # "idle" => e.of \in Accounts,
           e.at = "erased" => e.of \in fenced,
           e.at = "releasing" => e.of \notin fenced,
           del' = [del EXCEPT ![d] = e]
    PROVE IClaim'
<1>1. ClaimTypes'
  BY DEF IClaim, ClaimTypes
<1>2. \A x \in Deleters : del'[x].at = "erased" => del'[x].of \in fenced'
  BY DEF IClaim, ClaimTypes, ClaimInv
<1>3. ASSUME NEW u \in fenced', u \notin overtaken'
      PROVE \/ user'[u].status = "gone"
            \/ user'[u].token # Nil /\ del'[user'[u].token] # [at |-> "releasing", of |-> u]
  <2>1. e # [at |-> "releasing", of |-> u]
    BY <1>3
  <2> QED
    BY <1>3, <2>1 DEF IClaim, ClaimTypes, ClaimInv
<1> QED
  BY <1>1, <1>2, <1>3 DEF IClaim, ClaimInv

\* Where a deletion goes, in the form of the lemma above.
LEMMA ClaimGoes ==
    ASSUME IClaim, NEW d \in Deleters, del[d].at # "idle",
           NEW at \in {"claimed", "queued", "erasing", "failing", "releasing"},
           at = "releasing" => del[d].of \notin fenced,
           Goes(d, at), UNCHANGED <<user, res, fenced, overtaken>>
    PROVE IClaim'
<1> DEFINE e == [at |-> at, of |-> del[d].of]
<1>1. /\ e \in [at : {"idle", "checked", "claimed", "queued", "erasing", "erased", "failing",
                      "releasing"},
                of : Accounts \cup {Nil}]
      /\ e.of \in Accounts /\ e.at # "erased"
      /\ e.at = "releasing" => e.of \notin fenced
  BY DEF IClaim, ClaimTypes
<1>2. del' = [del EXCEPT ![d] = e]
  <2>1. [del[d] EXCEPT !.at = at] = e
    BY DEF IClaim, ClaimTypes
  <2>2. del' = [del EXCEPT ![d] = [del[d] EXCEPT !.at = at]]
    BY DEF Goes
  <2> QED
    BY <2>1, <2>2, Zenon
<1> HIDE DEF e
<1> QED
  BY <1>1, <1>2, ClaimMoves, Zenon

\* A deletion that ends.
LEMMA ClaimStops ==
    ASSUME IClaim, NEW d \in Deleters, Stops(d), UNCHANGED <<user, res, fenced, overtaken>>
    PROVE IClaim'
<1>1. /\ NoDelete \in [at : {"idle", "checked", "claimed", "queued", "erasing", "erased",
                             "failing", "releasing"},
                       of : Accounts \cup {Nil}]
      /\ NoDelete.at = "idle"
  BY DEF NoDelete
<1>2. del' = [del EXCEPT ![d] = NoDelete]
  BY DEF Stops
<1> HIDE DEF NoDelete
<1> QED
  BY <1>1, <1>2, ClaimMoves, Zenon

\* The claim, its release and the removal of the user row.
LEMMA ClaimChanges ==
    ASSUME IClaim, NEW d \in Deleters, Claim(d) \/ ReleaseClaim(d) \/ RemoveUser(d)
    PROVE IClaim'
<1> DEFINE u == del[d].of
<1>1. CASE Claim(d) /\ user[u].status = "deleted"
  <2>1. /\ u \in Accounts /\ del[d].at = "checked"
        /\ user' = [user EXCEPT ![u].token = d]
        /\ del' = [del EXCEPT ![d].at = "claimed"]
        /\ UNCHANGED <<fenced, res, overtaken>>
    BY <1>1 DEF Claim, Goes, IClaim, ClaimTypes
  <2>2. ClaimTypes'
    <3>1. user' \in [Accounts -> [status : {"active", "deleted", "gone"},
                                  token : Deleters \cup {Nil}]]
      BY <2>1 DEF IClaim, ClaimTypes
    <3>2. /\ del' \in [Deleters -> [at : {"idle", "checked", "claimed", "queued", "erasing",
                                          "erased", "failing", "releasing"},
                                    of : Accounts \cup {Nil}]]
          /\ \A x \in Deleters : del'[x].at # "idle" => del'[x].of \in Accounts
      BY <2>1 DEF IClaim, ClaimTypes
    <3> QED
      BY <2>1, <3>1, <3>2 DEF IClaim, ClaimTypes
  <2>3. ASSUME NEW v \in fenced', v \notin overtaken'
        PROVE \/ user'[v].status = "gone"
              \/ user'[v].token # Nil /\ del'[user'[v].token] # [at |-> "releasing", of |-> v]
    BY <2>1, <2>3, ErasureAssumption, ZenonT(40) DEF IClaim, ClaimTypes, ClaimInv
  <2> QED
    BY <1>1, <2>1, <2>2, <2>3 DEF IClaim, ClaimTypes, ClaimInv
<1>2. CASE \/ Claim(d) /\ user[u].status # "deleted"
           \/ (ReleaseClaim(d) \/ RemoveUser(d)) /\ UNCHANGED user
  BY <1>2, ClaimStops DEF Claim, ReleaseClaim, RemoveUser
<1>3. CASE ReleaseClaim(d) /\ user[u].token = d /\ user' # user
  <2>1. /\ u \in Accounts /\ del[d].at = "releasing"
        /\ user[u].status = "deleted"
        /\ user' = [user EXCEPT ![u].token = Nil]
        /\ del' = [del EXCEPT ![d] = NoDelete]
        /\ UNCHANGED <<fenced, res, overtaken>>
    BY <1>3 DEF ReleaseClaim, Stops, IClaim, ClaimTypes
  <2>2. ClaimTypes'
    BY <2>1 DEF NoDelete, IClaim, ClaimTypes
  <2>3. u \notin fenced \ overtaken
    <3>1. del[d] = [at |-> "releasing", of |-> u]
      BY <2>1 DEF IClaim, ClaimTypes
    <3> QED
      BY <1>3, <2>1, <3>1 DEF IClaim, ClaimInv
  <2>4. ASSUME NEW v \in fenced', v \notin overtaken'
        PROVE \/ user'[v].status = "gone"
              \/ user'[v].token # Nil /\ del'[user'[v].token] # [at |-> "releasing", of |-> v]
    BY <2>1, <2>3, <2>4 DEF NoDelete, IClaim, ClaimTypes, ClaimInv
  <2> QED
    BY <2>1, <2>2, <2>4 DEF NoDelete, IClaim, ClaimTypes, ClaimInv
<1>4. CASE RemoveUser(d) /\ user[u].token = d /\ user' # user
  <2>1. /\ u \in Accounts /\ del[d].at = "erased"
        /\ user' = [user EXCEPT ![u] = [status |-> "gone", token |-> Nil]]
        /\ del' = [del EXCEPT ![d] = NoDelete]
        /\ UNCHANGED <<fenced, res, overtaken>>
    BY <1>4 DEF RemoveUser, Stops, IClaim, ClaimTypes
  <2>2. ClaimTypes'
    BY <2>1 DEF NoDelete, IClaim, ClaimTypes
  <2>3. u \in fenced
    BY <2>1 DEF IClaim, ClaimInv
  <2>4. ASSUME NEW v \in fenced', v \notin overtaken'
        PROVE \/ user'[v].status = "gone"
              \/ user'[v].token # Nil /\ del'[user'[v].token] # [at |-> "releasing", of |-> v]
    BY <2>1, <2>4 DEF NoDelete, IClaim, ClaimTypes, ClaimInv
  <2> QED
    BY <2>1, <2>2, <2>3, <2>4 DEF NoDelete, IClaim, ClaimTypes, ClaimInv
<1> QED
  BY <1>1, <1>2, <1>3, <1>4, ZenonT(40) DEF ReleaseClaim, RemoveUser

\* The hard delete's steps.
LEMMA ClaimDeleter ==
    ASSUME IClaim, NEW d \in Deleters,
           \/ \E u \in Accounts : BeginDelete(d, u)
           \/ DeleterStep(d) \/ EraseFails(d) \/ StopDelete(d)
    PROVE IClaim'
<1>1. ASSUME NEW u \in Accounts, BeginDelete(d, u) PROVE IClaim'
  <2> DEFINE e == [at |-> "checked", of |-> u]
  <2>1. /\ e \in [at : {"idle", "checked", "claimed", "queued", "erasing", "erased", "failing",
                        "releasing"},
                  of : Accounts \cup {Nil}]
        /\ e.at = "checked" /\ e.of \in Accounts
    OBVIOUS
  <2>2. del' = [del EXCEPT ![d] = e] /\ UNCHANGED <<user, res, fenced, overtaken>>
    BY <1>1, Zenon DEF BeginDelete
  <2> HIDE DEF e
  <2> QED
    BY <2>1, <2>2, ClaimMoves, Zenon
<1>2. CASE AskExclusive(d)
  BY <1>2, ClaimGoes DEF AskExclusive
<1>3. CASE LockExclusive(d)
  BY <1>3, ClaimGoes DEF LockExclusive
<1>4. CASE EraseFails(d)
  BY <1>4, ClaimGoes DEF EraseFails
<1>5. ASSUME NEW known \in BOOLEAN, CheckFence(d, known) PROVE IClaim'
  BY <1>5, ClaimGoes, ClaimStops DEF CheckFence
<1>6. CASE StopDelete(d)
  BY <1>6, ClaimStops DEF StopDelete
<1>7. ASSUME NEW reported \in BOOLEAN, Erase(d, reported) PROVE IClaim'
  <2> DEFINE at == IF reported THEN "erased" ELSE "failing"
  <2>1. /\ del[d].of \in Accounts
        /\ del' = [del EXCEPT ![d].at = at]
        /\ fenced' = fenced \cup {del[d].of}
        /\ overtaken' = IF user[del[d].of].token # d THEN overtaken \cup {del[d].of}
                                                     ELSE overtaken
        /\ UNCHANGED <<user, res>>
    BY <1>7 DEF Erase, Fence, Goes, IClaim, ClaimTypes
  <2>2. at \in {"erased", "failing"}
    OBVIOUS
  <2> HIDE DEF at
  <2>3. ClaimTypes'
    BY <2>1, <2>2 DEF IClaim, ClaimTypes
  <2>4. \A x \in Deleters : del'[x].at = "erased" => del'[x].of \in fenced'
    BY <2>1 DEF IClaim, ClaimTypes, ClaimInv
  <2>5. ASSUME NEW v \in fenced', v \notin overtaken'
        PROVE \/ user'[v].status = "gone"
              \/ user'[v].token # Nil /\ del'[user'[v].token] # [at |-> "releasing", of |-> v]
    <3>1. CASE v = del[d].of
      <4>1. user[v].token = d /\ del'[d].at # "releasing"
        BY <2>1, <2>2, <2>5, <3>1 DEF IClaim, ClaimTypes
      <4> QED
        BY <2>1, <4>1, ErasureAssumption
    <3>2. CASE v # del[d].of
      BY <2>1, <2>2, <2>5, <3>2 DEF IClaim, ClaimTypes, ClaimInv
    <3> QED
      BY <3>1, <3>2
  <2> QED
    BY <2>1, <2>3, <2>4, <2>5 DEF IClaim, ClaimInv
<1> QED
  BY <1>1, <1>2, <1>3, <1>4, <1>5, <1>6, <1>7, ClaimChanges DEF DeleterStep

\* The steps of a resume.
LEMMA ClaimResumer ==
    ASSUME IClaim, NEW r \in Resumers,
           (\E u \in Accounts : CheckResume(r, u)) \/ CheckNotFenced(r) \/ Resume(r)
    PROVE IClaim'
<1>1. ASSUME NEW u \in Accounts, CheckResume(r, u) PROVE IClaim'
  BY <1>1 DEF CheckResume, IClaim, ClaimTypes, ClaimInv
<1>2. CASE CheckNotFenced(r)
  <2>1. ClaimTypes'
    BY <1>2 DEF CheckNotFenced, NoDelete, IClaim, ClaimTypes
  <2> QED
    BY <1>2, <2>1 DEF CheckNotFenced, IClaim, ClaimInv
<1>3. CASE Resume(r)
  <2> DEFINE u == res[r].of
  <2>1. /\ u \in Accounts
        /\ user' = IF user[u].status # "gone" /\ user[u].token = Nil
                     THEN [user EXCEPT ![u].status = "active"] ELSE user
        /\ res' = [res EXCEPT ![r] = NoDelete]
        /\ UNCHANGED <<fenced, del, overtaken>>
    BY <1>3 DEF Resume, IClaim, ClaimTypes
  <2>2. ClaimTypes'
    BY <2>1 DEF NoDelete, IClaim, ClaimTypes
  <2>3. ClaimInv'
    BY <2>1 DEF IClaim, ClaimTypes, ClaimInv
  <2> QED
    BY <2>2, <2>3 DEF IClaim
<1> QED
  BY <1>1, <1>2, <1>3

\* Every step keeps the invariant.
LEMMA ClaimStep == IClaim /\ [ErasureNext]_erasureVars => IClaim'
<1> SUFFICES ASSUME IClaim, [ErasureNext]_erasureVars PROVE IClaim'
  OBVIOUS
<1>1. ASSUME NEW u \in Accounts, SoftDelete(u) PROVE IClaim'
  BY <1>1 DEF SoftDelete, IClaim, ClaimTypes, ClaimInv
<1>2. ASSUME NEW w \in Writers,
             \/ \E names \in (SUBSET Accounts) \ {{}} : BeginWrite(w, names)
             \/ WriterStep(w) \/ LoseWrite(w)
      PROVE IClaim'
  BY <1>2, ClaimFrame
     DEF BeginWrite, WriterStep, LockShared, InsertRow, CommitWrite, LoseWrite
<1>3. ASSUME NEW d \in Deleters,
             \/ \E u \in Accounts : BeginDelete(d, u)
             \/ DeleterStep(d) \/ EraseFails(d) \/ StopDelete(d)
      PROVE IClaim'
  BY <1>3, ClaimDeleter
<1>4. ASSUME NEW r \in Resumers,
             (\E u \in Accounts : CheckResume(r, u)) \/ CheckNotFenced(r) \/ Resume(r)
      PROVE IClaim'
  BY <1>4, ClaimResumer
<1>5. CASE UNCHANGED erasureVars
  BY <1>5, ClaimFrame DEF erasureVars
<1> QED
  BY <1>1, <1>2, <1>3, <1>4, <1>5 DEF ErasureNext

\* An account whose log was erased by the holder of its claim is never in use
\* again: no resume, however it interleaves with the deletion's checks, its
\* failures and later attempts, brings it back.
THEOREM ErasedStaysDeleted == ErasureSpec => []ResumedOnlyIfOvertaken
<1>1. IClaim => ResumedOnlyIfOvertaken
  BY Zenon DEF IClaim, ClaimTypes, ClaimInv, ResumedOnlyIfOvertaken
<1> QED
  BY <1>1, ClaimInit, ClaimStep, PTL DEF ErasureSpec

\* A user row that hard_delete_user has removed left a fenced log behind.
THEOREM RemovedIsFenced == ErasureSpec => []GoneIsFenced
<1>1. IClaim => GoneIsFenced
  BY DEF IClaim, ClaimInv, GoneIsFenced
<1> QED
  BY <1>1, ClaimInit, ClaimStep, PTL DEF ErasureSpec

-----------------------------------------------------------------------------
(* The order of the locks *)

\* A write takes its locks in the order of their keys, and waits only while it
\* lacks one; what it does not hold comes after all it holds.
ILock ==
    \A w \in Writers :
        /\ wr[w].at = "idle" => wr[w].held = {}
        /\ wr[w].at = "locking" =>
             /\ wr[w].names \ wr[w].held # {}
             /\ \A u \in wr[w].held, v \in wr[w].names \ wr[w].held : u < v

\* A finite set of numbers has a greatest.
LEMMA GreatestKey ==
    ASSUME NEW T \in SUBSET Nat, T # {}, IsFiniteSet(T)
    PROVE  \E x \in T : \A y \in T : y <= x
<1> DEFINE Topped(S) == \E x \in S : \A y \in S : y <= x
           Good == {S \in SUBSET T : S = {} \/ Topped(S)}
<1>1. ASSUME NEW S \in SUBSET T, \A x \in S : S \ {x} \in Good
      PROVE  S \in Good
  <2>1. SUFFICES ASSUME NEW x \in S PROVE Topped(S)
    OBVIOUS
  <2>2. \A y \in S : y \in Nat
    OBVIOUS
  <2>3. CASE S \ {x} = {}
    <3>1. \A y \in S : y = x
      BY <2>3
    <3>2. QED
      BY <2>1, <2>2, <3>1
  <2>4. CASE S \ {x} # {}
    <3>1. PICK z \in S \ {x} : \A y \in S \ {x} : y <= z
      BY <1>1, <2>1, <2>4, Zenon
    <3>2. CASE x <= z
      BY <2>2, <3>1, <3>2
    <3>3. CASE ~(x <= z)
      BY <2>1, <2>2, <3>1, <3>3
    <3>4. QED
      BY <3>2, <3>3
  <2>5. QED
    BY <2>3, <2>4
<1>2. Good = SUBSET T
  <2>1. Good \in SUBSET SUBSET T
    OBVIOUS
  <2> HIDE DEF Good
  <2>2. QED
    BY <1>1, <2>1, SubsetsOf, Zenon
<1>3. QED
  BY <1>2, Zenon

\* No step takes a lock out of order.
LEMMA LockStep == IFence /\ ILock /\ [ErasureNext]_erasureVars => ILock'
<1> SUFFICES ASSUME IFence, ILock, [ErasureNext]_erasureVars PROVE ILock'
  OBVIOUS
<1>1. ASSUME UNCHANGED wr PROVE ILock'
  BY <1>1 DEF ILock
<1>2. ASSUME NEW w \in Writers, NEW names \in (SUBSET Accounts) \ {{}}, BeginWrite(w, names)
      PROVE  ILock'
  <2>1. names # {} /\ wr' = [wr EXCEPT ![w] = [at |-> "locking", names |-> names, held |-> {}]]
    BY <1>2 DEF BeginWrite
  <2>2. /\ \A x \in Writers \ {w} : wr'[x] = wr[x]
        /\ wr'[w].at = "locking" /\ wr'[w].names = names /\ wr'[w].held = {}
    BY <2>1 DEF IFence, FenceTypes
  <2>3. names \ {} # {}
    BY <2>1
  <2>4. QED
    BY <2>2, <2>3 DEF ILock
<1>3. ASSUME NEW w \in Writers, LockShared(w)
      PROVE  ILock'
  <2> DEFINE left == wr[w].names \ wr[w].held
  <2>1. PICK u \in left :
           /\ \A v \in left : u <= v
           /\ wr' = [wr EXCEPT ![w] = [at |-> IF left = {u} THEN "locked" ELSE "locking",
                                       names |-> wr[w].names, held |-> wr[w].held \cup {u}]]
    BY <1>3, Zenon DEF LockShared, NextKeys
  <2>2. wr[w].at = "locking" /\ wr[w].names \subseteq Accounts /\ wr[w].held \subseteq Accounts
    BY <1>3 DEF LockShared, IFence, FenceTypes
  <2>3. \A h \in wr[w].held, v \in left : h < v
    BY <2>2 DEF ILock
  <2>4. \A x \in Writers \ {w} : wr'[x] = wr[x]
    BY <2>1 DEF IFence, FenceTypes
  <2>5. /\ wr'[w].at = IF left = {u} THEN "locked" ELSE "locking"
        /\ wr'[w].names = wr[w].names
        /\ wr'[w].held = wr[w].held \cup {u}
    BY <2>1 DEF IFence, FenceTypes
  <2>6. wr'[w].names \ wr'[w].held = left \ {u}
    BY <2>5
  <2>7. \A h \in wr[w].held \cup {u}, v \in left \ {u} : h < v
    <3>1. \A v \in left : v \in Nat
      BY <2>2, ErasureAssumption, Zenon
    <3>2. \A v \in left \ {u} : u < v
      BY <2>1, <3>1
    <3>3. QED
      BY <2>3, <3>2
  <2>8. wr'[w].at = "locking" => left \ {u} # {}
    BY <2>1, <2>5
  <2> HIDE DEF left
  <2>9. QED
    BY <2>4, <2>5, <2>6, <2>7, <2>8 DEF ILock
<1>4. ASSUME NEW w \in Writers, InsertRow(w)
      PROVE  ILock'
  BY <1>4 DEF InsertRow, ILock, IFence, FenceTypes
<1>5. ASSUME NEW w \in Writers, CommitWrite(w) \/ LoseWrite(w)
      PROVE  ILock'
  BY <1>5 DEF CommitWrite, LoseWrite, NoWrite, ILock, IFence, FenceTypes
<1>6. ASSUME NEW d \in Deleters,
             \/ \E u \in Accounts : BeginDelete(d, u)
             \/ DeleterStep(d) \/ EraseFails(d) \/ StopDelete(d)
      PROVE  ILock'
  BY <1>1, <1>6 DEF BeginDelete, DeleterStep, Claim, AskExclusive, LockExclusive, Erase, EraseFails,
                    CheckFence, ReleaseClaim, RemoveUser, StopDelete
<1>7. CASE \/ \E u \in Accounts : SoftDelete(u)
           \/ \E r \in Resumers :
                (\E u \in Accounts : CheckResume(r, u)) \/ CheckNotFenced(r) \/ Resume(r)
           \/ UNCHANGED erasureVars
  BY <1>1, <1>7, Zenon DEF SoftDelete, CheckResume, CheckNotFenced, Resume, erasureVars
<1>8. QED
  BY <1>2, <1>3, <1>4, <1>5, <1>6, <1>7 DEF ErasureNext, WriterStep

\* Where everyone waits, the writer that waits for the greatest key waits for a
\* deletion, which waits for a writer that holds that key and so waits for a
\* greater one.
LEMMA SomeoneMoves ==
    ASSUME IFence, ILock
    PROVE  LockHoldersMove
<1> DEFINE waiting == {w \in Writers : wr[w].at = "locking"}
           queued == {d \in Deleters : del[d].at = "queued"}
           Next1(w) == NextKeys(wr[w].names \ wr[w].held)
           wanted == {u \in Accounts : \E w \in waiting : u \in Next1(w)}
<1> SUFFICES ASSUME waiting # {} \/ queued # {},
                    ~ \E w \in Writers : wr[w].at \in {"locked", "inserted", "suppressed"},
                    ~ \E d \in Deleters : del[d].at = "erasing",
                    ~ \E w \in waiting : \E u \in Next1(w) : CanShare(u),
                    ~ \E d \in queued : Sharing(del[d].of) = {}
             PROVE  FALSE
  BY Zenon DEF LockHoldersMove
<1>1. ASSUME NEW w \in waiting
      PROVE  /\ Next1(w) # {}
             /\ Next1(w) \subseteq wanted
             /\ \A u \in Next1(w), h \in wr[w].held : h < u
  <2>1. /\ wr[w].names \ wr[w].held \in SUBSET Nat
        /\ wr[w].names \ wr[w].held \subseteq Accounts
        /\ wr[w].names \ wr[w].held # {}
        /\ \A h \in wr[w].held, v \in wr[w].names \ wr[w].held : h < v
    BY <1>1, ErasureAssumption, Zenon DEF IFence, FenceTypes, ILock
  <2>2. Next1(w) # {}
    BY <2>1, LeastNumber, ZenonT(40) DEF NextKeys
  <2>3. QED
    BY <1>1, <2>1, <2>2 DEF NextKeys
<1>2. ASSUME NEW u, Sharing(u) # {}
      PROVE  \E w \in waiting : u \in wr[w].held
  <2>1. PICK w \in Writers : u \in wr[w].held
    BY <1>2 DEF Sharing
  <2>2. wr[w].at = "locking"
    BY <2>1 DEF IFence, FenceTypes, ILock
  <2>3. QED
    BY <2>1, <2>2
<1>3. waiting # {}
  BY <1>2
<1>4. wanted # {}
  BY <1>1, <1>3
<1>5. wanted \in SUBSET Nat /\ IsFiniteSet(wanted)
  BY ErasureAssumption, FS_Subset, Zenon
<1> HIDE DEF wanted
<1>6. PICK top \in wanted : \A u \in wanted : u <= top
  BY <1>4, <1>5, GreatestKey
<1>7. PICK w \in waiting : top \in Next1(w)
  BY <1>6 DEF wanted
<1>8. PICK d \in queued : del[d].of = top
  BY <1>7, ZenonT(40) DEF CanShare, Erasing, Queued
<1>9. PICK x \in waiting : top \in wr[x].held
  BY <1>2, <1>8
<1>10. PICK u \in Next1(x) : u \in wanted /\ top < u
  BY <1>1, <1>9
<1>11. top \in Nat /\ u \in Nat /\ u <= top
  BY <1>5, <1>6, <1>10
<1>12. QED
  BY <1>10, <1>11

\* Log writes that share keys in any combination, and deletions that queue
\* between them, never all wait for one another: every write asks for its locks
\* in the order of api_logs_fence_keys.
THEOREM FenceNeverDeadlocks == ErasureSpec => []LockHoldersMove
<1>1. ErasureInit => ILock
  BY DEF ErasureInit, ILock, NoWrite
<1>2. IFence /\ ILock => LockHoldersMove
  BY SomeoneMoves
<1>3. QED
  BY <1>1, <1>2, FenceInit, FenceStep, LockStep, PTL DEF ErasureSpec

-----------------------------------------------------------------------------
(* UserSlots *)

\* What is kept of one request of the user.
Visit ==
    [at : {"idle", "asking", "told", "reading", "running"}, budget : Budgets, cap : Nat,
     model : Models \cup {NoModel}]

SlotTypes ==
    /\ slots \in [Budgets -> [capacity : Nat, in_use : Nat]]
    /\ load \in [Models -> Nat]
    /\ visit \in [Visitors -> Visit]
    /\ limit \in Nat

SlotsIInv == SlotTypes /\ HeldByRequests

InBudget(b) == {c \in Holders : visit[c].budget = b}
OnModel(m) == {c \in Holders : visit[c].at = "running" /\ visit[c].model = m}

\* HeldByRequests, in these names.
LEMMA HeldForm ==
    HeldByRequests <=> /\ \A b \in Budgets : slots[b].in_use = Cardinality(InBudget(b))
                       /\ \A m \in Models : load[m] = Cardinality(OnModel(m))
                       /\ reserved = {c \in Holders : ~Counting(c)}
BY DEF HeldByRequests, InBudget, OnModel

\* One element more, or one less.
LEMMA Sizes ==
    ASSUME NEW S, IsFiniteSet(S), NEW c
    PROVE  /\ Cardinality(S) \in Nat
           /\ IsFiniteSet(S \cup {c}) /\ IsFiniteSet(S \ {c})
           /\ Cardinality(S \cup {c}) = IF c \in S THEN Cardinality(S) ELSE Cardinality(S) + 1
           /\ Cardinality(S \ {c}) = IF c \in S THEN Cardinality(S) - 1 ELSE Cardinality(S)
           /\ c \in S => Cardinality(S) > 0
<1>1. Cardinality(S) \in Nat
  BY FS_CardinalityType
<1>2. /\ IsFiniteSet(S \cup {c})
      /\ Cardinality(S \cup {c}) = IF c \in S THEN Cardinality(S) ELSE Cardinality(S) + 1
  BY FS_AddElement
<1>3. /\ IsFiniteSet(S \ {c})
      /\ Cardinality(S \ {c}) = IF c \in S THEN Cardinality(S) - 1 ELSE Cardinality(S)
  BY FS_RemoveElement
<1>4. Cardinality(S \ {c}) \in Nat
  BY <1>3, FS_CardinalityType
<1>5. c \in S => Cardinality(S) > 0
  BY <1>1, <1>3, <1>4
<1> QED
  BY <1>1, <1>2, <1>3, <1>5

\* The sets HeldByRequests counts are finite.
LEMMA HoldersFinite ==
    /\ \A b : IsFiniteSet(InBudget(b))
    /\ \A m : IsFiniteSet(OnModel(m))
<1>1. IsFiniteSet(Visitors)
  BY SlotsAssumption
<1>2. \A b : InBudget(b) \subseteq Visitors
  BY DEF InBudget, Holders
<1>3. \A m : OnModel(m) \subseteq Visitors
  BY DEF OnModel, Holders
<1> QED
  BY <1>1, <1>2, <1>3, FS_Subset

\* How those sets change when one request does.
LEMMA OneVisitChanges ==
    ASSUME SlotTypes, NEW c \in Visitors, NEW x \in Visit, visit' = [visit EXCEPT ![c] = x]
    PROVE  /\ \A b \in Budgets :
                 /\ InBudget(b)' \ {c} = InBudget(b) \ {c}
                 /\ c \in InBudget(b) <=> visit[c].at \in {"reading", "running"} /\ visit[c].budget = b
                 /\ c \in InBudget(b)' <=> x.at \in {"reading", "running"} /\ x.budget = b
           /\ \A m \in Models :
                 /\ OnModel(m)' \ {c} = OnModel(m) \ {c}
                 /\ c \in OnModel(m) <=> visit[c].at = "running" /\ visit[c].model = m
                 /\ c \in OnModel(m)' <=> x.at = "running" /\ x.model = m
           /\ {d \in Holders : ~Counting(d)}' \ {c} = {d \in Holders : ~Counting(d)} \ {c}
           /\ c \in {d \in Holders : ~Counting(d)}'
                 <=> x.at \in {"reading", "running"} /\ x.budget # "count"
<1>1. visit'[c] = x /\ \A d \in Visitors : d # c => visit'[d] = visit[d]
  BY DEF SlotTypes
<1> QED
  BY <1>1 DEF InBudget, OnModel, Holders, Counting

\* What an element adds to the size of a set.
One(c, S) == IF c \in S THEN 1 ELSE 0

\* A set without an element of it.
LEMMA SizeWithout ==
    ASSUME NEW S, IsFiniteSet(S), NEW c
    PROVE  Cardinality(S \ {c}) = Cardinality(S) - One(c, S) /\ Cardinality(S) \in Nat
<1>1. Cardinality(S) \in Nat
  BY Sizes, ZenonT(40)
<1>2. CASE c \in S
  <2>1. One(c, S) = 1
    BY <1>2 DEF One
  <2>2. Cardinality(S \ {c}) = Cardinality(S) - 1
    BY <1>2, Sizes
  <2> QED
    BY <1>1, <2>1, <2>2
<1>3. CASE c \notin S
  <2>1. One(c, S) = 0
    BY <1>3 DEF One
  <2>2. Cardinality(S \ {c}) = Cardinality(S)
    BY <1>3, Sizes
  <2> QED
    BY <1>1, <2>1, <2>2
<1> QED
  BY <1>2, <1>3

\* Two sets that differ at most in one element.
LEMMA SizeChanges ==
    ASSUME NEW S, NEW T, IsFiniteSet(S), NEW c, T \ {c} = S \ {c}
    PROVE  Cardinality(T) = Cardinality(S) - One(c, S) + One(c, T)
<1>1. IsFiniteSet(T)
  <2>1. T \subseteq S \cup {c} /\ IsFiniteSet(S \cup {c})
    BY Sizes
  <2> QED
    BY <2>1, FS_Subset
<1>2. Cardinality(S \ {c}) = Cardinality(S) - One(c, S) /\ Cardinality(S) \in Nat
  BY SizeWithout
<1>3. Cardinality(T \ {c}) = Cardinality(T) - One(c, T) /\ Cardinality(T) \in Nat
  BY <1>1, SizeWithout
<1>4. Cardinality(T \ {c}) = Cardinality(S \ {c})
  OBVIOUS
<1>5. One(c, S) \in Nat /\ One(c, T) \in Nat
  BY DEF One
<1> QED
  BY <1>2, <1>3, <1>4, <1>5

\* A step of one request that takes what the request holds afterwards and
\* gives back what it held before.
LEMMA VisitKeeps ==
    ASSUME SlotsIInv, NEW c \in Visitors, NEW x \in Visit, visit' = [visit EXCEPT ![c] = x],
           limit' = limit,
           slots' \in [Budgets -> [capacity : Nat, in_use : Nat]],
           load' \in [Models -> Nat],
           \A b \in Budgets :
              slots'[b].in_use = slots[b].in_use - One(c, InBudget(b)) + One(c, InBudget(b)'),
           \A m \in Models : load'[m] = load[m] - One(c, OnModel(m)) + One(c, OnModel(m)'),
           reserved' = IF x.at \in {"reading", "running"} /\ x.budget # "count"
                         THEN reserved \cup {c} ELSE reserved \ {c}
    PROVE  SlotsIInv'
<1>1. SlotTypes'
  BY DEF SlotsIInv, SlotTypes
<1>2. ASSUME NEW b \in Budgets PROVE slots'[b].in_use = Cardinality(InBudget(b)')
  <2>1. slots[b].in_use = Cardinality(InBudget(b)) /\ IsFiniteSet(InBudget(b))
    BY HeldForm, HoldersFinite, ZenonT(40) DEF SlotsIInv
  <2>2. InBudget(b)' \ {c} = InBudget(b) \ {c}
    BY OneVisitChanges, ZenonT(40) DEF SlotsIInv
  <2>3. Cardinality(InBudget(b)') = Cardinality(InBudget(b)) - One(c, InBudget(b)) + One(c, InBudget(b)')
    BY <2>1, <2>2, SizeChanges, ZenonT(40)
  <2> QED
    BY <2>1, <2>3, Zenon
<1>3. ASSUME NEW m \in Models PROVE load'[m] = Cardinality(OnModel(m)')
  <2>1. load[m] = Cardinality(OnModel(m)) /\ IsFiniteSet(OnModel(m))
    BY HeldForm, HoldersFinite, ZenonT(40) DEF SlotsIInv
  <2>2. OnModel(m)' \ {c} = OnModel(m) \ {c}
    BY OneVisitChanges, ZenonT(40) DEF SlotsIInv
  <2>3. Cardinality(OnModel(m)') = Cardinality(OnModel(m)) - One(c, OnModel(m)) + One(c, OnModel(m)')
    BY <2>1, <2>2, SizeChanges, ZenonT(40)
  <2> QED
    BY <2>1, <2>3, Zenon
<1>4. reserved' = {d \in Holders : ~Counting(d)}'
  <2>1. reserved = {d \in Holders : ~Counting(d)}
    BY HeldForm, Zenon DEF SlotsIInv
  <2>2. /\ {d \in Holders : ~Counting(d)}' \ {c} = {d \in Holders : ~Counting(d)} \ {c}
        /\ c \in {d \in Holders : ~Counting(d)}'
              <=> x.at \in {"reading", "running"} /\ x.budget # "count"
    BY OneVisitChanges, ZenonT(40) DEF SlotsIInv
  <2> QED
    BY <2>1, <2>2, Zenon
<1>5. HeldByRequests'
  BY <1>2, <1>3, <1>4, ZenonT(40) DEF HeldByRequests, InBudget, OnModel
<1> QED
  BY <1>1, <1>5 DEF SlotsIInv

\* A request that holds nothing before or after its step.
LEMMA OutsideKeeps ==
    ASSUME SlotsIInv, NEW c \in Visitors, NEW x \in Visit, visit' = [visit EXCEPT ![c] = x],
           visit[c].at \notin {"reading", "running"}, x.at \notin {"reading", "running"},
           slots' \in [Budgets -> [capacity : Nat, in_use : Nat]],
           \A b \in Budgets : slots'[b].in_use = slots[b].in_use,
           UNCHANGED <<limit, load, reserved>>
    PROVE  SlotsIInv'
<1>1. /\ \A b \in Budgets : c \notin InBudget(b) /\ c \notin InBudget(b)' /\ slots[b].in_use \in Nat
      /\ \A m \in Models : c \notin OnModel(m) /\ c \notin OnModel(m)' /\ load[m] \in Nat
  BY OneVisitChanges, ZenonT(40) DEF SlotsIInv, SlotTypes
<1>2. c \notin reserved
  BY HeldForm, Zenon DEF SlotsIInv, Holders
<1>3. \A b \in Budgets :
         slots'[b].in_use = slots[b].in_use - One(c, InBudget(b)) + One(c, InBudget(b)')
  BY <1>1 DEF One
<1>4. \A m \in Models : load'[m] = load[m] - One(c, OnModel(m)) + One(c, OnModel(m)')
  BY <1>1 DEF One
<1>5. load' \in [Models -> Nat]
  BY DEF SlotsIInv, SlotTypes
<1> QED
  BY <1>2, <1>3, <1>4, <1>5, VisitKeeps, Zenon
-----------------------------------------------------------------------------
\* A request that joins or leaves a budget and a model, in the model's own
\* terms: what slots and load hold of it before its step.
LEMMA HeldBefore ==
    ASSUME SlotsIInv, NEW c \in Visitors
    PROVE  /\ \A b \in Budgets : /\ slots[b].in_use \in Nat
                                 /\ c \in InBudget(b) => slots[b].in_use > 0
           /\ \A m \in Models : /\ load[m] \in Nat
                                /\ c \in OnModel(m) => load[m] > 0
           /\ c \in reserved <=> visit[c].at \in {"reading", "running"} /\ visit[c].budget # "count"
<1>1. ASSUME NEW b \in Budgets
      PROVE  slots[b].in_use \in Nat /\ (c \in InBudget(b) => slots[b].in_use > 0)
  <2>1. slots[b].in_use = Cardinality(InBudget(b)) /\ IsFiniteSet(InBudget(b))
    BY HeldForm, HoldersFinite DEF SlotsIInv
  <2>2. Cardinality(InBudget(b)) \in Nat /\ (c \in InBudget(b) => Cardinality(InBudget(b)) > 0)
    BY <2>1, Sizes, Zenon
  <2> QED
    BY <2>1, <2>2
<1>2. ASSUME NEW m \in Models
      PROVE  load[m] \in Nat /\ (c \in OnModel(m) => load[m] > 0)
  <2>1. load[m] = Cardinality(OnModel(m)) /\ IsFiniteSet(OnModel(m))
    BY HeldForm, HoldersFinite DEF SlotsIInv
  <2>2. Cardinality(OnModel(m)) \in Nat /\ (c \in OnModel(m) => Cardinality(OnModel(m)) > 0)
    BY <2>1, Sizes, Zenon
  <2> QED
    BY <2>1, <2>2
<1>3. c \in reserved <=> visit[c].at \in {"reading", "running"} /\ visit[c].budget # "count"
  BY HeldForm DEF SlotsIInv, Holders, Counting
<1> QED
  BY <1>1, <1>2, <1>3

\* What the load counts of a request, by where it is and its model.
LEMMA LoadOf ==
    ASSUME SlotTypes, NEW c \in Visitors, NEW x \in Visit, visit' = [visit EXCEPT ![c] = x],
           NEW m \in Models
    PROVE  /\ One(c, OnModel(m)) = IF visit[c].at = "running" /\ visit[c].model = m THEN 1 ELSE 0
           /\ One(c, OnModel(m)') = IF x.at = "running" /\ x.model = m THEN 1 ELSE 0
BY OneVisitChanges, ZenonT(40) DEF One

\* The same of its budget.
LEMMA SlotsOf ==
    ASSUME SlotTypes, NEW c \in Visitors, NEW x \in Visit, visit' = [visit EXCEPT ![c] = x],
           NEW b \in Budgets
    PROVE  /\ One(c, InBudget(b)) = IF visit[c].at \in {"reading", "running"} /\ visit[c].budget = b
                                      THEN 1 ELSE 0
           /\ One(c, InBudget(b)') = IF x.at \in {"reading", "running"} /\ x.budget = b THEN 1 ELSE 0
BY OneVisitChanges, ZenonT(40) DEF One

\* A granted request takes one slot of its budget, and its model is counted if
\* its body was read first.
LEMMA TakeSlotKeeps ==
    ASSUME SlotsIInv, NEW c \in Visitors, TakeSlot(c)
    PROVE  SlotsIInv'
<1> DEFINE x == [visit[c] EXCEPT !.at = IF ~Counting(c) /\ ~parseFirst THEN "reading" ELSE "running"]
<1>1. visit[c] \in Visit /\ visit[c].at = "told" /\ visit[c].budget \in Budgets /\ visit[c].cap \in Nat
  BY DEF SlotsIInv, SlotTypes, TakeSlot, Visit
<1>2. x \in Visit /\ x.budget = visit[c].budget /\ x.model = visit[c].model
      /\ x.at = IF ~Counting(c) /\ ~parseFirst THEN "reading" ELSE "running"
  BY <1>1 DEF Visit
<1>3. visit' = [visit EXCEPT ![c] = x]
  BY DEF TakeSlot, SlotsIInv, SlotTypes
<1> HIDE DEF x
<1>4. /\ slots' \in [Budgets -> [capacity : Nat, in_use : Nat]]
      /\ \A b \in Budgets : slots'[b].in_use = IF b = visit[c].budget THEN slots[b].in_use + 1
                                               ELSE slots[b].in_use
  BY <1>1 DEF TakeSlot, Resized, SlotsIInv, SlotTypes
<1>5. ASSUME NEW b \in Budgets
      PROVE  slots'[b].in_use = slots[b].in_use - One(c, InBudget(b)) + One(c, InBudget(b)')
  <2>1. /\ One(c, InBudget(b)) = IF visit[c].at \in {"reading", "running"} /\ visit[c].budget = b
                                   THEN 1 ELSE 0
        /\ One(c, InBudget(b)') = IF x.at \in {"reading", "running"} /\ x.budget = b THEN 1 ELSE 0
    BY <1>1, <1>2, <1>3, <1>4, SlotsOf, ZenonT(40) DEF SlotsIInv
  <2>2. slots[b].in_use \in Nat
    BY HeldBefore
  <2>3. slots'[b].in_use = IF b = visit[c].budget THEN slots[b].in_use + 1 ELSE slots[b].in_use
    BY <1>4, Zenon
  <2>4. x.at \in {"reading", "running"} /\ x.budget = visit[c].budget /\ visit[c].at = "told"
    BY <1>1, <1>2, Zenon
  <2> QED
    BY <2>1, <2>2, <2>3, <2>4
<1>6. /\ load' \in [Models -> Nat]
      /\ \A m \in Models : load'[m] = IF x.at = "running" /\ x.model = m THEN load[m] + 1 ELSE load[m]
  BY <1>2 DEF TakeSlot, Counted, SlotsIInv, SlotTypes
<1>7. ASSUME NEW m \in Models
      PROVE  load'[m] = load[m] - One(c, OnModel(m)) + One(c, OnModel(m)')
  <2>1. /\ One(c, OnModel(m)) = IF visit[c].at = "running" /\ visit[c].model = m THEN 1 ELSE 0
        /\ One(c, OnModel(m)') = IF x.at = "running" /\ x.model = m THEN 1 ELSE 0
    BY <1>1, <1>2, <1>3, <1>6, LoadOf, Zenon DEF SlotsIInv
  <2>2. load[m] \in Nat
    BY HeldBefore
  <2>3. load'[m] = IF x.at = "running" /\ x.model = m THEN load[m] + 1 ELSE load[m]
    BY <1>6, Zenon
  <2>4. visit[c].at = "told"
    BY <1>1, Zenon
  <2> QED
    BY <2>1, <2>2, <2>3, <2>4
<1>8. reserved' = IF x.at \in {"reading", "running"} /\ x.budget # "count"
                    THEN reserved \cup {c} ELSE reserved \ {c}
  BY <1>1, <1>2, HeldBefore, Zenon DEF TakeSlot, Counting
<1> QED
  BY <1>2, <1>3, <1>4, <1>5, <1>6, <1>7, <1>8, VisitKeeps, Zenon DEF TakeSlot

\* A body that is read, or an auto model that is resolved, changes the model of
\* a request that holds a slot and nothing of the slot.
LEMMA ModelChanges ==
    ASSUME SlotsIInv, NEW c \in Visitors, NEW x \in Visit, visit' = [visit EXCEPT ![c] = x],
           visit[c].at \in {"reading", "running"}, x.at = "running", x.budget = visit[c].budget,
           load' \in [Models -> Nat],
           \A m \in Models : load'[m] = load[m] - One(c, OnModel(m)) + One(c, OnModel(m)'),
           UNCHANGED <<limit, slots, reserved>>
    PROVE  SlotsIInv'
<1>1. slots' \in [Budgets -> [capacity : Nat, in_use : Nat]]
  BY DEF SlotsIInv, SlotTypes
<1>2. ASSUME NEW b \in Budgets
      PROVE  slots'[b].in_use = slots[b].in_use - One(c, InBudget(b)) + One(c, InBudget(b)')
  <2>1. /\ One(c, InBudget(b)) = IF visit[c].at \in {"reading", "running"} /\ visit[c].budget = b
                                   THEN 1 ELSE 0
        /\ One(c, InBudget(b)') = IF x.at \in {"reading", "running"} /\ x.budget = b THEN 1 ELSE 0
    BY SlotsOf, Zenon DEF SlotsIInv
  <2>2. slots[b].in_use \in Nat
    BY HeldBefore, ZenonT(40)
  <2>3. slots'[b].in_use = slots[b].in_use
    BY Zenon
  <2>4. /\ x.at \in {"reading", "running"} /\ visit[c].at \in {"reading", "running"}
        /\ x.budget = visit[c].budget
    BY Zenon
  <2> QED
    BY <2>1, <2>2, <2>3, <2>4
<1>3. reserved' = IF x.at \in {"reading", "running"} /\ x.budget # "count"
                    THEN reserved \cup {c} ELSE reserved \ {c}
  BY HeldBefore
<1> QED
  BY <1>1, <1>2, <1>3, VisitKeeps, Zenon

\* The body is read: the model it names is counted.
LEMMA ReadBodyKeeps ==
    ASSUME SlotsIInv, NEW c \in Visitors, NEW model \in Models \cup {NoModel}, ReadBody(c, model)
    PROVE  SlotsIInv'
<1> DEFINE x == [visit[c] EXCEPT !.at = "running", !.model = model]
<1>1. visit[c] \in Visit /\ visit[c].at = "reading"
  BY DEF SlotsIInv, SlotTypes, ReadBody
<1>2. x \in Visit /\ x.budget = visit[c].budget /\ x.model = model /\ x.at = "running"
  BY <1>1, Zenon DEF Visit
<1>3. visit' = [visit EXCEPT ![c] = x]
  BY Zenon DEF ReadBody, SlotsIInv, SlotTypes
<1> HIDE DEF x
<1>4. /\ load' \in [Models -> Nat]
      /\ \A m \in Models : load'[m] = IF m = model THEN load[m] + 1 ELSE load[m]
  BY DEF ReadBody, Counted, SlotsIInv, SlotTypes
<1>5. ASSUME NEW m \in Models
      PROVE  load'[m] = load[m] - One(c, OnModel(m)) + One(c, OnModel(m)')
  <2>1. /\ One(c, OnModel(m)) = IF visit[c].at = "running" /\ visit[c].model = m THEN 1 ELSE 0
        /\ One(c, OnModel(m)') = IF x.at = "running" /\ x.model = m THEN 1 ELSE 0
    BY <1>1, <1>2, <1>3, <1>4, LoadOf, Zenon DEF SlotsIInv
  <2>2. load[m] \in Nat
    BY HeldBefore
  <2>3. load'[m] = IF m = model THEN load[m] + 1 ELSE load[m]
    BY <1>4, Zenon
  <2>4. visit[c].at = "reading" /\ x.at = "running" /\ x.model = model
    BY <1>1, <1>2, Zenon
  <2> QED
    BY <2>1, <2>2, <2>3, <2>4
<1> QED
  BY <1>1, <1>2, <1>3, <1>4, <1>5, ModelChanges, Zenon DEF ReadBody

\* An auto model is resolved: its count moves to the model it is.
LEMMA RetargetKeepsIInv ==
    ASSUME SlotsIInv, NEW c \in Visitors, NEW model \in Models, Retarget(c, model)
    PROVE  SlotsIInv'
<1> DEFINE x == [visit[c] EXCEPT !.model = model]
<1>1. visit[c] \in Visit /\ visit[c].at = "running" /\ visit[c].model # model
  BY DEF SlotsIInv, SlotTypes, Retarget
<1>2. x \in Visit /\ x.budget = visit[c].budget /\ x.model = model /\ x.at = "running"
  BY <1>1 DEF Visit
<1>3. visit' = [visit EXCEPT ![c] = x]
  BY DEF Retarget, SlotsIInv, SlotTypes
<1> HIDE DEF x
<1>4. \A m \in Models : load[m] \in Nat /\ (m = visit[c].model => load[m] > 0)
  BY <1>1, <1>2, <1>3, HeldBefore, OneVisitChanges, Zenon DEF SlotsIInv
<1>5. /\ load' \in [Models -> Nat]
      /\ \A m \in Models : load'[m] = IF m = model THEN load[m] + 1
                                      ELSE IF m = visit[c].model THEN load[m] - 1 ELSE load[m]
  BY <1>1, <1>4 DEF Retarget, Counted, Uncounted
<1>6. ASSUME NEW m \in Models
      PROVE  load'[m] = load[m] - One(c, OnModel(m)) + One(c, OnModel(m)')
  <2>1. /\ One(c, OnModel(m)) = IF visit[c].at = "running" /\ visit[c].model = m THEN 1 ELSE 0
        /\ One(c, OnModel(m)') = IF x.at = "running" /\ x.model = m THEN 1 ELSE 0
    BY <1>1, <1>2, <1>3, <1>4, <1>5, LoadOf, Zenon DEF SlotsIInv
  <2>2. load[m] \in Nat
    BY HeldBefore, Zenon
  <2>3. load'[m] = IF m = model THEN load[m] + 1
                   ELSE IF m = visit[c].model THEN load[m] - 1 ELSE load[m]
    BY <1>5, Zenon
  <2>4. /\ visit[c].at = "running" /\ visit[c].model # model
        /\ x.at = "running" /\ x.model = model
    BY <1>1, <1>2, Zenon
  <2> QED
    BY <2>1, <2>2, <2>3, <2>4
<1> QED
  BY <1>1, <1>2, <1>3, <1>5, <1>6, ModelChanges, ZenonT(40) DEF Retarget

\* A request that ends gives back its slot, its load and its reservation.
LEMMA LeaveKeeps ==
    ASSUME SlotsIInv, NEW c \in Visitors, Leave(c)
    PROVE  SlotsIInv'
<1>1. visit[c] \in Visit /\ visit[c].at \in {"reading", "running"} /\ visit[c].budget \in Budgets
  BY DEF SlotsIInv, SlotTypes, Leave, Visit
<1>2. NoVisit \in Visit /\ NoVisit.at = "idle"
  BY DEF NoVisit, Visit, Budgets
<1>3. visit' = [visit EXCEPT ![c] = NoVisit]
  BY DEF Leave
<1>4. slots[visit[c].budget].in_use > 0 /\ \A b \in Budgets : slots[b].in_use \in Nat
  BY <1>1, <1>2, <1>3, HeldBefore, OneVisitChanges, ZenonT(40) DEF SlotsIInv
<1>5. /\ slots' \in [Budgets -> [capacity : Nat, in_use : Nat]]
      /\ \A b \in Budgets : slots'[b].in_use = IF b = visit[c].budget THEN slots[b].in_use - 1
                                               ELSE slots[b].in_use
  BY <1>1, <1>4 DEF Leave, Freed, SlotsIInv, SlotTypes
<1>6. ASSUME NEW b \in Budgets
      PROVE  slots'[b].in_use = slots[b].in_use - One(c, InBudget(b)) + One(c, InBudget(b)')
  <2>1. /\ One(c, InBudget(b)) = IF visit[c].at \in {"reading", "running"} /\ visit[c].budget = b
                                   THEN 1 ELSE 0
        /\ One(c, InBudget(b)') = IF NoVisit.at \in {"reading", "running"} /\ NoVisit.budget = b THEN 1 ELSE 0
    BY <1>1, <1>2, <1>3, <1>4, <1>5, SlotsOf, Zenon DEF SlotsIInv
  <2>2. slots[b].in_use \in Nat
    BY HeldBefore
  <2>3. slots'[b].in_use = IF b = visit[c].budget THEN slots[b].in_use - 1 ELSE slots[b].in_use
    BY <1>5, Zenon
  <2>4. visit[c].at \in {"reading", "running"} /\ NoVisit.at = "idle"
    BY <1>1, <1>2, Zenon
  <2> QED
    BY <2>1, <2>2, <2>3, <2>4
<1>7. \A m \in Models : /\ load[m] \in Nat
                        /\ visit[c].at = "running" /\ m = visit[c].model => load[m] > 0
  BY <1>1, <1>2, <1>3, HeldBefore, OneVisitChanges, Zenon DEF SlotsIInv
<1>8. /\ load' \in [Models -> Nat]
      /\ \A m \in Models : load'[m] = IF visit[c].at = "running" /\ m = visit[c].model
                                        THEN load[m] - 1 ELSE load[m]
  BY <1>7 DEF Leave, Uncounted, SlotsIInv, SlotTypes
<1>9. ASSUME NEW m \in Models
      PROVE  load'[m] = load[m] - One(c, OnModel(m)) + One(c, OnModel(m)')
  <2>1. /\ One(c, OnModel(m)) = IF visit[c].at = "running" /\ visit[c].model = m THEN 1 ELSE 0
        /\ One(c, OnModel(m)') = IF NoVisit.at = "running" /\ NoVisit.model = m THEN 1 ELSE 0
    BY <1>1, <1>2, <1>3, <1>7, <1>8, LoadOf, ZenonT(40) DEF SlotsIInv
  <2>2. load[m] \in Nat
    BY HeldBefore
  <2>3. load'[m] = IF visit[c].at = "running" /\ m = visit[c].model THEN load[m] - 1 ELSE load[m]
    BY <1>8, Zenon
  <2>4. NoVisit.at = "idle"
    BY <1>2, Zenon
  <2> QED
    BY <2>1, <2>2, <2>3, <2>4
<1>10. reserved' = IF NoVisit.at \in {"reading", "running"} /\ NoVisit.budget # "count"
                     THEN reserved \cup {c} ELSE reserved \ {c}
  BY <1>2 DEF Leave
<1> QED
  BY <1>2, <1>3, <1>5, <1>6, <1>8, <1>9, <1>10, VisitKeeps, Zenon DEF Leave

\* Nobody holds anything at first.
LEMMA SlotsInitIInv == SlotsInit => SlotsIInv
<1> SUFFICES ASSUME SlotsInit PROVE SlotsIInv
  OBVIOUS
<1>1. NoVisit \in Visit /\ NoVisit.at = "idle"
  BY DEF NoVisit, Visit, Budgets
<1>2. SlotTypes
  BY <1>1, SlotsAssumption DEF SlotsInit, SlotTypes
<1>3. Holders = {}
  BY <1>1 DEF SlotsInit, Holders
<1>4. /\ \A b \in Budgets : InBudget(b) = {}
      /\ \A m \in Models : OnModel(m) = {}
  BY <1>3 DEF InBudget, OnModel
<1>5. Cardinality({}) = 0
  BY FS_EmptySet
<1>6. /\ \A b \in Budgets : slots[b].in_use = 0
      /\ \A m \in Models : load[m] = 0
      /\ reserved = {}
  BY DEF SlotsInit
<1> QED
  BY <1>2, <1>3, <1>4, <1>5, <1>6, HeldForm, ZenonT(40) DEF SlotsIInv

\* No step of a request, and no new limit, leaves a slot, a load or a
\* reservation behind.
LEMMA SlotsStep == SlotsIInv /\ [SlotsNext]_slotVars => SlotsIInv'
<1> SUFFICES ASSUME SlotsIInv, [SlotsNext]_slotVars PROVE SlotsIInv'
  OBVIOUS
<1>1. /\ NoVisit \in Visit /\ NoVisit.at = "idle"
      /\ slots \in [Budgets -> [capacity : Nat, in_use : Nat]]
      /\ \A c \in Visitors : /\ visit[c] \in Visit
                             /\ visit[c].budget \in Budgets /\ visit[c].cap \in Nat
  BY DEF NoVisit, Visit, Budgets, SlotsIInv, SlotTypes
<1>2. ASSUME NEW n \in Limits, SetLimit(n) PROVE SlotsIInv'
  BY <1>2, SlotsAssumption
     DEF SetLimit, SlotsIInv, SlotTypes, HeldByRequests, Holders, Counting
<1>3. ASSUME NEW c \in Visitors, NEW b \in Budgets, NEW m \in Models \cup {NoModel}, Arrive(c, b, m)
      PROVE  SlotsIInv'
  <2> DEFINE x == [NoVisit EXCEPT !.at = "asking", !.budget = b, !.model = m]
  <2>1. x \in Visit /\ x.at = "asking"
    BY ZenonT(40) DEF NoVisit, Visit
  <2>2. visit' = [visit EXCEPT ![c] = x] /\ visit[c].at = "idle"
    BY <1>3 DEF Arrive
  <2> HIDE DEF x
  <2>3. UNCHANGED <<limit, slots, load, reserved>>
    BY <1>3 DEF Arrive
  <2> QED
    BY <1>1, <2>1, <2>2, <2>3, OutsideKeeps, Zenon
<1>4. ASSUME NEW c \in Visitors, ReadLimits(c) PROVE SlotsIInv'
  <2> DEFINE n == IF visit[c].budget = "normal" THEN limit ELSE OwnCap
             x == [visit[c] EXCEPT !.at = "told", !.cap = n]
  <2>1. n \in Nat
    BY SlotsAssumption DEF SlotsIInv, SlotTypes
  <2>2. visit' = [visit EXCEPT ![c] = x] /\ visit[c].at = "asking"
    BY <1>4, Zenon DEF ReadLimits, SlotsIInv, SlotTypes
  <2> HIDE DEF n
  <2>3. x \in Visit /\ x.at = "told"
    BY <1>1, <2>1, Zenon DEF Visit
  <2> HIDE DEF x
  <2>4. UNCHANGED <<limit, slots, load, reserved>>
    BY <1>4 DEF ReadLimits
  <2> QED
    BY <1>1, <2>2, <2>3, <2>4, OutsideKeeps, Zenon
<1>5. ASSUME NEW c \in Visitors, Refused(c) \/ OverBudget(c) PROVE SlotsIInv'
  <2>1. /\ visit' = [visit EXCEPT ![c] = NoVisit] /\ visit[c].at = "told"
        /\ UNCHANGED <<limit, load, reserved>>
        /\ slots' = Resized(c, FALSE)
    BY <1>5, Zenon DEF Refused, OverBudget
  <2>2. /\ slots' \in [Budgets -> [capacity : Nat, in_use : Nat]]
        /\ \A b \in Budgets : slots'[b].in_use = slots[b].in_use
    BY <1>1, <2>1 DEF Resized
  <2> QED
    BY <1>1, <2>1, <2>2, OutsideKeeps, Zenon
<1>6. ASSUME NEW c \in Visitors, LeaveEarly(c) PROVE SlotsIInv'
  <2>1. /\ visit' = [visit EXCEPT ![c] = NoVisit] /\ visit[c].at \notin {"reading", "running"}
        /\ UNCHANGED <<limit, slots, load, reserved>>
    BY <1>6 DEF LeaveEarly
  <2> QED
    BY <1>1, <2>1, OutsideKeeps, Zenon
<1>7. CASE UNCHANGED slotVars
  BY <1>7 DEF slotVars, SlotsIInv, SlotTypes, HeldByRequests, Holders, Counting
<1> QED
  BY <1>2, <1>3, <1>4, <1>5, <1>6, <1>7, TakeSlotKeeps, ReadBodyKeeps, RetargetKeepsIInv, LeaveKeeps, ZenonT(40)
     DEF SlotsNext

\* UserConcurrencyLimiter, INTERACTIVE_LOAD and the spend reservations hold what the
\* requests in flight hold, for any number of requests, models and limits:
\* nothing is left behind by a refusal, a body that never arrives, a resize, a
\* resolved auto model or a caller that goes away.
THEOREM HeldByThoseInFlight == SlotsSpec => []HeldByRequests
<1>1. SlotsIInv => HeldByRequests
  BY DEF SlotsIInv
<1>2. QED
  BY SlotsInitIInv, SlotsStep, <1>1, PTL DEF SlotsSpec

=============================================================================
