------------------------- MODULE ProfileVersionsProofs -------------------------
(***************************************************************************)
(* Theorems about ProfileVersions, for any number of requests, languages   *)
(* and version labels.                                                     *)
(*                                                                         *)
(* A request in its UPDATE knows every row of its language but those       *)
(* inserted since (late), and no row of another language; rows are never   *)
(* removed and never change their label.  So a commit leaves active its    *)
(* own row and at most what was inserted behind its back.                  *)
(*                                                                         *)
(* And theorems about RateLimiter, which stands in front of the public     *)
(* profile: for any set of keys, limit and window.  The deque of a key is  *)
(* a suffix of the key's log of accepted requests; what the deque has lost *)
(* is at least a window old.  From this follow the bound on any window and *)
(* the cause behind every refusal.                                         *)
(***************************************************************************)
EXTENDS ProfileVersions, RateLimiter, SequenceTheorems, WellFoundedInduction, TLAPS

\* Steps at which a request has chosen its row, and has begun its UPDATE.
Loaded == {"checked", "updating", "locked"}
Updating == {"updating", "locked"}

RowsHaveOneId == \A x, y \in rows : x.id = y.id => x = y

\* A request's row is its own, and not in the table yet; or one that is there.
TargetOK(r) ==
  /\ target[r] \in Row /\ target[r].is_active
  /\ \/ target[r].id = r /\ r \notin Ids(rows)
     \/ \E x \in rows : /\ x.id = target[r].id /\ x.version = target[r].version
                        /\ x.language = target[r].language

\* An UPDATE addresses the rows of its language but those that came later.
SnapOK(r) ==
  /\ \A i \in snap[r] : \E x \in rows : x.id = i /\ x.language = target[r].language
  /\ \A x \in rows : x.language = target[r].language => x.id \in snap[r] \cup late[r]

RequestsOK ==
  \A r \in Requests :
    /\ pc[r] \in Loaded => TargetOK(r)
    /\ pc[r] \in Updating => SnapOK(r)
    /\ pc[r] = "idle" => r \notin Ids(rows)

IInv == TypeOK /\ RowsHaveOneId /\ VersionsAreUnique /\ RequestsOK /\ OnlyAnInsertBreaksIt

LEMMA InitIInv == Init => IInv
BY DEF Init, IInv, TypeOK, RowsHaveOneId, VersionsAreUnique, RequestsOK, OnlyAnInsertBreaksIt,
  Loaded, Updating, Ids, Active, Of, Ended

------------------------------------------------------------------------------
(* Steps that change no row *)

\* A request moves on; what it claims of the rows at its new step holds.
LEMMA MoveKeeps ==
  ASSUME IInv, NEW r \in Requests, NEW step \in {"checked", "updating", "locked"} \cup Ended,
         pc[r] # "done", Goto(r, step), TypeOK', UNCHANGED <<rows, late>>,
         \A q \in Requests \ {r} : target'[q] = target[q] /\ snap'[q] = snap[q],
         step \in Loaded => TargetOK(r)', step \in Updating => SnapOK(r)'
  PROVE  IInv'
<1> USE DEF IInv
<1>1. pc'[r] = step /\ step # "idle" /\ \A q \in Requests \ {r} : pc'[q] = pc[q]
  BY DEF Goto, TypeOK, Ended
<1>2. (RowsHaveOneId /\ VersionsAreUnique)'
  BY DEF RowsHaveOneId, VersionsAreUnique
<1>3. RequestsOK'
  BY <1>1 DEF RequestsOK, TargetOK, SnapOK, Ids
<1>4. OnlyAnInsertBreaksIt'
  <2>1. \A q \in Requests : pc[q] = "done" => pc'[q] = "done" /\ target'[q] = target[q]
    BY <1>1
  <2> QED
    BY <2>1 DEF OnlyAnInsertBreaksIt, Active, Of
<1> QED
  BY <1>2, <1>3, <1>4

LEMMA UploadKeeps ==
  ASSUME IInv, NEW r \in Requests, NEW v \in Versions, NEW l \in Languages, upload_profile(r, v, l)
  PROVE  IInv'
<1> DEFINE row == [id |-> r, version |-> v, language |-> l, is_active |-> TRUE]
<1>1. row \in Row /\ row.is_active /\ row.id = r
  BY DEF Row, upload_profile, _validate_language
<1>2. PICK step \in {"conflict", "checked"} : Goto(r, step)
  BY DEF upload_profile
<1>3. TypeOK'
  BY <1>1, <1>2 DEF IInv, TypeOK, upload_profile, Goto, Ended
<1>4. target'[r] = row /\ \A q \in Requests \ {r} : target'[q] = target[q] /\ snap'[q] = snap[q]
  BY DEF upload_profile, IInv, TypeOK
<1> HIDE DEF row
<1>5. TargetOK(r)'
  BY <1>1, <1>4 DEF TargetOK, IInv, RequestsOK, upload_profile, Ids
<1> QED
  BY <1>2, <1>3, <1>4, <1>5, MoveKeeps DEF upload_profile, Ended, Updating

LEMMA ActivateKeeps ==
  ASSUME IInv, NEW r \in Requests, NEW id \in Requests, activate_profile_version(r, id)
  PROVE  IInv'
<1> USE DEF IInv
<1>1. CASE Goto(r, "not_found") /\ UNCHANGED target
  <2>1. TypeOK'
    BY <1>1 DEF TypeOK, activate_profile_version, Goto, Ended
  <2> QED
    BY <1>1, <2>1, MoveKeeps DEF activate_profile_version, Ended, Loaded, Updating
<1>2. ASSUME NEW x \in rows, target' = [target EXCEPT ![r] = [x EXCEPT !.is_active = TRUE]],
             Goto(r, "checked")
      PROVE  IInv'
  <2> DEFINE row == [x EXCEPT !.is_active = TRUE]
  <2>1. /\ row \in Row /\ row.is_active
        /\ row.id = x.id /\ row.version = x.version /\ row.language = x.language
    BY DEF TypeOK, Row
  <2>2. TypeOK'
    BY <1>2, <2>1 DEF TypeOK, activate_profile_version, Goto
  <2>3. target'[r] = row /\ \A q \in Requests \ {r} : target'[q] = target[q] /\ snap'[q] = snap[q]
    BY <1>2 DEF activate_profile_version, TypeOK
  <2> HIDE DEF row
  <2>4. TargetOK(r)'
    BY <2>1, <2>3 DEF TargetOK, activate_profile_version
  <2> QED
    BY <1>2, <2>2, <2>3, <2>4, MoveKeeps DEF activate_profile_version, Updating
<1> QED
  BY <1>1, <1>2 DEF activate_profile_version

LEMMA BeginUpdateKeeps ==
  ASSUME IInv, NEW r \in Requests, begin_update(r)
  PROVE  IInv'
<1> USE DEF IInv
<1>1. TypeOK'
  BY DEF TypeOK, begin_update, Goto, addressed, Ids, Of, Row
<1>2. /\ snap'[r] = {x.id : x \in {y \in rows : y.language = target[r].language}}
      /\ \A q \in Requests \ {r} : snap'[q] = snap[q]
  BY DEF TypeOK, begin_update, addressed, Ids, Of
<1>3. SnapOK(r)'
  BY <1>2 DEF SnapOK, begin_update
<1>4. TargetOK(r)'
  BY DEF TargetOK, begin_update, RequestsOK, Loaded, Ids
<1> QED
  BY <1>1, <1>2, <1>3, <1>4, MoveKeeps DEF begin_update

LEMMA AcquireKeeps ==
  ASSUME IInv, NEW r \in Requests, acquire(r)
  PROVE  IInv'
<1> USE DEF IInv
<1>1. TypeOK'
  BY DEF TypeOK, acquire, Goto
<1>2. TargetOK(r)' /\ SnapOK(r)'
  BY DEF TargetOK, SnapOK, acquire, RequestsOK, Loaded, Updating, Ids
<1> QED
  BY <1>1, <1>2, MoveKeeps DEF acquire

\* A request ends without a commit.
LEMMA EndKeeps ==
  ASSUME IInv, NEW r \in Requests, NEW step \in Ended, pc[r] # "done", Goto(r, step),
         UNCHANGED <<rows, target, snap, late, served>>
  PROVE  IInv'
<1>1. TypeOK'
  BY DEF IInv, TypeOK, Goto
<1> QED
  BY <1>1, MoveKeeps DEF Ended, Loaded, Updating

------------------------------------------------------------------------------
(* The commit *)

\* A row as an UPDATE leaves it.
switched(r, x) == IF x.id \in snap[r] THEN [x EXCEPT !.is_active = FALSE] ELSE x

LEMMA SwitchedIs ==
  ASSUME NEW r, NEW x \in Row
  PROVE  /\ switched(r, x) \in Row /\ switched(r, x).id = x.id
         /\ switched(r, x).version = x.version /\ switched(r, x).language = x.language
         /\ x.id \in snap[r] => ~switched(r, x).is_active
         /\ x.id \notin snap[r] => switched(r, x) = x
BY DEF switched, Row

\* Its own row is a row of the table under another flag, or new.
LEMMA TargetIs ==
  ASSUME IInv, NEW r \in Requests, pc[r] = "locked", NEW x \in rows, x.id = target[r].id
  PROVE  /\ target[r].id # r \/ r \in Ids(rows)
         /\ x.version = target[r].version /\ x.language = target[r].language
<1>1. TargetOK(r)
  BY DEF IInv, RequestsOK, Loaded
<1> QED
  BY <1>1 DEF TargetOK, IInv, RowsHaveOneId, Ids

\* The table after a commit.
LEMMA AfterCommit ==
  ASSUME IInv, NEW r \in Requests, pc[r] = "locked", ~refused(r), rows' = after_commit(r)
  PROVE  /\ rows' \subseteq Row /\ target[r] \in rows'
         /\ \A y \in rows' \ {target[r]} :
              \E x \in rows : x.id # target[r].id /\ y = switched(r, x)
         /\ \A x \in rows : x.id # target[r].id => switched(r, x) \in rows'
         /\ \A x \in rows : \E y \in rows' :
              x.id = y.id /\ x.version = y.version /\ x.language = y.language
         /\ RowsHaveOneId' /\ VersionsAreUnique'
<1> DEFINE T == target[r]
<1>1. rows \subseteq Row /\ T \in Row /\ TargetOK(r)
  BY DEF IInv, TypeOK, RequestsOK, Loaded, TargetOK
<1>2. rows' = {switched(r, x) : x \in {y \in rows : y.id # T.id}} \cup {T}
  BY DEF after_commit, switched
<1>3. \A x \in rows : /\ switched(r, x) \in Row /\ switched(r, x).id = x.id
                      /\ switched(r, x).version = x.version
                      /\ switched(r, x).language = x.language
  BY <1>1, SwitchedIs
<1>4. /\ \A y \in rows' \ {T} : \E x \in rows : x.id # T.id /\ y = switched(r, x)
      /\ \A x \in rows : x.id # T.id => switched(r, x) \in rows'
  BY <1>2
<1>5. \A x \in rows : x.id = T.id => x.version = T.version /\ x.language = T.language
  BY TargetIs
<1>6. RowsHaveOneId'
  BY <1>3, <1>4 DEF RowsHaveOneId, IInv
<1>7. ASSUME NEW x \in rows, x.version = T.version, x.language = T.language
      PROVE  x.id = T.id
  <2>1. CASE T.id = r /\ r \notin Ids(rows)
    BY <1>7, <2>1 DEF refused, Taken, Of
  <2>2. CASE \E z \in rows : z.id = T.id /\ z.version = T.version /\ z.language = T.language
    BY <1>7, <2>2 DEF IInv, VersionsAreUnique
  <2> QED
    BY <1>1, <2>1, <2>2 DEF TargetOK
<1>8. VersionsAreUnique'
  BY <1>3, <1>4, <1>7 DEF VersionsAreUnique, IInv
<1>9. \A x \in rows : \E y \in rows' :
        x.id = y.id /\ x.version = y.version /\ x.language = y.language
  <2> SUFFICES ASSUME NEW x \in rows
               PROVE  \E y \in rows' :
                        x.id = y.id /\ x.version = y.version /\ x.language = y.language
    OBVIOUS
  <2>1. CASE x.id = T.id
    BY <1>2, <1>5, <2>1
  <2>2. CASE x.id # T.id
    BY <1>3, <1>4, <2>2
  <2> QED
    BY <2>1, <2>2
<1>10. rows' \subseteq Row /\ T \in rows'
  BY <1>1, <1>2, <1>3
<1> QED
  BY <1>4, <1>6, <1>8, <1>9, <1>10

\* What an effective commit leaves active beside its own row was active before, and
\* came after its UPDATE had begun, if it is of the same language.
LEMMA StillActive ==
  ASSUME IInv, NEW r \in Requests, pc[r] = "locked", ~refused(r), rows' = after_commit(r),
         NEW y \in rows', y # target[r], y.is_active
  PROVE  /\ y \in rows /\ y.id \notin snap[r] /\ y.id # target[r].id
         /\ y.language = target[r].language => y.id \in late[r]
<1>1. PICK x \in rows : x.id # target[r].id /\ y = switched(r, x)
  BY AfterCommit
<1>2. x \in Row /\ SnapOK(r)
  BY DEF IInv, TypeOK, RequestsOK, Updating
<1>3. x.id \notin snap[r] /\ y = x
  BY <1>1, <1>2, SwitchedIs
<1> QED
  BY <1>1, <1>2, <1>3 DEF SnapOK

LEMMA CommitKeeps ==
  ASSUME IInv, NEW r \in Requests, commit(r)
  PROVE  IInv'
<1> USE DEF IInv
<1>1. CASE refused(r)
  BY <1>1, EndKeeps DEF commit, Ended
<1>2. CASE ~refused(r)
  <2>1. pc[r] = "locked" /\ Goto(r, "done") /\ rows' = after_commit(r)
        /\ UNCHANGED <<target, snap, served>>
    BY <1>2 DEF commit
  <2>2. /\ rows' \subseteq Row /\ target[r] \in rows'
        /\ \A y \in rows' \ {target[r]} :
             \E x \in rows : x.id # target[r].id /\ y = switched(r, x)
        /\ \A x \in rows : \E y \in rows' :
             x.id = y.id /\ x.version = y.version /\ x.language = y.language
        /\ RowsHaveOneId' /\ VersionsAreUnique'
    BY <1>2, <2>1, AfterCommit
  <2>3. TargetOK(r)
    BY <2>1 DEF RequestsOK, Loaded
  <2>4. late' \in [Requests -> SUBSET Requests] /\ \A q \in Requests : late[q] \subseteq late'[q]
    BY <1>2 DEF commit, TypeOK
  <2>5. TypeOK'
    BY <2>1, <2>2, <2>4 DEF TypeOK, Goto, Ended
  <2>6. Ids(rows)' \subseteq Ids(rows) \cup {target[r].id}
    <3>1. \A x \in rows : switched(r, x).id = x.id
      BY SwitchedIs DEF TypeOK
    <3> QED
      BY <2>2, <3>1 DEF Ids
  <2>7. RequestsOK'
    <3> SUFFICES ASSUME NEW q \in Requests
                 PROVE  /\ pc'[q] \in Loaded => TargetOK(q)'
                        /\ pc'[q] \in Updating => SnapOK(q)'
                        /\ pc'[q] = "idle" => q \notin Ids(rows)'
      BY DEF RequestsOK
    <3>1. pc'[r] = "done" /\ (q # r => pc'[q] = pc[q])
      BY <2>1 DEF Goto, TypeOK
    <3>2. q # r /\ q \notin Ids(rows) => q \notin Ids(rows)'
      BY <2>3, <2>6 DEF TargetOK, Ids
    <3>3. ASSUME q # r, pc[q] \in Loaded PROVE TargetOK(q)'
      <4>1. TargetOK(q)
        BY <3>3 DEF RequestsOK
      <4> QED
        BY <2>1, <2>2, <3>2, <3>3, <4>1 DEF TargetOK
    <3>4. ASSUME q # r, pc[q] \in Updating PROVE SnapOK(q)'
      <4>1. SnapOK(q)
        BY <3>4 DEF RequestsOK
      <4>2. \A i \in snap'[q] : \E x \in rows' : x.id = i /\ x.language = target'[q].language
        BY <2>1, <2>2, <4>1 DEF SnapOK
      <4>3. ASSUME NEW y \in rows', y.language = target[q].language
            PROVE  y.id \in snap[q] \cup late'[q]
        <5>1. ASSUME NEW x \in rows, x.id = y.id, x.language = y.language
              PROVE  y.id \in snap[q] \cup late'[q]
          BY <2>4, <4>1, <4>3, <5>1 DEF SnapOK
        <5>2. CASE y # target[r]
          <6>1. PICK x \in rows : y = switched(r, x)
            BY <2>2, <5>2
          <6>2. x.id = y.id /\ x.language = y.language
            BY <6>1, SwitchedIs DEF TypeOK
          <6> QED
            BY <5>1, <6>2
        <5>3. CASE y = target[r] /\ y.id # r
          BY <2>3, <5>1, <5>3 DEF TargetOK
        <5>4. CASE y = target[r] /\ y.id = r
          BY <1>2, <3>4, <4>3, <5>4 DEF commit, Updating
        <5> QED
          BY <5>2, <5>3, <5>4
      <4> QED
        BY <2>1, <4>2, <4>3 DEF SnapOK
    <3> QED
      BY <3>1, <3>2, <3>3, <3>4 DEF RequestsOK, Loaded, Updating
  <2>8. OnlyAnInsertBreaksIt'
    <3> SUFFICES ASSUME NEW l \in SUPPORTED_LANGUAGES, NEW x \in Active(l)', NEW y \in Active(l)',
                        x # y
                 PROVE  \E q \in Requests :
                          /\ pc'[q] = "done" /\ target'[q].id \in {x.id, y.id}
                          /\ {x.id, y.id} \cap late'[q] # {}
      BY DEF OnlyAnInsertBreaksIt
    <3>1. x \in rows' /\ y \in rows' /\ x.is_active /\ y.is_active /\ x.language = y.language
          /\ x.language = l
      BY DEF Active, Of
    <3>2. pc'[r] = "done" /\ \A q \in Requests : pc[q] = "done" => pc'[q] = "done"
      BY <2>1 DEF Goto, TypeOK
    <3>3. CASE x = target[r] \/ y = target[r]
      <4>1. {x.id, y.id} \cap late[r] # {}
        BY <1>2, <2>1, <3>1, <3>3, StillActive
      <4> QED
        BY <2>1, <2>4, <3>2, <3>3, <4>1
    <3>4. CASE x # target[r] /\ y # target[r]
      <4>1. x \in Active(l) /\ y \in Active(l)
        BY <1>2, <2>1, <3>1, <3>4, StillActive DEF Active, Of
      <4>2. PICK q \in Requests : /\ pc[q] = "done" /\ target[q].id \in {x.id, y.id}
                                  /\ {x.id, y.id} \cap late[q] # {}
        BY <4>1 DEF OnlyAnInsertBreaksIt
      <4> QED
        BY <2>1, <2>4, <3>2, <4>2
    <3> QED
      BY <3>3, <3>4
  <2> QED
    BY <2>2, <2>5, <2>7, <2>8
<1> QED
  BY <1>1, <1>2

------------------------------------------------------------------------------
(* The theorems *)

LEMMA NextKeeps == IInv /\ [Next]_vars => IInv'
<1> SUFFICES ASSUME IInv, [Next]_vars PROVE IInv'
  OBVIOUS
<1>1. ASSUME NEW r \in Requests, NEW v \in Versions, NEW l \in Languages, upload_profile(r, v, l)
      PROVE  IInv'
  BY <1>1, UploadKeeps
<1>2. ASSUME NEW r \in Requests, NEW l \in Languages, reject_upload(r, l) PROVE IInv'
  BY <1>2, EndKeeps DEF reject_upload, Ended
<1>3. ASSUME NEW r \in Requests, NEW id \in Requests, activate_profile_version(r, id) PROVE IInv'
  BY <1>3, ActivateKeeps
<1>4. ASSUME NEW r \in Requests, begin_update(r) PROVE IInv'
  BY <1>4, BeginUpdateKeeps
<1>5. ASSUME NEW r \in Requests, acquire(r) PROVE IInv'
  BY <1>5, AcquireKeeps
<1>6. ASSUME NEW r \in Requests, commit(r) PROVE IInv'
  BY <1>6, CommitKeeps
<1>7. ASSUME NEW r \in Requests, die(r) PROVE IInv'
  BY <1>7, EndKeeps DEF die, Ended
<1>8. ASSUME UNCHANGED <<rows, pc, target, snap, late>>, served' \in
               [SUPPORTED_LANGUAGES -> {"nothing", "404", "500", "200"}]
      PROVE  IInv'
  BY <1>8 DEF IInv, TypeOK, RowsHaveOneId, VersionsAreUnique, RequestsOK, TargetOK, SnapOK, Ids,
    OnlyAnInsertBreaksIt, Active, Of
<1>9. ASSUME NEW l \in SUPPORTED_LANGUAGES, get_active_profile(l) PROVE IInv'
  <2>1. served' \in [SUPPORTED_LANGUAGES -> {"nothing", "404", "500", "200"}]
    BY <1>9 DEF get_active_profile, IInv, TypeOK
  <2> QED
    BY <1>8, <1>9, <2>1 DEF get_active_profile
<1>10. CASE UNCHANGED vars
  BY <1>8, <1>10 DEF vars, IInv, TypeOK
<1> QED
  BY <1>1, <1>2, <1>3, <1>4, <1>5, <1>6, <1>7, <1>9, <1>10 DEF Next

LEMMA Invariance == Spec => []IInv
BY InitIInv, NextKeeps, PTL DEF Spec

\* Rows, requests, their UPDATEs and histories have their types in every reachable
\* state.
THEOREM TypeCorrect == Spec => []TypeOK
BY Invariance, PTL DEF IInv

\* What the run checks as Consistent: the types, one row for each label of a language
\* (uq_profile_snapshot_language), and two active rows only by an insert behind an
\* UPDATE (upload_profile).
THEOREM ConsistencyHolds == Spec => []Consistent
<1>1. IInv => Consistent
  BY DEF IInv, Consistent
<1> QED
  BY <1>1, Invariance, PTL

\* Only a commit changes rows.
LEMMA OnlyCommitWrites ==
  ASSUME [Next]_vars
  PROVE  \/ UNCHANGED rows
         \/ \E r \in Requests : commit(r) /\ ~refused(r)
BY DEF Next, vars, upload_profile, reject_upload, activate_profile_version, begin_update, acquire,
  commit, die, get_active_profile

LEMMA CommitLeavesOneActive ==
  ASSUME IInv, NEW r \in Requests, commit(r), ~refused(r), NEW l \in SUPPORTED_LANGUAGES,
         Active(l) # {}
  PROVE  Active(l)' # {}
<1>1. /\ pc[r] = "locked" /\ rows' = after_commit(r)
      /\ TargetOK(r) /\ SnapOK(r) /\ target[r].is_active
  BY DEF commit, IInv, RequestsOK, Loaded, Updating, TargetOK
<1>2. CASE target[r].language = l
  <2>1. target[r] \in rows'
    BY <1>1, AfterCommit
  <2> QED
    BY <1>1, <1>2, <2>1 DEF Active, Of
<1>3. CASE target[r].language # l
  <2>1. PICK x \in rows : x.language = l /\ x.is_active
    BY DEF Active, Of
  <2>2. x.id # target[r].id
    BY <1>1, <1>3, <2>1, TargetIs
  <2>3. x.id \notin snap[r]
    BY <1>1, <1>3, <2>1 DEF SnapOK, IInv, RowsHaveOneId
  <2>4. x \in rows'
    BY <1>1, <2>2, <2>3, AfterCommit, SwitchedIs DEF IInv, TypeOK
  <2> QED
    BY <2>1, <2>4 DEF Active, Of
<1> QED
  BY <1>2, <1>3

\* A language that has an active version never loses its last one
\* (upload_profile, activate_profile_version).
THEOREM NeverDark == Spec => NeverGoesDark
<1>1. IInv /\ [Next]_vars =>
        [\A l \in SUPPORTED_LANGUAGES : Active(l) # {} => Active(l)' # {}]_vars
  <2> SUFFICES ASSUME IInv, [Next]_vars, NEW l \in SUPPORTED_LANGUAGES, Active(l) # {}
               PROVE  Active(l)' # {}
    OBVIOUS
  <2>1. CASE UNCHANGED rows
    BY <2>1 DEF Active, Of
  <2>2. ASSUME NEW r \in Requests, commit(r), ~refused(r) PROVE Active(l)' # {}
    BY <2>2, CommitLeavesOneActive
  <2> QED
    BY <2>1, <2>2, OnlyCommitWrites
<1> QED
  BY <1>1, Invariance, PTL DEF Spec, NeverGoesDark

\* A commit that nobody's insert has disturbed leaves its own row as the only active
\* one of its language, whatever was active before.
THEOREM CommitsHeal == Spec => UndisturbedCommitHeals
<1>1. IInv /\ [Next]_vars =>
        [\A r \in Requests :
           pc[r] = "locked" /\ pc'[r] = "done" /\ late[r] = {}
             => Active(target[r].language)' = {target[r]}]_vars
  <2> SUFFICES ASSUME IInv, [Next]_vars, NEW r \in Requests,
                      pc[r] = "locked", pc'[r] = "done", late[r] = {}
               PROVE  Active(target[r].language)' = {target[r]}
    OBVIOUS
  <2>1. commit(r) /\ ~refused(r)
    BY DEF IInv, TypeOK, Next, vars, Goto, upload_profile, reject_upload,
      activate_profile_version, begin_update, acquire, commit, die, get_active_profile
  <2>2. rows' = after_commit(r) /\ target' = target
    BY <2>1 DEF commit
  <2>3. target[r] \in rows' /\ target[r].is_active
    BY <2>1, <2>2, AfterCommit DEF IInv, RequestsOK, Loaded, TargetOK
  <2>4. \A y \in rows' : y.is_active /\ y.language = target[r].language => y = target[r]
    BY <2>1, <2>2, StillActive
  <2> QED
    BY <2>2, <2>3, <2>4 DEF Active, Of
<1> QED
  BY <1>1, Invariance, PTL DEF Spec, UndisturbedCommitHeals

------------------------------------------------------------------------------
(* The limiter *)

\* Every number is less than its successors: a nonempty set of positions has a first.
LEMMA FirstPosition ==
  ASSUME NEW T \in SUBSET Nat, T # {}
  PROVE  \E x \in T : \A y \in T : x <= y
<1>1. IsWellFoundedOn(OpToRel(<, Nat), Nat)
  BY NatLessThanWellFounded
<1>2. PICK x \in T : \A y \in T : <<y, x>> \notin OpToRel(<, Nat)
  BY <1>1, WFMin
<1>3. \A y \in T : ~(y < x)
  BY <1>2 DEF OpToRel
<1> QED
  BY <1>3

\* drop_expired removes a prefix of expired hits, and stops at the first live one.
LEMMA DropExpired ==
  ASSUME NEW s \in Seq(Nat), now \in Nat
  PROVE  \E d \in 0..Len(s) :
           /\ drop_expired(s) = SubSeq(s, d + 1, Len(s))
           /\ \A m \in 1..d : expired(s[m])
           /\ d < Len(s) => ~expired(s[d + 1])
<1> DEFINE alive == {n \in 1..Len(s) : ~expired(s[n])}
<1>len. Len(s) \in Nat
  BY LenProperties
<1>1. CASE alive = {}
  <2>1. \A n \in 1..Len(s) : expired(s[n])
    BY <1>1
  <2>2. drop_expired(s) = <<>>
    BY <2>1 DEF drop_expired
  <2>3. SubSeq(s, Len(s) + 1, Len(s)) = <<>>
    BY <1>len, SubSeqEmpty
  <2> QED
    BY <2>1, <2>2, <2>3, <1>len
<1>2. CASE alive # {}
  <2> DEFINE P(n) == ~expired(s[n]) /\ \A m \in 1..(n - 1) : expired(s[m])
  <2> DEFINE first == CHOOSE n \in 1..Len(s) : P(n)
  <2>1. PICK x \in alive : \A y \in alive : x <= y
    <3>1. alive \in SUBSET Nat
      BY <1>len
    <3> QED
      BY <3>1, <1>2, FirstPosition
  <2>2. x \in 1..Len(s) /\ ~expired(s[x])
    BY <2>1
  <2>3. ASSUME NEW m \in 1..(x - 1)
        PROVE  expired(s[m])
    <3>1. m \in 1..Len(s) /\ m < x
      BY <2>2, <1>len
    <3>2. m \notin alive
      BY <3>1, <2>1, <2>2, <1>len
    <3> QED
      BY <3>1, <3>2
  <2>4. P(x)
    BY <2>2, <2>3
  <2>5. first \in 1..Len(s) /\ P(first)
    BY <2>2, <2>4
  <2>6. ~(\A n \in 1..Len(s) : expired(s[n]))
    BY <2>2
  <2>7. drop_expired(s) = SubSeq(s, first, Len(s))
    BY <2>6 DEF drop_expired
  <2> HIDE DEF first
  <2>8. first - 1 \in 0..Len(s) /\ (first - 1) + 1 = first
    BY <2>5, <1>len
  <2> QED
    BY <2>5, <2>7, <2>8
<1> QED
  BY <1>1, <1>2

------------------------------------------------------------------------------
(* The limiter's inductive invariant *)

\* The deque is the newest part of the log.
IsSuffix(k) ==
  /\ Len(hits[k]) <= Len(accepted[k])
  /\ \A n \in 1..Len(hits[k]) :
       hits[k][n] = accepted[k][Len(accepted[k]) - Len(hits[k]) + n]

\* What the deque has lost has expired.
LostIsOld(k) ==
  \A n \in 1..(Len(accepted[k]) - Len(hits[k])) : accepted[k][n] <= now - window_seconds

\* A key's log obeys the limit.
Bounded(k) ==
  \A n \in 1..(Len(accepted[k]) - max_requests) :
    accepted[k][n + max_requests] - accepted[k][n] >= window_seconds

WindowInv ==
  /\ LimiterTypeOK
  /\ \A k \in Keys : Len(hits[k]) <= max_requests /\ IsSuffix(k) /\ LostIsOld(k) /\ Bounded(k)

LEMMA InitWindowInv == LimiterInit => WindowInv
<1> SUFFICES ASSUME LimiterInit PROVE WindowInv
  OBVIOUS
<1>1. <<>> \in Seq(Nat) /\ Len(<<>>) = 0
  BY EmptySeq
<1>2. LimiterTypeOK
  BY <1>1 DEF LimiterInit, LimiterTypeOK
<1>3. ASSUME NEW k \in Keys
      PROVE  Len(hits[k]) <= max_requests /\ IsSuffix(k) /\ LostIsOld(k) /\ Bounded(k)
  <2>1. hits[k] = <<>> /\ accepted[k] = <<>>
    BY DEF LimiterInit
  <2> QED
    BY <2>1, <1>1, LimitAssumption DEF IsSuffix, LostIsOld, Bounded
<1> QED
  BY <1>2, <1>3 DEF WindowInv

\* Time passing only makes the lost requests older.
LEMMA AdvanceWindowInv == WindowInv /\ advance => WindowInv'
<1> SUFFICES ASSUME WindowInv, advance PROVE WindowInv'
  OBVIOUS
<1> USE WindowAssumption, BoundAssumption, LimitAssumption DEF WindowInv
<1>1. now' \in Nat /\ now' >= now /\ now \in Nat
  BY DEF advance, LimiterTypeOK
<1>2. UNCHANGED <<hits, accepted, verdict>>
  BY DEF advance
<1>3. LimiterTypeOK'
  BY <1>1, <1>2 DEF LimiterTypeOK
<1>4. ASSUME NEW k \in Keys
      PROVE  (Len(hits[k]) <= max_requests /\ IsSuffix(k) /\ LostIsOld(k) /\ Bounded(k))'
  <2>1. accepted[k] \in Seq(Nat) /\ hits[k] \in Seq(Nat)
    BY DEF LimiterTypeOK
  <2>2. Len(accepted[k]) \in Nat /\ Len(hits[k]) \in Nat
    BY <2>1, LenProperties
  <2>3. (Len(hits[k]) <= max_requests /\ IsSuffix(k) /\ Bounded(k))'
    BY <1>2 DEF IsSuffix, Bounded
  <2>4. ASSUME NEW n \in 1..(Len(accepted[k]) - Len(hits[k]))
        PROVE  accepted[k][n] <= now' - window_seconds
    <3>1. n \in 1..Len(accepted[k])
      BY <2>2
    <3>2. accepted[k][n] \in Nat
      BY <2>1, <3>1, ElementOfSeq
    <3>3. accepted[k][n] <= now - window_seconds
      BY DEF LostIsOld
    <3> QED
      BY <3>2, <3>3, <1>1
  <2>5. LostIsOld(k)'
    BY <2>4, <1>2 DEF LostIsOld
  <2> QED
    BY <2>3, <2>5
<1> QED
  BY <1>3, <1>4

\* What is left of a deque once its expired head is gone is still the newest part
\* of the log, all that is lost has expired, and its oldest hit has not.
LEMMA LiveIsSuffix ==
  ASSUME WindowInv, NEW k \in Keys, NEW live, live = drop_expired(hits[k])
  PROVE  /\ live \in Seq(Nat)
         /\ Len(live) <= max_requests
         /\ Len(live) <= Len(accepted[k])
         /\ \A n \in 1..Len(live) : live[n] = accepted[k][Len(accepted[k]) - Len(live) + n]
         /\ \A n \in 1..(Len(accepted[k]) - Len(live)) : accepted[k][n] <= now - window_seconds
         /\ Len(live) > 0 => ~expired(live[1])
<1> USE LimitAssumption, WindowAssumption
<1>1. now \in Nat /\ hits[k] \in Seq(Nat) /\ accepted[k] \in Seq(Nat)
  BY DEF WindowInv, LimiterTypeOK
<1>2. Len(hits[k]) \in Nat /\ Len(accepted[k]) \in Nat
  BY <1>1, LenProperties
<1>3. /\ Len(hits[k]) <= max_requests
      /\ Len(hits[k]) <= Len(accepted[k])
      /\ \A n \in 1..Len(hits[k]) :
           hits[k][n] = accepted[k][Len(accepted[k]) - Len(hits[k]) + n]
      /\ \A n \in 1..(Len(accepted[k]) - Len(hits[k])) : accepted[k][n] <= now - window_seconds
  BY DEF WindowInv, IsSuffix, LostIsOld
<1>4. PICK H \in Seq(Nat) : H = hits[k]
  BY <1>1
<1>5. PICK A \in Seq(Nat) : A = accepted[k]
  BY <1>1
<1>6. PICK a \in Nat : a = Len(A)
  BY <1>2, <1>5
<1>7. PICK h \in 0..a : h = Len(H)
  BY <1>2, <1>3, <1>4, <1>5, <1>6
<1>8. PICK d \in 0..h :
         /\ live = SubSeq(H, d + 1, h)
         /\ \A m \in 1..d : expired(H[m])
         /\ d < h => ~expired(H[d + 1])
  BY <1>1, <1>4, <1>7, DropExpired
<1>9. \A n \in 1..h : H[n] = A[a - h + n]
  BY <1>3, <1>4, <1>5, <1>6, <1>7
<1>10. \A n \in 1..(a - h) : A[n] <= now - window_seconds
  BY <1>3, <1>4, <1>5, <1>6, <1>7
<1>11. /\ live \in Seq(Nat)
       /\ Len(live) = h - d
       /\ \A n \in 1..(h - d) : live[n] = H[d + n]
       /\ \A n \in 1..(h - d) : live[n] = A[a - (h - d) + n]
  <2>0. h \in Nat /\ d \in Nat /\ d <= h
    BY <1>6, <1>7, <1>8
  <2>1. PICK m \in Int : m = d + 1
    BY <2>0
  <2>2. \A i \in m..h : H[i] \in Nat
    <3>1. \A i \in 1..Len(H) : H[i] \in Nat
      BY <1>4, ElementOfSeq
    <3> QED
      BY <3>1, <2>0, <2>1, <1>7
  <2>3. /\ live \in Seq(Nat)
        /\ Len(live) = IF m <= h THEN h - m + 1 ELSE 0
        /\ \A i \in 1..(h - m + 1) : live[i] = H[m + i - 1]
    <3>1. live = SubSeq(H, m, h)
      BY <1>8, <2>1
    <3> QED
      BY <3>1, <2>0, <2>1, <2>2, SubSeqProperties
  <2>4. Len(live) = h - d
    BY <2>0, <2>1, <2>3
  <2>5. \A n \in 1..(h - d) : live[n] = H[d + n]
    <3> TAKE n \in 1..(h - d)
    <3>1. n \in 1..(h - m + 1) /\ m + n - 1 = d + n
      BY <2>0, <2>1
    <3> QED
      BY <3>1, <2>3
  <2>6. \A n \in 1..(h - d) : live[n] = A[a - (h - d) + n]
    <3> TAKE n \in 1..(h - d)
    <3>1. d + n \in 1..h /\ a - h + (d + n) = a - (h - d) + n
      BY <2>0, <1>6
    <3>2. H[d + n] = A[a - h + (d + n)]
      BY <3>1, <1>9
    <3> QED
      BY <3>1, <3>2, <2>5
  <2> QED
    BY <2>3, <2>4, <2>5, <2>6
<1>12. Len(live) <= max_requests /\ Len(live) <= a
  <2>1. h <= max_requests
    BY <1>3, <1>4, <1>7
  <2> QED
    BY <2>1, <1>11
<1>13. \A n \in 1..(a - (h - d)) : A[n] <= now - window_seconds
  <2> TAKE n \in 1..(a - (h - d))
  <2>1. CASE n <= a - h
    BY <2>1, <1>10
  <2>2. CASE n > a - h
    <3>1. n - (a - h) \in 1..d /\ n - (a - h) \in 1..h /\ a - h + (n - (a - h)) = n
      BY <2>2
    <3>2. expired(A[n])
      BY <3>1, <1>8, <1>9
    <3> QED
      BY <3>2 DEF expired
  <2> QED
    BY <2>1, <2>2
<1>14. Len(live) > 0 => ~expired(live[1])
  <2> HAVE Len(live) > 0
  <2>1. d < h /\ 1 \in 1..(h - d)
    BY <1>11
  <2> QED
    BY <2>1, <1>8, <1>11
<1> QED
  BY <1>5, <1>6, <1>11, <1>12, <1>13, <1>14

\* A request is refused, and only the expired hits go; or it is accepted, at the
\* end of the deque and of the log.
LEMMA AllowWindowInv ==
  ASSUME WindowInv, NEW key \in Keys, allow(key)
  PROVE  WindowInv'
<1> DEFINE live == drop_expired(hits[key])
           A == accepted[key]
<1> USE LimitAssumption, WindowAssumption
<1>1. now \in Nat /\ A \in Seq(Nat) /\ Len(A) \in Nat /\ now' = now
  BY LenProperties DEF WindowInv, LimiterTypeOK, allow
<1>2. /\ live \in Seq(Nat)
      /\ Len(live) <= max_requests
      /\ Len(live) <= Len(A)
      /\ \A n \in 1..Len(live) : live[n] = A[Len(A) - Len(live) + n]
      /\ \A n \in 1..(Len(A) - Len(live)) : A[n] <= now - window_seconds
  BY LiveIsSuffix
<1>3. Len(live) \in Nat
  BY <1>2, LenProperties
<1>4. hits' = [hits EXCEPT ![key] = IF full(live) THEN live ELSE Append(live, now)]
  BY DEF allow
<1>5. accepted' = [accepted EXCEPT ![key] = IF full(live) THEN A ELSE Append(A, now)]
  BY DEF allow
<1>6. hits \in [Keys -> Seq(Nat)] /\ accepted \in [Keys -> Seq(Nat)]
  BY DEF WindowInv, LimiterTypeOK
<1>7. Bounded(key)
  BY DEF WindowInv
<1> HIDE DEF live
<1>8. /\ Append(live, now) \in Seq(Nat) /\ Len(Append(live, now)) = Len(live) + 1
      /\ \A i \in 1..Len(live) : Append(live, now)[i] = live[i]
      /\ Append(live, now)[Len(live) + 1] = now
  BY <1>1, <1>2, AppendProperties
<1>9. /\ Append(A, now) \in Seq(Nat) /\ Len(Append(A, now)) = Len(A) + 1
      /\ \A i \in 1..Len(A) : Append(A, now)[i] = A[i]
      /\ Append(A, now)[Len(A) + 1] = now
  BY <1>1, AppendProperties
<1>10. LimiterTypeOK'
  <2>1. verdict' \in [key : Keys, ok : BOOLEAN]
    BY DEF allow
  <2> QED
    BY <2>1, <1>1, <1>2, <1>4, <1>5, <1>6, <1>8, <1>9 DEF LimiterTypeOK
<1>11. ASSUME NEW k \in Keys
       PROVE  (Len(hits[k]) <= max_requests /\ IsSuffix(k) /\ LostIsOld(k) /\ Bounded(k))'
  <2>1. CASE k # key
    <3>1. hits'[k] = hits[k] /\ accepted'[k] = accepted[k]
      BY <2>1, <1>4, <1>5, <1>6
    <3>2. Len(hits[k]) <= max_requests /\ IsSuffix(k) /\ LostIsOld(k) /\ Bounded(k)
      BY DEF WindowInv
    <3> QED
      BY <3>1, <3>2, <1>1 DEF IsSuffix, LostIsOld, Bounded
  <2>2. CASE k = key /\ full(live)
    <3>1. hits'[k] = live /\ accepted'[k] = A
      BY <2>2, <1>4, <1>5, <1>6
    <3> QED
      BY <3>1, <1>1, <1>2, <1>7, <2>2 DEF IsSuffix, LostIsOld, Bounded
  <2>3. CASE k = key /\ ~full(live)
    <3>1. hits'[k] = Append(live, now) /\ accepted'[k] = Append(A, now)
      BY <2>3, <1>4, <1>5, <1>6
    <3>2. Len(live) < max_requests
      BY <2>3, <1>3 DEF full
    <3>3. Len(hits'[k]) <= max_requests /\ Len(hits'[k]) <= Len(accepted'[k])
      BY <3>1, <3>2, <1>1, <1>2, <1>3, <1>8, <1>9
    <3>4. IsSuffix(k)'
      <4>1. ASSUME NEW n \in 1..Len(hits'[k])
            PROVE  hits'[k][n] = accepted'[k][Len(accepted'[k]) - Len(hits'[k]) + n]
        <5>0. /\ n \in 1..(Len(live) + 1)
              /\ Len(accepted'[k]) - Len(hits'[k]) + n = Len(A) - Len(live) + n
          BY <3>1, <1>1, <1>3, <1>8, <1>9
        <5>1. CASE n <= Len(live)
          <6>1. n \in 1..Len(live) /\ Len(A) - Len(live) + n \in 1..Len(A)
            BY <5>0, <5>1, <1>1, <1>2, <1>3
          <6> QED
            BY <6>1, <5>0, <3>1, <1>2, <1>8, <1>9
        <5>2. CASE n = Len(live) + 1
          <6>0. \A a, l \in Nat : a - l + (l + 1) = a + 1
            OBVIOUS
          <6>1. Len(A) - Len(live) + n = Len(A) + 1
            BY <6>0, <5>2, <1>1, <1>3
          <6> QED
            BY <6>1, <5>2, <5>0, <3>1, <1>8, <1>9
        <5>3. n \in Int /\ n <= Len(live) + 1
          BY <5>0, <1>3
        <5>4. n <= Len(live) \/ n = Len(live) + 1
          BY <5>3, <1>3
        <5> QED
          BY <5>1, <5>2, <5>4
      <4> QED
        BY <4>1, <3>3 DEF IsSuffix
    <3>5. LostIsOld(k)'
      <4>1. ASSUME NEW n \in 1..(Len(accepted'[k]) - Len(hits'[k]))
            PROVE  accepted'[k][n] <= now' - window_seconds
        <5>1. n \in 1..(Len(A) - Len(live)) /\ n \in 1..Len(A)
          BY <3>1, <1>1, <1>2, <1>3, <1>8, <1>9
        <5> QED
          BY <5>1, <3>1, <1>1, <1>2, <1>9
      <4> QED
        BY <4>1 DEF LostIsOld
    <3>6. Bounded(k)'
      <4>1. ASSUME NEW n \in 1..(Len(accepted'[k]) - max_requests)
            PROVE  accepted'[k][n + max_requests] - accepted'[k][n] >= window_seconds
        <5>0. /\ n \in 1..Len(A) /\ n + max_requests \in 1..(Len(A) + 1)
              /\ n \in 1..(Len(A) - Len(live))
          BY <3>1, <3>2, <1>1, <1>2, <1>3, <1>9
        <5>1. A[n] \in Nat
          BY <5>0, <1>1, ElementOfSeq
        <5>2. CASE n + max_requests <= Len(A)
          <6>1. n \in 1..(Len(A) - max_requests) /\ n + max_requests \in 1..Len(A)
            BY <5>0, <5>2, <1>1
          <6>2. A[n + max_requests] - A[n] >= window_seconds
            BY <6>1, <1>7 DEF Bounded
          <6> QED
            BY <6>1, <6>2, <5>0, <3>1, <1>9
        <5>3. CASE n + max_requests = Len(A) + 1
          <6>1. A[n] <= now - window_seconds
            BY <5>0, <1>2
          <6>2. accepted'[k][n] = A[n] /\ accepted'[k][n + max_requests] = now
            BY <5>0, <5>3, <3>1, <1>9
          <6> QED
            BY <6>1, <6>2, <5>1, <1>1
        <5> QED
          BY <5>0, <5>2, <5>3, <1>1
      <4> QED
        BY <4>1 DEF Bounded
    <3> QED
      BY <3>3, <3>4, <3>5, <3>6
  <2> QED
    BY <2>1, <2>2, <2>3
<1> QED
  BY <1>10, <1>11 DEF WindowInv

LEMMA NextWindowInv == WindowInv /\ [LimiterNext]_limiter_vars => WindowInv'
<1> SUFFICES ASSUME WindowInv, [LimiterNext]_limiter_vars PROVE WindowInv'
  OBVIOUS
<1>1. CASE advance
  BY <1>1, AdvanceWindowInv
<1>2. CASE \E key \in Keys : allow(key)
  BY <1>2, AllowWindowInv
<1>3. CASE UNCHANGED limiter_vars
  BY <1>3 DEF limiter_vars, WindowInv, LimiterTypeOK, IsSuffix, LostIsOld, Bounded
<1> QED
  BY <1>1, <1>2, <1>3 DEF LimiterNext

LEMMA WindowInvariance == LimiterSpec => []WindowInv
BY InitWindowInv, NextWindowInv, PTL DEF LimiterSpec

------------------------------------------------------------------------------
(* The theorems about the limiter *)

\* The limiter's state stays well-typed: times are naturals, and the deque and
\* the log of every key are sequences of them (allow).
THEOREM LimiterTypeCorrect == LimiterSpec => []LimiterTypeOK
<1>1. WindowInv => LimiterTypeOK
  BY DEF WindowInv
<1> QED
  BY <1>1, WindowInvariance, PTL

\* A key's deque never outgrows the limit (the check before allow's append).
THEOREM DequeBounded == LimiterSpec => []DequeBound
<1>1. WindowInv => DequeBound
  BY DEF WindowInv, DequeBound
<1> QED
  BY <1>1, WindowInvariance, PTL

\* In every reachable state of SlidingWindowRateLimiter clock, deques and log have
\* their types, and no deque is longer than max_requests.
THEOREM LimiterConsistencyHolds == LimiterSpec => []LimiterConsistent
BY LimiterTypeCorrect, DequeBounded, PTL DEF LimiterConsistent

\* No window holds more than max_requests accepted requests of one key, for every
\* limit and every window (allow).
THEOREM WindowBounded == LimiterSpec => []WindowBound
<1>1. WindowInv => WindowBound
  BY DEF WindowInv, WindowBound, Bounded
<1> QED
  BY <1>1, WindowInvariance, PTL

\* Behind every refusal are max_requests requests accepted within the last window
\* (allow): the limiter never refuses a client that kept within the limit.
THEOREM RefusalsAreEarned == LimiterSpec => RefusalIsEarned
<1> DEFINE Earned ==
      (now' = now /\ ~verdict'.ok) =>
        LET log == accepted'[verdict'.key] IN
        /\ Len(log) >= max_requests
        /\ max_requests > 0 => log[Len(log) - max_requests + 1] > now - window_seconds
<1> USE LimitAssumption, WindowAssumption
<1>1. ASSUME WindowInv, advance PROVE Earned
  BY <1>1, BoundAssumption DEF WindowInv, LimiterTypeOK, advance
<1>2. ASSUME WindowInv, NEW key \in Keys, allow(key) PROVE Earned
  <2> DEFINE live == drop_expired(hits[key])
             A == accepted[key]
  <2> SUFFICES ASSUME ~verdict'.ok
               PROVE  /\ Len(A) >= max_requests
                      /\ max_requests > 0 => A[Len(A) - max_requests + 1] > now - window_seconds
    <3>1. verdict' = [key |-> key, ok |-> ~full(live)]
      BY <1>2 DEF allow
    <3>2. accepted' = [accepted EXCEPT ![key] = IF full(live) THEN A ELSE Append(A, now)]
      BY <1>2 DEF allow
    <3>3. ~verdict'.ok => accepted'[verdict'.key] = A
      BY <3>1, <3>2, <1>2 DEF WindowInv, LimiterTypeOK
    <3> QED
      BY <3>3
  <2>1. full(live)
    BY <1>2 DEF allow
  <2>2. /\ live \in Seq(Nat) /\ Len(live) <= max_requests /\ Len(live) <= Len(A)
        /\ \A n \in 1..Len(live) : live[n] = A[Len(A) - Len(live) + n]
        /\ Len(live) > 0 => ~expired(live[1])
    BY <1>2, LiveIsSuffix
  <2>3. A \in Seq(Nat) /\ Len(A) \in Nat /\ Len(live) \in Nat /\ now \in Nat
    BY <1>2, <2>2, LenProperties DEF WindowInv, LimiterTypeOK
  <2> HIDE DEF live
  <2>4. Len(live) = max_requests
    BY <2>1, <2>2, <2>3 DEF full
  <2>5. ASSUME max_requests > 0
        PROVE  A[Len(A) - max_requests + 1] > now - window_seconds
    <3>1. 1 \in 1..Len(live)
      BY <2>4, <2>5, <2>3
    <3>2. live[1] = A[Len(A) - max_requests + 1]
      BY <3>1, <2>2, <2>4
    <3>3. live[1] \in Nat
      BY <3>1, <2>2, ElementOfSeq
    <3>4. ~(live[1] <= now - window_seconds)
      BY <3>1, <2>2, <2>3, <2>4, <2>5 DEF expired
    <3> QED
      BY <3>2, <3>3, <3>4, <2>3
  <2> QED
    BY <2>2, <2>3, <2>4, <2>5
<1>3. WindowInv /\ [LimiterNext]_limiter_vars => [Earned]_limiter_vars
  BY <1>1, <1>2 DEF LimiterNext
<1> QED
  BY <1>3, WindowInvariance, PTL DEF LimiterSpec, RefusalIsEarned

==============================================================================
