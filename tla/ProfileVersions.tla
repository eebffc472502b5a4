---------------------------- MODULE ProfileVersions ----------------------------
(***************************************************************************)
(* The versioned profile of each language and the one version the public   *)
(* site serves (backend/app/api/admin_profile.py, backend/app/api/         *)
(* profile.py).                                                            *)
(*                                                                         *)
(* Both writers first deactivate a language's rows with one UPDATE, then   *)
(* activate a row and commit.  On READ COMMITTED PostgreSQL that UPDATE    *)
(* addresses the rows committed when the statement began, waits for every  *)
(* transaction that has already updated one of them, and keeps them locked *)
(* until its own transaction ends.                                         *)
(***************************************************************************)
EXTENDS Integers, FiniteSets

CONSTANTS
  Languages,           \* languages a caller may name
  SUPPORTED_LANGUAGES,
  Versions,            \* version labels an admin may choose
  Requests,            \* admin requests (TLC's bound on their number); also row ids
  None

ASSUME LanguageAssumption == SUPPORTED_LANGUAGES \subseteq Languages
ASSUME NoneAssumption == None \notin Requests \cup SUPPORTED_LANGUAGES

VARIABLES
  rows,     \* committed profile_snapshots rows: [id, version, language, is_active]
  pc,       \* where each request's handler is
  target,   \* the row a request will activate: a new one, or the one it loaded
  snap,     \* ids of the rows a request's UPDATE addresses
  late,     \* history: rows inserted between a request's UPDATE and its commit
  served    \* what the public endpoint last answered for each language

vars == <<rows, pc, target, snap, late, served>>

Row == [id : Requests, version : Versions, language : SUPPORTED_LANGUAGES,
        is_active : BOOLEAN]
Ended == {"done", "rejected", "conflict", "not_found", "failed", "dead"}

TypeOK ==
  /\ rows \subseteq Row
  /\ pc \in [Requests -> {"idle", "checked", "updating", "locked"} \cup Ended]
  /\ target \in [Requests -> Row \cup {None}]
  /\ snap \in [Requests -> SUBSET Requests]
  /\ late \in [Requests -> SUBSET Requests]
  /\ served \in [SUPPORTED_LANGUAGES -> {"nothing", "404", "500", "200"}]

Init ==
  /\ rows = {}
  /\ pc = [r \in Requests |-> "idle"]
  /\ target = [r \in Requests |-> None]
  /\ snap = [r \in Requests |-> {}]
  /\ late = [r \in Requests |-> {}]
  /\ served = [l \in SUPPORTED_LANGUAGES |-> "nothing"]

------------------------------------------------------------------------------
Goto(r, step) == pc' = [pc EXCEPT ![r] = step]

Of(l) == {x \in rows : x.language = l}
Active(l) == {x \in Of(l) : x.is_active}
Ids(s) == {x.id : x \in s}
Taken(v, l) == \E x \in Of(l) : x.version = v

_validate_language(l) == l \in SUPPORTED_LANGUAGES

\* upload_profile: 400 for a language the site has not; then an early look at the
\* key gives a clean 409.
upload_profile(r, v, l) ==
  /\ pc[r] = "idle"
  /\ _validate_language(l)
  /\ target' = [target EXCEPT ![r] =
       [id |-> r, version |-> v, language |-> l, is_active |-> TRUE]]
  /\ Goto(r, IF Taken(v, l) THEN "conflict" ELSE "checked")
  /\ UNCHANGED <<rows, snap, late, served>>

reject_upload(r, l) ==
  /\ pc[r] = "idle"
  /\ ~_validate_language(l)
  /\ Goto(r, "rejected")
  /\ UNCHANGED <<rows, target, snap, late, served>>

\* activate_profile_version: load the row, 404 when there is none.
activate_profile_version(r, id) ==
  /\ pc[r] = "idle"
  /\ \/ /\ id \notin Ids(rows)
        /\ Goto(r, "not_found")
        /\ UNCHANGED target
     \/ \E x \in rows :
          /\ x.id = id
          /\ target' = [target EXCEPT ![r] = [x EXCEPT !.is_active = TRUE]]
          /\ Goto(r, "checked")
  /\ UNCHANGED <<rows, snap, late, served>>

\* Mutants of addressed: the language is left out of the WHERE clause; only the
\* rows that are active by now are addressed.
any_language(l) == Ids(rows)
only_active(l) == Ids(Active(l))

\* The rows that UPDATE ... WHERE language = l addresses.
addressed(l) == Ids(Of(l))

\* The UPDATE begins: the rows it addresses are fixed.
begin_update(r) ==
  /\ pc[r] = "checked"
  /\ snap' = [snap EXCEPT ![r] = addressed(target[r].language)]
  /\ Goto(r, "updating")
  /\ UNCHANGED <<rows, target, late, served>>

\* No other open transaction has updated a row this one has to update.
free(r) == \A q \in Requests \ {r} : pc[q] = "locked" => snap[q] \cap snap[r] = {}

\* The UPDATE has got its locks.
acquire(r) ==
  /\ pc[r] = "updating"
  /\ free(r)
  /\ Goto(r, "locked")
  /\ UNCHANGED <<rows, target, snap, late, served>>

\* Mutant of after_commit: the other rows keep their flag.
others_kept(r) == {x \in rows : x.id # target[r].id} \cup {target[r]}

\* The table once the transaction is committed.
after_commit(r) ==
  {IF x.id \in snap[r] THEN [x EXCEPT !.is_active = FALSE] ELSE x :
     x \in {y \in rows : y.id # target[r].id}} \cup {target[r]}

\* Mutant of refused: the early look is thought to be enough.
never_refused(r) == FALSE

\* The unique constraint refuses a second row of one (version, language).
refused(r) == target[r].id = r /\ Taken(target[r].version, target[r].language)

\* The insert, or the activation, and the commit; a refused insert rolls back (500).
commit(r) ==
  /\ pc[r] = "locked"
  /\ IF refused(r)
       THEN Goto(r, "failed") /\ UNCHANGED <<rows, late>>
       ELSE /\ Goto(r, "done")
            /\ rows' = after_commit(r)
            /\ late' = [q \in Requests |->
                 IF q # r /\ pc[q] \in {"updating", "locked"} /\ target[r].id = r
                      /\ target[q].language = target[r].language
                   THEN late[q] \cup {r} ELSE late[q]]
  /\ UNCHANGED <<target, snap, served>>

\* The process or the connection dies: the transaction rolls back.
die(r) ==
  /\ pc[r] \in {"checked", "updating", "locked"}
  /\ Goto(r, "dead")
  /\ UNCHANGED <<rows, target, snap, late, served>>

\* get_active_profile: scalar_one_or_none raises when it meets a second row.
get_active_profile(l) ==
  /\ served' = [served EXCEPT ![l] =
       IF Active(l) = {} THEN "404"
       ELSE IF Cardinality(Active(l)) = 1 THEN "200" ELSE "500"]
  /\ UNCHANGED <<rows, pc, target, snap, late>>

Next ==
  \/ \E r \in Requests :
       \/ \E v \in Versions, l \in Languages : upload_profile(r, v, l)
       \/ \E l \in Languages : reject_upload(r, l)
       \/ \E id \in Requests : activate_profile_version(r, id)
       \/ begin_update(r) \/ acquire(r) \/ commit(r)
       \/ die(r)
  \/ \E l \in SUPPORTED_LANGUAGES : get_active_profile(l)

Spec == Init /\ [][Next]_vars

------------------------------------------------------------------------------
(* Properties *)

\* However uploads race past the early look for a duplicate, a (version, language)
\* pair names one snapshot (upload_profile, uq_profile_snapshot_language).
VersionsAreUnique ==
  \A x, y \in rows : x.version = y.version /\ x.language = y.language => x = y

\* Once a language has an active version it never loses its last one, whoever
\* races or dies: the deactivation and the activation that follows it are one
\* commit, and another language's uploads do not touch it.
NeverGoesDark ==
  [][\A l \in SUPPORTED_LANGUAGES : Active(l) # {} => Active(l)' # {}]_vars

\* A commit leaves its own row as its language's only active one, unless a row
\* was inserted between its UPDATE and its commit: so the flag heals with the next
\* undisturbed upload or activation, whatever happened before.
UndisturbedCommitHeals ==
  [][\A r \in Requests :
       pc[r] = "locked" /\ pc'[r] = "done" /\ late[r] = {}
         => Active(target[r].language)' = {target[r]}]_vars

\* Activations alone, however concurrent, never leave two active rows: if two are
\* active, one was inserted behind the back of the UPDATE that preceded the other's
\* activation.
OnlyAnInsertBreaksIt ==
  \A l \in SUPPORTED_LANGUAGES : \A x, y \in Active(l) : x # y =>
    \E r \in Requests :
      /\ pc[r] = "done" /\ target[r].id \in {x.id, y.id}
      /\ {x.id, y.id} \cap late[r] # {}

\* Rows and requests are what they should be, no label is used twice, and two active
\* rows are explained.
Consistent == TypeOK /\ VersionsAreUnique /\ OnlyAnInsertBreaksIt
==============================================================================
