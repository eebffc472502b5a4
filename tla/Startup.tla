-------------------------------- MODULE Startup --------------------------------
(***************************************************************************)
(* A backend container's life: docker-entrypoint.sh and db_probe.py, the   *)
(* upgrade (migrations/env.py), the lifespan of app/main.py, serving, and  *)
(* the crash, stop or failure that makes the restart policy begin again,   *)
(* from databases of every origin.                                         *)
(***************************************************************************)
EXTENDS Schema, Accounts

CONSTANTS
  Environments,    \* settings the operator may deploy with
  FirstBoards,     \* what promotions and notes a database at pipeline0004 may hold
  FirstUsers,      \* and what user any database
  MaxEvents        \* TLC's bound on what people and faults do

ASSUME EnvironmentAssumption == Environments \subseteq Settings
\* A first board is from before promote0005: no card has a key.
ASSUME BoardAssumption ==
  \A board \in FirstBoards :
    BoardOK(board.cards, board.notes) /\ \A c \in board.cards : c.key = NoInteraction
ASSUME UserAssumption == FirstUsers \subseteq {u \in User : u.id = 1}
ASSUME EventAssumption == MaxEvents \in Nat

VARIABLES
  pc,       \* where the container is
  cvs,      \* cv_documents, all of them active: "fallback", "e2e", "own"
  events

vars == <<schema_vars, account_vars, pc, cvs, events>>

Starting == {"stamping", "migrating", "lifespan", "users", "cv"}

TypeOK ==
  /\ version \in NoVersionTable..Head
  /\ objects \subseteq CreatedByModels \cup Built[Head]
  /\ cards \subseteq Card /\ notes \subseteq Note
  /\ env \in Settings /\ user \in User \cup {NoUser} /\ serial \in Nat
  /\ token \in {"ok", "process", Unset} /\ session \in [Sessions -> Session]
  /\ reset \in BOOLEAN
  /\ pc \in {"down", "up"} \cup Starting
  /\ cvs \subseteq {"fallback", "e2e", "own"}
  /\ events \in 0..MaxEvents

\* An empty database; one that create_all built, from the first models, in use since,
\* or from today's, as deploy.yml rehearses the adoption: never served, so its board
\* is empty; or one some release has left at a revision.  Only a board that promote0005
\* is still to meet matters.
Init ==
  /\ \/ version = NoVersionTable /\ objects = {}
     \/ version = NoVersionTable /\ objects \in {Core, CreatedByModels}
     \/ version \in 1..Head /\ objects = Built[version]
  /\ \E board \in (IF version = 4 THEN FirstBoards ELSE {[cards |-> {}, notes |-> {}]}) :
       cards = board.cards /\ notes = board.notes
  /\ user \in IF objects = {} THEN {NoUser}
              ELSE {u \in FirstUsers : "key_as_text" \in objects \/ u.key.by = Unset}
  /\ cvs \in IF objects = {} THEN {{}} ELSE {{}, {"own"}}
  /\ env \in Environments
  /\ serial = 2 /\ token = Unset /\ reset = FALSE
  /\ session = [r \in Sessions |-> Idle]
  /\ pc = "down" /\ events = 0

Goto(step) == pc' = step
Event == events < MaxEvents /\ events' = events + 1

------------------------------------------------------------------------------
(* docker-entrypoint.sh *)

\* db_probe: ALEMBIC_MANAGED, PRE_ALEMBIC or FRESH.
probe ==
  /\ pc = "down"
  /\ Goto(IF version = NoVersionTable /\ "users" \in objects THEN "stamping" ELSE "migrating")
  /\ UNCHANGED <<schema_vars, account_vars, cvs, events>>

\* Mutant of baseline: the tables are there, so nothing is left to do.
stamped_head == Head

baseline == 1

\* alembic stamp baseline0001.
stamp ==
  /\ pc = "stamping"
  /\ version' = baseline
  /\ Goto("migrating")
  /\ UNCHANGED <<objects, cards, notes, account_vars, cvs, events>>

\* alembic upgrade head: one transaction, or none of it and the container exits.
upgrade_head ==
  /\ pc = "migrating"
  /\ LET from == IF version = NoVersionTable THEN 0 ELSE version
         built == migrated(objects, from, Head)
     IN \E board \in IF from < 5 THEN backfilled ELSE {cards} :
          \/ /\ Error \notin built /\ KeysAreUnique(board)
             /\ objects' = built /\ version' = Head /\ cards' = board
             /\ user' = IF from < 2 /\ user # NoUser
                        THEN [user EXCEPT !.key = encrypted(@)] ELSE user
             /\ Goto("lifespan")
          \/ /\ Error \in built \/ ~KeysAreUnique(board)
             /\ Goto("down")
             /\ UNCHANGED <<objects, version, cards, user>>
  /\ UNCHANGED <<notes, env, serial, token, session, reset, cvs, events>>

------------------------------------------------------------------------------
(* The lifespan *)

\* Mutant of secret_is_fit: the placeholder is accepted as well.
any_secret == TRUE

secret_is_fit == jwt_secret_key # Unset

\* Without a fit secret the process exits.
lifespan ==
  /\ pc = "lifespan"
  /\ Goto(IF secret_is_fit THEN "users" ELSE "down")
  /\ UNCHANGED <<schema_vars, account_vars, cvs, events>>

seed_user ==
  /\ pc = "users"
  /\ check_admin
  /\ Goto("cv")
  /\ UNCHANGED <<schema_vars, env, token, session, cvs, events>>

\* Mutant of first_cv: an earlier start's fallback is not looked for.
first_cv_always == cvs \cup {"fallback"}

first_cv == IF cvs = {} THEN {"fallback"} ELSE cvs

seed_cv ==
  /\ pc = "cv"
  /\ cvs' = first_cv
  /\ Goto("up")
  /\ UNCHANGED <<schema_vars, account_vars, events>>

boot == probe \/ stamp \/ upgrade_head \/ lifespan \/ seed_user \/ seed_cv

------------------------------------------------------------------------------
(* Serving *)

Account(A) == pc = "up" /\ A /\ UNCHANGED <<schema_vars, pc, cvs>>

\* What somebody starts, and what then runs to its end.
account_event ==
  /\ Event
  /\ \/ \E r \in Sessions :
          \/ Account(change_password(r)) \/ Account(backfill(r)) \/ Account(seed_admin(r))
          \/ \E k \in GeminiKeys \cup {Unset} : Account(update_gemini_key(r, k))
     \/ Account(reset_password) \/ Account(reset_admin_password)

account_step ==
  /\ \/ Account(login)
     \/ \E r \in Sessions :
          \/ Account(commit_password(r)) \/ Account(commit_key(r))
          \/ Account(commit_backfill(r)) \/ Account(commit_seed_admin(r))
  /\ UNCHANGED events

\* seed_e2e_user also seeds a CV.
seed_e2e ==
  /\ pc = "up" /\ Event
  /\ seed_e2e_user
  /\ cvs' = IF cvs = {} THEN {"e2e"} ELSE cvs
  /\ UNCHANGED <<schema_vars, pc>>

board_event ==
  /\ pc = "up" /\ Event
  /\ \E i \in Interactions : promote(i) \/ \E c \in cards : add_note(c, i)
  /\ UNCHANGED <<account_vars, pc, cvs>>

\* readiness.py, and /health by it: the answer is 200.
schema_ready == "profile_snapshots" \in objects

health_check == pc = "up" /\ schema_ready /\ UNCHANGED vars

------------------------------------------------------------------------------
(* What ends it, and what an operator does while nothing runs *)

\* A crash or a stop takes what has not been committed and a process's own secret.
stop ==
  /\ pc # "down" /\ Event
  /\ Goto("down")
  /\ token' = IF token = "process" THEN Unset ELSE token
  /\ session' = [r \in Sessions |-> IF Is(r, "idle") THEN Idle ELSE Ended]
  /\ UNCHANGED <<schema_vars, env, user, serial, reset, cvs>>

deploy ==
  /\ pc = "down" /\ Event
  /\ env' \in Environments \ {env}
  /\ token' = IF env'.jwt = env.jwt THEN token ELSE Unset
  /\ UNCHANGED <<schema_vars, user, serial, session, reset, pc, cvs>>

\* Mutant of key_may_be_lost: NULL is written for what cannot be decrypted.
key_is_expendable(u) == TRUE

\* encrypt0002's downgrade refuses while a key cannot be decrypted.
key_may_be_lost(u) == u = NoUser \/ ~Unreadable(u.key)

\* alembic downgrade -1.
rollback ==
  /\ pc = "down" /\ version > 0 /\ Event
  /\ LET left == downgraded(version, objects) IN
     /\ Error \notin left
     /\ version = 2 => key_may_be_lost(user)
     /\ objects' = left
     /\ version' = version - 1
  /\ cards' = IF version = 5 THEN {[c EXCEPT !.key = NoInteraction] : c \in cards}
              ELSE IF version = 4 THEN {} ELSE cards
  /\ notes' = IF version = 4 THEN {} ELSE notes
  /\ user' = IF version = 1 THEN NoUser
             ELSE IF version = 2 /\ user # NoUser
             THEN [user EXCEPT !.key = [text |-> decrypt(@), by |-> Unset]] ELSE user
  /\ cvs' = IF version = 1 THEN {} ELSE cvs
  /\ UNCHANGED <<env, serial, token, session, reset, pc>>

Next ==
  \/ boot
  \/ account_event \/ account_step \/ seed_e2e \/ board_event \/ health_check
  \/ stop \/ deploy \/ rollback

\* restart: always; every step of a start ends.
Spec == Init /\ [][Next]_vars /\ WF_vars(boot)

------------------------------------------------------------------------------
(* Properties *)

\* Every object the models need, whatever its constraint is called.
Complete(n) ==
  /\ Built[n] \ {"uq_promoted_from"} \subseteq objects
  /\ n >= 5 => promotion_is_unique(objects)

\* alembic_version never claims a revision whose objects are not there: what is
\* recorded is what a later upgrade skips.
VersionIsHonest == \A n \in 1..Head : version >= n => Complete(n)

\* Requests are answered by a process with the whole schema and a signing secret
\* only, and with one CV to request, however often the start was cut off.
ServesWhole ==
  pc = "up" => version = Head /\ schema_ready /\ secret_is_fit /\ Cardinality(cvs) = 1

\* The default password does not survive a start with ADMIN_PASSWORD (main.py's
\* maintenance); only a script run since then can have set it again.
WeakLoginEnds ==
  pc = "up" /\ user # NoUser /\ env.admin_password # Unset /\ user.password = "admin" => reset

\* The above, with the types.
Consistent == TypeOK /\ VersionIsHonest /\ ServesWhole /\ WeakLoginEnds

Ends(r, op) == Is(r, op) /\ session'[r] = Ended /\ pc' = "up"
Stays == user # NoUser /\ user' # NoUser /\ user'.id = user.id

\* The Gemini key of a row is what its owner saved: only a committed save, a backfill
\* that read another key, or a development seed over a key that cannot be read puts
\* another in its place.  Neither migrations nor their rollback, nor starts under
\* other settings, lose it or wrap it twice.
KeyIsKept ==
  [][Stays /\ user'.key.text # user.key.text =>
       \/ \E r \in Sessions : Ends(r, "key") /\ user'.key.text = session[r].new
       \/ \E r \in Sessions : Ends(r, "backfill") /\ session[r].row.key # user.key
       \/ pc = "users" /\ decrypt(user.key) = Unset /\ user'.key.text = env.seed]_vars

\* A save that nothing else overtook is what the application reads from then on, also
\* when it clears the key.
SaveTakesEffect ==
  [][\A r \in Sessions : Ends(r, "key") /\ session[r].row = user =>
       decrypt(user'.key) = session[r].new]_vars

\* While encryption is on nothing writes a key as plain text, but the rollback of the
\* revision that encrypted it.
NothingIsWrittenPlain ==
  [][env.encryption_key # Unset /\ user' # NoUser /\ is_plain(user'.key) =>
       Stays /\ (user'.key = user.key \/ (version = 2 /\ version' = 1))]_vars

\* A password the owner chose goes by the owner's change or by a script named for it:
\* no start rotates it.
OwnPasswordIsKept ==
  [][Stays /\ user.password = "own" /\ user'.password # "own" => pc = "up"]_vars

\* What starts, migrations and scripts leave of the account: key, encryption, password.
AccountIsKept ==
  KeyIsKept /\ SaveTakesEffect /\ NothingIsWrittenPlain /\ OwnPasswordIsKept

\* The entrypoint implements Rollout: a level is a revision whose objects, and those
\* of all before it, are there.
Level == CHOOSE n \in 0..Head : Complete(n) /\ \A m \in 0..Head : Complete(m) => m <= n

RO == INSTANCE Rollout WITH level <- Level, serving <- pc = "up"
ImplementsRollout == RO!Spec

\* Whatever the database's origin and wherever the last start was cut off, a container
\* that is left alone serves, unless its settings forbid it.
EveryStartServes == pc = "down" ~> pc = "up" \/ ~secret_is_fit
==============================================================================
