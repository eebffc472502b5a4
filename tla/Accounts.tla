------------------------------- MODULE Accounts -------------------------------
(***************************************************************************)
(* The owner's account: sign-in, password and Gemini key (api/auth.py,     *)
(* services/auth.py), encryption at rest (services/crypto.py), and the     *)
(* maintenance scripts run beside the application.  The program only ever  *)
(* creates one user, "admin", active and an administrator.  A handler or a *)
(* script that reads before it writes is a session of two steps; what it   *)
(* writes is what differs from the row as it read it.                      *)
(***************************************************************************)
EXTENDS Integers

CONSTANTS
  Sessions,         \* requests and script runs, each used once
  GeminiKeys,
  EncryptionKeys,
  Unset,            \* NULL, the empty setting, no encryption
  NoUser

ASSUME UnsetAssumption == Unset \notin GeminiKeys \cup EncryptionKeys \cup {"ok", "process"}

VARIABLES
  env,        \* the settings the container was created with
  user,       \* the row of "admin"
  serial,     \* users_id_seq
  token,      \* what the owner's token was signed with
  session,
  reset       \* history: a script has set the default password since the last start

account_vars == <<env, user, serial, token, session, reset>>

\* jwt says what JWT_SECRET_KEY is: "ok", "process" for a random one per process
\* (JWT_ALLOW_EPHEMERAL_SECRET), Unset for an insecure one.
Settings == [admin_password : {"env", Unset}, encryption_key : EncryptionKeys \cup {Unset},
             seed : GeminiKeys \cup {Unset}, jwt : {"ok", "process", Unset}]

Stored == [text : GeminiKeys \cup {Unset}, by : EncryptionKeys \cup {Unset}]

\* A password is the default, ADMIN_PASSWORD, the end-to-end tests' or another.
User == [id : Nat, password : {"admin", "env", "admin123", "own"}, key : Stored]

ASSUME NoUserAssumption == NoUser \notin User

Idle == [op |-> "idle"]
Ended == [op |-> "ended"]
Session ==
  {Idle, Ended} \cup
  [op : {"password", "key", "backfill", "seed"}, row : User \cup {NoUser},
   new : GeminiKeys \cup {Unset}]

------------------------------------------------------------------------------
(* crypto.py: a stored value is NULL, marked as encrypted, or plain. *)

encrypt(k) == [text |-> k, by |-> IF k = Unset THEN Unset ELSE env.encryption_key]

\* Plain text passes; without the key it was encrypted with, a value reads as unset.
decrypt(s) == IF s.by \in {Unset, env.encryption_key} THEN s.text ELSE Unset

is_plain(s) == s.text # Unset /\ s.by = Unset
Unreadable(s) == s.text # Unset /\ decrypt(s) = Unset

\* Mutant of encrypted: the marker is not looked at.
encrypted_again(s) ==
  IF s.text = Unset \/ env.encryption_key = Unset THEN s
  ELSE [text |-> s, by |-> env.encryption_key]

\* encrypt0002 over a row: what is marked is left alone.
encrypted(s) == IF is_plain(s) THEN encrypt(s.text) ELSE s

------------------------------------------------------------------------------
(* Rows and sessions *)

new_user(id, password, key) == [id |-> id, password |-> password, key |-> key]
SameRow(row) == user # NoUser /\ row # NoUser /\ user.id = row.id

Open(r, op, new) == session' = [session EXCEPT ![r] = [op |-> op, row |-> user, new |-> new]]
Close(r) == session' = [session EXCEPT ![r] = Ended]
Is(r, op) == session[r].op = op

\* get_jwt_secret_key, and get_current_user on the owner's token.
jwt_secret_key == env.jwt
signed_in == token # Unset /\ token = jwt_secret_key /\ user # NoUser

\* login, with the right password.
login ==
  /\ user # NoUser
  /\ token' = jwt_secret_key
  /\ UNCHANGED <<env, user, serial, session, reset>>

------------------------------------------------------------------------------
(* The owner's requests *)

change_password(r) ==
  /\ signed_in /\ Is(r, "idle")
  /\ Open(r, "password", Unset)
  /\ UNCHANGED <<env, user, serial, token, reset>>

\* A new hash always differs; a row that is gone makes the commit fail.
commit_password(r) ==
  /\ Is(r, "password")
  /\ user' = IF SameRow(session[r].row) THEN [user EXCEPT !.password = "own"] ELSE user
  /\ Close(r)
  /\ UNCHANGED <<env, serial, token, reset>>

update_gemini_key(r, k) ==
  /\ signed_in /\ Is(r, "idle")
  /\ Open(r, "key", k)
  /\ UNCHANGED <<env, user, serial, token, reset>>

\* Mutant of key_is_written: a guard that takes clearing the key for no change.
key_is_set(row, k) == k # Unset /\ decrypt(row.key) # k

\* The session compares with the value it read, and that value is decrypted.
key_is_written(row, k) == decrypt(row.key) # k

commit_key(r) ==
  /\ Is(r, "key")
  /\ LET row == session[r].row IN
     user' = IF key_is_written(row, session[r].new) /\ SameRow(row)
             THEN [user EXCEPT !.key = encrypt(session[r].new)] ELSE user
  /\ Close(r)
  /\ UNCHANGED <<env, serial, token, reset>>

------------------------------------------------------------------------------
(* Scripts *)

\* backfill_encrypt_gemini_key: SELECT, and then an UPDATE by id of a plain key,
\* whatever the row holds by then.
backfill(r) ==
  /\ env.encryption_key # Unset /\ Is(r, "idle") /\ user # NoUser
  /\ Open(r, "backfill", Unset)
  /\ UNCHANGED <<env, user, serial, token, reset>>

commit_backfill(r) ==
  /\ Is(r, "backfill")
  /\ LET row == session[r].row IN
     user' = IF is_plain(row.key) /\ SameRow(row)
             THEN [user EXCEPT !.key = encrypt(row.key.text)] ELSE user
  /\ Close(r)
  /\ UNCHANGED <<env, serial, token, reset>>

\* seed_admin: looks for "admin" and resets it, or creates it.
seed_admin(r) ==
  /\ Is(r, "idle")
  /\ Open(r, "seed", Unset)
  /\ UNCHANGED <<env, user, serial, token, reset>>

commit_seed_admin(r) ==
  /\ Is(r, "seed")
  /\ \/ /\ session[r].row = NoUser /\ user = NoUser
        /\ user' = new_user(serial, "admin", encrypt(Unset))
        /\ serial' = serial + 1
        /\ reset' = TRUE
     \/ /\ SameRow(session[r].row)
        /\ user' = [user EXCEPT !.password = "admin"]
        /\ reset' = TRUE
        /\ UNCHANGED serial
     \/ \* the name is taken by now, or the row is gone
        /\ user # session[r].row /\ ~SameRow(session[r].row)
        /\ UNCHANGED <<user, serial, reset>>
  /\ Close(r)
  /\ UNCHANGED <<env, token>>

reset_password ==
  /\ user # NoUser
  /\ user' = [user EXCEPT !.password = "admin"]
  /\ reset' = TRUE
  /\ UNCHANGED <<env, serial, token, session>>

reset_admin_password ==
  /\ user # NoUser /\ env.admin_password # Unset
  /\ user' = [user EXCEPT !.password = env.admin_password]
  /\ UNCHANGED <<env, serial, token, session, reset>>

\* seed_e2e_user: TRUNCATE and a new row, in one transaction.
seed_e2e_user ==
  /\ user' = new_user(serial, "admin123", encrypt(Unset))
  /\ serial' = serial + 1
  /\ UNCHANGED <<env, token, session, reset>>

------------------------------------------------------------------------------
(* The lifespan's check of the account *)

\* Mutant of maintained_password: whatever the password is.
maintained_always(p) == IF env.admin_password = Unset THEN p ELSE env.admin_password

\* Only the default is rotated.
maintained_password(p) ==
  IF p = "admin" /\ env.admin_password # Unset THEN env.admin_password ELSE p

\* A key that cannot be read is taken for a missing one.
maintained_key(s) ==
  IF env.seed # Unset /\ decrypt(s) = Unset THEN encrypt(env.seed) ELSE s

\* Without a user and ADMIN_PASSWORD nobody is created.
check_admin ==
  /\ IF user # NoUser
     THEN /\ user' = [user EXCEPT !.password = maintained_password(@), !.key = maintained_key(@)]
          /\ UNCHANGED serial
     ELSE IF env.admin_password # Unset
     THEN /\ user' = new_user(serial, env.admin_password, encrypt(env.seed))
          /\ serial' = serial + 1
     ELSE UNCHANGED <<user, serial>>
  /\ reset' = FALSE

==============================================================================
