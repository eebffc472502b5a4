-------------------------------- MODULE Schema --------------------------------
(***************************************************************************)
(* The chain of revisions in backend/migrations/versions, as what each one *)
(* makes of a database: the objects in it, by the names that matter, and   *)
(* the promoted cards whose key promote0005 backfills.  A statement that   *)
(* fails leaves Error among the objects; the transaction that meets it is  *)
(* rolled back.                                                            *)
(***************************************************************************)
EXTENDS Integers, FiniteSets

CONSTANTS
  Interactions,     \* messages in the inbox
  NoInteraction,
  MaxCards          \* TLC's bound on the cards

ASSUME NoInteractionAssumption == NoInteraction \notin Interactions
ASSUME CardAssumption == MaxCards \in Nat

VARIABLES
  version,    \* the revision in alembic_version: 0 for none, and without the table -1
  objects,    \* tables, columns, constraints and indexes
  cards,      \* opportunities; a smaller id is an older card
  notes       \* opportunity_notes

schema_vars == <<version, objects, cards, notes>>

NoVersionTable == -1
Head == 8
Error == "error"

Core == {"users", "cv_documents", "cv_requests", "posts", "profile_snapshots"}

\* CREATE TABLE fails on what is there, DROP on what is not.
create(o, new) == o \cup new \cup IF o \cap new = {} THEN {} ELSE {Error}
drop(o, old) == IF old \subseteq o THEN o \ old ELSE o \cup {Error}

------------------------------------------------------------------------------
(* What each upgrade() does to the objects *)

baseline0001(o) == create(o, Core)

encrypt0002(o) == o \cup {"key_as_text"}

inbox0003(o) == IF "interactions" \in o THEN o ELSE create(o, {"interactions"})

\* Mutant of pipeline0004: the self-adopt guard is forgotten.
pipeline0004_unguarded(o) == create(o, {"opportunities", "opportunity_notes"})

pipeline0004(o) ==
  IF "opportunities" \in o THEN o ELSE create(o, {"opportunities", "opportunity_notes"})

\* Columns are compared, not names: create_all calls the constraint something else.
promotion_is_unique(o) == o \cap {"uq_promoted_from", "promoted_from_key"} # {}

promote0005(o) ==
  o \cup {"promoted_from", "ix_notes_interaction"}
    \cup IF promotion_is_unique(o) THEN {} ELSE {"uq_promoted_from"}

interview0006(o) == o \cup {"interviews", "ix_interviews"}

cvvar0007(o) == o \cup {"sent_cv"}

avail0008(o) == IF "site_settings" \in o THEN o ELSE create(o, {"site_settings"})

revision(n, o) ==
  CASE n = 1 -> baseline0001(o) [] n = 2 -> encrypt0002(o)  [] n = 3 -> inbox0003(o)
    [] n = 4 -> pipeline0004(o) [] n = 5 -> promote0005(o)  [] n = 6 -> interview0006(o)
    [] n = 7 -> cvvar0007(o)    [] n = 8 -> avail0008(o)

\* The objects after the revisions v + 1 to n.
migrated(o, v, n) ==
  LET after[k \in v..n] == IF k = v THEN o ELSE revision(k, after[k - 1]) IN after[n]

\* A database built by migrations alone, and one built by create_all from the
\* models as they are.
Built == [v \in 0..Head |-> migrated({}, 0, v)]
CreatedByModels == (Built[Head] \ {"uq_promoted_from"}) \cup {"promoted_from_key"}

------------------------------------------------------------------------------
(* What each downgrade() does to them *)

\* promote0005 drops its constraint by the name it gave it; baseline0001 cannot
\* drop cv_documents while an opportunity's sent_cv_id refers to it.
downgraded(n, o) ==
  CASE n = 8 -> drop(o, {"site_settings"})
    [] n = 7 -> drop(o, {"sent_cv"})
    [] n = 6 -> drop(o, {"ix_interviews", "interviews"})
    [] n = 5 -> drop(o, {"ix_notes_interaction", "uq_promoted_from", "promoted_from"})
    [] n = 4 -> drop(o, {"opportunity_notes", "opportunities"})
    [] n = 3 -> drop(o, {"interactions"})
    [] n = 2 -> o \ {"key_as_text"}
    [] n = 1 -> IF "sent_cv" \in o THEN o \cup {Error} ELSE drop(o, Core)

------------------------------------------------------------------------------
(* Cards: key is the column promoted_from_interaction_id, from the message the
   card was promoted from; a note is written by promote or by hand. *)

Items == Interactions \cup {NoInteraction}
Card == [id : 1..MaxCards, from : Items, key : Items]
Note == [card : 1..MaxCards, item : Interactions, by_hand : BOOLEAN]

\* What a board is as long as nobody deletes a card: cards are numbered, each has the
\* note of its promotion, and notes are of cards.
BoardOK(board, timeline) ==
  /\ board \subseteq Card /\ timeline \subseteq Note /\ IsFiniteSet(board)
  /\ \A c, d \in board : c.id = d.id => c = d
  /\ \A c \in board : c.id <= Cardinality(board)
  /\ \A c \in board : c.from # NoInteraction =>
       \E n \in timeline : n.card = c.id /\ n.item = c.from
  /\ \A n \in timeline : \E c \in board : c.id = n.card

Named(i) == {n.card : n \in {m \in notes : m.item = i}}

\* Mutant of oldest: the order is descending.
newest(c, i) == c.id \in Named(i) /\ \A d \in Named(i) : d <= c.id

\* DISTINCT ON (interaction_id) ... ORDER BY created_at, id.
oldest(c, i) == c.id \in Named(i) /\ \A d \in Named(i) : c.id <= d

\* The messages the backfill may give a card; of several the join takes any.
claimed(c) == {i \in Interactions : oldest(c, i)}

backfilled ==
  LET choices == {f \in [cards -> Items] :
                    \A c \in cards :
                      IF c.key # NoInteraction \/ claimed(c) = {} THEN f[c] = c.key
                      ELSE f[c] \in claimed(c)}
  IN {{[c EXCEPT !.key = f[c]] : c \in cards} : f \in choices}

KeysAreUnique(board) ==
  \A c, d \in board : c.key = d.key /\ c.key # NoInteraction => c = d

\* promote_interaction as a whole (Promotion has its steps): the card that has the
\* key, or a new one with its note.
promote(i) ==
  LET id == Cardinality(cards) + 1 IN
  /\ id <= MaxCards
  /\ \A c \in cards : c.key # i
  /\ cards' = cards \cup {[id |-> id, from |-> i, key |-> i]}
  /\ notes' = notes \cup {[card |-> id, item |-> i, by_hand |-> FALSE]}
  /\ UNCHANGED <<version, objects>>

\* add_note: a note may name any message.
add_note(c, i) ==
  /\ notes' = notes \cup {[card |-> c.id, item |-> i, by_hand |-> TRUE]}
  /\ UNCHANGED <<version, objects, cards>>

------------------------------------------------------------------------------
(* What properties speak of *)

\* Some card's timeline names a message the card was not promoted from.
Crossed(i) ==
  \E c \in cards, n \in notes :
    n.card = c.id /\ n.item # c.from /\ i \in {n.item, c.from}

\* A message whose promotion no hand-made note has blurred has kept its oldest card
\* as the one promote answers with, through backfills and rollbacks
\* (promote0005: "cards created before this migration keep their idempotency").
PromotionsKeepTheirCard ==
  "promoted_from" \in objects =>
    \A i \in Interactions :
      LET promoted == {c \in cards : c.from = i} IN
      promoted # {} /\ ~Crossed(i) =>
        \E c \in promoted : c.key = i /\ \A d \in promoted : c.id <= d.id
==============================================================================
