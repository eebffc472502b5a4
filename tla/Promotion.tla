------------------------------ MODULE Promotion ------------------------------
(***************************************************************************)
(* The recruiter inbox and the promotion of an inbox interaction into a    *)
(* card of the job-search pipeline (backend/app/api/interactions.py,       *)
(* backend/app/api/opportunities.py).                                      *)
(*                                                                         *)
(* Every HTTP request runs its handler in a session of its own on a READ   *)
(* COMMITTED database, and other requests run between any two of its       *)
(* statements: a handler is one action per statement whose effect or whose *)
(* answer another request can change.  Handlers whose only statement that  *)
(* matters is one insert are a single action.                              *)
(*                                                                         *)
(* A request is used once; a retry is another request.  A card's id is the *)
(* request that inserted it (the code draws a fresh uuid4).                *)
(***************************************************************************)
EXTENDS FiniteSets

CONSTANTS
  Interactions,   \* ids of inbox rows
  Requests,       \* concurrent HTTP requests (TLC's bound on their number)
  NoInteraction,  \* NULL in promoted_from_interaction_id and interaction_id
  NoCard          \* no card returned

ASSUME NoInteractionAssumption == NoInteraction \notin Interactions
ASSUME NoCardAssumption == NoCard \notin Requests

VARIABLES
  inbox,    \* committed interactions rows: a set of [id, source, status]
  cards,    \* committed opportunities rows: a set of [id, from, source]
  notes,    \* committed opportunity_notes rows: a set of [by, card, item]
  pc,       \* where each request's handler is
  item,     \* the interaction_id of each request's body
  seen,     \* the interaction row a request holds in its session
  answer    \* the card a request was answered with

vars == <<inbox, cards, notes, pc, item, seen, answer>>

INTERACTION_STATUSES == {"new", "contacted", "in_progress", "closed"}
INTERACTION_SOURCES == {"contact_form", "cv_request", "booking"}
OPPORTUNITY_SOURCES ==
  {"recruiter_outreach", "self_applied", "referral", "discovery"}

Interaction == [id : Interactions, source : INTERACTION_SOURCES,
                status : INTERACTION_STATUSES]
Card == [id : Requests, from : Interactions \cup {NoInteraction},
         source : OPPORTUNITY_SOURCES]
Note == [by : Requests, card : Requests,
         item : Interactions \cup {NoInteraction}]

\* Steps of promote_interaction, of update_status, and the ways a request ends.
Promoting == {"looked_up", "not_promoted", "flushed", "committed", "lost"}
Ended == {"done", "not_found", "raised", "dead"}

TypeOK ==
  /\ inbox \subseteq Interaction
  /\ cards \subseteq Card
  /\ notes \subseteq Note
  /\ pc \in [Requests -> {"idle", "patching"} \cup Promoting \cup Ended]
  /\ item \in [Requests -> Interactions \cup {NoInteraction}]
  /\ seen \in [Requests -> Interaction \cup {NoInteraction}]
  /\ answer \in [Requests -> Requests \cup {NoCard}]

Init ==
  /\ inbox = {}
  /\ cards = {}
  /\ notes = {}
  /\ pc = [r \in Requests |-> "idle"]
  /\ item = [r \in Requests |-> NoInteraction]
  /\ seen = [r \in Requests |-> NoInteraction]
  /\ answer = [r \in Requests |-> NoCard]

------------------------------------------------------------------------------
(* The inbox *)

Goto(r, step) == pc' = [pc EXCEPT ![r] = step]

Row(i) == {x \in inbox : x.id = i}

\* submit_contact: the public form inserts one row and commits.
submit_contact(i) ==
  /\ Row(i) = {}
  /\ inbox' = inbox \cup {[id |-> i, source |-> "contact_form", status |-> "new"]}
  /\ UNCHANGED <<cards, notes, pc, item, seen, answer>>

\* request_cv indexes an accepted CV request in the inbox.
index_cv_request(i) ==
  /\ Row(i) = {}
  /\ inbox' = inbox \cup {[id |-> i, source |-> "cv_request", status |-> "new"]}
  /\ UNCHANGED <<cards, notes, pc, item, seen, answer>>

\* update_status reads the row: 404 when there is none.
update_status(r, i) ==
  /\ pc[r] = "idle"
  /\ \/ /\ Row(i) = {}
        /\ Goto(r, "not_found")
        /\ UNCHANGED seen
     \/ \E x \in Row(i) :
          /\ seen' = [seen EXCEPT ![r] = x]
          /\ Goto(r, "patching")
  /\ UNCHANGED <<inbox, cards, notes, item, answer>>

\* The ORM writes a status only where it differs from the one it loaded.
WriteStatus(x, s) ==
  {IF y.id = x.id /\ s # x.status THEN [y EXCEPT !.status = s] ELSE y : y \in inbox}

\* update_status commits the caller's choice of status.
commit_status(r, s) ==
  /\ pc[r] = "patching"
  /\ inbox' = WriteStatus(seen[r], s)
  /\ Goto(r, "done")
  /\ UNCHANGED <<cards, notes, item, seen, answer>>

------------------------------------------------------------------------------
(* Cards created and annotated by hand *)

\* create_opportunity: a card that comes from no interaction.
create_opportunity(r, src) ==
  /\ pc[r] = "idle"
  /\ cards' = cards \cup {[id |-> r, from |-> NoInteraction, source |-> src]}
  /\ Goto(r, "done")
  /\ UNCHANGED <<inbox, notes, item, seen, answer>>

\* add_note: the caller may link a note to any interaction id, or to none.
add_note(r, c, i) ==
  /\ pc[r] = "idle"
  /\ notes' = notes \cup {[by |-> r, card |-> c.id, item |-> i]}
  /\ Goto(r, "done")
  /\ UNCHANGED <<inbox, cards, item, seen, answer>>

------------------------------------------------------------------------------
(* promote_interaction *)

\* Mutant of the table: everything is a recruiter's outreach (#278).
outreach_only == [s \in INTERACTION_SOURCES |-> "recruiter_outreach"]

INTERACTION_TO_OPPORTUNITY_SOURCE ==
  [s \in INTERACTION_SOURCES |->
     IF s = "contact_form" THEN "recruiter_outreach" ELSE "discovery"]

\* Mutant of _find_promoted: the key is read off the notes, which callers write.
find_by_note(i) == {c \in cards : \E n \in notes : n.card = c.id /\ n.item = i}

\* The cards a lookup by promoted_from_interaction_id finds.
_find_promoted(i) == {c \in cards : c.from = i}

\* First statement: load the interaction, 404 when there is none.
look_up(r, i) ==
  /\ pc[r] = "idle"
  /\ item' = [item EXCEPT ![r] = i]
  /\ \/ /\ Row(i) = {}
        /\ Goto(r, "not_found")
        /\ UNCHANGED seen
     \/ \E x \in Row(i) :
          /\ seen' = [seen EXCEPT ![r] = x]
          /\ Goto(r, "looked_up")
  /\ UNCHANGED <<inbox, cards, notes, answer>>

\* The fast path: a card that is already there is the answer.
check_existing(r) ==
  /\ pc[r] = "looked_up"
  /\ \/ /\ _find_promoted(item[r]) = {}
        /\ Goto(r, "not_promoted")
        /\ UNCHANGED answer
     \/ \E c \in _find_promoted(item[r]) :
          /\ answer' = [answer EXCEPT ![r] = c.id]
          /\ Goto(r, "done")
  /\ UNCHANGED <<inbox, cards, notes, item, seen>>

\* An insert of a key another transaction has inserted and not committed waits
\* for that transaction to end.
Blocked(r) == \E q \in Requests \ {r} : pc[q] = "flushed" /\ item[q] = item[r]

FlushTo(r, step) ==
  /\ pc[r] = "not_promoted"
  /\ Goto(r, step)
  /\ UNCHANGED <<inbox, cards, notes, item, seen, answer>>

\* Mutants of flush: no UNIQUE on the key; no wait for the key's uncommitted owner.
flush_without_unique(r) == FlushTo(r, "flushed")
flush_without_waiting(r) ==
  FlushTo(r, IF _find_promoted(item[r]) = {} /\ ~Blocked(r) THEN "flushed" ELSE "lost")
\* The flush of the new card: the UNIQUE index refuses a key that is committed.
flush(r) ==
  ~Blocked(r) /\ FlushTo(r, IF _find_promoted(item[r]) = {} THEN "flushed" ELSE "lost")

\* The card, its first note and the interaction's status become visible together.
commit_promotion(r) ==
  /\ pc[r] = "flushed"
  /\ cards' = cards \cup
       {[id |-> r, from |-> item[r],
         source |-> INTERACTION_TO_OPPORTUNITY_SOURCE[seen[r].source]]}
  /\ notes' = notes \cup {[by |-> r, card |-> r, item |-> item[r]]}
  /\ inbox' = IF seen[r].status = "new"
                THEN WriteStatus(seen[r], "in_progress")
                ELSE inbox
  /\ Goto(r, "committed")
  /\ UNCHANGED <<item, seen, answer>>

\* After the commit: refresh the notes and answer with the new card.
respond(r) ==
  /\ pc[r] = "committed"
  /\ answer' = [answer EXCEPT ![r] = r]
  /\ Goto(r, "done")
  /\ UNCHANGED <<inbox, cards, notes, item, seen>>

\* Mutant of find_winner: the write is tried again until it succeeds.
insert_again(r) ==
  /\ pc[r] = "lost"
  /\ Goto(r, "not_promoted")
  /\ UNCHANGED <<inbox, cards, notes, item, seen, answer>>

\* After an IntegrityError and its rollback: answer with the winner's card.
find_winner(r) ==
  /\ pc[r] = "lost"
  /\ \/ /\ _find_promoted(item[r]) = {}
        /\ Goto(r, "raised")
        /\ UNCHANGED answer
     \/ \E c \in _find_promoted(item[r]) :
          /\ answer' = [answer EXCEPT ![r] = c.id]
          /\ Goto(r, "done")
  /\ UNCHANGED <<inbox, cards, notes, item, seen>>

------------------------------------------------------------------------------
\* The process or its connection dies under a request: the database rolls back
\* what is not committed.
die(r) ==
  /\ pc[r] \notin Ended \cup {"idle"}
  /\ Goto(r, "dead")
  /\ UNCHANGED <<inbox, cards, notes, item, seen, answer>>

\* Every request has ended: nothing else is left to happen.
Quiescent ==
  /\ \A r \in Requests : pc[r] \in Ended
  /\ UNCHANGED vars

\* The steps of a promotion after its first: what the server does by itself.
promote_step(r) ==
  check_existing(r) \/ flush(r) \/ commit_promotion(r) \/ respond(r) \/ find_winner(r)

Next ==
  \/ \E i \in Interactions : submit_contact(i) \/ index_cv_request(i)
  \/ \E r \in Requests :
       \/ \E i \in Interactions : look_up(r, i) \/ update_status(r, i)
       \/ \E s \in INTERACTION_STATUSES : commit_status(r, s)
       \/ \E s \in OPPORTUNITY_SOURCES : create_opportunity(r, s)
       \/ \E c \in cards, i \in Interactions \cup {NoInteraction} : add_note(r, c, i)
       \/ promote_step(r)
       \/ die(r)
  \/ Quiescent

Spec == Init /\ [][Next]_vars

\* The event loop and the database keep executing a promotion that has begun;
\* nobody has to send a request, and no other request has to finish.
Fairness == \A r \in Requests : WF_vars(promote_step(r))

FairSpec == Spec /\ Fairness

------------------------------------------------------------------------------
(* Properties *)

\* However promotions, retries and crashes interleave, the board never holds two
\* cards for one interaction: nothing in the API could delete the duplicate
\* (promote_interaction, the UNIQUE promoted_from_interaction_id).
OneCardPerInteraction ==
  \A c, d \in cards : c.from # NoInteraction /\ c.from = d.from => c = d

\* Every promotion that is answered is answered with the card of the interaction
\* it asked about, and that card is committed: the winner of a race and its
\* losers see the same card, and no forged note can redirect the answer
\* (promote_interaction, _find_promoted).
AnswerIsTheCard ==
  \A r \in Requests :
    answer[r] # NoCard => \E c \in cards : c.id = answer[r] /\ c.from = item[r]

\* A promoted card is never seen without the inbox message as a note of its own,
\* nor with an origin other than its interaction's: card, note and origin are
\* one commit (promote_interaction).
CardKeepsItsOrigin ==
  \A c \in cards : c.from # NoInteraction =>
    /\ \E n \in notes : n.by = c.id /\ n.card = c.id /\ n.item = c.from
    /\ \A x \in Row(c.from) :
         c.source = "recruiter_outreach" <=> x.source = "contact_form"

\* The error path of a lost race always finds the winner: the branch the code
\* excludes from coverage ("nothing else violates this key") is never taken.
LoserFindsWinner == \A r \in Requests : pc[r] # "raised"

\* Rows and requests are what they should be, cards know where they come from and
\* losers where they end.
Consistent == TypeOK /\ CardKeepsItsOrigin /\ LoserFindsWinner

\* A promotion that was let in ends, unless its process dies: whoever waits on the
\* unique index for another request is released when that one commits or dies.
PromotionEnds == \A r \in Requests : pc[r] \in Promoting ~> pc[r] \in Ended

\* The promise of promote_interaction, without sessions or statements.
CardIn(board, i) ==
  IF \E c \in board : c.from = i THEN (CHOOSE c \in board : c.from = i).id ELSE NoCard

PO == INSTANCE PromoteOnce WITH
        asked <- item, card <- [i \in Interactions |-> CardIn(cards, i)], told <- answer

\* Promotion implements PromoteOnce: a card is minted once per interaction and
\* never replaced, and every answer is the card the interaction owns.
ImplementsPromoteOnce == PO!Spec

\* test_opportunities_api.py: "Promoting an already-worked interaction must not
\* regress its status".  A step that makes a promotion visible touches no status
\* but "new".
PromotionNeverRegresses ==
  [][\A x \in inbox :
       (\E r \in Requests : pc[r] = "flushed" /\ pc'[r] = "committed") /\ x.status # "new"
         => x \in inbox']_vars
==============================================================================
