--------------------------- MODULE OpportunityBoard ---------------------------
(***************************************************************************)
(* One card of the job-search pipeline: its stage, the CV variant sent to  *)
(* the company, its interviews and the notes timeline that is the only     *)
(* history the system keeps (backend/app/api/opportunities.py,             *)
(* backend/app/api/interviews.py).  Cards share nothing, so a board is any *)
(* number of independent copies of this module.                            *)
(*                                                                         *)
(* A handler loads rows into its session in one step and flushes and       *)
(* commits in a later one; other requests commit in between.  The ORM      *)
(* writes a column only where the session changed the value it had loaded. *)
(* The timeline is kept in commit order.  The code lists notes by          *)
(* created_at, which is set at the INSERT: the notes of two requests whose *)
(* flush and commit overlap may be listed the other way round.  A request  *)
(* is used once, and an interview is named by the request that booked it.  *)
(***************************************************************************)
EXTENDS Naturals, Sequences, SequencesExt

CONSTANTS
  Requests,     \* concurrent HTTP requests (TLC's bound on their number)
  Slots,        \* instants an interview can be booked for
  CvDocuments,  \* uploaded CV variants
  None          \* NULL, or nothing loaded

ASSUME NoneAssumption == None \notin Requests \cup Slots \cup CvDocuments

VARIABLES
  card,         \* the committed opportunities row: [stage, sent_cv]
  timeline,     \* its committed notes, oldest first
  interviews,   \* its committed interview rows
  reminders,    \* owner e-mails handed to the mail service
  pc,           \* where each request's handler is
  loaded        \* the rows each request's session holds: [card, iv]

vars == <<card, timeline, interviews, reminders, pc, loaded>>

OPPORTUNITY_STAGES ==
  <<"lead", "contacted", "screening", "interviewing", "offer",
    "closed_won", "closed_lost">>
Stage == ToSet(OPPORTUNITY_STAGES)
Rank(s) == CHOOSE k \in DOMAIN OPPORTUNITY_STAGES : OPPORTUNITY_STAGES[k] = s

INTERVIEW_OUTCOMES == {"pending", "passed", "failed", "cancelled"}

Opportunity == [stage : Stage, sent_cv : CvDocuments \cup {None}]
Interview == [id : Requests, slot : Slots, outcome : INTERVIEW_OUTCOMES]

\* A note is about the card (iv = None) or about one interview.  What came into
\* being has no `from`, what was removed has no `to`.
Value == Stage \cup Slots \cup INTERVIEW_OUTCOMES \cup CvDocuments \cup {None}
Note == [kind : {"stage", "cv", "slot", "outcome", "removed"},
         iv : Requests \cup {None}, from : Value, to : Value]

CardStep == {"moving", "sending_cv", "scheduling"}
InterviewStep == {"updating", "deleting"}
Working == CardStep \cup InterviewStep \cup {"committed"}
Ended == {"done", "not_found", "raised", "dead"}

Session == [card : Opportunity \cup {None}, iv : Interview \cup {None}]
Empty == [card |-> None, iv |-> None]

TypeOK ==
  /\ card \in Opportunity
  /\ timeline \in Seq(Note)
  /\ interviews \subseteq Interview
  /\ reminders \subseteq [by : Requests, iv : Requests, slot : Slots]
  /\ pc \in [Requests -> {"idle"} \cup Working \cup Ended]
  /\ loaded \in [Requests -> Session]

\* create_opportunity takes any stage; a promoted card starts at "lead".
Init ==
  /\ card \in [stage : Stage, sent_cv : {None}]
  /\ timeline = <<>>
  /\ interviews = {}
  /\ reminders = {}
  /\ pc = [r \in Requests |-> "idle"]
  /\ loaded = [r \in Requests |-> Empty]

------------------------------------------------------------------------------
\* The handler goes on, its session holding `session`; at its end it holds nothing.
Goto(r, step, session) ==
  /\ pc' = [pc EXCEPT ![r] = step]
  /\ loaded' = [loaded EXCEPT ![r] = session]

End(r, step) == Goto(r, step, Empty)

Record(notes) == timeline' = timeline \o notes

\* Mutant of Changed: a reschedule goes unrecorded.
changed_but_slot(kind, iv, from, to) ==
  IF from = to \/ (kind = "slot" /\ from # None) THEN <<>>
  ELSE <<[kind |-> kind, iv |-> iv, from |-> from, to |-> to]>>

\* The note of a change, and no note where nothing changed.
Changed(kind, iv, from, to) ==
  IF from = to THEN <<>>
  ELSE <<[kind |-> kind, iv |-> iv, from |-> from, to |-> to]>>

\* The value a column is left with: written only if it differs from the loaded one.
Write(current, old, new) == IF new # old THEN new ELSE current

------------------------------------------------------------------------------
(* The card *)

\* Every handler of the card first loads it.
get_card(r, step) ==
  /\ pc[r] = "idle"
  /\ Goto(r, step, [Empty EXCEPT !.card = card])
  /\ UNCHANGED <<card, timeline, interviews, reminders>>

\* Mutant of valid_stages: the stage in the body is not validated.
unvalidated_stages == Stage \cup {"archived"}

\* _validate_stage: what else a body names is refused with 422.
valid_stages == Stage

\* move_stage: the stage and the note that records it are one commit.
move_stage(r, s) ==
  /\ pc[r] = "moving"
  /\ card' = [card EXCEPT !.stage = Write(@, loaded[r].card.stage, s)]
  /\ Record(Changed("stage", None, loaded[r].card.stage, s))
  /\ End(r, "done")
  /\ UNCHANGED <<interviews, reminders>>

\* record_cv_sent: always a note, even when the same variant goes out again.
record_cv_sent(r, cv) ==
  /\ pc[r] = "sending_cv"
  /\ card' = [card EXCEPT !.sent_cv = Write(@, loaded[r].card.sent_cv, cv)]
  /\ Record(<<[kind |-> "cv", iv |-> None, from |-> None, to |-> cv]>>)
  /\ End(r, "done")
  /\ UNCHANGED <<interviews, reminders>>

------------------------------------------------------------------------------
(* Its interviews *)

\* Mutant: a card is dragged to "interviewing" from wherever it is.
advance_always(s) == "interviewing"

\* The stage a booking leads to, from the stage the session loaded: forward only.
_advance_stage_to_interviewing(s) ==
  IF s \in Stage /\ Rank(s) < Rank("interviewing") THEN "interviewing" ELSE s

\* schedule_interview: the row, its note and the stage move are one commit.
schedule_interview(r, t) ==
  LET seen == loaded[r].card.stage
      to == _advance_stage_to_interviewing(seen)
      row == [id |-> r, slot |-> t, outcome |-> "pending"]
  IN
  /\ pc[r] = "scheduling"
  /\ interviews' = interviews \cup {row}
  /\ card' = [card EXCEPT !.stage = Write(@, seen, to)]
  /\ Record(Changed("slot", r, None, t) \o Changed("stage", None, seen, to))
  /\ Goto(r, "committed", [Empty EXCEPT !.iv = row])
  /\ UNCHANGED reminders

Row(iv) == {x \in interviews : x.id = iv}

\* _get_interview_or_404, for PATCH and for DELETE.
get_interview(r, iv, step) ==
  /\ pc[r] = "idle"
  /\ \/ Row(iv) = {} /\ End(r, "not_found")
     \/ \E x \in Row(iv) : Goto(r, step, [Empty EXCEPT !.iv = x])
  /\ UNCHANGED <<card, timeline, interviews, reminders>>

\* Mutant of patched: the UPDATE carries every column of the session's copy.
patched_all(x, old, new) == new

\* The row after an UPDATE: only columns that differ from the session's copy.
patched(x, old, new) ==
  [x EXCEPT !.slot = Write(@, old.slot, new.slot),
            !.outcome = Write(@, old.outcome, new.outcome)]

\* Mutant: an UPDATE that matches no row passes unnoticed.
never_stale(old) == FALSE

\* The row this session copied is gone: its UPDATE would match nothing, and the ORM
\* raises.
stale(old) == Row(old.id) = {}

\* update_interview: a note for each change against the session's copy, all
\* rolled back when the row is gone.  Only a real move goes on to a reminder.
update_interview(r, t, o) ==
  LET old == loaded[r].iv
      new == [old EXCEPT !.slot = t, !.outcome = o]
  IN
  /\ pc[r] = "updating"
  /\ \/ /\ stale(old)
        /\ End(r, "raised")
        /\ UNCHANGED <<interviews, timeline>>
     \/ /\ ~stale(old)
        /\ interviews' = {IF x.id = old.id THEN patched(x, old, new) ELSE x :
                            x \in interviews}
        /\ Record(Changed("slot", old.id, old.slot, t)
                    \o Changed("outcome", old.id, old.outcome, o))
        /\ IF t # old.slot THEN Goto(r, "committed", loaded[r]) ELSE End(r, "done")
  /\ UNCHANGED <<card, reminders>>

removal_note(x) ==
  <<[kind |-> "removed", iv |-> x.id, from |-> x.outcome, to |-> None]>>

\* delete_interview: the note and the removal are one commit; a DELETE that finds
\* the row gone already is only a warning.
delete_interview(r) ==
  /\ pc[r] = "deleting"
  /\ interviews' = interviews \ Row(loaded[r].iv.id)
  /\ Record(removal_note(loaded[r].iv))
  /\ End(r, "done")
  /\ UNCHANGED <<card, reminders>>

\* After the commit of a booking or a move: refresh the row (an error when it is
\* gone by now) and queue the e-mail with what the refresh read.
send_reminder(r) ==
  /\ pc[r] = "committed"
  /\ \/ /\ Row(loaded[r].iv.id) = {}
        /\ End(r, "raised")
        /\ UNCHANGED reminders
     \/ \E x \in Row(loaded[r].iv.id) :
          /\ reminders' = reminders \cup {[by |-> r, iv |-> x.id, slot |-> x.slot]}
          /\ End(r, "done")
  /\ UNCHANGED <<card, timeline, interviews>>

------------------------------------------------------------------------------
\* The process dies under a request: nothing uncommitted remains, a reminder not
\* yet handed over is lost.
die(r) ==
  /\ pc[r] \in Working
  /\ End(r, "dead")
  /\ UNCHANGED <<card, timeline, interviews, reminders>>

Quiescent ==
  /\ \A r \in Requests : pc[r] \in Ended
  /\ UNCHANGED vars

Next ==
  \/ \E r \in Requests :
       \/ \E step \in CardStep : get_card(r, step)
       \/ \E s \in valid_stages : move_stage(r, s)
       \/ \E cv \in CvDocuments : record_cv_sent(r, cv)
       \/ \E t \in Slots : schedule_interview(r, t)
       \/ \E iv \in Requests, step \in InterviewStep : get_interview(r, iv, step)
       \/ \E t \in Slots, o \in INTERVIEW_OUTCOMES : update_interview(r, t, o)
       \/ delete_interview(r)
       \/ send_reminder(r)
       \/ die(r)
  \/ Quiescent

Spec == Init /\ [][Next]_vars

------------------------------------------------------------------------------
(* Properties *)

Positions(kind, iv) ==
  {k \in DOMAIN timeline : timeline[k].kind = kind /\ timeline[k].iv = iv}

\* The newest note of a kind has this `to`; without a note, `default`.
Newest(kind, iv, default) ==
  LET at == Positions(kind, iv) IN
  IF at = {} THEN default ELSE timeline[CHOOSE k \in at : \A j \in at : j <= k].to

\* "Stage history lives on the timeline": whatever moves and bookings race, the
\* newest stage note names the stage the card is in (move_stage,
\* schedule_interview).
TimelineNamesStage == Newest("stage", None, card.stage) = card.stage

\* The timeline tells every surviving interview's slot and outcome, although two
\* PATCHes may have loaded the same old row: neither can undo a column the other
\* wrote without a note saying so (update_interview).
TimelineNamesInterview ==
  \A x \in interviews :
    /\ Newest("slot", x.id, None) = x.slot
    /\ Newest("outcome", x.id, "pending") = x.outcome

\* The newest CV note names the variant the card has, or repeats one that was sent
\* before it: the column of a card loaded with that variant is not written again
\* (record_cv_sent: "the columns carry the CURRENT variant").
TimelineNamesCv ==
  LET at == Positions("cv", None)
      newest == Newest("cv", None, None) IN
  \/ newest = card.sent_cv
  \/ \E i, j \in at : i < j /\ timeline[i].to = newest /\ timeline[j].to = card.sent_cv

\* The timeline is true: of the card's stage, of every interview's slot and outcome,
\* and of the variant sent, but for a repetition.
TimelineIsTrue == TimelineNamesStage /\ TimelineNamesInterview /\ TimelineNamesCv

\* "Deleting an interview never loses the audit trail": what was booked is still
\* there or has a removal note, and never both (schedule_interview,
\* delete_interview).
BookedOrRemoved ==
  \A k \in DOMAIN timeline : timeline[k].kind = "slot" =>
    (Row(timeline[k].iv) = {} <=> Positions("removed", timeline[k].iv) # {})

\* Nothing is said about an interview after its removal but that it was removed
\* (again): a late PATCH leaves no note behind (update_interview).
RemovalIsLast ==
  \A k \in DOMAIN timeline : timeline[k].kind = "removed" =>
    \A j \in DOMAIN timeline :
      j > k /\ timeline[j].iv = timeline[k].iv => timeline[j].kind = "removed"

\* The audit trail of an interview is whole: both of the above.
AuditTrailIsKept == BookedOrRemoved /\ RemovalIsLast

\* Every reminder names a slot that was really booked: no e-mail for what was
\* rolled back (schedule_interview, update_interview).
RemindersAreReal ==
  \A m \in reminders : \E k \in Positions("slot", m.iv) : timeline[k].to = m.slot

\* Rows, requests and notes are what they should be, the audit trail is whole and no
\* reminder is made up.
Consistent == TypeOK /\ AuditTrailIsKept /\ RemindersAreReal

Books(r) == pc[r] = "scheduling" /\ pc'[r] = "committed"

\* A booking never drags a card backwards, as long as nobody moved the card since
\* the booking loaded it (_advance_stage_to_interviewing).
ForwardUnlessRaced ==
  [][\A r \in Requests : Books(r) /\ loaded[r].card.stage = card.stage
       => Rank(card'.stage) >= Rank(card.stage)]_vars
==============================================================================
