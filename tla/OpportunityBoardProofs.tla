----------------------- MODULE OpportunityBoardProofs -----------------------
(***************************************************************************)
(* Theorems about OpportunityBoard, for any requests, slots and variants.  *)
(*                                                                         *)
(* A timeline only grows, so everything said of it is said of one note put *)
(* at its end: what the newest note of a kind says, what has been said at  *)
(* all, and in which order.  The invariant states each promise in these    *)
(* words, and adds what a session that loaded a row may still rely on.     *)
(***************************************************************************)
EXTENDS OpportunityBoard, SequenceTheorems, TLAPS

Kind == {"stage", "cv", "slot", "outcome", "removed"}
Subject == Requests \cup {None}

\* The notes of a kind about a subject; the last of some positions.
Notes(tl, kind, iv) == {k \in DOMAIN tl : tl[k].kind = kind /\ tl[k].iv = iv}
IsLast(k, at) == k \in at /\ \A j \in at : j <= k
LastOf(at) == CHOOSE k \in at : \A j \in at : j <= k
Told(tl, kind, iv, default) ==
  IF Notes(tl, kind, iv) = {} THEN default ELSE tl[LastOf(Notes(tl, kind, iv))].to

Untold(tl, kind, iv) == Notes(tl, kind, iv) = {}

\* The timeline has said this; it has sent this variant, and later that one.
Said(tl, kind, iv, v) == \E k \in Notes(tl, kind, iv) : tl[k].to = v
SentBefore(tl, u, v) ==
  \E i, j \in Notes(tl, "cv", None) : i < j /\ tl[i].to = u /\ tl[j].to = v

\* Every kind has a newest note; only stages and variants are about the card;
\* nothing follows a removal but another.
NewestExists(tl) ==
  \A kind \in Kind, iv \in Subject : Notes(tl, kind, iv) # {} => \E k \in DOMAIN tl : IsLast(k, Notes(tl, kind, iv))
AboutTheRight(tl) == \A k \in DOMAIN tl : tl[k].iv = None <=> tl[k].kind \in {"stage", "cv"}
RemovalsLast(tl) ==
  \A j, k \in DOMAIN tl : tl[k].kind = "removed" /\ j > k /\ tl[j].iv = tl[k].iv => tl[j].kind = "removed"
Timeline(tl) == tl \in Seq(Note) /\ NewestExists(tl) /\ AboutTheRight(tl) /\ RemovalsLast(tl)

\* Who has booked an interview has gone past the booking.
Past(r) == pc[r] \in {"committed"} \cup Ended

\* Sessions hold what their step needs, and nobody holds or tells of an interview
\* that was not booked.
SessionsOK ==
  \A r \in Requests :
    /\ pc[r] \in CardStep => loaded[r].card \in Opportunity
    /\ pc[r] \in InterviewStep \cup {"committed"} => loaded[r].iv \in Interview /\ Past(loaded[r].iv.id)
RowsOK ==
  /\ \A x \in interviews : Past(x.id)
  /\ \A x, y \in interviews : x.id = y.id => x = y
Mentions(tl, iv) == \E k \in DOMAIN tl : tl[k].iv = iv
BookedOnly == \A iv \in Requests : Mentions(timeline, iv) => Past(iv)

\* What the newest notes say is what the rows have.
StageTold == Told(timeline, "stage", None, card.stage) = card.stage
InterviewTold ==
  \A x \in interviews : /\ Told(timeline, "slot", x.id, None) = x.slot
                        /\ Told(timeline, "outcome", x.id, "pending") = x.outcome

\* A variant a session has loaded is the card's, or was sent before the card's.
CvTold ==
  /\ card.sent_cv # None => Said(timeline, "cv", None, card.sent_cv)
  /\ \/ Told(timeline, "cv", None, None) = card.sent_cv
     \/ SentBefore(timeline, Told(timeline, "cv", None, None), card.sent_cv)
  /\ \A r \in Requests :
       pc[r] = "sending_cv" =>
         \/ loaded[r].card.sent_cv \in {card.sent_cv, None}
         \/ SentBefore(timeline, loaded[r].card.sent_cv, card.sent_cv)

\* An interview with a booking has its row, or removals.
TrailOK ==
  \A iv \in Requests :
    ~Untold(timeline, "slot", iv) => (Row(iv) = {} <=> ~Untold(timeline, "removed", iv))

RemindersOK == \A m \in reminders : Said(timeline, "slot", m.iv, m.slot)

IInv ==
  /\ TypeOK /\ Timeline(timeline)
  /\ SessionsOK /\ RowsOK /\ BookedOnly
  /\ StageTold /\ InterviewTold /\ CvTold
  /\ TrailOK /\ RemindersOK

------------------------------------------------------------------------------
(* What one note at the end of a timeline changes *)

LEMMA LongerByOne ==
  ASSUME NEW tl \in Seq(Note), NEW n \in Note
  PROVE  LET t2 == tl \o <<n>> IN
         /\ t2 \in Seq(Note) /\ DOMAIN tl = 1 .. Len(tl) /\ DOMAIN t2 = DOMAIN tl \cup {Len(tl) + 1}
         /\ Len(tl) + 1 \notin DOMAIN tl /\ t2[Len(tl) + 1] = n
         /\ \A k \in DOMAIN tl : k \in Nat /\ k < Len(tl) + 1 /\ t2[k] = tl[k]
<1>1. Len(tl) \in Nat /\ DOMAIN tl = 1 .. Len(tl)
  OBVIOUS
<1>2. /\ tl \o <<n>> \in Seq(Note) /\ Len(tl \o <<n>>) = Len(tl) + 1
      /\ DOMAIN (tl \o <<n>>) = 1 .. (Len(tl) + 1)
  OBVIOUS
<1>3. (tl \o <<n>>)[Len(tl) + 1] = n /\ \A k \in 1 .. Len(tl) : (tl \o <<n>>)[k] = tl[k]
  OBVIOUS
<1> QED
  BY <1>1, <1>2, <1>3

LEMMA NotesAdded ==
  ASSUME NEW tl \in Seq(Note), NEW n \in Note, NEW kind, NEW iv
  PROVE  Notes(tl \o <<n>>, kind, iv) =
           Notes(tl, kind, iv) \cup (IF n.kind = kind /\ n.iv = iv THEN {Len(tl) + 1} ELSE {})
BY LongerByOne DEF Notes

\* A set of positions with a last one has no other.
LEMMA OnlyLast ==
  ASSUME NEW at \in SUBSET Nat, NEW k, IsLast(k, at)
  PROVE  LastOf(at) = k
<1>1. \A j \in at : IsLast(j, at) => j = k
  BY DEF IsLast
<1> QED
  BY <1>1 DEF IsLast, LastOf

\* The last position is the new one's, or stays.
LEMMA LastAdded ==
  ASSUME NEW tl \in Seq(Note), NewestExists(tl), NEW n \in Note, NEW kind \in Kind, NEW iv \in Subject
  PROVE  LET t2 == tl \o <<n>> IN
         /\ Notes(t2, kind, iv) # {} => \E k \in DOMAIN t2 : IsLast(k, Notes(t2, kind, iv))
         /\ \A d : Told(t2, kind, iv, d) =
              IF n.kind = kind /\ n.iv = iv THEN n.to ELSE Told(tl, kind, iv, d)
<1> DEFINE t2 == tl \o <<n>>
           at == Notes(tl, kind, iv)
           at2 == Notes(t2, kind, iv)
<1>1. at \subseteq DOMAIN tl /\ DOMAIN tl \in SUBSET Nat /\ at2 \in SUBSET Nat
  BY LongerByOne DEF Notes
<1>2. at2 = at \cup (IF n.kind = kind /\ n.iv = iv THEN {Len(tl) + 1} ELSE {})
  BY NotesAdded
<1>3. at # {} => \E k \in DOMAIN tl : IsLast(k, at)
  BY DEF NewestExists
<1>4. CASE n.kind = kind /\ n.iv = iv
  <2>1. IsLast(Len(tl) + 1, at2)
    BY <1>1, <1>2, <1>4, LongerByOne DEF IsLast
  <2>2. LastOf(at2) = Len(tl) + 1
    BY <1>1, <2>1, OnlyLast
  <2>3. Len(tl) + 1 \in DOMAIN t2 /\ t2[Len(tl) + 1] = n /\ at2 # {}
    BY <2>1, LongerByOne DEF IsLast
  <2> QED
    BY <1>4, <2>1, <2>2, <2>3 DEF Told
<1>5. CASE ~(n.kind = kind /\ n.iv = iv)
  <2>1. at2 = at
    BY <1>2, <1>5
  <2>2. \A k \in DOMAIN tl : k \in DOMAIN t2 /\ t2[k] = tl[k]
    BY LongerByOne
  <2>3. CASE at = {}
    BY <1>5, <2>1, <2>3 DEF Told
  <2>4. CASE at # {}
    <3>1. PICK k \in DOMAIN tl : IsLast(k, at)
      BY <1>3, <2>4
    <3>2. LastOf(at) = k
      BY <1>1, <3>1, OnlyLast
    <3> QED
      BY <1>5, <2>1, <2>2, <2>4, <3>1, <3>2 DEF Told
  <2> QED
    BY <2>3, <2>4
<1> QED
  BY <1>4, <1>5

\* What is told and is not the default, was said.
LEMMA ToldIsSaid ==
  ASSUME NEW tl, Timeline(tl), NEW kind \in Kind, NEW iv \in Subject, NEW d, Told(tl, kind, iv, d) # d
  PROVE  Said(tl, kind, iv, Told(tl, kind, iv, d)) /\ ~Untold(tl, kind, iv)
<1>1. Notes(tl, kind, iv) # {}
  BY DEF Told
<1>2. PICK k \in DOMAIN tl : IsLast(k, Notes(tl, kind, iv))
  BY <1>1 DEF Timeline, NewestExists
<1>3. Notes(tl, kind, iv) \in SUBSET Nat
  <2>1. tl \in Seq(Note)
    BY DEF Timeline
  <2> QED
    BY <2>1 DEF Notes
<1>4. LastOf(Notes(tl, kind, iv)) = k
  BY <1>2, <1>3, OnlyLast
<1> QED
  BY <1>1, <1>2, <1>4 DEF Told, Said, Untold, IsLast

\* A timeline with one note at its end: the newest of its kind, and nothing is unsaid.
Added(tl, t2, n) ==
  /\ Timeline(t2)
  /\ \A d : Told(t2, n.kind, n.iv, d) = n.to
  /\ \A kind \in Kind, iv \in Subject :
       ~(n.kind = kind /\ n.iv = iv) => \A d : Told(t2, kind, iv, d) = Told(tl, kind, iv, d)
  /\ \A kind, iv : Untold(t2, kind, iv) <=> Untold(tl, kind, iv) /\ ~(n.kind = kind /\ n.iv = iv)
  /\ \A kind, iv, v :
       Said(t2, kind, iv, v) <=> Said(tl, kind, iv, v) \/ (n.kind = kind /\ n.iv = iv /\ n.to = v)
  /\ \A u, v : SentBefore(tl, u, v) => SentBefore(t2, u, v)
  /\ n.kind = "cv" => \A u : Said(tl, "cv", None, u) => SentBefore(t2, u, n.to)
  /\ \A iv : Mentions(t2, iv) <=> Mentions(tl, iv) \/ n.iv = iv

\* The timeline stays in order unless it tells of what was removed.
LEMMA NoteAdded ==
  ASSUME NEW tl, Timeline(tl), NEW n \in Note, NEW t2, t2 = tl \o <<n>>, n.iv = None <=> n.kind \in {"stage", "cv"},
         n.kind # "removed" => Untold(tl, "removed", n.iv)
  PROVE  Added(tl, t2, n)
<1>0. tl \in Seq(Note)
  BY DEF Timeline
<1>1. /\ t2 \in Seq(Note) /\ DOMAIN t2 = DOMAIN tl \cup {Len(tl) + 1}
      /\ Len(tl) + 1 \notin DOMAIN tl /\ t2[Len(tl) + 1] = n
      /\ \A k \in DOMAIN tl : k \in Nat /\ k < Len(tl) + 1 /\ t2[k] = tl[k]
  BY <1>0, LongerByOne
<1>2. \A kind, iv : Notes(t2, kind, iv) =
        Notes(tl, kind, iv) \cup (IF n.kind = kind /\ n.iv = iv THEN {Len(tl) + 1} ELSE {})
  BY <1>0, NotesAdded
<1>3. NewestExists(t2)
  BY <1>0, LastAdded DEF NewestExists, Timeline
<1>4. AboutTheRight(t2)
  BY <1>1 DEF AboutTheRight, Timeline
<1>5. RemovalsLast(t2)
  <2> SUFFICES ASSUME NEW j \in DOMAIN t2, NEW k \in DOMAIN t2, t2[k].kind = "removed", j > k,
                      t2[j].iv = t2[k].iv, t2[j].kind # "removed"
               PROVE  FALSE
    BY DEF RemovalsLast
  <2>1. CASE j \in DOMAIN tl
    <3>1. k \in DOMAIN tl
      BY <1>1, <2>1
    <3> QED
      BY <1>1, <2>1, <3>1 DEF RemovalsLast, Timeline
  <2>2. CASE j = Len(tl) + 1
    <3>1. k \in DOMAIN tl /\ n.kind # "removed"
      BY <1>1, <2>2
    <3>2. k \in Notes(tl, "removed", n.iv)
      BY <1>1, <2>2, <3>1 DEF Notes
    <3> QED
      BY <3>1, <3>2 DEF Untold
  <2> QED
    BY <1>1, <2>1, <2>2
<1>6. Timeline(t2)
  BY <1>1, <1>3, <1>4, <1>5 DEF Timeline
<1>7. /\ \A d : Told(t2, n.kind, n.iv, d) = n.to
      /\ \A kind \in Kind, iv \in Subject :
           ~(n.kind = kind /\ n.iv = iv) => \A d : Told(t2, kind, iv, d) = Told(tl, kind, iv, d)
  <2>1. n.kind \in Kind /\ n.iv \in Subject
    BY DEF Note, Kind, Subject
  <2> QED
    BY <1>0, <2>1, LastAdded DEF Timeline
<1>8. ASSUME NEW kind, NEW iv
      PROVE  Untold(t2, kind, iv) <=> Untold(tl, kind, iv) /\ ~(n.kind = kind /\ n.iv = iv)
  <2>1. CASE n.kind = kind /\ n.iv = iv
    BY <1>2, <2>1 DEF Untold
  <2>2. CASE ~(n.kind = kind /\ n.iv = iv)
    BY <1>2, <2>2 DEF Untold
  <2> QED
    BY <2>1, <2>2
<1>9. ASSUME NEW kind, NEW iv, NEW v
      PROVE  Said(t2, kind, iv, v) <=> Said(tl, kind, iv, v) \/ (n.kind = kind /\ n.iv = iv /\ n.to = v)
  <2>1. Notes(tl, kind, iv) \subseteq DOMAIN tl
    BY DEF Notes
  <2> QED
    BY <1>1, <1>2, <2>1 DEF Said
<1>10. ASSUME NEW u, NEW v, SentBefore(tl, u, v) PROVE SentBefore(t2, u, v)
  <2>1. Notes(tl, "cv", None) \subseteq DOMAIN tl
    BY DEF Notes
  <2> QED
    BY <1>1, <1>2, <1>10, <2>1 DEF SentBefore
<1>11. ASSUME n.kind = "cv", NEW u, Said(tl, "cv", None, u) PROVE SentBefore(t2, u, n.to)
  <2>1. PICK i \in Notes(tl, "cv", None) : tl[i].to = u
    BY <1>11 DEF Said
  <2>2. i \in DOMAIN tl
    BY DEF Notes
  <2>3. i \in Notes(t2, "cv", None) /\ Len(tl) + 1 \in Notes(t2, "cv", None)
    BY <1>2, <1>11
  <2> QED
    BY <1>1, <2>1, <2>2, <2>3 DEF SentBefore
<1>12. \A iv : Mentions(t2, iv) <=> Mentions(tl, iv) \/ n.iv = iv
  BY <1>1 DEF Mentions
<1> QED
  BY <1>6, <1>7, <1>8, <1>9, <1>10, <1>11, <1>12 DEF Added

\* A timeline with a change recorded: told if it is one, and everything else as before.
Recorded(tl, t2, kind, iv, from, to) ==
  /\ Timeline(t2)
  /\ from # to => \A d : Told(t2, kind, iv, d) = to
  /\ \A k2 \in Kind, i2 \in Subject :
       ~(k2 = kind /\ i2 = iv) \/ from = to => \A d : Told(t2, k2, i2, d) = Told(tl, k2, i2, d)
  /\ \A k2, i2 : Untold(t2, k2, i2) <=> Untold(tl, k2, i2) /\ ~(from # to /\ k2 = kind /\ i2 = iv)
  /\ \A k2, i2, v : Said(tl, k2, i2, v) => Said(t2, k2, i2, v)
  /\ \A u, v : SentBefore(tl, u, v) => SentBefore(t2, u, v)
  /\ \A i2 : Mentions(t2, i2) => Mentions(tl, i2) \/ i2 = iv

\* A change of an interview that is not removed, or of the card: told if it is one.
LEMMA ChangeAdded ==
  ASSUME NEW tl, Timeline(tl), NEW kind \in {"stage", "slot", "outcome"}, NEW iv \in Subject,
         iv = None <=> kind = "stage", Untold(tl, "removed", iv), NEW from \in Value, NEW to \in Value,
         NEW t2, t2 = tl \o Changed(kind, iv, from, to)
  PROVE  Changed(kind, iv, from, to) \in Seq(Note) /\ Recorded(tl, t2, kind, iv, from, to)
<1>1. CASE from = to
  <2>1. t2 = tl /\ Changed(kind, iv, from, to) \in Seq(Note)
    BY <1>1 DEF Changed, Timeline
  <2> QED
    BY <1>1, <2>1 DEF Recorded
<1>2. CASE from # to
  <2>1. PICK n : n = [kind |-> kind, iv |-> iv, from |-> from, to |-> to]
    OBVIOUS
  <2>2. Changed(kind, iv, from, to) = <<n>>
    BY <1>2, <2>1 DEF Changed
  <2>3. n \in Note /\ n.kind = kind /\ n.iv = iv /\ n.to = to
    BY <2>1 DEF Note, Subject
  <2>4. /\ n.iv = None <=> n.kind \in {"stage", "cv"}
        /\ n.kind # "removed" => Untold(tl, "removed", n.iv)
        /\ <<n>> \in Seq(Note)
    BY <2>3
  <2>5. n \in Note /\ t2 = tl \o <<n>>
    BY <2>2, <2>3
  <2>6. Added(tl, t2, n)
    BY <2>4, <2>5, NoteAdded
  <2>7. /\ Timeline(t2)
        /\ \A d : Told(t2, n.kind, n.iv, d) = n.to
        /\ \A k2 \in Kind, i2 \in Subject :
             ~(n.kind = k2 /\ n.iv = i2) => \A d : Told(t2, k2, i2, d) = Told(tl, k2, i2, d)
        /\ \A k2, i2 : Untold(t2, k2, i2) <=> Untold(tl, k2, i2) /\ ~(n.kind = k2 /\ n.iv = i2)
        /\ \A k2, i2, v : Said(tl, k2, i2, v) => Said(t2, k2, i2, v)
        /\ \A u, v : SentBefore(tl, u, v) => SentBefore(t2, u, v)
        /\ \A i2 : Mentions(t2, i2) => Mentions(tl, i2) \/ i2 = n.iv
    BY <2>6 DEF Added
  <2> QED
    BY <1>2, <2>2, <2>3, <2>4, <2>7 DEF Recorded
<1> QED
  BY <1>1, <1>2

------------------------------------------------------------------------------
(* Sessions *)

\* What a request's own step leaves: the other sessions, and everybody who has gone
\* past a booking.
LEMMA Moved ==
  ASSUME IInv, NEW r \in Requests, NEW step \in {"idle"} \cup Working \cup Ended, NEW session \in Session,
         Goto(r, step, session), Past(r) => step \in {"committed"} \cup Ended,
         step \in CardStep => session.card \in Opportunity,
         step \in InterviewStep \cup {"committed"} =>
           session.iv \in Interview /\ (Past(session.iv.id) \/ (session.iv.id = r /\ step = "committed"))
  PROVE  /\ pc' \in [Requests -> {"idle"} \cup Working \cup Ended]
         /\ loaded' \in [Requests -> Session]
         /\ pc'[r] = step /\ loaded'[r] = session
         /\ \A q \in Requests \ {r} : pc'[q] = pc[q] /\ loaded'[q] = loaded[q]
         /\ \A q \in Requests : Past(q) => Past(q)'
         /\ SessionsOK'
<1>1. pc \in [Requests -> {"idle"} \cup Working \cup Ended] /\ loaded \in [Requests -> Session]
  BY DEF IInv, TypeOK
<1>2. /\ pc' \in [Requests -> {"idle"} \cup Working \cup Ended]
      /\ loaded' \in [Requests -> Session]
      /\ pc'[r] = step /\ loaded'[r] = session
      /\ \A q \in Requests \ {r} : pc'[q] = pc[q] /\ loaded'[q] = loaded[q]
  BY <1>1 DEF Goto
<1>3. ASSUME NEW q \in Requests, Past(q) PROVE Past(q)'
  BY <1>2, <1>3 DEF Past
<1>4. SessionsOK'
  <2> SUFFICES ASSUME NEW q \in Requests
               PROVE  /\ pc'[q] \in CardStep => loaded'[q].card \in Opportunity
                      /\ pc'[q] \in InterviewStep \cup {"committed"} =>
                           loaded'[q].iv \in Interview /\ Past(loaded[q].iv.id)'
    BY DEF SessionsOK
  <2>1. CASE q = r
    <3>1. step = "committed" /\ session.iv.id = r => Past(loaded[q].iv.id)'
      BY <1>2, <2>1 DEF Past
    <3>2. ASSUME session.iv \in Interview, Past(session.iv.id) PROVE Past(loaded[q].iv.id)'
      <4>1. session.iv.id \in Requests
        BY <3>2 DEF Interview
      <4> QED
        BY <1>2, <1>3, <2>1, <3>2, <4>1 DEF Past
    <3> QED
      BY <1>2, <2>1, <3>1, <3>2
  <2>2. CASE q # r
    <3>1. pc'[q] = pc[q] /\ loaded'[q] = loaded[q]
      BY <1>2, <2>2
    <3>2. /\ pc[q] \in CardStep => loaded[q].card \in Opportunity
          /\ pc[q] \in InterviewStep \cup {"committed"} => loaded[q].iv \in Interview /\ Past(loaded[q].iv.id)
      BY DEF IInv, SessionsOK
    <3>3. ASSUME loaded[q].iv \in Interview, Past(loaded[q].iv.id) PROVE Past(loaded[q].iv.id)'
      <4>1. PICK id \in Requests : id = loaded[q].iv.id
        BY <3>3 DEF Interview
      <4>2. Past(id)'
        BY <1>3, <3>3, <4>1
      <4> QED
        BY <3>1, <4>1, <4>2 DEF Past
    <3> QED
      BY <3>1, <3>2, <3>3
  <2> QED
    BY <2>1, <2>2
<1> QED
  BY <1>2, <1>3, <1>4

LEMMA EmptyIsASession == Empty \in Session
BY DEF Empty, Session

\* An end holds nothing and is past everything.
LEMMA Ends ==
  ASSUME IInv, NEW r \in Requests, NEW step \in Ended, End(r, step)
  PROVE  /\ pc' \in [Requests -> {"idle"} \cup Working \cup Ended]
         /\ loaded' \in [Requests -> Session]
         /\ pc'[r] = step
         /\ \A q \in Requests \ {r} : pc'[q] = pc[q] /\ loaded'[q] = loaded[q]
         /\ \A q \in Requests : Past(q) => Past(q)'
         /\ SessionsOK'
<1>1. step \notin CardStep /\ step \notin InterviewStep \cup {"committed"}
  BY DEF Ended, CardStep, InterviewStep
<1> QED
  BY <1>1, EmptyIsASession, Moved DEF End

\* While rows and timeline stay, all that a step can disturb is its own session.
LEMMA QuietKeeps ==
  ASSUME IInv, UNCHANGED <<card, timeline, interviews>>, SessionsOK', RemindersOK',
         reminders' \subseteq [by : Requests, iv : Requests, slot : Slots],
         pc' \in [Requests -> {"idle"} \cup Working \cup Ended], loaded' \in [Requests -> Session],
         \A q \in Requests : Past(q) => Past(q)',
         \A q \in Requests : pc'[q] = "sending_cv" =>
           (pc[q] = "sending_cv" /\ loaded'[q] = loaded[q]) \/ loaded'[q].card = card
  PROVE  IInv'
<1>1. TypeOK'
  BY DEF IInv, TypeOK
<1>2. Timeline(timeline)'
  BY DEF IInv
<1>3. RowsOK'
  <2>1. \A x \in interviews : x.id \in Requests /\ Past(x.id)
    BY DEF IInv, TypeOK, RowsOK, Interview
  <2>2. \A x \in interviews' : Past(x.id)'
    BY <2>1 DEF Past
  <2> QED
    BY <2>2 DEF IInv, RowsOK
<1>4. BookedOnly'
  BY DEF IInv, BookedOnly
<1>5. StageTold' /\ InterviewTold' /\ TrailOK'
  BY DEF IInv, StageTold, InterviewTold, TrailOK, Row
<1>6. CvTold'
  BY DEF IInv, CvTold
<1> QED
  BY <1>1, <1>2, <1>3, <1>4, <1>5, <1>6 DEF IInv

\* A handler's first step only fills its session.
LEMMA ReadsKeep ==
  ASSUME IInv, NEW r \in Requests
  PROVE  /\ \A step \in CardStep : get_card(r, step) => IInv'
         /\ \A iv \in Requests, step \in InterviewStep : get_interview(r, iv, step) => IInv'
<1>1. ASSUME NEW step \in CardStep, get_card(r, step) PROVE IInv'
  <2>1. UNCHANGED <<card, timeline, interviews, reminders>> /\ pc[r] = "idle"
    BY <1>1 DEF get_card
  <2>2. PICK session \in Session : session = [Empty EXCEPT !.card = card] /\ session.card = card
    <3>1. [Empty EXCEPT !.card = card] \in Session /\ [Empty EXCEPT !.card = card].card = card
      BY DEF IInv, TypeOK, Session, Empty
    <3> QED
      BY <3>1
  <2>3. /\ step \in Working /\ step \notin InterviewStep \cup {"committed"}
        /\ ~Past(r) /\ session.card \in Opportunity
    BY <2>1, <2>2 DEF Working, CardStep, InterviewStep, Past, Ended, IInv, TypeOK
  <2>4. Goto(r, step, session)
    BY <1>1, <2>2 DEF get_card
  <2>5. /\ pc' \in [Requests -> {"idle"} \cup Working \cup Ended] /\ loaded' \in [Requests -> Session]
        /\ loaded'[r] = session
        /\ \A q \in Requests \ {r} : pc'[q] = pc[q] /\ loaded'[q] = loaded[q]
        /\ \A q \in Requests : Past(q) => Past(q)'
        /\ SessionsOK'
    BY <2>3, <2>4, Moved
  <2>6. reminders' \subseteq [by : Requests, iv : Requests, slot : Slots] /\ RemindersOK'
    BY <2>1 DEF IInv, TypeOK, RemindersOK
  <2> QED
    BY <2>1, <2>2, <2>5, <2>6, QuietKeeps
<1>2. ASSUME NEW iv \in Requests, NEW step \in InterviewStep, get_interview(r, iv, step) PROVE IInv'
  <2>1. UNCHANGED <<card, timeline, interviews, reminders>> /\ pc[r] = "idle"
    BY <1>2 DEF get_interview
  <2>2. reminders' \subseteq [by : Requests, iv : Requests, slot : Slots] /\ RemindersOK'
    BY <2>1 DEF IInv, TypeOK, RemindersOK
  <2>3. CASE End(r, "not_found")
    <3>1. /\ pc' \in [Requests -> {"idle"} \cup Working \cup Ended] /\ loaded' \in [Requests -> Session]
          /\ pc'[r] = "not_found"
          /\ \A q \in Requests \ {r} : pc'[q] = pc[q] /\ loaded'[q] = loaded[q]
          /\ \A q \in Requests : Past(q) => Past(q)'
          /\ SessionsOK'
      BY <2>3, Ends DEF Ended
    <3> QED
      BY <2>1, <2>2, <3>1, QuietKeeps
  <2>4. CASE \E x \in Row(iv) : Goto(r, step, [Empty EXCEPT !.iv = x])
    <3>1. PICK x \in Row(iv) : Goto(r, step, [Empty EXCEPT !.iv = x])
      BY <2>4
    <3>2. x \in interviews /\ x \in Interview /\ Past(x.id)
      BY DEF Row, IInv, TypeOK, RowsOK
    <3>3. PICK session \in Session : session = [Empty EXCEPT !.iv = x] /\ session.iv = x
      <4>1. [Empty EXCEPT !.iv = x] \in Session /\ [Empty EXCEPT !.iv = x].iv = x
        BY <3>2 DEF Session, Empty
      <4> QED
        BY <4>1
    <3>4. step \in Working /\ step \notin CardStep /\ ~Past(r)
      BY <2>1 DEF Working, CardStep, InterviewStep, Past, Ended
    <3>5. /\ pc' \in [Requests -> {"idle"} \cup Working \cup Ended] /\ loaded' \in [Requests -> Session]
          /\ pc'[r] = step
          /\ \A q \in Requests \ {r} : pc'[q] = pc[q] /\ loaded'[q] = loaded[q]
          /\ \A q \in Requests : Past(q) => Past(q)'
          /\ SessionsOK'
      BY <3>1, <3>2, <3>3, <3>4, Moved
    <3> QED
      BY <2>1, <2>2, <3>4, <3>5, QuietKeeps DEF CardStep
  <2> QED
    BY <1>2, <2>3, <2>4 DEF get_interview
<1> QED
  BY <1>1, <1>2

\* A reminder reads the row: its slot is the one the timeline tells.
LEMMA SendKeeps ==
  ASSUME IInv, NEW r \in Requests, send_reminder(r) \/ die(r)
  PROVE  IInv'
<1>1. UNCHANGED <<card, timeline, interviews>>
  BY DEF send_reminder, die
<1>2. PICK step \in Ended : End(r, step)
  BY DEF send_reminder, die, Ended
<1>3. /\ pc' \in [Requests -> {"idle"} \cup Working \cup Ended] /\ loaded' \in [Requests -> Session]
      /\ pc'[r] = step
      /\ \A q \in Requests \ {r} : pc'[q] = pc[q] /\ loaded'[q] = loaded[q]
      /\ \A q \in Requests : Past(q) => Past(q)'
      /\ SessionsOK'
  BY <1>2, Ends
<1>4. reminders' \subseteq [by : Requests, iv : Requests, slot : Slots] /\ RemindersOK'
  <2>1. CASE reminders' = reminders
    BY <1>1, <2>1 DEF IInv, TypeOK, RemindersOK
  <2>2. CASE reminders' # reminders
    <3>1. PICK x \in interviews : reminders' = reminders \cup {[by |-> r, iv |-> x.id, slot |-> x.slot]}
      BY <2>2 DEF send_reminder, die, Row
    <3>2. x \in Interview /\ x.id \in Requests /\ x.slot \in Slots
      BY DEF IInv, TypeOK, Interview
    <3>3. Said(timeline, "slot", x.id, x.slot)
      <4>1. x.id \in Subject /\ "slot" \in Kind /\ x.slot # None
        BY <3>2, NoneAssumption DEF Subject, Kind
      <4>2. Timeline(timeline) /\ Told(timeline, "slot", x.id, None) = x.slot
        BY DEF IInv, InterviewTold
      <4> QED
        BY <4>1, <4>2, ToldIsSaid
    <3> QED
      BY <1>1, <3>1, <3>2, <3>3 DEF IInv, TypeOK, RemindersOK
  <2> QED
    BY <2>1, <2>2
<1>5. step # "sending_cv"
  BY DEF Ended
<1> QED
  BY <1>1, <1>3, <1>4, <1>5, QuietKeeps
------------------------------------------------------------------------------
(* Steps that write: rows and notes in one commit *)

LEMMA WriteKeeps ==
  ASSUME IInv, TypeOK', Timeline(timeline)', SessionsOK', RowsOK', StageTold', InterviewTold', CvTold', TrailOK',
         reminders' = reminders, \A q \in Requests : Past(q) => Past(q)',
         \A iv \in Requests : Mentions(timeline', iv) => Mentions(timeline, iv) \/ Past(iv)',
         \A kind, iv, v : Said(timeline, kind, iv, v) => Said(timeline', kind, iv, v)
  PROVE  IInv'
<1>1. BookedOnly'
  BY DEF IInv, BookedOnly
<1>2. RemindersOK'
  BY DEF IInv, RemindersOK
<1> QED
  BY <1>1, <1>2 DEF IInv

LEMMA CvKept ==
  ASSUME IInv, NEW r \in Requests, \A q \in Requests \ {r} : pc'[q] = pc[q] /\ loaded'[q] = loaded[q],
         pc'[r] # "sending_cv", card'.sent_cv = card.sent_cv,
         Told(timeline', "cv", None, None) = Told(timeline, "cv", None, None),
         \A kind, iv, v : Said(timeline, kind, iv, v) => Said(timeline', kind, iv, v),
         \A u, v : SentBefore(timeline, u, v) => SentBefore(timeline', u, v)
  PROVE  CvTold'
BY DEF IInv, CvTold

LEMMA InterviewsKept ==
  ASSUME IInv, UNCHANGED interviews, \A q \in Requests : Past(q) => Past(q)',
         \A iv \in Requests : /\ \A d : Told(timeline', "slot", iv, d) = Told(timeline, "slot", iv, d)
                              /\ \A d : Told(timeline', "outcome", iv, d) = Told(timeline, "outcome", iv, d)
                              /\ Untold(timeline', "slot", iv) <=> Untold(timeline, "slot", iv)
                              /\ Untold(timeline', "removed", iv) <=> Untold(timeline, "removed", iv)
  PROVE  RowsOK' /\ InterviewTold' /\ TrailOK'
<1>1. \A x \in interviews : x.id \in Requests
  BY DEF IInv, TypeOK, Interview
<1>2. RowsOK'
  BY <1>1 DEF IInv, RowsOK, Past
<1>3. InterviewTold'
  BY <1>1 DEF IInv, InterviewTold
<1>4. TrailOK'
  BY DEF IInv, TrailOK, Row
<1> QED
  BY <1>2, <1>3, <1>4

LEMMA CardIsNotRemoved ==
  ASSUME NEW tl, Timeline(tl)
  PROVE  Untold(tl, "removed", None)
BY DEF Timeline, AboutTheRight, Untold, Notes

\* A timeline with a change of stage recorded: what it tells of interviews and variants
\* is left.
StageRecorded(tl, t2, from, to) ==
  /\ Timeline(t2)
  /\ from # to => \A d : Told(t2, "stage", None, d) = to
  /\ from = to => \A d : Told(t2, "stage", None, d) = Told(tl, "stage", None, d)
  /\ Told(t2, "cv", None, None) = Told(tl, "cv", None, None)
  /\ \A kind \in Kind, iv \in Requests : \A d : Told(t2, kind, iv, d) = Told(tl, kind, iv, d)
  /\ \A kind \in Kind, iv \in Requests : Untold(t2, kind, iv) <=> Untold(tl, kind, iv)
  /\ \A kind, iv, v : Said(tl, kind, iv, v) => Said(t2, kind, iv, v)
  /\ \A u, v : SentBefore(tl, u, v) => SentBefore(t2, u, v)
  /\ \A iv \in Requests : Mentions(t2, iv) => Mentions(tl, iv)

LEMMA StageChanged ==
  ASSUME NEW tl, Timeline(tl), NEW from \in Stage, NEW to \in Stage,
         NEW t2, t2 = tl \o Changed("stage", None, from, to)
  PROVE  Changed("stage", None, from, to) \in Seq(Note) /\ StageRecorded(tl, t2, from, to)
<1>1. Untold(tl, "removed", None) /\ from \in Value /\ to \in Value /\ None \in Subject
  BY CardIsNotRemoved DEF Value, Subject
<1>2. /\ Changed("stage", None, from, to) \in Seq(Note)
      /\ Recorded(tl, t2, "stage", None, from, to)
  BY <1>1, ChangeAdded
<1>3. /\ "stage" \in Kind /\ "cv" \in Kind /\ None \in Subject
      /\ \A iv \in Requests : iv \in Subject /\ iv # None
  BY NoneAssumption DEF Kind, Subject
<1> QED
  BY <1>2, <1>3 DEF Recorded, StageRecorded

\* The stage that is written and the stage of the note are the same.
LEMMA MoveKeeps ==
  ASSUME IInv, NEW r \in Requests, NEW s \in valid_stages, move_stage(r, s)
  PROVE  IInv'
<1>1. UNCHANGED <<interviews, reminders>> /\ pc[r] = "moving" /\ End(r, "done")
  BY DEF move_stage
<1>2. PICK from \in Stage : from = loaded[r].card.stage
  BY <1>1 DEF IInv, SessionsOK, CardStep, Opportunity
<1>3. /\ pc' \in [Requests -> {"idle"} \cup Working \cup Ended] /\ loaded' \in [Requests -> Session]
      /\ pc'[r] = "done"
      /\ \A q \in Requests \ {r} : pc'[q] = pc[q] /\ loaded'[q] = loaded[q]
      /\ \A q \in Requests : Past(q) => Past(q)'
      /\ SessionsOK'
  BY <1>1, Ends DEF Ended
<1>4. PICK t2 : t2 = timeline' /\ t2 = timeline \o Changed("stage", None, from, s)
  BY <1>2 DEF move_stage, Record
<1>5. StageRecorded(timeline, t2, from, s)
  BY <1>2, <1>4, StageChanged DEF IInv, valid_stages
<1>6. /\ card' \in Opportunity /\ card'.sent_cv = card.sent_cv
      /\ card'.stage = IF s # from THEN s ELSE card.stage
  BY <1>2 DEF move_stage, Write, IInv, TypeOK, Opportunity, valid_stages
<1>7. TypeOK'
  <2>1. timeline' \in Seq(Note)
    BY <1>4, <1>5 DEF Timeline, StageRecorded
  <2> QED
    BY <1>1, <1>3, <1>6, <2>1 DEF IInv, TypeOK
<1>8. StageTold'
  <2>1. CASE s # from
    BY <1>4, <1>5, <1>6, <2>1 DEF StageTold, StageRecorded
  <2>2. CASE s = from
    BY <1>4, <1>5, <1>6, <2>2 DEF IInv, StageTold, StageRecorded
  <2> QED
    BY <2>1, <2>2
<1>9. CvTold'
  BY <1>3, <1>4, <1>5, <1>6, CvKept DEF StageRecorded
<1>10. RowsOK' /\ InterviewTold' /\ TrailOK'
  <2>1. "slot" \in Kind /\ "outcome" \in Kind /\ "removed" \in Kind
    BY DEF Kind
  <2> QED
    BY <1>1, <1>3, <1>4, <1>5, <2>1, InterviewsKept DEF StageRecorded
<1>11. \A iv \in Requests : Mentions(timeline', iv) => Mentions(timeline, iv)
  BY <1>4, <1>5 DEF StageRecorded
<1> QED
  BY <1>1, <1>3, <1>4, <1>5, <1>7, <1>8, <1>9, <1>10, <1>11, WriteKeeps DEF StageRecorded

\* The variant that is written, or one that a session loaded before it was replaced.
LEMMA SentKeeps ==
  ASSUME IInv, NEW r \in Requests, NEW cv \in CvDocuments, record_cv_sent(r, cv)
  PROVE  IInv'
<1>1. UNCHANGED <<interviews, reminders>> /\ pc[r] = "sending_cv" /\ End(r, "done")
  BY DEF record_cv_sent
<1>2. PICK old \in CvDocuments \cup {None} : old = loaded[r].card.sent_cv
  BY <1>1 DEF IInv, SessionsOK, CardStep, Opportunity
<1>3. /\ pc' \in [Requests -> {"idle"} \cup Working \cup Ended] /\ loaded' \in [Requests -> Session]
      /\ pc'[r] = "done"
      /\ \A q \in Requests \ {r} : pc'[q] = pc[q] /\ loaded'[q] = loaded[q]
      /\ \A q \in Requests : Past(q) => Past(q)'
      /\ SessionsOK'
  BY <1>1, Ends DEF Ended
<1>4. PICK n \in Note : n = [kind |-> "cv", iv |-> None, from |-> None, to |-> cv]
  BY DEF Note, Value
<1>5. PICK t2 : t2 = timeline' /\ t2 = timeline \o <<n>>
  BY <1>4 DEF record_cv_sent, Record
<1>6. /\ Timeline(timeline) /\ (n.iv = None <=> n.kind \in {"stage", "cv"})
      /\ n.kind # "removed" => Untold(timeline, "removed", n.iv)
      /\ n.kind = "cv" /\ n.iv = None /\ n.to = cv
  BY <1>4, CardIsNotRemoved DEF IInv
<1>7. /\ Timeline(t2)
      /\ Told(t2, "cv", None, None) = cv
      /\ \A kind \in Kind, iv \in Subject :
           ~("cv" = kind /\ None = iv) => \A d : Told(t2, kind, iv, d) = Told(timeline, kind, iv, d)
      /\ \A kind, iv : Untold(t2, kind, iv) <=> Untold(timeline, kind, iv) /\ ~("cv" = kind /\ None = iv)
      /\ \A kind, iv, v : Said(t2, kind, iv, v) <=> Said(timeline, kind, iv, v) \/ ("cv" = kind /\ None = iv /\ cv = v)
      /\ \A u, v : SentBefore(timeline, u, v) => SentBefore(t2, u, v)
      /\ \A u : Said(timeline, "cv", None, u) => SentBefore(t2, u, cv)
      /\ \A iv : Mentions(t2, iv) <=> Mentions(timeline, iv) \/ None = iv
  <2>1. Added(timeline, t2, n)
    BY <1>5, <1>6, NoteAdded
  <2> QED
    BY <1>6, <2>1 DEF Added
<1>8. /\ card' \in Opportunity /\ card'.stage = card.stage
      /\ card'.sent_cv = IF cv # old THEN cv ELSE card.sent_cv
  BY <1>2 DEF record_cv_sent, Write, IInv, TypeOK, Opportunity
<1>9. TypeOK'
  <2>1. timeline' \in Seq(Note)
    BY <1>5, <1>7 DEF Timeline
  <2> QED
    BY <1>1, <1>3, <1>8, <2>1 DEF IInv, TypeOK
<1>10. StageTold'
  <2>1. Told(t2, "stage", None, card.stage) = Told(timeline, "stage", None, card.stage)
    BY <1>7 DEF Kind, Subject
  <2> QED
    BY <1>5, <1>8, <2>1 DEF IInv, StageTold
<1>11. CvTold'
  <2>1. /\ card.sent_cv # None => Said(timeline, "cv", None, card.sent_cv)
        /\ old \in {card.sent_cv, None} \/ SentBefore(timeline, old, card.sent_cv)
    BY <1>1, <1>2 DEF IInv, CvTold
  <2>2. ASSUME NEW q \in Requests, pc'[q] = "sending_cv"
        PROVE  \/ loaded'[q].card.sent_cv \in {card'.sent_cv, None}
               \/ SentBefore(t2, loaded'[q].card.sent_cv, card'.sent_cv)
    <3>1. PICK had : had = loaded[q].card.sent_cv /\ had = loaded'[q].card.sent_cv
      BY <1>3, <2>2
    <3>2. had \in {card.sent_cv, None} \/ SentBefore(timeline, had, card.sent_cv)
      BY <1>3, <2>2, <3>1 DEF IInv, CvTold
    <3>3. CASE cv = old
      BY <1>7, <1>8, <3>1, <3>2, <3>3
    <3>4. CASE cv # old
      <4>1. had # None => Said(timeline, "cv", None, had)
        BY <2>1, <3>2 DEF SentBefore, Said
      <4> QED
        BY <1>7, <1>8, <3>1, <3>4, <4>1
    <3> QED
      BY <3>3, <3>4
  <2>3. CASE cv # old
    BY <1>5, <1>7, <1>8, <2>2, <2>3 DEF CvTold
  <2>4. CASE cv = old
    <3>1. card.sent_cv = cv \/ SentBefore(timeline, cv, card.sent_cv)
      BY <2>1, <2>4, NoneAssumption
    <3>2. card'.sent_cv # None => Said(t2, "cv", None, card'.sent_cv)
      BY <1>7, <1>8, <2>1, <2>4
    <3>3. \/ Told(t2, "cv", None, None) = card'.sent_cv
          \/ SentBefore(t2, Told(t2, "cv", None, None), card'.sent_cv)
      BY <1>7, <1>8, <2>4, <3>1
    <3> QED
      BY <1>5, <2>2, <3>2, <3>3 DEF CvTold
  <2> QED
    BY <2>3, <2>4
<1>12. RowsOK' /\ InterviewTold' /\ TrailOK'
  <2>1. /\ "slot" \in Kind /\ "outcome" \in Kind
        /\ \A iv \in Requests : iv \in Subject /\ iv # None
    BY NoneAssumption DEF Kind, Subject
  <2>2. \A iv \in Requests :
          /\ \A d : Told(t2, "slot", iv, d) = Told(timeline, "slot", iv, d)
          /\ \A d : Told(t2, "outcome", iv, d) = Told(timeline, "outcome", iv, d)
          /\ Untold(t2, "slot", iv) <=> Untold(timeline, "slot", iv)
          /\ Untold(t2, "removed", iv) <=> Untold(timeline, "removed", iv)
    BY <1>7, <2>1
  <2> QED
    BY <1>1, <1>3, <1>5, <2>2, InterviewsKept
<1>13. /\ \A iv \in Requests : Mentions(timeline', iv) => Mentions(timeline, iv)
       /\ \A kind, iv, v : Said(timeline, kind, iv, v) => Said(timeline', kind, iv, v)
  BY <1>5, <1>7, NoneAssumption
<1> QED
  BY <1>1, <1>3, <1>5, <1>7, <1>9, <1>10, <1>11, <1>12, <1>13, WriteKeeps

LEMMA NotMentioned ==
  ASSUME NEW tl, NEW iv, ~Mentions(tl, iv), NEW kind
  PROVE  Untold(tl, kind, iv) /\ \A d : Told(tl, kind, iv, d) = d
<1>1. Notes(tl, kind, iv) = {}
  BY DEF Mentions, Notes
<1> QED
  BY <1>1 DEF Untold, Told

\* The first note of an interview, and the row it tells of; the stage told is the one
\* the booking leads to.
LEMMA ScheduleKeeps ==
  ASSUME IInv, NEW r \in Requests, NEW t \in Slots, schedule_interview(r, t)
  PROVE  IInv'
<1>1. UNCHANGED reminders /\ pc[r] = "scheduling" /\ ~Past(r)
  BY DEF schedule_interview, Past, Ended
<1>2. PICK seen \in Stage : seen = loaded[r].card.stage
  BY <1>1 DEF IInv, SessionsOK, CardStep, Opportunity
<1>3. PICK to \in Stage : to = _advance_stage_to_interviewing(seen)
  <2>1. "interviewing" = OPPORTUNITY_STAGES[4] /\ DOMAIN OPPORTUNITY_STAGES = 1 .. 7
    BY DEF OPPORTUNITY_STAGES
  <2>2. "interviewing" \in Stage
    BY <2>1 DEF Stage, ToSet
  <2>3. _advance_stage_to_interviewing(seen) \in Stage
    BY <2>2 DEF _advance_stage_to_interviewing
  <2> QED
    BY <2>3
<1>4. PICK row \in Interview : row = [id |-> r, slot |-> t, outcome |-> "pending"]
  BY DEF Interview, INTERVIEW_OUTCOMES
<1>5. row.id = r /\ row.slot = t /\ row.outcome = "pending"
  BY <1>4
<1>6. /\ interviews' = interviews \cup {row}
      /\ card' = [card EXCEPT !.stage = Write(@, seen, to)]
      /\ timeline' = timeline \o (Changed("slot", r, None, t) \o Changed("stage", None, seen, to))
      /\ Goto(r, "committed", [Empty EXCEPT !.iv = row])
  BY <1>2, <1>3, <1>4 DEF schedule_interview, Record
<1>7. /\ pc' \in [Requests -> {"idle"} \cup Working \cup Ended] /\ loaded' \in [Requests -> Session]
      /\ pc'[r] = "committed"
      /\ \A q \in Requests \ {r} : pc'[q] = pc[q] /\ loaded'[q] = loaded[q]
      /\ \A q \in Requests : Past(q) => Past(q)'
      /\ SessionsOK'
  <2>1. PICK session \in Session : session = [Empty EXCEPT !.iv = row] /\ session.iv = row
    <3>1. [Empty EXCEPT !.iv = row] \in Session /\ [Empty EXCEPT !.iv = row].iv = row
      BY DEF Session, Empty
    <3> QED
      BY <3>1
  <2>2. "committed" \in Working /\ "committed" \notin CardStep
    BY DEF Working, CardStep
  <2> QED
    BY <1>1, <1>5, <1>6, <2>1, <2>2, Moved
<1>8. Past(r)'
  BY <1>7 DEF Past
<1>9. /\ Timeline(timeline) /\ timeline \in Seq(Note) /\ ~Mentions(timeline, r)
      /\ r \in Subject /\ None \in Value /\ t \in Value /\ r # None /\ t # None
      /\ \A iv \in Requests : iv \in Subject
  BY <1>1, NoneAssumption DEF IInv, TypeOK, BookedOnly, Subject, Value
<1>10. \A kind : Untold(timeline, kind, r) /\ \A d : Told(timeline, kind, r, d) = d
  BY <1>9, NotMentioned
<1>11. PICK t1 : t1 = timeline \o Changed("slot", r, None, t)
  OBVIOUS
<1>12. Changed("slot", r, None, t) \in Seq(Note) /\ Recorded(timeline, t1, "slot", r, None, t)
  BY <1>9, <1>10, <1>11, ChangeAdded
<1>13. PICK t2 : t2 = t1 \o Changed("stage", None, seen, to)
  OBVIOUS
<1>14. Changed("stage", None, seen, to) \in Seq(Note) /\ StageRecorded(t1, t2, seen, to)
  BY <1>12, <1>13, StageChanged DEF Recorded
<1>15. timeline' = t2
  <2>1. t2 = timeline \o (Changed("slot", r, None, t) \o Changed("stage", None, seen, to))
    BY <1>9, <1>11, <1>12, <1>13, <1>14, ConcatAssociative
  <2> QED
    BY <1>6, <2>1
<1>16. /\ Timeline(t2)
       /\ \A kind, iv, v : Said(timeline, kind, iv, v) => Said(t2, kind, iv, v)
       /\ \A u, v : SentBefore(timeline, u, v) => SentBefore(t2, u, v)
       /\ \A iv \in Requests : Mentions(t2, iv) => Mentions(timeline, iv) \/ iv = r
       /\ Told(t2, "cv", None, None) = Told(timeline, "cv", None, None)
  <2>1. "cv" \in Kind /\ None \in Subject
    BY DEF Kind, Subject
  <2> QED
    BY <1>9, <1>12, <1>14, <2>1 DEF Recorded, StageRecorded
<1>17. /\ \A d : Told(t2, "slot", r, d) = t
       /\ \A d : Told(t2, "outcome", r, d) = d
       /\ Untold(t2, "removed", r)
       /\ \A kind \in Kind, iv \in Requests \ {r} :
            /\ \A d : Told(t2, kind, iv, d) = Told(timeline, kind, iv, d)
            /\ Untold(t2, kind, iv) <=> Untold(timeline, kind, iv)
  <2>1. "slot" \in Kind /\ "outcome" \in Kind /\ "removed" \in Kind
    BY DEF Kind
  <2>2. \A kind \in Kind, iv \in Requests :
          /\ \A d : Told(t2, kind, iv, d) = Told(t1, kind, iv, d)
          /\ Untold(t2, kind, iv) <=> Untold(t1, kind, iv)
    BY <1>14 DEF StageRecorded
  <2>3. /\ \A d : Told(t1, "slot", r, d) = t
        /\ \A d : Told(t1, "outcome", r, d) = d
        /\ Untold(t1, "removed", r)
    BY <1>9, <1>10, <1>12, <2>1 DEF Recorded
  <2>4. \A kind \in Kind, iv \in Requests \ {r} :
          /\ \A d : Told(t1, kind, iv, d) = Told(timeline, kind, iv, d)
          /\ Untold(t1, kind, iv) <=> Untold(timeline, kind, iv)
    BY <1>9, <1>12 DEF Recorded
  <2> QED
    BY <2>1, <2>2, <2>3, <2>4
<1>18. card' \in Opportunity /\ card'.sent_cv = card.sent_cv /\ card'.stage = IF to # seen THEN to ELSE card.stage
  BY <1>6 DEF Write, IInv, TypeOK, Opportunity
<1>19. TypeOK'
  <2>1. timeline' \in Seq(Note) /\ interviews' \subseteq Interview
    BY <1>6, <1>15, <1>16 DEF Timeline, IInv, TypeOK
  <2> QED
    BY <1>1, <1>7, <1>18, <2>1 DEF IInv, TypeOK
<1>20. \A x \in interviews : x.id \in Requests \ {r} /\ Past(x.id)
  BY <1>1 DEF IInv, RowsOK, TypeOK, Interview
<1>21. RowsOK'
  <2>1. \A x \in interviews' : x.id \in Requests /\ (x.id = r \/ Past(x.id))
    BY <1>5, <1>6, <1>20
  <2>2. \A x \in interviews' : Past(x.id)'
    BY <1>7, <1>8, <2>1 DEF Past
  <2>3. \A x, y \in interviews' : x.id = y.id => x = y
    BY <1>5, <1>6, <1>20 DEF IInv, RowsOK
  <2> QED
    BY <2>2, <2>3 DEF RowsOK
<1>22. StageTold'
  <2>1. Told(t1, "stage", None, card.stage) = Told(timeline, "stage", None, card.stage)
    BY <1>9, <1>12 DEF Recorded, Kind, Subject
  <2>2. CASE to # seen
    BY <1>14, <1>15, <1>18, <2>2 DEF StageTold, StageRecorded
  <2>3. CASE to = seen
    BY <1>14, <1>15, <1>18, <2>1, <2>3 DEF IInv, StageTold, StageRecorded
  <2> QED
    BY <2>2, <2>3
<1>23. InterviewTold'
  <2>1. "slot" \in Kind /\ "outcome" \in Kind
    BY DEF Kind
  <2>2. ASSUME NEW x \in interviews
        PROVE  Told(t2, "slot", x.id, None) = x.slot /\ Told(t2, "outcome", x.id, "pending") = x.outcome
    BY <1>17, <1>20, <2>1 DEF IInv, InterviewTold
  <2>3. Told(t2, "slot", row.id, None) = row.slot /\ Told(t2, "outcome", row.id, "pending") = row.outcome
    BY <1>5, <1>17
  <2> QED
    BY <1>6, <1>15, <2>2, <2>3 DEF InterviewTold
<1>24. CvTold'
  BY <1>7, <1>15, <1>16, <1>18, CvKept
<1>25. TrailOK'
  <2>1. ASSUME NEW iv \in Requests, ~Untold(t2, "slot", iv)
        PROVE  Row(iv)' = {} <=> ~Untold(t2, "removed", iv)
    <3>1. CASE iv = r
      <4>1. row \in Row(iv)'
        BY <1>5, <1>6, <3>1 DEF Row
      <4> QED
        BY <1>17, <3>1, <4>1
    <3>2. CASE iv # r
      <4>1. Row(iv)' = Row(iv)
        BY <1>5, <1>6, <3>2 DEF Row
      <4>2. "slot" \in Kind /\ "removed" \in Kind
        BY DEF Kind
      <4> QED
        BY <1>17, <2>1, <3>2, <4>1, <4>2 DEF IInv, TrailOK
    <3> QED
      BY <3>1, <3>2
  <2> QED
    BY <1>15, <2>1 DEF TrailOK
<1> QED
  BY <1>1, <1>7, <1>8, <1>15, <1>16, <1>19, <1>21, <1>22, <1>23, <1>24, <1>25, WriteKeeps

\* A row in the table has a booking and no removal.
LEMMA RowIsTold ==
  ASSUME IInv, NEW x \in interviews
  PROVE  ~Untold(timeline, "slot", x.id) /\ Untold(timeline, "removed", x.id)
<1>1. x.id \in Requests /\ x.id \in Subject /\ x.slot # None /\ "slot" \in Kind
  BY NoneAssumption DEF IInv, TypeOK, Interview, Subject, Kind
<1>2. Timeline(timeline) /\ Told(timeline, "slot", x.id, None) = x.slot
  BY DEF IInv, InterviewTold
<1>3. ~Untold(timeline, "slot", x.id)
  BY <1>1, <1>2, ToldIsSaid
<1>4. Row(x.id) # {}
  BY DEF Row
<1> QED
  BY <1>1, <1>3, <1>4 DEF IInv, TrailOK

\* Each column that is written has its note, with the value that is written.
LEMMA UpdateKeeps ==
  ASSUME IInv, NEW r \in Requests, NEW t \in Slots, NEW o \in INTERVIEW_OUTCOMES, update_interview(r, t, o)
  PROVE  IInv'
<1>1. UNCHANGED <<card, reminders>> /\ pc[r] = "updating" /\ loaded[r] \in Session
  BY DEF update_interview, IInv, TypeOK
<1>2. PICK old \in Interview : old = loaded[r].iv /\ Past(old.id)
  <2>1. loaded[r].iv \in Interview /\ Past(loaded[r].iv.id)
    BY <1>1 DEF IInv, SessionsOK, InterviewStep
  <2> QED
    BY <2>1
<1>3. PICK id \in Requests : id = old.id
  BY DEF Interview
<1>4. PICK new \in Interview : new = [old EXCEPT !.slot = t, !.outcome = o] /\ new.slot = t /\ new.outcome = o
  <2>1. [old EXCEPT !.slot = t, !.outcome = o] \in Interview
    BY DEF Interview
  <2> QED
    BY <2>1 DEF Interview
<1>5. CASE stale(old) /\ End(r, "raised") /\ UNCHANGED <<interviews, timeline>>
  <2>1. /\ pc' \in [Requests -> {"idle"} \cup Working \cup Ended] /\ loaded' \in [Requests -> Session]
        /\ pc'[r] = "raised"
        /\ \A q \in Requests \ {r} : pc'[q] = pc[q] /\ loaded'[q] = loaded[q]
        /\ \A q \in Requests : Past(q) => Past(q)'
        /\ SessionsOK'
    BY <1>5, Ends DEF Ended
  <2>2. reminders' \subseteq [by : Requests, iv : Requests, slot : Slots] /\ RemindersOK'
    BY <1>1, <1>5 DEF IInv, TypeOK, RemindersOK
  <2> QED
    BY <1>1, <1>5, <2>1, <2>2, QuietKeeps
<1>6. CASE ~stale(old)
  <2>1. /\ interviews' = {IF x.id = id THEN patched(x, old, new) ELSE x : x \in interviews}
        /\ timeline' = timeline \o (Changed("slot", id, old.slot, t) \o Changed("outcome", id, old.outcome, o))
        /\ IF t # old.slot THEN Goto(r, "committed", loaded[r]) ELSE End(r, "done")
    BY <1>2, <1>3, <1>4, <1>6 DEF update_interview, Record
  <2>2. /\ pc' \in [Requests -> {"idle"} \cup Working \cup Ended] /\ loaded' \in [Requests -> Session]
        /\ pc'[r] # "sending_cv"
        /\ \A q \in Requests \ {r} : pc'[q] = pc[q] /\ loaded'[q] = loaded[q]
        /\ \A q \in Requests : Past(q) => Past(q)'
        /\ SessionsOK'
    <3>1. CASE t # old.slot
      <4>1. PICK session \in Session : session = loaded[r]
        BY <1>1
      <4>2. "committed" \in Working /\ "committed" \notin CardStep /\ "committed" # "sending_cv"
        BY DEF Working, CardStep
      <4> QED
        BY <1>2, <2>1, <3>1, <4>1, <4>2, Moved
    <3>2. CASE t = old.slot
      BY <2>1, <3>2, Ends DEF Ended
    <3> QED
      BY <3>1, <3>2
  <2>3. PICK row \in interviews : row.id = id
    BY <1>3, <1>6 DEF stale, Row
  <2>4. /\ Timeline(timeline) /\ timeline \in Seq(Note)
        /\ ~Untold(timeline, "slot", id) /\ Untold(timeline, "removed", id)
        /\ id \in Subject /\ id # None
        /\ old.slot \in Value /\ t \in Value /\ old.outcome \in Value /\ o \in Value
        /\ \A iv \in Requests : iv \in Subject
        /\ None \in Subject
    <3>1. ~Untold(timeline, "slot", id) /\ Untold(timeline, "removed", id)
      BY <2>3, RowIsTold
    <3> QED
      BY <3>1, NoneAssumption DEF IInv, TypeOK, Subject, Value, Interview
  <2>5. PICK t1 : t1 = timeline \o Changed("slot", id, old.slot, t)
    OBVIOUS
  <2>6. Changed("slot", id, old.slot, t) \in Seq(Note) /\ Recorded(timeline, t1, "slot", id, old.slot, t)
    BY <2>4, <2>5, ChangeAdded
  <2>7. PICK t2 : t2 = t1 \o Changed("outcome", id, old.outcome, o)
    OBVIOUS
  <2>8. /\ Changed("outcome", id, old.outcome, o) \in Seq(Note)
        /\ Recorded(t1, t2, "outcome", id, old.outcome, o)
    <3>1. Timeline(t1) /\ Untold(t1, "removed", id)
      BY <2>4, <2>6 DEF Recorded
    <3> QED
      BY <2>4, <2>7, <3>1, ChangeAdded
  <2>9. timeline' = t2
    <3>1. t2 = timeline \o (Changed("slot", id, old.slot, t) \o Changed("outcome", id, old.outcome, o))
      BY <2>4, <2>5, <2>6, <2>7, <2>8, ConcatAssociative
    <3> QED
      BY <2>1, <3>1
  <2>10. /\ Timeline(t2)
         /\ \A kind, iv, v : Said(timeline, kind, iv, v) => Said(t2, kind, iv, v)
         /\ \A u, v : SentBefore(timeline, u, v) => SentBefore(t2, u, v)
         /\ \A iv \in Requests : Mentions(t2, iv) => Mentions(timeline, iv) \/ iv = id
    BY <2>6, <2>8 DEF Recorded
  <2>11. /\ \A d : Told(t2, "stage", None, d) = Told(timeline, "stage", None, d)
         /\ \A d : Told(t2, "cv", None, d) = Told(timeline, "cv", None, d)
         /\ \A d : Told(t2, "slot", id, d) = IF t # old.slot THEN t ELSE Told(timeline, "slot", id, d)
         /\ \A d : Told(t2, "outcome", id, d) = IF o # old.outcome THEN o ELSE Told(timeline, "outcome", id, d)
         /\ \A kind \in Kind, iv \in Requests \ {id} : \A d : Told(t2, kind, iv, d) = Told(timeline, kind, iv, d)
    <3>1. "stage" \in Kind /\ "cv" \in Kind /\ "slot" \in Kind /\ "outcome" \in Kind
      BY DEF Kind
    <3>2. /\ old.slot # t => \A d : Told(t1, "slot", id, d) = t
          /\ \A k2 \in Kind, i2 \in Subject :
               ~(k2 = "slot" /\ i2 = id) \/ old.slot = t => \A d : Told(t1, k2, i2, d) = Told(timeline, k2, i2, d)
      BY <2>6 DEF Recorded
    <3>3. /\ old.outcome # o => \A d : Told(t2, "outcome", id, d) = o
          /\ \A k2 \in Kind, i2 \in Subject :
               ~(k2 = "outcome" /\ i2 = id) \/ old.outcome = o => \A d : Told(t2, k2, i2, d) = Told(t1, k2, i2, d)
      BY <2>8 DEF Recorded
    <3>4. \A d : Told(t2, "slot", id, d) = IF t # old.slot THEN t ELSE Told(timeline, "slot", id, d)
      BY <2>4, <3>1, <3>2, <3>3
    <3>5. \A d : Told(t2, "outcome", id, d) = IF o # old.outcome THEN o ELSE Told(timeline, "outcome", id, d)
      BY <2>4, <3>1, <3>2, <3>3
    <3> QED
      BY <2>4, <3>1, <3>2, <3>3, <3>4, <3>5
  <2>12. \A iv \in Requests : /\ Untold(t2, "slot", iv) <=> Untold(timeline, "slot", iv)
                              /\ Untold(t2, "removed", iv) <=> Untold(timeline, "removed", iv)
    BY <2>4, <2>6, <2>8 DEF Recorded
  <2>13. \A x \in interviews :
           /\ x.id \in Requests /\ Past(x.id)
           /\ patched(x, old, new) \in Interview /\ patched(x, old, new).id = x.id
           /\ patched(x, old, new).slot = IF t # old.slot THEN t ELSE x.slot
           /\ patched(x, old, new).outcome = IF o # old.outcome THEN o ELSE x.outcome
    BY <1>4 DEF patched, Write, IInv, TypeOK, RowsOK, Interview
  <2>14. \A y \in interviews' : \E x \in interviews :
           /\ y = IF x.id = id THEN patched(x, old, new) ELSE x
           /\ y.id = x.id /\ y \in Interview
    BY <2>1, <2>13 DEF IInv, TypeOK
  <2>15. TypeOK'
    <3>1. timeline' \in Seq(Note) /\ interviews' \subseteq Interview
      BY <2>9, <2>10, <2>14 DEF Timeline
    <3> QED
      BY <1>1, <2>2, <3>1 DEF IInv, TypeOK
  <2>16. RowsOK'
    <3>1. \A y \in interviews' : y.id \in Requests /\ Past(y.id)
      BY <2>13, <2>14
    <3>2. \A y \in interviews' : Past(y.id)'
      BY <2>2, <3>1 DEF Past
    <3>3. \A y, z \in interviews' : y.id = z.id => y = z
      BY <2>14 DEF IInv, RowsOK
    <3> QED
      BY <3>2, <3>3 DEF RowsOK
  <2>17. StageTold'
    BY <1>1, <2>9, <2>11 DEF IInv, StageTold
  <2>18. InterviewTold'
    <3>1. ASSUME NEW y \in interviews'
          PROVE  Told(t2, "slot", y.id, None) = y.slot /\ Told(t2, "outcome", y.id, "pending") = y.outcome
      <4>1. PICK x \in interviews : y.id = x.id /\ y = IF x.id = id THEN patched(x, old, new) ELSE x
        BY <2>14
      <4>2. Told(timeline, "slot", x.id, None) = x.slot /\ Told(timeline, "outcome", x.id, "pending") = x.outcome
        BY DEF IInv, InterviewTold
      <4>3. "slot" \in Kind /\ "outcome" \in Kind
        BY DEF Kind
      <4>4. CASE x.id = id
        BY <2>11, <2>13, <4>1, <4>2, <4>4
      <4>5. CASE x.id # id
        BY <2>11, <2>13, <4>1, <4>2, <4>3, <4>5
      <4> QED
        BY <4>4, <4>5
    <3> QED
      BY <2>9, <3>1 DEF InterviewTold
  <2>19. CvTold'
    BY <1>1, <2>2, <2>9, <2>10, <2>11, CvKept
  <2>20. TrailOK'
    <3>1. ASSUME NEW iv \in Requests PROVE Row(iv)' = {} <=> Row(iv) = {}
      <4>1. Row(iv)' # {} => Row(iv) # {}
        BY <2>14 DEF Row
      <4>2. ASSUME NEW x \in Row(iv) PROVE Row(iv)' # {}
        <5>1. x \in interviews /\ x.id = iv
          BY DEF Row
        <5>2. PICK y \in interviews' : y = IF x.id = id THEN patched(x, old, new) ELSE x
          BY <2>1, <5>1
        <5>3. y.id = iv
          BY <2>13, <5>1, <5>2
        <5> QED
          BY <5>3 DEF Row
      <4> QED
        BY <4>1, <4>2
    <3> QED
      BY <2>9, <2>12, <3>1 DEF IInv, TrailOK
  <2>21. \A iv \in Requests : Mentions(timeline', iv) => Mentions(timeline, iv) \/ Past(iv)'
    BY <1>2, <1>3, <2>2, <2>9, <2>10
  <2> QED
    BY <1>1, <2>2, <2>9, <2>10, <2>15, <2>16, <2>17, <2>18, <2>19, <2>20, <2>21, WriteKeeps
<1> QED
  BY <1>2, <1>5, <1>6 DEF update_interview

\* The removal is the newest note about the interview, and its row is gone.
LEMMA DeleteKeeps ==
  ASSUME IInv, NEW r \in Requests, delete_interview(r)
  PROVE  IInv'
<1>1. UNCHANGED <<card, reminders>> /\ pc[r] = "deleting" /\ End(r, "done")
  BY DEF delete_interview
<1>2. PICK old \in Interview : old = loaded[r].iv /\ Past(old.id)
  <2>1. loaded[r].iv \in Interview /\ Past(loaded[r].iv.id)
    BY <1>1 DEF IInv, SessionsOK, InterviewStep
  <2> QED
    BY <2>1
<1>3. PICK id \in Requests : id = old.id
  BY DEF Interview
<1>4. PICK n \in Note : n = [kind |-> "removed", iv |-> id, from |-> old.outcome, to |-> None]
  BY DEF Note, Value, Interview
<1>5. n.kind = "removed" /\ n.iv = id /\ id # None
  BY <1>4, NoneAssumption
<1>6. interviews' = interviews \ Row(id)
  BY <1>2, <1>3 DEF delete_interview
<1>7. PICK t2 : t2 = timeline' /\ t2 = timeline \o <<n>>
  BY <1>2, <1>3, <1>4 DEF delete_interview, Record, removal_note
<1>8. /\ pc' \in [Requests -> {"idle"} \cup Working \cup Ended] /\ loaded' \in [Requests -> Session]
      /\ pc'[r] = "done"
      /\ \A q \in Requests \ {r} : pc'[q] = pc[q] /\ loaded'[q] = loaded[q]
      /\ \A q \in Requests : Past(q) => Past(q)'
      /\ SessionsOK'
  BY <1>1, Ends DEF Ended
<1>9. /\ Timeline(t2)
      /\ \A kind \in Kind, iv \in Subject :
           ~("removed" = kind /\ id = iv) => \A d : Told(t2, kind, iv, d) = Told(timeline, kind, iv, d)
      /\ \A kind, iv : Untold(t2, kind, iv) <=> Untold(timeline, kind, iv) /\ ~("removed" = kind /\ id = iv)
      /\ \A kind, iv, v : Said(timeline, kind, iv, v) => Said(t2, kind, iv, v)
      /\ \A u, v : SentBefore(timeline, u, v) => SentBefore(t2, u, v)
      /\ \A iv : Mentions(t2, iv) <=> Mentions(timeline, iv) \/ id = iv
  <2>1. Timeline(timeline) /\ (n.iv = None <=> n.kind \in {"stage", "cv"})
    BY <1>5 DEF IInv
  <2>2. Added(timeline, t2, n)
    BY <1>5, <1>7, <2>1, NoteAdded
  <2> QED
    BY <1>5, <2>2 DEF Added
<1>10. /\ "stage" \in Kind /\ "cv" \in Kind /\ "slot" \in Kind /\ "outcome" \in Kind
       /\ None \in Subject /\ \A iv \in Requests : iv \in Subject
  BY DEF Kind, Subject
<1>11. \A x \in interviews' : x \in interviews /\ x.id \in Requests /\ x.id # id
  BY <1>6 DEF Row, IInv, TypeOK, Interview
<1>12. TypeOK'
  <2>1. timeline' \in Seq(Note) /\ interviews' \subseteq Interview
    BY <1>6, <1>7, <1>9 DEF Timeline, IInv, TypeOK
  <2> QED
    BY <1>1, <1>8, <2>1 DEF IInv, TypeOK
<1>13. RowsOK'
  <2>1. \A x \in interviews' : Past(x.id)
    BY <1>11 DEF IInv, RowsOK
  <2>2. \A x \in interviews' : Past(x.id)'
    BY <1>8, <1>11, <2>1 DEF Past
  <2> QED
    BY <1>11, <2>2 DEF IInv, RowsOK
<1>14. StageTold'
  BY <1>1, <1>7, <1>9, <1>10 DEF IInv, StageTold
<1>15. InterviewTold'
  BY <1>7, <1>9, <1>10, <1>11 DEF IInv, InterviewTold
<1>16. CvTold'
  BY <1>1, <1>7, <1>8, <1>9, <1>10, CvKept
<1>17. TrailOK'
  <2>1. Row(id)' = {} /\ \A iv \in Requests \ {id} : Row(iv)' = Row(iv)
    BY <1>6 DEF Row
  <2> QED
    BY <1>7, <1>9, <2>1 DEF IInv, TrailOK
<1>18. \A iv \in Requests : Mentions(timeline', iv) => Mentions(timeline, iv) \/ Past(iv)'
  BY <1>2, <1>3, <1>7, <1>8, <1>9
<1> QED
  BY <1>1, <1>7, <1>8, <1>9, <1>12, <1>13, <1>14, <1>15, <1>16, <1>17, <1>18, WriteKeeps

------------------------------------------------------------------------------
(* The invariant and the theorems *)

LEMMA InitIInv == Init => IInv
<1> SUFFICES ASSUME Init PROVE IInv
  OBVIOUS
<1>1. card \in Opportunity /\ card.sent_cv = None
  BY DEF Init, Opportunity
<1>2. /\ timeline = <<>> /\ interviews = {} /\ reminders = {}
      /\ \A r \in Requests : pc[r] = "idle"
  BY DEF Init
<1>3. TypeOK
  BY <1>1, EmptyIsASession DEF Init, TypeOK
<1>4. \A kind, iv : Notes(timeline, kind, iv) = {}
  BY <1>2 DEF Notes
<1>5. \A kind, iv : Untold(timeline, kind, iv) /\ \A d : Told(timeline, kind, iv, d) = d
  BY <1>4 DEF Untold, Told
<1>6. Timeline(timeline)
  BY <1>2, <1>3, <1>4 DEF Timeline, TypeOK, NewestExists, AboutTheRight, RemovalsLast
<1>7. SessionsOK
  BY <1>2 DEF SessionsOK, CardStep, InterviewStep
<1>8. RowsOK /\ BookedOnly
  BY <1>2 DEF RowsOK, BookedOnly, Mentions
<1>9. StageTold /\ InterviewTold
  BY <1>2, <1>5 DEF StageTold, InterviewTold
<1>10. CvTold
  BY <1>1, <1>2, <1>5 DEF CvTold
<1>11. TrailOK /\ RemindersOK
  BY <1>2, <1>5 DEF TrailOK, RemindersOK
<1> QED
  BY <1>3, <1>6, <1>7, <1>8, <1>9, <1>10, <1>11 DEF IInv

LEMMA StutterKeeps ==
  ASSUME IInv, UNCHANGED vars
  PROVE  IInv'
<1>1. UNCHANGED <<card, timeline, interviews, reminders, pc, loaded>>
  BY DEF vars
<1>2. SessionsOK' /\ RemindersOK' /\ \A q \in Requests : Past(q) => Past(q)'
  BY <1>1 DEF IInv, SessionsOK, RemindersOK, Past
<1> QED
  BY <1>1, <1>2, QuietKeeps DEF IInv, TypeOK

LEMMA NextIInv == IInv /\ [Next]_vars => IInv'
<1> SUFFICES ASSUME IInv, [Next]_vars PROVE IInv'
  OBVIOUS
<1>1. ASSUME NEW r \in Requests, NEW step \in CardStep, get_card(r, step) PROVE IInv'
  BY <1>1, ReadsKeep
<1>2. ASSUME NEW r \in Requests, NEW s \in valid_stages, move_stage(r, s) PROVE IInv'
  BY <1>2, MoveKeeps
<1>3. ASSUME NEW r \in Requests, NEW cv \in CvDocuments, record_cv_sent(r, cv) PROVE IInv'
  BY <1>3, SentKeeps
<1>4. ASSUME NEW r \in Requests, NEW t \in Slots, schedule_interview(r, t) PROVE IInv'
  BY <1>4, ScheduleKeeps
<1>5. ASSUME NEW r \in Requests, NEW iv \in Requests, NEW step \in InterviewStep, get_interview(r, iv, step) PROVE IInv'
  BY <1>5, ReadsKeep
<1>6. ASSUME NEW r \in Requests, NEW t \in Slots, NEW o \in INTERVIEW_OUTCOMES, update_interview(r, t, o) PROVE IInv'
  BY <1>6, UpdateKeeps
<1>7. ASSUME NEW r \in Requests, delete_interview(r) PROVE IInv'
  BY <1>7, DeleteKeeps
<1>8. ASSUME NEW r \in Requests, send_reminder(r) \/ die(r) PROVE IInv'
  BY <1>8, SendKeeps
<1>9. CASE Quiescent \/ UNCHANGED vars
  BY <1>9, StutterKeeps DEF Quiescent
<1> QED
  BY <1>1, <1>2, <1>3, <1>4, <1>5, <1>6, <1>7, <1>8, <1>9 DEF Next

LEMMA IInvHolds == Spec => []IInv
BY InitIInv, NextIInv, PTL DEF Spec

\* Rows, notes, reminders and sessions have their types in every reachable state.
THEOREM TypeCorrect == Spec => []TypeOK
<1>1. IInv => TypeOK
  BY DEF IInv
<1> QED
  BY <1>1, IInvHolds, PTL

\* The audit trail of every interview is whole and every reminder names a booked slot
\* (schedule_interview, update_interview, delete_interview).
THEOREM ConsistencyHolds == Spec => []Consistent
<1>1. IInv => Consistent
  <2> SUFFICES ASSUME IInv PROVE Consistent
    OBVIOUS
  <2>1. \A kind, iv : Positions(kind, iv) = Notes(timeline, kind, iv)
    BY DEF Positions, Notes
  <2>2. ASSUME NEW k \in DOMAIN timeline, timeline[k].kind = "slot"
        PROVE  Row(timeline[k].iv) = {} <=> Positions("removed", timeline[k].iv) # {}
    <3>1. timeline[k] \in Note /\ timeline[k].iv # None
      <4>1. timeline \in Seq(Note) /\ AboutTheRight(timeline)
        BY DEF IInv, Timeline
      <4> QED
        BY <2>2, <4>1 DEF AboutTheRight
    <3>2. timeline[k].iv \in Requests
      BY <3>1 DEF Note
    <3>3. ~Untold(timeline, "slot", timeline[k].iv)
      BY <2>2 DEF Untold, Notes
    <3>4. Positions("removed", timeline[k].iv) # {} <=> ~Untold(timeline, "removed", timeline[k].iv)
      BY <2>1 DEF Untold
    <3> QED
      BY <3>2, <3>3, <3>4 DEF IInv, TrailOK
  <2>3. BookedOrRemoved
    BY <2>2 DEF BookedOrRemoved
  <2>4. RemovalIsLast
    BY DEF IInv, Timeline, RemovalsLast, RemovalIsLast
  <2>5. RemindersAreReal
    BY <2>1 DEF IInv, RemindersOK, Said, RemindersAreReal
  <2> QED
    BY <2>3, <2>4, <2>5 DEF IInv, Consistent, AuditTrailIsKept
<1> QED
  BY <1>1, IInvHolds, PTL

\* Whatever requests race, the timeline is true of the card's stage, of every
\* interview and of the variant sent (move_stage, update_interview, record_cv_sent).
THEOREM TimelineTrue == Spec => []TimelineIsTrue
<1>1. IInv => TimelineIsTrue
  <2> SUFFICES ASSUME IInv PROVE TimelineIsTrue
    OBVIOUS
  <2>1. \A kind, iv : Positions(kind, iv) = Notes(timeline, kind, iv)
    BY DEF Positions, Notes
  <2>2. \A kind, iv, d : Newest(kind, iv, d) = Told(timeline, kind, iv, d)
    BY DEF Newest, Told, LastOf, Positions, Notes
  <2>3. TimelineNamesStage
    BY <2>2 DEF IInv, StageTold, TimelineNamesStage
  <2>4. TimelineNamesInterview
    BY <2>2 DEF IInv, InterviewTold, TimelineNamesInterview
  <2>5. TimelineNamesCv
    <3>1. \/ Told(timeline, "cv", None, None) = card.sent_cv
          \/ SentBefore(timeline, Told(timeline, "cv", None, None), card.sent_cv)
      BY DEF IInv, CvTold
    <3>2. Newest("cv", None, None) = Told(timeline, "cv", None, None)
      BY <2>2
    <3>3. Positions("cv", None) = Notes(timeline, "cv", None)
      BY <2>1
    <3> QED
      BY <3>1, <3>2, <3>3 DEF SentBefore, TimelineNamesCv
  <2> QED
    BY <2>3, <2>4, <2>5 DEF TimelineIsTrue
<1> QED
  BY <1>1, IInvHolds, PTL

\* Only schedule_interview takes a request from its booking to the commit.
LEMMA OnlyABookingBooks ==
  ASSUME IInv, Next, NEW r \in Requests, Books(r)
  PROVE  \E t \in Slots : schedule_interview(r, t)
<1>1. pc \in [Requests -> {"idle"} \cup Working \cup Ended]
  BY DEF IInv, TypeOK
<1>2. pc[r] = "scheduling" /\ pc'[r] = "committed"
  BY DEF Books
<1>3. ASSUME NEW q \in Requests, NEW step, NEW session, Goto(q, step, session), pc[q] # "scheduling" \/ step # "committed"
      PROVE  FALSE
  <2>1. pc'[r] = IF q = r THEN step ELSE pc[r]
    BY <1>1, <1>3 DEF Goto
  <2> QED
    BY <1>2, <1>3, <2>1
<1>4. ASSUME NEW q \in Requests, NEW step, End(q, step), step # "committed" PROVE FALSE
  BY <1>3, <1>4 DEF End
<1>5. PICK q \in Requests :
        \/ \E step \in CardStep : get_card(q, step)
        \/ \E s \in valid_stages : move_stage(q, s)
        \/ \E cv \in CvDocuments : record_cv_sent(q, cv)
        \/ \E t \in Slots : schedule_interview(q, t)
        \/ \E iv \in Requests, step \in InterviewStep : get_interview(q, iv, step)
        \/ \E t \in Slots, o \in INTERVIEW_OUTCOMES : update_interview(q, t, o)
        \/ delete_interview(q)
        \/ send_reminder(q)
        \/ die(q)
  <2>1. ~Quiescent
    BY <1>2 DEF Quiescent, vars
  <2> QED
    BY <2>1 DEF Next
<1>6. ~ \E step \in CardStep : get_card(q, step)
  BY <1>3 DEF get_card
<1>7. ~ (\E s \in valid_stages : move_stage(q, s)) /\ ~ \E cv \in CvDocuments : record_cv_sent(q, cv)
  BY <1>4 DEF move_stage, record_cv_sent
<1>8. ~ \E iv \in Requests, step \in InterviewStep : get_interview(q, iv, step)
  <2> SUFFICES ASSUME NEW iv \in Requests, NEW step \in InterviewStep, get_interview(q, iv, step) PROVE FALSE
    OBVIOUS
  <2>1. pc[q] # "scheduling"
    BY DEF get_interview
  <2>2. ~End(q, "not_found")
    BY <1>4
  <2> QED
    BY <1>3, <2>1, <2>2 DEF get_interview
<1>9. ~ \E t \in Slots, o \in INTERVIEW_OUTCOMES : update_interview(q, t, o)
  <2> SUFFICES ASSUME NEW t \in Slots, NEW o \in INTERVIEW_OUTCOMES, update_interview(q, t, o) PROVE FALSE
    OBVIOUS
  <2>1. pc[q] # "scheduling"
    BY DEF update_interview
  <2>2. ~End(q, "raised") /\ ~End(q, "done")
    BY <1>4
  <2> QED
    BY <1>3, <2>1, <2>2 DEF update_interview
<1>10. ~delete_interview(q) /\ ~send_reminder(q) /\ ~die(q)
  BY <1>4 DEF delete_interview, send_reminder, die
<1>11. PICK t \in Slots : schedule_interview(q, t)
  BY <1>5, <1>6, <1>7, <1>8, <1>9, <1>10
<1>12. q = r
  <2>1. q # r => pc'[r] = pc[r]
    BY <1>1, <1>11 DEF schedule_interview, Goto
  <2> QED
    BY <1>2, <2>1
<1> QED
  BY <1>11, <1>12

\* The stage a booking leads to is not behind the one it has seen.
LEMMA AdvanceIsForward ==
  ASSUME NEW s \in Stage
  PROVE  Rank(_advance_stage_to_interviewing(s)) >= Rank(s)
<1>1. ASSUME NEW u \in Stage PROVE Rank(u) \in Nat
  <2>1. DOMAIN OPPORTUNITY_STAGES = 1 .. 7
    BY DEF OPPORTUNITY_STAGES
  <2>2. \E k \in DOMAIN OPPORTUNITY_STAGES : OPPORTUNITY_STAGES[k] = u
    BY <1>1 DEF Stage, ToSet
  <2>3. Rank(u) \in DOMAIN OPPORTUNITY_STAGES
    BY <2>2 DEF Rank
  <2> QED
    BY <2>1, <2>3
<1>2. "interviewing" \in Stage
  <2>1. "interviewing" = OPPORTUNITY_STAGES[4] /\ DOMAIN OPPORTUNITY_STAGES = 1 .. 7
    BY DEF OPPORTUNITY_STAGES
  <2> QED
    BY <2>1 DEF Stage, ToSet
<1>3. Rank(s) \in Nat /\ Rank("interviewing") \in Nat
  BY <1>1, <1>2
<1>4. CASE Rank(s) < Rank("interviewing")
  <2>1. _advance_stage_to_interviewing(s) = "interviewing"
    BY <1>4 DEF _advance_stage_to_interviewing
  <2> QED
    BY <1>3, <1>4, <2>1
<1>5. CASE ~(Rank(s) < Rank("interviewing"))
  <2>1. _advance_stage_to_interviewing(s) = s
    BY <1>5 DEF _advance_stage_to_interviewing
  <2> QED
    BY <1>3, <2>1
<1> QED
  BY <1>4, <1>5

\* A booking never drags a card backwards, as long as nobody moved the card since the
\* booking loaded it (_advance_stage_to_interviewing).
THEOREM BookingsGoForward == Spec => ForwardUnlessRaced
<1>1. IInv /\ [Next]_vars =>
        [\A r \in Requests : Books(r) /\ loaded[r].card.stage = card.stage
           => Rank(card'.stage) >= Rank(card.stage)]_vars
  <2> SUFFICES ASSUME IInv, Next, NEW r \in Requests, Books(r), loaded[r].card.stage = card.stage
               PROVE  Rank(card'.stage) >= Rank(card.stage)
    OBVIOUS
  <2>1. PICK t \in Slots : schedule_interview(r, t)
    BY OnlyABookingBooks
  <2>2. PICK s \in Stage : s = card.stage
    BY DEF IInv, TypeOK, Opportunity
  <2>3. card'.stage = _advance_stage_to_interviewing(s)
    BY <2>1, <2>2 DEF schedule_interview, Write, IInv, TypeOK, Opportunity
  <2> QED
    BY <2>2, <2>3, AdvanceIsForward
<1> QED
  BY <1>1, IInvHolds, PTL DEF Spec, ForwardUnlessRaced
==============================================================================
