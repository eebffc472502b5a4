---------------------------- MODULE PromotionProofs ----------------------------
(***************************************************************************)
(* Theorems about Promotion, for any number of interactions and requests.  *)
(*                                                                         *)
(* A request that has flushed a card holds the interaction's key alone,    *)
(* and the key is not committed yet; so a commit can only add the first    *)
(* card of its interaction, and whoever loses the key finds that card.     *)
(*                                                                         *)
(* The second half is about BlogFeed, for any number of posts and any page *)
(* sizes of which the first is a multiple of the second.                   *)
(***************************************************************************)
EXTENDS Promotion, BlogFeed, FiniteSetTheorems, SequenceTheorems, TLAPS

\* A handler in the middle of a promotion knows its interaction.
PromotingHasRow ==
  \A r \in Requests : pc[r] \in Promoting =>
    item[r] \in Interactions /\ seen[r] \in Interaction /\ seen[r].id = item[r]

PatchingHasRow == \A r \in Requests : pc[r] = "patching" => seen[r] \in Interaction

\* Rows are never deleted and never change their source.
SeenIsThere ==
  \A r \in Requests : pc[r] \in Promoting \cup {"patching"} =>
    /\ \E x \in inbox : x.id = seen[r].id
    /\ \A x \in inbox : x.id = seen[r].id => x.source = seen[r].source

RowsHaveOneId == \A x, y \in inbox : x.id = y.id => x.source = y.source

CardHasRow == \A c \in cards : c.from # NoInteraction => \E x \in inbox : x.id = c.from

\* The UNIQUE index: one uncommitted owner of a key, and only of a free key.
KeyHeldOnce ==
  \A r, q \in Requests :
    pc[r] = "flushed" /\ pc[q] = "flushed" /\ item[r] = item[q] => r = q

KeyHeldIsFree ==
  \A r \in Requests : pc[r] = "flushed" => \A c \in cards : c.from # item[r]

CommittedIsThere ==
  \A r \in Requests : pc[r] = "committed" =>
    \E c \in cards : c.id = r /\ c.from = item[r]

LostHasWinner ==
  \A r \in Requests : pc[r] = "lost" => \E c \in cards : c.from = item[r]

\* Nobody has asked before the first statement, nor been answered before the last.
Untold ==
  \A r \in Requests :
    /\ pc[r] = "idle" => item[r] = NoInteraction
    /\ pc[r] # "done" => answer[r] = NoCard

IInv ==
  /\ TypeOK
  /\ PromotingHasRow
  /\ PatchingHasRow
  /\ SeenIsThere
  /\ RowsHaveOneId
  /\ CardHasRow
  /\ KeyHeldOnce
  /\ KeyHeldIsFree
  /\ CommittedIsThere
  /\ LostHasWinner
  /\ Untold
  /\ OneCardPerInteraction
  /\ AnswerIsTheCard
  /\ CardKeepsItsOrigin
  /\ LoserFindsWinner

LEMMA InitIInv == Init => IInv
<1> SUFFICES ASSUME Init PROVE IInv
  OBVIOUS
<1>1. TypeOK
  BY DEF Init, TypeOK, Ended, Promoting
<1> QED
  BY <1>1 DEF Init, IInv, PromotingHasRow, PatchingHasRow, SeenIsThere, RowsHaveOneId,
    CardHasRow, KeyHeldOnce,
    KeyHeldIsFree, CommittedIsThere, LostHasWinner, Untold, OneCardPerInteraction,
    AnswerIsTheCard, CardKeepsItsOrigin, LoserFindsWinner, Promoting

------------------------------------------------------------------------------
(* The inbox *)

\* A new inbox row disturbs neither the rows held by requests nor a card's origin.
LEMMA NewRowIInv ==
  ASSUME IInv, NEW i \in Interactions, Row(i) = {}, NEW src \in INTERACTION_SOURCES,
         inbox' = inbox \cup {[id |-> i, source |-> src, status |-> "new"]},
         UNCHANGED <<cards, notes, pc, item, seen, answer>>
  PROVE  IInv'
<1> USE DEF IInv
<1>1. TypeOK'
  BY DEF TypeOK, Interaction, INTERACTION_STATUSES
<1>2. \A x \in inbox : x.id # i
  BY DEF Row
<1>3. (PromotingHasRow /\ PatchingHasRow /\ KeyHeldOnce /\ KeyHeldIsFree /\ CommittedIsThere
       /\ LostHasWinner /\ Untold /\ OneCardPerInteraction /\ AnswerIsTheCard /\ LoserFindsWinner)'
  BY DEF PromotingHasRow, PatchingHasRow, KeyHeldOnce, KeyHeldIsFree, CommittedIsThere,
    LostHasWinner, Untold, OneCardPerInteraction, AnswerIsTheCard, LoserFindsWinner
<1>4. SeenIsThere'
  BY <1>2 DEF SeenIsThere
<1>5. (CardHasRow /\ RowsHaveOneId)'
  BY <1>2 DEF CardHasRow, RowsHaveOneId
<1>6. CardKeepsItsOrigin'
  BY <1>2 DEF CardKeepsItsOrigin, CardHasRow, Row
<1> QED
  BY <1>1, <1>3, <1>4, <1>5, <1>6

\* A status write keeps every row's id and source.
LEMMA WriteStatusKeeps ==
  ASSUME inbox \subseteq Interaction, NEW x \in Interaction, NEW s \in INTERACTION_STATUSES
  PROVE  /\ WriteStatus(x, s) \subseteq Interaction
         /\ \A y \in WriteStatus(x, s) : \E z \in inbox : z.id = y.id /\ z.source = y.source
         /\ \A z \in inbox : \E y \in WriteStatus(x, s) : z.id = y.id /\ z.source = y.source
<1> DEFINE new(y) == IF y.id = x.id /\ s # x.status THEN [y EXCEPT !.status = s] ELSE y
<1>1. \A y \in Interaction :
        new(y) \in Interaction /\ new(y).id = y.id /\ new(y).source = y.source
  BY DEF Interaction
<1>2. WriteStatus(x, s) = {new(y) : y \in inbox}
  BY DEF WriteStatus
<1> HIDE DEF new
<1> QED
  BY <1>1, <1>2

\* The properties of the tables that only look at a row's id and source.
LEMMA SameRowsIInv ==
  ASSUME RowsHaveOneId, SeenIsThere, CardHasRow, CardKeepsItsOrigin,
         \A y \in inbox' : \E z \in inbox : z.id = y.id /\ z.source = y.source,
         \A z \in inbox : \E y \in inbox' : z.id = y.id /\ z.source = y.source,
         UNCHANGED <<cards, notes>>
  PROVE  RowsHaveOneId' /\ CardHasRow' /\ CardKeepsItsOrigin'
<1>1. CardHasRow' /\ RowsHaveOneId'
  BY DEF CardHasRow, RowsHaveOneId
<1>2. CardKeepsItsOrigin'
  BY DEF CardKeepsItsOrigin, Row
<1> QED
  BY <1>1, <1>2

------------------------------------------------------------------------------
(* Steps that change one request and no table *)

\* A request moves on, its item, row and answer unchanged, without entering a step
\* that claims something of the tables.
LEMMA MoveIInv ==
  ASSUME IInv, NEW r \in Requests, NEW step,
         step \in {"not_promoted", "done", "not_found", "dead"},
         step = "not_promoted" => pc[r] \in Promoting,
         pc[r] # "done",
         Goto(r, step),
         UNCHANGED <<inbox, cards, notes, item, seen, answer>>
  PROVE  IInv'
<1> USE DEF IInv
<1>1. pc' = [pc EXCEPT ![r] = step]
  BY DEF Goto
<1>2. TypeOK'
  BY <1>1 DEF TypeOK, Promoting, Ended
<1>3. pc'[r] = step /\ \A q \in Requests \ {r} : pc'[q] = pc[q]
  BY <1>1 DEF TypeOK
<1>4. (PromotingHasRow /\ PatchingHasRow)'
  BY <1>3 DEF PromotingHasRow, PatchingHasRow, Promoting
<1>5. SeenIsThere'
  BY <1>3 DEF SeenIsThere, Promoting
<1>6. (CardHasRow /\ OneCardPerInteraction /\ AnswerIsTheCard /\ CardKeepsItsOrigin
       /\ RowsHaveOneId)'
  BY DEF RowsHaveOneId, CardHasRow, OneCardPerInteraction, AnswerIsTheCard, CardKeepsItsOrigin, Row
<1>7. (KeyHeldOnce /\ KeyHeldIsFree)'
  BY <1>3 DEF KeyHeldOnce, KeyHeldIsFree
<1>8. (CommittedIsThere /\ LostHasWinner /\ LoserFindsWinner)'
  BY <1>3 DEF CommittedIsThere, LostHasWinner, LoserFindsWinner
<1>9. Untold'
  BY <1>3 DEF Untold
<1> QED
  BY <1>2, <1>4, <1>5, <1>6, <1>7, <1>8, <1>9

\* A request loads the row x of an interaction it has found.
LEMMA LoadIInv ==
  ASSUME IInv, NEW r \in Requests, pc[r] = "idle", NEW x \in inbox, NEW step,
         \/ step = "patching" /\ UNCHANGED item
         \/ step = "looked_up" /\ item' = [item EXCEPT ![r] = x.id],
         seen' = [seen EXCEPT ![r] = x],
         Goto(r, step),
         UNCHANGED <<inbox, cards, notes, answer>>
  PROVE  IInv'
<1> USE DEF IInv
<1>1. pc' = [pc EXCEPT ![r] = step]
  BY DEF Goto
<1>2. x \in Interaction /\ x.id \in Interactions
  BY DEF TypeOK, Interaction
<1>3. TypeOK'
  BY <1>1, <1>2 DEF TypeOK, Promoting
<1>4. /\ pc'[r] = step /\ seen'[r] = x
      /\ step = "looked_up" => item'[r] = x.id
      /\ \A q \in Requests \ {r} : pc'[q] = pc[q] /\ seen'[q] = seen[q] /\ item'[q] = item[q]
  BY <1>1 DEF TypeOK
<1>5. (PromotingHasRow /\ PatchingHasRow)'
  BY <1>2, <1>4 DEF PromotingHasRow, PatchingHasRow, Promoting
<1>6. SeenIsThere'
  <2>1. \A y \in inbox : y.id = x.id => y.source = x.source
    BY DEF RowsHaveOneId
  <2> QED
    BY <2>1, <1>4 DEF SeenIsThere, Promoting
<1>7. (CardHasRow /\ OneCardPerInteraction /\ CardKeepsItsOrigin /\ RowsHaveOneId)'
  BY DEF CardHasRow, OneCardPerInteraction, CardKeepsItsOrigin, Row, RowsHaveOneId
<1>8. answer[r] = NoCard
  BY DEF Untold
<1>9. AnswerIsTheCard'
  BY <1>4, <1>8 DEF AnswerIsTheCard
<1>10. (KeyHeldOnce /\ KeyHeldIsFree /\ CommittedIsThere /\ LostHasWinner /\ LoserFindsWinner)'
  BY <1>4 DEF KeyHeldOnce, KeyHeldIsFree, CommittedIsThere, LostHasWinner, LoserFindsWinner
<1>11. Untold'
  BY <1>4, <1>8 DEF Untold
<1> QED
  BY <1>3, <1>5, <1>6, <1>7, <1>9, <1>10, <1>11

\* A request asks for an interaction that is not there.
LEMMA AskedInVainIInv ==
  ASSUME IInv, NEW r \in Requests, pc[r] = "idle", NEW i \in Interactions,
         item' = [item EXCEPT ![r] = i],
         Goto(r, "not_found"),
         UNCHANGED <<inbox, cards, notes, seen, answer>>
  PROVE  IInv'
<1> USE DEF IInv
<1>1. pc' = [pc EXCEPT ![r] = "not_found"]
  BY DEF Goto
<1>2. TypeOK'
  BY <1>1 DEF TypeOK, Ended
<1>3. /\ pc'[r] = "not_found" /\ answer[r] = NoCard
      /\ \A q \in Requests \ {r} : pc'[q] = pc[q] /\ item'[q] = item[q]
  BY <1>1 DEF TypeOK, Untold
<1>4. (PromotingHasRow /\ PatchingHasRow)'
  BY <1>3 DEF PromotingHasRow, PatchingHasRow, Promoting
<1>5. SeenIsThere'
  BY <1>3 DEF SeenIsThere, Promoting
<1>6. (CardHasRow /\ OneCardPerInteraction /\ CardKeepsItsOrigin /\ RowsHaveOneId)'
  BY DEF CardHasRow, OneCardPerInteraction, CardKeepsItsOrigin, Row, RowsHaveOneId
<1>7. AnswerIsTheCard'
  BY <1>3 DEF AnswerIsTheCard
<1>8. (KeyHeldOnce /\ KeyHeldIsFree /\ CommittedIsThere /\ LostHasWinner /\ LoserFindsWinner)'
  BY <1>3 DEF KeyHeldOnce, KeyHeldIsFree, CommittedIsThere, LostHasWinner, LoserFindsWinner
<1>9. Untold'
  BY <1>3 DEF Untold
<1> QED
  BY <1>2, <1>4, <1>5, <1>6, <1>7, <1>8, <1>9

\* A request is answered with a committed card of its interaction.
LEMMA AnswerIInv ==
  ASSUME IInv, NEW r \in Requests, pc[r] \in Promoting,
         NEW c \in cards, c.from = item[r],
         answer' = [answer EXCEPT ![r] = c.id],
         Goto(r, "done"),
         UNCHANGED <<inbox, cards, notes, item, seen>>
  PROVE  IInv'
<1> USE DEF IInv
<1>1. pc' = [pc EXCEPT ![r] = "done"]
  BY DEF Goto
<1>2. c.id \in Requests
  BY DEF TypeOK, Card
<1>3. TypeOK'
  BY <1>1, <1>2 DEF TypeOK, Ended
<1>4. /\ pc'[r] = "done" /\ answer'[r] = c.id
      /\ \A q \in Requests \ {r} : pc'[q] = pc[q] /\ answer'[q] = answer[q]
  BY <1>1 DEF TypeOK
<1>5. (PromotingHasRow /\ PatchingHasRow)'
  BY <1>4 DEF PromotingHasRow, PatchingHasRow, Promoting
<1>6. SeenIsThere'
  BY <1>4 DEF SeenIsThere, Promoting
<1>7. (CardHasRow /\ OneCardPerInteraction /\ CardKeepsItsOrigin /\ RowsHaveOneId)'
  BY DEF CardHasRow, OneCardPerInteraction, CardKeepsItsOrigin, Row, RowsHaveOneId
<1>8. AnswerIsTheCard'
  BY <1>4 DEF AnswerIsTheCard
<1>9. (KeyHeldOnce /\ KeyHeldIsFree /\ CommittedIsThere /\ LostHasWinner /\ LoserFindsWinner)'
  BY <1>4 DEF KeyHeldOnce, KeyHeldIsFree, CommittedIsThere, LostHasWinner, LoserFindsWinner
<1>10. Untold'
  BY <1>4 DEF Untold
<1> QED
  BY <1>3, <1>5, <1>6, <1>7, <1>8, <1>9, <1>10

\* The flush that gets the key: the key is free, and nobody else holds it.
LEMMA FlushedIInv ==
  ASSUME IInv, NEW r \in Requests, ~Blocked(r), _find_promoted(item[r]) = {},
         FlushTo(r, "flushed")
  PROVE  IInv'
<1> USE DEF IInv
<1>1. /\ pc[r] = "not_promoted" /\ pc' = [pc EXCEPT ![r] = "flushed"]
      /\ UNCHANGED <<inbox, cards, notes, item, seen, answer>>
  BY DEF FlushTo, Goto
<1>2. TypeOK'
  BY <1>1 DEF TypeOK, Promoting
<1>3. pc'[r] = "flushed" /\ \A q \in Requests \ {r} : pc'[q] = pc[q]
  BY <1>1 DEF TypeOK
<1>4. (PromotingHasRow /\ PatchingHasRow)'
  BY <1>1, <1>3 DEF PromotingHasRow, PatchingHasRow, Promoting
<1>5. SeenIsThere'
  BY <1>1, <1>3 DEF SeenIsThere, Promoting
<1>6. (CardHasRow /\ OneCardPerInteraction /\ AnswerIsTheCard /\ CardKeepsItsOrigin
       /\ RowsHaveOneId)'
  BY <1>1 DEF RowsHaveOneId, CardHasRow, OneCardPerInteraction, AnswerIsTheCard,
    CardKeepsItsOrigin, Row
<1>7. KeyHeldOnce'
  BY <1>1, <1>3 DEF KeyHeldOnce, Blocked
<1>8. KeyHeldIsFree'
  BY <1>1, <1>3 DEF KeyHeldIsFree, _find_promoted
<1>9. (CommittedIsThere /\ LostHasWinner /\ LoserFindsWinner)'
  BY <1>1, <1>3 DEF CommittedIsThere, LostHasWinner, LoserFindsWinner
<1>10. Untold'
  BY <1>1, <1>3 DEF Untold
<1> QED
  BY <1>2, <1>4, <1>5, <1>6, <1>7, <1>8, <1>9, <1>10

\* The flush that is refused: the winner's card is committed.
LEMMA LostIInv ==
  ASSUME IInv, NEW r \in Requests, _find_promoted(item[r]) # {}, FlushTo(r, "lost")
  PROVE  IInv'
<1> USE DEF IInv
<1>1. /\ pc[r] = "not_promoted" /\ pc' = [pc EXCEPT ![r] = "lost"]
      /\ UNCHANGED <<inbox, cards, notes, item, seen, answer>>
  BY DEF FlushTo, Goto
<1>2. TypeOK'
  BY <1>1 DEF TypeOK, Promoting
<1>3. pc'[r] = "lost" /\ \A q \in Requests \ {r} : pc'[q] = pc[q]
  BY <1>1 DEF TypeOK
<1>4. (PromotingHasRow /\ PatchingHasRow)'
  BY <1>1, <1>3 DEF PromotingHasRow, PatchingHasRow, Promoting
<1>5. SeenIsThere'
  BY <1>1, <1>3 DEF SeenIsThere, Promoting
<1>6. (CardHasRow /\ OneCardPerInteraction /\ AnswerIsTheCard /\ CardKeepsItsOrigin
       /\ RowsHaveOneId)'
  BY <1>1 DEF RowsHaveOneId, CardHasRow, OneCardPerInteraction, AnswerIsTheCard,
    CardKeepsItsOrigin, Row
<1>7. (KeyHeldOnce /\ KeyHeldIsFree /\ CommittedIsThere /\ LoserFindsWinner)'
  BY <1>1, <1>3 DEF KeyHeldOnce, KeyHeldIsFree, CommittedIsThere, LoserFindsWinner
<1>8. LostHasWinner'
  BY <1>1, <1>3 DEF LostHasWinner, _find_promoted
<1>9. Untold'
  BY <1>1, <1>3 DEF Untold
<1> QED
  BY <1>2, <1>4, <1>5, <1>6, <1>7, <1>8, <1>9

------------------------------------------------------------------------------
(* Steps that write a table *)

\* A status, and nothing else of the inbox, is written.
LEMMA StatusIInv ==
  ASSUME IInv, NEW r \in Requests, NEW s \in INTERACTION_STATUSES, commit_status(r, s)
  PROVE  IInv'
<1> USE DEF IInv
<1>1. /\ pc[r] = "patching" /\ pc' = [pc EXCEPT ![r] = "done"]
      /\ inbox' = WriteStatus(seen[r], s)
      /\ UNCHANGED <<cards, notes, item, seen, answer>>
  BY DEF commit_status, Goto
<1>2. seen[r] \in Interaction
  BY <1>1 DEF PatchingHasRow
<1>3. inbox \subseteq Interaction
  BY DEF TypeOK
<1>4. /\ inbox' \subseteq Interaction
      /\ \A y \in inbox' : \E z \in inbox : z.id = y.id /\ z.source = y.source
      /\ \A z \in inbox : \E y \in inbox' : z.id = y.id /\ z.source = y.source
  BY <1>1, <1>2, <1>3, WriteStatusKeeps
<1>5. TypeOK'
  BY <1>1, <1>4 DEF TypeOK, Ended
<1>6. pc'[r] = "done" /\ \A q \in Requests \ {r} : pc'[q] = pc[q]
  BY <1>1 DEF TypeOK
<1>7. (PromotingHasRow /\ PatchingHasRow)'
  BY <1>1, <1>6 DEF PromotingHasRow, PatchingHasRow, Promoting
<1>8. SeenIsThere'
  BY <1>1, <1>4, <1>6 DEF SeenIsThere, Promoting
<1>9. (RowsHaveOneId /\ CardHasRow /\ CardKeepsItsOrigin)'
  BY <1>1, <1>4, SameRowsIInv
<1>10. (OneCardPerInteraction /\ AnswerIsTheCard)'
  BY <1>1 DEF OneCardPerInteraction, AnswerIsTheCard
<1>11. (KeyHeldOnce /\ KeyHeldIsFree /\ CommittedIsThere /\ LostHasWinner /\ LoserFindsWinner)'
  BY <1>1, <1>6 DEF KeyHeldOnce, KeyHeldIsFree, CommittedIsThere, LostHasWinner, LoserFindsWinner
<1>12. Untold'
  BY <1>1, <1>6 DEF Untold
<1> QED
  BY <1>5, <1>7, <1>8, <1>9, <1>10, <1>11, <1>12

\* A card by hand is no interaction's card.
LEMMA CreateIInv ==
  ASSUME IInv, NEW r \in Requests, NEW src \in OPPORTUNITY_SOURCES, create_opportunity(r, src)
  PROVE  IInv'
<1> USE DEF IInv
<1> DEFINE card == [id |-> r, from |-> NoInteraction, source |-> src]
<1>1. /\ pc[r] = "idle" /\ pc' = [pc EXCEPT ![r] = "done"]
      /\ cards' = cards \cup {card}
      /\ UNCHANGED <<inbox, notes, item, seen, answer>>
  BY DEF create_opportunity, Goto
<1>2. card \in Card /\ card.from = NoInteraction
  BY DEF Card
<1>3. TypeOK'
  BY <1>1, <1>2 DEF TypeOK, Ended
<1> HIDE DEF card
<1>4. pc'[r] = "done" /\ \A q \in Requests \ {r} : pc'[q] = pc[q]
  BY <1>1 DEF TypeOK
<1>5. (PromotingHasRow /\ PatchingHasRow)'
  BY <1>1, <1>4 DEF PromotingHasRow, PatchingHasRow, Promoting
<1>6. SeenIsThere'
  BY <1>1, <1>4 DEF SeenIsThere, Promoting
<1>7. (RowsHaveOneId /\ CardHasRow /\ OneCardPerInteraction)'
  BY <1>1, <1>2 DEF RowsHaveOneId, CardHasRow, OneCardPerInteraction
<1>8. CardKeepsItsOrigin'
  BY <1>1, <1>2 DEF CardKeepsItsOrigin, Row
<1>9. AnswerIsTheCard'
  BY <1>1 DEF AnswerIsTheCard
<1>10. KeyHeldIsFree'
  BY <1>1, <1>2, <1>4, NoInteractionAssumption DEF KeyHeldIsFree, PromotingHasRow, Promoting
<1>11. (KeyHeldOnce /\ CommittedIsThere /\ LostHasWinner /\ LoserFindsWinner)'
  BY <1>1, <1>4 DEF KeyHeldOnce, CommittedIsThere, LostHasWinner, LoserFindsWinner
<1>12. Untold'
  BY <1>1, <1>4 DEF Untold
<1> QED
  BY <1>3, <1>5, <1>6, <1>7, <1>8, <1>9, <1>10, <1>11, <1>12

\* A note by hand takes no card's own note away.
LEMMA NoteIInv ==
  ASSUME IInv, NEW r \in Requests, NEW c \in cards,
         NEW i \in Interactions \cup {NoInteraction}, add_note(r, c, i)
  PROVE  IInv'
<1> USE DEF IInv
<1>1. /\ pc[r] = "idle" /\ pc' = [pc EXCEPT ![r] = "done"]
      /\ notes' = notes \cup {[by |-> r, card |-> c.id, item |-> i]}
      /\ UNCHANGED <<inbox, cards, item, seen, answer>>
  BY DEF add_note, Goto
<1>2. c.id \in Requests
  BY DEF TypeOK, Card
<1>3. TypeOK'
  BY <1>1, <1>2 DEF TypeOK, Ended, Note
<1>4. pc'[r] = "done" /\ \A q \in Requests \ {r} : pc'[q] = pc[q]
  BY <1>1 DEF TypeOK
<1>5. (PromotingHasRow /\ PatchingHasRow)'
  BY <1>1, <1>4 DEF PromotingHasRow, PatchingHasRow, Promoting
<1>6. SeenIsThere'
  BY <1>1, <1>4 DEF SeenIsThere, Promoting
<1>7. (RowsHaveOneId /\ CardHasRow /\ OneCardPerInteraction /\ AnswerIsTheCard)'
  BY <1>1 DEF RowsHaveOneId, CardHasRow, OneCardPerInteraction, AnswerIsTheCard
<1>8. CardKeepsItsOrigin'
  BY <1>1 DEF CardKeepsItsOrigin, Row
<1>9. (KeyHeldOnce /\ KeyHeldIsFree /\ CommittedIsThere /\ LostHasWinner /\ LoserFindsWinner)'
  BY <1>1, <1>4 DEF KeyHeldOnce, KeyHeldIsFree, CommittedIsThere, LostHasWinner, LoserFindsWinner
<1>10. Untold'
  BY <1>1, <1>4 DEF Untold
<1> QED
  BY <1>3, <1>5, <1>6, <1>7, <1>8, <1>9, <1>10

\* The commit of a promotion: the first card of its interaction, its note and its
\* origin.  The request held the key alone, so no other one loses its claim.
LEMMA CommitIInv ==
  ASSUME IInv, NEW r \in Requests, commit_promotion(r)
  PROVE  IInv'
<1> USE DEF IInv
<1> DEFINE src == INTERACTION_TO_OPPORTUNITY_SOURCE[seen[r].source]
           card == [id |-> r, from |-> item[r], source |-> src]
           note == [by |-> r, card |-> r, item |-> item[r]]
<1>1. /\ pc[r] = "flushed" /\ pc' = [pc EXCEPT ![r] = "committed"]
      /\ cards' = cards \cup {card}
      /\ notes' = notes \cup {note}
      /\ UNCHANGED <<item, seen, answer>>
  BY DEF commit_promotion, Goto
<1>2. /\ item[r] \in Interactions /\ seen[r] \in Interaction /\ seen[r].id = item[r]
      /\ item[r] # NoInteraction
  BY <1>1, NoInteractionAssumption DEF PromotingHasRow, Promoting
<1>3. /\ src \in OPPORTUNITY_SOURCES
      /\ src = "recruiter_outreach" <=> seen[r].source = "contact_form"
  BY <1>2 DEF INTERACTION_TO_OPPORTUNITY_SOURCE, OPPORTUNITY_SOURCES, Interaction,
    INTERACTION_SOURCES
<1> HIDE DEF src
<1>4. /\ card \in Card /\ card.id = r /\ card.from = item[r] /\ card.source = src
      /\ note \in Note /\ note.by = r /\ note.card = r /\ note.item = item[r]
  BY <1>2, <1>3 DEF Card, Note
<1> HIDE DEF card, note
<1>5. /\ inbox' \subseteq Interaction
      /\ \A y \in inbox' : \E z \in inbox : z.id = y.id /\ z.source = y.source
      /\ \A z \in inbox : \E y \in inbox' : z.id = y.id /\ z.source = y.source
  <2>1. CASE seen[r].status = "new"
    <3>1. inbox' = WriteStatus(seen[r], "in_progress")
      BY <2>1 DEF commit_promotion
    <3>2. inbox \subseteq Interaction /\ "in_progress" \in INTERACTION_STATUSES
      BY DEF TypeOK, INTERACTION_STATUSES
    <3> QED
      BY <3>1, <3>2, <1>2, WriteStatusKeeps
  <2>2. CASE seen[r].status # "new"
    BY <2>2 DEF commit_promotion, TypeOK
  <2> QED
    BY <2>1, <2>2
<1>6. TypeOK'
  BY <1>1, <1>4, <1>5 DEF TypeOK, Promoting
<1>7. pc'[r] = "committed" /\ \A q \in Requests \ {r} : pc'[q] = pc[q]
  BY <1>1 DEF TypeOK
<1>8. (PromotingHasRow /\ PatchingHasRow)'
  BY <1>1, <1>7 DEF PromotingHasRow, PatchingHasRow, Promoting
<1>9. SeenIsThere'
  BY <1>1, <1>5, <1>7 DEF SeenIsThere, Promoting
<1>10. RowsHaveOneId'
  BY <1>5 DEF RowsHaveOneId
<1>11. /\ \E x \in inbox : x.id = item[r]
       /\ \A x \in inbox : x.id = item[r] => x.source = seen[r].source
  BY <1>1, <1>2 DEF SeenIsThere, Promoting
<1>12. CardHasRow'
  BY <1>1, <1>4, <1>5, <1>11 DEF CardHasRow
<1>13. OneCardPerInteraction'
  BY <1>1, <1>4 DEF OneCardPerInteraction, KeyHeldIsFree
<1>14. AnswerIsTheCard'
  BY <1>1 DEF AnswerIsTheCard
<1>15. CardKeepsItsOrigin'
  <2>1. ASSUME NEW c \in cards', c.from # NoInteraction
        PROVE  \E n \in notes' : n.by = c.id /\ n.card = c.id /\ n.item = c.from
    BY <2>1, <1>1, <1>4 DEF CardKeepsItsOrigin
  <2>2. ASSUME NEW c \in cards', c.from # NoInteraction, NEW x \in inbox', x.id = c.from
        PROVE  c.source = "recruiter_outreach" <=> x.source = "contact_form"
    <3>1. PICK z \in inbox : z.id = c.from /\ z.source = x.source
      BY <2>2, <1>5
    <3>2. CASE c \in cards
      BY <2>2, <3>1, <3>2 DEF CardKeepsItsOrigin, Row
    <3>3. CASE c = card
      BY <3>1, <3>3, <1>3, <1>4, <1>11
    <3> QED
      BY <3>2, <3>3, <1>1
  <2> QED
    BY <2>1, <2>2 DEF CardKeepsItsOrigin, Row
<1>16. KeyHeldOnce'
  BY <1>1, <1>7 DEF KeyHeldOnce
<1>17. KeyHeldIsFree'
  BY <1>1, <1>4, <1>7 DEF KeyHeldIsFree, KeyHeldOnce
<1>18. CommittedIsThere'
  BY <1>1, <1>4, <1>7 DEF CommittedIsThere
<1>19. (LostHasWinner /\ LoserFindsWinner)'
  BY <1>1, <1>7 DEF LostHasWinner, LoserFindsWinner
<1>20. Untold'
  BY <1>1, <1>7 DEF Untold
<1> QED
  BY <1>6, <1>8, <1>9, <1>10, <1>12, <1>13, <1>14, <1>15, <1>16, <1>17, <1>18, <1>19, <1>20

------------------------------------------------------------------------------
(* Every step *)

\* A promotion's own steps, one by one.
LEMMA PromoteStepIInv ==
  ASSUME IInv, NEW r \in Requests, promote_step(r)
  PROVE  IInv'
<1>1. CASE check_existing(r)
  <2>1. CASE _find_promoted(item[r]) = {} /\ Goto(r, "not_promoted") /\ UNCHANGED answer
    BY <1>1, <2>1, MoveIInv DEF check_existing, Promoting
  <2>2. CASE \E c \in _find_promoted(item[r]) :
               answer' = [answer EXCEPT ![r] = c.id] /\ Goto(r, "done")
    <3>1. PICK c \in cards :
            c.from = item[r] /\ answer' = [answer EXCEPT ![r] = c.id] /\ Goto(r, "done")
      BY <2>2 DEF _find_promoted
    <3>2. pc[r] \in Promoting /\ UNCHANGED <<inbox, cards, notes, item, seen>>
      BY <1>1 DEF check_existing, Promoting
    <3> QED
      BY <3>1, <3>2, AnswerIInv
  <2> QED
    BY <1>1, <2>1, <2>2 DEF check_existing
<1>2. CASE flush(r)
  <2>1. CASE _find_promoted(item[r]) = {}
    BY <1>2, <2>1, FlushedIInv DEF flush
  <2>2. CASE _find_promoted(item[r]) # {}
    BY <1>2, <2>2, LostIInv DEF flush
  <2> QED
    BY <2>1, <2>2
<1>3. CASE commit_promotion(r)
  BY <1>3, CommitIInv
<1>4. CASE respond(r)
  <2>1. PICK c \in cards : c.id = r /\ c.from = item[r]
    BY <1>4 DEF IInv, CommittedIsThere, respond
  <2>2. /\ pc[r] \in Promoting /\ UNCHANGED <<inbox, cards, notes, item, seen>>
        /\ answer' = [answer EXCEPT ![r] = c.id] /\ Goto(r, "done")
    BY <1>4, <2>1 DEF respond, Promoting
  <2> QED
    BY <2>1, <2>2, AnswerIInv
<1>5. CASE find_winner(r)
  <2>1. _find_promoted(item[r]) # {}
    BY <1>5 DEF IInv, LostHasWinner, find_winner, _find_promoted
  <2>2. PICK c \in cards :
          c.from = item[r] /\ answer' = [answer EXCEPT ![r] = c.id] /\ Goto(r, "done")
    BY <1>5, <2>1 DEF find_winner, _find_promoted
  <2>3. pc[r] \in Promoting /\ UNCHANGED <<inbox, cards, notes, item, seen>>
    BY <1>5 DEF find_winner, Promoting
  <2> QED
    BY <2>2, <2>3, AnswerIInv
<1> QED
  BY <1>1, <1>2, <1>3, <1>4, <1>5 DEF promote_step

LEMMA NextIInv == IInv /\ [Next]_vars => IInv'
<1> SUFFICES ASSUME IInv, [Next]_vars PROVE IInv'
  OBVIOUS
<1>1. ASSUME NEW i \in Interactions, submit_contact(i) \/ index_cv_request(i) PROVE IInv'
  <2>1. {"contact_form", "cv_request"} \subseteq INTERACTION_SOURCES
    BY DEF INTERACTION_SOURCES
  <2> QED
    BY <1>1, <2>1, NewRowIInv DEF submit_contact, index_cv_request
<1>2. ASSUME NEW r \in Requests, NEW i \in Interactions, look_up(r, i) PROVE IInv'
  <2>1. CASE Row(i) = {} /\ Goto(r, "not_found") /\ UNCHANGED seen
    BY <1>2, <2>1, AskedInVainIInv DEF look_up
  <2>2. CASE \E x \in Row(i) : seen' = [seen EXCEPT ![r] = x] /\ Goto(r, "looked_up")
    <3>1. PICK x \in inbox :
            x.id = i /\ seen' = [seen EXCEPT ![r] = x] /\ Goto(r, "looked_up")
      BY <2>2 DEF Row
    <3> QED
      BY <1>2, <3>1, LoadIInv DEF look_up
  <2> QED
    BY <1>2, <2>1, <2>2 DEF look_up
<1>3. ASSUME NEW r \in Requests, NEW i \in Interactions, update_status(r, i) PROVE IInv'
  <2>1. CASE Row(i) = {} /\ Goto(r, "not_found") /\ UNCHANGED seen
    BY <1>3, <2>1, MoveIInv DEF update_status
  <2>2. CASE \E x \in Row(i) : seen' = [seen EXCEPT ![r] = x] /\ Goto(r, "patching")
    <3>1. PICK x \in inbox : seen' = [seen EXCEPT ![r] = x] /\ Goto(r, "patching")
      BY <2>2 DEF Row
    <3> QED
      BY <1>3, <3>1, LoadIInv DEF update_status
  <2> QED
    BY <1>3, <2>1, <2>2 DEF update_status
<1>4. ASSUME NEW r \in Requests, NEW s \in INTERACTION_STATUSES, commit_status(r, s) PROVE IInv'
  BY <1>4, StatusIInv
<1>5. ASSUME NEW r \in Requests, NEW s \in OPPORTUNITY_SOURCES, create_opportunity(r, s)
      PROVE  IInv'
  BY <1>5, CreateIInv
<1>6. ASSUME NEW r \in Requests, NEW c \in cards, NEW i \in Interactions \cup {NoInteraction},
             add_note(r, c, i)
      PROVE  IInv'
  BY <1>6, NoteIInv
<1>7. ASSUME NEW r \in Requests, promote_step(r) PROVE IInv'
  BY <1>7, PromoteStepIInv
<1>8. ASSUME NEW r \in Requests, die(r) PROVE IInv'
  BY <1>8, MoveIInv DEF die, Ended
<1>9. CASE UNCHANGED vars
  BY <1>9 DEF vars, IInv, TypeOK, PromotingHasRow, PatchingHasRow, SeenIsThere, RowsHaveOneId,
    CardHasRow, KeyHeldOnce, KeyHeldIsFree, CommittedIsThere, LostHasWinner, Untold,
    OneCardPerInteraction, AnswerIsTheCard, CardKeepsItsOrigin, LoserFindsWinner, Row
<1> QED
  BY <1>1, <1>2, <1>3, <1>4, <1>5, <1>6, <1>7, <1>8, <1>9 DEF Next, Quiescent

LEMMA Inductive == Spec => []IInv
BY InitIInv, NextIInv, PTL DEF Spec

------------------------------------------------------------------------------
(* The theorems *)

\* The tables and the handlers' state stay well-typed; in particular every card
\* promote_interaction writes has a source of the board's vocabulary.
THEOREM TypeCorrect == Spec => []TypeOK
<1>1. IInv => TypeOK
  BY DEF IInv
<1> QED
  BY <1>1, Inductive, PTL

\* However promotions, retries and deaths of requests interleave, an interaction
\* has at most one card (promote_interaction).
THEOREM OneCard == Spec => []OneCardPerInteraction
<1>1. IInv => OneCardPerInteraction
  BY DEF IInv
<1> QED
  BY <1>1, Inductive, PTL

\* Winners and losers of a race are answered with the interaction's committed card
\* (promote_interaction).
THEOREM AnswersAreTheCard == Spec => []AnswerIsTheCard
<1>1. IInv => AnswerIsTheCard
  BY DEF IInv
<1> QED
  BY <1>1, Inductive, PTL

\* A promoted card is never seen without its inbox note, nor with a wrong origin
\* (promote_interaction).
THEOREM CardsKeepTheirOrigin == Spec => []CardKeepsItsOrigin
<1>1. IInv => CardKeepsItsOrigin
  BY DEF IInv
<1> QED
  BY <1>1, Inductive, PTL

\* The branch of promote_interaction that re-raises an IntegrityError is dead.
THEOREM LosersFindTheirWinner == Spec => []LoserFindsWinner
<1>1. IInv => LoserFindsWinner
  BY DEF IInv
<1> QED
  BY <1>1, Inductive, PTL

\* In every reachable state of the inbox and the board, rows, requests and the
\* cards' origins are what they should be, and no promotion raises.
THEOREM ConsistencyHolds == Spec => []Consistent
BY TypeCorrect, CardsKeepTheirOrigin, LosersFindTheirWinner, PTL DEF Consistent

------------------------------------------------------------------------------
(* Promotion implements PromoteOnce *)

\* With one card per interaction, the card a board shows for it is that card.
LEMMA TheCard ==
  ASSUME NEW board, NEW i \in Interactions, NEW c \in board, c.from = i,
         \A d \in board : d.from = i => d = c
  PROVE  CardIn(board, i) = c.id
<1>1. (CHOOSE d \in board : d.from = i) = c
  OBVIOUS
<1> QED
  BY <1>1 DEF CardIn

\* A new card of another interaction, or of none, changes no interaction's card.
LEMMA OtherCard ==
  ASSUME NEW board, NEW new, NEW i \in Interactions, new.from # i,
         \A c, d \in board : c.from = i /\ d.from = i => c = d
  PROVE  CardIn(board \cup {new}, i) = CardIn(board, i)
<1>1. CASE \E c \in board : c.from = i
  <2>1. PICK c \in board : c.from = i
    BY <1>1
  <2>2. CardIn(board, i) = c.id
    BY <2>1, TheCard
  <2>3. CardIn(board \cup {new}, i) = c.id
    BY <2>1, TheCard
  <2> QED
    BY <2>2, <2>3
<1>2. CASE ~\E c \in board : c.from = i
  BY <1>2 DEF CardIn
<1> QED
  BY <1>1, <1>2

\* A commit mints the card of the request's interaction, which had none.
LEMMA CommitMints ==
  ASSUME IInv, NEW r \in Requests, commit_promotion(r)
  PROVE  PO!Mint(r)
<1> DEFINE card == [id |-> r, from |-> item[r],
                    source |-> INTERACTION_TO_OPPORTUNITY_SOURCE[seen[r].source]]
<1>1. pc[r] = "flushed" /\ cards' = cards \cup {card} /\ UNCHANGED <<item, answer>>
  BY DEF commit_promotion
<1>2. card.id = r /\ card.from = item[r]
  OBVIOUS
<1> HIDE DEF card
<1>3. item[r] \in Interactions /\ item[r] # NoInteraction
  BY <1>1, NoInteractionAssumption DEF IInv, PromotingHasRow, Promoting
<1>4. \A c \in cards : c.from # item[r]
  BY <1>1 DEF IInv, KeyHeldIsFree
<1>5. CardIn(cards, item[r]) = NoCard
  BY <1>4 DEF CardIn
<1>6. CardIn(cards', item[r]) = r
  <2>1. card \in cards' /\ \A d \in cards' : d.from = item[r] => d = card
    BY <1>1, <1>4
  <2> QED
    BY <2>1, <1>2, <1>3, TheCard
<1>7. \A i \in Interactions : i # item[r] => CardIn(cards', i) = CardIn(cards, i)
  <2> TAKE i \in Interactions
  <2> HAVE i # item[r]
  <2>1. \A c, d \in cards : c.from = i /\ d.from = i => c = d
    BY NoInteractionAssumption DEF IInv, OneCardPerInteraction
  <2> QED
    BY <2>1, <1>1, <1>2, OtherCard
<1>8. [i \in Interactions |-> CardIn(cards', i)] =
        [[i \in Interactions |-> CardIn(cards, i)] EXCEPT ![item[r]] = r]
  BY <1>6, <1>7
<1> QED
  BY <1>1, <1>3, <1>5, <1>8 DEF PO!Mint

\* An answer is the interaction's card.
LEMMA AnswerTells ==
  ASSUME IInv, NEW r \in Requests, pc[r] \in Promoting, NEW c \in cards, c.from = item[r],
         answer' = [answer EXCEPT ![r] = c.id],
         UNCHANGED <<cards, item>>
  PROVE  PO!Tell(r)
<1>1. item[r] \in Interactions /\ item[r] # NoInteraction
  BY NoInteractionAssumption DEF IInv, PromotingHasRow
<1>2. \A d \in cards : d.from = item[r] => d = c
  BY <1>1 DEF IInv, OneCardPerInteraction
<1>3. CardIn(cards, item[r]) = c.id
  BY <1>1, <1>2, TheCard
<1>4. c.id # NoCard
  BY NoCardAssumption DEF IInv, TypeOK, Card
<1>5. answer[r] = NoCard
  BY DEF IInv, Untold, Promoting
<1> QED
  BY <1>1, <1>3, <1>4, <1>5 DEF PO!Tell

\* The other tables and the other steps of a handler are invisible.
LEMMA Stutter ==
  ASSUME UNCHANGED <<cards, item, answer>>
  PROVE  UNCHANGED PO!vars
BY DEF PO!vars

\* A step of the inbox, of the board or of a promotion is a step of PromoteOnce or
\* leaves its state alone.
LEMMA StepImplements == IInv /\ [Next]_vars => [PO!Next]_(PO!vars)
<1> SUFFICES ASSUME IInv, [Next]_vars PROVE [PO!Next]_(PO!vars)
  OBVIOUS
<1>1. ASSUME NEW i \in Interactions, submit_contact(i) \/ index_cv_request(i)
      PROVE  UNCHANGED PO!vars
  BY <1>1, Stutter DEF submit_contact, index_cv_request
<1>2. ASSUME NEW r \in Requests, NEW i \in Interactions, look_up(r, i)
      PROVE  PO!Next
  <2>1. item[r] = NoInteraction /\ item' = [item EXCEPT ![r] = i] /\ UNCHANGED <<cards, answer>>
    BY <1>2 DEF look_up, IInv, Untold
  <2> QED
    BY <2>1 DEF PO!Next, PO!Ask
<1>3. ASSUME NEW r \in Requests, NEW i \in Interactions, update_status(r, i)
      PROVE  UNCHANGED PO!vars
  BY <1>3, Stutter DEF update_status
<1>4. ASSUME NEW r \in Requests, NEW s \in INTERACTION_STATUSES, commit_status(r, s)
      PROVE  UNCHANGED PO!vars
  BY <1>4, Stutter DEF commit_status
<1>5. ASSUME NEW r \in Requests, NEW s \in OPPORTUNITY_SOURCES, create_opportunity(r, s)
      PROVE  UNCHANGED PO!vars
  <2> DEFINE card == [id |-> r, from |-> NoInteraction, source |-> s]
  <2>1. cards' = cards \cup {card} /\ UNCHANGED <<item, answer>>
    BY <1>5 DEF create_opportunity
  <2>2. card.from = NoInteraction
    OBVIOUS
  <2> HIDE DEF card
  <2>3. \A i \in Interactions : CardIn(cards', i) = CardIn(cards, i)
    <3> TAKE i \in Interactions
    <3>1. card.from # i /\ \A c, d \in cards : c.from = i /\ d.from = i => c = d
      BY <2>2, NoInteractionAssumption DEF IInv, OneCardPerInteraction
    <3> QED
      BY <3>1, <2>1, OtherCard
  <2> QED
    BY <2>1, <2>3 DEF PO!vars
<1>6. ASSUME NEW r \in Requests, NEW c \in cards, NEW i \in Interactions \cup {NoInteraction},
             add_note(r, c, i)
      PROVE  UNCHANGED PO!vars
  BY <1>6, Stutter DEF add_note
<1>7. ASSUME NEW r \in Requests, promote_step(r)
      PROVE  [PO!Next]_(PO!vars)
  <2>1. CASE check_existing(r)
    <3>1. CASE UNCHANGED answer
      BY <2>1, <3>1, Stutter DEF check_existing
    <3>2. CASE \E c \in _find_promoted(item[r]) : answer' = [answer EXCEPT ![r] = c.id]
      <4>1. PICK c \in cards : c.from = item[r] /\ answer' = [answer EXCEPT ![r] = c.id]
        BY <3>2 DEF _find_promoted
      <4> QED
        BY <2>1, <4>1, AnswerTells DEF check_existing, Promoting, PO!Next
    <3> QED
      BY <2>1, <3>1, <3>2 DEF check_existing
  <2>2. CASE flush(r)
    BY <2>2, Stutter DEF flush, FlushTo
  <2>3. CASE commit_promotion(r)
    BY <2>3, CommitMints DEF PO!Next
  <2>4. CASE respond(r)
    <3>1. PICK c \in cards : c.id = r /\ c.from = item[r]
      BY <2>4 DEF IInv, CommittedIsThere, respond
    <3> QED
      BY <2>4, <3>1, AnswerTells DEF respond, Promoting, PO!Next
  <2>5. CASE find_winner(r)
    <3>1. CASE UNCHANGED answer
      BY <2>5, <3>1, Stutter DEF find_winner
    <3>2. CASE \E c \in _find_promoted(item[r]) : answer' = [answer EXCEPT ![r] = c.id]
      <4>1. PICK c \in cards : c.from = item[r] /\ answer' = [answer EXCEPT ![r] = c.id]
        BY <3>2 DEF _find_promoted
      <4> QED
        BY <2>5, <4>1, AnswerTells DEF find_winner, Promoting, PO!Next
    <3> QED
      BY <2>5, <3>1, <3>2 DEF find_winner
  <2> QED
    BY <1>7, <2>1, <2>2, <2>3, <2>4, <2>5 DEF promote_step
<1>8. ASSUME NEW r \in Requests, die(r)
      PROVE  UNCHANGED PO!vars
  BY <1>8, Stutter DEF die
<1>9. CASE UNCHANGED vars
  BY <1>9, Stutter DEF vars
<1> QED
  BY <1>1, <1>2, <1>3, <1>4, <1>5, <1>6, <1>7, <1>8, <1>9 DEF Next, Quiescent

\* promote_interaction keeps the promise of PromoteOnce: an interaction's card is
\* minted once, never changes, and is the answer to every promotion of it.
THEOREM Implements == Spec => ImplementsPromoteOnce
<1>1. Init => PO!Init
  BY DEF Init, PO!Init, CardIn
<1> QED
  BY <1>1, StepImplements, Inductive, PTL DEF Spec, ImplementsPromoteOnce, PO!Spec

-----------------------------------------------------------------------------
(* BlogFeed.  What is kept of a list that descends is again a list that    *)
(* descends, and such a list is known by its members; so pages that were   *)
(* cut out of two states of the blog can be compared by what they contain. *)

Descends(list) == \A i, j \in DOMAIN list : i < j => list[i] > list[j]

SmallerThan == {ss \in Nat \X Nat : ss[1] < ss[2]}

LEMMA LeastOf ==
  ASSUME NEW T \in SUBSET Nat, T # {}
  PROVE  \E m \in T : \A k \in T : ~(k < m)
<1>1. IsWellFoundedOn(SmallerThan, Nat)
  BY NatLessThanWellFounded DEF OpToRel, SmallerThan
<1>2. \E x \in T : \A y \in T : ~(<<y, x>> \in SmallerThan)
  BY <1>1, WFMin
<1> QED
  BY <1>2 DEF SmallerThan

\* What is kept of each beginning up to n.
KeepsUpTo(keeps, list, wanted, n) ==
  keeps = [i \in 0..n |->
    IF i = 0 THEN <<>>
    ELSE IF list[i] \in wanted THEN Append(keeps[i - 1], list[i]) ELSE keeps[i - 1]]

LEMMA KeepsExist ==
  ASSUME NEW list, NEW wanted, NEW n \in Nat
  PROVE  \E keeps : KeepsUpTo(keeps, list, wanted, n)
<1> DEFINE T == {m \in Nat : ~ \E keeps : KeepsUpTo(keeps, list, wanted, m)}
<1> SUFFICES ASSUME T # {} PROVE FALSE
  OBVIOUS
<1>1. PICK m \in T : \A k \in T : ~(k < m)
  BY LeastOf
<1>2. CASE m = 0
  <2>1. KeepsUpTo([i \in 0..0 |-> <<>>], list, wanted, 0)
    BY DEF KeepsUpTo
  <2> QED
    BY <1>2, <2>1
<1>3. CASE m # 0
  <2>1. m - 1 \in Nat /\ m - 1 \notin T
    BY <1>1, <1>3
  <2>2. PICK g : KeepsUpTo(g, list, wanted, m - 1)
    BY <2>1
  <2>3. PICK h : h = [i \in 0..m |-> IF i < m THEN g[i] ELSE
                        IF list[i] \in wanted THEN Append(g[i - 1], list[i]) ELSE g[i - 1]]
    OBVIOUS
  <2>4. ASSUME NEW i \in 0..m
        PROVE  h[i] = IF i = 0 THEN <<>>
                      ELSE IF list[i] \in wanted THEN Append(h[i - 1], list[i]) ELSE h[i - 1]
    <3>1. i # 0 => i - 1 \in 0..m - 1 /\ h[i - 1] = g[i - 1]
      BY <2>1, <2>3
    <3>2. CASE i = m
      BY <1>3, <2>3, <3>1, <3>2
    <3>3. CASE i # m
      <4>1. i \in 0..m - 1 /\ h[i] = g[i]
        BY <2>3, <3>3
      <4> QED
        BY <2>2, <3>1, <4>1 DEF KeepsUpTo
    <3> QED
      BY <3>2, <3>3
  <2>5. KeepsUpTo(h, list, wanted, m)
    BY <2>3, <2>4 DEF KeepsUpTo
  <2> QED
    BY <2>5
<1> QED
  BY <1>2, <1>3

LEMMA AppendLast ==
  ASSUME NEW S, NEW list \in Seq(S), NEW p \in S
  PROVE  /\ Append(list, p) \in Seq(S) /\ ToSet(Append(list, p)) = ToSet(list) \cup {p}
         /\ DOMAIN Append(list, p) = 1..Len(list) + 1 /\ Append(list, p)[Len(list) + 1] = p
         /\ \A i \in 1..Len(list) : Append(list, p)[i] = list[i]
<1>1. /\ Append(list, p) \in Seq(S) /\ DOMAIN list = 1..Len(list) /\ Len(list) \in Nat
      /\ DOMAIN Append(list, p) = 1..Len(list) + 1
      /\ Append(list, p)[Len(list) + 1] = p
      /\ \A i \in 1..Len(list) : Append(list, p)[i] = list[i]
  OBVIOUS
<1>2. 1..Len(list) + 1 = 1..Len(list) \cup {Len(list) + 1}
  BY <1>1
<1> QED
  BY <1>1, <1>2 DEF ToSet

LEMMA AppendDescends ==
  ASSUME NEW S \in SUBSET Nat, NEW list \in Seq(S), NEW p \in S,
         Descends(list), \A q \in ToSet(list) : q > p
  PROVE  Descends(Append(list, p))
<1>1. PICK longer : longer = Append(list, p)
  OBVIOUS
<1>2. /\ DOMAIN longer = 1..Len(list) + 1 /\ longer[Len(list) + 1] = p
      /\ \A i \in 1..Len(list) : longer[i] = list[i]
  BY <1>1, AppendLast
<1>3. Len(list) \in Nat /\ DOMAIN list = 1..Len(list)
  OBVIOUS
<1> SUFFICES ASSUME NEW i \in 1..Len(list) + 1, NEW j \in 1..Len(list) + 1, i < j
             PROVE  longer[i] > longer[j]
  BY <1>1, <1>2 DEF Descends
<1>4. i \in 1..Len(list) /\ longer[i] = list[i] /\ list[i] \in ToSet(list)
  BY <1>2, <1>3 DEF ToSet
<1>5. CASE j = Len(list) + 1
  BY <1>2, <1>4, <1>5
<1>6. CASE j # Len(list) + 1
  <2>1. j \in 1..Len(list) /\ longer[j] = list[j]
    BY <1>2, <1>3, <1>6
  <2> QED
    BY <1>3, <1>4, <2>1 DEF Descends
<1> QED
  BY <1>5, <1>6

\* What is kept of a list that descends.
KeptOf(list, wanted, S, k) ==
  k \in Seq(S) /\ Descends(k) /\ ToSet(k) = ToSet(list) \cap wanted

LEMMA KeptDescends ==
  ASSUME NEW S \in SUBSET Nat, NEW list \in Seq(S), Descends(list), NEW wanted
  PROVE  KeptOf(list, wanted, S, kept(list, wanted))
<1>1. Len(list) \in Nat /\ DOMAIN list = 1..Len(list)
  OBVIOUS
<1>2. PICK keeps : keeps = CHOOSE k : KeepsUpTo(k, list, wanted, Len(list))
  OBVIOUS
<1>3. KeepsUpTo(keeps, list, wanted, Len(list))
  BY <1>1, <1>2, KeepsExist
<1>4. kept(list, wanted) = keeps[Len(list)]
  BY <1>2 DEF kept, KeepsUpTo
<1> DEFINE Before(i) == {list[j] : j \in 1..i} \cap wanted
           Good(i) == keeps[i] \in Seq(S) /\ Descends(keeps[i]) /\ ToSet(keeps[i]) = Before(i)
           T == {m \in 0..Len(list) : ~Good(m)}
<1>5. T = {}
  <2> SUFFICES ASSUME T # {} PROVE FALSE
    OBVIOUS
  <2>1. T \in SUBSET Nat
    OBVIOUS
  <2>2. PICK m \in T : \A j \in T : ~(j < m)
    BY <2>1, LeastOf
  <2>3. CASE m = 0
    <3>1. keeps[0] = <<>>
      BY <1>1, <1>3 DEF KeepsUpTo
    <3>2. Good(0)
      BY <3>1 DEF ToSet, Descends
    <3> QED
      BY <2>2, <2>3, <3>2
  <2>4. CASE m # 0
    <3>1. m - 1 \in 0..Len(list) /\ Good(m - 1) /\ m \in DOMAIN list
      <4>1. m - 1 \in 0..Len(list) /\ m - 1 < m /\ m \in DOMAIN list
        BY <1>1, <2>2, <2>4
      <4>2. m - 1 \notin T
        BY <2>2, <4>1
      <4> QED
        BY <4>1, <4>2
    <3>2. keeps[m] = IF list[m] \in wanted THEN Append(keeps[m - 1], list[m]) ELSE keeps[m - 1]
      BY <1>3, <2>2, <2>4 DEF KeepsUpTo
    <3>3. list[m] \in S /\ 1..m = 1..(m - 1) \cup {m}
      BY <3>1
    <3>4. CASE list[m] \notin wanted
      <4>1. keeps[m] = keeps[m - 1] /\ Before(m) = Before(m - 1)
        BY <3>2, <3>3, <3>4
      <4> QED
        BY <2>2, <3>1, <4>1
    <3>5. CASE list[m] \in wanted
      <4>1. keeps[m] = Append(keeps[m - 1], list[m]) /\ keeps[m - 1] \in Seq(S)
        BY <3>1, <3>2, <3>5
      <4>2. Before(m) = Before(m - 1) \cup {list[m]}
        BY <3>3, <3>5
      <4>3. \A q \in ToSet(keeps[m - 1]) : q > list[m]
        <5> SUFFICES ASSUME NEW q \in Before(m - 1) PROVE q > list[m]
          BY <3>1
        <5>1. PICK j \in 1..(m - 1) : q = list[j]
          OBVIOUS
        <5>2. j \in DOMAIN list /\ j < m
          BY <1>1, <3>1, <5>1
        <5> QED
          BY <3>1, <5>1, <5>2 DEF Descends
      <4>4. keeps[m] \in Seq(S) /\ ToSet(keeps[m]) = ToSet(keeps[m - 1]) \cup {list[m]}
        BY <3>3, <4>1, AppendLast
      <4>5. Descends(keeps[m - 1])
        BY <3>1
      <4>6. Descends(keeps[m])
        <5>1. Descends(Append(keeps[m - 1], list[m]))
          BY <3>3, <4>1, <4>3, <4>5, AppendDescends
        <5> QED
          BY <4>1, <5>1
      <4>7. ToSet(keeps[m]) = Before(m)
        BY <3>1, <4>2, <4>4
      <4> QED
        BY <2>2, <4>4, <4>6, <4>7
    <3> QED
      BY <3>4, <3>5
  <2> QED
    BY <2>3, <2>4
<1>6. Len(list) \in 0..Len(list)
  BY <1>1
<1>7. Good(Len(list))
  BY <1>5, <1>6
<1>8. ToSet(list) = {list[j] : j \in 1..Len(list)}
  BY <1>1 DEF ToSet
<1> QED
  BY <1>4, <1>7, <1>8 DEF KeptOf

LEMMA SeqOfNumbers ==
  ASSUME NEW S \in SUBSET Nat, NEW list \in Seq(S)
  PROVE  /\ Len(list) \in Nat /\ DOMAIN list = 1..Len(list)
         /\ \A i \in 1..Len(list) : list[i] \in S /\ list[i] \in Nat
<1>1. \A i \in 1..Len(list) : list[i] \in S
  OBVIOUS
<1>2. Len(list) \in Nat /\ DOMAIN list = 1..Len(list)
  OBVIOUS
<1> QED
  BY <1>1, <1>2

\* A list that descends is known by its members.
LEMMA SameMembers ==
  ASSUME NEW S \in SUBSET Nat, NEW a \in Seq(S), NEW b \in Seq(S),
         Descends(a), Descends(b), ToSet(a) = ToSet(b)
  PROVE  a = b
<1>1. /\ Len(a) \in Nat /\ DOMAIN a = 1..Len(a) /\ \A i \in 1..Len(a) : a[i] \in Nat
      /\ Len(b) \in Nat /\ DOMAIN b = 1..Len(b) /\ \A i \in 1..Len(b) : b[i] \in Nat
  BY SeqOfNumbers
<1>2. /\ \A i \in 1..Len(a) : \E j \in 1..Len(b) : a[i] = b[j]
      /\ \A j \in 1..Len(b) : \E i \in 1..Len(a) : b[j] = a[i]
  <2>1. ToSet(a) = {a[i] : i \in 1..Len(a)} /\ ToSet(b) = {b[j] : j \in 1..Len(b)}
    BY <1>1 DEF ToSet
  <2> QED
    BY <2>1
<1>3. /\ \A i, j \in 1..Len(a) : i < j => a[i] > a[j]
      /\ \A i, j \in 1..Len(b) : i < j => b[i] > b[j]
  BY <1>1 DEF Descends
<1> DEFINE T == {m \in Nat : /\ m \in 1..Len(a) \/ m \in 1..Len(b)
                            /\ ~(m \in 1..Len(a) /\ m \in 1..Len(b) /\ a[m] = b[m])}
<1>4. T = {}
  <2> SUFFICES ASSUME T # {} PROVE FALSE
    OBVIOUS
  <2>1. PICK m \in T : \A j \in T : ~(j < m)
    BY LeastOf
  <2>2. m \in Nat \ {0} /\ \A j \in 1..(m - 1) : j \in 1..Len(a) /\ j \in 1..Len(b) /\ a[j] = b[j]
    <3>1. m \in Nat \ {0}
      BY <1>1
    <3>2. ASSUME NEW j \in 1..(m - 1) PROVE j \in 1..Len(a) /\ j \in 1..Len(b) /\ a[j] = b[j]
      <4>1. j \in Nat /\ j < m /\ j \notin T /\ (j \in 1..Len(a) \/ j \in 1..Len(b))
        BY <1>1, <2>1, <3>1
      <4> QED
        BY <4>1
    <3> QED
      BY <3>1, <3>2
  <2>3. ASSUME m \in 1..Len(a) PROVE m \in 1..Len(b) /\ b[m] >= a[m]
    <3>1. PICK j \in 1..Len(b) : a[m] = b[j]
      BY <1>2, <2>3
    <3>2. ~(j < m)
      <4> SUFFICES ASSUME j < m PROVE FALSE
        OBVIOUS
      <4>1. j \in 1..Len(a) /\ a[j] = b[j]
        BY <2>2
      <4>2. a[j] > a[m]
        BY <1>3, <2>3, <4>1
      <4> QED
        BY <1>1, <2>3, <3>1, <4>1, <4>2
    <3>3. m \in 1..Len(b)
      BY <1>1, <2>2, <3>2
    <3>4. CASE m = j
      BY <1>1, <3>1, <3>3, <3>4
    <3>5. CASE m < j
      <4>1. b[m] > b[j]
        BY <1>3, <3>3, <3>5
      <4> QED
        BY <1>1, <3>1, <3>3, <4>1
    <3> QED
      BY <1>1, <2>2, <3>2, <3>3, <3>4, <3>5
  <2>4. ASSUME m \in 1..Len(b) PROVE m \in 1..Len(a) /\ a[m] >= b[m]
    <3>1. PICK j \in 1..Len(a) : b[m] = a[j]
      BY <1>2, <2>4
    <3>2. ~(j < m)
      <4> SUFFICES ASSUME j < m PROVE FALSE
        OBVIOUS
      <4>1. j \in 1..Len(b) /\ a[j] = b[j]
        BY <2>2
      <4>2. b[j] > b[m]
        BY <1>3, <2>4, <4>1
      <4> QED
        BY <1>1, <2>4, <3>1, <4>1, <4>2
    <3>3. m \in 1..Len(a)
      BY <1>1, <2>2, <3>2
    <3>4. CASE m = j
      BY <1>1, <3>1, <3>3, <3>4
    <3>5. CASE m < j
      <4>1. a[m] > a[j]
        BY <1>3, <3>3, <3>5
      <4> QED
        BY <1>1, <3>1, <3>3, <4>1
    <3> QED
      BY <1>1, <2>2, <3>2, <3>3, <3>4, <3>5
  <2>5. m \in 1..Len(a) /\ m \in 1..Len(b)
    BY <2>1, <2>3, <2>4
  <2>6. a[m] = b[m]
    BY <1>1, <2>3, <2>4, <2>5
  <2> QED
    BY <2>1, <2>5, <2>6
<1>5. 1..Len(a) \subseteq 1..Len(b) /\ 1..Len(b) \subseteq 1..Len(a)
  BY <1>4
<1>6. Len(a) = Len(b)
  <2>1. Len(a) # 0 => Len(a) \in 1..Len(b)
    BY <1>1, <1>5
  <2>2. Len(b) # 0 => Len(b) \in 1..Len(a)
    BY <1>1, <1>5
  <2> QED
    <3>1. Len(a) <= Len(b)
      BY <1>1, <2>1
    <3>2. Len(b) <= Len(a)
      BY <1>1, <2>2
    <3>3. Len(a) \in Nat /\ Len(b) \in Nat
      OBVIOUS
    <3> QED
      BY <3>1, <3>2, <3>3
<1>7. \A i \in 1..Len(a) : a[i] = b[i]
  BY <1>1, <1>4
<1> QED
  BY <1>6, <1>7, SeqEqual

\* If what precedes a member of one list is found before a place of the other,
\* the member's place is not after it.
LEMMA NotAfter ==
  ASSUME NEW S \in SUBSET Nat, NEW a \in Seq(S), NEW b \in Seq(S), Descends(a),
         NEW j \in 1..Len(a), NEW i \in 1..Len(b),
         \A h \in 1..(j - 1) : \E g \in 1..(i - 1) : b[g] = a[h]
  PROVE  j <= i
<1>1. /\ Len(a) \in Nat /\ DOMAIN a = 1..Len(a) /\ \A h \in 1..Len(a) : a[h] \in Nat
      /\ Len(b) \in Nat
  BY SeqOfNumbers
<1> SUFFICES ASSUME i < j PROVE FALSE
  BY <1>1
<1>2. PICK f : f = [h \in 1..(j - 1) |-> CHOOSE g \in 1..(i - 1) : b[g] = a[h]]
  OBVIOUS
<1>3. \A h \in 1..(j - 1) : f[h] \in 1..(i - 1) /\ b[f[h]] = a[h]
  BY <1>2
<1>4. f \in [1..(j - 1) -> 1..(i - 1)]
  BY <1>2, <1>3
<1>5. /\ IsFiniteSet(1..(j - 1)) /\ Cardinality(1..(j - 1)) = j - 1
      /\ IsFiniteSet(1..(i - 1)) /\ Cardinality(1..(i - 1)) = i - 1
  <2>1. j - 1 \in Int /\ i - 1 \in Int /\ 1 \in Int /\ 1 <= j /\ 1 <= i
    BY <1>1
  <2>2. IsFiniteSet(1..(j - 1)) /\ Cardinality(1..(j - 1)) = IF 1 > j - 1 THEN 0 ELSE j - 1 - 1 + 1
    BY <2>1, FS_Interval
  <2>3. IsFiniteSet(1..(i - 1)) /\ Cardinality(1..(i - 1)) = IF 1 > i - 1 THEN 0 ELSE i - 1 - 1 + 1
    BY <2>1, FS_Interval
  <2> QED
    BY <2>1, <2>2, <2>3
<1>6. Cardinality(1..(i - 1)) < Cardinality(1..(j - 1))
  BY <1>1, <1>5
<1>7. PICK x \in 1..(j - 1), y \in 1..(j - 1) : x # y /\ f[x] = f[y]
  <2>1. PICK X, Y : X = 1..(j - 1) /\ Y = 1..(i - 1)
    OBVIOUS
  <2>2. /\ IsFiniteSet(X) /\ IsFiniteSet(Y) /\ Cardinality(Y) < Cardinality(X)
        /\ f \in [X -> Y]
    BY <1>4, <1>5, <1>6, <2>1
  <2>3. \E x, y \in X : x # y /\ f[x] = f[y]
    BY <2>2, FS_PigeonHole
  <2> QED
    BY <2>1, <2>3
<1>8. a[x] = a[y] /\ x \in 1..Len(a) /\ y \in 1..Len(a)
  <2>1. b[f[x]] = a[x] /\ b[f[y]] = a[y]
    BY <1>3, <1>7
  <2>2. x \in 1..Len(a) /\ y \in 1..Len(a)
    BY <1>1, <1>7
  <2> QED
    BY <1>7, <2>1, <2>2
<1>9. a[x] > a[y] \/ a[y] > a[x]
  <2>1. x \in Nat /\ y \in Nat /\ (x < y \/ y < x)
    BY <1>1, <1>7, <1>8
  <2> QED
    BY <1>1, <1>8, <2>1 DEF Descends
<1> QED
  BY <1>1, <1>8, <1>9

\* The posts of whole pages among n.
aligned(n) == (n \div loadMoreSize) * loadMoreSize

LEMMA Division ==
  ASSUME NEW n \in Nat, NEW d \in Nat \ {0}
  PROVE  n \div d \in Nat /\ n % d \in 0..d - 1 /\ n = (n \div d) * d + (n % d)
OBVIOUS

LEMMA Multiple ==
  ASSUME NEW k \in Nat, NEW d \in Nat \ {0}
  PROVE  k * d \in Nat /\ (k * d) \div d = k
<1>1. k * d \in Nat
  OBVIOUS
<1>2. PICK q \in Nat : q = (k * d) \div d
  BY <1>1, Division
<1>3. PICK r \in 0..d - 1 : r = (k * d) % d
  BY <1>1, Division
<1>4. k * d = q * d + r
  BY <1>1, <1>2, <1>3, Division
<1>5. (k - q) * d = r
  BY <1>4
<1>6. ~(k < q)
  <2> SUFFICES ASSUME k < q PROVE FALSE
    OBVIOUS
  <2>1. (q - k) * d >= d /\ (k - q) * d = 0 - (q - k) * d
    OBVIOUS
  <2> QED
    BY <1>5, <2>1
<1>7. ~(q < k)
  <2> SUFFICES ASSUME q < k PROVE FALSE
    OBVIOUS
  <2>1. (k - q) * d >= d
    OBVIOUS
  <2> QED
    BY <1>5, <2>1
<1> QED
  BY <1>1, <1>2, <1>6, <1>7

LEMMA MoreDivides ==
  ASSUME NEW m \in Nat, NEW n \in Nat, NEW d \in Nat \ {0}, m <= n
  PROVE  m \div d <= n \div d
<1>1. PICK p \in Nat : p = m \div d
  BY Division
<1>2. PICK q \in Nat : q = n \div d
  BY Division
<1>3. PICK r \in 0..d - 1 : r = m % d
  BY Division
<1>4. PICK s \in 0..d - 1 : s = n % d
  BY Division
<1>5. m = p * d + r
  BY <1>1, <1>3, Division
<1>6. n = q * d + s
  BY <1>2, <1>4, Division
<1> SUFFICES ASSUME q < p PROVE FALSE
  BY <1>1, <1>2
<1>7. p * d >= (q + 1) * d /\ (q + 1) * d = q * d + d
  OBVIOUS
<1> QED
  BY <1>5, <1>6, <1>7

LEMMA Sizes ==
  /\ pageSize \in Nat \ {0} /\ loadMoreSize \in Nat \ {0} /\ StaticTotal \in Nat
  /\ \A size \in {pageSize, loadMoreSize} :
       size \in Nat \ {0} /\ \E k \in Nat : size = k * loadMoreSize
<1>1. pageSize \in Nat \ {0} /\ loadMoreSize \in Nat \ {0} /\ StaticTotal \in Nat
  BY SizesAssumption
<1>2. pageSize % loadMoreSize = 0
  BY SizesAssumption
<1>3. pageSize \div loadMoreSize \in Nat /\ pageSize = (pageSize \div loadMoreSize) * loadMoreSize
  <2>1. PICK q \in Nat : q = pageSize \div loadMoreSize
    BY <1>1, Division
  <2>2. pageSize = q * loadMoreSize + (pageSize % loadMoreSize)
    BY <1>1, <2>1, Division
  <2>3. pageSize = q * loadMoreSize
    BY <1>1, <1>2, <2>2
  <2> QED
    BY <2>1, <2>3
<1>4. loadMoreSize = 1 * loadMoreSize
  BY <1>1
<1> QED
  BY <1>1, <1>3, <1>4

LEMMA Aligned ==
  ASSUME NEW n \in Nat
  PROVE  aligned(n) \in Nat /\ aligned(n) <= n /\ n \div loadMoreSize \in Nat
<1>1. PICK q \in Nat : q = n \div loadMoreSize
  BY Sizes, Division
<1>2. PICK r \in 0..loadMoreSize - 1 : r = n % loadMoreSize
  BY Sizes, Division
<1>3. n = q * loadMoreSize + r
  BY <1>1, <1>2, Sizes, Division
<1>4. q * loadMoreSize \in Nat
  BY Sizes
<1> QED
  BY <1>1, <1>3, <1>4, Sizes DEF aligned

LEMMA AlignedGrows ==
  ASSUME NEW m \in Nat, NEW n \in Nat, m <= n
  PROVE  aligned(m) <= aligned(n)
<1>1. PICK p \in Nat : p = m \div loadMoreSize
  BY Sizes, Division
<1>2. PICK q \in Nat : q = n \div loadMoreSize
  BY Sizes, Division
<1>3. p <= q
  BY <1>1, <1>2, Sizes, MoreDivides
<1>4. p * loadMoreSize <= q * loadMoreSize
  BY <1>3, Sizes
<1> QED
  BY <1>1, <1>2, <1>4 DEF aligned

\* Another page after whole pages gives whole pages.
LEMMA AlignedAfterPage ==
  ASSUME NEW n \in Nat, aligned(n) = n, NEW size \in {pageSize, loadMoreSize}
  PROVE  aligned(n + size) = n + size
<1>1. PICK q \in Nat : n = q * loadMoreSize
  BY Aligned DEF aligned
<1>2. PICK k \in Nat : size = k * loadMoreSize
  BY Sizes
<1>3. n + size = (q + k) * loadMoreSize
  BY <1>1, <1>2, Sizes
<1>4. ((q + k) * loadMoreSize) \div loadMoreSize = q + k
  BY Sizes, Multiple
<1> QED
  BY <1>3, <1>4 DEF aligned

LEMMA AlignedZero == aligned(0) = 0
<1>1. (0 * loadMoreSize) \div loadMoreSize = 0 /\ 0 * loadMoreSize = 0
  BY Sizes, Multiple
<1> QED
  BY <1>1 DEF aligned

\* The first place of a page, less one.
offset(page, size) == (page - 1) * size
start(c) == offset(c.page, c.size)

LEMMA RequestStart ==
  ASSUME NEW page \in Nat \ {0}, NEW shown, Len(shown) \in Nat, NEW tag,
         page = 1 => Len(shown) = 0
  PROVE  /\ apiPage(page, shown) \in Nat \ {0}
         /\ start(request(page, shown, tag)) = aligned(Len(shown))
<1>1. Len(shown) \div loadMoreSize \in Nat
  BY Aligned
<1>2. start(request(page, shown, tag)) = (apiPage(page, shown) - 1) * effectivePageSize(page)
  BY DEF start, offset, request
<1>3. CASE page = 1
  <2>1. apiPage(page, shown) = 1 /\ effectivePageSize(page) = pageSize
    BY <1>3 DEF apiPage, effectivePageSize
  <2>2. (1 - 1) * pageSize = 0
    BY Sizes
  <2> QED
    BY <1>2, <1>3, <2>1, <2>2, AlignedZero
<1>4. CASE page # 1
  <2>1. PICK q \in Nat : q = Len(shown) \div loadMoreSize
    BY <1>1
  <2>2. apiPage(page, shown) = q + 1 /\ effectivePageSize(page) = loadMoreSize
    BY <1>4, <2>1 DEF apiPage, effectivePageSize
  <2>3. (q + 1) - 1 = q
    OBVIOUS
  <2> QED
    BY <1>2, <2>1, <2>2, <2>3 DEF aligned
<1> QED
  BY <1>3, <1>4

-----------------------------------------------------------------------------
(* Pages.                                                                  *)

upTo(list, n) == IF n < Len(list) THEN n ELSE Len(list)

LEMMA UpTo ==
  ASSUME NEW list, Len(list) \in Nat, NEW n \in Nat
  PROVE  /\ upTo(list, n) \in 0..Len(list) /\ upTo(list, n) <= n
         /\ \A j \in 1..Len(list) : j <= n => j <= upTo(list, n)
         /\ n <= Len(list) => upTo(list, n) = n
         /\ Len(list) <= n => upTo(list, n) = Len(list)
BY DEF upTo

LEMMA OffsetIsNat ==
  ASSUME NEW page \in Nat \ {0}, NEW size \in Nat \ {0}
  PROVE  offset(page, size) \in Nat
<1>1. page - 1 \in Nat /\ \A k \in Nat : k * size \in Nat
  OBVIOUS
<1> QED
  BY <1>1 DEF offset

LEMMA PageIsPart ==
  ASSUME NEW S, NEW list \in Seq(S), NEW page \in Nat \ {0}, NEW size \in Nat \ {0},
         NEW from \in Nat, from = offset(page, size)
  PROVE  /\ Page(list, page, size) = SubSeq(list, from + 1, upTo(list, from + size))
         /\ upTo(list, from + size) \in 0..Len(list)
<1>1. page * size = from + size
  <2>1. page * size = (page - 1) * size + size
    OBVIOUS
  <2> QED
    BY <2>1 DEF offset
<1>2. Len(list) \in Nat
  OBVIOUS
<1>3. Page(list, page, size) = SubSeq(list, from + 1, upTo(list, page * size))
  BY DEF Page, upTo, offset
<1>4. from + size \in Nat
  OBVIOUS
<1> QED
  BY <1>1, <1>2, <1>3, <1>4, UpTo

LEMMA PartOf ==
  ASSUME NEW S, NEW list \in Seq(S), NEW from \in Nat, NEW to \in 0..Len(list)
  PROVE  /\ SubSeq(list, from + 1, to) \in Seq(S)
         /\ Len(SubSeq(list, from + 1, to)) = IF from < to THEN to - from ELSE 0
         /\ DOMAIN SubSeq(list, from + 1, to) = 1..(IF from < to THEN to - from ELSE 0)
         /\ \A i \in 1..(IF from < to THEN to - from ELSE 0) :
              SubSeq(list, from + 1, to)[i] = list[from + i]
<1>1. Len(list) \in Nat /\ \A i \in 1..Len(list) : list[i] \in S
  OBVIOUS
<1>2. from + 1 \in Int /\ to \in Int /\ \A i \in (from + 1)..to : list[i] \in S
  BY <1>1
<1>3. PICK part : part = SubSeq(list, from + 1, to)
  OBVIOUS
<1>4. /\ part \in Seq(S)
      /\ Len(part) = IF from + 1 <= to THEN to - (from + 1) + 1 ELSE 0
      /\ \A i \in 1..(to - (from + 1) + 1) : part[i] = list[from + 1 + i - 1]
  BY <1>2, <1>3, SubSeqProperties
<1>5. Len(part) = IF from < to THEN to - from ELSE 0
  BY <1>1, <1>4
<1>6. DOMAIN part = 1..Len(part)
  BY <1>4
<1>7. ASSUME NEW i \in 1..(IF from < to THEN to - from ELSE 0)
      PROVE  part[i] = list[from + i]
  <2>1. i \in 1..(to - (from + 1) + 1) /\ from + 1 + i - 1 = from + i
    BY <1>1
  <2> QED
    BY <1>4, <2>1
<1> QED
  BY <1>3, <1>4, <1>5, <1>6, <1>7

LEMMA BeginningOfList ==
  ASSUME NEW S, NEW list \in Seq(S), NEW n \in 0..Len(list)
  PROVE  /\ SubSeq(list, 1, n) \in Seq(S) /\ Len(SubSeq(list, 1, n)) = n
         /\ \A i \in 1..n : SubSeq(list, 1, n)[i] = list[i]
<1>1. Len(list) \in Nat /\ n \in Nat
  OBVIOUS
<1>2. PICK zero \in Nat : zero = 0
  OBVIOUS
<1>3. PICK part : part = SubSeq(list, zero + 1, n)
  OBVIOUS
<1>4. /\ part \in Seq(S) /\ Len(part) = (IF zero < n THEN n - zero ELSE 0)
      /\ \A i \in 1..(IF zero < n THEN n - zero ELSE 0) : part[i] = list[zero + i]
  BY <1>3, PartOf
<1>5. zero + 1 = 1 /\ (IF zero < n THEN n - zero ELSE 0) = n
  BY <1>1, <1>2
<1>6. \A i \in 1..n : zero + i = i
  BY <1>2
<1> QED
  BY <1>3, <1>4, <1>5, <1>6

\* A page has what the list has at its places.
LEMMA PageMembers ==
  ASSUME NEW S, NEW list \in Seq(S), NEW page \in Nat \ {0}, NEW size \in Nat \ {0},
         NEW from \in Nat, from = offset(page, size)
  PROVE  /\ Page(list, page, size) \in Seq(S)
         /\ \A i \in DOMAIN Page(list, page, size) :
              i \in Nat \ {0} /\ from + i \in DOMAIN list /\ i <= size
                /\ Page(list, page, size)[i] = list[from + i]
         /\ \A j \in DOMAIN list : from < j /\ j <= from + size =>
              j - from \in DOMAIN Page(list, page, size)
                /\ Page(list, page, size)[j - from] = list[j]
<1>1. Len(list) \in Nat /\ DOMAIN list = 1..Len(list)
  OBVIOUS
<1>2. PICK to \in 0..Len(list) : to = upTo(list, from + size)
  BY PageIsPart
<1>3. PICK part : part = Page(list, page, size) /\ part = SubSeq(list, from + 1, to)
  BY <1>2, PageIsPart
<1>4. /\ part \in Seq(S) /\ DOMAIN part = 1..(IF from < to THEN to - from ELSE 0)
      /\ \A i \in 1..(IF from < to THEN to - from ELSE 0) : part[i] = list[from + i]
  BY <1>3, PartOf
<1>5. ASSUME NEW i \in DOMAIN part
      PROVE  i \in Nat \ {0} /\ from + i \in DOMAIN list /\ i <= size /\ part[i] = list[from + i]
  <2>1. i \in 1..(IF from < to THEN to - from ELSE 0) /\ part[i] = list[from + i]
    BY <1>4
  <2>2. i \in Nat \ {0} /\ from + i <= to /\ to <= from + size
    <3>1. from + size \in Nat
      OBVIOUS
    <3>2. to <= from + size
      BY <1>1, <1>2, <3>1, UpTo
    <3> QED
      BY <1>1, <2>1, <3>2
  <2>3. from + i \in 1..Len(list) /\ i <= size
    BY <1>1, <2>2
  <2> QED
    BY <1>1, <2>1, <2>2, <2>3
<1>6. ASSUME NEW j \in DOMAIN list, from < j, j <= from + size
      PROVE  j - from \in DOMAIN part /\ part[j - from] = list[j]
  <2>1. j <= to
    <3>1. from + size \in Nat /\ j \in 1..Len(list)
      BY <1>1
    <3> QED
      BY <1>1, <1>2, <1>6, <3>1, UpTo
  <2>2. j - from \in 1..(IF from < to THEN to - from ELSE 0) /\ from + (j - from) = j
    BY <1>1, <1>6, <2>1
  <2> QED
    BY <1>4, <2>2
<1> QED
  BY <1>3, <1>4, <1>5, <1>6

LEMMA PageDescends ==
  ASSUME NEW S \in SUBSET Nat, NEW list \in Seq(S), Descends(list), NEW page \in Nat \ {0},
         NEW size \in Nat \ {0}
  PROVE  Descends(Page(list, page, size))
<1>1. PICK from \in Nat : from = offset(page, size)
  BY OffsetIsNat
<1>2. PICK part : part = Page(list, page, size)
  OBVIOUS
<1>3. \A i \in DOMAIN part :
        i \in Nat \ {0} /\ from + i \in DOMAIN list /\ part[i] = list[from + i]
  <2>1. \A i \in DOMAIN Page(list, page, size) :
          i \in Nat \ {0} /\ from + i \in DOMAIN list /\ i <= size
            /\ Page(list, page, size)[i] = list[from + i]
    BY <1>1, PageMembers
  <2> QED
    BY <1>2, <2>1
<1> SUFFICES ASSUME NEW i \in DOMAIN part, NEW j \in DOMAIN part, i < j
             PROVE  part[i] > part[j]
  BY <1>2 DEF Descends
<1>4. from + i < from + j
  BY <1>3
<1> QED
  BY <1>3, <1>4 DEF Descends

\* The page after a beginning of the list continues it.
LEMMA PageContinues ==
  ASSUME NEW S, NEW list \in Seq(S), NEW page \in Nat \ {0}, NEW size \in Nat \ {0},
         NEW from \in Nat, from = offset(page, size), from <= Len(list)
  PROVE  SubSeq(list, 1, from) \o Page(list, page, size) = SubSeq(list, 1, upTo(list, from + size))
<1>1. Len(list) \in Nat
  OBVIOUS
<1>2. PICK to \in 0..Len(list) : to = upTo(list, from + size)
  BY PageIsPart
<1>3. from <= to
  BY <1>1, <1>2 DEF upTo
<1>4. PICK part : part = Page(list, page, size) /\ part = SubSeq(list, from + 1, to)
  BY <1>2, PageIsPart
<1>5. part \in Seq(S) /\ Len(part) = to - from /\ \A i \in 1..(to - from) : part[i] = list[from + i]
  <2>1. /\ part \in Seq(S) /\ Len(part) = IF from < to THEN to - from ELSE 0
        /\ \A i \in 1..(IF from < to THEN to - from ELSE 0) : part[i] = list[from + i]
    BY <1>4, PartOf
  <2>2. (IF from < to THEN to - from ELSE 0) = to - from
    BY <1>3
  <2> QED
    BY <2>1, <2>2
<1>6. PICK shown : shown = SubSeq(list, 1, from)
  OBVIOUS
<1>7. shown \in Seq(S) /\ Len(shown) = from /\ \A i \in 1..from : shown[i] = list[i]
  BY <1>1, <1>6, BeginningOfList
<1>8. PICK next : next = SubSeq(list, 1, to)
  OBVIOUS
<1>9. next \in Seq(S) /\ Len(next) = to /\ \A i \in 1..to : next[i] = list[i]
  BY <1>8, BeginningOfList
<1>10. PICK both : both = shown \o part
  OBVIOUS
<1>11. /\ both \in Seq(S) /\ Len(both) = to
       /\ \A i \in 1..to : both[i] = IF i <= from THEN shown[i] ELSE part[i - from]
  <2>1. /\ both \in Seq(S) /\ Len(both) = Len(shown) + Len(part)
        /\ \A i \in 1..(Len(shown) + Len(part)) :
             both[i] = IF i <= Len(shown) THEN shown[i] ELSE part[i - Len(shown)]
    BY <1>5, <1>7, <1>10, ConcatProperties
  <2>2. Len(shown) + Len(part) = to
    BY <1>3, <1>5, <1>7
  <2> QED
    BY <1>7, <2>1, <2>2
<1>12. ASSUME NEW i \in 1..to PROVE both[i] = next[i]
  <2>1. CASE i <= from
    BY <1>7, <1>9, <1>11, <2>1
  <2>2. CASE from < i
    <3>1. i - from \in 1..(to - from) /\ from + (i - from) = i /\ ~(i <= from)
      BY <2>2
    <3> QED
      BY <1>5, <1>9, <1>11, <3>1
  <2> QED
    BY <2>1, <2>2
<1>13. both = next
  BY <1>9, <1>11, <1>12, SeqEqual
<1> QED
  BY <1>2, <1>4, <1>6, <1>8, <1>10, <1>13

-----------------------------------------------------------------------------
(* The list shown, and what a load brings to it.                           *)

Asked ==
  [step : {"count", "select", "answer"}, tag : Tags \cup {None}, page : Nat \ {0},
   size : {pageSize, loadMoreSize}, total : Nat, items : Seq(Posts)]
AskedCopy == [step : {"static"}, page : 1..MaxPage, size : {pageSize, loadMoreSize}]

BeginningOf(list, shown) == Len(shown) <= Len(list) /\ shown = SubSeq(list, 1, Len(shown))

\* The list once an answer is appended.
after(shown, items) == shown \o kept(items, ToSet(items) \ ToSet(shown))

\* Behind a place, the list has nothing newer that is not shown.
NoNewer(list, shown, from) ==
  \A j \in DOMAIN list : j > from =>
    list[j] \in ToSet(shown) \/ \A i \in DOMAIN shown : list[j] < shown[i]

\* A list nothing came in between of: a beginning of what the server lists; and
\* the load under way asks for what comes next.
FreshAt(list, shown, more, c, tag) ==
  /\ BeginningOf(list, shown)
  /\ c = None =>
       /\ more <=> Len(shown) < Len(list)
       /\ more => aligned(Len(shown)) = Len(shown)
  /\ c # None =>
       /\ c.tag = tag /\ start(c) = Len(shown) /\ aligned(Len(shown)) = Len(shown)
       /\ c.step # "count" => c.total = Len(list)
       /\ c.step = "answer" => c.items = Page(list, c.page, c.size)

\* A list shown since an edit at most: newest first, and nothing newer can follow.
OrderlyAt(list, shown, more, c) ==
  /\ Descends(shown)
  /\ c = None /\ more => NoNewer(list, shown, aligned(Len(shown)))
  /\ c # None =>
       /\ start(c) = aligned(Len(shown))
       /\ c.step # "answer" => NoNewer(list, shown, start(c))
       /\ c.step = "answer" =>
            /\ NoNewer(c.items, shown, 0)
            /\ Len(after(shown, c.items)) < c.total =>
                 NoNewer(list, after(shown, c.items), aligned(Len(after(shown, c.items))))

\* A list of the static copy alone; the browser reads it in pages of loadMoreSize.
StaticAt(list, shown, more, c, page, where) ==
  /\ BeginningOf(list, shown)
  /\ c = None =>
       /\ more <=> Len(shown) < Len(list)
       /\ more /\ where = "browser" => Len(shown) = page * loadMoreSize
  /\ c # None =>
       /\ c.page = page /\ start(c) = Len(shown)
       /\ where = "browser" => c.size = loadMoreSize

LEMMA PostsAreNumbers == Posts \in SUBSET Nat
BY PostsAssumption DEF Posts

LEMMA AskedType ==
  ASSUME NEW c \in Asked
  PROVE  /\ c.page \in Nat \ {0} /\ c.size \in {pageSize, loadMoreSize} /\ c.size \in Nat \ {0}
         /\ c.total \in Nat /\ c.items \in Seq(Posts) /\ c.tag \in Tags \cup {None}
         /\ c # None /\ start(c) \in Nat /\ c.step \in {"count", "select", "answer"}
<1>1. /\ c.page \in Nat \ {0} /\ c.size \in {pageSize, loadMoreSize}
      /\ c.total \in Nat /\ c.items \in Seq(Posts) /\ c.tag \in Tags \cup {None}
      /\ c.step \in {"count", "select", "answer"}
  BY DEF Asked
<1>2. c.size \in Nat \ {0}
  BY <1>1, Sizes
<1>3. c # None
  BY NoneIsNoCall DEF Asked, Call
<1>4. start(c) \in Nat
  BY <1>1, <1>2, OffsetIsNat DEF start
<1> QED
  BY <1>1, <1>2, <1>3, <1>4

LEMMA AskedPage ==
  ASSUME NEW list \in Seq(Posts), NEW c \in Asked, NEW from \in Nat, from = start(c)
  PROVE  /\ \A i \in DOMAIN Page(list, c.page, c.size) :
              i \in Nat \ {0} /\ from + i \in DOMAIN list /\ i <= c.size
                /\ Page(list, c.page, c.size)[i] = list[from + i]
         /\ \A j \in DOMAIN list : from < j /\ j <= from + c.size =>
              j - from \in DOMAIN Page(list, c.page, c.size)
                /\ Page(list, c.page, c.size)[j - from] = list[j]
<1>1. PICK page \in Nat \ {0}, size \in Nat \ {0} : page = c.page /\ size = c.size
  BY AskedType
<1>2. from = offset(page, size)
  BY <1>1 DEF start
<1>3. \A i \in DOMAIN Page(list, page, size) :
        i \in Nat \ {0} /\ from + i \in DOMAIN list /\ i <= size
          /\ Page(list, page, size)[i] = list[from + i]
  BY <1>2, PageMembers
<1>4. \A j \in DOMAIN list : from < j /\ j <= from + size =>
        j - from \in DOMAIN Page(list, page, size) /\ Page(list, page, size)[j - from] = list[j]
  BY <1>2, PageMembers
<1> QED
  BY <1>1, <1>3, <1>4

LEMMA KeptNew ==
  ASSUME NEW shown, NEW items \in Seq(Posts), Descends(items)
  PROVE  KeptOf(items, ToSet(items) \ ToSet(shown), Posts, kept(items, ToSet(items) \ ToSet(shown)))
BY PostsAreNumbers, KeptDescends

\* Nothing of an answer is kept back if the list has none of it.
LEMMA AllNew ==
  ASSUME NEW shown, NEW items \in Seq(Posts), Descends(items), ToSet(items) \cap ToSet(shown) = {}
  PROVE  after(shown, items) = shown \o items
<1>1. PICK k : k = kept(items, ToSet(items) \ ToSet(shown))
  OBVIOUS
<1>2. k \in Seq(Posts) /\ Descends(k) /\ ToSet(k) = ToSet(items) \cap (ToSet(items) \ ToSet(shown))
  BY <1>1, KeptNew DEF KeptOf
<1>3. ToSet(k) = ToSet(items)
  BY <1>2
<1>4. k = items
  BY <1>2, <1>3, SameMembers, PostsAreNumbers
<1> QED
  BY <1>1, <1>4 DEF after

LEMMA ShownFresh ==
  ASSUME NEW list \in Seq(Posts), Descends(list), NEW shown, NEW more, NEW tag,
         NEW c \in Asked, c.step = "answer", FreshAt(list, shown, more, c, tag)
  PROVE  FreshAt(list, after(shown, c.items), Len(after(shown, c.items)) < c.total, None, tag)
<1>1. Len(list) \in Nat /\ DOMAIN list = 1..Len(list)
  OBVIOUS
<1>2. c # None /\ c.page \in Nat \ {0} /\ c.size \in Nat \ {0} /\ c.items \in Seq(Posts)
        /\ c.size \in {pageSize, loadMoreSize}
  BY AskedType
<1>3. PICK n \in Nat : n = start(c)
  BY AskedType
<1>4. /\ Len(shown) = n /\ n <= Len(list) /\ shown = SubSeq(list, 1, n) /\ aligned(n) = n
      /\ c.total = Len(list) /\ c.items = Page(list, c.page, c.size)
  BY <1>2, <1>3 DEF FreshAt, BeginningOf
<1>5. n = offset(c.page, c.size)
  BY <1>3 DEF start
<1>6. n \in 0..Len(list)
  BY <1>1, <1>4
<1>7. shown \in Seq(Posts) /\ \A i \in 1..n : shown[i] = list[i]
  BY <1>4, <1>6, BeginningOfList
<1>8. ToSet(c.items) \cap ToSet(shown) = {}
  <2> SUFFICES ASSUME NEW p \in ToSet(c.items), p \in ToSet(shown) PROVE FALSE
    OBVIOUS
  <2>1. PICK i \in DOMAIN c.items : p = c.items[i]
    BY DEF ToSet
  <2>2. PICK k \in DOMAIN shown : p = shown[k]
    BY DEF ToSet
  <2>3. i \in Nat \ {0} /\ n + i \in DOMAIN list /\ c.items[i] = list[n + i]
    BY <1>3, <1>4, AskedPage
  <2>4. k \in 1..n /\ p = list[k]
    BY <1>4, <1>7, <2>2
  <2>5. list[k] > list[n + i]
    BY <1>1, <1>6, <2>3, <2>4 DEF Descends
  <2>6. list[k] \in Nat
    BY <1>1, <1>6, <2>4, PostsAreNumbers, SeqOfNumbers
  <2> QED
    BY <2>1, <2>3, <2>4, <2>5, <2>6
<1>9. Descends(c.items)
  BY <1>2, <1>4, PageDescends, PostsAreNumbers
<1>10. after(shown, c.items) = shown \o c.items
  BY <1>2, <1>8, <1>9, AllNew
<1>11. after(shown, c.items) = SubSeq(list, 1, upTo(list, n + c.size))
  <2>1. n <= Len(list)
    BY <1>4
  <2>2. SubSeq(list, 1, n) \o Page(list, c.page, c.size) = SubSeq(list, 1, upTo(list, n + c.size))
    BY <1>2, <1>5, <2>1, PageContinues
  <2> QED
    BY <1>4, <1>10, <2>2
<1>12. n + c.size \in Nat
  BY <1>2
<1>13. PICK to \in 0..Len(list) : to = upTo(list, n + c.size)
  BY <1>1, <1>12, UpTo
<1>14. to < Len(list) => to = n + c.size
  BY <1>13 DEF upTo
<1>15. PICK next : next = after(shown, c.items)
  OBVIOUS
<1>16. next = SubSeq(list, 1, to) /\ Len(next) = to
  BY <1>11, <1>13, <1>15, BeginningOfList
<1>17. BeginningOf(list, next)
  BY <1>1, <1>16 DEF BeginningOf
<1>18. to < Len(list) => aligned(to) = to
  BY <1>2, <1>4, <1>14, AlignedAfterPage
<1>19. FreshAt(list, next, Len(next) < c.total, None, tag)
  BY <1>4, <1>16, <1>17, <1>18 DEF FreshAt
<1> QED
  BY <1>15, <1>19

LEMMA ShownStatic ==
  ASSUME NEW list, NEW S, list \in Seq(S), NEW shown, NEW more, NEW page, NEW where,
         NEW c \in AskedCopy, StaticAt(list, shown, more, c, page, where)
  PROVE  LET next == shown \o Page(list, c.page, c.size)
         IN  /\ StaticAt(list, next, Len(next) < Len(list), None, page, where)
             /\ next \in Seq(S)
<1>1. Len(list) \in Nat
  OBVIOUS
<1>2. c.page \in Nat \ {0} /\ c.size \in Nat \ {0}
  BY Sizes, BoundsAssumption DEF AskedCopy
<1>3. c # None
  BY NoneIsNoCall DEF AskedCopy, Call
<1>4. PICK n \in Nat : n = start(c)
  BY <1>2, OffsetIsNat DEF start
<1>5. /\ Len(shown) = n /\ n <= Len(list) /\ shown = SubSeq(list, 1, n)
      /\ c.page = page /\ (where = "browser" => c.size = loadMoreSize)
  BY <1>3, <1>4 DEF StaticAt, BeginningOf
<1>6. n = offset(c.page, c.size)
  BY <1>4 DEF start
<1>7. PICK next : next = shown \o Page(list, c.page, c.size)
  OBVIOUS
<1>8. next = SubSeq(list, 1, upTo(list, n + c.size))
  <2>1. n <= Len(list)
    BY <1>5
  <2>2. SubSeq(list, 1, n) \o Page(list, c.page, c.size) = SubSeq(list, 1, upTo(list, n + c.size))
    BY <1>2, <1>6, <2>1, PageContinues
  <2> QED
    BY <1>5, <1>7, <2>2
<1>9. n + c.size \in Nat
  BY <1>2
<1>10. PICK to \in 0..Len(list) : to = upTo(list, n + c.size)
  BY <1>1, <1>9, UpTo
<1>11. to < Len(list) => to = n + c.size
  BY <1>10 DEF upTo
<1>12. next = SubSeq(list, 1, to) /\ Len(next) = to /\ next \in Seq(S)
  BY <1>8, <1>10, BeginningOfList
<1>13. BeginningOf(list, next)
  BY <1>1, <1>12 DEF BeginningOf
<1>14. n + c.size = c.page * c.size
  <2>1. c.page * c.size = (c.page - 1) * c.size + c.size
    BY <1>2
  <2> QED
    BY <1>6, <2>1 DEF offset
<1>15. to < Len(list) /\ where = "browser" => to = page * loadMoreSize
  BY <1>5, <1>11, <1>14
<1>16. StaticAt(list, next, Len(next) < Len(list), None, page, where)
  BY <1>12, <1>13, <1>15 DEF StaticAt
<1> QED
  BY <1>7, <1>12, <1>16

\* What the pager shows is numbered.
Shown == Posts \cup 0..StaticTotal

LEMMA ShownAreNumbers == Shown \in SUBSET Nat /\ Posts \subseteq Shown
BY PostsAreNumbers, Sizes DEF Shown

LEMMA ConcatMembers ==
  ASSUME NEW S, NEW a \in Seq(S), NEW b \in Seq(S)
  PROVE  /\ a \o b \in Seq(S) /\ Len(a \o b) = Len(a) + Len(b) /\ Len(a) \in Nat /\ Len(b) \in Nat
         /\ ToSet(a \o b) = ToSet(a) \cup ToSet(b)
         /\ \A i \in DOMAIN a : i \in DOMAIN (a \o b) /\ (a \o b)[i] = a[i]
         /\ \A i \in DOMAIN (a \o b) : i \notin DOMAIN a =>
              i > Len(a) /\ i - Len(a) \in DOMAIN b /\ (a \o b)[i] = b[i - Len(a)]
<1>1. /\ Len(a) \in Nat /\ DOMAIN a = 1..Len(a)
      /\ Len(b) \in Nat /\ DOMAIN b = 1..Len(b)
  OBVIOUS
<1>2. PICK c : c = a \o b
  OBVIOUS
<1>3. /\ c \in Seq(S) /\ Len(c) = Len(a) + Len(b)
      /\ \A i \in 1..Len(a) + Len(b) : c[i] = IF i <= Len(a) THEN a[i] ELSE b[i - Len(a)]
  BY <1>2, ConcatProperties
<1>4. DOMAIN c = 1..Len(a) + Len(b)
  BY <1>3
<1>5. \A i \in DOMAIN a : i \in DOMAIN c /\ c[i] = a[i]
  BY <1>1, <1>3, <1>4
<1>6. \A i \in DOMAIN c : i \notin DOMAIN a =>
        i > Len(a) /\ i - Len(a) \in DOMAIN b /\ c[i] = b[i - Len(a)]
  BY <1>1, <1>3, <1>4
<1>7. ASSUME NEW i \in DOMAIN b PROVE Len(a) + i \in DOMAIN c /\ c[Len(a) + i] = b[i]
  <2>1. Len(a) + i \in 1..Len(a) + Len(b) /\ ~(Len(a) + i <= Len(a)) /\ (Len(a) + i) - Len(a) = i
    BY <1>1
  <2> QED
    BY <1>3, <1>4, <2>1
<1>8. ToSet(c) = ToSet(a) \cup ToSet(b)
  <2>1. ASSUME NEW p \in ToSet(c) PROVE p \in ToSet(a) \cup ToSet(b)
    <3>1. PICK i \in DOMAIN c : p = c[i]
      BY DEF ToSet
    <3> QED
      BY <1>5, <1>6, <3>1 DEF ToSet
  <2>2. ASSUME NEW p \in ToSet(a) PROVE p \in ToSet(c)
    BY <1>5, <2>2 DEF ToSet
  <2>3. ASSUME NEW p \in ToSet(b) PROVE p \in ToSet(c)
    <3>1. PICK i \in DOMAIN b : p = b[i]
      BY DEF ToSet
    <3> QED
      BY <1>7, <3>1 DEF ToSet
  <2> QED
    BY <2>1, <2>2, <2>3
<1> QED
  BY <1>1, <1>2, <1>3, <1>5, <1>6, <1>8

\* A list stays without repetition, and newest first, when what follows is
\* different, or older.
LEMMA ConcatDescends ==
  ASSUME NEW S \in SUBSET Nat, NEW a \in Seq(S), NEW b \in Seq(S), Descends(b)
  PROVE  /\ Descends(a) /\ (\A p \in ToSet(a), q \in ToSet(b) : q < p) => Descends(a \o b)
         /\ IsInjective(a) /\ ToSet(a) \cap ToSet(b) = {} => IsInjective(a \o b)
<1>1. PICK c : c = a \o b
  OBVIOUS
<1>2. /\ Len(a) \in Nat /\ Len(b) \in Nat /\ c \in Seq(S)
      /\ \A i \in DOMAIN a : i \in DOMAIN c /\ c[i] = a[i]
      /\ \A i \in DOMAIN c : i \notin DOMAIN a =>
           i > Len(a) /\ i - Len(a) \in DOMAIN b /\ c[i] = b[i - Len(a)]
  BY <1>1, ConcatMembers
<1>3. DOMAIN a = 1..Len(a) /\ DOMAIN c = 1..Len(c) /\ Len(c) \in Nat
  BY <1>2
<1>4. \A i \in DOMAIN a : a[i] \in ToSet(a)
  BY DEF ToSet
<1>5. \A i \in DOMAIN b : b[i] \in ToSet(b) /\ b[i] \in Nat
  BY SeqOfNumbers DEF ToSet
<1>6. ASSUME Descends(a), \A p \in ToSet(a), q \in ToSet(b) : q < p PROVE Descends(c)
  <2> SUFFICES ASSUME NEW i \in DOMAIN c, NEW j \in DOMAIN c, i < j PROVE c[i] > c[j]
    BY DEF Descends
  <2>1. CASE j \in DOMAIN a
    <3>1. i \in DOMAIN a
      BY <1>3, <2>1
    <3> QED
      BY <1>2, <1>6, <2>1, <3>1 DEF Descends
  <2>2. CASE j \notin DOMAIN a /\ i \in DOMAIN a
    BY <1>2, <1>4, <1>5, <1>6, <2>2
  <2>3. CASE j \notin DOMAIN a /\ i \notin DOMAIN a
    <3>1. /\ i - Len(a) \in DOMAIN b /\ c[i] = b[i - Len(a)]
          /\ j - Len(a) \in DOMAIN b /\ c[j] = b[j - Len(a)]
      BY <1>2, <2>3
    <3>2. i - Len(a) < j - Len(a)
      BY <1>2, <1>3
    <3> QED
      BY <3>1, <3>2 DEF Descends
  <2> QED
    BY <2>1, <2>2, <2>3
<1>7. ASSUME IsInjective(a), ToSet(a) \cap ToSet(b) = {} PROVE IsInjective(c)
  <2> SUFFICES ASSUME NEW i \in DOMAIN c, NEW j \in DOMAIN c, c[i] = c[j] PROVE i = j
    BY DEF IsInjective
  <2>1. CASE i \in DOMAIN a /\ j \in DOMAIN a
    BY <1>2, <1>7, <2>1 DEF IsInjective
  <2>2. CASE i \in DOMAIN a /\ j \notin DOMAIN a
    BY <1>2, <1>4, <1>5, <1>7, <2>2
  <2>3. CASE i \notin DOMAIN a /\ j \in DOMAIN a
    BY <1>2, <1>4, <1>5, <1>7, <2>3
  <2>4. CASE i \notin DOMAIN a /\ j \notin DOMAIN a
    <3>1. PICK h \in DOMAIN b : h = i - Len(a) /\ c[i] = b[h]
      BY <1>2, <2>4
    <3>2. PICK k \in DOMAIN b : k = j - Len(a) /\ c[j] = b[k]
      BY <1>2, <2>4
    <3>3. b[h] = b[k] /\ b[h] \in Nat
      BY <1>5, <3>1, <3>2
    <3>4. h \in Int /\ k \in Int /\ i \in Int /\ j \in Int
      BY <1>3
    <3>5. ~(h < k) /\ ~(k < h)
      BY <3>3 DEF Descends
    <3> QED
      BY <1>2, <3>1, <3>2, <3>4, <3>5
  <2> QED
    BY <2>1, <2>2, <2>3, <2>4
<1> QED
  BY <1>1, <1>6, <1>7

LEMMA AfterMembers ==
  ASSUME NEW shown \in Seq(Shown), NEW items \in Seq(Posts), Descends(items)
  PROVE  /\ after(shown, items) \in Seq(Shown)
         /\ Len(after(shown, items)) \in Nat /\ Len(shown) <= Len(after(shown, items))
         /\ ToSet(after(shown, items)) = ToSet(shown) \cup ToSet(items)
         /\ IsInjective(shown) => IsInjective(after(shown, items))
         /\ Descends(shown) /\ NoNewer(items, shown, 0) => Descends(after(shown, items))
<1>1. PICK k : k = kept(items, ToSet(items) \ ToSet(shown))
  OBVIOUS
<1>2. k \in Seq(Posts) /\ Descends(k) /\ ToSet(k) = ToSet(items) \cap (ToSet(items) \ ToSet(shown))
  BY <1>1, KeptNew DEF KeptOf
<1>3. k \in Seq(Shown)
  BY <1>2, ShownAreNumbers, SeqMonotonic
<1>4. ToSet(k) = ToSet(items) \ ToSet(shown)
  BY <1>2
<1>5. after(shown, items) = shown \o k
  BY <1>1 DEF after
<1>6. PICK next : next = shown \o k
  OBVIOUS
<1>7. /\ next \in Seq(Shown) /\ Len(next) = Len(shown) + Len(k) /\ Len(shown) \in Nat /\ Len(k) \in Nat
      /\ ToSet(next) = ToSet(shown) \cup ToSet(k)
  BY <1>3, <1>6, ConcatMembers
<1>8. Len(next) \in Nat /\ Len(shown) <= Len(next)
  BY <1>7
<1>9. ToSet(next) = ToSet(shown) \cup ToSet(items)
  BY <1>4, <1>7
<1>10. IsInjective(shown) => IsInjective(next)
  <2>1. ToSet(shown) \cap ToSet(k) = {}
    BY <1>4
  <2> QED
    BY <1>2, <1>3, <1>6, <2>1, ConcatDescends, ShownAreNumbers
<1>11. ASSUME Descends(shown), NoNewer(items, shown, 0) PROVE Descends(next)
  <2>1. ASSUME NEW p \in ToSet(shown), NEW q \in ToSet(k) PROVE q < p
    <3>1. PICK i \in DOMAIN shown : p = shown[i]
      BY DEF ToSet
    <3>2. PICK j \in DOMAIN items : q = items[j]
      BY <1>4 DEF ToSet
    <3>3. j > 0 /\ q \notin ToSet(shown)
      BY <1>4
    <3> QED
      BY <1>11, <3>1, <3>2, <3>3 DEF NoNewer
  <2> QED
    BY <1>2, <1>3, <1>6, <1>11, <2>1, ConcatDescends, ShownAreNumbers
<1> QED
  BY <1>5, <1>6, <1>7, <1>8, <1>9, <1>10, <1>11

LEMMA NoNewerOf ==
  ASSUME NEW list, NEW shown, NEW from, NoNewer(list, shown, from),
         NEW j \in DOMAIN list, j > from, list[j] \notin ToSet(shown), NEW p \in ToSet(shown)
  PROVE  list[j] < p
<1>1. PICK i \in DOMAIN shown : p = shown[i]
  BY DEF ToSet
<1> QED
  BY <1>1 DEF NoNewer

\* The statement that selects leaves a page with nothing newer than what is shown,
\* behind which nothing newer can follow either.
LEMMA SelectedOrderly ==
  ASSUME NEW list \in Seq(Posts), Descends(list), NEW shown \in Seq(Shown), NEW more,
         NEW c \in Asked, c.step = "select", OrderlyAt(list, shown, more, c),
         NEW d \in Asked, d.step = "answer", d.page = c.page, d.size = c.size,
         d.items = Page(list, c.page, c.size)
  PROVE  OrderlyAt(list, shown, more, d)
<1>1. Len(list) \in Nat /\ DOMAIN list = 1..Len(list) /\ Len(shown) \in Nat
  OBVIOUS
<1>2. /\ c # None /\ c.page \in Nat \ {0} /\ c.size \in Nat \ {0}
      /\ d # None /\ d.items \in Seq(Posts)
  BY AskedType
<1>3. PICK from \in Nat : from = start(c)
  BY AskedType
<1>4. from = offset(c.page, c.size) /\ start(d) = from
  BY <1>3 DEF start
<1>5. Descends(shown) /\ from = aligned(Len(shown)) /\ NoNewer(list, shown, from)
  BY <1>2, <1>3 DEF OrderlyAt
<1>6. PICK items : items = d.items
  OBVIOUS
<1>7. items \in Seq(Posts) /\ Descends(items)
  BY <1>2, <1>6, PageDescends, PostsAreNumbers
<1>8. /\ \A i \in DOMAIN items :
           i \in Nat \ {0} /\ from + i \in DOMAIN list /\ i <= c.size /\ items[i] = list[from + i]
      /\ \A j \in DOMAIN list : from < j /\ j <= from + c.size =>
           j - from \in DOMAIN items /\ items[j - from] = list[j]
  BY <1>3, <1>6, AskedPage
<1>9. NoNewer(items, shown, 0)
  <2> SUFFICES ASSUME NEW j \in DOMAIN items, items[j] \notin ToSet(shown), NEW i \in DOMAIN shown
               PROVE  items[j] < shown[i]
    BY DEF NoNewer
  <2>1. from + j \in DOMAIN list /\ from + j > from /\ items[j] = list[from + j]
    BY <1>8
  <2> QED
    BY <1>5, <2>1 DEF NoNewer
<1>10. PICK next : next = after(shown, items)
  OBVIOUS
<1>11. /\ Len(next) \in Nat /\ Len(shown) <= Len(next)
       /\ ToSet(next) = ToSet(shown) \cup ToSet(items)
  BY <1>7, <1>10, AfterMembers
<1>12. aligned(Len(next)) \in Nat /\ from <= aligned(Len(next))
  BY <1>1, <1>5, <1>11, Aligned, AlignedGrows
<1>13. NoNewer(list, next, aligned(Len(next)))
  <2> SUFFICES ASSUME NEW j \in DOMAIN list, j > aligned(Len(next)), list[j] \notin ToSet(next),
                      NEW i \in DOMAIN next
               PROVE  list[j] < next[i]
    BY DEF NoNewer
  <2>1. j > from /\ j \in Nat
    BY <1>1, <1>12
  <2>2. ~(j <= from + c.size)
    <3> SUFFICES ASSUME j <= from + c.size PROVE FALSE
      OBVIOUS
    <3>1. j - from \in DOMAIN items /\ items[j - from] = list[j]
      BY <1>8, <2>1
    <3>2. list[j] \in ToSet(items)
      BY <3>1 DEF ToSet
    <3> QED
      BY <1>11, <3>2
  <2>3. next[i] \in ToSet(shown) \cup ToSet(items)
    BY <1>11 DEF ToSet
  <2>4. CASE next[i] \in ToSet(shown)
    BY <1>5, <1>11, <2>1, <2>4, NoNewerOf
  <2>5. CASE next[i] \in ToSet(items)
    <3>1. PICK h \in DOMAIN items : next[i] = items[h]
      BY <2>5 DEF ToSet
    <3>2. h \in Nat /\ from + h \in DOMAIN list /\ h <= c.size /\ next[i] = list[from + h]
      BY <1>8, <3>1
    <3>3. from + h < j
      BY <1>2, <2>1, <2>2, <3>2
    <3>4. list[from + h] > list[j]
      BY <3>2, <3>3 DEF Descends
    <3>5. list[from + h] \in Nat /\ list[j] \in Nat
      BY <1>1, <3>2, PostsAreNumbers, SeqOfNumbers
    <3> QED
      BY <3>2, <3>4, <3>5
  <2> QED
    BY <2>3, <2>4, <2>5
<1> QED
  BY <1>2, <1>4, <1>5, <1>6, <1>9, <1>10, <1>13 DEF OrderlyAt

\* One edit puts nothing newer behind the beginning that is shown.
LEMMA EditBehind ==
  ASSUME NEW old \in Seq(Posts), NEW new \in Seq(Posts), Descends(old), Descends(new),
         NEW x, ToSet(new) \subseteq ToSet(old) \cup {x},
         NEW shown, BeginningOf(old, shown), Len(shown) \in Nat
  PROVE  NoNewer(new, shown, Len(shown))
<1>1. PICK n \in Nat : n = Len(shown)
  OBVIOUS
<1>2. /\ Len(old) \in Nat /\ DOMAIN old = 1..Len(old) /\ \A i \in 1..Len(old) : old[i] \in Nat
      /\ Len(new) \in Nat /\ DOMAIN new = 1..Len(new) /\ \A i \in 1..Len(new) : new[i] \in Nat
  BY PostsAreNumbers, SeqOfNumbers
<1>3. n \in 0..Len(old) /\ shown = SubSeq(old, 1, n)
  BY <1>1, <1>2 DEF BeginningOf
<1>4. shown \in Seq(Posts) /\ DOMAIN shown = 1..n /\ \A i \in 1..n : shown[i] = old[i]
  BY <1>1, <1>3, BeginningOfList
<1> SUFFICES ASSUME NEW j \in 1..Len(new), j > n, new[j] \notin ToSet(shown),
                    NEW i \in 1..n, ~(new[j] < old[i])
             PROVE  FALSE
  BY <1>1, <1>2, <1>4 DEF NoNewer
<1>5. \A g \in 1..n : old[g] \in ToSet(shown)
  BY <1>4 DEF ToSet
<1>6. i \in 1..Len(old) /\ old[i] \in Nat /\ new[j] \in Nat /\ new[j] > old[i]
  <2>1. i \in 1..Len(old)
    BY <1>2, <1>3
  <2>2. old[i] # new[j]
    BY <1>5
  <2> QED
    BY <1>2, <2>1, <2>2
<1>7. ASSUME NEW g \in 1..Len(old), old[g] > old[i] PROVE g \in 1..(i - 1)
  <2>1. ~(i < g) /\ i # g
    <3>1. old[g] \in Nat
      BY <1>2
    <3>2. i < g => old[i] > old[g]
      BY <1>2, <1>6 DEF Descends
    <3> QED
      BY <1>6, <1>7, <3>1, <3>2
  <2> QED
    BY <1>2, <1>6, <2>1
<1>8. \A p \in ToSet(old) : \E g \in 1..Len(old) : p = old[g]
  BY <1>2 DEF ToSet
<1>9. \A h \in 1..Len(new) : new[h] \in ToSet(old) \/ new[h] = x
  BY <1>2 DEF ToSet
<1>10. new[j] = x
  <2> SUFFICES ASSUME new[j] \in ToSet(old) PROVE FALSE
    BY <1>9
  <2>1. PICK g \in 1..Len(old) : new[j] = old[g]
    BY <1>8
  <2>2. g \in 1..(i - 1)
    BY <1>6, <1>7, <2>1
  <2>3. g \in 1..n
    BY <1>1, <2>2
  <2> QED
    BY <1>5, <2>1, <2>3
<1>11. ASSUME NEW h \in 1..(j - 1) PROVE \E g \in 1..(i - 1) : old[g] = new[h]
  <2>1. h \in 1..Len(new) /\ h < j
    BY <1>2
  <2>2. new[h] > new[j] /\ new[h] \in Nat
    BY <1>2, <2>1 DEF Descends
  <2>3. new[h] # x
    BY <1>6, <1>10, <2>2
  <2>4. PICK g \in 1..Len(old) : new[h] = old[g]
    BY <1>8, <1>9, <2>1, <2>3
  <2>5. old[g] > old[i]
    BY <1>6, <2>2, <2>4
  <2> QED
    BY <1>7, <2>4, <2>5
<1>12. j <= i
  BY <1>6, <1>11, NotAfter, PostsAreNumbers
<1> QED
  BY <1>1, <1>12

-----------------------------------------------------------------------------
(* The inductive invariant.  A load of a list nothing came in between of   *)
(* asks for what comes next; one that lost a race with an edit still asks  *)
(* for nothing newer than what is shown.                                   *)

Steady ==
  /\ call # None /\ currentPage = 1 => posts = <<>>
  /\ call # None => (call.step = "static" <=> usingFallback)
  /\ clicks = 0 => activeTag = None /\ (call # None /\ call.step # "static" => call.tag = None)
  /\ edits = 0 /\ clicks = 0 /\ ~usingFallback => fresh
  /\ call # None /\ call.step = "answer" => Descends(call.items)
  /\ ~usingFallback => IsInjective(posts)

FreshFeed ==
  fresh /\ ~usingFallback => FreshAt(Listing(activeTag), posts, hasMore, call, activeTag)

StaticFeed ==
  fresh /\ usingFallback => StaticAt(StaticPosts, posts, hasMore, call, currentPage, platform)

Orderly ==
  edits <= 1 /\ clicks = 0 /\ ~usingFallback => OrderlyAt(Listing(None), posts, hasMore, call)

FeedIInv == FeedTypeOK /\ Steady /\ FreshFeed /\ StaticFeed /\ Orderly

LEMMA KeptListing ==
  ASSUME NEW wanted
  PROVE  LET list == kept([i \in Posts |-> MaxPosts + 1 - i], wanted)
         IN  list \in Seq(Posts) /\ Descends(list) /\ ToSet(list) = Posts \cap wanted
<1>1. PICK all : all = [i \in Posts |-> MaxPosts + 1 - i]
  OBVIOUS
<1>2. MaxPosts \in Nat
  BY PostsAssumption
<1>3. all \in Seq(Posts)
  BY <1>1, <1>2 DEF Posts
<1>4. Descends(all)
  BY <1>1, <1>2 DEF Descends, Posts
<1>5. ToSet(all) = Posts
  <2>1. ASSUME NEW p \in Posts PROVE p \in ToSet(all)
    <3>1. MaxPosts + 1 - p \in Posts /\ MaxPosts + 1 - (MaxPosts + 1 - p) = p
      BY <1>2 DEF Posts
    <3>2. MaxPosts + 1 - p \in DOMAIN all /\ all[MaxPosts + 1 - p] = p
      BY <1>1, <3>1
    <3> QED
      BY <3>2 DEF ToSet
  <2>2. ToSet(all) \subseteq Posts
    BY <1>1, <1>2 DEF ToSet, Posts
  <2> QED
    BY <2>1, <2>2
<1>6. KeptOf(all, wanted, Posts, kept(all, wanted))
  BY <1>3, <1>4, KeptDescends, PostsAreNumbers
<1> QED
  BY <1>1, <1>5, <1>6 DEF KeptOf

LEMMA ListingNow ==
  ASSUME NEW tag
  PROVE  /\ Listing(tag) \in Seq(Posts) /\ Descends(Listing(tag)) /\ ToSet(Listing(tag)) = listed(tag)
         /\ Listing(tag)' \in Seq(Posts) /\ Descends(Listing(tag)')
         /\ ToSet(Listing(tag)') = listed(tag)'
<1>1. PICK now : now = listed(tag)
  OBVIOUS
<1>2. PICK next : next = listed(tag)'
  OBVIOUS
<1>3. now \subseteq Posts /\ next \subseteq Posts
  BY <1>1, <1>2 DEF listed
<1>4. /\ Listing(tag) = kept([i \in Posts |-> MaxPosts + 1 - i], now)
      /\ Listing(tag)' = kept([i \in Posts |-> MaxPosts + 1 - i], next)
  BY <1>1, <1>2 DEF Listing
<1> QED
  BY <1>1, <1>2, <1>3, <1>4, KeptListing

LEMMA SameListing ==
  ASSUME NEW tag, blog' = blog
  PROVE  Listing(tag)' = Listing(tag)
BY DEF Listing, listed

LEMMA StaticList ==
  StaticPosts \in Seq(Shown) /\ Len(StaticPosts) = StaticTotal
BY Sizes DEF StaticPosts, Shown

LEMMA CallKinds ==
  ASSUME FeedTypeOK, call # None
  PROVE  /\ call.step # "static" => call \in Asked
         /\ call.step = "static" => call \in AskedCopy
BY DEF FeedTypeOK, Call, Asked, AskedCopy

LEMMA RequestType ==
  ASSUME NEW page \in Nat \ {0}, NEW shown, Len(shown) \in Nat, NEW tag \in Tags \cup {None}
  PROVE  /\ request(page, shown, tag) \in Asked /\ request(page, shown, tag) \in Call
         /\ request(page, shown, tag) # None
<1>1. apiPage(page, shown) \in Nat \ {0}
  <2>1. Len(shown) \div loadMoreSize \in Nat
    BY Aligned
  <2> QED
    BY <2>1 DEF apiPage
<1>2. effectivePageSize(page) \in {pageSize, loadMoreSize}
  BY DEF effectivePageSize
<1>3. <<>> \in Seq(Posts)
  OBVIOUS
<1>4. request(page, shown, tag) \in Asked
  BY <1>1, <1>2, <1>3 DEF request, Asked
<1> QED
  BY <1>4, NoneIsNoCall DEF Call, Asked

LEMMA CopyRequestType ==
  ASSUME NEW page \in 1..MaxPage, NEW size \in {pageSize, loadMoreSize}
  PROVE  /\ static_request(page, size) \in AskedCopy /\ static_request(page, size) \in Call
         /\ static_request(page, size) # None
<1>1. static_request(page, size) \in AskedCopy
  BY DEF static_request, AskedCopy
<1> QED
  BY <1>1, NoneIsNoCall DEF Call, AskedCopy

LEMMA EmptyBeginning ==
  ASSUME NEW S, NEW list \in Seq(S)
  PROVE  BeginningOf(list, <<>>) /\ Len(<<>>) = 0 /\ <<>> \in Seq(Shown)
<1>1. Len(list) \in Nat /\ Len(<<>>) = 0 /\ <<>> \in Seq(Shown)
  OBVIOUS
<1>2. SubSeq(list, 1, 0) = <<>>
  <2>1. 1 \in Int /\ 0 \in Int /\ 0 < 1
    OBVIOUS
  <2> QED
    BY <2>1, SubSeqEmpty
<1> QED
  BY <1>1, <1>2 DEF BeginningOf

\* A first request begins the list of its tag.
LEMMA FirstRequest ==
  ASSUME NEW tag \in Tags \cup {None}, NEW more, NEW list \in Seq(Posts)
  PROVE  /\ FreshAt(list, <<>>, more, request(1, <<>>, tag), tag)
         /\ OrderlyAt(list, <<>>, more, request(1, <<>>, tag))
         /\ IsInjective(<<>>)
<1>1. BeginningOf(list, <<>>) /\ Len(<<>>) = 0
  BY EmptyBeginning
<1>2. start(request(1, <<>>, tag)) = 0
  BY <1>1, RequestStart, AlignedZero
<1>3. request(1, <<>>, tag) # None
  BY <1>1, RequestType
<1>4. request(1, <<>>, tag).step = "count" /\ request(1, <<>>, tag).tag = tag
  BY DEF request
<1>5. Descends(<<>>) /\ NoNewer(list, <<>>, 0) /\ IsInjective(<<>>)
  BY DEF Descends, NoNewer, IsInjective
<1>6. FreshAt(list, <<>>, more, request(1, <<>>, tag), tag)
  BY <1>1, <1>2, <1>3, <1>4, AlignedZero DEF FreshAt
<1>7. OrderlyAt(list, <<>>, more, request(1, <<>>, tag))
  BY <1>1, <1>2, <1>3, <1>4, <1>5, AlignedZero DEF OrderlyAt
<1> QED
  BY <1>5, <1>6, <1>7

LEMMA FeedInitIInv == FeedInit => FeedIInv
<1> SUFFICES ASSUME FeedInit PROVE FeedIInv
  OBVIOUS
<1>1. PICK first : first = request(1, <<>>, None)
  OBVIOUS
<1>2. first \in Call /\ first # None /\ call = first /\ first.step = "count" /\ first.tag = None
  <2>1. None \in Tags \cup {None} /\ Len(<<>>) \in Nat /\ 1 \in Nat \ {0}
    OBVIOUS
  <2>2. request(1, <<>>, None) \in Call /\ request(1, <<>>, None) # None
    BY <2>1, RequestType
  <2>3. request(1, <<>>, None).step = "count" /\ request(1, <<>>, None).tag = None
    BY DEF request
  <2> QED
    BY <1>1, <2>2, <2>3 DEF FeedInit
<1>3. FeedTypeOK
  <2>1. blog \in [Posts -> Versions]
    BY PostsAssumption DEF FeedInit, Versions
  <2>2. posts \in Seq(Posts \cup 0..StaticTotal) /\ currentPage \in 1..MaxPage
    BY BoundsAssumption DEF FeedInit
  <2>3. edits \in 0..MaxEdits /\ clicks \in 0..MaxTagClicks
    BY BoundsAssumption DEF FeedInit
  <2>4. /\ {hasMore, isLoading, usingFallback, fresh} \subseteq BOOLEAN
        /\ platform \in {"browser", "server"} /\ activeTag \in Tags \cup {None}
        /\ call \in Call \cup {None} /\ (isLoading <=> call # None)
    BY <1>2 DEF FeedInit
  <2> QED
    BY <2>1, <2>2, <2>3, <2>4 DEF FeedTypeOK
<1>4. PICK list : list = Listing(None)
  OBVIOUS
<1>5. list \in Seq(Posts)
  BY <1>4, ListingNow
<1>6. /\ FreshAt(list, <<>>, hasMore, first, None)
      /\ OrderlyAt(list, <<>>, hasMore, first)
      /\ IsInjective(<<>>)
  <2>1. PICK more : more = hasMore
    OBVIOUS
  <2> QED
    BY <1>1, <1>5, <2>1, FirstRequest
<1>7. Steady
  BY <1>2, <1>6 DEF FeedInit, Steady
<1>8. FreshFeed /\ StaticFeed /\ Orderly
  BY <1>2, <1>4, <1>6 DEF FeedInit, FreshFeed, StaticFeed, Orderly
<1> QED
  BY <1>3, <1>7, <1>8 DEF FeedIInv

\* What the steps of the server and of the pager leave alone.
LEMMA FeedQuiet == FeedIInv /\ UNCHANGED feed_vars => FeedIInv'
<1> SUFFICES ASSUME FeedIInv, UNCHANGED feed_vars PROVE FeedIInv'
  OBVIOUS
<1>1. PICK tag : tag = activeTag
  OBVIOUS
<1>2. UNCHANGED <<blog, platform, posts, currentPage, hasMore, isLoading, usingFallback,
                  activeTag, call, edits, clicks, fresh>>
  BY DEF feed_vars
<1>3. Listing(tag)' = Listing(tag) /\ Listing(None)' = Listing(None)
  BY <1>2, SameListing
<1>4. Listing(activeTag)' = Listing(tag)'
  BY <1>1, <1>2
<1>5. FeedTypeOK'
  BY <1>2 DEF FeedIInv, FeedTypeOK
<1>6. Steady'
  BY <1>2 DEF FeedIInv, Steady
<1>7. FreshFeed'
  BY <1>1, <1>2, <1>3, <1>4 DEF FeedIInv, FreshFeed
<1>8. StaticFeed' /\ Orderly'
  BY <1>2, <1>3 DEF FeedIInv, StaticFeed, Orderly
<1> QED
  BY <1>5, <1>6, <1>7, <1>8 DEF FeedIInv

\* An edit moves the pages, and what is shown is still newer than what can follow.
LEMMA EditedOrderly ==
  ASSUME NEW old \in Seq(Posts), NEW new \in Seq(Posts), Descends(old), Descends(new),
         NEW x, ToSet(new) \subseteq ToSet(old) \cup {x},
         NEW shown \in Seq(Shown), NEW more, NEW tag, NEW c \in Asked \cup {None},
         FreshAt(old, shown, more, c, tag), OrderlyAt(old, shown, more, c)
  PROVE  OrderlyAt(new, shown, more, c)
<1>1. BeginningOf(old, shown) /\ Len(shown) \in Nat /\ Descends(shown)
  BY DEF FreshAt, OrderlyAt
<1>2. NoNewer(new, shown, Len(shown))
  BY <1>1, EditBehind
<1>3. CASE c = None
  BY <1>1, <1>2, <1>3 DEF OrderlyAt, FreshAt
<1>4. CASE c # None /\ c.step # "answer"
  <2>1. start(c) = Len(shown) /\ aligned(Len(shown)) = Len(shown)
    BY <1>4 DEF FreshAt
  <2> QED
    BY <1>1, <1>2, <1>4, <2>1 DEF OrderlyAt
<1>5. CASE c # None /\ c.step = "answer"
  <2>1. c \in Asked
    BY <1>5
  <2>2. PICK next : next = after(shown, c.items)
    OBVIOUS
  <2>3. FreshAt(old, next, Len(next) < c.total, None, tag)
    BY <1>5, <2>1, <2>2, ShownFresh
  <2>4. Len(next) \in Nat
    <3>1. c.items = Page(old, c.page, c.size) /\ c.items \in Seq(Posts)
      BY <1>5, <2>1, AskedType DEF FreshAt
    <3>2. c.page \in Nat \ {0} /\ c.size \in Nat \ {0}
      BY <2>1, AskedType
    <3>3. Descends(c.items)
      BY <3>1, <3>2, PageDescends, PostsAreNumbers
    <3> QED
      BY <2>2, <3>1, <3>3, AfterMembers
  <2>5. BeginningOf(old, next) /\ (Len(next) < c.total => aligned(Len(next)) = Len(next))
    BY <2>3 DEF FreshAt
  <2>6. NoNewer(new, next, Len(next))
    BY <2>4, <2>5, EditBehind
  <2>7. NoNewer(c.items, shown, 0) /\ start(c) = aligned(Len(shown))
    BY <1>5 DEF OrderlyAt
  <2> QED
    BY <1>1, <1>5, <2>2, <2>5, <2>6, <2>7 DEF OrderlyAt
<1> QED
  BY <1>3, <1>4, <1>5

LEMMA EditIInv ==
  ASSUME FeedIInv, NEW p \in Posts, NEW version \in Versions, edit(p, version)
  PROVE  FeedIInv'
<1>1. /\ UNCHANGED <<platform, posts, currentPage, hasMore, isLoading, usingFallback, activeTag,
                     call, clicks>>
      /\ edits < MaxEdits /\ edits' = edits + 1 /\ blog' = [blog EXCEPT ![p] = version]
      /\ fresh' = (fresh /\ usingFallback)
  BY DEF edit, reader
<1>2. FeedTypeOK /\ Steady /\ FreshFeed /\ StaticFeed /\ Orderly
  BY DEF FeedIInv
<1>3. edits \in Nat /\ edits' \in 0..MaxEdits
  BY <1>1, <1>2, BoundsAssumption DEF FeedTypeOK
<1>4. FeedTypeOK'
  <2>1. blog' \in [Posts -> Versions]
    BY <1>1, <1>2 DEF FeedTypeOK
  <2>2. fresh' \in BOOLEAN
    BY <1>1
  <2> QED
    BY <1>1, <1>2, <1>3, <2>1, <2>2 DEF FeedTypeOK
<1>5. Steady'
  <2>1. edits' # 0
    BY <1>1, <1>3
  <2> QED
    BY <1>1, <1>2, <2>1 DEF Steady
<1>6. FreshFeed' /\ StaticFeed'
  <2>1. FreshFeed'
    BY <1>1 DEF FreshFeed
  <2>2. fresh' => fresh
    BY <1>1
  <2>3. StaticFeed'
    BY <1>1, <1>2, <2>2 DEF StaticFeed
  <2> QED
    BY <2>1, <2>3
<1>7. Orderly'
  <2> SUFFICES ASSUME edits' <= 1, clicks = 0, ~usingFallback
               PROVE  OrderlyAt(Listing(None)', posts, hasMore, call)
    BY <1>1 DEF Orderly
  <2>1. edits = 0
    BY <1>1, <1>3
  <2>2. activeTag = None /\ fresh
    BY <1>2, <2>1 DEF Steady
  <2>3. PICK old, new, shown, more, c :
          /\ old = Listing(None) /\ new = Listing(None)' /\ shown = posts /\ more = hasMore
          /\ c = call
    OBVIOUS
  <2>4. FreshAt(old, shown, more, c, None)
    BY <1>2, <2>2, <2>3 DEF FreshFeed
  <2>5. OrderlyAt(old, shown, more, c)
    BY <1>2, <2>1, <2>3 DEF Orderly
  <2>6. old \in Seq(Posts) /\ new \in Seq(Posts) /\ Descends(old) /\ Descends(new)
    BY <2>3, ListingNow
  <2>7. ToSet(new) \subseteq ToSet(old) \cup {p}
    <3>1. ToSet(old) = listed(None) /\ ToSet(new) = listed(None)'
      BY <2>3, ListingNow
    <3>2. \A q \in Posts : q # p => blog'[q] = blog[q]
      BY <1>1, <1>2 DEF FeedTypeOK
    <3>3. listed(None)' \subseteq listed(None) \cup {p}
      BY <3>2 DEF listed
    <3> QED
      BY <3>1, <3>3
  <2>8. shown \in Seq(Shown)
    BY <1>2, <2>3 DEF FeedTypeOK, Shown
  <2>9. c \in Asked \cup {None}
    <3>1. call # None => call.step # "static"
      BY <1>2 DEF Steady
    <3> QED
      BY <1>2, <2>3, <3>1, CallKinds
  <2>10. OrderlyAt(new, shown, more, c)
    BY <2>4, <2>5, <2>6, <2>7, <2>8, <2>9, EditedOrderly
  <2> QED
    BY <2>3, <2>10
<1> QED
  BY <1>4, <1>5, <1>6, <1>7 DEF FeedIInv

\* A statement of the server answers a part of the load, and changes nothing else.
LEMMA CountIInv ==
  ASSUME FeedIInv, list_posts_count
  PROVE  FeedIInv'
<1>1. /\ UNCHANGED <<blog, platform, posts, currentPage, hasMore, isLoading, usingFallback,
                     activeTag, clicks, edits, fresh>>
      /\ call # None /\ call.step = "count"
      /\ call' = [call EXCEPT !.step = "select", !.total = Len(Listing(call.tag))]
  BY DEF list_posts_count, reader
<1>2. FeedTypeOK /\ Steady /\ FreshFeed /\ StaticFeed /\ Orderly
  BY DEF FeedIInv
<1>3. PICK c \in Asked : c = call
  BY <1>1, <1>2, CallKinds
<1>4. PICK list : list = Listing(c.tag)
  OBVIOUS
<1>5. list \in Seq(Posts) /\ Len(list) \in Nat
  <2>1. list \in Seq(Posts)
    BY <1>4, ListingNow
  <2> QED
    BY <2>1
<1>6. PICK d : d = [c EXCEPT !.step = "select", !.total = Len(list)]
  OBVIOUS
<1>7. /\ d \in Asked /\ d.step = "select" /\ d.total = Len(list) /\ d.tag = c.tag
      /\ d.page = c.page /\ d.size = c.size
  BY <1>5, <1>6 DEF Asked
<1>8. call' = d /\ d # None /\ d \in Call
  <2>1. call' = d
    BY <1>1, <1>3, <1>4, <1>6
  <2>2. d # None
    BY <1>7, AskedType
  <2>3. d \in Call
    BY <1>7 DEF Asked, Call
  <2> QED
    BY <2>1, <2>2, <2>3
<1>9. start(d) = start(c)
  BY <1>7 DEF start
<1>10. FeedTypeOK'
  BY <1>1, <1>2, <1>8 DEF FeedTypeOK
<1>11. Steady'
  BY <1>1, <1>2, <1>3, <1>7, <1>8 DEF Steady
<1>12. FreshFeed'
  <2> SUFFICES ASSUME fresh, ~usingFallback
               PROVE  FreshAt(Listing(activeTag)', posts, hasMore, d, activeTag)
    BY <1>1, <1>8 DEF FreshFeed
  <2>1. PICK tag : tag = activeTag
    OBVIOUS
  <2>2. Listing(activeTag)' = Listing(tag)
    <3>1. Listing(activeTag)' = Listing(tag)'
      BY <1>1, <2>1
    <3> QED
      BY <1>1, <3>1, SameListing
  <2>3. FreshAt(Listing(tag), posts, hasMore, c, tag)
    BY <1>2, <1>3, <2>1 DEF FreshFeed
  <2>4. c # None
    BY <1>1, <1>3
  <2>5. c.tag = tag /\ Listing(tag) = list
    BY <1>4, <2>3, <2>4 DEF FreshAt
  <2>6. FreshAt(list, posts, hasMore, d, tag)
    BY <1>7, <1>8, <1>9, <2>3, <2>4, <2>5 DEF FreshAt
  <2> QED
    BY <2>1, <2>2, <2>5, <2>6
<1>13. StaticFeed'
  BY <1>1, <1>2 DEF StaticFeed, Steady
<1>14. Orderly'
  <2> SUFFICES ASSUME edits <= 1, clicks = 0, ~usingFallback
               PROVE  OrderlyAt(Listing(None)', posts, hasMore, d)
    BY <1>1, <1>8 DEF Orderly
  <2>1. OrderlyAt(Listing(None), posts, hasMore, c)
    BY <1>2, <1>3 DEF Orderly
  <2>2. Listing(None)' = Listing(None)
    BY <1>1, SameListing
  <2>3. c # None /\ c.step = "count"
    BY <1>1, <1>3
  <2>4. OrderlyAt(Listing(None), posts, hasMore, d)
    BY <1>7, <1>8, <1>9, <2>1, <2>3 DEF OrderlyAt
  <2> QED
    BY <2>2, <2>4
<1> QED
  BY <1>10, <1>11, <1>12, <1>13, <1>14 DEF FeedIInv

LEMMA SelectIInv ==
  ASSUME FeedIInv, list_posts_select
  PROVE  FeedIInv'
<1>1. /\ UNCHANGED <<blog, platform, posts, currentPage, hasMore, isLoading, usingFallback,
                     activeTag, clicks, edits, fresh>>
      /\ call # None /\ call.step = "select"
      /\ call' = [call EXCEPT !.step = "answer",
                              !.items = Page(Listing(call.tag), call.page, call.size)]
  BY DEF list_posts_select, reader
<1>2. FeedTypeOK /\ Steady /\ FreshFeed /\ StaticFeed /\ Orderly
  BY DEF FeedIInv
<1>3. PICK c \in Asked : c = call
  BY <1>1, <1>2, CallKinds
<1>4. PICK list : list = Listing(c.tag)
  OBVIOUS
<1>5. list \in Seq(Posts) /\ Descends(list)
  BY <1>4, ListingNow
<1>6. PICK items : items = Page(list, c.page, c.size)
  OBVIOUS
<1>7. items \in Seq(Posts) /\ Descends(items)
  <2>1. PICK page \in Nat \ {0}, size \in Nat \ {0} : page = c.page /\ size = c.size
    BY AskedType
  <2>2. PICK from \in Nat : from = offset(page, size)
    BY OffsetIsNat
  <2>3. Page(list, page, size) \in Seq(Posts)
    BY <1>5, <2>2, PageMembers
  <2>4. Descends(Page(list, page, size))
    BY <1>5, PageDescends, PostsAreNumbers
  <2> QED
    BY <1>6, <2>1, <2>3, <2>4
<1>8. PICK d : d = [c EXCEPT !.step = "answer", !.items = items]
  OBVIOUS
<1>9. /\ d \in Asked /\ d.step = "answer" /\ d.total = c.total /\ d.tag = c.tag
      /\ d.page = c.page /\ d.size = c.size /\ d.items = items
  BY <1>7, <1>8 DEF Asked
<1>10. call' = d /\ d # None /\ d \in Call
  <2>1. call' = d
    BY <1>1, <1>3, <1>4, <1>6, <1>8
  <2>2. d # None
    BY <1>9, AskedType
  <2>3. d \in Call
    BY <1>9 DEF Asked, Call
  <2> QED
    BY <2>1, <2>2, <2>3
<1>11. start(d) = start(c)
  BY <1>9 DEF start
<1>12. FeedTypeOK'
  BY <1>1, <1>2, <1>10 DEF FeedTypeOK
<1>13. Steady'
  BY <1>1, <1>2, <1>3, <1>7, <1>9, <1>10 DEF Steady
<1>14. FreshFeed'
  <2> SUFFICES ASSUME fresh, ~usingFallback
               PROVE  FreshAt(Listing(activeTag)', posts, hasMore, d, activeTag)
    BY <1>1, <1>10 DEF FreshFeed
  <2>1. PICK tag : tag = activeTag
    OBVIOUS
  <2>2. Listing(activeTag)' = Listing(tag)
    <3>1. Listing(activeTag)' = Listing(tag)'
      BY <1>1, <2>1
    <3> QED
      BY <1>1, <3>1, SameListing
  <2>3. FreshAt(Listing(tag), posts, hasMore, c, tag)
    BY <1>2, <1>3, <2>1 DEF FreshFeed
  <2>4. c # None /\ c.step # "count"
    BY <1>1, <1>3
  <2>5. c.tag = tag /\ Listing(tag) = list /\ c.total = Len(list)
    BY <1>4, <2>3, <2>4 DEF FreshAt
  <2>6. FreshAt(list, posts, hasMore, d, tag)
    BY <1>6, <1>9, <1>10, <1>11, <2>3, <2>4, <2>5 DEF FreshAt
  <2> QED
    BY <2>1, <2>2, <2>5, <2>6
<1>15. StaticFeed'
  BY <1>1, <1>2 DEF StaticFeed, Steady
<1>16. Orderly'
  <2> SUFFICES ASSUME edits <= 1, clicks = 0, ~usingFallback
               PROVE  OrderlyAt(Listing(None)', posts, hasMore, d)
    BY <1>1, <1>10 DEF Orderly
  <2>1. PICK shown \in Seq(Shown), more \in {hasMore} : shown = posts /\ more = hasMore
    <3>1. posts \in Seq(Shown)
      BY <1>2 DEF FeedTypeOK, Shown
    <3> QED
      BY <3>1
  <2>2. c.tag = None /\ list = Listing(None)
    BY <1>1, <1>2, <1>3, <1>4 DEF Steady
  <2>3. OrderlyAt(list, shown, more, c)
    BY <1>2, <1>3, <2>1, <2>2 DEF Orderly
  <2>4. Listing(None)' = list
    BY <1>1, <2>2, SameListing
  <2>5. c.step = "select"
    BY <1>1, <1>3
  <2>6. OrderlyAt(list, shown, more, d)
    BY <1>5, <1>6, <1>9, <2>3, <2>5, SelectedOrderly
  <2> QED
    BY <2>1, <2>4, <2>6
<1> QED
  BY <1>12, <1>13, <1>14, <1>15, <1>16 DEF FeedIInv

LEMMA LoadedIInv ==
  ASSUME FeedIInv, loaded
  PROVE  FeedIInv'
<1>1. /\ UNCHANGED <<blog, platform, currentPage, usingFallback, activeTag, edits, clicks, fresh>>
      /\ call # None /\ call.step = "answer" /\ call' = None /\ isLoading' = FALSE
      /\ posts' = after(posts, call.items)
      /\ hasMore' = (Len(posts') < call.total)
  BY DEF loaded, show, after, new_posts
<1>2. FeedTypeOK /\ Steady /\ FreshFeed /\ StaticFeed /\ Orderly
  BY DEF FeedIInv
<1>3. PICK c \in Asked : c = call
  BY <1>1, <1>2, CallKinds
<1>4. c # None /\ c.step = "answer" /\ c.items \in Seq(Posts) /\ Descends(c.items)
  <2>1. c # None /\ c.step = "answer" /\ Descends(c.items)
    BY <1>1, <1>2, <1>3 DEF Steady
  <2> QED
    BY <2>1, AskedType
<1>5. PICK shown \in Seq(Shown), more \in {hasMore} : shown = posts /\ more = hasMore
  <2>1. posts \in Seq(Shown)
    BY <1>2 DEF FeedTypeOK, Shown
  <2> QED
    BY <2>1
<1>6. PICK next : next = after(shown, c.items)
  OBVIOUS
<1>7. /\ next \in Seq(Shown) /\ Len(next) \in Nat
      /\ IsInjective(shown) => IsInjective(next)
      /\ Descends(shown) /\ NoNewer(c.items, shown, 0) => Descends(next)
  BY <1>4, <1>6, AfterMembers
<1>8. posts' = next /\ hasMore' = (Len(next) < c.total)
  BY <1>1, <1>3, <1>5, <1>6
<1>9. ~usingFallback
  BY <1>1, <1>2 DEF Steady
<1>10. FeedTypeOK'
  <2>1. posts' \in Seq(Posts \cup 0..StaticTotal)
    BY <1>7, <1>8 DEF Shown
  <2>2. hasMore' \in BOOLEAN
    BY <1>8
  <2> QED
    BY <1>1, <1>2, <2>1, <2>2 DEF FeedTypeOK
<1>11. Steady'
  BY <1>1, <1>2, <1>5, <1>7, <1>8 DEF Steady
<1>12. FreshFeed'
  <2> SUFFICES ASSUME fresh
               PROVE  FreshAt(Listing(activeTag)', next, Len(next) < c.total, None, activeTag)
    BY <1>1, <1>8 DEF FreshFeed
  <2>1. PICK tag : tag = activeTag
    OBVIOUS
  <2>2. PICK list : list = Listing(tag)
    OBVIOUS
  <2>3. Listing(activeTag)' = list
    <3>1. Listing(activeTag)' = Listing(tag)'
      BY <1>1, <2>1
    <3> QED
      BY <1>1, <2>2, <3>1, SameListing
  <2>4. FreshAt(list, shown, more, c, tag)
    BY <1>2, <1>3, <1>5, <1>9, <2>1, <2>2 DEF FreshFeed
  <2>5. list \in Seq(Posts) /\ Descends(list)
    BY <2>2, ListingNow
  <2>6. FreshAt(list, next, Len(next) < c.total, None, tag)
    BY <1>4, <1>6, <2>4, <2>5, ShownFresh
  <2> QED
    BY <2>1, <2>3, <2>6
<1>13. StaticFeed'
  BY <1>1, <1>9 DEF StaticFeed
<1>14. Orderly'
  <2> SUFFICES ASSUME edits <= 1, clicks = 0
               PROVE  OrderlyAt(Listing(None)', next, Len(next) < c.total, None)
    BY <1>1, <1>8 DEF Orderly
  <2>1. PICK list : list = Listing(None)
    OBVIOUS
  <2>2. Listing(None)' = list
    BY <1>1, <2>1, SameListing
  <2>3. OrderlyAt(list, shown, more, c)
    BY <1>2, <1>3, <1>5, <1>9, <2>1 DEF Orderly
  <2>4. /\ Descends(shown) /\ NoNewer(c.items, shown, 0)
        /\ Len(next) < c.total => NoNewer(list, next, aligned(Len(next)))
    BY <1>4, <1>6, <2>3 DEF OrderlyAt
  <2>5. OrderlyAt(list, next, Len(next) < c.total, None)
    BY <1>7, <2>4 DEF OrderlyAt
  <2> QED
    BY <2>2, <2>5
<1> QED
  BY <1>10, <1>11, <1>12, <1>13, <1>14 DEF FeedIInv

LEMMA LoadFailedIInv ==
  ASSUME FeedIInv, load_failed
  PROVE  FeedIInv'
<1>1. /\ UNCHANGED <<blog, platform, posts, currentPage, hasMore, isLoading, activeTag, edits, clicks>>
      /\ call # None /\ call.step # "static" /\ usingFallback' = TRUE
      /\ fresh' = (currentPage = 1)
      /\ call' = static_request(currentPage, IF platform = "browser" THEN loadMoreSize ELSE call.size)
  BY DEF load_failed
<1>2. FeedTypeOK /\ Steady
  BY DEF FeedIInv
<1>3. call \in Asked
  BY <1>1, <1>2, CallKinds
<1>4. PICK page \in 1..MaxPage : page = currentPage
  BY <1>2 DEF FeedTypeOK
<1>5. PICK size \in {pageSize, loadMoreSize} :
        size = IF platform = "browser" THEN loadMoreSize ELSE call.size
  <2>1. call.size \in {pageSize, loadMoreSize}
    BY <1>3, AskedType
  <2> QED
    BY <2>1
<1>6. PICK d : d = static_request(page, size)
  OBVIOUS
<1>7. d \in Call /\ d # None /\ d.step = "static" /\ d.page = page /\ d.size = size
  <2>1. d \in Call /\ d # None
    BY <1>6, CopyRequestType
  <2> QED
    BY <1>6, <2>1 DEF static_request
<1>8. call' = d
  BY <1>1, <1>4, <1>5, <1>6
<1>9. FeedTypeOK'
  <2>1. fresh' \in BOOLEAN /\ usingFallback' \in BOOLEAN
    BY <1>1
  <2> QED
    BY <1>1, <1>2, <1>7, <1>8, <2>1 DEF FeedTypeOK
<1>10. Steady'
  BY <1>1, <1>2, <1>7, <1>8 DEF Steady
<1>11. FreshFeed' /\ Orderly'
  BY <1>1 DEF FreshFeed, Orderly
<1>12. StaticFeed'
  <2> SUFFICES ASSUME currentPage = 1
               PROVE  StaticAt(StaticPosts, posts, hasMore, d, currentPage, platform)
    BY <1>1, <1>8 DEF StaticFeed
  <2>1. posts = <<>>
    BY <1>1, <1>2 DEF Steady
  <2>2. PICK list : list = StaticPosts
    OBVIOUS
  <2>3. BeginningOf(list, <<>>) /\ Len(<<>>) = 0
    BY <2>2, StaticList, EmptyBeginning
  <2>4. start(d) = 0
    <3>1. start(d) = (1 - 1) * size
      BY <1>4, <1>7 DEF start, offset
    <3>2. size \in Nat
      BY Sizes
    <3> QED
      BY <3>1, <3>2
  <2>5. d.page = 1 /\ (platform = "browser" => d.size = loadMoreSize)
    BY <1>4, <1>5, <1>7
  <2>6. StaticAt(list, <<>>, hasMore, d, 1, platform)
    BY <1>7, <2>3, <2>4, <2>5 DEF StaticAt
  <2> QED
    BY <2>1, <2>2, <2>6
<1> QED
  BY <1>9, <1>10, <1>11, <1>12 DEF FeedIInv

LEMMA StaticShownIInv ==
  ASSUME FeedIInv, getStaticPosts
  PROVE  FeedIInv'
<1>1. /\ UNCHANGED <<blog, platform, currentPage, usingFallback, activeTag, edits, clicks, fresh>>
      /\ call # None /\ call.step = "static" /\ call' = None /\ isLoading' = FALSE
      /\ posts' = posts \o Page(StaticPosts, call.page, call.size)
      /\ hasMore' = (Len(posts') < StaticTotal)
  BY DEF getStaticPosts, show
<1>2. FeedTypeOK /\ Steady /\ StaticFeed
  BY DEF FeedIInv
<1>3. PICK c \in AskedCopy : c = call
  BY <1>1, <1>2, CallKinds
<1>4. usingFallback
  BY <1>1, <1>2 DEF Steady
<1>5. PICK list \in Seq(Shown) : list = StaticPosts
  BY StaticList
<1>6. PICK shown \in Seq(Shown), more \in {hasMore} : shown = posts /\ more = hasMore
  <2>1. posts \in Seq(Shown)
    BY <1>2 DEF FeedTypeOK, Shown
  <2> QED
    BY <2>1
<1>7. PICK next : next = shown \o Page(list, c.page, c.size)
  OBVIOUS
<1>8. posts' = next /\ hasMore' = (Len(next) < Len(list))
  BY <1>1, <1>3, <1>5, <1>6, <1>7, StaticList
<1>9. next \in Seq(Shown)
  <2>1. c.page \in Nat \ {0} /\ c.size \in Nat \ {0}
    BY Sizes, BoundsAssumption DEF AskedCopy
  <2>2. PICK page \in Nat \ {0}, size \in Nat \ {0} : page = c.page /\ size = c.size
    BY <2>1
  <2>3. PICK from \in Nat : from = offset(page, size)
    BY OffsetIsNat
  <2>4. Page(list, page, size) \in Seq(Shown)
    BY <2>3, PageMembers
  <2> QED
    BY <1>7, <2>2, <2>4, ConcatMembers
<1>10. FeedTypeOK'
  <2>1. posts' \in Seq(Posts \cup 0..StaticTotal)
    BY <1>8, <1>9 DEF Shown
  <2>2. hasMore' \in BOOLEAN
    BY <1>8
  <2> QED
    BY <1>1, <1>2, <2>1, <2>2 DEF FeedTypeOK
<1>11. Steady'
  BY <1>1, <1>2, <1>4 DEF Steady
<1>12. FreshFeed' /\ Orderly'
  BY <1>1, <1>4 DEF FreshFeed, Orderly
<1>13. StaticFeed'
  <2> SUFFICES ASSUME fresh
               PROVE  StaticAt(list, next, Len(next) < Len(list), None, currentPage, platform)
    <3>1. StaticPosts' = StaticPosts
      OBVIOUS
    <3> QED
      BY <1>1, <1>5, <1>8 DEF StaticFeed
  <2>1. PICK page, where : page = currentPage /\ where = platform
    OBVIOUS
  <2>2. StaticAt(list, shown, more, c, page, where)
    BY <1>2, <1>3, <1>4, <1>5, <1>6, <2>1 DEF StaticFeed
  <2>3. StaticAt(list, next, Len(next) < Len(list), None, page, where)
    BY <1>7, <2>2, ShownStatic
  <2> QED
    BY <2>1, <2>3
<1> QED
  BY <1>10, <1>11, <1>12, <1>13 DEF FeedIInv

LEMMA StaticFailedIInv ==
  ASSUME FeedIInv, static_failed
  PROVE  FeedIInv'
<1>1. /\ UNCHANGED <<blog, platform, posts, currentPage, hasMore, usingFallback, activeTag, edits,
                     clicks>>
      /\ call # None /\ call.step = "static" /\ call' = None /\ isLoading' = FALSE /\ fresh' = FALSE
  BY DEF static_failed
<1>2. FeedTypeOK /\ Steady
  BY DEF FeedIInv
<1>3. usingFallback
  BY <1>1, <1>2 DEF Steady
<1>4. FeedTypeOK'
  BY <1>1, <1>2 DEF FeedTypeOK
<1>5. Steady'
  BY <1>1, <1>2, <1>3 DEF Steady
<1>6. FreshFeed' /\ StaticFeed' /\ Orderly'
  BY <1>1, <1>3 DEF FreshFeed, StaticFeed, Orderly
<1> QED
  BY <1>4, <1>5, <1>6 DEF FeedIInv

LEMMA LoadMoreIInv ==
  ASSUME FeedIInv, loadMore
  PROVE  FeedIInv'
<1>1. /\ UNCHANGED <<blog, platform, posts, hasMore, usingFallback, activeTag, edits, clicks, fresh>>
      /\ platform = "browser" /\ hasMore /\ ~isLoading /\ currentPage < MaxPage
      /\ currentPage' = currentPage + 1 /\ isLoading' = TRUE
      /\ call' = IF usingFallback THEN static_request(currentPage', effectivePageSize(currentPage'))
                                  ELSE request(currentPage', posts, activeTag)
  BY DEF loadMore, loadPosts
<1>2. FeedTypeOK /\ Steady /\ FreshFeed /\ StaticFeed /\ Orderly
  BY DEF FeedIInv
<1>3. PICK before \in 1..MaxPage : before = currentPage
  BY <1>2 DEF FeedTypeOK
<1>4. PICK page \in 1..MaxPage : page = before + 1 /\ page = currentPage'
  <2>1. before + 1 \in 1..MaxPage
    BY <1>1, <1>3, BoundsAssumption
  <2> QED
    BY <1>1, <1>3, <2>1
<1>5. page \in Nat \ {0} /\ page # 1 /\ before \in Nat
  BY <1>3, <1>4
<1>6. PICK shown \in Seq(Shown) : shown = posts
  BY <1>2 DEF FeedTypeOK, Shown
<1>7. PICK tag \in Tags \cup {None} : tag = activeTag
  BY <1>2 DEF FeedTypeOK
<1>8. Len(shown) \in Nat /\ call = None
  BY <1>1, <1>2 DEF FeedTypeOK
<1>9. effectivePageSize(page) = loadMoreSize
  BY <1>5 DEF effectivePageSize
<1>10. CASE usingFallback
  <2>1. PICK d : d = static_request(page, loadMoreSize)
    OBVIOUS
  <2>2. d \in Call /\ d # None
    BY <2>1, CopyRequestType
  <2>3. d.step = "static" /\ d.page = page /\ d.size = loadMoreSize
    BY <2>1 DEF static_request
  <2>4. call' = d
    BY <1>1, <1>4, <1>9, <1>10, <2>1
  <2>5. FeedTypeOK'
    BY <1>1, <1>2, <1>4, <2>2, <2>4 DEF FeedTypeOK
  <2>6. Steady'
    BY <1>1, <1>2, <1>4, <1>5, <1>10, <2>2, <2>3, <2>4 DEF Steady
  <2>7. FreshFeed' /\ Orderly'
    BY <1>1, <1>10 DEF FreshFeed, Orderly
  <2>8. StaticFeed'
    <3> SUFFICES ASSUME fresh
                 PROVE  StaticAt(StaticPosts, shown, hasMore, d, page, platform)
      <4>1. StaticPosts' = StaticPosts
        OBVIOUS
      <4> QED
        BY <1>1, <1>4, <1>6, <2>4, <4>1 DEF StaticFeed
    <3>1. BeginningOf(StaticPosts, shown) /\ Len(shown) = before * loadMoreSize
      BY <1>1, <1>2, <1>3, <1>6, <1>8, <1>10 DEF StaticFeed, StaticAt
    <3>2. start(d) = (page - 1) * loadMoreSize /\ page - 1 = before
      BY <1>4, <1>5, <2>3 DEF start, offset
    <3> QED
      BY <2>2, <2>3, <3>1, <3>2 DEF StaticAt
  <2> QED
    BY <2>5, <2>6, <2>7, <2>8 DEF FeedIInv
<1>11. CASE ~usingFallback
  <2>1. PICK d : d = request(page, shown, tag)
    OBVIOUS
  <2>2. d \in Call /\ d # None
    BY <1>5, <1>8, <2>1, RequestType
  <2>3. d.step = "count" /\ d.tag = tag
    BY <2>1 DEF request
  <2>4. start(d) = aligned(Len(shown))
    BY <1>5, <1>8, <2>1, RequestStart
  <2>5. call' = d
    BY <1>1, <1>4, <1>6, <1>7, <1>11, <2>1
  <2>6. FeedTypeOK'
    BY <1>1, <1>2, <1>4, <2>2, <2>5 DEF FeedTypeOK
  <2>7. Steady'
    BY <1>1, <1>2, <1>4, <1>5, <1>7, <1>11, <2>2, <2>3, <2>5 DEF Steady
  <2>8. StaticFeed'
    BY <1>1, <1>11 DEF StaticFeed
  <2>9. FreshFeed'
    <3> SUFFICES ASSUME fresh
                 PROVE  FreshAt(Listing(activeTag)', shown, hasMore, d, tag)
      BY <1>1, <1>6, <1>7, <2>5 DEF FreshFeed
    <3>1. Listing(activeTag)' = Listing(tag)
      <4>1. Listing(activeTag)' = Listing(tag)'
        BY <1>1, <1>7
      <4> QED
        BY <1>1, <4>1, SameListing
    <3>2. FreshAt(Listing(tag), shown, hasMore, None, tag)
      BY <1>2, <1>6, <1>7, <1>8, <1>11 DEF FreshFeed
    <3>3. BeginningOf(Listing(tag), shown) /\ aligned(Len(shown)) = Len(shown)
      BY <1>1, <3>2 DEF FreshAt
    <3>4. FreshAt(Listing(tag), shown, hasMore, d, tag)
      BY <2>2, <2>3, <2>4, <3>3 DEF FreshAt
    <3> QED
      BY <3>1, <3>4
  <2>10. Orderly'
    <3> SUFFICES ASSUME edits <= 1, clicks = 0
                 PROVE  OrderlyAt(Listing(None)', shown, hasMore, d)
      BY <1>1, <1>6, <2>5 DEF Orderly
    <3>1. Listing(None)' = Listing(None)
      BY <1>1, SameListing
    <3>2. OrderlyAt(Listing(None), shown, hasMore, None)
      BY <1>2, <1>6, <1>8, <1>11 DEF Orderly
    <3>3. Descends(shown) /\ NoNewer(Listing(None), shown, aligned(Len(shown)))
      BY <1>1, <3>2 DEF OrderlyAt
    <3>4. OrderlyAt(Listing(None), shown, hasMore, d)
      BY <2>2, <2>3, <2>4, <3>3 DEF OrderlyAt
    <3> QED
      BY <3>1, <3>4
  <2> QED
    BY <2>6, <2>7, <2>8, <2>9, <2>10 DEF FeedIInv
<1> QED
  BY <1>10, <1>11

\* A load that is under way when a tag is clicked keeps its page: the list is not fresh.
LEMMA FilterIInv ==
  ASSUME FeedIInv, NEW tag \in Tags \cup {None}, filter(tag)
  PROVE  FeedIInv'
<1>1. /\ UNCHANGED <<blog, platform, usingFallback, edits>>
      /\ platform = "browser" /\ clicks < MaxTagClicks /\ clicks' = clicks + 1
      /\ activeTag' = tag /\ posts' = <<>> /\ currentPage' = 1 /\ hasMore' = FALSE
      /\ fresh' = (~isLoading /\ ~usingFallback)
  BY DEF filter
<1>2. FeedTypeOK /\ Steady
  BY DEF FeedIInv
<1>3. clicks \in Nat /\ clicks' \in 0..MaxTagClicks /\ clicks' # 0
  BY <1>1, <1>2, BoundsAssumption DEF FeedTypeOK
<1>4. /\ posts' \in Seq(Posts \cup 0..StaticTotal) /\ currentPage' \in 1..MaxPage
      /\ {hasMore', fresh'} \subseteq BOOLEAN
  <2>1. posts' \in Seq(Posts \cup 0..StaticTotal) /\ currentPage' \in 1..MaxPage
    BY <1>1, BoundsAssumption
  <2>2. hasMore' \in BOOLEAN
    BY <1>1
  <2>3. fresh' \in BOOLEAN
    BY <1>1
  <2> QED
    BY <2>1, <2>2, <2>3
<1>5. IsInjective(<<>>)
  BY DEF IsInjective
<1>6. Orderly'
  BY <1>1, <1>3 DEF Orderly
<1>7. StaticFeed'
  BY <1>1 DEF StaticFeed
<1>8. CASE isLoading
  <2>1. UNCHANGED <<isLoading, call>>
    BY <1>8 DEF filter
  <2>2. FeedTypeOK'
    BY <1>1, <1>2, <1>3, <1>4, <2>1 DEF FeedTypeOK
  <2>3. Steady'
    BY <1>1, <1>2, <1>3, <1>5, <2>1 DEF Steady
  <2>4. FreshFeed'
    BY <1>1, <1>8 DEF FreshFeed
  <2> QED
    BY <1>6, <1>7, <2>2, <2>3, <2>4 DEF FeedIInv
<1>9. CASE ~isLoading
  <2>1. /\ isLoading' = TRUE
        /\ call' = IF usingFallback THEN static_request(1, effectivePageSize(1))
                                    ELSE request(1, <<>>, tag)
    BY <1>9 DEF filter, loadPosts
  <2>2. CASE usingFallback
    <3>1. PICK d : d = static_request(1, pageSize)
      OBVIOUS
    <3>2. d \in Call /\ d # None /\ d.step = "static"
      <4>1. 1 \in 1..MaxPage
        BY BoundsAssumption
      <4>2. d \in Call /\ d # None
        BY <3>1, <4>1, CopyRequestType
      <4> QED
        BY <3>1, <4>2 DEF static_request
    <3>3. call' = d
      BY <2>1, <2>2, <3>1 DEF effectivePageSize
    <3>4. FeedTypeOK'
      BY <1>1, <1>2, <1>3, <1>4, <2>1, <3>2, <3>3 DEF FeedTypeOK
    <3>5. Steady'
      BY <1>1, <1>2, <1>3, <2>2, <3>2, <3>3 DEF Steady
    <3>6. FreshFeed'
      BY <1>1, <2>2 DEF FreshFeed
    <3> QED
      BY <1>6, <1>7, <3>4, <3>5, <3>6 DEF FeedIInv
  <2>3. CASE ~usingFallback
    <3>1. PICK d : d = request(1, <<>>, tag)
      OBVIOUS
    <3>2. d \in Call /\ d # None /\ d.step = "count"
      <4>1. Len(<<>>) \in Nat /\ 1 \in Nat \ {0}
        OBVIOUS
      <4>2. d \in Call /\ d # None
        BY <3>1, <4>1, RequestType
      <4> QED
        BY <3>1, <4>2 DEF request
    <3>3. call' = d
      BY <2>1, <2>3, <3>1
    <3>4. FeedTypeOK'
      BY <1>1, <1>2, <1>3, <1>4, <2>1, <3>2, <3>3 DEF FeedTypeOK
    <3>5. Steady'
      BY <1>1, <1>2, <1>3, <1>5, <2>3, <3>2, <3>3 DEF Steady
    <3>6. FreshFeed'
      <4>1. PICK list : list = Listing(tag)'
        OBVIOUS
      <4>2. list \in Seq(Posts)
        BY <4>1, ListingNow
      <4>3. FreshAt(list, <<>>, FALSE, d, tag)
        BY <3>1, <4>2, FirstRequest
      <4>4. Listing(activeTag)' = list
        BY <1>1, <4>1
      <4> QED
        BY <1>1, <3>3, <4>3, <4>4 DEF FreshFeed
    <3> QED
      BY <1>6, <1>7, <3>4, <3>5, <3>6 DEF FeedIInv
  <2> QED
    BY <2>2, <2>3
<1> QED
  BY <1>2, <1>8, <1>9

LEMMA FeedNextIInv == FeedIInv /\ [FeedNext]_feed_vars => FeedIInv'
<1> SUFFICES ASSUME FeedIInv, [FeedNext]_feed_vars PROVE FeedIInv'
  OBVIOUS
<1>1. ASSUME NEW p \in Posts, NEW version \in Versions, edit(p, version) PROVE FeedIInv'
  BY <1>1, EditIInv
<1>2. CASE list_posts_count
  BY <1>2, CountIInv
<1>3. CASE list_posts_select
  BY <1>3, SelectIInv
<1>4. CASE loaded
  BY <1>4, LoadedIInv
<1>5. CASE load_failed
  BY <1>5, LoadFailedIInv
<1>6. CASE getStaticPosts
  BY <1>6, StaticShownIInv
<1>7. CASE static_failed
  BY <1>7, StaticFailedIInv
<1>8. CASE loadMore
  BY <1>8, LoadMoreIInv
<1>9. CASE clearTagFilter
  <2>1. None \in Tags \cup {None} /\ filter(None)
    BY <1>9 DEF clearTagFilter
  <2> QED
    BY <2>1, FilterIInv
<1>10. ASSUME NEW tag \in Tags, filterByTag(tag) PROVE FeedIInv'
  <2>1. tag \in Tags \cup {None} /\ filter(tag)
    BY <1>10 DEF filterByTag
  <2> QED
    BY <2>1, FilterIInv
<1>11. CASE Rest \/ UNCHANGED feed_vars
  BY <1>11, FeedQuiet DEF Rest
<1> QED
  BY <1>1, <1>2, <1>3, <1>4, <1>5, <1>6, <1>7, <1>8, <1>9, <1>10, <1>11 DEF FeedNext

LEMMA FeedInductive == FeedSpec => []FeedIInv
BY FeedInitIInv, FeedNextIInv, PTL DEF FeedSpec

LEMMA FreshImplied == FeedIInv => FreshFeedIsPrefix
<1> SUFFICES ASSUME FeedIInv, fresh, ~isLoading
             PROVE  IsPrefix(posts, Source) /\ (hasMore <=> posts # Source)
  BY DEF FreshFeedIsPrefix
<1>1. FeedTypeOK /\ FreshFeed /\ StaticFeed
  BY DEF FeedIInv
<1>2. call = None /\ posts \in Seq(Shown)
  BY <1>1 DEF FeedTypeOK, Shown
<1>3. PICK list \in Seq(Shown) : list = Source
  <2>1. Listing(activeTag) \in Seq(Shown)
    <3>1. PICK tag : tag = activeTag
      OBVIOUS
    <3>2. Listing(tag) \in Seq(Posts)
      BY ListingNow
    <3> QED
      BY <3>1, <3>2, ShownAreNumbers, SeqMonotonic
  <2>2. Source \in Seq(Shown)
    BY <2>1, StaticList DEF Source
  <2> QED
    BY <2>2
<1>4. BeginningOf(list, posts) /\ (hasMore <=> Len(posts) < Len(list))
  <2>1. CASE usingFallback
    BY <1>1, <1>2, <1>3, <2>1 DEF StaticFeed, StaticAt, Source
  <2>2. CASE ~usingFallback
    BY <1>1, <1>2, <1>3, <2>2 DEF FreshFeed, FreshAt, Source
  <2> QED
    BY <2>1, <2>2
<1>5. PICK shown \in Seq(Shown) : shown = posts
  BY <1>2
<1>6. Len(shown) \in Nat /\ Len(list) \in Nat
  OBVIOUS
<1>7. Len(shown) <= Len(list) /\ shown = SubSeq(list, 1, Len(shown))
  BY <1>4, <1>5 DEF BeginningOf
<1>8. SubSeq(shown, 1, Len(shown)) = shown /\ SubSeq(list, 1, Len(list)) = list
  BY SubSeqFull
<1>9. IsPrefix(shown, list)
  BY <1>7, <1>8 DEF IsPrefix
<1>10. Len(shown) < Len(list) <=> shown # list
  <2>1. ASSUME ~(Len(shown) < Len(list)) PROVE shown = list
    <3>1. Len(shown) = Len(list)
      BY <1>6, <1>7, <2>1
    <3> QED
      BY <1>7, <1>8, <3>1
  <2>2. ASSUME Len(shown) < Len(list) PROVE shown # list
    BY <1>6, <2>2
  <2> QED
    BY <2>1, <2>2
<1> QED
  BY <1>3, <1>4, <1>5, <1>9, <1>10

LEMMA NoPostTwiceImplied == FeedIInv => NoPostTwice
<1> SUFFICES ASSUME FeedIInv, ~usingFallback
             PROVE  IsInjective(posts) /\ (edits <= 1 /\ clicks = 0 => NewestFirst)
  BY DEF NoPostTwice
<1>1. IsInjective(posts)
  BY DEF FeedIInv, Steady
<1>2. edits <= 1 /\ clicks = 0 => Descends(posts)
  BY DEF FeedIInv, Orderly, OrderlyAt
<1> QED
  BY <1>1, <1>2 DEF Descends, NewestFirst

\* The pager's state is what its variables say.
THEOREM FeedTypeCorrect == FeedSpec => []FeedTypeOK
<1>1. FeedIInv => FeedTypeOK
  BY DEF FeedIInv
<1> QED
  BY <1>1, FeedInductive, PTL

\* A list that nothing came in between of is a beginning of what list_posts would
\* list, or of the static copy, and "load more" is offered exactly if there is more.
THEOREM FreshFeedReadsOn == FeedSpec => []FreshFeedIsPrefix
BY FreshImplied, FeedInductive, PTL

\* No post is shown twice, whatever is edited or clicked between two pages; and
\* after one edit the list is still newest first.
THEOREM NothingIsShownTwice == FeedSpec => []NoPostTwice
BY NoPostTwiceImplied, FeedInductive, PTL

\* The pager's own state, and no post twice in it.
THEOREM FeedConsistencyHolds == FeedSpec => []FeedConsistent
<1>1. FeedIInv => FeedConsistent
  BY NoPostTwiceImplied DEF FeedIInv, FeedConsistent
<1> QED
  BY <1>1, FeedInductive, PTL
==============================================================================
