---------------------------- MODULE PostDeskProofs ----------------------------
(***************************************************************************)
(* Theorems about PostDesk, for any number of tabs, posts, saves and tag   *)
(* operations.                                                             *)
(*                                                                         *)
(* What a tab carries from get_embedding to its commit is the embedding of *)
(* its own form; an UPDATE that finds the row as it was read leaves it     *)
(* with exactly that text, and an INSERT always does.                      *)
(***************************************************************************)
EXTENDS PostDesk, WellFoundedInduction, TLAPS

RowFields == {"slug", "suffix", "language", "title", "content", "tags", "embedding"}
TabFields == {"pc", "kind", "id", "form", "loaded", "seen", "old", "made"}

RowOK(row) == DOMAIN row = RowFields
Indexed(row) == row.embedding \in Embeddings(row)

\* What a tab holds at each step of its request.
TabOK(tab) ==
  /\ DOMAIN tab = TabFields /\ RowOK(tab.form)
  /\ tab.kind = "edit" /\ tab.pc \notin {"idle", "closed"} => tab.id \in Ids
  /\ tab.pc \in {"select", "commit"} => tab.kind = "edit"
  /\ tab.pc \in {"commit", "insert", "retry"} => Indexed(tab.form)

TabsOK == session = [s \in Sessions |-> session[s]] /\ \A s \in Sessions : TabOK(session[s])
RowsOK == posts = [id \in Ids |-> posts[id]] /\ \A id \in Live : RowOK(posts[id])

IInv == TabsOK /\ RowsOK /\ EmbeddingFollowsText

-----------------------------------------------------------------------------
(* Tabs.                                                                   *)

LEMMA UnusedOK == TabOK(Unused) /\ Unused.pc = "idle" /\ Unused.kind = "edit"
BY DEF TabOK, Unused, Start, Post_from, RowOK, RowFields, TabFields, Ids

LEMMA ClosedOK == ASSUME NEW tab PROVE TabOK(Closed(tab))
BY UnusedOK DEF Closed, TabOK, Unused, Start, Post_from, RowOK, RowFields, TabFields

\* Moving on to a step that asks for nothing the tab has not.
LEMMA MoveOK ==
  ASSUME NEW tab, TabOK(tab), NEW step, step \notin {"commit", "insert", "retry"},
         tab.kind = "edit" => tab.id \in Ids, step = "select" => tab.kind = "edit"
  PROVE  TabOK([tab EXCEPT !.pc = step])
BY DEF TabOK, TabFields

LEMMA OpenOK ==
  ASSUME NEW tab, TabOK(tab), tab.kind = "edit" => tab.id \in Ids
  PROVE  TabOK(Open(tab))
BY DEF Open, TabOK, TabFields, RowOK, RowFields

\* One tab is replaced by a good one.
LEMMA StepOK ==
  ASSUME TabsOK, NEW s \in Sessions, NEW tab, TabOK(tab), Step(s, tab)
  PROVE  TabsOK'
BY DEF TabsOK, Step

LEMMA RefuseOK == ASSUME TabsOK, NEW s \in Sessions, session[s].pc \in Server, Refuse(s) PROVE TabsOK'
<1>1. TabOK(session[s]) /\ (session[s].kind = "edit" => session[s].id \in Ids)
  BY DEF TabsOK, TabOK, Server
<1>2. TabOK(Closed(session[s])) /\ TabOK(Open(session[s]))
  BY <1>1, ClosedOK, OpenOK
<1>3. CASE session[s].kind = "generate"
  BY <1>2, <1>3, StepOK DEF Refuse
<1>4. CASE session[s].kind # "generate"
  BY <1>2, <1>4, StepOK DEF Refuse
<1>q. QED BY <1>3, <1>4

LEMMA AnswerOK ==
  ASSUME TabsOK, NEW s \in Sessions, session[s].pc \in Server, NEW told \in BOOLEAN, NEW made,
         Answer(s, told, made)
  PROVE  TabsOK'
<1> DEFINE tab == [session[s] EXCEPT !.made = @ \cup made]
<1>1. TabOK(session[s]) /\ (session[s].kind = "edit" => session[s].id \in Ids)
  BY DEF TabsOK, TabOK, Server
<1>2. TabOK(tab) /\ tab.kind = session[s].kind /\ tab.id = session[s].id
  BY <1>1 DEF TabOK, TabFields
<1>3. TabOK(Closed(tab)) /\ TabOK(Open(tab))
  BY <1>1, <1>2, ClosedOK, OpenOK
<1>4. CASE told \/ tab.kind = "generate"
  <2>1. Step(s, Closed(tab))
    BY <1>4 DEF Answer
  <2>q. QED BY <1>3, <2>1, StepOK
<1>5. CASE ~(told \/ tab.kind = "generate")
  <2>1. Step(s, Open(tab))
    BY <1>5 DEF Answer
  <2>q. QED BY <1>3, <2>1, StepOK
<1>q. QED BY <1>4, <1>5

-----------------------------------------------------------------------------
(* Rows.                                                                   *)

\* Rows that are kept, or replaced by rows with the same text and embedding,
\* are still indexed.
LEMMA RowsKept == ASSUME IInv, UNCHANGED <<posts, crossed>> PROVE RowsOK' /\ EmbeddingFollowsText'
BY DEF IInv, RowsOK, EmbeddingFollowsText, Live

\* An UPDATE of a row that is as it was read leaves the form's text and embedding.
LEMMA WrittenIsTheForm ==
  ASSUME NEW row, RowOK(row), NEW seen, NEW form, Indexed(form),
         <<Text(row), row.embedding>> = <<Text(seen), seen.embedding>>
  PROVE  Indexed(Written(row, seen, form))
<1> DEFINE new == Written(row, seen, form)
<1>1. row.title = seen.title /\ row.content = seen.content /\ row.embedding = seen.embedding
  BY DEF Text
<1>2. new.title = form.title
  BY <1>1 DEF Written, Changed, Columns, RowOK, RowFields
<1>3. new.content = form.content
  BY <1>1 DEF Written, Changed, Columns, RowOK, RowFields
<1>4. new.embedding = form.embedding
  <2>1. CASE form.embedding = None /\ seen.embedding = None
    BY <2>1, <1>1 DEF Written, Changed, Columns, RowOK, RowFields
  <2>2. CASE ~(form.embedding = None /\ seen.embedding = None)
    BY <2>2 DEF Written, Changed, RowOK, RowFields
  <2>q. QED BY <2>1, <2>2
<1>q. QED BY <1>2, <1>3, <1>4 DEF Indexed, Embeddings, Text

LEMMA WrittenOK == ASSUME NEW row, RowOK(row), NEW seen, NEW form PROVE RowOK(Written(row, seen, form))
BY DEF RowOK, Written

\* One row is replaced or added: it is indexed, or its saves have crossed.
LEMMA RowStep ==
  ASSUME IInv, NEW id \in Ids, NEW row, RowOK(row), Indexed(row) \/ id \in crossed',
         posts' = [posts EXCEPT ![id] = row], crossed \subseteq crossed' \cup {id}
  PROVE  RowsOK' /\ EmbeddingFollowsText'
<1>1. posts' = [i \in Ids |-> posts'[i]]
  BY DEF IInv, RowsOK
<1>2. posts'[id] = row /\ \A i \in Ids \ {id} : posts'[i] = posts[i]
  BY DEF IInv, RowsOK
<1>3. ASSUME NEW i \in Live' PROVE RowOK(posts'[i]) /\ (i \notin crossed' => Indexed(posts'[i]))
  <2>1. CASE i = id
    BY <1>2, <2>1
  <2>2. CASE i # id
    <3>1. i \in Live /\ posts'[i] = posts[i] /\ (i \notin crossed' => i \notin crossed)
      BY <1>2, <1>3, <2>2 DEF Live
    <3>q. QED BY <3>1 DEF IInv, RowsOK, EmbeddingFollowsText, Indexed
  <2>q. QED BY <2>1, <2>2
<1>4. EmbeddingFollowsText'
  BY <1>3 DEF EmbeddingFollowsText, Indexed, Live, Embeddings
<1>q. QED BY <1>1, <1>3, <1>4 DEF RowsOK, Live, RowOK

-----------------------------------------------------------------------------
(* The editor.                                                             *)

\* A form that is filled in by hand, or fetched, has the form's columns.
LEMMA TouchedOK == ASSUME NEW form, RowOK(form), NEW f \in touched(form) PROVE RowOK(f)
BY DEF touched, RowOK

LEMMA StartOK == ASSUME NEW form PROVE RowOK(Start(form))
BY DEF Start, Post_from, RowOK, RowFields

LEMMA LoadKeeps == ASSUME IInv, NEW s \in Sessions, NEW id \in Ids, loadPost(s, id) PROVE IInv'
<1> DEFINE tab == [session[s] EXCEPT !.pc = "editing", !.id = id, !.form = Start(posts[id]),
                                     !.loaded = posts[id]]
<1>1. TabOK(tab)
  BY StartOK DEF IInv, TabsOK, TabOK, TabFields
<1>2. TabsOK'
  <2>1. TabsOK /\ Step(s, tab)
    BY DEF loadPost, IInv
  <2>q. QED BY <1>1, <2>1, StepOK
<1>3. RowsOK' /\ EmbeddingFollowsText'
  BY RowsKept DEF loadPost, rows, history
<1>q. QED BY <1>2, <1>3 DEF IInv

LEMMA NewKeeps == ASSUME IInv, NEW s \in Sessions, new_post(s) PROVE IInv'
<1> DEFINE tab == [session[s] EXCEPT !.pc = "editing", !.kind = "create"]
<1>1. TabOK(tab)
  BY DEF IInv, TabsOK, TabOK, TabFields
<1>2. TabsOK'
  <2>1. TabsOK /\ Step(s, tab)
    BY DEF new_post, IInv
  <2>q. QED BY <1>1, <2>1, StepOK
<1>3. RowsOK' /\ EmbeddingFollowsText'
  BY RowsKept DEF new_post, rows, history
<1>q. QED BY <1>2, <1>3 DEF IInv

LEMMA GenerateKeeps ==
  ASSUME IInv, NEW s \in Sessions, NEW form, generate_full_post(s, form) PROVE IInv'
<1> DEFINE tab == [session[s] EXCEPT !.pc = "embed", !.kind = "generate", !.form = Start(form)]
<1>1. TabOK(tab)
  BY StartOK DEF IInv, TabsOK, TabOK, TabFields
<1>2. TabsOK'
  <2>1. TabsOK /\ Step(s, tab)
    BY DEF generate_full_post, IInv
  <2>q. QED BY <1>1, <2>1, StepOK
<1>3. RowsOK' /\ EmbeddingFollowsText'
  BY RowsKept DEF generate_full_post, rows, history
<1>q. QED BY <1>2, <1>3 DEF IInv

LEMMA SubmitKeeps ==
  ASSUME IInv, NEW s \in Sessions, NEW form \in touched(session[s].form), onSubmit(s, form)
  PROVE  IInv'
<1>1. TabOK(session[s]) /\ session[s].pc = "editing" /\ RowOK(form)
  BY TouchedOK DEF IInv, TabsOK, TabOK, onSubmit
<1> DEFINE step == IF session[s].kind = "edit" THEN "select" ELSE "embed"
           tab == [session[s] EXCEPT !.pc = step, !.form = form, !.made = {}]
<1>2. TabsOK'
  <2>1. TabOK(tab)
    BY <1>1 DEF TabOK, TabFields
  <2>2. TabsOK /\ Step(s, tab)
    BY DEF onSubmit, IInv
  <2>q. QED BY <2>1, <2>2, StepOK
<1>3. RowsOK' /\ EmbeddingFollowsText'
  BY RowsKept DEF onSubmit, rows, history
<1>q. QED BY <1>2, <1>3 DEF IInv

LEMMA CancelKeeps == ASSUME IInv, NEW s \in Sessions, cancel(s) PROVE IInv'
<1>1. TabsOK'
  <2>1. TabsOK /\ Step(s, Closed(session[s]))
    BY DEF cancel, IInv
  <2>q. QED BY <2>1, StepOK, ClosedOK
<1>2. RowsOK' /\ EmbeddingFollowsText'
  BY RowsKept DEF cancel, rows, history
<1>q. QED BY <1>1, <1>2 DEF IInv

LEMMA FailKeeps == ASSUME IInv, NEW s \in Sessions, fails(s) PROVE IInv'
<1>1. TabsOK'
  BY RefuseOK DEF fails, IInv
<1>2. RowsOK' /\ EmbeddingFollowsText'
  BY RowsKept DEF fails, rows, history
<1>q. QED BY <1>1, <1>2 DEF IInv

-----------------------------------------------------------------------------
(* Saves.                                                                  *)

LEMMA SelectKeeps == ASSUME IInv, NEW s \in Sessions, update_select(s) PROVE IInv'
<1>1. TabOK(session[s]) /\ session[s].pc = "select" /\ session[s].kind = "edit"
  BY DEF IInv, TabsOK, TabOK, update_select
<1>2. TabsOK'
  <2> DEFINE tab == [session[s] EXCEPT !.pc = "embed", !.seen = posts[session[s].id]]
  <2>1. CASE Refuse(s)
    BY <1>1, <2>1, RefuseOK DEF IInv, Server
  <2>2. CASE Step(s, tab)
    <3>1. TabOK(tab) /\ TabsOK
      BY <1>1 DEF TabOK, TabFields, IInv
    <3>q. QED BY <2>2, <3>1, StepOK
  <2>q. QED BY <2>1, <2>2 DEF update_select
<1>3. RowsOK' /\ EmbeddingFollowsText'
  BY RowsKept DEF update_select, rows, history
<1>q. QED BY <1>2, <1>3 DEF IInv

LEMMA EmbedKeeps ==
  ASSUME IInv, NEW s \in Sessions, NEW embedding, get_embedding(s, embedding) PROVE IInv'
<1> DEFINE next == IF session[s].kind = "edit" THEN "commit" ELSE "insert"
           tab == [session[s] EXCEPT !.pc = next, !.form.embedding = embedding]
<1>1. TabOK(session[s]) /\ session[s].pc = "embed"
  BY DEF IInv, TabsOK, get_embedding
<1>2. RowOK(tab.form) /\ Indexed(tab.form)
  BY <1>1 DEF TabOK, TabFields, RowOK, RowFields, Indexed, Embeddings, Text, get_embedding
<1>3. TabOK(tab)
  BY <1>1, <1>2 DEF TabOK, TabFields
<1>4. TabsOK'
  <2>1. TabsOK /\ Step(s, tab)
    BY DEF get_embedding, IInv
  <2>q. QED BY <1>3, <2>1, StepOK
<1>5. RowsOK' /\ EmbeddingFollowsText'
  BY RowsKept DEF get_embedding, rows, history
<1>q. QED BY <1>4, <1>5 DEF IInv

LEMMA CommitKeeps ==
  ASSUME IInv, NEW s \in Sessions, NEW told \in BOOLEAN, update_commit(s, told) PROVE IInv'
<1> DEFINE tab == session[s]
           row == posts[tab.id]
           new == Written(row, tab.seen, tab.form)
<1>1. TabOK(tab) /\ tab.pc = "commit" /\ tab.id \in Ids /\ Indexed(tab.form)
  BY DEF IInv, TabsOK, TabOK, update_commit
<1>2. CASE Refuse(s) /\ UNCHANGED <<posts, history>>
  <2>1. TabsOK'
    BY <1>1, <1>2, RefuseOK DEF IInv, Server
  <2>2. RowsOK' /\ EmbeddingFollowsText'
    BY <1>2, RowsKept DEF history
  <2>q. QED BY <2>1, <2>2 DEF IInv
<1>3. CASE /\ row # None
           /\ posts' = [posts EXCEPT ![tab.id] = new]
           /\ crossed' = IF <<Text(row), row.embedding>> = <<Text(tab.seen), tab.seen.embedding>>
                         THEN crossed \ {tab.id} ELSE crossed \cup {tab.id}
           /\ Answer(s, told, {})
  <2>1. TabsOK'
    BY <1>1, <1>3, AnswerOK DEF IInv, Server
  <2>2. RowOK(row) /\ RowOK(new)
    BY <1>1, <1>3, WrittenOK DEF IInv, RowsOK, Live
  <2>3. Indexed(new) \/ tab.id \in crossed'
    BY <1>1, <1>3, <2>2, WrittenIsTheForm
  <2>4. crossed \subseteq crossed' \cup {tab.id}
    BY <1>3
  <2>5. RowsOK' /\ EmbeddingFollowsText'
    BY <1>1, <1>3, <2>2, <2>3, <2>4, RowStep
  <2>q. QED BY <2>1, <2>5 DEF IInv
<1>q. QED BY <1>2, <1>3 DEF update_commit

\* A row that goes leaves the others as they are.
LEMMA DeleteKeeps == ASSUME IInv, NEW id \in Ids, delete_post_by_id(id) PROVE IInv'
<1>1. posts' = [posts EXCEPT ![id] = None] /\ UNCHANGED <<session, crossed>>
  BY DEF delete_post_by_id, history
<1>2. TabsOK'
  BY <1>1 DEF IInv, TabsOK
<1>3. \A i \in Live' : i \in Live /\ posts'[i] = posts[i]
  BY <1>1 DEF IInv, RowsOK, Live
<1>4. RowsOK' /\ EmbeddingFollowsText'
  BY <1>1, <1>3 DEF IInv, RowsOK, EmbeddingFollowsText
<1>q. QED BY <1>2, <1>4 DEF IInv

-----------------------------------------------------------------------------
(* New posts.                                                              *)

LEMMA InsertStep ==
  ASSUME IInv, NEW s \in Sessions, NEW id, NEW row, RowOK(row), Indexed(row), insert(s, id, row)
  PROVE  RowsOK' /\ EmbeddingFollowsText'
<1>1. id \in Ids /\ posts' = [posts EXCEPT ![id] = row] /\ crossed' = crossed
  BY DEF insert
<1>q. QED BY <1>1, RowStep

\* A request moves on to its second commit, or to the new slug.
LEMMA AgainStep ==
  ASSUME IInv, NEW s \in Sessions, session[s].pc = "insert", NEW id \in Ids, NEW made,
         NEW step \in {"retry", "reslug"},
         Step(s, [session[s] EXCEPT !.pc = step, !.id = id, !.made = made])
  PROVE  TabsOK'
<1> DEFINE tab == [session[s] EXCEPT !.pc = step, !.id = id, !.made = made]
<1>1. TabOK(session[s])
  BY DEF IInv, TabsOK
<1>2. TabOK(tab)
  BY <1>1 DEF TabOK, TabFields
<1>q. QED BY <1>2, StepOK DEF IInv

LEMMA CreateKeeps ==
  ASSUME IInv, NEW s \in Sessions, NEW told \in BOOLEAN, create_post(s, told) PROVE IInv'
<1>1. TabOK(session[s]) /\ session[s].pc = "insert" /\ RowOK(session[s].form)
        /\ Indexed(session[s].form)
  BY DEF IInv, TabsOK, TabOK, create_post
<1>2. ASSUME insert(s, nextId, session[s].form) PROVE RowsOK' /\ EmbeddingFollowsText'
  BY <1>1, <1>2, InsertStep
<1>3. CASE insert(s, nextId, session[s].form) /\ Answer(s, told, {nextId})
  BY <1>1, <1>2, <1>3, AnswerOK DEF IInv, Server
<1>4. CASE insert(s, nextId, session[s].form) /\ raises(s, {nextId})
  <2>1. TabsOK'
    BY <1>1, <1>4, AgainStep DEF raises, insert
  <2>q. QED BY <1>2, <1>4, <2>1 DEF IInv
<1>5. CASE /\ insert(s, nextId, session[s].form)
           /\ Step(s, [session[s] EXCEPT !.pc = "reslug", !.id = nextId, !.made = {nextId}])
  <2>1. TabsOK'
    BY <1>1, <1>5, AgainStep DEF insert
  <2>q. QED BY <1>2, <1>5, <2>1 DEF IInv
<1>6. CASE nextId \in Ids /\ raises(s, {}) /\ UNCHANGED <<posts, history>>
  <2>1. TabsOK'
    BY <1>1, <1>6, AgainStep DEF raises
  <2>2. RowsOK' /\ EmbeddingFollowsText'
    BY <1>6, RowsKept DEF history
  <2>q. QED BY <2>1, <2>2 DEF IInv
<1>7. CASE Goto(s, "retry") /\ UNCHANGED <<rows, history>>
  <2> DEFINE tab == [session[s] EXCEPT !.pc = "retry"]
  <2>1. TabOK(tab) /\ TabsOK
    BY <1>1 DEF TabOK, TabFields, IInv
  <2>2. TabsOK'
    BY <1>7, <2>1, StepOK DEF Goto
  <2>3. RowsOK' /\ EmbeddingFollowsText'
    BY <1>7, RowsKept DEF rows, history
  <2>q. QED BY <2>2, <2>3 DEF IInv
<1>q. QED BY <1>3, <1>4, <1>5, <1>6, <1>7 DEF create_post

LEMMA RetryKeeps ==
  ASSUME IInv, NEW s \in Sessions, NEW suffix, NEW told \in BOOLEAN,
         create_post_retry(s, suffix, told)
  PROVE  IInv'
<1> DEFINE row == [session[s].form EXCEPT !.suffix = suffix]
           id == IF session[s].id = None THEN nextId ELSE session[s].id
<1>1. TabOK(session[s]) /\ session[s].pc = "retry" /\ RowOK(session[s].form)
        /\ Indexed(session[s].form)
  BY DEF IInv, TabsOK, TabOK, create_post_retry
<1>2. RowOK(row) /\ Indexed(row)
  BY <1>1 DEF RowOK, RowFields, Indexed, Embeddings, Text
<1>3. CASE Refuse(s) /\ UNCHANGED <<rows, history>>
  BY <1>1, <1>3, RefuseOK, RowsKept DEF IInv, Server, rows, history
<1>4. CASE insert(s, id, row) /\ Answer(s, told, {id})
  <2>1. TabsOK'
    BY <1>1, <1>4, AnswerOK DEF IInv, Server
  <2>2. RowsOK' /\ EmbeddingFollowsText'
    BY <1>2, <1>4, InsertStep
  <2>q. QED BY <2>1, <2>2 DEF IInv
<1>q. QED BY <1>3, <1>4 DEF create_post_retry

\* A slug is not embedded.
LEMMA ReslugKeeps == ASSUME IInv, NEW s \in Sessions, NEW suffix, reslug(s, suffix) PROVE IInv'
<1> DEFINE id == session[s].id
           row == [posts[id] EXCEPT !.suffix = suffix]
<1>1. TabsOK'
  <2>1. TabsOK /\ Step(s, Closed(session[s]))
    BY DEF reslug, IInv
  <2>q. QED BY <2>1, StepOK, ClosedOK
<1>2. CASE UNCHANGED posts
  BY <1>1, <1>2, RowsKept DEF IInv, reslug, history
<1>3. CASE posts[id] # None /\ posts' = [posts EXCEPT ![id].suffix = suffix]
  <2>1. posts' = [posts EXCEPT ![id] = row] /\ crossed' = crossed
    BY <1>3 DEF reslug, history
  <2>2. CASE id \in Ids
    <3>1. RowOK(posts[id]) /\ (id \notin crossed => Indexed(posts[id]))
      BY <1>3, <2>2 DEF IInv, RowsOK, EmbeddingFollowsText, Indexed, Live
    <3>2. RowOK(row) /\ (id \notin crossed => Indexed(row))
      BY <3>1 DEF RowOK, RowFields, Indexed, Embeddings, Text
    <3>q. QED BY <1>1, <2>1, <2>2, <3>2, RowStep DEF IInv
  <2>3. CASE id \notin Ids
    <3>1. UNCHANGED posts
      BY <2>1, <2>3 DEF IInv, RowsOK
    <3>q. QED BY <1>1, <2>1, <3>1, RowsKept DEF IInv
  <2>q. QED BY <2>2, <2>3
<1>q. QED BY <1>2, <1>3 DEF reslug

-----------------------------------------------------------------------------
(* The tag manager.                                                        *)

\* Nor are tags.
LEMMA RetagKeeps == ASSUME IInv, NEW new_tags, retag(new_tags) PROVE IInv'
<1>1. TabsOK'
  <2>1. ASSUME NEW s \in Sessions PROVE TabOK(session'[s])
    <3>1. session'[s] = [session[s] EXCEPT !.old = session[s].pc \notin {"idle", "closed"}]
      BY DEF retag
    <3>2. TabOK(session[s])
      BY DEF IInv, TabsOK
    <3>q. QED BY <3>1, <3>2 DEF TabOK, TabFields
  <2>q. QED BY <2>1 DEF TabsOK, retag
<1>2. crossed' = crossed /\ posts' = [id \in Ids |->
        IF id \in Live THEN [posts[id] EXCEPT !.tags = new_tags[id]] ELSE None]
  BY DEF retag
<1>3. ASSUME NEW id \in Live'
      PROVE  /\ id \in Live /\ RowOK(posts'[id])
             /\ Indexed(posts[id]) => Indexed(posts'[id])
  <2>1. id \in Live /\ posts'[id] = [posts[id] EXCEPT !.tags = new_tags[id]]
    BY <1>2 DEF Live
  <2>2. RowOK(posts[id])
    BY <2>1 DEF IInv, RowsOK
  <2>q. QED BY <2>1, <2>2 DEF RowOK, RowFields, Indexed, Embeddings, Text
<1>4. RowsOK'
  BY <1>2, <1>3 DEF RowsOK
<1>5. EmbeddingFollowsText'
  BY <1>2, <1>3 DEF IInv, EmbeddingFollowsText, Indexed
<1>q. QED BY <1>1, <1>4, <1>5 DEF IInv

-----------------------------------------------------------------------------
(* The theorems.                                                           *)

LEMMA Initially == Init => IInv
<1> SUFFICES ASSUME Init PROVE IInv
  OBVIOUS
<1>1. TabsOK
  BY UnusedOK DEF Init, TabsOK
<1>2. PICK form \in First : \E embedding \in Embeddings(form) :
        posts = [id \in Ids |-> IF id = 1 THEN Post_from(form, embedding) ELSE None]
  BY DEF Init
<1>3. PICK embedding \in Embeddings(form) :
        posts = [id \in Ids |-> IF id = 1 THEN Post_from(form, embedding) ELSE None]
  BY <1>2
<1>4. RowOK(Post_from(form, embedding)) /\ Indexed(Post_from(form, embedding))
  BY <1>3 DEF Post_from, RowOK, RowFields, Indexed, Embeddings, Text
<1>5. \A id \in Live : posts[id] = Post_from(form, embedding)
  BY <1>3 DEF Live
<1>6. RowsOK /\ EmbeddingFollowsText
  BY <1>3, <1>4, <1>5 DEF RowsOK, EmbeddingFollowsText, Indexed
<1>q. QED BY <1>1, <1>6 DEF IInv

LEMMA RequestKeeps == ASSUME IInv, NEW s \in Sessions, request(s) PROVE IInv'
<1>1. CASE update_select(s)
  BY <1>1, SelectKeeps
<1>2. CASE \E embedding \in (Titles \X Contents) \cup {None} : get_embedding(s, embedding)
  BY <1>2, EmbedKeeps
<1>3. CASE \E told \in BOOLEAN : update_commit(s, told) \/ create_post(s, told)
  BY <1>3, CommitKeeps, CreateKeeps
<1>4. CASE \E suffix \in Randoms : \E told \in BOOLEAN : create_post_retry(s, suffix, told)
  BY <1>4, RetryKeeps
<1>5. CASE \E suffix \in Randoms : reslug(s, suffix)
  BY <1>5, ReslugKeeps
<1>6. CASE fails(s)
  BY <1>6, FailKeeps
<1>q. QED BY <1>1, <1>2, <1>3, <1>4, <1>5, <1>6 DEF request

LEMMA Inductive == IInv /\ [Next]_vars => IInv'
<1> SUFFICES ASSUME IInv, [Next]_vars PROVE IInv'
  OBVIOUS
<1>1. ASSUME NEW s \in Sessions, NEW id \in Ids, loadPost(s, id) PROVE IInv'
  BY <1>1, LoadKeeps
<1>2. ASSUME NEW s \in Sessions, new_post(s) \/ cancel(s) \/ request(s) PROVE IInv'
  BY <1>2, NewKeeps, CancelKeeps, RequestKeeps
<1>3. ASSUME NEW s \in Sessions, NEW form \in touched(session[s].form), onSubmit(s, form)
      PROVE  IInv'
  BY <1>3, SubmitKeeps
<1>4. ASSUME NEW s \in Sessions, NEW form \in Generated, generate_full_post(s, form) PROVE IInv'
  BY <1>4, GenerateKeeps
<1>5. ASSUME NEW id \in Ids, delete_post_by_id(id) PROVE IInv'
  BY <1>5, DeleteKeeps
<1>6. ASSUME NEW name, delete_tag(name) PROVE IInv'
  BY <1>6, RetagKeeps DEF delete_tag
<1>7. ASSUME NEW name, NEW new_name, rename_tag(name, new_name) PROVE IInv'
  BY <1>7, RetagKeeps DEF rename_tag
<1>8. CASE UNCHANGED vars
  BY <1>8 DEF vars, IInv, TabsOK, RowsOK, Live, EmbeddingFollowsText
<1>q. QED BY <1>1, <1>2, <1>3, <1>4, <1>5, <1>6, <1>7, <1>8 DEF Next, Quiescent

\* A post whose last save overlapped no other is found by the text it has: its
\* embedding is of its title and content, or missing.
THEOREM EmbeddingsFollow == Spec => []EmbeddingFollowsText
<1>1. IInv => EmbeddingFollowsText
  BY DEF IInv
<1>q. QED BY <1>1, Initially, Inductive, PTL DEF Spec

\* Only a commit of its own takes a tab out of "commit" and changes its post.
LEMMA SavedByCommit ==
  ASSUME IInv, [Next]_vars, NEW s \in Sessions, Saved(s)
  PROVE  /\ session[s].id \in Live
         /\ posts'[session[s].id]
              = Written(posts[session[s].id], session[s].seen, session[s].form)
<1>1. session[s].pc = "commit" /\ session'[s].pc # "commit"
        /\ posts'[session[s].id] # posts[session[s].id]
  BY DEF Saved
<1>2. ASSUME NEW r \in Sessions, NEW tab, Step(r, tab) PROVE r = s
  BY <1>1, <1>2 DEF Step, IInv, TabsOK
<1>3. TabOK(session[s]) /\ session[s].id \in Ids
  BY <1>1 DEF IInv, TabsOK, TabOK
<1>4. ASSUME NEW r \in Sessions, NEW told \in BOOLEAN, update_commit(r, told)
      PROVE  /\ session[s].id \in Live
             /\ posts'[session[s].id]
                  = Written(posts[session[s].id], session[s].seen, session[s].form)
  <2>1. r = s
    BY <1>2, <1>4 DEF update_commit, Refuse, Answer
  <2>q. QED BY <1>1, <1>3, <1>4, <2>1 DEF update_commit, IInv, RowsOK, Live
<1>5. ASSUME NEW r \in Sessions, new_post(r) \/ cancel(r) \/ fails(r) PROVE FALSE
  BY <1>1, <1>2, <1>5 DEF new_post, cancel, fails, rows, Refuse
<1>6. ASSUME NEW r \in Sessions, NEW id \in Ids, loadPost(r, id) PROVE FALSE
  BY <1>1, <1>2, <1>6 DEF loadPost
<1>7. ASSUME NEW r \in Sessions, NEW form, onSubmit(r, form) \/ generate_full_post(r, form)
      PROVE  FALSE
  BY <1>1, <1>2, <1>7 DEF onSubmit, generate_full_post
<1>8. ASSUME NEW r \in Sessions, NEW embedding, update_select(r) \/ get_embedding(r, embedding)
      PROVE  FALSE
  BY <1>1, <1>8 DEF update_select, get_embedding, rows
<1>9. ASSUME NEW r \in Sessions, NEW told \in BOOLEAN, create_post(r, told) PROVE FALSE
  <2>1. \E tab : Step(r, tab)
    BY <1>9 DEF create_post, raises, Answer, Goto
  <2>q. QED BY <1>1, <1>2, <1>9, <2>1 DEF create_post
<1>10. ASSUME NEW r \in Sessions, NEW suffix, NEW told \in BOOLEAN,
              create_post_retry(r, suffix, told) \/ reslug(r, suffix)
       PROVE  FALSE
  <2>1. \E tab : Step(r, tab)
    BY <1>10 DEF create_post_retry, reslug, Answer, Refuse
  <2>q. QED BY <1>1, <1>2, <1>10, <2>1 DEF create_post_retry, reslug
<1>11. ASSUME NEW r \in Sessions, request(r)
       PROVE  \E q \in Sessions, told \in BOOLEAN : update_commit(q, told)
  BY <1>5, <1>8, <1>9, <1>10, <1>11 DEF request
<1>12. ASSUME NEW id \in Ids, delete_post_by_id(id) PROVE FALSE
  BY <1>1, <1>12 DEF delete_post_by_id
<1>13. ASSUME NEW new_tags, retag(new_tags) PROVE FALSE
  BY <1>1, <1>3, <1>13 DEF retag, TabOK, TabFields
<1>14. ASSUME NEW name, NEW new_name, delete_tag(name) \/ rename_tag(name, new_name) PROVE FALSE
  BY <1>13, <1>14 DEF delete_tag, rename_tag
<1>15. ~UNCHANGED vars
  BY <1>1 DEF vars
<1>q. QED BY <1>4, <1>5, <1>6, <1>7, <1>11, <1>12, <1>14, <1>15 DEF Next, Quiescent

\* No commit writes a column its form left as it was, nor any other value than
\* the form's into a column nobody else has written since the request read it.
THEOREM ColumnsAreKept == Spec => UntouchedColumnsKept
<1>1. ASSUME IInv, [Next]_vars, NEW s \in Sessions, Saved(s) PROVE ColumnsKept(s)
  <2> DEFINE tab == session[s]
             row == posts[tab.id]
  <2>1. RowOK(row) /\ posts'[tab.id] = Written(row, tab.seen, tab.form)
    BY <1>1, SavedByCommit DEF IInv, RowsOK
  <2>2. ASSUME NEW c \in Columns
        PROVE  Written(row, tab.seen, tab.form)[c]
                 = IF tab.form[c] # tab.seen[c] THEN tab.form[c] ELSE row[c]
    BY <2>1 DEF Written, Changed, Columns, RowOK, RowFields
  <2>q. QED BY <2>1, <2>2 DEF ColumnsKept
<1>2. IInv /\ [Next]_vars => [\A s \in Sessions : Saved(s) => ColumnsKept(s)]_vars
  BY <1>1
<1>q. QED BY <1>2, Initially, Inductive, PTL DEF Spec, UntouchedColumnsKept

-----------------------------------------------------------------------------
(* Tags and created posts.                                                 *)

\* A request makes one post at most, none before its first commit, and tries its second
\* one with the id of the post the first may have made; an id that was given out is not
\* given out again; a post that was shown to a tab no tag operation has crossed shows no
\* tag that is gone.
MadeOnce(tab) ==
  /\ \A i, j \in tab.made : i = j
  /\ tab.pc \in {"idle", "select", "embed", "commit", "insert"} => tab.made = {}
  /\ tab.pc = "retry" => tab.made \subseteq {tab.id}
Recalls(tab, barred) ==
  /\ tab.pc = "idle" => tab.loaded = None
  /\ tab.pc \notin {"idle", "closed"} /\ ~tab.old /\ tab.loaded # None
       => ToSet(tab.loaded.tags) \cap barred = {}
TabFine(tab, next, barred) ==
  tab \in Tab /\ (tab.id # None => tab.id < next) /\ MadeOnce(tab) /\ Recalls(tab, barred)

TabsFine == \A s \in Sessions : TabFine(session[s], nextId, gone)
JInv == TypeOK /\ ForgottenTagStaysGone /\ TabsFine

LEMMA Bounds ==
  /\ MaxIds \in Nat /\ Ids = 1..MaxIds /\ 0..MaxIds = {0} \cup Ids
  /\ \A n \in 1..MaxIds + 1 : n \in Nat /\ (n \in Ids <=> n + 1 \in 1..MaxIds + 1)
BY BoundsAssumption DEF Ids

LEMMA StartTyped ==
  ASSUME NEW form, \/ form \in Form
                   \/ form \in Post
  PROVE  Start(form) \in Post /\ Start(form).tags = form.tags
BY DEF Start, Post_from, Post, Form

LEMMA UnusedTyped == Unused \in Tab
<1>1. Start(Blank) \in Post
  BY FormsAssumption, StartTyped
<1> QED
  BY <1>1, BoundsAssumption DEF Unused, Tab

\* A tab that is closed, or shows its form again, has made one post at most.
LEMMA ClosedFine ==
  ASSUME NEW tab \in Tab, NEW next, NEW barred, \A i, j \in tab.made : i = j
  PROVE  TabFine(Closed(tab), next, barred)
<1>1. PICK c : c = Closed(tab)
  OBVIOUS
<1>2. c \in Tab /\ c.made = tab.made /\ c.id = None /\ c.pc = "closed"
  <2>1. Unused \in Tab /\ Unused.id = None
    BY UnusedTyped DEF Unused
  <2> QED
    BY <1>1, <2>1 DEF Closed, Tab
<1> QED
  BY <1>1, <1>2 DEF TabFine, MadeOnce, Recalls

LEMMA OpenFine ==
  ASSUME NEW tab \in Tab, NEW next, NEW barred, \A i, j \in tab.made : i = j,
         tab.id # None => tab.id < next, tab.pc # "idle", tab.pc # "closed", Recalls(tab, barred)
  PROVE  TabFine(Open(tab), next, barred)
<1>1. PICK c : c = Open(tab)
  OBVIOUS
<1>2. PICK form \in Post : form = [tab.form EXCEPT !.embedding = None]
  <2>1. [tab.form EXCEPT !.embedding = None] \in Post
    BY DEF Tab, Post
  <2> QED
    BY <2>1
<1>3. PICK id \in {tab.id, None} : id = IF tab.kind = "edit" THEN tab.id ELSE None
  OBVIOUS
<1>4. c = [tab EXCEPT !.pc = "editing", !.form = form, !.seen = None, !.id = id]
  BY <1>1, <1>2, <1>3 DEF Open, Tab
<1>5. /\ c \in Tab /\ c.made = tab.made /\ c.id = id /\ c.pc = "editing"
      /\ c.old = tab.old /\ c.loaded = tab.loaded
  BY <1>4 DEF Tab
<1> QED
  BY <1>1, <1>5 DEF TabFine, MadeOnce, Recalls

\* One tab goes on; the ids have grown, or tags have come back.
LEMMA FineStep ==
  ASSUME IInv, JInv, NEW s \in Sessions, NEW tab, Step(s, tab), TabFine(tab, nextId', gone'),
         nextId' \in Nat, nextId <= nextId', gone' \subseteq gone
  PROVE  TabsFine'
<1>1. session' = [session EXCEPT ![s] = tab] /\ session = [r \in Sessions |-> session[r]]
  BY DEF Step, IInv, TabsOK
<1>2. ASSUME NEW r \in Sessions PROVE TabFine(session'[r], nextId', gone')
  <2>1. CASE r = s
    BY <1>1, <2>1
  <2>2. CASE r # s
    <3>1. session'[r] = session[r]
      BY <1>1, <2>2
    <3>2. PICK t : t = session[r] /\ TabFine(t, nextId, gone)
      BY DEF JInv, TabsFine
    <3>3. nextId \in Nat /\ t.id \in Nat \cup {None}
      BY <3>2, Bounds DEF JInv, TypeOK, TabFine, Tab
    <3>4. t.id # None => t.id < nextId'
      BY <3>2, <3>3 DEF TabFine
    <3>5. Recalls(t, gone')
      BY <3>2 DEF TabFine, Recalls
    <3> QED
      BY <3>1, <3>2, <3>4, <3>5 DEF TabFine
  <2> QED
    BY <2>1, <2>2
<1> QED
  BY <1>2 DEF TabsFine

LEMMA FineTab ==
  ASSUME JInv, NEW s \in Sessions
  PROVE  /\ session[s] \in Tab /\ TabFine(session[s], nextId, gone)
         /\ nextId \in 1..MaxIds + 1 /\ nextId \in Nat
         /\ \A id \in Ids : posts[id] \in Post \cup {None}
<1>1. session[s] \in Tab /\ nextId \in 1..MaxIds + 1 /\ \A id \in Ids : posts[id] \in Post \cup {None}
  BY DEF JInv, TypeOK
<1> QED
  BY <1>1, Bounds DEF JInv, TabsFine

LEMMA RefuseFine ==
  ASSUME IInv, JInv, NEW s \in Sessions, session[s].pc \in Server, Refuse(s), UNCHANGED <<nextId, gone>>
  PROVE  TabsFine'
<1>1. PICK tab : tab = session[s] /\ tab \in Tab /\ TabFine(tab, nextId, gone)
  BY FineTab
<1>2. tab.pc # "idle" /\ tab.pc # "closed"
  BY <1>1 DEF Server
<1>3. nextId \in Nat /\ nextId' = nextId /\ gone' = gone
  BY FineTab
<1>4. CASE tab.kind = "generate"
  <2>1. TabFine(Closed(tab), nextId, gone)
    BY <1>1, ClosedFine DEF TabFine, MadeOnce
  <2>2. Step(s, Closed(tab))
    BY <1>1, <1>4 DEF Refuse
  <2> QED
    BY <1>3, <2>1, <2>2, FineStep
<1>5. CASE tab.kind # "generate"
  <2>1. TabFine(Open(tab), nextId, gone)
    BY <1>1, <1>2, <1>5, OpenFine DEF TabFine, MadeOnce
  <2>2. Step(s, Open(tab))
    BY <1>1, <1>5 DEF Refuse
  <2> QED
    BY <1>3, <2>1, <2>2, FineStep
<1> QED
  BY <1>4, <1>5

\* After the one post of the request, or without one.
LEMMA AnswerFine ==
  ASSUME IInv, JInv, NEW s \in Sessions, session[s].pc \in Server,
         NEW told \in BOOLEAN, NEW made \in SUBSET Ids, Answer(s, told, made),
         \A i, j \in session[s].made \cup made : i = j,
         nextId' \in 1..MaxIds + 1, nextId <= nextId', gone' \subseteq gone
  PROVE  TabsFine'
<1>1. PICK tab : tab = session[s] /\ tab \in Tab /\ TabFine(tab, nextId, gone)
  BY FineTab
<1>2. tab.pc # "idle" /\ tab.pc # "closed"
  BY <1>1 DEF Server
<1>3. nextId \in Nat /\ nextId' \in Nat /\ tab.id \in Nat \cup {None}
  BY <1>1, FineTab, Bounds DEF Tab
<1>4. PICK both \in SUBSET Ids : both = tab.made \cup made /\ \A i, j \in both : i = j
  BY <1>1 DEF Tab
<1>5. PICK t2 : t2 = [tab EXCEPT !.made = both]
  OBVIOUS
<1>6. /\ t2 \in Tab /\ t2.pc = tab.pc /\ t2.kind = tab.kind /\ t2.loaded = tab.loaded
      /\ t2.old = tab.old /\ t2.made = both /\ t2.id = tab.id
  BY <1>1, <1>5 DEF Tab
<1>7. t2.id # None => t2.id < nextId'
  BY <1>1, <1>3, <1>6 DEF TabFine
<1>8. Recalls(t2, gone')
  BY <1>1, <1>6 DEF TabFine, Recalls
<1>9. t2 = [session[s] EXCEPT !.made = @ \cup made]
  BY <1>1, <1>4, <1>5 DEF Tab
<1>10. CASE told \/ t2.kind = "generate"
  <2>1. TabFine(Closed(t2), nextId', gone')
    BY <1>4, <1>6, ClosedFine
  <2>2. Step(s, Closed(t2))
    BY <1>9, <1>10 DEF Answer
  <2> QED
    BY <1>3, <2>1, <2>2, FineStep
<1>11. CASE ~(told \/ t2.kind = "generate")
  <2>1. TabFine(Open(t2), nextId', gone')
    BY <1>2, <1>4, <1>6, <1>7, <1>8, OpenFine
  <2>2. Step(s, Open(t2))
    BY <1>9, <1>11 DEF Answer
  <2> QED
    BY <1>3, <2>1, <2>2, FineStep
<1> QED
  BY <1>10, <1>11

\* The rows' part of the invariant.
RowsFine ==
  /\ posts \in [Ids -> Post \cup {None}]
  /\ nextId \in 1..MaxIds + 1 /\ \A id \in Ids : id >= nextId => posts[id] = None
  /\ ForgottenTagStaysGone

LEMMA QuietRows ==
  ASSUME JInv, UNCHANGED <<posts, nextId>>, gone' \subseteq gone
  PROVE  RowsFine'
BY DEF JInv, TypeOK, RowsFine, ForgottenTagStaysGone, Live

\* A row is written, in its place or in a new one.
LEMMA RowFine ==
  ASSUME JInv, NEW id \in Ids, NEW row \in Post, ToSet(row.tags) \cap gone' = {},
         posts' = [posts EXCEPT ![id] = row], gone' \subseteq gone,
         nextId' \in 1..MaxIds + 1, nextId <= nextId', id < nextId'
  PROVE  RowsFine'
<1>1. /\ posts \in [Ids -> Post \cup {None}] /\ nextId \in Nat /\ nextId' \in Nat /\ Ids \subseteq Nat
      /\ \A i \in Ids : i >= nextId => posts[i] = None
  BY Bounds DEF JInv, TypeOK
<1>2. posts' \in [Ids -> Post \cup {None}] /\ posts'[id] = row /\ \A i \in Ids \ {id} : posts'[i] = posts[i]
  BY <1>1
<1>3. ASSUME NEW i \in Ids, i >= nextId' PROVE posts'[i] = None
  <2>1. i # id /\ i >= nextId
    BY <1>1, <1>3
  <2> QED
    BY <1>1, <1>2, <2>1
<1>4. ASSUME NEW i \in Ids, posts'[i] # None PROVE ToSet(posts'[i].tags) \cap gone' = {}
  <2>1. CASE i = id
    BY <1>2, <2>1
  <2>2. CASE i # id
    BY <1>2, <1>4, <2>2 DEF JInv, ForgottenTagStaysGone, Live
  <2> QED
    BY <2>1, <2>2
<1> QED
  BY <1>2, <1>3, <1>4 DEF RowsFine, ForgottenTagStaysGone, Live

LEMMA FineSum ==
  ASSUME TabsFine', RowsFine', tagOps' \in 0..MaxTagOps, saves' \in 0..MaxSaves, gone' \subseteq Tags, crossed' \subseteq Ids
  PROVE  JInv'
BY DEF JInv, TypeOK, TabsFine, TabFine, RowsFine

\* The forms a tab may hold are forms of posts.
LEMMA TouchedTyped == ASSUME NEW form \in Post, NEW f \in touched(form) PROVE f \in Post
BY FormsAssumption DEF touched, Post

\* Steps that only fill in the tab.
LEMMA EditorFine ==
  ASSUME IInv, JInv, NEW s \in Sessions
  PROVE  /\ \A id \in Ids : loadPost(s, id) => JInv'
         /\ new_post(s) => JInv'
         /\ cancel(s) => JInv'
         /\ \A form \in touched(session[s].form) : onSubmit(s, form) => JInv'
         /\ \A form \in Generated : generate_full_post(s, form) => JInv'
         /\ fails(s) => JInv'
         /\ update_select(s) => JInv'
         /\ \A embedding : get_embedding(s, embedding) => JInv'
<1> DEFINE Quiet == UNCHANGED <<posts, nextId, tagOps, gone, crossed>> /\ saves' \in 0..MaxSaves
<1>1. PICK tab : tab = session[s] /\ tab \in Tab /\ TabFine(tab, nextId, gone)
  BY FineTab
<1>2. /\ nextId \in Nat /\ \A id \in Ids : posts[id] \in Post \cup {None}
      /\ tagOps \in 0..MaxTagOps /\ saves \in 0..MaxSaves /\ gone \subseteq Tags /\ crossed \subseteq Ids
  BY <1>1, FineTab DEF JInv, TypeOK
<1>3. ASSUME Quiet, TabsFine' PROVE JInv'
  BY <1>2, <1>3, QuietRows, FineSum
<1>4. ASSUME Quiet, NEW t, TabFine(t, nextId, gone), Step(s, t) PROVE JInv'
  <2>1. TabsFine'
    BY <1>2, <1>4, FineStep
  <2> QED
    BY <1>3, <1>4, <2>1
<1>5. ASSUME UNCHANGED <<rows, tagOps, saves, history>> PROVE Quiet
  BY <1>2, <1>5 DEF rows, history
<1>6. tab.pc = "idle" => tab.made = {}
  BY <1>1 DEF TabFine, MadeOnce
<1>7. ASSUME NEW id \in Ids, loadPost(s, id) PROVE JInv'
  <2>1. id \in Live /\ posts[id] \in Post /\ tab.pc = "idle"
    BY <1>1, <1>2, <1>7 DEF loadPost, Live
  <2>2. PICK row \in Post : row = posts[id]
    BY <2>1
  <2>3. PICK t : t = [tab EXCEPT !.pc = "editing", !.id = id, !.form = Start(row), !.loaded = row]
    OBVIOUS
  <2>4. Start(row) \in Post
    BY StartTyped
  <2>5. t \in Tab /\ t.made = tab.made /\ t.id = id /\ t.loaded = row /\ t.pc = "editing"
    BY <1>1, <2>3, <2>4 DEF Tab
  <2>6. ToSet(row.tags) \cap gone = {}
    BY <2>1, <2>2 DEF JInv, ForgottenTagStaysGone
  <2>7. id < nextId
    BY <1>2, <2>1, Bounds DEF JInv, TypeOK, Live
  <2>8. TabFine(t, nextId, gone)
    BY <1>1, <1>6, <2>1, <2>5, <2>6, <2>7 DEF TabFine, MadeOnce, Recalls
  <2>9. Step(s, t)
    BY <1>1, <1>7, <2>2, <2>3 DEF loadPost
  <2> QED
    BY <1>4, <1>5, <1>7, <2>8, <2>9 DEF loadPost
<1>8. ASSUME new_post(s) PROVE JInv'
  <2>1. PICK t : t = [tab EXCEPT !.pc = "editing", !.kind = "create"]
    OBVIOUS
  <2>2. t \in Tab /\ t.made = tab.made /\ t.id = tab.id /\ t.loaded = tab.loaded /\ t.pc = "editing"
    BY <1>1, <2>1 DEF Tab
  <2>3. tab.pc = "idle" /\ Step(s, t)
    BY <1>1, <1>8, <2>1 DEF new_post
  <2>4. TabFine(t, nextId, gone)
    BY <1>1, <1>6, <2>2, <2>3 DEF TabFine, MadeOnce, Recalls
  <2> QED
    BY <1>4, <1>5, <1>8, <2>3, <2>4 DEF new_post
<1>9. ASSUME cancel(s) PROVE JInv'
  <2>1. tab.pc = "editing" /\ Step(s, Closed(tab))
    BY <1>1, <1>9 DEF cancel
  <2>2. TabFine(Closed(tab), nextId, gone)
    BY <1>1, <2>1, ClosedFine DEF TabFine, MadeOnce
  <2> QED
    BY <1>4, <1>5, <1>9, <2>1, <2>2 DEF cancel
<1>10. ASSUME NEW form \in touched(session[s].form), onSubmit(s, form) PROVE JInv'
  <2>1. form \in Post /\ tab.pc = "editing"
    BY <1>1, <1>10, TouchedTyped DEF onSubmit, Tab
  <2>2. PICK step \in {"select", "embed"} : step = IF tab.kind = "edit" THEN "select" ELSE "embed"
    OBVIOUS
  <2>3. PICK t : t = [tab EXCEPT !.pc = step, !.form = form, !.made = {}]
    OBVIOUS
  <2>4. /\ t \in Tab /\ t.made = {} /\ t.id = tab.id /\ t.loaded = tab.loaded
        /\ t.pc = step /\ t.old = tab.old
    BY <1>1, <2>1, <2>3 DEF Tab
  <2>5. TabFine(t, nextId, gone)
    BY <1>1, <2>1, <2>4 DEF TabFine, MadeOnce, Recalls
  <2>6. Quiet
    BY <1>2, <1>10, BoundsAssumption DEF onSubmit, rows, history
  <2>7. Step(s, t)
    BY <1>1, <1>10, <2>2, <2>3 DEF onSubmit
  <2> QED
    BY <1>4, <2>5, <2>6, <2>7
<1>11. ASSUME NEW form \in Generated, generate_full_post(s, form) PROVE JInv'
  <2>1. Start(form) \in Post
    BY FormsAssumption, StartTyped
  <2>2. PICK t : t = [tab EXCEPT !.pc = "embed", !.kind = "generate", !.form = Start(form)]
    OBVIOUS
  <2>3. /\ t \in Tab /\ t.made = tab.made /\ t.id = tab.id /\ t.loaded = tab.loaded
        /\ t.pc = "embed" /\ t.old = tab.old
    BY <1>1, <2>1, <2>2 DEF Tab
  <2>4. tab.pc = "idle" /\ Step(s, t)
    BY <1>1, <1>11, <2>2 DEF generate_full_post
  <2>5. TabFine(t, nextId, gone)
    BY <1>1, <1>6, <2>3, <2>4 DEF TabFine, MadeOnce, Recalls
  <2> QED
    BY <1>4, <1>5, <1>11, <2>4, <2>5 DEF generate_full_post
<1>12. ASSUME fails(s) PROVE JInv'
  <2>1. UNCHANGED <<nextId, gone>> /\ session[s].pc \in Server /\ Refuse(s)
    BY <1>12 DEF fails, rows, history
  <2>2. TabsFine'
    BY <2>1, RefuseFine
  <2> QED
    BY <1>3, <1>5, <1>12, <2>2 DEF fails
<1>13. ASSUME update_select(s) PROVE JInv'
  <2>1. Quiet /\ UNCHANGED <<nextId, gone>> /\ tab.pc = "select"
    BY <1>1, <1>5, <1>13 DEF update_select, rows, history
  <2>2. CASE Refuse(s)
    <3>1. TabsFine'
      BY <1>1, <2>1, <2>2, RefuseFine DEF Server
    <3> QED
      BY <1>3, <2>1, <3>1
  <2>3. CASE posts[tab.id] # None /\ Step(s, [tab EXCEPT !.pc = "embed", !.seen = posts[tab.id]])
    <3>1. tab.id \in Ids
      BY <1>1, <2>1 DEF IInv, TabsOK, TabOK
    <3>2. PICK row \in Post : row = posts[tab.id]
      BY <1>2, <2>3, <3>1
    <3>3. PICK t : t = [tab EXCEPT !.pc = "embed", !.seen = row]
      OBVIOUS
    <3>4. /\ t \in Tab /\ t.made = tab.made /\ t.id = tab.id /\ t.loaded = tab.loaded
          /\ t.pc = "embed" /\ t.old = tab.old
      BY <1>1, <3>3 DEF Tab
    <3>5. TabFine(t, nextId, gone)
      BY <1>1, <2>1, <3>4 DEF TabFine, MadeOnce, Recalls
    <3> QED
      BY <1>4, <2>1, <2>3, <3>2, <3>3, <3>5
  <2> QED
    BY <1>1, <1>13, <2>2, <2>3 DEF update_select
<1>14. ASSUME NEW embedding, get_embedding(s, embedding) PROVE JInv'
  <2>1. tab.pc = "embed" /\ embedding \in (Titles \X Contents) \cup {None}
    BY <1>1, <1>14 DEF get_embedding, Embeddings, Text, Tab, Post
  <2>2. PICK step \in {"commit", "insert"} : step = IF tab.kind = "edit" THEN "commit" ELSE "insert"
    OBVIOUS
  <2>3. PICK form \in Post : form = [tab.form EXCEPT !.embedding = embedding]
    <3>1. [tab.form EXCEPT !.embedding = embedding] \in Post
      BY <1>1, <2>1 DEF Tab, Post
    <3> QED
      BY <3>1
  <2>4. PICK t : t = [tab EXCEPT !.pc = step, !.form = form]
    OBVIOUS
  <2>5. /\ t \in Tab /\ t.made = tab.made /\ t.id = tab.id /\ t.loaded = tab.loaded
        /\ t.pc = step /\ t.old = tab.old
    BY <1>1, <2>4 DEF Tab
  <2>6. Step(s, t)
    BY <1>1, <1>14, <2>2, <2>3, <2>4 DEF get_embedding, Tab
  <2>7. TabFine(t, nextId, gone)
    BY <1>1, <2>1, <2>5 DEF TabFine, MadeOnce, Recalls
  <2> QED
    BY <1>4, <1>5, <1>14, <2>6, <2>7 DEF get_embedding
<1> QED
  BY <1>7, <1>8, <1>9, <1>10, <1>11, <1>12, <1>13, <1>14

\* What an UPDATE leaves is a post, with the form's tags or the row's.
LEMMA WrittenTyped ==
  ASSUME NEW row \in Post, NEW form \in Post, NEW seen
  PROVE  /\ Written(row, seen, form) \in Post
         /\ Written(row, seen, form).tags = IF "tags" \in Changed(seen, form) THEN form.tags ELSE row.tags
<1>1. PICK new : new = Written(row, seen, form)
  OBVIOUS
<1>2. /\ DOMAIN row = RowFields /\ DOMAIN new = RowFields /\ new = [c \in RowFields |-> new[c]]
      /\ \A c \in RowFields : new[c] = IF c \in Changed(seen, form) THEN form[c] ELSE row[c]
  BY <1>1 DEF Written, Post, RowFields
<1>3. Changed(seen, form) \subseteq {"language", "title", "content", "tags", "embedding"}
  BY DEF Changed, Columns
<1>4. new = [slug |-> new.slug, suffix |-> new.suffix, language |-> new.language, title |-> new.title,
             content |-> new.content, tags |-> new.tags, embedding |-> new.embedding]
  BY <1>2 DEF RowFields
<1>5. /\ new.slug \in Slugs /\ new.suffix \in {0} \cup Randoms /\ new.language \in Languages
      /\ new.title \in Titles /\ new.content \in Contents /\ new.tags \in Seq(Tags)
      /\ new.embedding \in (Titles \X Contents) \cup {None}
  BY <1>2, <1>3 DEF RowFields, Post
<1> QED
  BY <1>1, <1>2, <1>4, <1>5 DEF Post, RowFields

\* The tags of a form are brought back, or no more gone than they were.
LEMMA BroughtBack ==
  ASSUME NEW tab, NEW barred, Recalls(tab, barred), tab.pc # "idle", tab.pc # "closed"
  PROVE  ToSet(tab.form.tags) \cap (barred \ brought_back(tab)) = {}
BY DEF Recalls, brought_back, Typed

LEMMA CommitFine ==
  ASSUME IInv, JInv, NEW s \in Sessions, NEW told \in BOOLEAN, update_commit(s, told)
  PROVE  JInv'
<1>1. PICK tab : tab = session[s] /\ tab \in Tab /\ TabFine(tab, nextId, gone)
  BY FineTab
<1>2. tab.pc = "commit" /\ tab.id \in Ids /\ UNCHANGED <<nextId, tagOps, saves>>
  BY <1>1 DEF update_commit, IInv, TabsOK, TabOK
<1>3. /\ nextId \in Nat /\ nextId \in 1..MaxIds + 1 /\ posts[tab.id] \in Post \cup {None}
      /\ tagOps \in 0..MaxTagOps /\ saves \in 0..MaxSaves /\ gone \subseteq Tags /\ crossed \subseteq Ids
      /\ \A id \in Ids : id \in Nat /\ (id >= nextId => posts[id] = None)
  BY <1>1, <1>2, FineTab, Bounds DEF JInv, TypeOK
<1>4. CASE Refuse(s) /\ UNCHANGED <<posts, history>>
  <2>1. UNCHANGED <<nextId, posts, gone, crossed>>
    BY <1>2, <1>4 DEF history
  <2>2. TabsFine'
    BY <1>1, <1>2, <1>4, <2>1, RefuseFine DEF Server
  <2>3. RowsFine'
    BY <2>1, QuietRows
  <2> QED
    BY <1>2, <1>3, <2>1, <2>2, <2>3, FineSum
<1>5. CASE posts[tab.id] # None /\ ~(Refuse(s) /\ UNCHANGED <<posts, history>>)
  <2>1. PICK row \in Post : row = posts[tab.id]
    BY <1>3, <1>5
  <2>2. PICK form \in Post : form = tab.form
    BY <1>1 DEF Tab
  <2>3. PICK new \in Post :
          /\ new = Written(row, tab.seen, form)
          /\ new.tags = IF "tags" \in Changed(tab.seen, form) THEN form.tags ELSE row.tags
    BY <2>1, <2>2, WrittenTyped
  <2>4. /\ posts' = [posts EXCEPT ![tab.id] = new]
        /\ gone' = IF "tags" \in Changed(tab.seen, form) THEN gone \ brought_back(tab) ELSE gone
        /\ crossed' \subseteq crossed \cup {tab.id}
        /\ Answer(s, told, {})
    BY <1>1, <1>5, <2>1, <2>2, <2>3 DEF update_commit
  <2>5. gone' \subseteq gone
    BY <2>4
  <2>6. TabsFine'
    <3>1. \A i, j \in session[s].made \cup {} : i = j
      BY <1>1 DEF TabFine, MadeOnce
    <3> QED
      BY <1>1, <1>2, <1>3, <2>4, <2>5, <3>1, AnswerFine DEF Server
  <2>7. ToSet(new.tags) \cap gone' = {}
    <3>1. ToSet(row.tags) \cap gone = {}
      BY <1>2, <1>5, <2>1 DEF JInv, ForgottenTagStaysGone, Live
    <3>2. ToSet(form.tags) \cap (gone \ brought_back(tab)) = {}
      BY <1>1, <1>2, <2>2, BroughtBack DEF TabFine
    <3> QED
      BY <2>3, <2>4, <3>1, <3>2
  <2>8. tab.id < nextId
    BY <1>2, <1>3, <1>5
  <2>9. nextId' \in 1..MaxIds + 1 /\ nextId <= nextId' /\ tab.id < nextId'
    BY <1>2, <1>3, <2>8
  <2>10. RowsFine'
    BY <1>2, <2>4, <2>5, <2>7, <2>9, RowFine
  <2> QED
    BY <1>2, <1>3, <2>4, <2>5, <2>6, <2>10, FineSum
<1> QED
  BY <1>1, <1>4, <1>5 DEF update_commit

\* A row that goes, or is given another slug, keeps no tag it had not.
LEMMA DeleteFine == ASSUME IInv, JInv, NEW id \in Ids, delete_post_by_id(id) PROVE JInv'
<1>1. posts' = [posts EXCEPT ![id] = None] /\ UNCHANGED <<nextId, session, tagOps, saves, gone, crossed>>
  BY DEF delete_post_by_id, history
<1>2. TabsFine'
  BY <1>1 DEF JInv, TabsFine
<1>3. RowsFine'
  <2>1. posts \in [Ids -> Post \cup {None}]
    BY DEF JInv, TypeOK
  <2>2. posts' \in [Ids -> Post \cup {None}] /\ \A i \in Ids : posts'[i] \in {posts[i], None}
    BY <1>1, <2>1
  <2> QED
    BY <1>1, <2>2 DEF JInv, TypeOK, RowsFine, ForgottenTagStaysGone, Live
<1> QED
  BY <1>1, <1>2, <1>3, FineSum DEF JInv, TypeOK

LEMMA ReslugFine == ASSUME IInv, JInv, NEW s \in Sessions, NEW suffix \in Randoms, reslug(s, suffix) PROVE JInv'
<1>1. PICK tab : tab = session[s] /\ tab \in Tab /\ TabFine(tab, nextId, gone)
  BY FineTab
<1>2. UNCHANGED <<nextId, tagOps, saves, gone, crossed>> /\ Step(s, Closed(tab))
  BY <1>1 DEF reslug, history
<1>3. /\ nextId \in Nat /\ nextId \in 1..MaxIds + 1 /\ posts \in [Ids -> Post \cup {None}]
      /\ \A id \in Ids : id \in Nat /\ (id >= nextId => posts[id] = None)
  BY FineTab, Bounds DEF JInv, TypeOK
<1>4. TabsFine'
  <2>1. TabFine(Closed(tab), nextId, gone)
    BY <1>1, ClosedFine DEF TabFine, MadeOnce
  <2> QED
    BY <1>2, <1>3, <2>1, FineStep
<1>5. RowsFine'
  <2>1. CASE UNCHANGED posts
    BY <1>2, <2>1, QuietRows
  <2>2. CASE tab.id \in Ids /\ posts[tab.id] # None /\ posts' = [posts EXCEPT ![tab.id].suffix = suffix]
    <3>1. PICK row \in Post : row = posts[tab.id]
      BY <1>3, <2>2
    <3>2. PICK new \in Post : new = [row EXCEPT !.suffix = suffix] /\ new.tags = row.tags
      <4>1. [row EXCEPT !.suffix = suffix] \in Post /\ [row EXCEPT !.suffix = suffix].tags = row.tags
        BY DEF Post
      <4> QED
        BY <4>1
    <3>3. posts' = [posts EXCEPT ![tab.id] = new]
      BY <2>2, <3>1, <3>2
    <3>4. ToSet(new.tags) \cap gone' = {}
      BY <1>2, <2>2, <3>1, <3>2 DEF JInv, ForgottenTagStaysGone, Live
    <3>5. nextId' \in 1..MaxIds + 1 /\ nextId <= nextId' /\ tab.id < nextId' /\ gone' \subseteq gone
      BY <1>2, <1>3, <2>2
    <3> QED
      BY <2>2, <3>3, <3>4, <3>5, RowFine
  <2>3. CASE tab.id \notin Ids /\ posts' = [posts EXCEPT ![tab.id].suffix = suffix]
    <3>1. UNCHANGED posts
      BY <1>3, <2>3
    <3> QED
      BY <2>1, <3>1
  <2> QED
    BY <1>1, <2>1, <2>2, <2>3 DEF reslug
<1> QED
  BY <1>2, <1>4, <1>5, FineSum DEF JInv, TypeOK

LEMMA InsertFine ==
  ASSUME JInv, NEW s \in Sessions, NEW id, NEW row \in Post, row.tags = session[s].form.tags,
         session[s].pc \in {"insert", "retry"}, id = nextId \/ id < nextId, insert(s, id, row)
  PROVE  /\ RowsFine' /\ nextId <= nextId' /\ nextId' \in 1..MaxIds + 1 /\ id \in Ids /\ id < nextId'
         /\ gone' \subseteq gone /\ gone \subseteq Tags /\ crossed' \subseteq Ids
<1>1. PICK tab : tab = session[s] /\ tab \in Tab /\ TabFine(tab, nextId, gone)
  BY FineTab
<1>2. /\ id \in Ids /\ posts' = [posts EXCEPT ![id] = row]
      /\ nextId' = IF id = nextId THEN nextId + 1 ELSE nextId
      /\ gone' = gone \ brought_back(tab) /\ crossed' = crossed
  BY <1>1 DEF insert
<1>3. nextId \in 1..MaxIds + 1 /\ nextId \in Nat /\ id \in Nat
  BY <1>2, FineTab, Bounds
<1>4. nextId' \in 1..MaxIds + 1 /\ nextId <= nextId' /\ id < nextId'
  BY <1>2, <1>3, Bounds
<1>5. ToSet(row.tags) \cap gone' = {}
  BY <1>1, <1>2, BroughtBack DEF TabFine
<1>6. RowsFine'
  BY <1>2, <1>4, <1>5, RowFine
<1> QED
  BY <1>2, <1>4, <1>6 DEF JInv, TypeOK

\* The request goes on with the id the INSERT has returned.
LEMMA AgainFine ==
  ASSUME IInv, JInv, NEW s \in Sessions, session[s].pc = "insert", nextId \in Ids,
         NEW made \in SUBSET {nextId}, NEW step \in {"retry", "reslug"},
         Step(s, [session[s] EXCEPT !.pc = step, !.id = nextId, !.made = made]),
         nextId < nextId', nextId' \in 1..MaxIds + 1, gone' \subseteq gone
  PROVE  TabsFine'
<1>1. PICK tab : tab = session[s] /\ tab \in Tab /\ TabFine(tab, nextId, gone)
  BY FineTab
<1>2. PICK t : t = [tab EXCEPT !.pc = step, !.id = nextId, !.made = made]
  OBVIOUS
<1>3. made \in SUBSET Ids
  OBVIOUS
<1>4. /\ t \in Tab /\ t.made = made /\ t.id = nextId /\ t.loaded = tab.loaded
      /\ t.pc = step /\ t.old = tab.old
  BY <1>1, <1>2, <1>3 DEF Tab
<1>5. MadeOnce(t)
  BY <1>4 DEF MadeOnce
<1>6. Recalls(t, gone')
  BY <1>1, <1>4 DEF TabFine, Recalls
<1>7. TabFine(t, nextId', gone')
  BY <1>4, <1>5, <1>6 DEF TabFine
<1>8. nextId \in Nat /\ nextId' \in Nat /\ nextId <= nextId'
  BY Bounds
<1> QED
  BY <1>1, <1>2, <1>7, <1>8, FineStep

\* The first commit: the second one follows it with the id it used, if any.
LEMMA CreateFine ==
  ASSUME IInv, JInv, NEW s \in Sessions, NEW told \in BOOLEAN, create_post(s, told)
  PROVE  JInv'
<1>1. PICK tab : tab = session[s] /\ tab \in Tab /\ TabFine(tab, nextId, gone)
  BY FineTab
<1>2. tab.pc = "insert" /\ UNCHANGED <<tagOps, saves>> /\ tab.form \in Post /\ tab.made = {}
  BY <1>1 DEF create_post, Tab, TabFine, MadeOnce
<1>3. tagOps \in 0..MaxTagOps /\ saves \in 0..MaxSaves /\ gone \subseteq Tags /\ crossed \subseteq Ids /\ nextId \in Nat
  BY <1>1, FineTab DEF JInv, TypeOK
<1>4. CASE /\ insert(s, nextId, tab.form)
           /\ \/ Answer(s, told, {nextId})
              \/ raises(s, {nextId})
              \/ Step(s, [tab EXCEPT !.pc = "reslug", !.id = nextId, !.made = {nextId}])
  <2>1. PICK row \in Post : row = tab.form
    BY <1>2
  <2>2. /\ RowsFine' /\ nextId <= nextId' /\ nextId' \in 1..MaxIds + 1 /\ nextId \in Ids
        /\ nextId < nextId' /\ gone' \subseteq gone /\ crossed' \subseteq Ids
    BY <1>1, <1>2, <1>4, <2>1, InsertFine
  <2>3. TabsFine'
    <3>1. CASE Answer(s, told, {nextId})
      BY <1>1, <1>2, <2>2, <3>1, AnswerFine DEF Server
    <3>2. CASE raises(s, {nextId})
      BY <1>1, <1>2, <2>2, <3>2, AgainFine DEF raises
    <3>3. CASE Step(s, [tab EXCEPT !.pc = "reslug", !.id = nextId, !.made = {nextId}])
      BY <1>1, <1>2, <2>2, <3>3, AgainFine
    <3> QED
      BY <1>4, <3>1, <3>2, <3>3
  <2> QED
    BY <1>2, <1>3, <2>2, <2>3, FineSum
<1>5. CASE nextId \in Ids /\ nextId' = nextId + 1 /\ raises(s, {}) /\ UNCHANGED <<posts, history>>
  <2>1. UNCHANGED <<posts, gone, crossed>>
    BY <1>5 DEF history
  <2>2. nextId' \in 1..MaxIds + 1 /\ nextId < nextId'
    BY <1>3, <1>5, Bounds
  <2>3. TabsFine'
    BY <1>1, <1>2, <1>5, <2>1, <2>2, AgainFine DEF raises
  <2>4. RowsFine'
    <3>1. \A id \in Ids : id \in Nat
      BY Bounds
    <3> QED
      BY <1>3, <2>1, <2>2, <3>1 DEF JInv, TypeOK, RowsFine, ForgottenTagStaysGone, Live
  <2> QED
    BY <1>2, <1>3, <2>1, <2>3, <2>4, FineSum
<1>6. CASE Goto(s, "retry") /\ UNCHANGED <<rows, history>>
  <2>1. UNCHANGED <<posts, nextId, gone, crossed>>
    BY <1>6 DEF rows, history
  <2>2. PICK t : t = [tab EXCEPT !.pc = "retry"]
    OBVIOUS
  <2>3. /\ t \in Tab /\ t.made = tab.made /\ t.id = tab.id /\ t.loaded = tab.loaded
        /\ t.pc = "retry" /\ t.old = tab.old
    BY <1>1, <2>2 DEF Tab
  <2>4. TabFine(t, nextId, gone)
    BY <1>1, <1>2, <2>3 DEF TabFine, MadeOnce, Recalls
  <2>5. Step(s, t)
    BY <1>1, <1>6, <2>2 DEF Goto
  <2>6. TabsFine'
    BY <1>3, <2>1, <2>4, <2>5, FineStep
  <2>7. RowsFine'
    BY <2>1, QuietRows
  <2> QED
    BY <1>2, <1>3, <2>1, <2>6, <2>7, FineSum
<1> QED
  BY <1>1, <1>4, <1>5, <1>6 DEF create_post

\* The second commit makes the post the first has not made, or none.
LEMMA RetryFine ==
  ASSUME IInv, JInv, NEW s \in Sessions, NEW suffix \in Randoms, NEW told \in BOOLEAN,
         create_post_retry(s, suffix, told)
  PROVE  JInv'
<1>1. PICK tab : tab = session[s] /\ tab \in Tab /\ TabFine(tab, nextId, gone)
  BY FineTab
<1>2. tab.pc = "retry" /\ UNCHANGED <<tagOps, saves>>
  BY <1>1 DEF create_post_retry
<1>3. tagOps \in 0..MaxTagOps /\ saves \in 0..MaxSaves /\ gone \subseteq Tags /\ crossed \subseteq Ids
  BY DEF JInv, TypeOK
<1>4. PICK row \in Post : row = [tab.form EXCEPT !.suffix = suffix] /\ row.tags = tab.form.tags
  <2>1. [tab.form EXCEPT !.suffix = suffix] \in Post /\ [tab.form EXCEPT !.suffix = suffix].tags = tab.form.tags
    BY <1>1 DEF Tab, Post
  <2> QED
    BY <2>1
<1>5. CASE Refuse(s) /\ UNCHANGED <<rows, history>>
  <2>1. UNCHANGED <<posts, nextId, gone, crossed>>
    BY <1>5 DEF rows, history
  <2>2. TabsFine'
    BY <1>1, <1>2, <1>5, <2>1, RefuseFine DEF Server
  <2>3. RowsFine'
    BY <2>1, QuietRows
  <2> QED
    BY <1>2, <1>3, <2>1, <2>2, <2>3, FineSum
<1>6. PICK id : id = IF tab.id = None THEN nextId ELSE tab.id
  OBVIOUS
<1>7. CASE insert(s, id, row) /\ Answer(s, told, {id})
  <2>1. id = nextId \/ id < nextId
    BY <1>1, <1>6 DEF TabFine
  <2>2. /\ RowsFine' /\ nextId <= nextId' /\ nextId' \in 1..MaxIds + 1 /\ id \in Ids
        /\ gone' \subseteq gone /\ crossed' \subseteq Ids
    BY <1>1, <1>2, <1>4, <1>7, <2>1, InsertFine
  <2>3. tab.made \subseteq {id}
    BY <1>1, <1>2, <1>6, NoneAssumption DEF TabFine, MadeOnce, Tab
  <2>4. TabsFine'
    BY <1>1, <1>2, <1>7, <2>2, <2>3, AnswerFine DEF Server
  <2> QED
    BY <1>2, <1>3, <2>2, <2>4, FineSum
<1> QED
  BY <1>1, <1>4, <1>5, <1>6, <1>7 DEF create_post_retry

-----------------------------------------------------------------------------
(* The tag operations.  What removed computes is shown by a least          *)
(* counterexample among the prefixes of the tags.                          *)

LessThan == {ss \in Nat \X Nat : ss[1] < ss[2]}

LEMMA Least ==
  ASSUME NEW T \in SUBSET Nat, T # {}
  PROVE  \E m \in T : \A k \in T : ~(k < m)
<1>1. IsWellFoundedOn(LessThan, Nat)
  BY NatLessThanWellFounded DEF OpToRel, LessThan
<1>2. \E x \in T : \A y \in T : ~(<<y, x>> \in LessThan)
  BY <1>1, WFMin
<1> QED
  BY <1>2 DEF LessThan

\* What is kept of each prefix up to n.
IsKept(kept, tags, name, n) ==
  kept = [i \in 0..n |->
    IF i = 0 THEN <<>>
    ELSE IF tags[i] = name THEN kept[i - 1] ELSE Append(kept[i - 1], tags[i])]

LEMMA KeptExists ==
  ASSUME NEW tags, NEW name, NEW n \in Nat
  PROVE  \E kept : IsKept(kept, tags, name, n)
<1> DEFINE T == {m \in Nat : ~ \E kept : IsKept(kept, tags, name, m)}
<1> SUFFICES ASSUME T # {} PROVE FALSE
  OBVIOUS
<1>1. PICK m \in T : \A k \in T : ~(k < m)
  BY Least
<1>2. CASE m = 0
  <2>1. IsKept([i \in 0..0 |-> <<>>], tags, name, 0)
    BY DEF IsKept
  <2> QED
    BY <1>2, <2>1
<1>3. CASE m # 0
  <2>1. m - 1 \in Nat /\ m - 1 \notin T
    BY <1>1, <1>3
  <2>2. PICK g : IsKept(g, tags, name, m - 1)
    BY <2>1
  <2>3. PICK h : h = [i \in 0..m |-> IF i < m THEN g[i] ELSE
                        IF tags[i] = name THEN g[i - 1] ELSE Append(g[i - 1], tags[i])]
    OBVIOUS
  <2>4. ASSUME NEW i \in 0..m
        PROVE  h[i] = IF i = 0 THEN <<>>
                      ELSE IF tags[i] = name THEN h[i - 1] ELSE Append(h[i - 1], tags[i])
    <3>1. i # 0 => i - 1 \in 0..m - 1 /\ h[i - 1] = g[i - 1]
      BY <2>1, <2>3
    <3>2. CASE i = m
      BY <1>3, <2>3, <3>1, <3>2
    <3>3. CASE i # m
      <4>1. i \in 0..m - 1 /\ h[i] = g[i]
        BY <2>3, <3>3
      <4> QED
        BY <2>2, <3>1, <4>1 DEF IsKept
    <3> QED
      BY <3>2, <3>3
  <2>5. IsKept(h, tags, name, m)
    BY <2>3, <2>4 DEF IsKept
  <2> QED
    BY <2>5
<1> QED
  BY <1>2, <1>3

LEMMA AppendTag ==
  ASSUME NEW S, NEW tags \in Seq(S), NEW tag \in S
  PROVE  Append(tags, tag) \in Seq(S) /\ ToSet(Append(tags, tag)) = ToSet(tags) \cup {tag}
<1>1. /\ Append(tags, tag) \in Seq(S) /\ DOMAIN tags = 1..Len(tags) /\ Len(tags) \in Nat
      /\ DOMAIN Append(tags, tag) = 1..Len(tags) + 1
      /\ Append(tags, tag)[Len(tags) + 1] = tag
      /\ \A i \in 1..Len(tags) : Append(tags, tag)[i] = tags[i]
  OBVIOUS
<1>2. 1..Len(tags) + 1 = 1..Len(tags) \cup {Len(tags) + 1}
  BY <1>1
<1> QED
  BY <1>1, <1>2 DEF ToSet

\* No tag is left that was not there, and not the one that is removed.
LEMMA RemovedTags ==
  ASSUME NEW S, NEW tags \in Seq(S), NEW name
  PROVE  removed(tags, name) \in Seq(S) /\ ToSet(removed(tags, name)) \subseteq ToSet(tags) \ {name}
<1>1. Len(tags) \in Nat
  OBVIOUS
<1>2. PICK kept : kept = CHOOSE k : IsKept(k, tags, name, Len(tags))
  OBVIOUS
<1>3. IsKept(kept, tags, name, Len(tags))
  BY <1>1, <1>2, KeptExists
<1>4. removed(tags, name) = kept[Len(tags)]
  BY <1>2 DEF removed, IsKept
<1> DEFINE Good(i) == kept[i] \in Seq(S) /\ ToSet(kept[i]) \subseteq ToSet(tags) \ {name}
           T == {m \in 0..Len(tags) : ~Good(m)}
<1>5. T = {}
  <2> SUFFICES ASSUME T # {} PROVE FALSE
    OBVIOUS
  <2>1. T \in SUBSET Nat
    OBVIOUS
  <2>2. PICK m \in T : \A j \in T : ~(j < m)
    BY <2>1, Least
  <2>3. CASE m = 0
    <3>1. kept[0] = <<>>
      BY <1>1, <1>3 DEF IsKept
    <3>2. Good(0)
      BY <3>1 DEF ToSet
    <3> QED
      BY <2>2, <2>3, <3>2
  <2>4. CASE m # 0
    <3>1. m - 1 \in 0..Len(tags) /\ Good(m - 1) /\ m \in DOMAIN tags
      BY <2>2, <2>4
    <3>2. kept[m] = IF tags[m] = name THEN kept[m - 1] ELSE Append(kept[m - 1], tags[m])
      BY <1>3, <2>2, <2>4 DEF IsKept
    <3>3. CASE tags[m] = name
      BY <2>2, <3>1, <3>2, <3>3
    <3>4. CASE tags[m] # name
      <4>1. tags[m] \in S /\ kept[m] = Append(kept[m - 1], tags[m]) /\ kept[m - 1] \in Seq(S)
        BY <3>1, <3>2, <3>4
      <4>2. kept[m] \in Seq(S) /\ ToSet(kept[m]) = ToSet(kept[m - 1]) \cup {tags[m]}
        BY <4>1, AppendTag
      <4>3. tags[m] \in ToSet(tags) \ {name}
        BY <3>1, <3>4 DEF ToSet
      <4>4. Good(m)
        BY <3>1, <4>2, <4>3
      <4> QED
        BY <2>2, <4>4
    <3> QED
      BY <3>3, <3>4
  <2> QED
    BY <2>3, <2>4
<1> QED
  BY <1>1, <1>4, <1>5

LEMMA ReplacedTags ==
  ASSUME NEW tags \in Seq(Tags), NEW old_name \in Tags, NEW new_name \in Tags, old_name # new_name
  PROVE  /\ replace(tags, old_name, new_name) \in Seq(Tags)
         /\ ToSet(replace(tags, old_name, new_name)) \subseteq (ToSet(tags) \ {old_name}) \cup {new_name}
BY DEF replace, ToSet

\* Every tab that is open has been crossed.
LEMMA RetagTabs ==
  ASSUME IInv, JInv, NEW new_tags, retag(new_tags)
  PROVE  TabsFine'
<1> SUFFICES ASSUME NEW s \in Sessions PROVE TabFine(session'[s], nextId', gone')
  BY DEF TabsFine
<1>1. PICK tab : tab = session[s] /\ tab \in Tab /\ TabFine(tab, nextId, gone)
  BY FineTab
<1>2. PICK old \in BOOLEAN : old = (tab.pc \notin {"idle", "closed"})
  OBVIOUS
<1>3. PICK t : t = [tab EXCEPT !.old = old]
  OBVIOUS
<1>4. session'[s] = t /\ nextId' = nextId
  BY <1>1, <1>2, <1>3 DEF retag
<1>5. /\ t \in Tab /\ t.made = tab.made /\ t.id = tab.id /\ t.loaded = tab.loaded
      /\ t.pc = tab.pc /\ t.old = old /\ t.kind = tab.kind
  BY <1>1, <1>3 DEF Tab
<1>6. TabFine(t, nextId, gone')
  BY <1>1, <1>2, <1>5 DEF TabFine, MadeOnce, Recalls
<1> QED
  BY <1>4, <1>6

\* The lists of tags of all posts are replaced by lists without what is gone.
LEMMA RetagFine ==
  ASSUME IInv, JInv, NEW new_tags, retag(new_tags), gone' \subseteq Tags,
         \A id \in Live : new_tags[id] \in Seq(Tags) /\ ToSet(new_tags[id]) \cap gone' = {}
  PROVE  JInv'
<1>1. TabsFine'
  BY RetagTabs
<1>2. /\ tagOps' \in 0..MaxTagOps /\ UNCHANGED <<nextId, saves, crossed>>
      /\ posts' = [id \in Ids |-> IF id \in Live THEN [posts[id] EXCEPT !.tags = new_tags[id]] ELSE None]
  BY BoundsAssumption DEF retag, JInv, TypeOK
<1>3. ASSUME NEW id \in Live
      PROVE  posts'[id] \in Post /\ ToSet(posts'[id].tags) \cap gone' = {}
  <2>1. PICK row \in Post : row = posts[id] /\ id \in Ids
    BY DEF Live, JInv, TypeOK
  <2>2. PICK new : new = [row EXCEPT !.tags = new_tags[id]]
    OBVIOUS
  <2>3. posts'[id] = new
    BY <1>2, <2>1, <2>2
  <2>4. new \in Post /\ new.tags = new_tags[id]
    BY <2>2 DEF Post
  <2> QED
    BY <2>3, <2>4
<1>4. \A id \in Ids : id \notin Live => posts'[id] = None /\ posts[id] = None
  BY <1>2 DEF Live
<1>5. \A id \in Ids : posts'[id] \in Post \cup {None}
  BY <1>3, <1>4
<1>6. RowsFine'
  <2>1. posts' \in [Ids -> Post \cup {None}]
    BY <1>2, <1>5
  <2>2. nextId' \in 1..MaxIds + 1 /\ \A id \in Ids : id >= nextId' => posts'[id] = None
    BY <1>2, <1>4 DEF JInv, TypeOK, Live
  <2>3. ForgottenTagStaysGone'
    <3>1. \A id \in Live' : id \in Live
      BY <1>4 DEF Live
    <3> QED
      BY <1>3, <3>1 DEF ForgottenTagStaysGone
  <2> QED
    BY <2>1, <2>2, <2>3 DEF RowsFine
<1> QED
  BY <1>1, <1>2, <1>6, FineSum DEF JInv, TypeOK

LEMMA TagsFine ==
  ASSUME IInv, JInv, NEW name \in Tags
  PROVE  /\ delete_tag(name) => JInv'
         /\ \A new_name \in Tags : rename_tag(name, new_name) => JInv'
<1>1. ASSUME NEW id \in Live PROVE posts[id].tags \in Seq(Tags) /\ ToSet(posts[id].tags) \cap gone = {}
  BY DEF Live, JInv, TypeOK, Post, ForgottenTagStaysGone
<1>2. gone \subseteq Tags
  BY DEF JInv, TypeOK
<1>3. ASSUME delete_tag(name) PROVE JInv'
  <2>1. PICK new_tags : new_tags = [id \in Live |-> removed(posts[id].tags, name)]
    OBVIOUS
  <2>2. retag(new_tags) /\ gone' = gone \cup {name}
    BY <1>3, <2>1 DEF delete_tag
  <2>3. ASSUME NEW id \in Live PROVE new_tags[id] \in Seq(Tags) /\ ToSet(new_tags[id]) \cap gone' = {}
    BY <1>1, <2>1, <2>2, RemovedTags
  <2> QED
    BY <1>2, <2>2, <2>3, RetagFine
<1>4. ASSUME NEW new_name \in Tags, rename_tag(name, new_name) PROVE JInv'
  <2>1. PICK new_tags : new_tags = [id \in Live |-> replace(posts[id].tags, name, new_name)]
    OBVIOUS
  <2>2. name # new_name /\ retag(new_tags) /\ gone' = (gone \cup {name}) \ {new_name}
    BY <1>4, <2>1 DEF rename_tag
  <2>3. ASSUME NEW id \in Live PROVE new_tags[id] \in Seq(Tags) /\ ToSet(new_tags[id]) \cap gone' = {}
    BY <1>1, <2>1, <2>2, ReplacedTags
  <2> QED
    BY <1>2, <2>2, <2>3, RetagFine
<1> QED
  BY <1>3, <1>4

-----------------------------------------------------------------------------
(* Types, tags and created posts: the theorems.                            *)

LEMMA InitiallyFine == Init => JInv
<1> SUFFICES ASSUME Init PROVE JInv
  OBVIOUS
<1>1. PICK form \in First : \E embedding \in Embeddings(form) :
        posts = [id \in Ids |-> IF id = 1 THEN Post_from(form, embedding) ELSE None]
  BY DEF Init
<1>2. PICK embedding \in Embeddings(form) :
        posts = [id \in Ids |-> IF id = 1 THEN Post_from(form, embedding) ELSE None]
  BY <1>1
<1>3. Post_from(form, embedding) \in Post
  BY FormsAssumption DEF Post_from, Post, Form, Embeddings, Text
<1>4. posts \in [Ids -> Post \cup {None}]
  BY <1>2, <1>3
<1>5. nextId \in 1..MaxIds + 1 /\ nextId = 2 /\ \A id \in Ids : id >= nextId => posts[id] = None
  BY <1>2, BoundsAssumption DEF Init, Ids
<1>6. /\ Unused.pc = "idle" /\ Unused.loaded = None /\ Unused.made = {} /\ Unused.id = None
  BY DEF Unused
<1>7. \A s \in Sessions : session[s] = Unused
  BY DEF Init
<1>8. TabFine(Unused, nextId, gone)
  BY <1>5, <1>6, UnusedTyped DEF TabFine, MadeOnce, Recalls
<1>9. TabsFine
  BY <1>7, <1>8 DEF TabsFine
<1>10. /\ \A s \in Sessions : session[s] \in Tab
       /\ tagOps \in 0..MaxTagOps /\ saves \in 0..MaxSaves /\ gone = {} /\ crossed = {}
  BY <1>7, UnusedTyped, BoundsAssumption DEF Init
<1>11. TypeOK
  BY <1>4, <1>5, <1>10 DEF TypeOK
<1>12. ForgottenTagStaysGone
  BY <1>10 DEF ForgottenTagStaysGone
<1> QED
  BY <1>9, <1>11, <1>12 DEF JInv

LEMMA RequestFine == ASSUME IInv, JInv, NEW s \in Sessions, request(s) PROVE JInv'
<1>1. CASE update_select(s) \/ fails(s)
  BY <1>1, EditorFine
<1>2. CASE \E embedding \in (Titles \X Contents) \cup {None} : get_embedding(s, embedding)
  BY <1>2, EditorFine
<1>3. CASE \E told \in BOOLEAN : update_commit(s, told) \/ create_post(s, told)
  BY <1>3, CommitFine, CreateFine
<1>4. CASE \E suffix \in Randoms : \E told \in BOOLEAN : create_post_retry(s, suffix, told)
  BY <1>4, RetryFine
<1>5. CASE \E suffix \in Randoms : reslug(s, suffix)
  BY <1>5, ReslugFine
<1> QED
  BY <1>1, <1>2, <1>3, <1>4, <1>5 DEF request

LEMMA InductiveFine == IInv /\ JInv /\ [Next]_vars => JInv'
<1> SUFFICES ASSUME IInv, JInv, [Next]_vars PROVE JInv'
  OBVIOUS
<1>1. ASSUME NEW s \in Sessions, NEW id \in Ids, loadPost(s, id) PROVE JInv'
  BY <1>1, EditorFine
<1>2. ASSUME NEW s \in Sessions, new_post(s) \/ cancel(s) \/ request(s) PROVE JInv'
  BY <1>2, EditorFine, RequestFine
<1>3. ASSUME NEW s \in Sessions, NEW form \in touched(session[s].form), onSubmit(s, form)
      PROVE  JInv'
  BY <1>3, EditorFine
<1>4. ASSUME NEW s \in Sessions, NEW form \in Generated, generate_full_post(s, form) PROVE JInv'
  BY <1>4, EditorFine
<1>5. ASSUME NEW id \in Ids, delete_post_by_id(id) PROVE JInv'
  BY <1>5, DeleteFine
<1>6. ASSUME NEW name \in Tags, delete_tag(name) \/ \E new_name \in Tags : rename_tag(name, new_name)
      PROVE  JInv'
  BY <1>6, TagsFine
<1>7. CASE UNCHANGED vars
  BY <1>7 DEF vars, JInv, TypeOK, ForgottenTagStaysGone, Live, TabsFine
<1> QED
  BY <1>1, <1>2, <1>3, <1>4, <1>5, <1>6, <1>7 DEF Next, Quiescent

LEMMA BothHold == Spec => [](IInv /\ JInv)
<1>1. IInv /\ JInv /\ [Next]_vars => IInv' /\ JInv'
  BY Inductive, InductiveFine
<1> QED
  BY <1>1, Initially, InitiallyFine, PTL DEF Spec

\* Rows and tabs have their types in every reachable state.
THEOREM TypeCorrect == Spec => []TypeOK
<1>1. JInv => TypeOK
  BY DEF JInv
<1> QED
  BY <1>1, BothHold, PTL

\* One POST, or one call of the generator, makes one post at most, however its two commits
\* go: a first one that raised although it landed has given the row the id the second
\* one's INSERT repeats (create_post, generate_post_endpoint).
THEOREM ConsistencyHolds == Spec => []Consistent
<1>1. JInv => Consistent
  BY DEF JInv, TabsFine, TabFine, MadeOnce, Consistent, CreatedOnce
<1> QED
  BY <1>1, BothHold, PTL

\* No save of a form brings back a tag that was renamed away or deleted, unless it was
\* typed again or shown before it went (rename_tag, delete_tag, update_post_by_id).
THEOREM GoneTagsStayGone == Spec => []ForgottenTagStaysGone
<1>1. JInv => ForgottenTagStaysGone
  BY DEF JInv
<1> QED
  BY <1>1, BothHold, PTL
=============================================================================
