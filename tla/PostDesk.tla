------------------------------ MODULE PostDesk ------------------------------
(***************************************************************************)
(* The owner's work on blog posts: editor tabs                             *)
(* (post-editor.component.ts) that create and save posts, the generator,   *)
(* and the tag manager, over backend/app/api/posts.py and tags.py.         *)
(*                                                                         *)
(* PUT and POST await an embedding of the text between reading and         *)
(* writing, and the tag operations are single UPDATEs over all posts.      *)
(* What the owner types and the AI suggests is whatever the form holds     *)
(* when it is submitted.  Of a post's columns summary, image and published *)
(* are left out: they are saved like the title, but not embedded.          *)
(***************************************************************************)
EXTENDS Naturals, Sequences, SequencesExt

CONSTANTS
  Sessions,    \* editor tabs, and calls of the generator (each used once)
  Slugs, Languages, Titles, Contents, Tags,
  TagLists,    \* the tag lists the owner may enter
  First,       \* what the post that is there may be at the start
  Blank,       \* the form of a new post
  Generated,   \* what the AI model may write
  Randoms,    \* random.randint(1000, 9999)
  MaxIds,      \* TLC's bound on the ids of posts
  MaxTagOps,   \* TLC's bound on the renamed and deleted tags
  MaxSaves,    \* TLC's bound on the saves tried in all tabs
  None

Ids == 1..MaxIds
Form == [slug : Slugs, language : Languages, title : Titles, content : Contents, tags : Seq(Tags)]
Columns == {"language", "title", "content", "tags"}
Text(row) == <<row.title, row.content>>

ASSUME FormsAssumption ==
  TagLists \subseteq Seq(Tags) /\ Blank \in Form /\ First \cup Generated \subseteq Form
ASSUME BoundsAssumption ==
  MaxIds \in Nat \ {0} /\ {MaxTagOps, MaxSaves} \subseteq Nat /\ Randoms \subseteq Nat \ {0}
ASSUME NoneAssumption == None \notin Form /\ None \notin Titles \X Contents /\ None \notin Ids

VARIABLES
  posts,     \* the rows: a post, or None
  nextId,
  session,   \* each tab's or call's progress
  tagOps, saves,  \* bound the tag operations and the saves
  gone,      \* history: tags renamed away or deleted, and not brought back since
  crossed    \* history: posts whose last save overlapped another one

vars == <<posts, nextId, session, tagOps, saves, gone, crossed>>

Post ==
  [slug : Slugs, suffix : {0} \cup Randoms, language : Languages, title : Titles,
   content : Contents, tags : Seq(Tags), embedding : (Titles \X Contents) \cup {None}]
Tab ==
  [pc : {"idle", "editing", "select", "embed", "commit", "insert", "retry", "reslug", "closed"},
   kind : {"edit", "create", "generate"},
   id : Ids \cup {None},                    \* of the post edited, or being created
   form : Post, loaded : Post \cup {None},  \* the form, and what it showed at first
   seen : Post \cup {None},                 \* the row the request has read
   old : BOOLEAN,                           \* history: a tag was changed since it was opened
   made : SUBSET Ids]                       \* history: the posts the request created

TypeOK ==
  /\ posts \in [Ids -> Post \cup {None}]
  /\ nextId \in 1..MaxIds + 1 /\ \A id \in Ids : id >= nextId => posts[id] = None
  /\ \A s \in Sessions : session[s] \in Tab
  /\ tagOps \in 0..MaxTagOps /\ saves \in 0..MaxSaves
  /\ gone \subseteq Tags /\ crossed \subseteq Ids

Live == {id \in Ids : posts[id] # None}
\* ux_post_slug_lang.
Taken(slug, suffix, language, but) ==
  \E id \in Live \ {but} :
    /\ posts[id].slug = slug /\ posts[id].suffix = suffix /\ posts[id].language = language

\* What get_embedding can answer; it fails softly.
Embeddings(row) == {Text(row), None}

Post_from(form, embedding) ==
  [slug |-> form.slug, suffix |-> 0, language |-> form.language, title |-> form.title,
   content |-> form.content, tags |-> form.tags, embedding |-> embedding]

Start(form) == Post_from(form, None)
Unused ==
  [pc |-> "idle", kind |-> "edit", id |-> None, form |-> Start(Blank), loaded |-> None,
   seen |-> None, old |-> FALSE, made |-> {}]

Init ==
  /\ \E form \in First : \E embedding \in Embeddings(form) :
       posts = [id \in Ids |-> IF id = 1 THEN Post_from(form, embedding) ELSE None]
  /\ nextId = 2
  /\ session = [s \in Sessions |-> Unused]
  /\ tagOps = 0 /\ saves = 0 /\ gone = {} /\ crossed = {}

-----------------------------------------------------------------------------
(* The editor.                                                             *)

Step(s, tab) == session' = [session EXCEPT ![s] = tab]
Goto(s, step) == Step(s, [session[s] EXCEPT !.pc = step])
\* A tab that is closed, or shows its form again.
Closed(tab) == [Unused EXCEPT !.pc = "closed", !.made = tab.made]
Open(tab) ==
  [tab EXCEPT !.pc = "editing", !.form.embedding = None, !.seen = None,
              !.id = IF tab.kind = "edit" THEN @ ELSE None]
rows == <<posts, nextId>>
history == <<gone, crossed>>

\* The form shows the post: get_post_by_id.
loadPost(s, id) ==
  /\ session[s].pc = "idle" /\ id \in Live
  /\ Step(s, [session[s] EXCEPT !.pc = "editing", !.id = id, !.form = Start(posts[id]),
                                !.loaded = posts[id]])
  /\ UNCHANGED <<rows, tagOps, saves, history>>

new_post(s) ==
  /\ session[s].pc = "idle"
  /\ Step(s, [session[s] EXCEPT !.pc = "editing", !.kind = "create"])
  /\ UNCHANGED <<rows, tagOps, saves, history>>

\* What the form may hold when it is saved next: one column is changed at most.
\* A post that is edited keeps its slug, whatever the form says: PostUpdate has none.
touched(form) ==
  {form} \cup {[form EXCEPT !.title = title] : title \in Titles}
         \cup {[form EXCEPT !.content = content] : content \in Contents}
         \cup {[form EXCEPT !.language = language] : language \in Languages}
         \cup {[form EXCEPT !.tags = tags] : tags \in TagLists}

onSubmit(s, form) ==
  LET tab == session[s] IN
  /\ tab.pc = "editing" /\ saves < MaxSaves
  /\ Step(s, [tab EXCEPT !.pc = IF tab.kind = "edit" THEN "select" ELSE "embed",
                         !.form = form, !.made = {}])
  /\ saves' = saves + 1
  /\ UNCHANGED <<rows, tagOps, history>>

cancel(s) ==
  /\ session[s].pc = "editing"
  /\ Step(s, Closed(session[s]))
  /\ UNCHANGED <<rows, tagOps, saves, history>>

Server == {"select", "embed", "commit", "insert", "retry", "reslug"}

\* A 404, a 500 or a broken connection: the form stays, with the error above it.
Refuse(s) ==
  Step(s, IF session[s].kind = "generate" THEN Closed(session[s]) ELSE Open(session[s]))

fails(s) ==
  /\ session[s].pc \in Server
  /\ Refuse(s)
  /\ UNCHANGED <<rows, tagOps, saves, history>>

\* The answer arrives and the editor is left, or it is lost after the commit.
Answer(s, told, made) ==
  LET tab == [session[s] EXCEPT !.made = @ \cup made]
  IN  Step(s, IF told \/ tab.kind = "generate" THEN Closed(tab) ELSE Open(tab))

-----------------------------------------------------------------------------
(* update_post_by_id.                                                      *)

update_select(s) ==
  LET row == posts[session[s].id] IN
  /\ session[s].pc = "select"
  /\ IF row = None THEN Refuse(s) ELSE Step(s, [session[s] EXCEPT !.pc = "embed", !.seen = row])
  /\ UNCHANGED <<rows, tagOps, saves, history>>

\* Mutant of get_embedding: the text is embedded before the columns are assigned.
get_embedding_early(s, embedding) ==
  LET tab == session[s] IN
  /\ tab.pc = "embed"
  /\ embedding \in Embeddings(IF tab.kind = "edit" THEN tab.seen ELSE tab.form)
  /\ Step(s, [tab EXCEPT !.pc = IF tab.kind = "edit" THEN "commit" ELSE "insert",
                         !.form.embedding = embedding])
  /\ UNCHANGED <<rows, tagOps, saves, history>>

\* The embedding of the text the request leaves the row with, as far as it knows.
get_embedding(s, embedding) ==
  LET tab == session[s] IN
  /\ tab.pc = "embed"
  /\ embedding \in Embeddings(tab.form)
  /\ Step(s, [tab EXCEPT !.pc = IF tab.kind = "edit" THEN "commit" ELSE "insert",
                         !.form.embedding = embedding])
  /\ UNCHANGED <<rows, tagOps, saves, history>>

\* The columns that differ from the row the session read are written.  Vectors
\* always differ, but None from None does not.
Changed(seen, form) ==
  {c \in Columns : form[c] # seen[c]}
    \cup (IF form.embedding = None /\ seen.embedding = None THEN {} ELSE {"embedding"})

\* Mutant of Written: an UPDATE of every column.
Written_all(row, seen, form) ==
  [c \in DOMAIN row |-> IF c \in Columns \cup {"embedding"} THEN form[c] ELSE row[c]]

Written(row, seen, form) ==
  [c \in DOMAIN row |-> IF c \in Changed(seen, form) THEN form[c] ELSE row[c]]

Typed(tab) == ToSet(tab.form.tags) \ (IF tab.loaded = None THEN {} ELSE ToSet(tab.loaded.tags))
\* Tags come back by hand, or with a form opened before they went.
brought_back(tab) == IF tab.old THEN ToSet(tab.form.tags) ELSE Typed(tab)

update_commit(s, told) ==
  LET tab == session[s]
      row == posts[tab.id]
      new == Written(row, tab.seen, tab.form)
  IN
  /\ tab.pc = "commit"
  /\ IF row = None \/ Taken(new.slug, new.suffix, new.language, tab.id)
     THEN Refuse(s) /\ UNCHANGED <<posts, history>>
     ELSE /\ posts' = [posts EXCEPT ![tab.id] = new]
          /\ gone' = IF "tags" \in Changed(tab.seen, tab.form)
                     THEN gone \ brought_back(tab) ELSE gone
          /\ crossed' = IF <<Text(row), row.embedding>> = <<Text(tab.seen), tab.seen.embedding>>
                        THEN crossed \ {tab.id} ELSE crossed \cup {tab.id}
          /\ Answer(s, told, {})
  /\ UNCHANGED <<nextId, tagOps, saves>>

delete_post_by_id(id) ==
  /\ id \in Live
  /\ posts' = [posts EXCEPT ![id] = None]
  /\ UNCHANGED <<nextId, session, tagOps, saves, history>>

-----------------------------------------------------------------------------
(* create_post and generate_post_endpoint.                                 *)

\* The model's draft; its tags are not validated.
generate_full_post(s, form) ==
  /\ session[s].pc = "idle"
  /\ Step(s, [session[s] EXCEPT !.pc = "embed", !.kind = "generate", !.form = Start(form)])
  /\ UNCHANGED <<rows, tagOps, saves, history>>

\* The row is committed; a serial id is used once.
insert(s, id, row) ==
  /\ id \in Ids
  /\ posts' = [posts EXCEPT ![id] = row]
  /\ nextId' = IF id = nextId THEN nextId + 1 ELSE nextId
  /\ gone' = gone \ brought_back(session[s])
  /\ UNCHANGED crossed

\* The commit raises after the INSERT has returned the id, which the Post keeps
\* through the rollback.
raises(s, made) ==
  Step(s, [session[s] EXCEPT !.pc = "retry", !.id = nextId, !.made = made])

\* The first commit; any exception leads to a second one with another slug: the
\* INSERT was refused, or the COMMIT raised, whether it landed or not.  The
\* generator's refresh is inside the same try: its failure renames a saved post.
create_post(s, told) ==
  LET row == session[s].form IN
  /\ session[s].pc = "insert"
  /\ \/ Goto(s, "retry") /\ UNCHANGED <<rows, history>>
     \/ /\ ~Taken(row.slug, 0, row.language, None)
        /\ insert(s, nextId, row)
        /\ \/ Answer(s, told, {nextId})
           \/ raises(s, {nextId})
           \/ /\ session[s].kind = "generate"
              /\ Step(s, [session[s] EXCEPT !.pc = "reslug", !.id = nextId,
                                            !.made = {nextId}])
     \/ /\ ~Taken(row.slug, 0, row.language, None)
        /\ nextId \in Ids /\ nextId' = nextId + 1
        /\ raises(s, {})
        /\ UNCHANGED <<posts, history>>
  /\ UNCHANGED <<tagOps, saves>>

\* Mutant of create_post_retry: a new Post, which has no id yet.
create_post_again(s, suffix, told) ==
  LET row == [session[s].form EXCEPT !.suffix = suffix] IN
  /\ session[s].pc = "retry"
  /\ IF Taken(row.slug, suffix, row.language, None)
     THEN Refuse(s) /\ UNCHANGED <<rows, history>>
     ELSE insert(s, nextId, row) /\ Answer(s, told, {nextId})
  /\ UNCHANGED <<tagOps, saves>>

\* The same Post is added again: with the id it has, if the INSERT returned one, so
\* the primary key refuses what has landed already.
create_post_retry(s, suffix, told) ==
  LET row == [session[s].form EXCEPT !.suffix = suffix]
      id == IF session[s].id = None THEN nextId ELSE session[s].id
  IN
  /\ session[s].pc = "retry"
  /\ IF id \in Live \/ Taken(row.slug, suffix, row.language, None)
     THEN Refuse(s) /\ UNCHANGED <<rows, history>>
     ELSE insert(s, id, row) /\ Answer(s, told, {id})
  /\ UNCHANGED <<tagOps, saves>>

reslug(s, suffix) ==
  LET id == session[s].id IN
  /\ session[s].pc = "reslug"
  /\ IF posts[id] = None \/ Taken(posts[id].slug, suffix, posts[id].language, id)
     THEN UNCHANGED posts
     ELSE posts' = [posts EXCEPT ![id].suffix = suffix]
  /\ Step(s, Closed(session[s]))
  /\ UNCHANGED <<nextId, tagOps, saves, history>>

-----------------------------------------------------------------------------
(* The tag manager.                                                        *)

replace(tags, old_name, new_name) ==
  [i \in DOMAIN tags |-> IF tags[i] = old_name THEN new_name ELSE tags[i]]

retag(new_tags) ==
  /\ tagOps < MaxTagOps
  /\ tagOps' = tagOps + 1
  /\ posts' = [id \in Ids |->
       IF id \in Live THEN [posts[id] EXCEPT !.tags = new_tags[id]] ELSE None]
  /\ session' = [s \in Sessions |->
       [session[s] EXCEPT !.old = session[s].pc \notin {"idle", "closed"}]]
  /\ UNCHANGED <<nextId, saves, crossed>>

rename_tag(old_name, new_name) ==
  /\ old_name # new_name
  /\ retag([id \in Live |-> replace(posts[id].tags, old_name, new_name)])
  /\ gone' = (gone \cup {old_name}) \ {new_name}

\* array_remove, from the first tag to the last.
removed(tags, name) ==
  LET kept[i \in 0..Len(tags)] ==
        IF i = 0 THEN <<>>
        ELSE IF tags[i] = name THEN kept[i - 1] ELSE Append(kept[i - 1], tags[i])
  IN  kept[Len(tags)]

delete_tag(name) ==
  /\ retag([id \in Live |-> removed(posts[id].tags, name)])
  /\ gone' = gone \cup {name}

-----------------------------------------------------------------------------
request(s) ==
  \/ update_select(s)
  \/ \E embedding \in (Titles \X Contents) \cup {None} : get_embedding(s, embedding)
  \/ \E told \in BOOLEAN : update_commit(s, told) \/ create_post(s, told)
  \/ \E suffix \in Randoms :
       \/ \E told \in BOOLEAN : create_post_retry(s, suffix, told)
       \/ reslug(s, suffix)
  \/ fails(s)

Quiescent ==
  /\ \A s \in Sessions : session[s].pc = "closed"
  /\ UNCHANGED vars

Next ==
  \/ \E s \in Sessions :
       \/ \E id \in Ids : loadPost(s, id)
       \/ new_post(s) \/ cancel(s) \/ request(s)
       \/ \E form \in touched(session[s].form) : onSubmit(s, form)
       \/ \E form \in Generated : generate_full_post(s, form)
  \/ \E id \in Ids : delete_post_by_id(id)
  \/ \E name \in Tags : delete_tag(name) \/ \E new_name \in Tags : rename_tag(name, new_name)
  \/ Quiescent

Spec == Init /\ [][Next]_vars

-----------------------------------------------------------------------------
(* Properties.                                                             *)

\* A post is found by the text it has: its embedding is of its title and content
\* (or missing), unless its last save overlapped another one of the same post.
\* Two such saves can leave the title of one, the content of the other and an
\* embedding of neither.
EmbeddingFollowsText ==
  \A id \in Live \ crossed : posts[id].embedding \in Embeddings(posts[id])

\* A tag that was renamed away or deleted does not come back by itself: only
\* when it is typed again, or with a form that was opened before it went and
\* whose save writes the tags.
ForgottenTagStaysGone == \A id \in Live : ToSet(posts[id].tags) \cap gone = {}

\* One POST, or one call of the generator, never makes two posts, however its two
\* commits go: also when the first raised although it had landed, and the handler
\* inserts again under another slug, which no unique index on the slug would refuse.
CreatedOnce == \A s \in Sessions : \A i, j \in session[s].made : i = j

\* Rows and tabs are what they should be, and no request makes two posts.
Consistent == TypeOK /\ CreatedOnce

Saved(s) ==
  /\ session[s].pc = "commit" /\ session'[s].pc # "commit"
  /\ posts'[session[s].id] # posts[session[s].id]
ColumnsKept(s) ==
  LET tab == session[s]
      before == posts[tab.id]
      now == posts'[tab.id]
  IN  \A c \in Columns :
        /\ tab.form[c] = tab.loaded[c] /\ tab.loaded[c] = tab.seen[c] => now[c] = before[c]
        /\ tab.seen[c] = before[c] => now[c] = tab.form[c]

\* A save overwrites what another session wrote to a column its own form left
\* alone only if that was written between the load of the form and the request,
\* never while the request runs; a column nobody writes meanwhile is what the
\* form says.
UntouchedColumnsKept == [][\A s \in Sessions : Saved(s) => ColumnsKept(s)]_vars
=============================================================================
