------------------------------ MODULE PostImport ------------------------------
(***************************************************************************)
(* LinkedIn posts on their way into the blog: the standalone importer with *)
(* its ledger (importer/core.py), the import endpoints that upsert by URN  *)
(* (backend/app/api/linkedin.py), and the owner who edits, publishes and   *)
(* deletes what was imported (backend/app/api/posts.py).                   *)
(*                                                                         *)
(* The importer waits for an attempt for a limited time; an attempt it has *)
(* given up is still on its way or being executed.  Between a handler's    *)
(* look-up and its commit other handlers run.  A column is written only    *)
(* when the session saw another value, except the embedding, which is a    *)
(* fresh array each time, or nothing when the embedding service fails.  An *)
(* attempt is a request and is used once; the handler of a server that     *)
(* died takes no further step.                                             *)
(***************************************************************************)
EXTENDS Naturals, FiniteSets

CONSTANTS
  Urns,       \* the scraped posts
  Contents,   \* texts a post may have over time
  Downloads,  \* what can be had of an image: its bytes ("blob"), its URL ("url")
  Flaky,      \* texts that the embedding service may fail on
  Edits,      \* bodies of the owner's PUT: [content, retitled, published]
  Attempts,   \* requests (TLC's bound on their number)
  retries,    \* the importer's Config.retries
  publish,    \* the importer's --publish
  None

Maybe(S) == S \cup {None}

ASSUME RetriesAssumption == retries \in Nat \ {0}
ASSUME PublishAssumption == publish \in BOOLEAN
ASSUME NoneAssumption == None \notin Attempts \cup Urns \cup Contents \cup BOOLEAN
ASSUME DownloadsAssumption == Downloads \subseteq {"blob", "url"}
ASSUME EditsAssumption ==
  Edits \subseteq [content : Maybe(Contents), retitled : BOOLEAN, published : Maybe(BOOLEAN)]

VARIABLES
  scraped,    \* posts_data.json
  disk,       \* state.json
  importer,   \* the importer's process
  server,     \* the handler of each attempt
  posts,      \* committed rows with a URN
  landed,     \* history: <<urn, content>> of every committed import
  raced       \* history: <<attempt, urn>> where another one wrote the row between
              \* the attempt's look-up and its commit (an upload looks up many URNs)

vars == <<scraped, disk, importer, server, posts, landed, raced>>

\* What the ledger knows of a URN: the content imported (its fingerprint) and,
\* for the properties only, the attempt that was answered 200.
Mark == [content : Contents, by : Attempts]
Ledger == [Urns -> Maybe(Mark)]
EmptyLedger == [u \in Urns |-> None]

\* image: the bytes, the remote URL, both or neither; indexed: the content the
\* embedding was computed from, None without one; by: the last attempt that wrote
\* the row.
Pictures == SUBSET {"blob", "url"}
Fetched(ways) == {{}} \cup {{way} : way \in ways}
Post == [id : Attempts \X Urns, urn : Urns, content : Contents,
         indexed : Maybe(Contents), image : Pictures, published : BOOLEAN,
         by : Attempts]

ASSUME NoneIsNoRecord == None \notin Post \cup Mark

Importer == [pc : {"off", "running", "posting", "exit_0"},
             batch : [Urns -> Maybe(Contents)], todo : SUBSET Urns, ledger : Ledger,
             urn : Maybe(Urns), tries : 0..retries, attempt : Maybe(Attempts),
             image : Pictures, failed : SUBSET Urns, dry : BOOLEAN]

Off == [pc |-> "off", batch |-> [u \in Urns |-> None], todo |-> {},
        ledger |-> EmptyLedger, urn |-> None, tries |-> 0, attempt |-> None,
        image |-> {}, failed |-> {}, dry |-> FALSE]

Answered == {"200", "4xx", "5xx"}

\* embeds: the request writes the embedding; indexed: what it is of.
Handler == [pc : {"idle", "sent", "next", "looked_up", "collided", "keep_url"}
                   \cup Answered,
            kind : {"import", "json", "put"}, rest : SUBSET (Urns \X Contents),
            urn : Maybe(Urns), content : Maybe(Contents), embeds : BOOLEAN,
            indexed : Maybe(Contents), image : Pictures, published : Maybe(BOOLEAN),
            seen : Maybe(Post)]

Idle == [pc |-> "idle", kind |-> "import", rest |-> {}, urn |-> None, content |-> None,
         embeds |-> FALSE, indexed |-> None, image |-> {}, published |-> None, seen |-> None]

TypeOK ==
  /\ scraped \in [Urns -> Contents]
  /\ disk \in Ledger
  /\ importer \in Importer
  /\ server \in [Attempts -> Handler]
  /\ posts \subseteq Post
  /\ landed \subseteq Urns \X Contents
  /\ raced \subseteq Attempts \X Urns

Init ==
  /\ scraped \in [Urns -> Contents]
  /\ disk = EmptyLedger
  /\ importer = Off
  /\ server = [a \in Attempts |-> Idle]
  /\ posts = {} /\ landed = {} /\ raced = {}

-----------------------------------------------------------------------------
(* The import endpoints and the owner's PUT and DELETE.                    *)

Step(a, pc) == server' = [server EXCEPT ![a].pc = pc]

\* The answer; the session and the request's data are gone.
Answer(a, code) == server' = [server EXCEPT ![a] = [Idle EXCEPT !.pc = code]]

\* _upsert_linkedin_post's SELECT.
existing(u, p) == IF \E q \in posts : q.urn = u THEN p # None /\ p.urn = u ELSE p = None

\* What get_embedding answers; any failure of the service is an answer of None.
Embeddings(c) == {c} \cup {None : d \in Flaky \cap {c}}

\* The request of an importer: one entry.
request(u, c, image) ==
  [Idle EXCEPT !.pc = "sent", !.urn = u, !.content = c, !.embeds = TRUE, !.image = image,
               !.published = publish]

\* import_linkedin_post: 401, 413 and 415 answer before anything is read; the
\* embedding is awaited before the look-up.
import_linkedin_post(a) ==
  /\ server[a].pc = "sent"
  /\ \/ Answer(a, "4xx")
     \/ \E p \in Maybe(posts), index \in Embeddings(server[a].content) :
          /\ existing(server[a].urn, p)
          /\ server' = [server EXCEPT ![a] = [@ EXCEPT !.pc = "looked_up", !.seen = p,
                                                     !.indexed = index]]
  /\ UNCHANGED <<scraped, disk, importer, posts, landed, raced>>

\* A bulk upload between two entries; it creates drafts.
Upload(entries) == [Idle EXCEPT !.pc = "next", !.kind = "json", !.rest = entries,
                                !.published = FALSE]

\* The owner uploads posts_data.json.
import_posts_json(a) ==
  /\ server[a].pc = "idle"
  /\ server' = [server EXCEPT ![a] = Upload({<<u, scraped[u]>> : u \in Urns})]
  /\ UNCHANGED <<scraped, disk, importer, posts, landed, raced>>

\* Its loop: the next entry, its image downloaded, kept as a URL or absent; and
\* the answer when none is left.
json_entry(a) ==
  /\ server[a].pc = "next"
  /\ \/ /\ server[a].rest = {}
        /\ Answer(a, "200")
     \/ \E e \in server[a].rest, image \in Fetched(Downloads), p \in Maybe(posts) :
          /\ existing(e[1], p)
          /\ \E index \in Embeddings(e[2]) :
               server' = [server EXCEPT ![a] =
                 [@ EXCEPT !.pc = "looked_up", !.urn = e[1], !.rest = server[a].rest \ {e},
                           !.content = e[2], !.seen = p, !.embeds = TRUE, !.indexed = index,
                           !.image = image]]
  /\ UNCHANGED <<scraped, disk, importer, posts, landed, raced>>

\* Mutant: only a new title is embedded.
update_unless_retitled(a, e) ==
  /\ server[a].pc = "idle"
  /\ \E p \in posts :
     \E index \in Embeddings(IF e.content = None THEN p.content ELSE e.content) :
       server' = [server EXCEPT ![a] =
         [@ EXCEPT !.pc = "looked_up", !.kind = "put", !.seen = p, !.urn = p.urn,
            !.content = e.content, !.published = e.published, !.embeds = e.retitled,
            !.indexed = IF e.retitled THEN index ELSE None]]
  /\ UNCHANGED <<scraped, disk, importer, posts, landed, raced>>

\* update_post_by_id up to the answer of the embedding service it awaits: of the new
\* content, or of the loaded one when only the title changes.
update_post_by_id(a, e) ==
  /\ server[a].pc = "idle"
  /\ \E p \in posts :
       LET text == IF e.content = None THEN p.content ELSE e.content
           embeds == e.content # None \/ e.retitled
       IN \E index \in IF embeds THEN Embeddings(text) ELSE {None} :
            server' = [server EXCEPT ![a] =
              [@ EXCEPT !.pc = "looked_up", !.kind = "put", !.seen = p, !.urn = p.urn,
                        !.content = e.content, !.published = e.published,
                        !.embeds = embeds, !.indexed = index]]
  /\ UNCHANGED <<scraped, disk, importer, posts, landed, raced>>

\* A column is written when the request gives it a value its session had not seen.
Column(given, loaded, now) == IF given \in {None, loaded} THEN now ELSE given

\* An embedding that fails is written over the one the session saw.
Indexed(h, row) ==
  IF ~h.embeds \/ (h.indexed = None /\ h.seen.indexed = None) THEN row.indexed ELSE h.indexed

\* The bytes replace the remote URL the session saw; a URL alone waits for keep_url.
Image(h, row) ==
  IF "blob" \in h.image THEN (row.image \ h.seen.image) \cup {"blob"} ELSE row.image

\* Mutants: an update of everything but the content; one that publishes.
Written_metadata(a, row) ==
  [row EXCEPT !.indexed = Indexed(server[a], row),
              !.image = Image(server[a], row), !.by = a]
Written_published(a, row) ==
  LET h == server[a] IN
  [row EXCEPT !.content = Column(h.content, h.seen.content, @),
              !.indexed = Indexed(h, row),
              !.image = Image(h, row),
              !.published = Column(h.published, h.seen.published, @),
              !.by = a]

\* The UPDATE of an import: never the title, the tags or whether it is published.
Written(a, row) ==
  LET h == server[a] IN
  [row EXCEPT !.content = Column(h.content, h.seen.content, @),
              !.indexed = Indexed(h, row),
              !.image = Image(h, row),
              !.published = IF h.kind = "put" THEN Column(h.published, h.seen.published, @)
                                              ELSE @,
              !.by = a]

\* Others that have looked up the URN a commits, and have not committed yet.
Overtakes(a) ==
  {<<b, server[b].urn>> : b \in {c \in Attempts \ {a} :
     server[c].urn = server[a].urn /\ server[c].pc \in {"looked_up", "collided"}}}
Landing(a) == IF server[a].kind = "put" THEN {} ELSE {<<server[a].urn, server[a].content>>}

\* After its commit a handler refreshes the row and answers 200.  (A row already
\* gone makes that a 500, to the importer one more failure like a timeout.)  The
\* JSON loop goes on, first keeping the URL of an image it could not download.
after_commit(a, row) ==
  \/ /\ server[a].kind # "json"
     /\ Answer(a, "200")
  \/ /\ server[a].kind = "json"
     /\ server' = [server EXCEPT
          ![a] = IF "url" \in server[a].image \ row.image
                   THEN [@ EXCEPT !.pc = "keep_url", !.seen = row]
                   ELSE Upload(server[a].rest)]

\* The commit of an update; 500 when the row is gone.
commit_update(a) ==
  /\ server[a].pc = "looked_up" /\ server[a].seen # None
  /\ \/ \E row \in posts :
          /\ row.id = server[a].seen.id
          /\ posts' = (posts \ {row}) \cup {Written(a, row)}
          /\ after_commit(a, Written(a, row))
          /\ landed' = landed \cup Landing(a)
          /\ raced' = raced \cup Overtakes(a)
     \/ /\ \A row \in posts : row.id # server[a].seen.id
        /\ Answer(a, "5xx")
        /\ UNCHANGED <<posts, landed, raced>>
  /\ UNCHANGED <<scraped, disk, importer>>

New(a) == LET h == server[a] IN
  [id |-> <<a, h.urn>>, urn |-> h.urn, content |-> h.content, indexed |-> h.indexed,
   image |-> h.image \ {"url"}, published |-> h.published, by |-> a]

\* Mutant: no such index.
not_unique(a) == server[a].urn \in Urns
\* The partial UNIQUE index on source_urn.
unique(a) == \A row \in posts : row.urn # server[a].urn

\* The INSERT, refused by the URN's index or by (slug, language), whose random
\* suffix may collide.  The handler tries once more, also when the commit raised
\* although it landed.
commit_insert(a) ==
  /\ server[a].pc \in {"looked_up", "collided"} /\ server[a].seen = None
  /\ \/ /\ unique(a)
        /\ posts' = posts \cup {New(a)}
        /\ \/ after_commit(a, New(a))
           \/ server[a].pc = "looked_up" /\ Step(a, "collided")
        /\ landed' = landed \cup Landing(a)
        /\ raced' = raced \cup Overtakes(a)
     \/ /\ IF server[a].pc = "looked_up" THEN Step(a, "collided") ELSE Answer(a, "5xx")
        /\ UNCHANGED <<posts, landed, raced>>
  /\ UNCHANGED <<scraped, disk, importer>>

keep_url(a) ==
  /\ server[a].pc = "keep_url"
  /\ \/ \E row \in posts :
          /\ row.id = server[a].seen.id
          /\ posts' = (posts \ {row}) \cup {[row EXCEPT !.image = @ \cup {"url"}]}
          /\ server' = [server EXCEPT ![a] = Upload(server[a].rest)]
     \/ /\ \A row \in posts : row.id # server[a].seen.id
        /\ Answer(a, "5xx")
        /\ UNCHANGED posts
  /\ UNCHANGED <<scraped, disk, importer, landed, raced>>

delete_post_by_id ==
  /\ \E row \in posts : posts' = posts \ {row}
  /\ UNCHANGED <<scraped, disk, importer, server, landed, raced>>

-----------------------------------------------------------------------------
(* The importer, and the scraper before it.                                *)

Running == importer.pc \in {"running", "posting"}

\* load_posts and Ledger: a missing or unreadable state.json is an empty ledger.
start_run(dry) ==
  /\ ~Running
  /\ importer' = [importer EXCEPT !.pc = "running", !.batch = scraped, !.todo = Urns,
                                  !.ledger = disk, !.failed = {}, !.dry = dry]
  /\ UNCHANGED <<scraped, disk, server, posts, landed, raced>>

unchanged(u) == importer.ledger[u] # None /\ importer.ledger[u].content = importer.batch[u]

\* With --dry-run what would be imported is skipped as well.
skip(u) ==
  /\ importer.pc = "running" /\ u \in importer.todo
  /\ unchanged(u) \/ importer.dry
  /\ importer' = [importer EXCEPT !.todo = @ \ {u}]
  /\ UNCHANGED <<scraped, disk, server, posts, landed, raced>>

\* import_one: the image downloaded or not, and the first attempt.
import_one(u, a) ==
  /\ importer.pc = "running" /\ u \in importer.todo
  /\ ~unchanged(u) /\ ~importer.dry
  /\ server[a].pc = "idle"
  /\ \E image \in Fetched(Downloads \ {"url"}) :
       /\ importer' = [importer EXCEPT !.pc = "posting", !.urn = u, !.tries = 1,
                                       !.attempt = a, !.image = image]
       /\ server' = [server EXCEPT ![a] = request(u, importer.batch[u], image)]
  /\ UNCHANGED <<scraped, disk, posts, landed, raced>>

\* What _retry takes for a failure: 5xx, a broken connection or its own timeout,
\* which may come before the attempt is even received, or after it committed.
unanswered == server[importer.attempt].pc # "4xx"

retry(a) ==
  /\ importer.pc = "posting" /\ unanswered
  /\ importer.tries < retries
  /\ server[a].pc = "idle"
  /\ importer' = [importer EXCEPT !.tries = @ + 1, !.attempt = a]
  /\ server' = [server EXCEPT
                  ![a] = request(importer.urn, importer.batch[importer.urn], importer.image)]
  /\ UNCHANGED <<scraped, disk, posts, landed, raced>>

Done(imp) == [imp EXCEPT !.pc = "running", !.todo = @ \ {imp.urn}, !.urn = None,
                         !.tries = 0, !.attempt = None, !.image = {}]

give_up ==
  /\ importer.pc = "posting"
  /\ \/ unanswered /\ importer.tries = retries
     \/ server[importer.attempt].pc = "4xx"
  /\ importer' = [Done(importer) EXCEPT !.failed = @ \cup {importer.urn}]
  /\ UNCHANGED <<scraped, disk, server, posts, landed, raced>>

\* Mutant: whatever is not a 5xx is marked.
mark_answered ==
  /\ importer.pc = "posting"
  /\ server[importer.attempt].pc \in {"200", "4xx"}
  /\ importer' = [Done(importer) EXCEPT
       !.ledger[importer.urn] = [content |-> importer.batch[importer.urn],
                                 by |-> importer.attempt]]
  /\ UNCHANGED <<scraped, disk, server, posts, landed, raced>>

\* Only a 200 is marked in the ledger.
mark ==
  /\ importer.pc = "posting"
  /\ server[importer.attempt].pc = "200"
  /\ importer' = [Done(importer) EXCEPT
       !.ledger[importer.urn] = [content |-> importer.batch[importer.urn],
                                 by |-> importer.attempt]]
  /\ UNCHANGED <<scraped, disk, server, posts, landed, raced>>

\* The ledger is written once, at the end of a batch that is no dry run; the exit
\* code is 0 when nothing failed.
save ==
  /\ importer.pc = "running" /\ importer.todo = {}
  /\ disk' = IF importer.dry THEN disk ELSE importer.ledger
  /\ importer' = IF importer.failed = {}
                   THEN [Off EXCEPT !.pc = "exit_0", !.batch = importer.batch,
                                    !.dry = importer.dry]
                   ELSE Off
  /\ UNCHANGED <<scraped, server, posts, landed, raced>>

\* The importer is killed; in the middle of write_text the file is left cut off.
crash ==
  /\ Running
  /\ importer' = Off
  /\ \/ UNCHANGED disk
     \/ importer.todo = {} /\ ~importer.dry /\ disk' = EmptyLedger
  /\ UNCHANGED <<scraped, server, posts, landed, raced>>

\* The author edits a post and the scraper writes posts_data.json again.
scrape(u, c) ==
  /\ scraped[u] # c
  /\ scraped' = [scraped EXCEPT ![u] = c]
  /\ UNCHANGED <<disk, importer, server, posts, landed, raced>>

Next ==
  \/ \E a \in Attempts :
       \/ import_linkedin_post(a) \/ import_posts_json(a) \/ json_entry(a)
       \/ commit_update(a) \/ commit_insert(a) \/ keep_url(a)
       \/ retry(a)
       \/ \E e \in Edits : update_post_by_id(a, e)
       \/ \E u \in Urns : import_one(u, a)
  \/ \E u \in Urns : skip(u) \/ \E c \in Contents : scrape(u, c)
  \/ delete_post_by_id
  \/ \E dry \in BOOLEAN : start_run(dry)
  \/ give_up \/ mark \/ save \/ crash

Spec == Init /\ [][Next]_vars

-----------------------------------------------------------------------------
(* Properties.                                                             *)

\* Retried, late, overlapping and bulk imports never leave two posts of one URN
\* (linkedin.py: "upserting by its LinkedIn URN so re-imports never duplicate").
OnePostPerUrn == \A p, q \in posts : p.urn = q.urn => p = q

\* An importer that exits with 0, dry runs apart, has had every post of its batch committed with
\* the content it scraped, by this run or by one whose ledger it trusted, however
\* many attempts were given up, processes killed or ledgers cut off.
ZeroExitMeansImported ==
  importer.pc = "exit_0" /\ ~importer.dry =>
    \A u \in Urns : <<u, importer.batch[u]>> \in landed

\* A post differs from what the ledger has of it only if somebody else wrote the
\* row since, or wrote it between that attempt's look-up and its commit.
CurrentUnlessOvertaken ==
  \A u \in Urns, p \in posts :
    p.urn = u /\ disk[u] # None /\ p.by = disk[u].by /\ <<p.by, u>> \notin raced
      => p.content = disk[u].content

\* A post is found by the text it has or, after a failure of the embedding service,
\* not at all, but never by a text it had before: a title alone is embedded with the
\* content, and a failed embedding overwrites the old one.  Only two overlapping
\* writers of the row leave the index of one of them with the text of the other.
IndexFollowsContent ==
  \A p \in posts :
    p.indexed \notin {None, p.content} => \E a \in Attempts : <<a, p.urn>> \in raced

\* Files, rows and attempts are what they should be, no URN has two posts, and no
\* index is of a former text.
Consistent == TypeOK /\ OnePostPerUrn /\ IndexFollowsContent

\* An import leaves the owner's decisions on an existing row alone: it neither
\* publishes nor hides the post, and takes no image away from it.
ImportKeepsEditorial ==
  [][\A p \in posts, q \in posts' :
       /\ p.id = q.id
       /\ \A a \in Attempts : server'[a] # server[a] => server[a].kind # "put"
       => p.published = q.published /\ (p.image # {} => q.image # {})]_vars
=============================================================================
