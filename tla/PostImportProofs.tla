---------------------------- MODULE PostImportProofs ----------------------------
(***************************************************************************)
(* Theorems about PostImport, for any number of URNs and attempts, every   *)
(* number of retries, and whatever the owner's edits are.                  *)
(*                                                                         *)
(* The invariant follows an import from the importer's batch to the ledger:*)
(* what an attempt was sent (Asked), what its handler loaded (LookedUp,    *)
(* SeenIsCurrent), what the answer 200 stands for (Kept), and that every   *)
(* mark of a ledger stands for that (MarksOK).                             *)
(***************************************************************************)
EXTENDS PostImport, TLAPS

RowsOK ==
  /\ \A p \in posts : p.id[2] = p.urn
  /\ OnePostPerUrn
  /\ IndexFollowsContent

Pending == {"sent", "looked_up", "collided"}

\* The request of an importer's attempt, not looked at yet.
Sent(h) ==
  /\ h.kind = "import" /\ h.seen = None
  /\ h.urn \in Urns /\ h.content \in Contents /\ h.embeds
  /\ h.published \in BOOLEAN

\* A handler between its look-up and its commit: an import has everything an INSERT
\* needs, a PUT a row, and the embedding awaited is that of the text to be written, or
\* failed.
LookedUp(h) ==
  /\ h.urn \in Urns
  /\ h.seen # None => h.seen.urn = h.urn /\ h.seen.id[2] = h.urn
  /\ h.kind # "put" =>
       /\ h.content \in Contents /\ h.published \in BOOLEAN
       /\ h.embeds /\ h.indexed \in {None, h.content}
  /\ h.kind = "put" =>
       /\ h.seen # None
       /\ h.content # None => h.embeds /\ h.indexed \in {None, h.content}
       /\ h.content = None => h.indexed \in {None, h.seen.content}

HandlerOK(h) ==
  /\ h.pc = "sent" => Sent(h)
  /\ h.pc \in {"next", "keep_url"} => h.kind = "json" /\ h.published \in BOOLEAN
  /\ h.pc \in {"looked_up", "collided"} => LookedUp(h)
  /\ h.pc = "collided" => h.seen = None

\* Unless the row was written in between, it has the text and the embedding the
\* handler loaded.
SeenIsCurrent(a) ==
  server[a].pc = "looked_up" /\ server[a].seen # None /\ <<a, server[a].urn>> \notin raced
    => \A p \in posts : p.id = server[a].seen.id =>
         p.content = server[a].seen.content /\ p.indexed = server[a].seen.indexed

HandlersOK == \A a \in Attempts : HandlerOK(server[a]) /\ SeenIsCurrent(a)

\* Attempt a was answered 200: content c was committed for u, and the row a wrote
\* has it still, unless another one wrote the row between a's look-up and commit.
Kept(u, a, c) ==
  /\ <<u, c>> \in landed
  /\ server[a].pc = "200"
  /\ \A p \in posts : p.urn = u /\ p.by = a /\ <<a, u>> \notin raced => p.content = c

MarksOK(ledger) ==
  \A u \in Urns : ledger[u] # None => Kept(u, ledger[u].by, ledger[u].content)

\* The attempt the importer waits for is an import, of that content until answered.
Asked(h, u, c) ==
  /\ h.kind = "import"
  /\ h.pc \in Pending \cup Answered
  /\ h.pc \in Pending => h.urn = u /\ h.content = c

\* A post the batch is done with has failed, or the ledger has it as scraped.
BatchOK ==
  /\ importer.batch \in [Urns -> Contents]
  /\ \A u \in Urns \ importer.todo :
       \/ u \in importer.failed
       \/ importer.ledger[u] # None /\ importer.ledger[u].content = importer.batch[u]
       \/ importer.dry

PostingOK ==
  /\ importer.urn \in Urns /\ importer.attempt \in Attempts
  /\ LET c == importer.batch[importer.urn] IN
     /\ Asked(server[importer.attempt], importer.urn, c)
     /\ server[importer.attempt].pc = "200" => Kept(importer.urn, importer.attempt, c)

ImporterOK ==
  /\ MarksOK(disk) /\ MarksOK(importer.ledger)
  /\ Running => BatchOK
  /\ importer.pc = "posting" => PostingOK
  /\ ZeroExitMeansImported

IInv == TypeOK /\ RowsOK /\ HandlersOK /\ ImporterOK

LEMMA InitIInv == Init => IInv
<1> SUFFICES ASSUME Init PROVE IInv
  OBVIOUS
<1>1. TypeOK
  BY RetriesAssumption DEF Init, TypeOK, EmptyLedger, Ledger, Maybe, Off, Importer, Handler,
    Pictures, Idle
<1>2. RowsOK
  BY DEF Init, RowsOK, OnePostPerUrn, IndexFollowsContent
<1>3. HandlersOK
  BY DEF Init, Idle, HandlersOK, HandlerOK, SeenIsCurrent
<1>4. ImporterOK
  BY DEF Init, ImporterOK, MarksOK, EmptyLedger, Off, Running, ZeroExitMeansImported
<1> QED
  BY <1>1, <1>2, <1>3, <1>4 DEF IInv

\* What a handler is after its answer, and an upload between two entries.
LEMMA AnswerIs ==
  ASSUME NEW code \in Answered
  PROVE  LET h == [Idle EXCEPT !.pc = code] IN
         h \in Handler /\ h.pc = code /\ h.kind = "import"
BY DEF Idle, Handler, Maybe, Pictures, Answered

LEMMA UploadIs ==
  ASSUME NEW rest \in SUBSET (Urns \X Contents)
  PROVE  LET h == Upload(rest) IN
         h \in Handler /\ h.pc = "next" /\ h.kind = "json" /\ h.published = FALSE
BY DEF Upload, Idle, Handler, Maybe, Pictures, Answered

------------------------------------------------------------------------------
(* What an answer stands for lasts. *)

\* Commits, races and answers are never undone, and a row whose last writer was
\* answered keeps its text.
Grows ==
  /\ landed \subseteq landed' /\ raced \subseteq raced'
  /\ \A b \in Attempts : server[b].pc \in Answered => server'[b] = server[b]
  /\ \A p \in posts' : server[p.by].pc \in Answered =>
       \E q \in posts : q.urn = p.urn /\ q.by = p.by /\ q.content = p.content

LEMMA KeptStays ==
  ASSUME Grows, NEW u \in Urns, NEW a \in Attempts, NEW c \in Contents, Kept(u, a, c)
  PROVE  Kept(u, a, c)'
<1>1. server'[a] = server[a] /\ server[a].pc \in Answered
  BY DEF Kept, Grows, Answered
<1>2. ASSUME NEW p \in posts', p.urn = u, p.by = a, <<a, u>> \notin raced'
      PROVE  p.content = c
  BY <1>1, <1>2 DEF Kept, Grows
<1> QED
  BY <1>1, <1>2 DEF Kept, Grows

LEMMA MarksStay ==
  ASSUME Grows, NEW ledger \in Ledger, MarksOK(ledger)
  PROVE  MarksOK(ledger)'
<1>1. ASSUME NEW u \in Urns, ledger[u] # None
      PROVE  Kept(u, ledger[u].by, ledger[u].content)'
  <2>1. ledger[u].by \in Attempts /\ ledger[u].content \in Contents
    BY <1>1 DEF Ledger, Maybe, Mark
  <2>2. Kept(u, ledger[u].by, ledger[u].content)
    BY <1>1 DEF MarksOK
  <2> QED
    BY <2>1, <2>2, KeptStays
<1> QED
  BY <1>1 DEF MarksOK

\* An attempt somebody waits for: it goes on with what it was sent, and is answered
\* 200 only when that has been committed.
Continues(a) ==
  \A u \in Urns, c \in Contents :
    Asked(server[a], u, c) /\ server[a].pc \in Pending
      => Asked(server'[a], u, c) /\ (server'[a].pc = "200" => Kept(u, a, c)')

OnlyHandler(a) == \A b \in Attempts \ {a} : server'[b] = server[b]

\* No step of a handler disturbs the importer.
LEMMA ImporterStays ==
  ASSUME TypeOK, ImporterOK, UNCHANGED <<importer, disk>>, Grows,
         NEW a \in Attempts, OnlyHandler(a), Continues(a)
  PROVE  ImporterOK'
<1>1. PICK d \in Ledger : d = disk
  BY DEF TypeOK
<1>2. PICK l \in Ledger : l = importer.ledger
  BY DEF TypeOK, Importer
<1>3. MarksOK(d)' /\ MarksOK(l)'
  BY <1>1, <1>2, MarksStay DEF ImporterOK
<1>4. disk' = d /\ importer'.ledger = l
  BY <1>1, <1>2
<1>5. MarksOK(disk)' /\ MarksOK(importer.ledger)'
  BY <1>3, <1>4 DEF MarksOK
<1>6. (Running => BatchOK)'
  BY DEF ImporterOK, Running, BatchOK
<1>7. ZeroExitMeansImported'
  BY DEF ImporterOK, ZeroExitMeansImported, Grows
<1>8. ASSUME importer.pc = "posting" PROVE PostingOK'
  <2>1. PostingOK /\ BatchOK
    BY <1>8 DEF ImporterOK, Running
  <2>2. PICK u \in Urns : u = importer.urn
    BY <2>1 DEF PostingOK
  <2>3. PICK b \in Attempts : b = importer.attempt
    BY <2>1 DEF PostingOK
  <2>4. importer.batch[u] \in Contents
    BY <2>1 DEF BatchOK
  <2>5. PICK c \in Contents : c = importer.batch[u]
    BY <2>4
  <2>6. Asked(server[b], u, c) /\ (server[b].pc = "200" => Kept(u, b, c))
    BY <2>1, <2>2, <2>3, <2>5 DEF PostingOK
  <2>7. Asked(server'[b], u, c) /\ (server'[b].pc = "200" => Kept(u, b, c)')
    <3>1. CASE server[b].pc \in Pending /\ b = a
      BY <3>1, <2>6 DEF Continues
    <3>2. CASE server[b].pc \in Pending /\ b # a
      BY <3>2, <2>6 DEF OnlyHandler, Pending
    <3>3. CASE server[b].pc \in Answered
      BY <3>3, <2>6, KeptStays DEF Grows
    <3> QED
      BY <3>1, <3>2, <3>3, <2>6 DEF Asked
  <2>8. importer'.urn = u /\ importer'.attempt = b /\ importer'.batch[u] = c
    BY <2>2, <2>3, <2>5
  <2> QED
    BY <2>7, <2>8 DEF PostingOK, Kept
<1> QED
  BY <1>5, <1>6, <1>7, <1>8 DEF ImporterOK

------------------------------------------------------------------------------
(* A handler's steps that write nothing *)

\* One handler, not answered yet, comes to hold h; rows and histories stay.
LEMMA HandlerMoves ==
  ASSUME TypeOK, RowsOK, HandlersOK, UNCHANGED <<posts, landed, raced>>,
         NEW a \in Attempts, server[a].pc \notin Answered,
         NEW h \in Handler, server' = [server EXCEPT ![a] = h],
         HandlerOK(h), SeenIsCurrent(a)'
  PROVE  RowsOK' /\ HandlersOK' /\ Grows /\ OnlyHandler(a) /\ server' \in [Attempts -> Handler]
<1>1. OnlyHandler(a) /\ server'[a] = h /\ server' \in [Attempts -> Handler]
  BY DEF OnlyHandler, TypeOK
<1>2. RowsOK'
  BY DEF RowsOK, OnePostPerUrn, IndexFollowsContent
<1>3. HandlersOK'
  <2>1. ASSUME NEW b \in Attempts \ {a} PROVE HandlerOK(server'[b]) /\ SeenIsCurrent(b)'
    BY <1>1 DEF OnlyHandler, HandlersOK, SeenIsCurrent
  <2> QED
    BY <1>1, <2>1 DEF HandlersOK
<1>4. Grows
  BY <1>1 DEF Grows, OnlyHandler
<1> QED
  BY <1>1, <1>2, <1>3, <1>4

LEMMA LookupKeeps ==
  ASSUME IInv, NEW a \in Attempts, server[a].pc \notin Answered,
         NEW h \in Handler, server' = [server EXCEPT ![a] = h],
         HandlerOK(h), SeenIsCurrent(a)',
         \A u \in Urns, c \in Contents : Asked(server[a], u, c) => Asked(h, u, c),
         server[a].kind = "import" => h.pc # "200",
         UNCHANGED <<scraped, disk, importer, posts, landed, raced>>
  PROVE  IInv'
<1>1. RowsOK' /\ HandlersOK' /\ Grows /\ OnlyHandler(a) /\ server' \in [Attempts -> Handler]
  BY HandlerMoves DEF IInv
<1>2. TypeOK'
  BY <1>1 DEF IInv, TypeOK
<1>3. Continues(a)
  BY DEF Continues, Asked, IInv, TypeOK
<1>4. ImporterOK'
  BY <1>1, <1>3, ImporterStays DEF IInv
<1> QED
  BY <1>1, <1>2, <1>4 DEF IInv

\* What a handler has just loaded is what the row has.
LEMMA Loaded ==
  ASSUME RowsOK, NEW p \in posts, NEW q \in posts, p.id = q.id
  PROVE  p = q
BY DEF RowsOK, OnePostPerUrn

LEMMA AnswerFailure ==
  ASSUME IInv, NEW a \in Attempts, server[a].pc \notin Answered, server[a].pc # "idle",
         NEW code \in Answered, Answer(a, code), code = "200" => server[a].kind = "json",
         UNCHANGED <<scraped, disk, importer, posts, landed, raced>>
  PROVE  IInv'
<1> DEFINE h == [Idle EXCEPT !.pc = code]
<1>1. server' = [server EXCEPT ![a] = h]
  BY DEF Answer
<1>2. h \in Handler /\ h.pc = code /\ h.kind = "import"
  BY AnswerIs
<1> HIDE DEF h
<1>3. PICK g \in Handler : g = h
  BY <1>2
<1>4. HandlerOK(g) /\ SeenIsCurrent(a)'
  BY <1>1, <1>2, <1>3 DEF HandlerOK, SeenIsCurrent, Answered, IInv, TypeOK
<1>5. \A u \in Urns, c \in Contents : Asked(server[a], u, c) => Asked(g, u, c)
  BY <1>2, <1>3 DEF Asked, Answered, Pending
<1> QED
  BY <1>1, <1>2, <1>3, <1>4, <1>5, LookupKeeps

\* What a look-up of the URN finds is its row, or that it has none.
LEMMA Found ==
  ASSUME TypeOK, RowsOK, NEW u \in Urns, NEW p \in Maybe(posts), existing(u, p)
  PROVE  p \in Maybe(Post) /\ (p # None => p \in posts /\ p.urn = u /\ p.id[2] = u)
BY NoneIsNoRecord DEF existing, Maybe, TypeOK, RowsOK

LEMMA ImportLooksUp ==
  ASSUME IInv, NEW a \in Attempts, import_linkedin_post(a)
  PROVE  IInv'
<1> DEFINE r == server[a]
<1>1. r \in Handler /\ r.pc = "sent" /\ Sent(r)
  BY DEF IInv, TypeOK, HandlersOK, HandlerOK, import_linkedin_post
<1>2. CASE Answer(a, "4xx")
  BY <1>1, <1>2, AnswerFailure DEF import_linkedin_post, Answered
<1>3. CASE ~Answer(a, "4xx")
  <2>1. PICK p \in Maybe(posts), index \in Embeddings(r.content) :
          /\ existing(r.urn, p)
          /\ server' = [server EXCEPT ![a] = [r EXCEPT !.pc = "looked_up", !.seen = p,
                                                     !.indexed = index]]
    BY <1>3 DEF import_linkedin_post, IInv, TypeOK
  <2>2. p \in Maybe(Post) /\ (p # None => p \in posts /\ p.urn = r.urn /\ p.id[2] = r.urn)
    BY <1>1, <2>1, Found DEF Sent, IInv
  <2>0. index \in {None, r.content} /\ index \in Maybe(Contents)
    BY <1>1, <2>1 DEF Embeddings, Sent, Maybe
  <2> DEFINE h == [r EXCEPT !.pc = "looked_up", !.seen = p, !.indexed = index]
  <2>3. /\ h \in Handler /\ h.pc = "looked_up" /\ h.seen = p /\ h.kind = r.kind
        /\ h.urn = r.urn /\ h.content = r.content /\ h.indexed = index
        /\ h.embeds = r.embeds /\ h.published = r.published
    BY <1>1, <2>0, <2>2 DEF Handler
  <2>4. server' = [server EXCEPT ![a] = h]
    BY <2>1
  <2> HIDE DEF h
  <2>5. PICK g \in Handler : g = h
    BY <2>3
  <2>6. HandlerOK(g)
    BY <1>1, <2>0, <2>2, <2>3, <2>5 DEF HandlerOK, Sent, LookedUp
  <2>7. SeenIsCurrent(a)'
    BY <2>2, <2>3, <2>4, Loaded DEF SeenIsCurrent, import_linkedin_post, IInv, TypeOK
  <2>8. \A u \in Urns, c \in Contents : Asked(r, u, c) => Asked(g, u, c)
    BY <1>1, <2>3, <2>5 DEF Asked, Pending
  <2>9. r.pc \notin Answered
    BY <1>1 DEF Answered
  <2> QED
    BY <2>3, <2>4, <2>5, <2>6, <2>7, <2>8, <2>9, LookupKeeps DEF import_linkedin_post
<1> QED
  BY <1>2, <1>3

LEMMA UploadBegins ==
  ASSUME IInv, NEW a \in Attempts, import_posts_json(a)
  PROVE  IInv'
<1> DEFINE r == server[a]
           h == Upload({<<u, scraped[u]>> : u \in Urns})
<1>1. r \in Handler /\ r.pc = "idle" /\ server' = [server EXCEPT ![a] = h]
  BY DEF IInv, TypeOK, import_posts_json
<1>2. {<<u, scraped[u]>> : u \in Urns} \in SUBSET (Urns \X Contents)
  BY DEF IInv, TypeOK
<1>3. h \in Handler /\ h.pc = "next" /\ h.kind = "json" /\ h.published \in BOOLEAN
  BY <1>2, UploadIs
<1> HIDE DEF h
<1>4. PICK g \in Handler : g = h
  BY <1>3
<1>5. HandlerOK(g) /\ SeenIsCurrent(a)'
  BY <1>1, <1>3, <1>4 DEF HandlerOK, SeenIsCurrent, IInv, TypeOK
<1>6. r.pc \notin Answered /\ \A u \in Urns, c \in Contents : ~Asked(r, u, c)
  BY <1>1 DEF Asked, Answered, Pending
<1> QED
  BY <1>1, <1>3, <1>4, <1>5, <1>6, LookupKeeps DEF import_posts_json

LEMMA EntryLooksUp ==
  ASSUME IInv, NEW a \in Attempts, json_entry(a)
  PROVE  IInv'
<1> DEFINE r == server[a]
<1>1. r \in Handler /\ r.pc = "next" /\ r.kind = "json" /\ r.published \in BOOLEAN
  BY DEF IInv, TypeOK, HandlersOK, HandlerOK, json_entry
<1>2. CASE Answer(a, "200")
  BY <1>1, <1>2, AnswerFailure DEF json_entry, Answered
<1>3. CASE ~Answer(a, "200")
  <2>0. PICK e \in r.rest, image \in Fetched(Downloads), p \in Maybe(posts) :
          /\ existing(e[1], p)
          /\ \E index \in Embeddings(e[2]) :
               server' = [server EXCEPT ![a] =
                 [r EXCEPT !.pc = "looked_up", !.urn = e[1], !.rest = r.rest \ {e},
                           !.content = e[2], !.seen = p, !.embeds = TRUE, !.indexed = index,
                           !.image = image]]
    BY <1>3 DEF json_entry, IInv, TypeOK
  <2>1. PICK index \in Embeddings(e[2]) :
          server' = [server EXCEPT ![a] =
            [r EXCEPT !.pc = "looked_up", !.urn = e[1], !.rest = r.rest \ {e},
                      !.content = e[2], !.seen = p, !.embeds = TRUE, !.indexed = index,
                      !.image = image]]
    BY <2>0
  <2>2. e \in Urns \X Contents
    BY <1>1, <2>0 DEF Handler
  <2>3. e[1] \in Urns /\ e[2] \in Contents
    BY <2>2
  <2>4. PICK u0 \in Urns : u0 = e[1]
    BY <2>3
  <2>5. p \in Maybe(Post) /\ (p # None => p \in posts /\ p.urn = e[1] /\ p.id[2] = e[1])
    BY <2>0, <2>4, Found DEF IInv
  <2>13. index \in {None, e[2]} /\ index \in Maybe(Contents)
    BY <2>1, <2>3 DEF Embeddings, Maybe
  <2> DEFINE h == [r EXCEPT !.pc = "looked_up", !.urn = e[1], !.rest = r.rest \ {e},
                            !.content = e[2], !.seen = p, !.embeds = TRUE, !.indexed = index,
                            !.image = image]
  <2>14. image \in Pictures
    BY <2>0, DownloadsAssumption DEF Fetched, Pictures
  <2>6. h \in Handler
    BY <1>1, <2>3, <2>5, <2>13, <2>14 DEF Handler, Maybe
  <2>7. /\ h.pc = "looked_up" /\ h.seen = p /\ h.kind = "json"
        /\ h.urn = e[1] /\ h.content = e[2] /\ h.indexed = index /\ h.embeds
        /\ h.published = r.published
    BY <1>1 DEF Handler
  <2>8. server' = [server EXCEPT ![a] = h]
    BY <2>1
  <2> HIDE DEF h
  <2>9. PICK g \in Handler : g = h
    BY <2>6
  <2>10. HandlerOK(g)
    BY <1>1, <2>3, <2>5, <2>7, <2>9, <2>13 DEF HandlerOK, LookedUp
  <2>11. SeenIsCurrent(a)'
    BY <2>5, <2>7, <2>8, Loaded DEF SeenIsCurrent, json_entry, IInv, TypeOK
  <2>12. r.pc \notin Answered /\ \A u \in Urns, c \in Contents : ~Asked(r, u, c)
    BY <1>1 DEF Asked, Answered, Pending
  <2> QED
    BY <2>7, <2>8, <2>9, <2>10, <2>11, <2>12, LookupKeeps DEF json_entry
<1> QED
  BY <1>2, <1>3

LEMMA UpdateLoads ==
  ASSUME IInv, NEW a \in Attempts, NEW e \in Edits, update_post_by_id(a, e)
  PROVE  IInv'
<1> DEFINE r == server[a]
<1> DEFINE embeds == e.content # None \/ e.retitled
<1>0. PICK p \in posts :
        \E index \in IF embeds
                      THEN Embeddings(IF e.content = None THEN p.content ELSE e.content)
                      ELSE {None} :
          server' = [server EXCEPT ![a] =
            [r EXCEPT !.pc = "looked_up", !.kind = "put", !.seen = p, !.urn = p.urn,
                      !.content = e.content, !.published = e.published,
                      !.embeds = embeds, !.indexed = index]]
  BY DEF update_post_by_id, IInv, TypeOK
<1>1. PICK index \in IF embeds
                        THEN Embeddings(IF e.content = None THEN p.content ELSE e.content)
                        ELSE {None} :
        server' = [server EXCEPT ![a] =
          [r EXCEPT !.pc = "looked_up", !.kind = "put", !.seen = p, !.urn = p.urn,
                    !.content = e.content, !.published = e.published,
                    !.embeds = embeds, !.indexed = index]]
  BY <1>0
<1> DEFINE h == [r EXCEPT !.pc = "looked_up", !.kind = "put", !.seen = p, !.urn = p.urn,
                   !.content = e.content, !.published = e.published, !.embeds = embeds,
                   !.indexed = index]
<1>2. r \in Handler /\ r.pc = "idle"
  BY DEF IInv, TypeOK, update_post_by_id
<1>3. p \in Post /\ p # None /\ p.id[2] = p.urn
  BY NoneIsNoRecord DEF IInv, TypeOK, RowsOK
<1>4. e.content \in Maybe(Contents) /\ e.published \in Maybe(BOOLEAN)
  BY EditsAssumption
<1>5. p.urn \in Urns /\ p.content \in Contents
  BY <1>3 DEF Post
<1>6. /\ index \in Maybe(Contents)
      /\ e.content # None => embeds /\ index \in {None, e.content}
      /\ e.content = None => index \in {None, p.content}
  BY <1>1, <1>4, <1>5 DEF Maybe, Embeddings
<1>14. embeds \in BOOLEAN
  BY EditsAssumption
<1>7. server' = [server EXCEPT ![a] = h]
  BY <1>1
<1> HIDE DEF embeds
<1>8. h \in Handler
  BY <1>2, <1>3, <1>4, <1>5, <1>6, <1>14 DEF Handler, Maybe
<1>9. /\ h.pc = "looked_up" /\ h.seen = p /\ h.kind = "put"
      /\ h.urn = p.urn /\ h.content = e.content /\ h.indexed = index /\ h.embeds = embeds
  BY <1>2 DEF Handler
<1> HIDE DEF h
<1>10. PICK g \in Handler : g = h
  BY <1>8
<1>11. HandlerOK(g)
  BY <1>3, <1>5, <1>6, <1>9, <1>10 DEF HandlerOK, LookedUp
<1>12. SeenIsCurrent(a)'
  BY <1>7, <1>9, Loaded DEF SeenIsCurrent, update_post_by_id, IInv, TypeOK
<1>13. r.pc \notin Answered /\ \A u \in Urns, c \in Contents : ~Asked(r, u, c)
  BY <1>2 DEF Asked, Answered, Pending
<1> QED
  BY <1>7, <1>9, <1>10, <1>11, <1>12, <1>13, LookupKeeps DEF update_post_by_id

------------------------------------------------------------------------------
(* Commits *)

\* The handler a holds g after a commit: it has answered 200, goes on with the upload,
\* or, after a commit that raised, tries the INSERT again.
Commits(a, g) ==
  /\ server' = [server EXCEPT ![a] = g]
  /\ HandlerOK(g) /\ g.pc \in {"200", "next", "keep_url", "collided"}
  /\ server[a].kind = "import" =>
       /\ g.kind = "import" /\ g.pc \in {"200", "collided"}
       /\ g.pc = "collided" => g.urn = server[a].urn /\ g.content = server[a].content

LEMMA AfterCommit ==
  ASSUME TypeOK, HandlersOK, NEW a \in Attempts, server[a].pc \in {"looked_up", "collided"},
         NEW w \in Post, after_commit(a, w)
  PROVE  \E g \in Handler : Commits(a, g)
<1>1. server[a] \in Handler /\ LookedUp(server[a])
  BY DEF TypeOK, HandlersOK, HandlerOK
<1>2. CASE server[a].kind # "json"
  <2> DEFINE h == [Idle EXCEPT !.pc = "200"]
  <2>1. server' = [server EXCEPT ![a] = h]
    BY <1>2 DEF after_commit, Answer
  <2>2. h \in Handler /\ h.pc = "200" /\ h.kind = "import"
    BY AnswerIs DEF Answered
  <2> HIDE DEF h
  <2> QED
    BY <2>1, <2>2 DEF Commits, HandlerOK
<1>3. CASE server[a].kind = "json" /\ "url" \in server[a].image \ w.image
  <2> DEFINE h == [server[a] EXCEPT !.pc = "keep_url", !.seen = w]
  <2>1. server' = [server EXCEPT ![a] = h]
    BY <1>3 DEF after_commit, TypeOK
  <2>2. /\ h \in Handler /\ h.pc = "keep_url" /\ h.kind = "json"
        /\ h.published = server[a].published
    BY <1>1, <1>3 DEF Handler, Maybe
  <2>3. server[a].published \in BOOLEAN
    BY <1>1, <1>3 DEF LookedUp
  <2> HIDE DEF h
  <2> QED
    BY <1>3, <2>1, <2>2, <2>3 DEF Commits, HandlerOK
<1>4. CASE server[a].kind = "json" /\ ~("url" \in server[a].image \ w.image)
  <2> DEFINE h == Upload(server[a].rest)
  <2>1. server' = [server EXCEPT ![a] = h]
    BY <1>4 DEF after_commit, TypeOK
  <2>2. server[a].rest \in SUBSET (Urns \X Contents)
    BY <1>1 DEF Handler
  <2>3. h \in Handler /\ h.pc = "next" /\ h.kind = "json" /\ h.published = FALSE
    BY <2>2, UploadIs
  <2> HIDE DEF h
  <2> QED
    BY <1>4, <2>1, <2>3 DEF Commits, HandlerOK
<1> QED
  BY <1>2, <1>3, <1>4

LEMMA Collides ==
  ASSUME TypeOK, HandlersOK, NEW a \in Attempts, server[a].pc = "looked_up",
         server[a].seen = None, Step(a, "collided")
  PROVE  \E g \in Handler : Commits(a, g) /\ g.pc = "collided" /\ g.kind = server[a].kind
<1> DEFINE h == [server[a] EXCEPT !.pc = "collided"]
<1>1. server[a] \in Handler /\ LookedUp(server[a]) /\ server[a].kind # "put"
  BY DEF TypeOK, HandlersOK, HandlerOK, LookedUp
<1>2. /\ h \in Handler /\ h.pc = "collided" /\ h.kind = server[a].kind
      /\ h.urn = server[a].urn /\ h.content = server[a].content /\ h.seen = None
      /\ LookedUp(h)
  BY <1>1 DEF Handler, LookedUp
<1>3. server' = [server EXCEPT ![a] = h]
  BY DEF Step, TypeOK
<1> HIDE DEF h
<1> QED
  BY <1>2, <1>3 DEF Commits, HandlerOK

\* The row that a's commit puts in the place of old has the URN's only text, and is
\* what a was sent unless another one wrote the row a had loaded.
LEMMA CommitKeeps ==
  ASSUME IInv, NEW a \in Attempts, server[a].pc \in {"looked_up", "collided"},
         NEW old \in SUBSET posts, NEW w \in Post, posts' = (posts \ old) \cup {w},
         \A p \in posts \ old : p.urn # w.urn,
         w.urn = server[a].urn, w.id[2] = w.urn, w.by = a,
         w.indexed \notin {None, w.content} => \E b \in Attempts : <<b, w.urn>> \in raced,
         server[a].kind # "put" /\ <<a, w.urn>> \notin raced => w.content = server[a].content,
         NEW g \in Handler, Commits(a, g),
         landed' = landed \cup Landing(a), raced' = raced \cup Overtakes(a),
         UNCHANGED <<scraped, disk, importer>>
  PROVE  IInv'
<1>1. LookedUp(server[a])
  BY DEF IInv, HandlersOK, HandlerOK
<1>2. /\ server' \in [Attempts -> Handler] /\ OnlyHandler(a) /\ server'[a] = g
      /\ HandlerOK(server'[a]) /\ server'[a].pc \in {"200", "next", "keep_url", "collided"}
  BY DEF IInv, TypeOK, Commits, OnlyHandler
<1>3. Overtakes(a) \subseteq Attempts \X Urns /\ Landing(a) \subseteq Urns \X Contents
  BY <1>1 DEF Overtakes, Landing, LookedUp
<1>4. TypeOK'
  BY <1>2, <1>3 DEF IInv, TypeOK
<1>5. RowsOK'
  BY DEF IInv, RowsOK, OnePostPerUrn, IndexFollowsContent
<1>6. HandlersOK'
  <2>1. ASSUME NEW b \in Attempts \ {a} PROVE HandlerOK(server'[b]) /\ SeenIsCurrent(b)'
    <3>1. server'[b] = server[b] /\ HandlerOK(server[b]) /\ SeenIsCurrent(b)
      BY <1>2 DEF OnlyHandler, IInv, HandlersOK
    <3>2. ASSUME server[b].pc = "looked_up", server[b].seen # None,
                 <<b, server[b].urn>> \notin raced', w.id = server[b].seen.id
          PROVE  FALSE
      <4>1. server[b].urn = server[a].urn
        BY <3>1, <3>2 DEF HandlerOK, LookedUp
      <4> QED
        BY <3>2, <4>1 DEF Overtakes
    <3> QED
      BY <3>1, <3>2 DEF SeenIsCurrent
  <2>2. SeenIsCurrent(a)'
    BY <1>2 DEF SeenIsCurrent
  <2> QED
    BY <1>2, <2>1, <2>2 DEF HandlersOK
<1>7. Grows
  BY <1>2 DEF Grows, OnlyHandler, Answered
<1>8. Continues(a)
  <2> SUFFICES ASSUME NEW u \in Urns, NEW c \in Contents, Asked(server[a], u, c),
                      server[a].pc \in Pending
               PROVE  /\ Asked(server'[a], u, c)
                      /\ server'[a].pc = "200" => Kept(u, a, c)'
    BY DEF Continues
  <2>1. server[a].kind = "import" /\ server[a].urn = u /\ server[a].content = c
    BY DEF Asked
  <2>2. Asked(server'[a], u, c)
    BY <1>2, <2>1 DEF Asked, Answered, Pending, Commits
  <2>3. <<u, c>> \in landed'
    BY <2>1 DEF Landing
  <2>4. \A p \in posts' : p.urn = u /\ p.by = a /\ <<a, u>> \notin raced' => p.content = c
    BY <2>1
  <2> QED
    BY <2>2, <2>3, <2>4 DEF Kept
<1>9. ImporterOK'
  BY <1>2, <1>7, <1>8, ImporterStays DEF IInv
<1> QED
  BY <1>4, <1>5, <1>6, <1>9 DEF IInv

\* The row an update leaves: its text is the request's, or what it was.
LEMMA WrittenRow ==
  ASSUME IInv, NEW a \in Attempts, server[a].pc = "looked_up", server[a].seen # None,
         NEW row \in posts, row.id = server[a].seen.id
  PROVE  LET w == Written(a, row) IN
         /\ w \in Post /\ w.id = row.id /\ w.urn = row.urn /\ w.by = a
         /\ row.urn = server[a].urn
         /\ w.indexed \notin {None, w.content} => \E b \in Attempts : <<b, w.urn>> \in raced
         /\ server[a].kind # "put" /\ <<a, w.urn>> \notin raced => w.content = server[a].content
<1> DEFINE h == server[a]
           content == Column(h.content, h.seen.content, row.content)
           indexed == Indexed(h, row)
           image == Image(h, row)
           published == IF h.kind = "put"
                          THEN Column(h.published, h.seen.published, row.published)
                          ELSE row.published
           w == Written(a, row)
<1>1. h \in Handler /\ LookedUp(h) /\ h.seen \in Post /\ row \in Post
  BY DEF IInv, TypeOK, HandlersOK, HandlerOK, Handler, Maybe
<1>2. row.urn = h.urn
  BY <1>1 DEF IInv, RowsOK, LookedUp
<1>3. content \in Contents /\ indexed \in Maybe(Contents)
  BY <1>1 DEF Column, Indexed, Handler, Post, Maybe
<1>4. image \in Pictures
  BY <1>1 DEF Image, Post, Pictures
<1>5. published \in BOOLEAN
  BY <1>1 DEF Column, Handler, Post, Maybe
<1>6. w = [row EXCEPT !.content = content, !.indexed = indexed, !.image = image,
                      !.published = published, !.by = a]
  BY DEF Written
<1>7. h.kind # "put" /\ <<a, h.urn>> \notin raced => content = h.content
  <2>1. <<a, h.urn>> \notin raced => row.content = h.seen.content
    BY DEF IInv, HandlersOK, SeenIsCurrent
  <2>2. h.kind # "put" => h.content \in Contents
    BY <1>1 DEF LookedUp
  <2> QED
    BY <2>1, <2>2, NoneAssumption DEF Column
<1>8. indexed \notin {None, content} => \E b \in Attempts : <<b, row.urn>> \in raced
  <2>1. SUFFICES ASSUME <<a, h.urn>> \notin raced, row.indexed \in {None, row.content}
                 PROVE  indexed \in {None, content}
    BY <1>2 DEF IInv, RowsOK, IndexFollowsContent
  <2>2. row.content = h.seen.content /\ row.indexed = h.seen.indexed
    BY <2>1 DEF IInv, HandlersOK, SeenIsCurrent
  <2>3. CASE h.content # None
    <3>1. h.embeds /\ h.indexed \in {None, h.content} /\ content = h.content
      BY <1>1, <2>2, <2>3 DEF LookedUp, Column
    <3> QED
      BY <2>2, <3>1 DEF Indexed
  <2>4. CASE h.content = None
    <3>1. h.indexed \in {None, h.seen.content} /\ content = row.content
      BY <1>1, <2>4, NoneAssumption DEF LookedUp, Column
    <3> QED
      BY <2>1, <2>2, <3>1 DEF Indexed
  <2> QED
    BY <2>3, <2>4
<1> HIDE DEF content, indexed, image, published, w
<1>9. /\ w \in Post /\ w.id = row.id /\ w.urn = row.urn /\ w.by = a
      /\ w.content = content /\ w.indexed = indexed
  BY <1>1, <1>3, <1>4, <1>5, <1>6 DEF Post
<1> QED
  BY <1>2, <1>7, <1>8, <1>9 DEF w

LEMMA UpdateCommits ==
  ASSUME IInv, NEW a \in Attempts, commit_update(a)
  PROVE  IInv'
<1>1. server[a].pc = "looked_up" /\ server[a].seen # None
  BY DEF commit_update
<1>2. CASE \E row \in posts : row.id = server[a].seen.id
  <2>1. PICK row \in posts :
          /\ row.id = server[a].seen.id
          /\ posts' = (posts \ {row}) \cup {Written(a, row)}
          /\ after_commit(a, Written(a, row))
          /\ landed' = landed \cup Landing(a)
          /\ raced' = raced \cup Overtakes(a)
    BY <1>2 DEF commit_update
  <2>2. Written(a, row) \in Post
    BY <1>1, <2>1, WrittenRow
  <2>3. PICK w \in Post : w = Written(a, row)
    BY <2>2
  <2>4. /\ w.id = row.id /\ w.urn = row.urn /\ w.by = a /\ row.urn = server[a].urn
        /\ w.indexed \notin {None, w.content} => \E b \in Attempts : <<b, w.urn>> \in raced
        /\ server[a].kind # "put" /\ <<a, w.urn>> \notin raced => w.content = server[a].content
    BY <1>1, <2>1, <2>3, WrittenRow
  <2>5. w.id[2] = w.urn /\ \A p \in posts \ {row} : p.urn # w.urn
    BY <2>4 DEF IInv, RowsOK, OnePostPerUrn
  <2>6. {row} \in SUBSET posts /\ posts' = (posts \ {row}) \cup {w} /\ after_commit(a, w)
    BY <2>1, <2>3
  <2>7. UNCHANGED <<scraped, disk, importer>>
    BY DEF commit_update
  <2>8. PICK g \in Handler : Commits(a, g)
    BY <1>1, <2>6, AfterCommit DEF IInv
  <2> QED
    BY <1>1, <2>1, <2>4, <2>5, <2>6, <2>7, <2>8, CommitKeeps
<1>3. CASE \A row \in posts : row.id # server[a].seen.id
  BY <1>1, <1>3, AnswerFailure DEF commit_update, Answered
<1> QED
  BY <1>2, <1>3

LEMMA InsertCommits ==
  ASSUME IInv, NEW a \in Attempts, commit_insert(a)
  PROVE  IInv'
<1> DEFINE r == server[a]
<1>1. r.pc \in {"looked_up", "collided"} /\ r.seen = None
  BY DEF commit_insert
<1>2. /\ r \in Handler /\ LookedUp(r) /\ r.kind # "put" /\ r.urn \in Urns
      /\ r.content \in Contents /\ r.indexed \in {None, r.content} /\ r.published \in BOOLEAN
  BY <1>1 DEF IInv, TypeOK, HandlersOK, HandlerOK, LookedUp
<1>3. CASE /\ unique(a) /\ posts' = posts \cup {New(a)}
           /\ after_commit(a, New(a)) \/ (r.pc = "looked_up" /\ Step(a, "collided"))
           /\ landed' = landed \cup Landing(a) /\ raced' = raced \cup Overtakes(a)
  <2>1. /\ New(a) \in Post /\ New(a).urn = r.urn /\ New(a).id = <<a, r.urn>>
        /\ New(a).by = a /\ New(a).content = r.content /\ New(a).indexed = r.indexed
    BY <1>2 DEF New, Post, Handler, Pictures, Maybe
  <2>2. PICK w \in Post : w = New(a)
    BY <2>1
  <2>3. /\ w.id[2] = w.urn /\ w.urn = r.urn /\ w.by = a /\ w.indexed \in {None, w.content}
        /\ w.content = r.content
    BY <1>2, <2>1, <2>2
  <2>4. \A p \in posts \ {} : p.urn # w.urn
    BY <1>3, <2>3 DEF unique
  <2>5. {} \in SUBSET posts /\ posts' = (posts \ {}) \cup {w}
    BY <1>3, <2>2
  <2>7. PICK g \in Handler : Commits(a, g)
    BY <1>1, <1>3, <2>2, AfterCommit, Collides DEF IInv
  <2>6. /\ landed' = landed \cup Landing(a) /\ raced' = raced \cup Overtakes(a)
        /\ UNCHANGED <<scraped, disk, importer>>
    BY <1>3 DEF commit_insert
  <2>8. w.indexed \notin {None, w.content} => \E b \in Attempts : <<b, w.urn>> \in raced
    BY <2>3
  <2> QED
    BY <1>1, <2>3, <2>4, <2>5, <2>6, <2>7, <2>8, CommitKeeps
<1>4. CASE Answer(a, "5xx") /\ UNCHANGED <<posts, landed, raced>>
  BY <1>1, <1>4, AnswerFailure DEF commit_insert, Answered
<1>5. CASE r.pc = "looked_up" /\ Step(a, "collided") /\ UNCHANGED <<posts, landed, raced>>
  <2>1. PICK g \in Handler : Commits(a, g) /\ g.pc = "collided" /\ g.kind = r.kind
    BY <1>1, <1>5, Collides DEF IInv
  <2>2. HandlerOK(g) /\ server' = [server EXCEPT ![a] = g]
    BY <2>1 DEF Commits
  <2>3. SeenIsCurrent(a)'
    BY <2>1, <2>2 DEF SeenIsCurrent, IInv, TypeOK
  <2>4. \A u \in Urns, c \in Contents : Asked(r, u, c) => Asked(g, u, c)
    BY <1>1, <2>1 DEF Asked, Pending, Commits
  <2>5. r.pc \notin Answered
    BY <1>1 DEF Answered
  <2> QED
    BY <1>5, <2>1, <2>2, <2>3, <2>4, <2>5, LookupKeeps DEF commit_insert
<1> QED
  BY <1>3, <1>4, <1>5 DEF commit_insert

LEMMA UrlIsKept ==
  ASSUME IInv, NEW a \in Attempts, keep_url(a)
  PROVE  IInv'
<1> DEFINE r == server[a]
<1>1. r \in Handler /\ r.pc = "keep_url" /\ r.kind = "json" /\ r.published \in BOOLEAN
  BY DEF IInv, TypeOK, HandlersOK, HandlerOK, keep_url
<1>2. CASE \A row \in posts : row.id # r.seen.id
  BY <1>1, <1>2, AnswerFailure DEF keep_url, Answered
<1>3. CASE \E row \in posts : row.id = r.seen.id
  <2>1. PICK row \in posts : /\ posts' = (posts \ {row}) \cup {[row EXCEPT !.image = @ \cup {"url"}]}
                             /\ server' = [server EXCEPT ![a] = Upload(r.rest)]
    BY <1>3 DEF keep_url
  <2> DEFINE w == [row EXCEPT !.image = @ \cup {"url"}]
             h == Upload(r.rest)
  <2>2. row \in Post
    BY DEF IInv, TypeOK
  <2>3. /\ w \in Post /\ w.id = row.id /\ w.urn = row.urn /\ w.content = row.content
        /\ w.indexed = row.indexed /\ w.by = row.by
    BY <2>2 DEF Post, Pictures
  <2>15. r.rest \in SUBSET (Urns \X Contents)
    BY <1>1 DEF Handler
  <2>4. h \in Handler /\ h.pc = "next" /\ h.kind = "json" /\ h.published \in BOOLEAN
    BY <2>15, UploadIs
  <2>5. server' = [server EXCEPT ![a] = h]
    BY <2>1
  <2>6. posts' = (posts \ {row}) \cup {w}
    BY <2>1
  <2> HIDE DEF w, h
  <2>7. UNCHANGED <<scraped, disk, importer, landed, raced>>
    BY DEF keep_url
  <2>8. server' \in [Attempts -> Handler] /\ OnlyHandler(a) /\ server'[a] = h
    BY <2>4, <2>5 DEF OnlyHandler, IInv, TypeOK
  <2>9. TypeOK'
    BY <2>3, <2>6, <2>7, <2>8 DEF IInv, TypeOK
  <2>10. RowsOK'
    BY <2>3, <2>6, <2>7 DEF IInv, RowsOK, OnePostPerUrn, IndexFollowsContent
  <2>11. HandlersOK'
    <3>1. ASSUME NEW b \in Attempts \ {a} PROVE HandlerOK(server'[b]) /\ SeenIsCurrent(b)'
      BY <2>3, <2>6, <2>7, <2>8 DEF OnlyHandler, IInv, HandlersOK, SeenIsCurrent
    <3>2. HandlerOK(server'[a]) /\ SeenIsCurrent(a)'
      BY <2>4, <2>8 DEF HandlerOK, SeenIsCurrent
    <3> QED
      BY <3>1, <3>2 DEF HandlersOK
  <2>12. Grows
    BY <1>1, <2>3, <2>6, <2>7, <2>8 DEF Grows, OnlyHandler, Answered
  <2>13. Continues(a)
    BY <1>1 DEF Continues, Asked
  <2>14. ImporterOK'
    BY <2>7, <2>8, <2>12, <2>13, ImporterStays DEF IInv
  <2> QED
    BY <2>9, <2>10, <2>11, <2>14 DEF IInv
<1> QED
  BY <1>2, <1>3

------------------------------------------------------------------------------
(* The owner's deletion, and the steps of the importer and the scraper *)

LEMMA DeleteKeeps ==
  ASSUME IInv, delete_post_by_id
  PROVE  IInv'
<1>1. posts' \subseteq posts /\ UNCHANGED <<scraped, disk, importer, server, landed, raced>>
  BY DEF delete_post_by_id
<1>2. TypeOK' /\ RowsOK'
  BY <1>1 DEF IInv, TypeOK, RowsOK, OnePostPerUrn, IndexFollowsContent
<1>3. HandlersOK'
  BY <1>1 DEF IInv, HandlersOK, SeenIsCurrent
<1>4. Grows
  BY <1>1 DEF Grows
<1>5. ImporterOK'
  <2>1. CASE Attempts = {}
    BY <1>1, <2>1 DEF IInv, ImporterOK, MarksOK, Kept, Running, BatchOK, PostingOK,
      ZeroExitMeansImported
  <2>2. ASSUME NEW a \in Attempts PROVE ImporterOK'
    <3>1. OnlyHandler(a)
      BY <1>1 DEF OnlyHandler
    <3>2. Continues(a)
      BY <1>1 DEF Continues, Asked, Pending
    <3> QED
      BY <1>1, <1>4, <3>1, <3>2, ImporterStays DEF IInv
  <2> QED
    BY <2>1, <2>2
<1> QED
  BY <1>2, <1>3, <1>5 DEF IInv

\* The importer's steps that reach no server leave rows, handlers and marks alone.
LEMMA RestStays ==
  ASSUME IInv, UNCHANGED <<posts, landed, raced, server>>,
         {disk', importer'.ledger} \subseteq {disk, importer.ledger, EmptyLedger}
  PROVE  RowsOK' /\ HandlersOK' /\ MarksOK(disk)' /\ MarksOK(importer.ledger)'
<1>1. RowsOK' /\ HandlersOK'
  BY DEF IInv, RowsOK, OnePostPerUrn, IndexFollowsContent, HandlersOK, SeenIsCurrent
<1>2. \A ledger \in {disk, importer.ledger, EmptyLedger} : MarksOK(ledger)
  BY DEF IInv, ImporterOK, MarksOK, EmptyLedger
<1>3. PICK d, l : d = disk' /\ l = importer'.ledger
  OBVIOUS
<1>4. MarksOK(d) /\ MarksOK(l)
  BY <1>2, <1>3
<1>5. MarksOK(d)' /\ MarksOK(l)'
  BY <1>4 DEF MarksOK, Kept
<1>6. MarksOK(disk)' /\ MarksOK(importer.ledger)'
  BY <1>3, <1>5 DEF MarksOK
<1> QED
  BY <1>1, <1>6

LEMMA ScrapeKeeps ==
  ASSUME IInv, NEW u \in Urns, NEW c \in Contents, scrape(u, c)
  PROVE  IInv'
BY DEF IInv, TypeOK, RowsOK, OnePostPerUrn, IndexFollowsContent, HandlersOK, SeenIsCurrent,
  ImporterOK, MarksOK, Kept, Running, BatchOK, PostingOK, ZeroExitMeansImported, scrape

LEMMA StartKeeps ==
  ASSUME IInv, NEW dry \in BOOLEAN, start_run(dry)
  PROVE  IInv'
<1>1. importer' = [importer EXCEPT !.pc = "running", !.batch = scraped, !.todo = Urns,
                                   !.ledger = disk, !.failed = {}, !.dry = dry]
  BY DEF start_run
<1>2. importer \in Importer /\ scraped \in [Urns -> Contents] /\ disk \in Ledger
  BY DEF IInv, TypeOK
<1>3. scraped \in [Urns -> Maybe(Contents)]
  BY <1>2 DEF Maybe
<1>4. /\ importer' \in Importer /\ importer'.pc = "running" /\ importer'.batch = scraped
      /\ importer'.todo = Urns /\ importer'.ledger = disk
  BY <1>1, <1>2, <1>3 DEF Importer
<1>5. TypeOK'
  BY <1>4 DEF IInv, TypeOK, start_run
<1>6. RowsOK' /\ HandlersOK' /\ MarksOK(disk)' /\ MarksOK(importer.ledger)'
  BY <1>4, RestStays DEF start_run
<1>7. BatchOK'
  BY <1>2, <1>4 DEF BatchOK
<1> QED
  BY <1>4, <1>5, <1>6, <1>7 DEF IInv, ImporterOK, ZeroExitMeansImported

LEMMA SkipKeeps ==
  ASSUME IInv, NEW u \in Urns, skip(u)
  PROVE  IInv'
<1>1. importer' = [importer EXCEPT !.todo = @ \ {u}] /\ importer \in Importer
  BY DEF IInv, TypeOK, skip
<1>2. /\ importer' \in Importer /\ importer'.pc = "running" /\ importer'.batch = importer.batch
      /\ importer'.todo = importer.todo \ {u} /\ importer'.ledger = importer.ledger
      /\ importer'.failed = importer.failed /\ importer'.dry = importer.dry
  BY <1>1 DEF Importer, skip
<1>3. TypeOK'
  BY <1>2 DEF IInv, TypeOK, skip
<1>4. RowsOK' /\ HandlersOK' /\ MarksOK(disk)' /\ MarksOK(importer.ledger)'
  BY <1>2, RestStays DEF skip
<1>5. BatchOK
  BY DEF IInv, ImporterOK, Running, skip
<1>6. BatchOK'
  BY <1>2, <1>5 DEF BatchOK, skip, unchanged
<1> QED
  BY <1>2, <1>3, <1>4, <1>6 DEF IInv, ImporterOK, ZeroExitMeansImported

\* An attempt goes out: the importer waits for it, with the content of its batch.
LEMMA AttemptKeeps ==
  ASSUME IInv, Running, NEW u \in Urns, NEW a \in Attempts, NEW image \in Pictures,
         server[a].pc = "idle",
         server' = [server EXCEPT ![a] = request(u, importer.batch[u], image)],
         importer' \in Importer, importer'.pc = "posting", importer'.urn = u,
         importer'.attempt = a, importer'.batch = importer.batch, importer'.todo = importer.todo,
         importer'.ledger = importer.ledger, importer'.failed = importer.failed,
         importer'.dry = importer.dry,
         UNCHANGED <<scraped, disk, posts, landed, raced>>
  PROVE  IInv'
<1>1. BatchOK
  BY DEF IInv, ImporterOK
<1>2. importer.batch[u] \in Contents
  BY <1>1 DEF BatchOK
<1>3. PICK c \in Contents : c = importer.batch[u]
  BY <1>2
<1> DEFINE h == request(u, c, image)
<1>4. /\ h \in Handler /\ h.pc = "sent" /\ Sent(h) /\ h.urn = u /\ h.content = c
      /\ h.kind = "import"
  BY PublishAssumption DEF request, Idle, Handler, Maybe, Pictures, Sent
<1>5. server' = [server EXCEPT ![a] = h]
  BY <1>3
<1> HIDE DEF h
<1>6. PICK g \in Handler : g = h
  BY <1>4
<1>7. HandlerOK(g)
  BY <1>4, <1>6 DEF HandlerOK
<1>8. server'[a] = g
  BY <1>5, <1>6 DEF IInv, TypeOK
<1>9. SeenIsCurrent(a)'
  BY <1>4, <1>6, <1>8 DEF SeenIsCurrent
<1>10. server' = [server EXCEPT ![a] = g] /\ server[a].pc \notin Answered
  BY <1>5, <1>6 DEF Answered
<1>11. /\ RowsOK' /\ HandlersOK' /\ Grows /\ OnlyHandler(a)
       /\ server' \in [Attempts -> Handler]
  BY <1>7, <1>9, <1>10, HandlerMoves DEF IInv
<1>12. TypeOK'
  BY <1>11 DEF IInv, TypeOK
<1>13. PICK d \in Ledger, l \in Ledger : d = disk /\ l = importer.ledger
  BY DEF IInv, TypeOK, Importer
<1>14. MarksOK(d)' /\ MarksOK(l)'
  BY <1>11, <1>13, MarksStay DEF IInv, ImporterOK
<1>15. MarksOK(disk)' /\ MarksOK(importer.ledger)'
  BY <1>13, <1>14 DEF MarksOK
<1>16. BatchOK'
  BY <1>1 DEF BatchOK
<1>17. PostingOK'
  BY <1>3, <1>4, <1>6, <1>8 DEF PostingOK, Asked, Pending
<1> QED
  BY <1>11, <1>12, <1>15, <1>16, <1>17 DEF IInv, ImporterOK, ZeroExitMeansImported

LEMMA FirstAttemptKeeps ==
  ASSUME IInv, NEW u \in Urns, NEW a \in Attempts, import_one(u, a)
  PROVE  IInv'
<1>1. PICK image \in Fetched(Downloads \ {"url"}) :
        /\ importer' = [importer EXCEPT !.pc = "posting", !.urn = u, !.tries = 1,
                                        !.attempt = a, !.image = image]
        /\ server' = [server EXCEPT ![a] = request(u, importer.batch[u], image)]
  BY DEF import_one
<1>2. importer \in Importer
  BY DEF IInv, TypeOK
<1>3. 1 \in 0..retries /\ image \in Pictures
  BY <1>1, RetriesAssumption, DownloadsAssumption DEF Fetched, Pictures
<1>4. /\ importer' \in Importer /\ importer'.pc = "posting" /\ importer'.urn = u
      /\ importer'.attempt = a /\ importer'.batch = importer.batch
      /\ importer'.todo = importer.todo /\ importer'.ledger = importer.ledger
      /\ importer'.failed = importer.failed /\ importer'.dry = importer.dry
  BY <1>1, <1>2, <1>3 DEF Importer, Maybe
<1> QED
  BY <1>1, <1>3, <1>4, AttemptKeeps DEF import_one, Running

LEMMA RetryKeeps ==
  ASSUME IInv, NEW a \in Attempts, retry(a)
  PROVE  IInv'
<1>1. importer \in Importer /\ importer.urn \in Urns
  BY DEF IInv, TypeOK, ImporterOK, PostingOK, retry
<1>2. importer' = [importer EXCEPT !.tries = @ + 1, !.attempt = a]
  BY DEF retry
<1>3. importer.tries + 1 \in 0..retries
  BY <1>1, RetriesAssumption DEF retry, Importer
<1>4. /\ importer' \in Importer /\ importer'.pc = "posting" /\ importer'.urn = importer.urn
      /\ importer'.attempt = a /\ importer'.batch = importer.batch
      /\ importer'.todo = importer.todo /\ importer'.ledger = importer.ledger
      /\ importer'.failed = importer.failed /\ importer'.dry = importer.dry
  BY <1>1, <1>2, <1>3 DEF Importer, Maybe, retry
<1>5. PICK u \in Urns : u = importer.urn
  BY <1>1
<1>6. PICK image \in Pictures : image = importer.image
  BY <1>1 DEF Importer
<1> QED
  BY <1>4, <1>5, <1>6, AttemptKeeps DEF retry, Running

\* What is left of the importer when it is done with a post.
LEMMA DoneWith ==
  ASSUME importer \in Importer, importer.urn \in Urns
  PROVE  LET d == Done(importer) IN
         /\ d \in Importer /\ d.pc = "running" /\ d.batch = importer.batch
         /\ d.todo = importer.todo \ {importer.urn} /\ d.ledger = importer.ledger
         /\ d.failed = importer.failed /\ d.dry = importer.dry
<1> DEFINE d == [importer EXCEPT !.pc = "running", !.todo = importer.todo \ {importer.urn},
                                 !.urn = None, !.tries = 0, !.attempt = None, !.image = {}]
<1>1. Done(importer) = d
  BY DEF Done
<1>2. 0 \in 0..retries /\ {} \in Pictures /\ importer.todo \in SUBSET Urns
  BY RetriesAssumption DEF Pictures, Importer
<1>3. /\ d \in Importer /\ d.pc = "running" /\ d.batch = importer.batch
      /\ d.todo = importer.todo \ {importer.urn} /\ d.ledger = importer.ledger
      /\ d.failed = importer.failed /\ d.dry = importer.dry
  BY <1>2 DEF Importer, Maybe
<1> QED
  BY <1>1, <1>3

LEMMA GiveUpKeeps ==
  ASSUME IInv, give_up
  PROVE  IInv'
<1>1. importer \in Importer /\ importer.urn \in Urns /\ importer.pc = "posting"
  BY DEF IInv, TypeOK, ImporterOK, PostingOK, give_up
<1> DEFINE d == Done(importer)
<1>2. /\ d \in Importer /\ d.pc = "running" /\ d.batch = importer.batch
      /\ d.todo = importer.todo \ {importer.urn} /\ d.ledger = importer.ledger
      /\ d.failed = importer.failed /\ d.dry = importer.dry
  BY <1>1, DoneWith
<1>3. importer' = [d EXCEPT !.failed = d.failed \cup {importer.urn}]
  BY DEF give_up
<1> HIDE DEF d
<1>4. /\ importer' \in Importer /\ importer'.pc = "running" /\ importer'.batch = importer.batch
      /\ importer'.todo = importer.todo \ {importer.urn} /\ importer'.ledger = importer.ledger
      /\ importer'.failed = importer.failed \cup {importer.urn} /\ importer'.dry = importer.dry
  BY <1>1, <1>2, <1>3 DEF Importer
<1>5. TypeOK'
  BY <1>4 DEF IInv, TypeOK, give_up
<1>6. RowsOK' /\ HandlersOK' /\ MarksOK(disk)' /\ MarksOK(importer.ledger)'
  BY <1>4, RestStays DEF give_up
<1>7. BatchOK'
  BY <1>1, <1>4 DEF BatchOK, IInv, ImporterOK, Running
<1> QED
  BY <1>4, <1>5, <1>6, <1>7 DEF IInv, ImporterOK, ZeroExitMeansImported

\* The mark of a 200 stands for a commit of what was scraped.
LEMMA MarkKeeps ==
  ASSUME IInv, mark
  PROVE  IInv'
<1>1. /\ importer \in Importer /\ importer.urn \in Urns /\ importer.pc = "posting"
      /\ importer.attempt \in Attempts /\ BatchOK
      /\ Kept(importer.urn, importer.attempt, importer.batch[importer.urn])
  BY DEF IInv, TypeOK, ImporterOK, PostingOK, Running, mark
<1>2. PICK u \in Urns : u = importer.urn
  BY <1>1
<1>3. PICK a \in Attempts : a = importer.attempt
  BY <1>1
<1>4. importer.batch[u] \in Contents
  BY <1>1 DEF BatchOK
<1>5. PICK c \in Contents : c = importer.batch[u]
  BY <1>4
<1> DEFINE d == Done(importer)
           m == [content |-> c, by |-> a]
<1>6. /\ d \in Importer /\ d.pc = "running" /\ d.batch = importer.batch
      /\ d.todo = importer.todo \ {u} /\ d.ledger = importer.ledger
      /\ d.failed = importer.failed /\ d.dry = importer.dry
  BY <1>1, <1>2, DoneWith
<1>7. importer' = [d EXCEPT !.ledger = [d.ledger EXCEPT ![u] = m]]
  BY <1>2, <1>3, <1>5 DEF mark
<1>8. m \in Mark /\ m # None /\ m.content = c /\ m.by = a
  BY NoneIsNoRecord DEF Mark
<1> HIDE DEF d, m
<1>9. importer.ledger \in Ledger /\ d.ledger \in Ledger
  BY <1>1, <1>6 DEF Importer
<1>10. [d.ledger EXCEPT ![u] = m] \in Ledger
  BY <1>8, <1>9 DEF Ledger, Maybe
<1>11. /\ importer' \in Importer /\ importer'.pc = "running" /\ importer'.batch = importer.batch
       /\ importer'.todo = importer.todo \ {u}
       /\ importer'.ledger = [importer.ledger EXCEPT ![u] = m]
       /\ importer'.failed = importer.failed /\ importer'.dry = importer.dry
  BY <1>1, <1>6, <1>7, <1>10 DEF Importer
<1>12. TypeOK'
  BY <1>11 DEF IInv, TypeOK, mark
<1>13. RowsOK' /\ HandlersOK'
  BY DEF IInv, RowsOK, OnePostPerUrn, IndexFollowsContent, HandlersOK, SeenIsCurrent, mark
<1>14. \A v \in Urns : importer'.ledger[v] = IF v = u THEN m ELSE importer.ledger[v]
  BY <1>9, <1>11 DEF Ledger
<1>15. MarksOK(disk)' /\ MarksOK(importer.ledger)'
  <2>1. PICK l : l = importer'.ledger
    OBVIOUS
  <2>2. MarksOK(l)
    BY <1>1, <1>2, <1>3, <1>5, <1>8, <1>14, <2>1 DEF IInv, ImporterOK, MarksOK
  <2>3. MarksOK(l)' /\ MarksOK(disk)'
    BY <2>2 DEF MarksOK, Kept, mark, IInv, ImporterOK
  <2> QED
    BY <2>1, <2>3 DEF MarksOK
<1>16. BatchOK'
  BY <1>1, <1>5, <1>8, <1>11, <1>14 DEF BatchOK
<1> QED
  BY <1>11, <1>12, <1>13, <1>15, <1>16 DEF IInv, ImporterOK, ZeroExitMeansImported

LEMMA OffIsFine == Off \in Importer /\ Off.pc = "off" /\ Off.ledger = EmptyLedger
BY RetriesAssumption DEF Off, Importer, EmptyLedger, Ledger, Maybe, Pictures

\* The run ends; without a failure everything in its batch is in the ledger.
LEMMA SaveKeeps ==
  ASSUME IInv, save
  PROVE  IInv'
<1>1. importer \in Importer /\ BatchOK
  BY DEF IInv, TypeOK, ImporterOK, Running, save
<1>2. CASE importer.failed # {}
  <2>1. importer' = Off
    BY <1>2 DEF save
  <2>2. TypeOK'
    BY <1>1, <2>1, OffIsFine DEF IInv, TypeOK, save, Importer
  <2>3. RowsOK' /\ HandlersOK' /\ MarksOK(disk)' /\ MarksOK(importer.ledger)'
    BY <2>1, OffIsFine, RestStays DEF save
  <2> QED
    BY <2>1, <2>2, <2>3, OffIsFine DEF IInv, ImporterOK, Running, ZeroExitMeansImported
<1>3. CASE importer.failed = {}
  <2>1. importer' = [Off EXCEPT !.pc = "exit_0", !.batch = importer.batch,
                                !.dry = importer.dry]
    BY <1>3 DEF save
  <2>2. /\ importer' \in Importer /\ importer'.pc = "exit_0"
        /\ importer'.batch = importer.batch /\ importer'.ledger = EmptyLedger
        /\ importer'.dry = importer.dry
    BY <1>1, <2>1, OffIsFine DEF Importer
  <2>3. TypeOK'
    BY <1>1, <2>2 DEF IInv, TypeOK, save, Importer
  <2>4. RowsOK' /\ HandlersOK' /\ MarksOK(disk)' /\ MarksOK(importer.ledger)'
    BY <2>2, RestStays DEF save
  <2>5. ASSUME NEW u \in Urns, ~importer.dry PROVE <<u, importer.batch[u]>> \in landed
    <3>1. importer.ledger[u] # None /\ importer.ledger[u].content = importer.batch[u]
      BY <1>1, <1>3, <2>5 DEF BatchOK, save
    <3> QED
      BY <3>1 DEF IInv, ImporterOK, MarksOK, Kept
  <2>6. ZeroExitMeansImported'
    BY <2>2, <2>5 DEF ZeroExitMeansImported, save
  <2> QED
    BY <2>2, <2>3, <2>4, <2>6 DEF IInv, ImporterOK, Running
<1> QED
  BY <1>2, <1>3

LEMMA CrashKeeps ==
  ASSUME IInv, crash
  PROVE  IInv'
<1>1. importer' = Off /\ disk' \in {disk, EmptyLedger}
  BY DEF crash
<1>2. EmptyLedger \in Ledger
  BY DEF EmptyLedger, Ledger, Maybe
<1>3. TypeOK'
  BY <1>1, <1>2, OffIsFine DEF IInv, TypeOK, crash
<1>4. RowsOK' /\ HandlersOK' /\ MarksOK(disk)' /\ MarksOK(importer.ledger)'
  BY <1>1, OffIsFine, RestStays DEF crash
<1> QED
  BY <1>1, <1>3, <1>4, OffIsFine DEF IInv, ImporterOK, Running, ZeroExitMeansImported

------------------------------------------------------------------------------
(* The theorems *)

LEMMA StutterKeeps ==
  ASSUME IInv, UNCHANGED vars
  PROVE  IInv'
<1>1. UNCHANGED <<scraped, disk, importer, server, posts, landed, raced>>
  BY DEF vars
<1>2. TypeOK'
  BY <1>1 DEF IInv, TypeOK
<1>3. RowsOK' /\ HandlersOK' /\ MarksOK(disk)' /\ MarksOK(importer.ledger)'
  BY <1>1, RestStays
<1>4. (Running => BatchOK)' /\ (importer.pc = "posting" => PostingOK)' /\ ZeroExitMeansImported'
  BY <1>1 DEF IInv, ImporterOK, Running, BatchOK, PostingOK, Kept, ZeroExitMeansImported
<1> QED
  BY <1>2, <1>3, <1>4 DEF IInv, ImporterOK

LEMMA NextKeeps == IInv /\ [Next]_vars => IInv'
<1> SUFFICES ASSUME IInv, [Next]_vars PROVE IInv'
  OBVIOUS
<1>1. ASSUME NEW a \in Attempts, import_linkedin_post(a) PROVE IInv'
  BY <1>1, ImportLooksUp
<1>2. ASSUME NEW a \in Attempts, import_posts_json(a) PROVE IInv'
  BY <1>2, UploadBegins
<1>3. ASSUME NEW a \in Attempts, json_entry(a) PROVE IInv'
  BY <1>3, EntryLooksUp
<1>4. ASSUME NEW a \in Attempts, commit_update(a) PROVE IInv'
  BY <1>4, UpdateCommits
<1>5. ASSUME NEW a \in Attempts, commit_insert(a) PROVE IInv'
  BY <1>5, InsertCommits
<1>6. ASSUME NEW a \in Attempts, keep_url(a) PROVE IInv'
  BY <1>6, UrlIsKept
<1>7. ASSUME NEW a \in Attempts, retry(a) PROVE IInv'
  BY <1>7, RetryKeeps
<1>8. ASSUME NEW a \in Attempts, NEW e \in Edits, update_post_by_id(a, e) PROVE IInv'
  BY <1>8, UpdateLoads
<1>9. ASSUME NEW u \in Urns, NEW a \in Attempts, import_one(u, a) PROVE IInv'
  BY <1>9, FirstAttemptKeeps
<1>10. ASSUME NEW u \in Urns, skip(u) PROVE IInv'
  BY <1>10, SkipKeeps
<1>11. ASSUME NEW u \in Urns, NEW c \in Contents, scrape(u, c) PROVE IInv'
  BY <1>11, ScrapeKeeps
<1>12. CASE delete_post_by_id
  BY <1>12, DeleteKeeps
<1>13. ASSUME NEW dry \in BOOLEAN, start_run(dry) PROVE IInv'
  BY <1>13, StartKeeps
<1>14. CASE give_up
  BY <1>14, GiveUpKeeps
<1>15. CASE mark
  BY <1>15, MarkKeeps
<1>16. CASE save
  BY <1>16, SaveKeeps
<1>17. CASE crash
  BY <1>17, CrashKeeps
<1>18. CASE UNCHANGED vars
  BY <1>18, StutterKeeps
<1> QED
  BY <1>1, <1>2, <1>3, <1>4, <1>5, <1>6, <1>7, <1>8, <1>9, <1>10, <1>11, <1>12, <1>13,
    <1>14, <1>15, <1>16, <1>17, <1>18 DEF Next

LEMMA Invariance == Spec => []IInv
BY InitIInv, NextKeeps, PTL DEF Spec

\* Files, rows, handlers, the importer and the histories have their types in every
\* reachable state.
THEOREM TypeCorrect == Spec => []TypeOK
BY Invariance, PTL DEF IInv

\* What the run checks as Consistent: the types, one post per URN, and no post
\* found by a text it had before unless two writers of its row overlapped (linkedin.py's upsert
\* by URN, posts.py's update).
THEOREM ConsistencyHolds == Spec => []Consistent
<1>1. IInv => Consistent
  BY DEF IInv, RowsOK, Consistent
<1> QED
  BY <1>1, Invariance, PTL

\* However many attempts are given up, importers killed or ledgers cut off, an exit
\* code of 0, dry runs apart, says that every post of the batch was committed as scraped (core.py).
THEOREM ZeroExitIsHonest == Spec => []ZeroExitMeansImported
<1>1. IInv => ZeroExitMeansImported
  BY DEF IInv, ImporterOK
<1> QED
  BY <1>1, Invariance, PTL

\* The row of a marked post has the marked text, unless somebody else wrote it since
\* or between the attempt's look-up and its commit.
THEOREM LedgerIsCurrent == Spec => []CurrentUnlessOvertaken
<1>1. IInv => CurrentUnlessOvertaken
  BY DEF IInv, ImporterOK, MarksOK, Kept, CurrentUnlessOvertaken
<1> QED
  BY <1>1, Invariance, PTL

\* One step between a row and the row of its id that it leaves.
LEMMA EditorialStep ==
  ASSUME IInv, [Next]_vars, NEW p \in posts, NEW q \in posts', p.id = q.id,
         \A a \in Attempts : server'[a] # server[a] => server[a].kind # "put"
  PROVE  p.published = q.published /\ (p.image # {} => q.image # {})
<1>1. CASE q \in posts
  BY <1>1, Loaded DEF IInv
<1>2. ASSUME NEW a \in Attempts, commit_update(a), q \notin posts
      PROVE  p.published = q.published /\ (p.image # {} => q.image # {})
  <2>1. PICK row \in posts :
          /\ row.id = server[a].seen.id
          /\ posts' = (posts \ {row}) \cup {Written(a, row)}
          /\ after_commit(a, Written(a, row))
    BY <1>2 DEF commit_update
  <2>2. server[a].pc = "looked_up" /\ server[a].seen # None
    BY <1>2 DEF commit_update
  <2>3. Written(a, row) \in Post /\ Written(a, row).id = row.id
    BY <2>1, <2>2, WrittenRow
  <2>4. q = Written(a, row)
    BY <1>2, <2>1
  <2>5. p = row
    BY <2>1, <2>3, <2>4, Loaded DEF IInv
  <2>6. PICK w \in Post : w = Written(a, row)
    BY <2>3
  <2>7. server'[a].pc # "looked_up"
    BY <2>1, <2>2, <2>6, AfterCommit DEF IInv, TypeOK, Commits
  <2>8. server[a].kind # "put"
    BY <2>2, <2>7
  <2>9. row \in Post
    BY DEF IInv, TypeOK
  <2>10. q.published = row.published /\ q.image = Image(server[a], row)
    BY <2>4, <2>8, <2>9 DEF Written, Post
  <2> QED
    BY <2>5, <2>10 DEF Image
<1>3. ASSUME NEW a \in Attempts, commit_insert(a), q \notin posts PROVE FALSE
  <2>1. unique(a) /\ q = New(a)
    BY <1>3 DEF commit_insert
  <2>2. q.id[2] = server[a].urn
    BY <2>1 DEF New
  <2> QED
    BY <2>1, <2>2 DEF unique, IInv, RowsOK
<1>4. ASSUME NEW a \in Attempts, keep_url(a), q \notin posts
      PROVE  p.published = q.published /\ (p.image # {} => q.image # {})
  <2>1. PICK row \in posts : q = [row EXCEPT !.image = @ \cup {"url"}]
    BY <1>4 DEF keep_url
  <2>2. row \in Post
    BY DEF IInv, TypeOK
  <2>3. q.id = row.id /\ q.published = row.published /\ "url" \in q.image
    BY <2>1, <2>2 DEF Post
  <2>4. p = row
    BY <2>3, Loaded DEF IInv
  <2> QED
    BY <2>3, <2>4
<1>5. CASE delete_post_by_id
  BY <1>1, <1>5 DEF delete_post_by_id
<1>6. CASE UNCHANGED posts
  BY <1>1, <1>6
<1>7. \/ UNCHANGED posts \/ delete_post_by_id
      \/ \E a \in Attempts : commit_update(a) \/ commit_insert(a) \/ keep_url(a)
  BY DEF Next, vars, import_linkedin_post, import_posts_json, json_entry, update_post_by_id,
    retry, import_one, skip, scrape, start_run, give_up, mark, save, crash
<1> QED
  BY <1>1, <1>2, <1>3, <1>4, <1>5, <1>6, <1>7

\* An import, however late or raced, leaves it to the owner whether a post is
\* published, and takes no image away (linkedin.py's update of an existing row).
THEOREM EditorialIsKept == Spec => ImportKeepsEditorial
<1>1. IInv /\ [Next]_vars =>
        [\A p \in posts, q \in posts' :
           /\ p.id = q.id
           /\ \A a \in Attempts : server'[a] # server[a] => server[a].kind # "put"
           => p.published = q.published /\ (p.image # {} => q.image # {})]_vars
  BY EditorialStep
<1> QED
  BY <1>1, Invariance, PTL DEF Spec, ImportKeepsEditorial
=============================================================================
