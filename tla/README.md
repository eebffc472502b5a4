# Hirefolio in TLA+

Hirefolio (mavrov.de) is a personal site with a job search behind it: a FastAPI backend on PostgreSQL
(`src/backend`), three Angular projects (`src/frontend`: public, admin, shared), a stand-alone importer of LinkedIn
posts (`src/importer`) fed by a browser script (`src/scraper`), and a pipeline of delivery agents (`src/agents`).
This directory models its concurrent core, checks it with TLC and proves the parts that matter most with TLAPS.
`PROJECT.json` lists runs, mutants, theorems, the lines each definition stands for, and the hazards behind it all.

Contents: [inventory](#inventory), [how the program runs](#how-the-program-runs),
[modules and code](#modules-and-code), [runs](#runs-bounds-and-what-they-show), [findings](#findings),
[proofs](#proofs), [what is not modelled](#what-is-not-modelled), [plan](#plan).

## Inventory

| component | state it keeps | operations | what makes it correct |
|---|---|---|---|
| Recruiter inbox and promotion (`api/interactions.py`, `api/opportunities.py`) | `interactions`, `opportunities`, `opportunity_notes` rows | contact form, status PATCH, hand-made cards and notes, promote | one card per message under every race, every caller told that card, card and note atomic, a worked status not undone |
| Opportunity board and interviews (`api/opportunities.py`, `api/interviews.py`) | a card's stage and sent CV, interview rows, the notes timeline | move, record CV, schedule, patch, delete, reminder e-mail | the timeline agrees with the rows, nothing disappears from it, stages only move forward on a booking |
| Profile versions (`api/admin_profile.py`, `api/profile.py`) | `profile_snapshots` | upload, activate, public read | at most one active version per language, never none after the first, labels unique |
| CV desk (`api/admin_cv.py`, `api/cv.py`) | `cv_documents`, `cv_requests`, inbox rows, e-mails | upload (default or variant), request, tracked download | the public CV never vanishes, a saved request is never reported as refused, no orphans after a crash |
| Rate limiter (`services/rate_limit.py`) | a deque of times per address, in memory | `allow` | the window's limit, bounded memory per key, no refusal without cause |
| LinkedIn import (`importer/core.py`, `api/linkedin.py`, `api/posts.py`) | `posts_data.json`, `state.json` (the ledger), `posts` rows | scrape, importer run with retries, import endpoint, bulk upload, owner's PUT and DELETE | no duplicate, an honest exit code and ledger, the owner's decisions kept |
| LLM page (`llm.component.ts`, `llm.service.ts`, `services/multi_chat.py`, `services/chat.py`) | transcript, timer, abort controller in the browser; a worker task and its queue on the server | chat, start, stop, time limit, clear, reload | the transcript reads as spoken, STOP works, every debate ends |
| Posts, tags, search (`post-editor.component.ts`, `tag-manager.component.ts`, `api/posts.py`, `api/tags.py`, `services/embeddings.py`) | `posts` rows; the editor's form and the copy it loaded | load, create, generate, save, delete, rename or delete a tag, list, hybrid search | one request makes one post at most, the embedding is of the text, a tag that went stays away, a save undoes nothing it did not see |
| Public blog (`blog.component.ts`, `blog.service.ts`, `list_posts`) | the list shown, page, tag, fallback flag | first page, load more, filter by tag, static fallback | no post twice, no gap, everything is read in the end |
| LinkedIn fetch and transfer (`services/linkedin.py`, `api/linkedin.py`) | none of its own | proxy calls, transfer | all or nothing per transfer |
| AI services (`services/ai.py`) | none | Gemini, fallback model, Ollama | at most one billed call |
| Authentication, secrets (`api/auth.py`, `services/auth.py`, `services/crypto.py`, the scripts `seed_admin`, `reset_*`, `seed_e2e_user`, `backfill_encrypt_gemini_key`) | the user's row: password hash, Gemini key, plain or encrypted | sign-in, password and key changes, maintenance scripts, encryption under a key that may change | the key is what its owner saved, never wrapped twice, never plain again; the owner's password stays, the default one goes |
| Startup, migrations (`docker-entrypoint.sh`, `db_probe.py`, `migrations/`, `app/main.py`, `readiness.py`) | alembic version, the schema, seeded rows | probe, stamp, upgrade, seed, serve; crash, redeploy, rollback | nothing is served on half a schema, a crash at any step is repaired by the next start, whatever the database's origin |
| Notifications, e-mail, ICS | none | best-effort sends | one channel's failure does not stop another |
| SQL panel, settings, statistics, years | one settings row | admin SQL, key-value PUT, queries | - |
| Admin site (`table-helper-server.ts`, `pipeline.component.ts`, forms) | query and page, the card shown and what is typed for it | sort, search, page, open a card, record a CV | an answer is applied to the query or card that asked |
| Delivery agents (`agents/`) | git work tree, CI runs | plan, build, gates, fix, release | no release without green gates, bounded attempts |
| Scraper, proxy | a JSON file, nginx configuration | I/O | - |

Components meet in three places. The *inbox* collects contact messages and accepted CV requests, and promotion turns
its rows into cards: Promotion models both writers. *Posts* are written by the importer's requests, by bulk uploads
and by the owner: PostImport models all three, PostDesk the owner's own tabs, generator and tags against each other, and
BlogFeed has the reader who pages through what they publish. The *database* is the only state handlers share; nothing else in the
backend survives a request but the rate limiter's dictionary. Hard behaviours, and the code that has them:
statements of two sessions interleaving (every API module), ORM sessions acting on rows they loaded earlier
(`expire_on_commit=False`, `database.py`), several commits in one request (`cv.py`), attempts given up but still
executed (`importer/core.py`), state files cut off by a kill, callbacks of two streams sharing one controller
(`llm.component.ts`), background tasks lost with their process, starts cut off between two revisions or seeds.

## How the program runs

- *Requests.* One uvicorn process; a request's handler has a session of its own (`database.py`), on PostgreSQL's
  READ COMMITTED level. Other handlers run at every `await`, so a handler is one action per statement whose effect or
  answer another request can change. A request is a constant used once; a retry is another request. Handlers whose
  only relevant statement is one insert are one action.
- *The ORM writes what changed.* An UPDATE carries the columns whose assigned value differs from the one the session
  loaded, whatever the row holds by then: `WriteStatus` (Promotion), `Write` and `patched` (OpportunityBoard),
  `Column` (PostImport), `Changed` and `Written` (PostDesk). Vectors are compared as new objects, so an embedding is always
  written, None over one included, and only None over None is not. A new object whose INSERT has returned its id keeps it
  through a rollback: added once more, it is inserted under the same id.
- *Uniqueness.* An insert of a key that another transaction inserted and has not committed waits for it (`Blocked`);
  of a committed key it raises IntegrityError.
- *Bulk UPDATE.* `UPDATE ... WHERE language = l` addresses the rows committed when it begins, waits for those another
  open transaction has updated, and locks them. Its locks are taken in one step (`acquire`): PostgreSQL takes them row
  by row, which adds waiting, and possibly a deadlock error, but no other outcome that commits.
- *Crashes.* `die` ends a request anywhere before its end; what it has not committed is rolled back, what it had
  queued (an e-mail) is lost. In PostImport a handler of a dead server is one that takes no further step.
- *The browser* runs one callback at a time; rejecting an aborted fetch is a microtask of the handler that aborts.

## Modules and code

**PromoteOnce** is the abstract promise of "promote": an interaction owns at most one card, which never changes, and
whoever asks is told that card. **Promotion** is the code: `look_up`, `check_existing`, `flush`, `commit_promotion`,
`respond` and `find_winner` are the statements of `promote_interaction` (`opportunities.py:371-441`); `submit_contact`,
`index_cv_request`, `update_status`/`commit_status`, `create_opportunity` and `add_note` are everything else that
writes the three tables. `seen` is the row in the session, `item` the id in the path. `PO` maps a card row to
`card[i]` and the answer to `told`; look-ups, flushes, lost races, status changes and crashes are stutters.
The e-mail of the contact form is left out: it is sent after the commit and changes nothing.

**OpportunityBoard** is one card (cards share nothing): `get_card` loads it for `move_stage`, `record_cv_sent` or
`schedule_interview`; `get_interview` loads an interview for `update_interview` or `delete_interview`; each of these is
flush and commit in one step because their statements touch only rows of the card. `send_reminder` is the refresh and
the background task after it. A note has kind, interview, old and new value. The timeline is in commit order; the code
lists notes by `created_at`, set at the INSERT (`interviews.py:580`), so the notes of two requests whose flush and commit
overlap may be listed the other way round.

**ProfileVersions**: `upload_profile`/`reject_upload`/`activate_profile_version` up to the UPDATE, `begin_update` and
`acquire` are that UPDATE, `commit` the insert or activation with its unique constraint, `get_active_profile` the
public read. **CvDesk** does the same for the CV, without an early look for duplicates, and has the request flow
(`request_cv`, `save_request`, `index_request`, `answer_request`, `process_email_notifications`) and the downloads
(`download_cv`, `track`, `serve`). Its initial state is the fallback CV seeded by the lifespan hook.

**RateLimiter** is `SlidingWindowRateLimiter.allow` with `time.monotonic()` as `now`. `accepted` is a history of what
the deque has forgotten. The call has no `await`, so one action.

**PostImport** has the importer as one process (`start_run`, with `--dry-run` or without, `skip`, `import_one`, `retry`,
`mark`, `give_up`, `save`, `crash`), the handler of every attempt (`import_linkedin_post`, `import_posts_json`/`json_entry`/
`keep_url`, `commit_update`, `commit_insert`) and the owner (`update_post_by_id`, `delete_post_by_id`). A retry or giving
up is allowed whenever the attempt has not been answered with a 4xx: the client's 30-second timeout may strike before the
attempt arrives, while it runs or after it committed, and the attempt goes on regardless. The post's text and
fingerprint are one value, `content`; titles, tags and dates follow it. `indexed` is the text a row's embedding is of, or
`None`: `get_embedding` fails softly (`embeddings.py:25-27`), for the texts in `Flaky`, and upsert, upload and PUT write
that `None`. `Downloads` is what can be had of an image. Posts without a URN and the order of the
batch are left out (a post without a URN is never marked and always inserted). `landed` and `raced` are histories;
`raced` has the URN too, since a bulk upload looks up one after the other.

**Debate** has both ends of the stream. Server: `preflight`, `speak`, `end_turn`, `loop_fails` are
`run_dynamic_loop`; the consumer and the connection are one sequence, `queue`, and the consumer's `finally` is part of
`Close`. Browser: `startMultiConversation`, `chunk`, `finish_turn`, `debate_concludes`, `connection_breaks`, `stop`,
`tick`, `clearMultiDebate`, `loadState` for the debate; `sendMessage`, `chat_chunk`, `chat_end`, `clear_chat` for the
chat that shares its abort controller. Of the chat only whose the last message is is kept. The worker is cancelled
with its stream: in the rare case that a disconnect finds the consumer suspended in `yield` instead of `queue.get()`,
`finally` yields once more before it reaches `cancel()` and the worker talks on to its turn limit; nothing reads what
it says, so no property here depends on it. Editing agents, the mode toggle, generated names and saved logs are left out.

**Pipeline** is `autonomous.run` on one spec, started by `intake.py`, step by step (`job.pc`), with the worktree, the
main checkout and GitHub as three places where a commit can be. Every git command may fail, and the step goes on as the
code does, `sh` having swallowed the exit code; `job.refused` remembers it. `run_gate` can be green only if the diff
against HEAD names code. `agent_writes` is any agent with write tools, one whose request timed out included (`writer`).
Agents only change files: commits and pushes "happen only through the gated orchestration layer" (`tools.py:116`), which
`run_command` sees to by the second word of a git command; what the properties say of commits supposes that it suffices.
An answer is the set of words `_verdict` looks for. The planning roles are part of `implement`: they read only.
`raises` leaves through the `finally`, `kill` does not; in both cases the spec stays in the inbox and `start` takes it
up again. Layers of the gate, prompts, logs and the pull request's text are left out; one pipeline runs at a time.

**PostDesk** has editor tabs and generator calls as sessions. `loadPost` fills a form, `onSubmit` sends it whole, with
at most one column changed by hand or by a suggestion (`touched`). `update_select`, `get_embedding` and
`update_commit` are `update_post_by_id` on both sides of its `await`; `get_embedding`, `create_post` and
`create_post_retry` the two creators, and `reslug` the generator's, whose
`refresh` stands inside the `try`: if it fails, the saved draft is renamed. Any exception of the first commit leads to the
second (`raises`), whether the INSERT was refused, or only the COMMIT raised, and then also when it had landed: the `Post` has the
id of the first INSERT by then, and the second one collides with what landed. `fails` is an error or a lost connection
anywhere before the commit, `told` whether the answer of a commit arrives; without it the form stays open and may be sent
again, which is another request: a post that landed unseen is then made a second time, under a suffixed slug.
`rename_tag` and `delete_tag` are one UPDATE each. Summary, image and the published flag are saved like the
title and are left out. `gone`, `old`, `crossed` and `made` are histories; `made` are the posts of the tab's last request.

**BlogFeed** is the list of `blog.component.ts` against `list_posts`, which counts and selects in two statements
(`list_posts_count`, `list_posts_select`), with the owner's `edit` in between. `loadPosts`, `apiPage` and
`effectivePageSize` choose the request, `loaded` appends what is new, `load_failed` switches to the static copy for
good, `getStaticPosts` and `static_failed` are its answers. `filterByTag` and `clearTagFilter` reset the list but not a
load under way, as the `isLoading` guard has it. A post is its rank in the order of the list. The search box is left out.
On the server only the first page is rendered. Pages are numbered by what is shown, so a post published
between two of them stops the pager: of 20 posts with 14 shown it asks for posts 11 to 15, which it has, and goes on asking for
them until the list is reset. So `FeedCompletes` supposes that from some time on the list is `fresh`: nothing came in between its loads.

**Startup** is a backend container from `probe` to `stop`, and what an operator does while it is down. `probe` is
`db_probe.py`, `stamp` and `upgrade_head` the two branches of `docker-entrypoint.sh`; the upgrade is one transaction
(`env.py` does not set `transaction_per_migration`), so a failing revision undoes them all and the container exits.
`lifespan`, `seed_user` and `seed_cv` are the commits of the hook in `main.py`; `stop` is a crash, an exit or a
shutdown between any two steps; `deploy` gives other settings, `rollback` is `alembic downgrade -1`. The start is on
databases of every origin: empty, built by `create_all` from the first models and in use since, built by it from today's,
or left at any revision. The third is what `deploy.yml` (207-222) rehearses the adoption with; it was never served, so its board
is empty, and `promote0005` meets cards on databases that come by way of revision 4 only, where none has a key yet.
It EXTENDS two modules. **Schema** has the chain of revisions as functions on the set of objects by name (`revision`,
`downgraded`), in which a CREATE of what is there or a DROP of what is not leaves `Error`; only columns a revision
looks at are kept. `backfilled` is `promote0005`'s UPDATE, whose join takes any message of a card that is the oldest of
several; `promote` and `add_note` are the handlers that write the notes it reads, as one step each (Promotion has
their steps). **Accounts** has the owner's row under `login`, `change_password`, `update_gemini_key`, the scripts and
`check_admin`; a stored key is its text and the key it is encrypted with, and `decrypt` under another one reads as
unset. `ensure_admin.py` is left out: it sets the password as `reset_admin_password` does, or creates the first user.
A handler or script that reads before it writes is a session of two steps, and what it writes is what differs
from what it read - after decryption, since that is what the ORM compares. **Rollout** is the abstract promise: a start
only completes the schema, nothing is served before that, only an operator takes something away. `RO` maps the level
to the last revision up to which everything is there. The probe of an empty database and `alembic_version` are all
there is of a second container: two containers starting at once on one database are left out, as one is deployed.

A module `XProofs` has the theorems about X; those about RateLimiter, whose names carry `Limiter`, are in
ProfileVersionsProofs, one of the endpoints it stands in front of, and those about Debate, whose names carry `Debate`, in
PipelineProofs, with the other conversation of agents. The MC modules give TLC its values and symmetry sets. Mutated definitions stand next to the one they mutate and say so.

## Runs, bounds and what they show

| run | bounds | what it shows |
|---|---|---|
| `promotion` | 2 interactions, 3 requests | `OneCardPerInteraction`, `AnswerIsTheCard`; a promoted card has its note and origin and who loses a race finds the winner (`CardKeepsItsOrigin`, `LoserFindsWinner`, in `Consistent`); the handler implements PromoteOnce; `PromotionEnds` under fairness |
| `board` | 3 requests on one card, 2 slots, 2 CVs, every initial stage | the newest notes name the stage, CV, slot and outcome the rows have, but for a CV sent again (`TimelineIsTrue`); `AuditTrailIsKept` and `RemindersAreReal` in `Consistent`; only a booking that raced moves a card back (`ForwardUnlessRaced`) |
| `rate_limiter` | 2 keys, limit 2, window 3, clock to 7, pauses to 4 | `WindowBound` over every window, `RefusalIsEarned`; `DequeBound` in `LimiterConsistent` |
| `profile_versions` | 4 requests, 2 labels, languages en, de and an unsupported one | `NeverGoesDark`, `UndisturbedCommitHeals`; in `Consistent`, two active rows need an insert behind an UPDATE (`OnlyAnInsertBreaksIt`), and `VersionsAreUnique` |
| `cv_desk` | 4 requests, 2 labels and the fallback | `NeverWithoutCv`, `OneDefaultUnlessRaced`; `NothingPrecedesTheRequest` and `CountIsPlausible` in `Consistent` |
| `post_import` | 1 URN, 2 contents, both of which may fail to be embedded, every image, 2 attempts, 2 tries per post | `ZeroExitMeansImported`, `CurrentUnlessOvertaken`, `ImportKeepsEditorial`; `OnePostPerUrn` and `IndexFollowsContent` in `Consistent` |
| `debate` | 2 debates, one with distinct roles and one without, and 1 chat, 2 agents, 1 round, 2 chunks a turn, 2 seconds | `StopReachesTheDebate`; `SpokenInTurn` in `DebateConsistent`; `EveryDebateEnds` under fairness |
| `pipeline` | 2 runs on one spec, 1 fix round, 1 CI recovery, answers of every verdict | `ReleasedOnlyIfCleared`, `GreenWorkSurvives`; `MergedUnlessRefused` in `Consistent`; `RunEnds` under fairness |
| `blog_feed` | 7 posts, pages of 4 and 2, 5 static entries, 2 edits, 2 tag clicks, 4 pages | `NoPostTwice` in `FeedConsistent`, `FreshFeedIsPrefix`; `FeedCompletes` under fairness |
| `post_desk` | 2 sessions, 3 posts, 2 languages, 2 titles and contents, 2 tags, 2 saves, 1 tag operation | `EmbeddingFollowsText`, `ForgottenTagStaysGone`, `UntouchedColumnsKept`; `CreatedOnce` in `Consistent` |
| `startup` | 3 events (crashes, redeployments, rollbacks, requests, scripts), 2 sessions, 4 environments, 3 first users, 2 first boards, 2 messages | `PromotionsKeepTheirCard`; `VersionIsHonest`, `ServesWhole`, `WeakLoginEnds` in `Consistent`; `AccountIsKept` (`KeyIsKept`, `SaveTakesEffect`, `NothingIsWrittenPlain`, `OwnPasswordIsKept`); the entrypoint implements Rollout; `EveryStartServes` under fairness |
| `promotion_regress` | 1 interaction, 2 requests | `PromotionNeverRegresses` is violated, see [findings](#findings) |

Every passing run also checks its module's `TypeOK`, alone or as the first half of `Consistent`. Why the bounds are enough for the cases in question: a race needs two
requests on one row, a third observes or repairs it (promotion: winner, loser and a late forged note; board: two
patches and a removal; profile and CV: an upload, the one it races, an earlier version and a reader). Requests on
different rows do not interact, so a second interaction or language is there only to be confused with the first. The
limiter's clock runs past two windows and a pause may exceed one, so hits expire one by one and all at once. In
PostImport two requests are a retry and the attempt given up before it, an attempt and the owner's edit, two runs of the
importer, or an upload and either of them, and two contents let a post change and change back; what three requests at once
can do is left to the proofs, which are for any number of requests and URNs. A second URN shares no row and no ledger entry with
the first, and no handler but a bulk upload's, whose loop `json_entry` treats each entry like a request of its own. Two debates
let the `finally` of one meet the other; one round and two chunks exercise first and later chunks of first and last turns. In BlogFeed the page sizes keep the code's ratio (10 and 5 become 4 and 2), and seven posts
give a first page, a full second one and a broken last one. In PostDesk two saves are what a race needs, and a third
id leaves room for both creators; an id that no row got is used up as well. In Startup three events are a rollback over two revisions and a crash on the way
back, a session overtaken by another, or a change of settings with a crash before and after; a start's own steps are not
counted. The environments differ in what matters to it: an encryption key, another one, none with a seed key, and an
unfit secret; the boards hold two cards of one message, and a timeline naming another card's message.

Deadlock is checked everywhere. `Quiescent` and `Quiet` are stutters once every request or stream has ended: the
model's requests are used up then, while the program would wait for more.

*Fairness.* Promotion assumes weak fairness of each request's own steps after its first: the event loop and
PostgreSQL keep executing what was admitted, and a lock is released when its holder commits or dies. No request has to
be sent, and no owner has to act. Debate assumes it of `preflight`, `end_turn` and the browser's reading, since every
call to Ollama has a timeout (`ollama_preflight_timeout_seconds`, `llm_stream_timeout_seconds`) and the page's callbacks
are run by the browser. Pipeline assumes it of `job_step`, the pipeline's own steps: the client gives up an agent after
600 seconds, CI is polled until a deadline, and test suites and git commands, which have no timeout, are assumed to end.
BlogFeed assumes it of the server's two statements, of the answers and of the reader's `loadMore`, for `FeedCompletes`
speaks of a reader who goes on asking; failures, edits and clicks are possible, never due.
Startup assumes it of `boot`, the steps of a start: `restart: always` (`docker-compose.prod.yml`) begins it again and
each step ends. Crashes and operators' steps are events, of which there are finitely many; a database that failed every
start would never serve, and that is what `EveryStartServes` excludes.
`speak` is not fair: a turn may end at any time. `tick`, `stop`, errors and reloads are not
assumed to happen, so a debate ends by itself and not because of them. The timer is not assumed to be faster or slower
than the stream. The other modules state safety only.

## Findings

- `promotion_regress`: a promotion that loaded a message as "new" writes "in_progress" over the "contacted" or "closed"
  the owner set meanwhile (`opportunities.py:423`); `test_opportunities_api.py:517` excludes it in words.

Met while modelling, not given a run of their own:
- A chat takes over the page's abort controller: STOP and the five-minute limit ("Maximum 5 minutes" on the page) then
  announce an end that does not happen (`llm.component.ts:307`). `StopReachesTheDebate` shows that nothing else can.
- `README.md:399`, `.env.example:118` and the backfill script's docstring (line 9) say that re-saving the Gemini key
  encrypts it once encryption is on. The value saved equals the decrypted value loaded, so nothing is written
  (`api/auth.py:144`); only another value, or the script, encrypts it. By the same comparison, clearing a key that cannot be
  read (None over None) writes nothing, and the key returns with the old encryption key. `SaveTakesEffect` speaks of what
  the application reads and holds in both cases.
- `backfill_encrypt_gemini_key.py:59` updates by id what it selected before: a key saved in between is overwritten by the
  encrypted old one. A start with a development seed replaces a key it cannot decrypt (`main.py:194`). `KeyIsKept` allows both
  and shows that nothing else replaces a key.
- `promote0005` drops its constraint by name on the way down and so fails on databases that `create_all` built; the
  lesson is stated in `cvvar0007` (lines 62-64). Its backfill reads notes, which anybody with the admin token may write: with a
  hand-made note on an older card the key goes to that card (against its docstring, lines 15-19), and a card that is
  oldest for two messages keeps either. `PromotionsKeepTheirCard` shows that without such notes the oldest card wins.
- The lifespan goes on with its session after `async with` closed it (`main.py:204-226`); SQLAlchemy reopens it, and
  nothing returns the connection.
- The pipeline page clears the chosen CV when a card is opened, "a stale selection ... must never carry over"
  (`pipeline.component.ts:96-99`), but the panel changes when the answer arrives: a CV chosen, or a note begun, in
  between is recorded for the next card, and a late answer to a move brings the previous card back. The admin tables
  show whichever answer arrives last (`table-helper-server.ts`).
- `transfer-post` and `transfer-posts` accept the post's URN but do not store it (`linkedin.py:173-292`): transferring twice, or
  transferring and importing, makes two posts of one.
- `services/ai.py` passes the owner's saved key only to the admin's chat: suggestions and generation take
  `user_api_key` and call Gemini without it (lines 121, 226, 331, 455).
- A booking that loaded the card before it was moved to "offer" commits "interviewing" over it (`interviews.py:268`),
  against the function's docstring (line 260) and the module's (lines 10-14). `ForwardUnlessRaced` allows this and shows
  it is the only way.
- Two overlapping uploads of one language both stay active (`admin_profile.py:86`), against
  `models/profile_snapshot.py:14-15`; the public endpoint then answers 500. `OnlyAnInsertBreaksIt` shows that nothing
  else can do it, `UndisturbedCommitHeals` what ends it.
- The blog's pager numbers its pages by what it shows. When a post is published or withdrawn between two loads, the
  length stops being a multiple of 5: "load more" may ask for a page it has already, for ever, and goes on being
  offered (`blog.component.ts:99`). A tag click during a load is dropped by the `isLoading` guard and the old tag's page
  appears under the new one (line 88). After a failure the static copy is paged by `currentPage`: a failed load of it
  skips a page, and in the browser its first page is 5 long where the API's is 10. `FreshFeedIsPrefix` and
  `FeedCompletes` are conditioned on `fresh`, and so show that these are the only causes; what holds of every list is
  `NoPostTwice`.
- A slug is unique per language (`models/post.py:29`, `tests/test_models.py:80`), but `GET /posts/{slug}` looks it up
  alone with `scalar_one_or_none`: a translation under the same slug makes both unreadable (500).
- Two overlapping saves of one post write only what each changed and an embedding each: the row may end with the title of
  one, the content of the other and an embedding of neither (`posts.py:629`). Renaming a tag to one a post has already
  leaves it there twice, and the generator's tags are saved without the editor's limit of five. A form opened before a tag
  was renamed or deleted, and saved with its tags, brings it back (`tags.py:102`): `ForgottenTagStaysGone` allows this and
  typing it, and shows that a save whose UPDATE has no tags never does.
- While the embedding service fails, an import or a save of a changed text takes the post out of the search until it is written
  again. `IndexFollowsContent` and `EmbeddingFollowsText` show that it is not found by its former text instead.
- The scraper's image bytes replace the image the owner has given a post (`linkedin.py:378-381`). `ImportKeepsEditorial` shows
  that the published state stays, as `docs/DEPLOYMENT.md:76` promises, and that an image is never lost without another.
- `CvDesk` has the profile's race: after two overlapping activating uploads, requests and downloads answer 500 until
  the next activating upload. `OneDefaultUnlessRaced` shows that it takes the race.
- `record_cv_sent` with a stale session: send cv1; a second call loads cv1; a third sends cv2; the second commits cv1,
  writes a note but not the column, so the newest CV note and `sent_cv` differ. `TimelineNamesCv` shows that it takes
  such a repetition.
- `agent_id_map` is keyed by role (`multi_chat.py:57-58`) and the page sends empty roles by default, which all become
  "Participant": every turn is attributed to the last agent. `SpokenInTurn` therefore asks for an agent with the
  speaker's role, and shows for both kinds of debate that turns stay apart. While an answer of the chat streams, a second
  question may be sent (`llm.component.ts:145`), and both answers are appended to one message.
- Pipeline: an agent that timed out, and the documentation writer, may change code between the green gate and the
  commit; new files are neither gated nor shown to the reviewers (`git diff HEAD` does not list them) but are committed
  by `git add -A`. A refused merge or push is answered with "auto-merged to main; CI green" when an older head's CI run
  is green (`autonomous.py:425-429`), which `MergedUnlessRefused` shows to be the only way. Work kept after a crash "for
  inspection" is removed by the next run of the same spec, which a polling intake starts by itself (`autonomous.py:94`),
  and that run's push of the branch is refused when the first has pushed it. An exception during the CI recovery leaves
  the spec in the inbox although its feature is on main: the next run builds it again. The module's docstring promises
  "auto-rollback" (line 15), the function says "never silently roll back" (413) and the code never does; the recovery
  agents write to the main checkout, against `agents/README.md:146`.
- An attempt the importer gave up, but which landed, leaves the ledger at the older fingerprint. If the post is then
  edited back, the importer skips it while the site shows the newer text. A failed image download is marked as
  imported too, and two importers at once overwrite each other's ledger.

## Proofs

TLAPS proves every safety invariant and every action property the passing runs check of all eleven components, and two
refinements (Promotion implements PromoteOnce, Startup implements Rollout), for
every value of the constants that satisfies the modules' assumptions. These are the named ASSUMEs: sentinels are not members
of the sets they stand in for (`NoUserAssumption` among them), limits are naturals, what the owner may type has its type, and the
first databases of Startup are ones the handlers can leave (`BoardAssumption`: cards are numbered, a card
has the note of its promotion, a note is of a card, and no card has a key yet; `UserAssumption`: a first user has the id 1). All
follow one argument: `InitIInv`, one lemma per action that it keeps the inductive
invariant, `NextKeeps`, and the theorems from `Invariance`. Hardly a property is inductive alone; what the invariant
adds is, nearly always, what a session still knows of a row it has loaded, and was checked with TLC on the bounds of the
run before it was proved.

- **PromotionProofs**: `TypeCorrect`, `OneCard`, `AnswersAreTheCard`, `CardsKeepTheirOrigin`,
  `LosersFindTheirWinner`, `ConsistencyHolds` (the run's `Consistent`) and `Implements` (Promotion implements PromoteOnce), for any number of interactions and
  requests. `IInv` adds what the handler knows at each statement: a promoting
  or patching request holds the row it loaded and that row still exists (`PromotingHasRow`, `PatchingHasRow`,
  `SeenIsThere`, `RowsHaveOneId`); at most one request holds a key uncommitted and then no card has it (`KeyHeldOnce`,
  `KeyHeldIsFree`); a committed one's card is there (`CommittedIsThere`); a loser's winner has committed
  (`LostHasWinner`); a card's interaction exists (`CardHasRow`); nobody is told before the end (`Untold`). The
  refinement is then step by step: `look_up` of an existing row is `Ask`, `commit_promotion` is `Mint`, the three
  answering steps are `Tell`, the rest stutter.
- **BlogFeed**, in PromotionProofs: `FeedTypeCorrect`, `FreshFeedReadsOn`, `NothingIsShownTwice` and `FeedConsistencyHolds`,
  for any number of posts, tags, edits, clicks and pages, and any page sizes of which the first is a multiple of the second
  (10 and 5; `SizesAssumption`). A fresh list is a beginning of the server's, of whole pages as long as there is more
  (`aligned`), and the load under way asks for what comes next (`FreshAt`, of the static copy `StaticAt`). After one edit
  that is no longer so. What holds is that behind the place the next page begins the server has nothing that is newer than a post shown
  and not shown itself (`NoNewer`, in `OrderlyAt`). `EditBehind` shows it of the edit: a post that comes in above one that is
  shown is found no further down than that one was, which is the pigeonhole principle; `SelectedOrderly` shows that a page
  keeps it. What `kept` computes is shown by a least counterexample (`KeptDescends`), and from then on a list is known by
  its members (`SameMembers`).
- **RateLimiter**, in ProfileVersionsProofs: `LimiterTypeCorrect`, `DequeBounded`, `WindowBounded`, `RefusalsAreEarned`,
  `LimiterConsistencyHolds`, for any limit, window and set of keys. The invariant relates deque and history: the deque is a suffix of the accepted times (`IsSuffix`),
  times are bounded by the clock and ascending, and what was dropped is at least a window old (`LostIsOld`).
- **OpportunityBoardProofs**: `TypeCorrect`, `ConsistencyHolds`, `TimelineTrue`, `BookingsGoForward`, for any number of
  requests, slots and variants. The invariant says what the *newest* note of each kind tells (`StageTold`,
  `InterviewTold`, `CvTold`), and why a session with an old copy cannot make it false: a column it does not write is one
  another note has spoken for, and a variant it has loaded was sent before the card's (`CvTold`). `TrailOK` is the audit
  trail, `BookedOnly` that nothing is told of an interview before its booking. `NoteAdded` is the lemma under every
  action: what one note at the end of a timeline changes, and what it leaves.
- **ProfileVersionsProofs**: `TypeCorrect`, `ConsistencyHolds`, `NeverDark`, `CommitsHeal`. An UPDATE addresses every row of its
  language but those inserted since (`SnapOK`); so a commit that saw none of the latter leaves its row alone active.
- **CvDeskProofs**: `TypeCorrect`, `ConsistencyHolds`, `AlwaysACv`, `TwoDefaultsRaced`. The documents with their uploads and the
  requests with their inbox entries and downloads are two invariants (`DocumentsOK`, `RequestsOK`) that leave each other
  alone. The bound on lost downloads counts the tracked ones of a request with the library's facts about cardinality.
- **PipelineProofs**: `TypeCorrect`, `ConsistencyHolds`, `NothingUnclearedReleased`, `GreenWorkIsKept`, for any number of
  runs, fix rounds and recoveries. `Control` says for every step where this run's feature can be: nowhere before the
  merge (`MainOK`), on the branch after the commit (`BranchOK`), on every main after the merge (`MergeOK`) - each unless
  git refused the step that was to bring it there.
- **Debate**, in PipelineProofs: `DebateTypeCorrect`, `TranscriptReadsAsSpoken`, `StopsReachTheirDebate` and
  `DebateConsistencyHolds`, for any number of debates, chats, participants, rounds and chunks, and any roles they have in
  common. While a debate has the page to itself (`HasThePage`), what is in its queue goes on where the
  transcript ends (`Position`, `ReadOn`, `Follows`) and ends where the worker is (`WorkerAt`): every
  chunk says more of the turn, ends it, or begins the next, or tells that the debate broke off. So the current message holds
  exactly the turn it should when its end is read, also where two participants share an id. A step that
  takes the page from a debate ends it or makes it a disturbed one, which `AsSpoken` says nothing of: for these steps
  `PageIsLeft` is enough. A transcript grows and shrinks by its last message only (`LongerAsSpoken`,
  `ShorterAsSpoken`); a message's place is the number of its debate's up to it, counted with the library's facts about
  cardinality (`Grown`).
- **PostImportProofs**: `TypeCorrect`, `ConsistencyHolds`, `ZeroExitIsHonest`, `LedgerIsCurrent`, `EditorialIsKept`, for any
  number of URNs, attempts and retries. The invariant follows an import from batch to ledger: what the awaited attempt
  was sent (`Asked`), what its handler loaded, what its embedding is of, or that it has none, and that the row still has what
  was loaded unless another one wrote it (`LookedUp`, `SeenIsCurrent`), what a 200 stands for (`Kept`), and that every mark of a ledger, on disk or in memory, stands for that
  (`MarksOK`). `Grows` is the part every step of the server has in common, and `ImporterStays` the consequence.
- **PostDeskProofs**: `EmbeddingsFollow`, `ColumnsAreKept`, and on top of them `TypeCorrect`, `ConsistencyHolds` and
  `GoneTagsStayGone`, for any number of tabs, posts, saves and tag
  operations. The invariant has, for every tab, the columns of its form and that from `get_embedding` to the commit the
  form's embedding is of the form's text (`TabOK`), and for every row its columns (`RowsOK`). The rest is
  `WrittenIsTheForm`: an UPDATE of what differs from the row as it was read, of a row that still is so, leaves the form's
  text and embedding. `SavedByCommit` shows that no other step can end a commit with a changed row. A second invariant
  (`JInv`) has the types, that a request enters its second commit with the id of whatever the first has made (`MadeOnce`;
  ids that were given out are not given out again, in `TabFine`), and that a tab which may write its tags has none
  that went after it was opened (`Recalls`). `RemovedTags` is what `delete_tag` leaves of a list: it is about a recursive function, and is
  proved through the least prefix that would be an exception (`Least`).

- **StartupProofs**: `TypeCorrect`, `VersionIsTrue`, `WholeWhenServing`, `WeakLoginIsGone`, `ConsistencyHolds`,
  `PromotionsKept`, `AccountIsSafe` and `Implements`, for any number of keys, settings, messages, cards, sessions and
  events, and any set of first databases. The chain of eight revisions is computed once, in lemmas: from the objects
  of a level, each revision either reaches the next or meets what is there already and fails (`Shape`, `ObjectsAt`: the objects are
  those of the recorded level, built by migrations or by `create_all`, and `stamp` records the level that is true).
  `VersionIsTrue` and `WholeWhenServing` follow, since nothing between `upgrade_head` and `stop` touches the schema. The
  board is followed through the chain on its own (`Keeps`, `BackfillKeeps`: what `promote0005` fills in names the
  oldest card of its message), and so is the account, where a session knows what it read and may have been overtaken
  (`AccountStep`). The refinement is step by step: a successful upgrade is `Raise` or a stutter, `seed_cv`
  is `Serve`, `stop` is `Stop`, `rollback` is `RollBack`, and the rest stutter.

What a proof found. `IndexFollowsContent` was false for two URNs and held in the run, which has one: the history
`raced` named an attempt and not the URN, and an upload goes on to other URNs. `raced` now has both, and the proof is
for any number of URNs.

Left to TLC:

- `PromotionEnds`, `EveryDebateEnds`, `RunEnds`, `FeedCompletes` and `EveryStartServes`: liveness under fairness, and
  ENABLED, are out of the prover's reach;
- `PromotionNeverRegresses`, which is false ([findings](#findings)).

The library's theorems for induction take an operator as a parameter, which no installed prover can instantiate; where
induction was needed, it is a least counterexample in a set. No module declares a RECURSIVE operator. `:>`, `@@` and
`SelectSeq` mean nothing to the prover: PostDesk has its own `removed` for what `delete_tag` leaves of a list, BlogFeed its own `kept` for
what a query or a filter leaves of one, and Pipeline writes its functions out.

## What is not modelled

Image upload, similarity search and the admin pages are in the plan below, if they have state worth it. The LinkedIn
fetch is a wrapper around a library; the transfer is one commit of new drafts. The AI fallback chain runs in one
uninterrupted call (the Gemini client is synchronous and blocks the event loop): what it may bill is decided by a guard on one
line, `_is_model_unavailable_error`, and unit tests reach it. Left out for good: the SQL panel (it runs what the owner types),
settings, statistics and years (one row and read-only queries), notifications and ICS (sends without state; that an
e-mail goes out is a variable where it matters), the scraper and the proxy (a browser script, whose only effect is
PostImport's `scrape`, and configuration), seeds of sample data (`seed_blog.py`, `create_sample_posts.py`; `seed_cv.py`
does nothing while a CV is there). In Startup: two containers starting at once, a malformed encryption key (the
upgrade then fails until it is corrected), token expiry. Message texts, names, layout and logs are abstracted everywhere.

## Plan

Done, by importance: Promotion with its abstract specification, OpportunityBoard, RateLimiter, ProfileVersions, CvDesk,
PostImport, Debate, Pipeline, BlogFeed, PostDesk, Startup with Schema, Accounts and its abstract specification; proofs
of all of these. Next:

1. The admin pages over the handlers they call: **AdminTable** (`table-helper-server.ts`), whose abstract specification is
   that the rows shown answer the query shown, and the pipeline page over OpportunityBoard.
2. A second run of Debate with two chats, for the answers that share one message; **Transfer** beside PostImport.
