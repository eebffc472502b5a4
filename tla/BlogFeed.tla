------------------------------ MODULE BlogFeed ------------------------------
(***************************************************************************)
(* The public blog's list: the pager of blog.component.ts over list_posts  *)
(* (backend/app/api/posts.py) and, once a request has failed, over the     *)
(* static copy of the posts the site ships with (blog.service.ts).         *)
(*                                                                         *)
(* The server counts and selects in two statements.  The owner edits the   *)
(* blog at any time.  The pager asks for a page of PageSize first and for  *)
(* pages of LoadMoreSize from then on, numbered by what it already shows.  *)
(* A post is its rank in the order the list is sorted by: a greater number *)
(* is a newer post.  The entries of the static copy are numbered by their  *)
(* place in it, as the service numbers them.                               *)
(***************************************************************************)
EXTENDS Naturals, Sequences, SequencesExt

CONSTANTS
  MaxPosts,      \* TLC's bound on the posts there ever are
  Tags,
  Blogs,         \* the blogs to start from
  pageSize, loadMoreSize,
  StaticTotal,   \* the entries of /assets/blog_data_<lang>.json
  MaxEdits,      \* TLC's bound on the owner's edits
  MaxTagClicks,  \* TLC's bound on the reader's tag clicks
  MaxPage,       \* TLC's bound on the pages asked for
  Draft, None

Posts == 1..MaxPosts

ASSUME PostsAssumption == MaxPosts \in Nat /\ Blogs \subseteq [Posts -> {Draft} \cup SUBSET Tags]
ASSUME SizesAssumption ==
  /\ {pageSize, loadMoreSize} \subseteq Nat \ {0} /\ StaticTotal \in Nat
  /\ pageSize % loadMoreSize = 0   \* 10 and 5; else an edit could show a post below older ones
ASSUME BoundsAssumption == {MaxEdits, MaxTagClicks} \subseteq Nat /\ MaxPage \in Nat \ {0}
ASSUME SentinelsAssumption == None \notin Tags /\ \A tags \in SUBSET Tags : Draft # tags

VARIABLES
  blog,           \* each post's tags, or Draft: not published, or not there
  platform,       \* where the component runs
  posts,          \* the list shown
  currentPage, hasMore, isLoading, usingFallback, activeTag,
  call,           \* the load under way, or None
  edits, clicks,  \* bound the edits and the clicks
  fresh           \* history: nothing came between the list's loads

feed_vars ==
  <<blog, platform, posts, currentPage, hasMore, isLoading, usingFallback, activeTag, call,
    edits, clicks, fresh>>
reader == <<posts, currentPage, hasMore, isLoading, usingFallback, activeTag, clicks>>

Versions == {Draft} \cup SUBSET Tags
Call ==
  [step : {"count", "select", "answer"}, tag : Tags \cup {None}, page : Nat \ {0},
   size : {pageSize, loadMoreSize}, total : Nat, items : Seq(Posts)]
    \cup [step : {"static"}, page : 1..MaxPage, size : {pageSize, loadMoreSize}]

ASSUME NoneIsNoCall == None \notin Call

FeedTypeOK ==
  /\ blog \in [Posts -> Versions]
  /\ platform \in {"browser", "server"}
  /\ posts \in Seq(Posts \cup 0..StaticTotal)
  /\ currentPage \in 1..MaxPage
  /\ {hasMore, isLoading, usingFallback, fresh} \subseteq BOOLEAN
  /\ activeTag \in Tags \cup {None}
  /\ call \in Call \cup {None}
  /\ isLoading <=> call # None
  /\ edits \in 0..MaxEdits /\ clicks \in 0..MaxTagClicks

-----------------------------------------------------------------------------
(* The two sources of posts.                                               *)

\* What a list has of a set, in the list's order.
kept(list, wanted) ==
  LET kept_of[i \in 0..Len(list)] ==
        IF i = 0 THEN <<>>
        ELSE IF list[i] \in wanted THEN Append(kept_of[i - 1], list[i]) ELSE kept_of[i - 1]
  IN  kept_of[Len(list)]

\* What list_posts selects from: published posts with the tag, newest first.
listed(tag) == {p \in Posts : blog[p] # Draft /\ (tag # None => tag \in blog[p])}
Listing(tag) == kept([i \in Posts |-> MaxPosts + 1 - i], listed(tag))

\* OFFSET (page - 1) * size LIMIT size.
Page(list, page, size) ==
  SubSeq(list, (page - 1) * size + 1, IF page * size < Len(list) THEN page * size ELSE Len(list))

StaticPosts == [i \in 1..StaticTotal |-> i - 1]

-----------------------------------------------------------------------------
(* The component.                                                          *)

effectivePageSize(page) == IF page = 1 THEN pageSize ELSE loadMoreSize

\* Mutants of apiPage: the last page again, and the page after the next one.
apiPage_last(page, shown) ==
  IF page = 1 \/ Len(shown) < loadMoreSize THEN 1 ELSE Len(shown) \div loadMoreSize
apiPage_beyond(page, shown) == IF page = 1 THEN 1 ELSE (Len(shown) \div loadMoreSize) + 2

apiPage(page, shown) == IF page = 1 THEN 1 ELSE (Len(shown) \div loadMoreSize) + 1

request(page, shown, tag) ==
  [step |-> "count", tag |-> tag, page |-> apiPage(page, shown),
   size |-> effectivePageSize(page), total |-> 0, items |-> <<>>]
static_request(page, size) == [step |-> "static", page |-> page, size |-> size]

\* loadPosts, of a component that is not loading.
loadPosts(page, shown, tag) ==
  /\ isLoading' = TRUE
  /\ call' = IF usingFallback THEN static_request(page, effectivePageSize(page))
                              ELSE request(page, shown, tag)

FeedInit ==
  /\ blog \in Blogs
  /\ platform \in {"browser", "server"}
  /\ posts = <<>> /\ currentPage = 1 /\ hasMore = FALSE
  /\ isLoading = TRUE /\ usingFallback = FALSE /\ activeTag = None
  /\ call = request(1, <<>>, None)
  /\ edits = 0 /\ clicks = 0
  /\ fresh = TRUE

\* The owner publishes, withdraws, deletes or retags a post.
edit(p, version) ==
  /\ edits < MaxEdits /\ version # blog[p]
  /\ blog' = [blog EXCEPT ![p] = version]
  /\ edits' = edits + 1
  /\ fresh' = (fresh /\ usingFallback)
  /\ UNCHANGED <<platform, reader, call>>

list_posts_count ==
  /\ call # None /\ call.step = "count"
  /\ call' = [call EXCEPT !.step = "select", !.total = Len(Listing(call.tag))]
  /\ UNCHANGED <<blog, platform, reader, edits, fresh>>

list_posts_select ==
  /\ call # None /\ call.step = "select"
  /\ call' = [call EXCEPT !.step = "answer",
                          !.items = Page(Listing(call.tag), call.page, call.size)]
  /\ UNCHANGED <<blog, platform, reader, edits, fresh>>

\* An answer is appended, of a page and for a tag that may no longer be asked for.
show(items, total) ==
  /\ posts' = posts \o items
  /\ hasMore' = (Len(posts') < total)
  /\ isLoading' = FALSE /\ call' = None
  /\ UNCHANGED <<blog, platform, currentPage, usingFallback, activeTag, edits, clicks, fresh>>

\* Mutant of new_posts: posts the list already has are appended again.
new_posts_all(items) == items

new_posts(items) == kept(items, ToSet(items) \ ToSet(posts))

loaded ==
  /\ call # None /\ call.step = "answer"
  /\ show(new_posts(call.items), call.total)

\* The browser's handler falls back with loadMoreSize, the server's with the page's own size.
load_failed ==
  /\ call # None /\ call.step # "static"
  /\ usingFallback' = TRUE
  /\ call' = static_request(currentPage,
       IF platform = "browser" THEN loadMoreSize ELSE call.size)
  /\ fresh' = (currentPage = 1)
  /\ UNCHANGED <<blog, platform, posts, currentPage, hasMore, isLoading, activeTag, edits, clicks>>

getStaticPosts ==
  /\ call # None /\ call.step = "static"
  /\ show(Page(StaticPosts, call.page, call.size), StaticTotal)

static_failed ==
  /\ call # None /\ call.step = "static"
  /\ isLoading' = FALSE /\ call' = None
  /\ fresh' = FALSE
  /\ UNCHANGED <<blog, platform, posts, currentPage, hasMore, usingFallback, activeTag, edits,
                 clicks>>

loadMore ==
  /\ platform = "browser"
  /\ hasMore /\ ~isLoading /\ currentPage < MaxPage
  /\ currentPage' = currentPage + 1
  /\ loadPosts(currentPage', posts, activeTag)
  /\ UNCHANGED <<blog, platform, posts, hasMore, usingFallback, activeTag, edits, clicks, fresh>>

\* loadInitialPosts: the list is reset; a load under way keeps its page and its tag.
filter(tag) ==
  /\ platform = "browser" /\ clicks < MaxTagClicks
  /\ activeTag' = tag
  /\ posts' = <<>> /\ currentPage' = 1 /\ hasMore' = FALSE
  /\ IF isLoading THEN UNCHANGED <<isLoading, call>> ELSE loadPosts(1, <<>>, tag)
  /\ clicks' = clicks + 1
  /\ fresh' = (~isLoading /\ ~usingFallback)
  /\ UNCHANGED <<blog, platform, usingFallback, edits>>

\* Tags are clicked on a post that is shown.
filterByTag(tag) == posts # <<>> /\ filter(tag)
clearTagFilter == activeTag # None /\ filter(None)

\* The reader has read.
Rest ==
  /\ ~isLoading
  /\ UNCHANGED feed_vars

FeedNext ==
  \/ \E p \in Posts, version \in Versions : edit(p, version)
  \/ list_posts_count \/ list_posts_select \/ loaded \/ load_failed
  \/ getStaticPosts \/ static_failed
  \/ loadMore \/ clearTagFilter
  \/ \E tag \in Tags : filterByTag(tag)
  \/ Rest

\* Requests are answered or fail, and the reader asks for more while there is more.
FeedFairness ==
  /\ WF_feed_vars(list_posts_count) /\ WF_feed_vars(list_posts_select) /\ WF_feed_vars(loaded)
  /\ WF_feed_vars(getStaticPosts) /\ WF_feed_vars(loadMore)

FeedSpec == FeedInit /\ [][FeedNext]_feed_vars /\ FeedFairness

-----------------------------------------------------------------------------
(* Properties.                                                             *)

Source == IF usingFallback THEN StaticPosts ELSE Listing(activeTag)

\* A list loaded without an edit, a failure or a tag click in between (or
\* loaded from the static copy alone) is a beginning of what there is to read
\* under the active tag, without gaps, and "load more" is offered exactly if
\* there is more: the change of page size after the first page skips nothing.
FreshFeedIsPrefix ==
  fresh /\ ~isLoading => IsPrefix(posts, Source) /\ (hasMore <=> posts # Source)

NewestFirst == \A i, j \in DOMAIN posts : i < j => posts[i] > posts[j]

\* Before the fallback no post is shown twice, whatever is published, withdrawn
\* or clicked between two pages; after a single edit the list is still newest
\* first, although the pages it consists of have moved.
NoPostTwice ==
  ~usingFallback => IsInjective(posts) /\ (edits <= 1 /\ clicks = 0 => NewestFirst)

\* The pager's own state, and no post twice in it.
FeedConsistent == FeedTypeOK /\ NoPostTwice

\* A reader who keeps asking for more has, in the end, read everything there is
\* under the tag, if from some time on nothing is edited or fails.
FeedCompletes ==
  platform = "browser" /\ <>[]fresh => <>[](~isLoading => posts = Source /\ ~hasMore)
=============================================================================
