SPECIFICATION FeedSpec
CONSTANTS
  MaxPosts = 7
  Blogs <- MCBlogs
  Tags = {t}
  pageSize = 4
  loadMoreSize = 2
  StaticTotal = 5
  MaxEdits = 2
  MaxTagClicks = 2
  MaxPage = 4
  Draft = Draft
  None = None
INVARIANTS
  FeedConsistent
  FreshFeedIsPrefix
PROPERTY
  FeedCompletes
