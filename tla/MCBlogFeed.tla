----------------------------- MODULE MCBlogFeed -----------------------------
EXTENDS BlogFeed

\* Every post is published, or every post but one; every second or every one
\* of them has the tag.
MCBlogs ==
  {[p \in Posts |-> IF p = draft THEN Draft ELSE IF p % step = 0 THEN Tags ELSE {}] :
     draft \in {0, 1, 4, 7}, step \in {1, 2}}
=============================================================================
