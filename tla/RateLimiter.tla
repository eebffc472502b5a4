------------------------------ MODULE RateLimiter ------------------------------
(***************************************************************************)
(* The in-memory sliding-window limiter in front of the public endpoints   *)
(* (backend/app/services/rate_limit.py), one process's life long.  `allow` *)
(* contains no await: the event loop runs it as one step.  The formulas of *)
(* the specification bear the limiter's name: it is extended beside the    *)
(* endpoints it guards.                                                    *)
(***************************************************************************)
EXTENDS Integers, Sequences

CONSTANTS
  Keys,            \* client addresses
  max_requests,
  window_seconds,
  MaxTime,         \* TLC's bound on the clock
  MaxAdvance       \* TLC's bound on the pause between two requests

ASSUME LimitAssumption == max_requests \in Nat
ASSUME WindowAssumption == window_seconds \in Nat
ASSUME BoundAssumption == MaxTime \in Nat /\ MaxAdvance \in Nat

VARIABLES
  now,        \* time.monotonic()
  hits,       \* the deque of each key: accepted requests not yet dropped
  accepted,   \* history: every accepted request of a key, oldest first
  verdict     \* what the latest call returned: [key, ok]

limiter_vars == <<now, hits, accepted, verdict>>

LimiterTypeOK ==
  /\ now \in Nat
  /\ hits \in [Keys -> Seq(Nat)]
  /\ accepted \in [Keys -> Seq(Nat)]
  /\ verdict \in [key : Keys, ok : BOOLEAN]

LimiterInit ==
  /\ now = 0
  /\ hits = [k \in Keys |-> <<>>]
  /\ accepted = [k \in Keys |-> <<>>]
  /\ verdict \in [key : Keys, ok : {TRUE}]

\* Mutants of expired: a hit exactly one window old still counts; one an instant
\* younger no longer does.
expired_late(h) == h < now - window_seconds
expired_early(h) == h <= now - window_seconds + 1

expired(h) == h <= now - window_seconds

\* The deque without its expired head: up to the first hit that has not expired.
drop_expired(s) ==
  IF \A n \in 1..Len(s) : expired(s[n]) THEN <<>>
  ELSE LET first == CHOOSE n \in 1..Len(s) :
                      ~expired(s[n]) /\ \A m \in 1..(n - 1) : expired(s[m])
       IN SubSeq(s, first, Len(s))

\* Mutant of full: the limit is tested as if the request were not to be added.
full_late(s) == Len(s) > max_requests

full(s) == Len(s) >= max_requests

\* A request of `key` at the current time.
allow(key) ==
  LET live == drop_expired(hits[key]) IN
  /\ hits' = [hits EXCEPT ![key] = IF full(live) THEN live ELSE Append(live, now)]
  /\ accepted' = [accepted EXCEPT ![key] = IF full(live) THEN @ ELSE Append(@, now)]
  /\ verdict' = [key |-> key, ok |-> ~full(live)]
  /\ UNCHANGED now

\* The clock is monotonic; requests may also share an instant.
advance ==
  /\ \E d \in 1..MaxAdvance : now + d <= MaxTime /\ now' = now + d
  /\ UNCHANGED <<hits, accepted, verdict>>

LimiterNext == advance \/ \E key \in Keys : allow(key)

LimiterSpec == LimiterInit /\ [][LimiterNext]_limiter_vars

------------------------------------------------------------------------------
(* Properties *)

\* No window of window_seconds ever holds more than max_requests accepted requests
\* of one key, wherever the window starts: of any max_requests + 1 consecutive
\* ones, the last is at least a window after the first.
WindowBound ==
  \A k \in Keys : \A n \in 1..(Len(accepted[k]) - max_requests) :
    accepted[k][n + max_requests] - accepted[k][n] >= window_seconds

\* Nobody is refused without cause: behind every refusal are max_requests
\* requests accepted within the last window, even after calls were refused or
\* the deque was not touched for a while.
RefusalIsEarned ==
  [][ /\ now' = now
      /\ ~verdict'.ok
      => LET log == accepted'[verdict'.key] IN
         /\ Len(log) >= max_requests
         /\ max_requests > 0 =>
              log[Len(log) - max_requests + 1] > now - window_seconds ]_limiter_vars

\* The deque never outgrows the limit, so a key costs bounded memory per window.
DequeBound == \A k \in Keys : Len(hits[k]) <= max_requests

\* Clock and deques are what they should be, and no deque outgrows the limit.
LimiterConsistent == LimiterTypeOK /\ DequeBound
==============================================================================
