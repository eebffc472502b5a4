----------------------------- MODULE PromoteOnce -----------------------------
(***************************************************************************)
(* What "promote an inbox interaction" promises its callers, with the      *)
(* handler, the sessions and the database abstracted away: an interaction  *)
(* owns at most one card, the card it owns never changes, and whoever asks *)
(* is told that card.  Promotion implements it (Promotion!PO).             *)
(***************************************************************************)

CONSTANTS
  Interactions,   \* ids of inbox rows
  Requests,       \* promote calls; a call that mints a card names it
  NoInteraction,  \* "no interaction asked for yet"
  NoCard          \* "no card"

VARIABLES
  asked,          \* the interaction each call is about
  card,           \* the card each interaction owns
  told            \* the card each call was answered with

vars == <<asked, card, told>>

Init ==
  /\ asked = [r \in Requests |-> NoInteraction]
  /\ card  = [i \in Interactions |-> NoCard]
  /\ told  = [r \in Requests |-> NoCard]

\* A call arrives.
Ask(r, i) ==
  /\ asked[r] = NoInteraction
  /\ asked' = [asked EXCEPT ![r] = i]
  /\ UNCHANGED <<card, told>>

\* The interaction gets its one card, named after the call that minted it.
Mint(r) ==
  /\ asked[r] \in Interactions
  /\ card[asked[r]] = NoCard
  /\ card' = [card EXCEPT ![asked[r]] = r]
  /\ UNCHANGED <<asked, told>>

\* A call is answered with the card of the interaction it asked about.
Tell(r) ==
  /\ asked[r] \in Interactions
  /\ card[asked[r]] # NoCard
  /\ told[r] = NoCard
  /\ told' = [told EXCEPT ![r] = card[asked[r]]]
  /\ UNCHANGED <<asked, card>>

Next ==
  \E r \in Requests :
    \/ \E i \in Interactions : Ask(r, i)
    \/ Mint(r)
    \/ Tell(r)

Spec == Init /\ [][Next]_vars
==============================================================================
