------------------------------- MODULE MCStartup -------------------------------
EXTENDS Startup

CONSTANTS i1, i2, g1, g2, e1, e2

setting(password, encryption, seed, jwt) ==
  [admin_password |-> password, encryption_key |-> encryption, seed |-> seed, jwt |-> jwt]

MCEnvironments ==
  {setting("env", e1, Unset, "ok"), setting("env", e2, Unset, "ok"),
   setting(Unset, Unset, g2, "process"), setting("env", Unset, Unset, Unset)}

\* Two cards of one message, from before it was unique, the younger's note naming it
\* too; and a card whose timeline names another's message.
card(n, i) == [id |-> n, from |-> i, key |-> NoInteraction]
note(n, i, hand) == [card |-> n, item |-> i, by_hand |-> hand]
MCFirstBoards ==
  {[cards |-> {card(1, i1), card(2, i1)},
    notes |-> {note(1, i1, FALSE), note(2, i1, FALSE)}],
   [cards |-> {card(1, i1), card(2, i2)},
    notes |-> {note(1, i1, FALSE), note(2, i2, FALSE), note(1, i2, TRUE)}]}

MCFirstUsers ==
  {new_user(1, "admin", [text |-> Unset, by |-> Unset]),
   new_user(1, "own", [text |-> g1, by |-> Unset]),
   new_user(1, "own", [text |-> g1, by |-> e1])}
==============================================================================
