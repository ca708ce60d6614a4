-------------------------------- MODULE Cards --------------------------------
(* The tickets of a board as its page in the browser has them: one card each, *)
(* one of them focused by its place. A ticket that is in two sections has two *)
(* cards of one id on the dashboard; here it has one.                         *)
EXTENDS Integers, SequencesExt, FiniteSetsExt

CONSTANTS
  Tickets,
  None,
  Slots,   \* numbers of requests of a kind under way at once (bound)
  Scenes   \* what a page has and what is done with it: its cards, and the uses made of it (bound)

VARIABLES
  cards,   \* the tickets in the order of the page
  focus,   \* focusedIndex: a place in cards, 0 if no card is focused
  uses     \* the uses of the scene

board == <<cards, focus, uses>>

OnPage  == Range(cards)
Places  == 1..Len(cards)
\* getFocusedTicketId. The place stays when a card above it goes, and may be past the end.
Context == IF focus \in Places THEN cards[focus] ELSE None

\* The keys j and k; setFocus clamps.
Clamp(i) == Min({Max({i, 1}), Len(cards)})
Neighbours == {Clamp(focus + 1), Clamp(focus - 1)}

CardsInit == focus = 0 /\ \E s \in Scenes : cards = s.cards /\ uses = s.uses

\* The answer to a request from the Today page is empty: the card goes.
Without(t) ==
  /\ \E i \in Places : cards[i] = t /\ cards' = RemoveAt(cards, i)
  /\ UNCHANGED <<focus, uses>>

\* Requests that are alike are told apart by numbers.
Number(S) == Min(Slots \ {x.n : x \in S})
Room(S)   == Cardinality(S) < Cardinality(Slots)
=============================================================================
