------------------------------- MODULE Browser -------------------------------
(* The script of the pages in a browser: the previews and the command palette *)
(* of a board, which share its cards and their focus, and the note form of a  *)
(* ticket. A scene names the uses made of a page together.                    *)
EXTENDS Previews, Palette, NoteDraft

ASSUME BrowserAssumption ==
  /\ IsFiniteSet(Tickets) /\ None \notin Tickets /\ IsFiniteSet(Tabs)
  /\ \A s \in Scenes : s.cards \in Seq(Tickets) /\ IsInjective(s.cards)
                       /\ s.uses \subseteq {"previews", "changes", "palette", "words", "handover", "note"}
  /\ "" \in Naming /\ Naming \subseteq Words /\ Mine \subseteq Tickets
  /\ {MaxSwaps, MaxDialogs, MaxTexts, MaxPosts} \subseteq Nat /\ Slots \subseteq Nat

Init == CardsInit /\ PreviewsInit /\ PaletteInit /\ NoteDraftInit

\* What the list in the open palette was made for may have changed.
Watch == seen' = IF Context' # Context \/ mine' # mine THEN [seen EXCEPT !.moved = TRUE] ELSE seen
\* An overlay takes all clicks; keys reach the board when no input has the focus.
Covered == palette.open \/ dialog # Closed
BoardKeys == Space \/ Step \/ Escape \/ (\E t \in Tickets : (~ Covered /\ Click(t)) \/ Change(t))
BoardAnswers ==
  \/ \E c \in Foremost(changes) : Removed(c) \/ Refusal(c) \/ Dropped(c)
  \/ \E a \in Foremost(asks) : PreviewArrives(a) \/ PreviewFails(a)
\* The new card says whose the ticket is by now: Today assigns it.
NewCard == \E c \in Foremost(changes) : Swapped(c) /\ mine' \in {mine \ {c.t}, mine \cup {c.t}}
OnBoard ==
  /\ ((BoardKeys \/ BoardAnswers) /\ UNCHANGED mine) \/ NewCard
  /\ Watch
  /\ UNCHANGED <<palette, lists, handover>>

InPalette ==
  \/ OpenPalette \/ ClosePalette \/ ("words" \in uses /\ \E w \in Words : Type(w)) \/ Frame
  \/ (\E l \in lookups : ChoicesCome(l))
  \/ RunHandover \/ Write \/ Dismiss \/ Submit \/ \E h \in sent : HandedOver(h) \/ Refused(h)
\* A command that changes a ticket is a request for its card, as it is now.
Command ==
  /\ "changes" \in uses /\ RunCommand
  /\ listed.t # None /\ Request(listed.t)
  /\ UNCHANGED <<element, under, stash, asks, swaps, extra>>

OnPalette ==
  /\ (InPalette /\ UNCHANGED previews) \/ Command
  /\ UNCHANGED board

Next ==
  \/ UNCHANGED draft /\ (OnBoard \/ OnPalette)
  \/ "note" \in uses /\ NoteDraftStep /\ UNCHANGED <<board, previews, palette, lists, mine, handover, seen>>
vars == <<board, previews, palette, lists, mine, handover, seen, draft>>
Spec == Init /\ [][Next]_vars
=============================================================================
