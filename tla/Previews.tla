------------------------------ MODULE Previews -------------------------------
(* The previews a board unfolds under its cards: fetched from the server      *)
(* while the focus moves on, previews are closed and reopened, and htmx       *)
(* replaces cards by new ones.                                                *)
EXTENDS Cards

CONSTANT MaxSwaps   \* cards replaced (bound)

VARIABLES
  element,  \* which element the card of each ticket is: htmx makes a new one for every swap
  under,    \* previews under each card, loading, shown or failed
  stash,    \* tickets whose preview is in stashedPreviews
  asks,     \* fetches under way: each knows the element of the card it was made for
  changes,  \* requests of buttons and commands under way, with the element they will replace
  swaps,
  extra     \* history: cards that got a preview from a late answer or from the stash, and
            \* have had one ever since

previews == <<element, under, stash, asks, changes, swaps, extra>>

PreviewsInit ==
  /\ element = [t \in Tickets |-> 0] /\ under = [t \in Tickets |-> 0]
  /\ stash = {} /\ asks = {} /\ changes = {} /\ swaps = 0 /\ extra = {}

Unfolded == {t \in OnPage : under[t] > 0}
Mark(t, S) == [t |-> t, el |-> element[t],
               n |-> Number({x \in S : x.t = t /\ x.el = element[t]})]
\* The first preview of every card of S is taken away: querySelector.
Folded(u, S) == [t \in Tickets |-> IF t \in S /\ u[t] > 0 THEN u[t] - 1 ELSE u[t]]
\* u are the previews from now on; cards in S got theirs late.
Left(u, S) == under' = u /\ extra' = {t \in extra \cup S : u[t] > 0}

\* Slip: previews of other cards stay open.
ToggleAlone(t, u) ==
  \/ u[t] > 0 /\ Left(Folded(u, {t}), {}) /\ UNCHANGED asks
  \/ /\ u[t] = 0 /\ Room(asks)
     /\ Left([u EXCEPT ![t] = 1], {})
     /\ asks' = asks \cup {Mark(t, asks)}
\* togglePreview, on a page that shows the previews u.
Toggle(t, u) ==
  \/ u[t] > 0 /\ Left(Folded(u, {t}), {}) /\ UNCHANGED asks
  \/ /\ u[t] = 0 /\ Room(asks)
     /\ Left([Folded(u, OnPage) EXCEPT ![t] = 1], {})
     /\ asks' = asks \cup {Mark(t, asks)}

----------------------------------------------------------------------------
(* The agent.                                                                *)
OnlyFocus == UNCHANGED <<cards, uses, element, stash, changes, swaps>>
Space ==
  /\ "previews" \in uses /\ Context # None /\ Toggle(Context, under)
  /\ UNCHANGED focus /\ OnlyFocus

\* setFocus takes an open preview along; at either end of the list it closes it.
Step ==
  /\ cards # <<>>
  /\ \E i \in Neighbours :
       /\ focus' = i
       /\ \/ /\ Context \in Unfolded
             /\ LET u == Folded(under, {Context})
                IN IF i = focus THEN Left(u, {}) /\ UNCHANGED asks ELSE Toggle(cards[i], u)
          \/ Context \notin Unfolded /\ UNCHANGED <<under, extra, asks>>
  /\ OnlyFocus

\* A click on a card that is not focused closes all others and leaves its own open.
Click(t) ==
  /\ "previews" \in uses
  /\ \E i \in Places : cards[i] = t /\ focus' = i
  /\ \/ focus' = focus /\ Toggle(t, under)
     \/ /\ focus' # focus
        /\ LET u == Folded(under, OnPage \ {t})
           IN IF u[t] = 0 THEN Toggle(t, u) ELSE Left(u, {}) /\ UNCHANGED asks
  /\ OnlyFocus

Escape ==
  /\ focus # 0 /\ focus' = 0
  /\ Left(IF Context = None THEN under ELSE Folded(under, {Context}), {})
  /\ UNCHANGED asks /\ OnlyFocus

\* A request that will replace the card of t, if there is one.
Request(t) ==
  IF t \in OnPage THEN Room(changes) /\ changes' = changes \cup {Mark(t, changes)}
                  ELSE UNCHANGED changes
\* Today, blocked, put off, a priority, a status: by button or key.
Change(t) ==
  /\ "changes" \in uses /\ t \in OnPage /\ Request(t)
  /\ UNCHANGED <<board, element, under, stash, asks, swaps, extra>>

----------------------------------------------------------------------------
(* Answers. Of requests made for one element, it does not matter which comes *)
(* first: the one with the highest number.                                   *)
Foremost(S) == {x \in S : \A y \in S : y.t = x.t /\ y.el = x.el => y.n <= x.n}
Current(x) == x.t \in OnPage /\ x.el = element[x.t]

\* htmx replaces the card. beforeSwap has put its first preview into the stash; afterSwap
\* gives every card of the page the preview the stash has for it, and empties the stash.
Swapped(c) ==
  /\ Current(c) /\ swaps < MaxSwaps /\ swaps' = swaps + 1
  /\ changes' = changes \ {c}
  /\ element' = [element EXCEPT ![c.t] = @ + 1]
  /\ LET own  == IF under[c.t] > 0 \/ c.t \in stash THEN 1 ELSE 0
         back == {t \in stash \cap OnPage : t # c.t \/ under[t] = 0}
     IN Left([t \in Tickets |-> CASE t = c.t -> own [] t # c.t /\ t \in back -> under[t] + 1
                                                [] OTHER -> under[t]], back)
  /\ stash' = {}
  /\ UNCHANGED <<board, asks>>
\* On the Today page the card goes with its previews; no afterSwap follows an empty answer.
Removed(c) ==
  /\ Current(c) /\ changes' = changes \ {c}
  /\ Without(c.t) /\ Left([under EXCEPT ![c.t] = 0], {}) /\ stash' = stash \ {c.t}
  /\ UNCHANGED <<element, asks, swaps>>
\* beforeSwap comes before an error too, and takes the preview; nothing is swapped.
Refusal(c) ==
  /\ Current(c) /\ changes' = changes \ {c}
  /\ Left(Folded(under, {c.t}), {})
  /\ stash' = IF under[c.t] > 0 THEN stash \cup {c.t} ELSE stash
  /\ UNCHANGED <<board, element, asks, swaps>>
\* No answer, or one for an element that is gone, changes no card.
Dropped(c) ==
  /\ changes' = changes \ {c}
  /\ UNCHANGED <<board, element, under, stash, asks, swaps, extra>>

\* The first preview under the card is replaced, and if there is none this one is added.
PreviewArrives(a) ==
  /\ asks' = asks \ {a}
  /\ IF Current(a) /\ under[a.t] = 0 THEN Left([under EXCEPT ![a.t] = 1], {a.t})
                                     ELSE UNCHANGED <<under, extra>>
  /\ UNCHANGED <<board, element, stash, changes, swaps>>
\* The first preview, if there is one, says so.
PreviewFails(a) ==
  /\ asks' = asks \ {a}
  /\ UNCHANGED <<board, element, under, stash, changes, swaps, extra>>

----------------------------------------------------------------------------
(* script.js:266: "Close any other open previews first (only one at a time)". *)
(* At most one is open, whatever moves the focus, closes a preview, or        *)
(* replaces or takes away a card while previews load. Apart from previews     *)
(* that come by themselves: from an answer after they had been closed         *)
(* (script.js:289-296), and back from the stash, into which an answer with an *)
(* error had put them, when any card is swapped later (script.js:488-510).    *)
OneUnlessLate == Cardinality(Unfolded \ extra) <= 1
=============================================================================
