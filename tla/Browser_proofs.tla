---------------------------- MODULE Browser_proofs ----------------------------
(***************************************************************************)
(* The pages in a browser: one preview at a time, the list of commands for *)
(* the focused ticket, the note in a dialog, and the draft of a note.      *)
(* Each of the four has an invariant of its own, over few of the variables *)
(* of Browser: the others only have to leave those alone.                  *)
(***************************************************************************)
EXTENDS Browser, FiniteSetTheorems, SequenceTheorems, TLAPS

----------------------------------------------------------------------------
(* Previews.                                                               *)

\* At most one card of the page has a preview that did not come by itself, and only one such.
Single(u, e) ==
  /\ \A t, v \in OnPage \ e : u[t] > 0 /\ u[v] > 0 => t = v
  /\ \A t \in OnPage \ e : u[t] <= 1
PreviewsRight ==
  /\ cards \in Seq(Tickets)
  /\ under \in [Tickets -> Nat]
  /\ Single(under, extra)

\* What is left of a page when a card goes was on the page.
LEMMA WithoutShrinks ==
  ASSUME cards \in Seq(Tickets), NEW t, Without(t)
  PROVE  cards' \in Seq(Tickets) /\ OnPage' \subseteq OnPage
<1>1. PICK i \in Places : cards' = RemoveAt(cards, i)
  BY DEF Without
<1>2. i \in 1..Len(cards)
  BY DEF Places
<1>3. SubSeq(cards, 1, i - 1) \in Seq(OnPage) /\ SubSeq(cards, i + 1, Len(cards)) \in Seq(OnPage)
  <2>1. \A j \in 1..Len(cards) : cards[j] \in OnPage
    BY DEF OnPage, Range
  <2> QED
    BY <1>2, <2>1, SubSeqProperties
<1>4. cards' \in Seq(OnPage)
  BY <1>1, <1>3, ConcatProperties DEF RemoveAt
<1>5. OnPage \subseteq Tickets
  BY ElementOfSeq DEF OnPage, Range
<1>6. OnPage' \subseteq OnPage
  BY <1>4, ElementOfSeq DEF OnPage, Range
<1> QED
  BY <1>4, <1>5, <1>6, SeqMonotonic

LEMMA FoldedIs ==
  ASSUME NEW u \in [Tickets -> Nat], NEW S
  PROVE  /\ Folded(u, S) \in [Tickets -> Nat]
         /\ \A t \in Tickets : Folded(u, S)[t] = IF t \in S /\ u[t] > 0 THEN u[t] - 1 ELSE u[t]
BY DEF Folded

LEMMA PageOfTickets == cards \in Seq(Tickets) => OnPage \subseteq Tickets
BY ElementOfSeq DEF OnPage, Range

\* Taking previews away opens none.
LEMMA FoldedSingle ==
  ASSUME cards \in Seq(Tickets), NEW u \in [Tickets -> Nat], Single(u, extra), NEW S
  PROVE  Single(Folded(u, S), extra)
<1>1. \A t \in Tickets : Folded(u, S)[t] = IF t \in S /\ u[t] > 0 THEN u[t] - 1 ELSE u[t]
  BY FoldedIs
<1>2. \A t \in Tickets : Folded(u, S)[t] \in Nat /\ Folded(u, S)[t] <= u[t] /\ u[t] \in Nat
  BY <1>1
<1>3. \A t \in OnPage \ extra : t \in Tickets
  BY PageOfTickets
<1>4. \A t \in OnPage \ extra : Folded(u, S)[t] <= 1
  <2> SUFFICES ASSUME NEW t \in OnPage \ extra PROVE Folded(u, S)[t] <= 1
    OBVIOUS
  <2>1. u[t] <= 1
    BY DEF Single
  <2> QED
    BY <1>2, <1>3, <2>1
<1>5. \A t, v \in OnPage \ extra : Folded(u, S)[t] > 0 /\ Folded(u, S)[v] > 0 => t = v
  <2> SUFFICES ASSUME NEW t \in OnPage \ extra, NEW v \in OnPage \ extra,
                      Folded(u, S)[t] > 0, Folded(u, S)[v] > 0
               PROVE  t = v
    OBVIOUS
  <2>1. u[t] > 0 /\ u[v] > 0
    BY <1>2, <1>3
  <2> QED
    BY <2>1 DEF Single
<1> QED
  BY <1>4, <1>5 DEF Single

\* A card of which all previews go is no longer in extra, and is none too many.
LEMMA LeftSingle ==
  ASSUME UNCHANGED cards, cards \in Seq(Tickets), NEW u \in [Tickets -> Nat], NEW S,
         Single(u, extra \cup S), Left(u, S)
  PROVE  PreviewsRight'
<1>1. OnPage' = OnPage /\ OnPage \subseteq Tickets
  BY PageOfTickets DEF OnPage
<1>2. under' = u /\ \A t : t \in extra' <=> t \in extra \cup S /\ u[t] > 0
  BY DEF Left
<1>3. \A t \in OnPage : t \notin extra' => t \notin extra \cup S \/ u[t] = 0
  BY <1>1, <1>2
<1>4. \A t, v \in OnPage \ extra' : u[t] > 0 /\ u[v] > 0 => t = v
  BY <1>1, <1>3 DEF Single
<1>5. \A t \in OnPage \ extra' : u[t] <= 1
  BY <1>1, <1>3 DEF Single
<1> QED
  BY <1>1, <1>2, <1>4, <1>5 DEF PreviewsRight, Single

\* Toggling a preview closes the others before it opens.
LEMMA ToggleSingle ==
  ASSUME cards \in Seq(Tickets), UNCHANGED cards,
         NEW u \in [Tickets -> Nat], Single(u, extra), NEW t, Toggle(t, u)
  PROVE  PreviewsRight'
<1>0. OnPage \subseteq Tickets
  BY PageOfTickets
<1>1. CASE Left(Folded(u, {t}), {})
  <2>1. Folded(u, {t}) \in [Tickets -> Nat] /\ Single(Folded(u, {t}), extra \cup {})
    BY FoldedIs, FoldedSingle
  <2> QED
    BY <1>1, <2>1, LeftSingle
<1>2. CASE Left([Folded(u, OnPage) EXCEPT ![t] = 1], {})
  <2> DEFINE w == [Folded(u, OnPage) EXCEPT ![t] = 1]
  <2>1. Folded(u, OnPage) \in [Tickets -> Nat]
    BY FoldedIs
  <2>2. w \in [Tickets -> Nat]
    BY <2>1
  <2>3. ASSUME NEW v \in OnPage \ extra PROVE w[v] = IF v = t THEN 1 ELSE 0
    <3>1. u[v] \in Nat /\ u[v] <= 1
      BY <1>0, <2>3 DEF Single
    <3>2. Folded(u, OnPage)[v] = 0
      BY <1>0, <2>3, <3>1, FoldedIs
    <3> QED
      BY <1>0, <2>1, <2>3, <3>2
  <2>4. Single(w, extra \cup {})
    BY <2>3 DEF Single
  <2> QED
    BY <1>2, <2>2, <2>4, LeftSingle
<1> QED
  BY <1>1, <1>2 DEF Toggle

LEMMA KeySingle ==
  ASSUME PreviewsRight, BoardKeys
  PROVE  PreviewsRight'
<1>0. cards \in Seq(Tickets) /\ under \in [Tickets -> Nat] /\ Single(under, extra)
  BY DEF PreviewsRight
<1>1. ASSUME UNCHANGED <<cards, under, extra>> PROVE PreviewsRight'
  BY <1>0, <1>1 DEF PreviewsRight, Single, OnPage
<1>2. ASSUME UNCHANGED cards, NEW S, NEW u, u = Folded(under, S),
             Left(u, {}) \/ \E t : Toggle(t, u)
      PROVE  PreviewsRight'
  <2>1. u \in [Tickets -> Nat] /\ Single(u, extra) /\ extra \cup {} = extra
    BY <1>0, <1>2, FoldedIs, FoldedSingle
  <2> QED
    BY <1>0, <1>2, <2>1, LeftSingle, ToggleSingle
<1>3. CASE Space
  BY <1>0, <1>3, ToggleSingle DEF Space, OnlyFocus
<1>4. CASE Step
  <2>1. UNCHANGED cards
    BY <1>4 DEF Step, OnlyFocus
  <2>2. \/ UNCHANGED <<under, extra>>
        \/ Left(Folded(under, {Context}), {})
        \/ \E t : Toggle(t, Folded(under, {Context}))
    BY <1>4 DEF Step
  <2> QED
    BY <1>1, <1>2, <2>1, <2>2
<1>5. ASSUME NEW t \in Tickets, Click(t)
      PROVE  PreviewsRight'
  <2>1. UNCHANGED cards
    BY <1>5 DEF Click, OnlyFocus
  <2>2. \/ Toggle(t, under)
        \/ Left(Folded(under, OnPage \ {t}), {})
        \/ Toggle(t, Folded(under, OnPage \ {t}))
    BY <1>5 DEF Click
  <2> QED
    BY <1>0, <1>2, <2>1, <2>2, ToggleSingle
<1>6. CASE Escape
  <2>1. UNCHANGED cards
    BY <1>6 DEF Escape, OnlyFocus
  <2>2. Left(under, {}) \/ Left(Folded(under, {Context}), {})
    BY <1>6 DEF Escape
  <2>3. extra \cup {} = extra
    OBVIOUS
  <2> QED
    BY <1>0, <1>2, <2>1, <2>2, <2>3, LeftSingle
<1>7. ASSUME NEW t \in Tickets, Change(t)
      PROVE  PreviewsRight'
  BY <1>1, <1>7 DEF Change, board
<1> QED
  BY <1>3, <1>4, <1>5, <1>6, <1>7 DEF BoardKeys

LEMMA AnswerSingle ==
  ASSUME PreviewsRight, BoardAnswers \/ NewCard
  PROVE  PreviewsRight'
<1>0. /\ cards \in Seq(Tickets) /\ under \in [Tickets -> Nat] /\ Single(under, extra)
      /\ OnPage \subseteq Tickets
  BY PageOfTickets DEF PreviewsRight
<1>1. ASSUME UNCHANGED <<cards, under, extra>> PROVE PreviewsRight'
  BY <1>0, <1>1 DEF PreviewsRight, Single, OnPage
<1>2. ASSUME NEW c, Removed(c)
      PROVE  PreviewsRight'
  <2>1. cards' \in Seq(Tickets) /\ OnPage' \subseteq OnPage
    BY <1>0, <1>2, WithoutShrinks DEF Removed
  <2>2. under' = [under EXCEPT ![c.t] = 0] /\ extra' = {t \in extra : under'[t] > 0}
    BY <1>2 DEF Removed, Left
  <2>3. under' \in [Tickets -> Nat]
    BY <1>0, <2>2
  <2>4. ASSUME NEW t \in OnPage' \ extra' PROVE under'[t] = 0 \/ (t \notin extra /\ under'[t] = under[t])
    BY <1>0, <2>1, <2>2, <2>3, <2>4
  <2>5. \A t, v \in OnPage' \ extra' : under'[t] > 0 /\ under'[v] > 0 => t = v
    <3> SUFFICES ASSUME NEW t \in OnPage' \ extra', NEW v \in OnPage' \ extra',
                        under'[t] > 0, under'[v] > 0
                 PROVE  t = v
      OBVIOUS
    <3>1. /\ t \in OnPage \ extra /\ under[t] > 0
          /\ v \in OnPage \ extra /\ under[v] > 0
      BY <2>1, <2>4
    <3> QED
      BY <1>0, <3>1 DEF Single
  <2>6. \A t \in OnPage' \ extra' : under'[t] <= 1
    BY <1>0, <2>1, <2>4 DEF Single
  <2> QED
    BY <2>1, <2>3, <2>5, <2>6 DEF PreviewsRight, Single
<1>3. ASSUME NEW c, Refusal(c)
      PROVE  PreviewsRight'
  <2>1. /\ Folded(under, {c.t}) \in [Tickets -> Nat] /\ Single(Folded(under, {c.t}), extra \cup {})
        /\ Left(Folded(under, {c.t}), {}) /\ UNCHANGED cards
    BY <1>0, <1>3, FoldedIs, FoldedSingle DEF Refusal, board
  <2> QED
    BY <1>0, <2>1, LeftSingle
<1>4. ASSUME NEW c, Dropped(c)
      PROVE  PreviewsRight'
  BY <1>1, <1>4 DEF Dropped, board
<1>5. ASSUME NEW a, PreviewArrives(a)
      PROVE  PreviewsRight'
  <2>1. CASE Left([under EXCEPT ![a.t] = 1], {a.t})
    <3>1. [under EXCEPT ![a.t] = 1] \in [Tickets -> Nat]
      BY <1>0
    <3>2. Single([under EXCEPT ![a.t] = 1], extra \cup {a.t})
      BY <1>0 DEF Single
    <3> QED
      BY <1>0, <1>5, <2>1, <3>1, <3>2, LeftSingle DEF PreviewArrives, board
  <2> QED
    BY <1>1, <1>5, <2>1 DEF PreviewArrives, board
<1>6. ASSUME NEW a, PreviewFails(a)
      PROVE  PreviewsRight'
  BY <1>1, <1>6 DEF PreviewFails, board
<1>7. ASSUME NEW c, Swapped(c)
      PROVE  PreviewsRight'
  <2> DEFINE own  == IF under[c.t] > 0 \/ c.t \in stash THEN 1 ELSE 0
             back == {t \in stash \cap OnPage : t # c.t \/ under[t] = 0}
             u == [t \in Tickets |-> CASE t = c.t -> own [] t # c.t /\ t \in back -> under[t] + 1
                                       [] OTHER -> under[t]]
  <2>1. Left(u, back) /\ UNCHANGED cards /\ c.t \in OnPage
    BY <1>7 DEF Swapped, board, Current
  <2>2. \A t \in Tickets : /\ t = c.t => u[t] = own
                           /\ t # c.t /\ t \in back => u[t] = under[t] + 1
                           /\ t # c.t /\ t \notin back => u[t] = under[t]
    OBVIOUS
  <2>3. u \in [Tickets -> Nat]
    BY <1>0
  <2>4. ASSUME NEW t \in OnPage \ (extra \cup back)
        PROVE  u[t] \in {0, 1} /\ (u[t] > 0 => under[t] > 0) /\ t \notin extra
    <3>1. under[t] \in {0, 1}
      BY <1>0, <2>4 DEF Single
    <3> QED
      BY <1>0, <2>1, <2>2, <2>4, <3>1
  <2>5. Single(u, extra \cup back)
    <3> HIDE DEF u, back
    <3> QED
      BY <1>0, <2>4 DEF Single
  <2> HIDE DEF u, back
  <2> QED
    BY <1>0, <2>1, <2>3, <2>5, LeftSingle
<1> QED
  BY <1>2, <1>3, <1>4, <1>5, <1>6, <1>7 DEF BoardAnswers, NewCard

LEMMA NextSingle == PreviewsRight /\ [Next]_vars => PreviewsRight'
<1> SUFFICES ASSUME PreviewsRight, [Next]_vars PROVE PreviewsRight'
  OBVIOUS
<1>1. CASE UNCHANGED <<cards, under, extra>>
  BY <1>1 DEF PreviewsRight, Single, OnPage
<1>2. CASE OnBoard
  BY <1>2, KeySingle, AnswerSingle DEF OnBoard
<1>3. OnPalette => UNCHANGED <<cards, under, extra>>
  BY DEF OnPalette, Command, board, previews
<1>4. UNCHANGED vars => UNCHANGED <<cards, under, extra>>
  BY DEF vars, board, previews
<1>5. UNCHANGED <<board, previews>> => UNCHANGED <<cards, under, extra>>
  BY DEF board, previews
<1> QED
  BY <1>1, <1>2, <1>3, <1>4, <1>5 DEF Next

LEMMA StartPreviews == Init => PreviewsRight
<1> SUFFICES ASSUME Init PROVE PreviewsRight
  OBVIOUS
<1>1. cards \in Seq(Tickets)
  BY BrowserAssumption DEF Init, CardsInit
<1>2. under = [t \in Tickets |-> 0]
  BY DEF Init, PreviewsInit
<1> QED
  BY <1>1, <1>2, PageOfTickets DEF PreviewsRight, Single

(* script.js:266: "Close any other open previews first (only one at a     *)
(* time)". On a board of any tickets, however the focus moves, previews   *)
(* are opened and closed and cards are replaced, refused or go while      *)
(* previews load, at most one preview is open that did not come by itself *)
(* (from a late answer, or from the stash after an error).                *)
THEOREM OnePreview == Spec => []OneUnlessLate
<1>1. PreviewsRight => OneUnlessLate
  <2> SUFFICES ASSUME PreviewsRight PROVE OneUnlessLate
    OBVIOUS
  <2> DEFINE S == Unfolded \ extra
  <2>1. \A t, u \in S : t = u
    BY DEF PreviewsRight, Single, Unfolded
  <2>2. S = {} \/ \E t : S = {t}
    BY <2>1
  <2>3. Cardinality(S) \in {0, 1}
    BY <2>2, FS_EmptySet, FS_Singleton
  <2> QED
    BY <2>3 DEF OneUnlessLate
<1> QED
  BY <1>1, StartPreviews, NextSingle, PTL DEF Spec

----------------------------------------------------------------------------
(* The draft of a note.                                                    *)

Fates == {"none", "done", "failed"}
\* While a page waits for the answer to a note that was added, the last text is a note,
\* unless it was typed since or another was sent.
DraftRight ==
  /\ tabs \in [Tabs -> [text : Nat, note : Fates, handover : Fates]]
  /\ last \in Nat /\ passed \in BOOLEAN
  /\ \A p \in Tabs : tabs[p].note = "done" \/ tabs[p].handover = "done" =>
        last = 0 \/ passed \/ last \in notes
  /\ store \in Nat
  /\ DraftKept

LEMMA NextDraft == DraftRight /\ [Next]_vars => DraftRight'
<1> SUFFICES ASSUME DraftRight, [Next]_vars PROVE DraftRight'
  OBVIOUS
<1> DEFINE Tab == [text : Nat, note : Fates, handover : Fates]
<1>0. /\ tabs \in [Tabs -> Tab] /\ last \in Nat /\ passed \in BOOLEAN /\ store \in Nat
      /\ \A p \in Tabs : tabs[p] \in Tab
  BY DEF DraftRight
<1>1. CASE UNCHANGED draft
  BY <1>1 DEF DraftRight, DraftKept, draft
<1>2. ASSUME NEW p \in Tabs, Load(p)
      PROVE  DraftRight'
  <2>1. Page(store) \in Tab
    BY <1>0 DEF Page, Fates
  <2>2. tabs' \in [Tabs -> Tab] /\ \A q \in Tabs : tabs'[q] = IF q = p THEN Page(store) ELSE tabs[q]
    BY <1>0, <1>2, <2>1 DEF Load
  <2> QED
    BY <1>2, <2>2 DEF Load, DraftRight, DraftKept, Page
<1>3. ASSUME NEW p \in Tabs, TypeNote(p)
      PROVE  DraftRight'
  <2>1. tabs' \in [Tabs -> Tab]
    BY <1>0, <1>3 DEF TypeNote
  <2>2. \A q \in Tabs : tabs'[q].note = tabs[q].note /\ tabs'[q].handover = tabs[q].handover
    BY <1>0, <1>3 DEF TypeNote
  <2>3. \A q \in Tabs : tabs'[q].note = "done" \/ tabs'[q].handover = "done" => passed'
    BY <1>3, <2>2 DEF TypeNote, Waits
  <2>4. last' \in Nat /\ store' = last' /\ passed' \in BOOLEAN
    BY <1>0, <1>3 DEF TypeNote
  <2> QED
    BY <2>1, <2>3, <2>4 DEF DraftRight, DraftKept
<1>4. ASSUME NEW p \in Tabs, NEW what \in Outcomes(p), Posts(p, what),
             \/ tabs' = [tabs EXCEPT ![p].note = what]
             \/ tabs' = [tabs EXCEPT ![p].handover = what]
      PROVE  DraftRight'
  <2>1. what \in Fates
    BY DEF Outcomes, Fates
  <2>2. tabs' \in [Tabs -> Tab]
    BY <1>0, <1>4, <2>1
  <2>3. \A q \in Tabs : tabs'[q].note = "done" \/ tabs'[q].handover = "done" =>
           \/ tabs[q].note = "done" \/ tabs[q].handover = "done"
           \/ q = p /\ what = "done"
    BY <1>0, <1>4
  <2>4. what = "done" => last' = last /\ (passed' \/ last \in notes')
    BY <1>4 DEF Posts
  <2>5. last' = last /\ store' = store /\ notes \subseteq notes' /\ (passed => passed') /\ passed' \in BOOLEAN
    BY <1>0, <1>4 DEF Posts
  <2> QED
    BY <1>0, <2>2, <2>3, <2>4, <2>5 DEF DraftRight, DraftKept
<1>5. ASSUME NEW p \in Tabs, NoteAdded(p) \/ NoteHandedOver(p)
      PROVE  DraftRight'
  <2>1. tabs[p].note = "done" \/ tabs[p].handover = "done"
    BY <1>5 DEF NoteAdded, NoteHandedOver
  <2>2. last = 0 \/ passed \/ last \in notes
    BY <2>1 DEF DraftRight
  <2>3. tabs' \in [Tabs -> Tab]
    BY <1>0, <1>5 DEF NoteAdded, NoteHandedOver, Page, Fates
  <2>4. UNCHANGED <<last, passed, notes>> /\ store' = 0
    BY <1>5 DEF NoteAdded, NoteHandedOver, Answer
  <2> QED
    BY <1>0, <2>2, <2>3, <2>4 DEF DraftRight, DraftKept
<1>6. ASSUME NEW p \in Tabs, NoteFails(p)
      PROVE  DraftRight'
  <2>1. tabs' \in [Tabs -> Tab]
    BY <1>0, <1>6 DEF NoteFails, Fates
  <2>2. \A q \in Tabs : tabs'[q].note = "done" \/ tabs'[q].handover = "done" =>
           tabs[q].note = "done" \/ tabs[q].handover = "done"
    BY <1>0, <1>6 DEF NoteFails
  <2>3. UNCHANGED <<last, passed, notes, store>>
    BY <1>6 DEF NoteFails, Answer
  <2> QED
    BY <1>0, <2>1, <2>2, <2>3 DEF DraftRight, DraftKept
<1>7. CASE NoteDraftStep
  BY <1>2, <1>3, <1>4, <1>5, <1>6, <1>7 DEF NoteDraftStep, SendNote, SendHandover
<1> QED
  BY <1>1, <1>7 DEF Next, vars

(* For any number of tabs and requests, the last text typed in the note   *)
(* form is in the store of the browser, or the ticket has it as a note,   *)
(* whatever becomes of the requests and whichever pages are loaded again; *)
(* unless it was typed while a page waited or another text was sent since *)
(* (ticket.html:124-151).                                                 *)
THEOREM Drafts == Spec => []DraftKept
<1>1. Init => DraftRight
  <2> SUFFICES ASSUME Init PROVE DraftRight
    OBVIOUS
  <2>1. store = 0 /\ last = 0 /\ passed = FALSE /\ tabs = [p \in Tabs |-> Page(0)]
    BY DEF Init, NoteDraftInit
  <2> QED
    BY <2>1 DEF DraftRight, DraftKept, Page, Fates
<1>2. DraftRight => DraftKept
  BY DEF DraftRight
<1> QED
  BY <1>1, <1>2, NextDraft, PTL DEF Spec

----------------------------------------------------------------------------
(* The command palette and the dialog.                                     *)

Lists == [t : Tickets \cup {None}, words : Words \cup {"none"}, hand : BOOLEAN]
PaletteTyped ==
  /\ palette \in [open : BOOLEAN, words : Words, frame : BOOLEAN]
  /\ listed \in Lists /\ \A l \in lookups : l.list \in Lists
  /\ dialog \in [n : Nat, t : Tickets \cup {None}, note : BOOLEAN, sending : BOOLEAN]
  /\ opened \in Nat
  /\ seen \in [overlap : BOOLEAN, moved : BOOLEAN, left : BOOLEAN]

\* What list should be in the palette, as far as the board did not change.
Fits(list) == list.words = palette.words /\ (~ seen.moved => list = Commands(palette.words))
\* Of lists made one at a time, the one still being made, else the one there is, is current
\* in an open palette that no input waits to reach.
ListRight ==
  ~ seen.overlap =>
    /\ \A l, m \in lookups : l = m
    /\ palette.open /\ ~ palette.frame =>
         /\ lookups = {} => Fits(listed)
         /\ \A l \in lookups : Fits(l.list)
\* As long as no dialog was closed while sending, there is at most one handover under way,
\* that of the dialog there is.
SentRight ==
  ~ seen.left =>
    /\ \A h \in sent : h.n = dialog.n /\ dialog.sending
    /\ \A h, k \in sent : h = k

PaletteRight == cards \in Seq(Tickets) /\ PaletteTyped /\ ListRight /\ SentRight

LEMMA CommandsTyped ==
  ASSUME cards \in Seq(Tickets), NEW w \in Words
  PROVE  Commands(w) \in Lists
<1>1. Context \in Tickets \cup {None}
  BY ElementOfSeq DEF Context, Places
<1> QED
  BY <1>1 DEF Commands, Lists

\* Asking for a list.
LEMMA Resolving ==
  ASSUME PaletteRight, UNCHANGED <<board, mine, handover>>, NEW w \in Words,
         palette' \in [open : BOOLEAN, words : Words, frame : BOOLEAN],
         palette'.words = w, Resolve(w)
  PROVE  PaletteRight'
<1>0. PaletteTyped /\ cards \in Seq(Tickets)
  BY DEF PaletteRight
<1>1. /\ seen' \in [overlap : BOOLEAN, moved : BOOLEAN, left : BOOLEAN]
      /\ seen'.left = seen.left /\ seen'.overlap = (lookups # {})
  BY <1>0 DEF Resolve, Asked, PaletteTyped
<1>2. Context' = Context /\ Commands(w)' = Commands(w) /\ cards' = cards
  BY DEF board, Context, Places, Commands
<1>3. Commands(w) \in Lists
  BY <1>0, CommandsTyped
<1>4. \/ listed' = Commands(w) /\ lookups' = lookups
      \/ /\ listed' = listed
         /\ \E k : lookups' = lookups \cup {[n |-> k, list |-> Commands(w)]}
  BY DEF Resolve
<1>5. listed' \in Lists /\ \A l \in lookups' : l.list \in Lists
  BY <1>0, <1>3, <1>4 DEF PaletteTyped
<1>6. PaletteTyped'
  BY <1>0, <1>1, <1>5 DEF PaletteTyped, handover
<1>7. Commands(w).words = w
  BY DEF Commands
<1>8. lookups = {} => ListRight'
  <2>1. ASSUME NEW list, list = Commands(w)
        PROVE  Fits(list)'
    BY <1>2, <1>7, <2>1 DEF Fits
  <2>2. CASE listed' = Commands(w) /\ lookups' = lookups
    BY <2>1, <2>2 DEF ListRight
  <2>3. ASSUME NEW k, lookups' = lookups \cup {[n |-> k, list |-> Commands(w)]}
        PROVE  lookups = {} => ListRight'
    <3> SUFFICES ASSUME lookups = {} PROVE ListRight'
      OBVIOUS
    <3>1. \A l \in lookups' : l = [n |-> k, list |-> Commands(w)]
      BY <2>3
    <3>2. \A l \in lookups' : Fits(l.list)'
      BY <2>1, <3>1
    <3> QED
      BY <2>3, <3>1, <3>2 DEF ListRight
  <2> QED
    BY <1>4, <2>2, <2>3
<1>9. SentRight'
  BY <1>1 DEF PaletteRight, SentRight, handover
<1> QED
  BY <1>0, <1>1, <1>2, <1>6, <1>8, <1>9 DEF PaletteRight, ListRight

\* A board that changes under the palette says so.
LEMMA BoardStep ==
  ASSUME PaletteRight, OnBoard, cards' \in Seq(Tickets)
  PROVE  PaletteRight'
<1>0. UNCHANGED <<palette, listed, lookups, dialog, sent, opened>>
  BY DEF OnBoard, lists, handover
<1>1. /\ seen' \in [overlap : BOOLEAN, moved : BOOLEAN, left : BOOLEAN]
      /\ seen'.left = seen.left /\ seen'.overlap = seen.overlap
      /\ ~ seen'.moved => ~ seen.moved /\ Context' = Context /\ mine' = mine
  BY DEF OnBoard, Watch, PaletteRight, PaletteTyped
<1>2. PaletteTyped' /\ SentRight'
  BY <1>0, <1>1 DEF PaletteRight, PaletteTyped, SentRight
<1>3. ASSUME NEW list, Fits(list)
      PROVE  Fits(list)'
  BY <1>0, <1>1, <1>3 DEF Fits, Commands
<1>4. ListRight'
  BY <1>0, <1>1, <1>3 DEF PaletteRight, ListRight
<1> QED
  BY <1>2, <1>4 DEF PaletteRight

\* What the palette does without asking for a list.
LEMMA PaletteStep ==
  ASSUME PaletteRight, UNCHANGED board,
         \/ OpenPalette \/ ClosePalette \/ (\E w \in Words : Type(w)) \/ Frame
         \/ (\E l \in lookups : ChoicesCome(l)) \/ RunCommand
  PROVE  PaletteRight'
<1>0. PaletteTyped /\ ListRight /\ SentRight /\ cards' \in Seq(Tickets) /\ Context' = Context /\ cards' = cards
  BY DEF PaletteRight, board, Context, Places
<1> DEFINE Palettes == [open : BOOLEAN, words : Words, frame : BOOLEAN]
<1>1. CASE OpenPalette
  <2>1. palette' \in Palettes /\ palette'.words = "" /\ "" \in Words
    BY <1>0, <1>1, BrowserAssumption DEF OpenPalette, PaletteTyped
  <2> QED
    BY <1>1, <2>1, Resolving DEF OpenPalette
<1>2. CASE Frame
  <2>1. palette' \in Palettes /\ palette'.words = palette.words /\ palette.words \in Words
    BY <1>0, <1>2 DEF Frame, PaletteTyped
  <2> QED
    BY <1>2, <2>1, Resolving DEF Frame
<1>3. ASSUME palette' \in Palettes, ~ palette'.open \/ palette'.frame,
             UNCHANGED <<lists, mine, handover, seen>>
      PROVE  PaletteRight'
  BY <1>0, <1>3 DEF PaletteRight, PaletteTyped, ListRight, SentRight, lists, handover
<1>4. CASE ClosePalette \/ RunCommand
  <2>1. palette' \in Palettes /\ ~ palette'.open
    BY <1>0, <1>4 DEF ClosePalette, RunCommand, Close, PaletteTyped
  <2> QED
    BY <1>3, <1>4, <2>1 DEF ClosePalette, RunCommand
<1>5. ASSUME NEW w \in Words, Type(w)
      PROVE  PaletteRight'
  <2>1. palette' \in Palettes /\ palette'.frame
    BY <1>0, <1>5 DEF Type, PaletteTyped
  <2> QED
    BY <1>3, <1>5, <2>1 DEF Type
<1>6. ASSUME NEW l \in lookups, ChoicesCome(l)
      PROVE  PaletteRight'
  <2>1. UNCHANGED <<palette, mine, dialog, sent, opened, seen>> /\ lookups' = lookups \ {l} /\ listed' = l.list
    BY <1>6 DEF ChoicesCome, handover
  <2>2. PaletteTyped' /\ SentRight'
    BY <1>0, <2>1 DEF PaletteTyped, SentRight
  <2>3. ASSUME NEW list, Fits(list)
        PROVE  Fits(list)'
    BY <1>0, <2>1, <2>3 DEF Fits, Commands
  <2>4. ListRight'
    BY <1>0, <2>1, <2>3 DEF ListRight
  <2> QED
    BY <1>0, <2>2, <2>4 DEF PaletteRight
<1> QED
  BY <1>1, <1>2, <1>4, <1>5, <1>6

\* The dialog opens, is written in, closed, sent and answered.
LEMMA DialogSteps ==
  ASSUME PaletteRight, UNCHANGED board,
         RunHandover \/ Write \/ Dismiss \/ Submit \/ \E h \in sent : HandedOver(h) \/ Refused(h)
  PROVE  PaletteRight'
<1>0. PaletteTyped /\ ListRight /\ SentRight /\ cards' \in Seq(Tickets) /\ Context' = Context
  BY DEF PaletteRight, board, Context, Places
<1> DEFINE Palettes == [open : BOOLEAN, words : Words, frame : BOOLEAN]
           Dialogs  == [n : Nat, t : Tickets \cup {None}, note : BOOLEAN, sending : BOOLEAN]
           Seens    == [overlap : BOOLEAN, moved : BOOLEAN, left : BOOLEAN]
<1>1. ASSUME palette' \in Palettes, UNCHANGED lists, dialog' \in Dialogs, opened' \in Nat, seen' \in Seens,
             seen'.overlap = seen.overlap,
             \/ ~ palette'.open
             \/ /\ palette' = palette
                /\ ~ seen'.moved => ~ seen.moved /\ mine' = mine,
             SentRight'
      PROVE  PaletteRight'
  <2>1. PaletteTyped'
    BY <1>0, <1>1 DEF PaletteTyped, lists
  <2>2. CASE ~ palette'.open
    BY <1>0, <1>1, <2>1, <2>2 DEF PaletteRight, ListRight, lists
  <2>3. CASE palette' = palette /\ (~ seen'.moved => ~ seen.moved /\ mine' = mine)
    <3>1. ASSUME NEW list, Fits(list)
          PROVE  Fits(list)'
      BY <1>0, <2>3, <3>1 DEF Fits, Commands
    <3> QED
      BY <1>0, <1>1, <2>1, <2>3, <3>1 DEF PaletteRight, ListRight, lists
  <2> QED
    BY <1>1, <2>2, <2>3
<1>2. Closed \in Dialogs /\ Closed.sending = FALSE
  BY DEF Closed
<1>3. CASE RunHandover
  <2>1. palette' \in Palettes /\ ~ palette'.open /\ UNCHANGED lists
    BY <1>0, <1>3 DEF RunHandover, Close, PaletteTyped
  <2>2. dialog' \in Dialogs /\ opened' \in Nat
    BY <1>0, <1>3 DEF RunHandover, PaletteTyped, Lists
  <2>3. seen' \in Seens /\ seen'.overlap = seen.overlap /\ (~ seen'.left => ~ seen.left /\ ~ dialog.sending)
    BY <1>0, <1>3 DEF RunHandover, Leaves, PaletteTyped
  <2>4. SentRight'
    BY <1>0, <1>3, <2>3 DEF RunHandover, SentRight
  <2> QED
    BY <1>1, <2>1, <2>2, <2>3, <2>4
<1>4. CASE Write
  <2>1. UNCHANGED <<palette, lists, opened, seen, mine, sent>> /\ ~ dialog.sending
    BY <1>4 DEF Write, DialogStep
  <2>2. dialog' \in Dialogs
    BY <1>0, <1>4 DEF Write, PaletteTyped
  <2>3. SentRight'
    BY <1>0, <2>1 DEF SentRight
  <2> QED
    BY <1>0, <1>1, <2>1, <2>2, <2>3 DEF PaletteTyped
<1>5. CASE Dismiss
  <2>1. UNCHANGED <<palette, lists, opened, mine, sent>> /\ dialog' = Closed
    BY <1>5 DEF Dismiss, DialogStep
  <2>2. /\ seen' \in Seens /\ seen'.overlap = seen.overlap /\ seen'.moved = seen.moved
        /\ ~ seen'.left => ~ seen.left /\ ~ dialog.sending
    BY <1>0, <1>5 DEF Dismiss, Leaves, PaletteTyped
  <2>3. SentRight'
    BY <1>0, <2>1, <2>2 DEF SentRight
  <2> QED
    BY <1>0, <1>1, <1>2, <2>1, <2>2, <2>3 DEF PaletteTyped
<1>6. CASE Submit
  <2>1. UNCHANGED <<palette, lists, opened, seen, mine>> /\ ~ dialog.sending
    BY <1>6 DEF Submit, DialogStep
  <2>2. dialog' \in Dialogs /\ dialog'.n = dialog.n /\ dialog'.sending
    BY <1>0, <1>6 DEF Submit, PaletteTyped
  <2>3. PICK done : sent' = sent \cup {[n |-> dialog.n, t |-> dialog.t, done |-> done]}
    BY <1>6 DEF Submit
  <2>4. SentRight'
    BY <1>0, <2>1, <2>2, <2>3 DEF SentRight
  <2> QED
    BY <1>0, <1>1, <2>1, <2>2, <2>4 DEF PaletteTyped
<1>7. ASSUME NEW h \in sent, HandedOver(h)
      PROVE  PaletteRight'
  <2>1. UNCHANGED <<palette, lists, opened>> /\ sent' = sent \ {h} /\ dialog' = Closed
    BY <1>7 DEF HandedOver, Answered, DialogStep
  <2>2. seen' \in Seens /\ seen'.overlap = seen.overlap /\ seen'.left = seen.left /\ seen'.moved
    BY <1>0, <1>7 DEF HandedOver, PaletteTyped
  <2>3. SentRight'
    BY <1>0, <2>1, <2>2 DEF SentRight
  <2> QED
    BY <1>0, <1>1, <1>2, <2>1, <2>2, <2>3 DEF PaletteTyped
<1>8. ASSUME NEW h \in sent, Refused(h)
      PROVE  PaletteRight'
  <2>1. UNCHANGED <<palette, lists, opened, mine, seen>> /\ sent' = sent \ {h}
    BY <1>8 DEF Refused, Answered, DialogStep
  <2>2. dialog' \in Dialogs
    BY <1>0, <1>8 DEF Refused, PaletteTyped
  <2>3. SentRight'
    BY <1>0, <2>1 DEF SentRight
  <2> QED
    BY <1>0, <1>1, <2>1, <2>2, <2>3 DEF PaletteTyped
<1> QED
  BY <1>3, <1>4, <1>5, <1>6, <1>7, <1>8

LEMMA NextPalette == PreviewsRight /\ PaletteRight /\ [Next]_vars => PaletteRight'
<1> SUFFICES ASSUME PreviewsRight, PaletteRight, [Next]_vars PROVE PaletteRight'
  OBVIOUS
<1>1. CASE UNCHANGED <<board, palette, lists, mine, handover, seen>>
  BY <1>1 DEF PaletteRight, PaletteTyped, ListRight, SentRight, Fits, Commands, Context, Places,
              board, lists, handover
<1>2. CASE OnBoard
  <2>1. cards' \in Seq(Tickets)
    BY NextSingle DEF PreviewsRight
  <2> QED
    BY <1>2, <2>1, BoardStep
<1>3. CASE OnPalette
  BY <1>3, PaletteStep, DialogSteps DEF OnPalette, InPalette, Command
<1> QED
  BY <1>1, <1>2, <1>3 DEF Next, vars

LEMMA StartPalette == Init => PreviewsRight /\ PaletteRight
<1> SUFFICES ASSUME Init PROVE PreviewsRight /\ PaletteRight
  OBVIOUS
<1>1. PreviewsRight
  BY StartPreviews
<1>2. cards \in Seq(Tickets) /\ "" \in Words
  BY <1>1, BrowserAssumption DEF PreviewsRight
<1>3. /\ palette = [open |-> FALSE, words |-> "", frame |-> FALSE]
      /\ listed = Nothing /\ lookups = {} /\ dialog = Closed /\ sent = {} /\ opened = 0
      /\ seen = [overlap |-> FALSE, moved |-> FALSE, left |-> FALSE]
  BY DEF Init, PaletteInit
<1>4. PaletteTyped
  BY <1>2, <1>3 DEF PaletteTyped, Lists, Nothing, Closed
<1>5. ListRight /\ SentRight
  BY <1>3 DEF ListRight, SentRight
<1> QED
  BY <1>1, <1>2, <1>4, <1>5 DEF PaletteRight

(* For any board, words and requests: once every answer has come, what     *)
(* Enter runs in the open palette is for the words typed and the focused   *)
(* ticket, unless two lists were being made at once, or the board changed  *)
(* under the open palette (script.js:999-1022).                            *)
THEOREM Listing == Spec => []ListIsCurrent
<1>1. PaletteRight => ListIsCurrent
  BY DEF PaletteRight, ListRight, ListIsCurrent, Fits
<1> QED
  BY <1>1, StartPalette, NextSingle, NextPalette, PTL DEF Spec

(* For any number of dialogs and handovers: an answer that takes away a    *)
(* note in the dialog is the answer to this dialog's handover, which the   *)
(* server has done, unless an earlier dialog was closed while it was being *)
(* sent (script.js:855-898).                                               *)
THEOREM NotesKept == Spec => NoteKept
<1>1. PaletteRight /\ [Next]_vars =>
        [\A h \in sent \ sent' :
           dialog.note /\ dialog' = Closed /\ ~ seen.left => h.done /\ h.n = dialog.n]_<<dialog, sent, seen>>
  <2> SUFFICES ASSUME PaletteRight, [Next]_vars, NEW h \in sent \ sent',
                      dialog.note, dialog' = Closed, ~ seen.left
               PROVE  h.done /\ h.n = dialog.n
    OBVIOUS
  <2>1. PICK k \in sent : HandedOver(k) \/ Refused(k)
    <3>1. ~ UNCHANGED sent
      OBVIOUS
    <3>2. ~ OnBoard /\ ~ UNCHANGED vars /\ ~ UNCHANGED handover
      BY <3>1 DEF OnBoard, handover, vars
    <3>3. OnPalette
      BY <3>2 DEF Next
    <3>4. ~ Command /\ InPalette
      BY <3>2, <3>3 DEF OnPalette, Command, RunCommand
    <3>5. ~ OpenPalette /\ ~ ClosePalette /\ ~ Frame /\ (\A w \in Words : ~ Type(w)) /\ \A l \in lookups : ~ ChoicesCome(l)
      BY <3>2 DEF OpenPalette, ClosePalette, Frame, Type, ChoicesCome
    <3>6. ~ RunHandover /\ ~ Write /\ ~ Dismiss
      BY <3>1 DEF RunHandover, Write, Dismiss
    <3>7. ~ Submit
      BY DEF Submit
    <3> QED
      BY <3>4, <3>5, <3>6, <3>7 DEF InPalette
  <2>2. k = h /\ h.n = dialog.n
    BY <2>1 DEF PaletteRight, SentRight
  <2>3. ~ Refused(k)
    BY <2>1 DEF Refused, Closed, PaletteRight, PaletteTyped
  <2> QED
    BY <2>1, <2>2, <2>3 DEF HandedOver
<1> QED
  BY <1>1, StartPalette, NextSingle, NextPalette, PTL DEF Spec, NoteKept
=============================================================================
