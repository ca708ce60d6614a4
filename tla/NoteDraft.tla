------------------------------ MODULE NoteDraft ------------------------------
(* The note form of one ticket in the tabs of a browser: what is typed stays  *)
(* in the browser's store until the ticket has it, so that it comes back when *)
(* the page is loaded again. The tabs share one draft.                        *)
EXTENDS Integers, FiniteSets

CONSTANTS
  Tabs,
  MaxTexts,  \* different texts typed (bound)
  MaxPosts   \* requests sent (bound)

VARIABLES
  store,   \* note-draft of the ticket: the texts are numbered as they are typed, 0 is none
  tabs,    \* the page of each tab: the text in its box, and what comes of the two requests it waits for
  notes,   \* the texts the ticket has as notes
  posted,  \* requests sent so far
  last,    \* history: the last text typed
  passed   \* history: it was typed while a page waited, or another text was sent since

draft == <<store, tabs, notes, posted, last, passed>>

Texts == 0..MaxTexts
Page(text) == [text |-> text, note |-> "none", handover |-> "none"]
Waits(p) == tabs[p].note # "none" \/ tabs[p].handover # "none"

NoteDraftInit ==
  /\ store = 0 /\ notes = {} /\ posted = 0 /\ last = 0 /\ passed = FALSE
  /\ tabs = [p \in Tabs |-> Page(0)]

----------------------------------------------------------------------------
\* A page that is loaded again does not hear the answers it waited for.
Load(p) ==
  /\ tabs' = [tabs EXCEPT ![p] = Page(store)]
  /\ UNCHANGED <<store, notes, posted, last, passed>>

\* The listener for input. The box can be typed in while its text is being sent.
TypeNote(p) ==
  /\ last < MaxTexts /\ last' = last + 1
  /\ tabs' = [tabs EXCEPT ![p].text = last'] /\ store' = last'
  /\ passed' = \E q \in Tabs : Waits(q)
  /\ UNCHANGED <<notes, posted>>

Posts(p, what) ==
  /\ posted < MaxPosts /\ posted' = posted + 1
  /\ notes' = notes \cup (IF what = "done" THEN {tabs[p].text} ELSE {})
  /\ passed' = (passed \/ tabs[p].text # last)
  /\ UNCHANGED <<store, last>>
\* The server does it, or does not: no text, too soon after another note, no Freshdesk.
Outcomes(p) == {"failed"} \cup (IF tabs[p].text # 0 THEN {"done"} ELSE {})

\* Each request disables the buttons it names; only the note requires a text.
SendNote(p) ==
  /\ ~ Waits(p) /\ tabs[p].text # 0
  /\ \E what \in Outcomes(p) : Posts(p, what) /\ tabs' = [tabs EXCEPT ![p].note = what]
SendHandover(p) ==
  /\ tabs[p].handover = "none"
  /\ \E what \in Outcomes(p) : Posts(p, what) /\ tabs' = [tabs EXCEPT ![p].handover = what]

Answer == UNCHANGED <<notes, posted, last, passed>>
\* The draft goes, whatever is in the box by now.
NoteAdded(p) ==
  /\ tabs[p].note = "done" /\ Answer
  /\ store' = 0 /\ tabs' = [tabs EXCEPT ![p].text = 0, ![p].note = "none"]
\* The redirect loads another page.
NoteHandedOver(p) ==
  /\ tabs[p].handover = "done" /\ Answer
  /\ store' = 0 /\ tabs' = [tabs EXCEPT ![p] = Page(0)]
\* Slip: the draft goes with any answer.
NoteFailsCleared(p) ==
  /\ tabs[p].note # "none" /\ Answer
  /\ store' = 0 /\ tabs' = [tabs EXCEPT ![p].text = 0, ![p].note = "none"]
\* An error, or the answer is lost when the server may have done it.
NoteFails(p) ==
  /\ \/ tabs[p].note # "none" /\ tabs' = [tabs EXCEPT ![p].note = "none"]
     \/ tabs[p].handover # "none" /\ tabs' = [tabs EXCEPT ![p].handover = "none"]
  /\ UNCHANGED store /\ Answer

NoteDraftStep ==
  \E p \in Tabs :
    \/ Load(p) \/ TypeNote(p) \/ SendNote(p) \/ SendHandover(p)
    \/ NoteAdded(p) \/ NoteHandedOver(p) \/ NoteFails(p)

----------------------------------------------------------------------------
(* The last text typed is in the store, where the next page finds it, or the  *)
(* ticket has it as a note, whichever of the answers to the two buttons come, *)
(* are lost, or are not heard because the page was loaded again; unless it    *)
(* was typed while a page waited for an answer, or a page sent another text   *)
(* since (ticket.html:124-151).                                               *)
DraftKept == last = 0 \/ passed \/ last \in {store} \cup notes
=============================================================================
