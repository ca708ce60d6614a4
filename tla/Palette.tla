------------------------------- MODULE Palette -------------------------------
(* The command palette of a board and the dialog it opens for a handover. The *)
(* list of commands is made for the ticket focused and the words typed when   *)
(* its sources are asked; one of them asks the server for the status choices. *)
EXTENDS Cards

CONSTANTS
  Words,       \* what can be typed: "" is the empty input
  Naming,      \* the words found in "handover"
  Mine,        \* the tickets that are ours when the page comes
  MaxDialogs   \* dialogs opened (bound)

VARIABLES
  palette,    \* open; the words in its input; frame: an animation frame has been asked for
  listed,     \* currentResults: for which ticket and words the commands listed were made
  lookups,    \* fetches of the status choices under way
  choices,    \* cachedStatusChoices are there
  dialog,     \* handoverOverlay: number (0: no dialog), ticket, whether there is a note in it, whether it is sent
  sent,       \* handovers under way, the number of the dialog each was sent from, what comes of it
  mine,       \* cards that say the ticket is ours (data-assigned)
  opened,     \* dialogs opened so far
  seen        \* history: overlap, a list was asked for while an older one was being made;
              \* moved, the focus or whose ticket it is has
              \* changed since; left, a dialog was closed while sending

handover == <<dialog, sent, opened>>
lists    == <<listed, lookups, choices>>

Closed  == [n |-> 0, t |-> None, note |-> FALSE, sending |-> FALSE]
Nothing == [t |-> None, words |-> "none", hand |-> FALSE]
PaletteInit ==
  /\ palette = [open |-> FALSE, words |-> "", frame |-> FALSE]
  /\ listed = Nothing /\ lookups = {} /\ choices = FALSE
  /\ dialog = Closed /\ sent = {} /\ mine = Mine /\ opened = 0
  /\ seen = [overlap |-> FALSE, moved |-> FALSE, left |-> FALSE]

----------------------------------------------------------------------------
(* The palette.                                                              *)
Commands(w) == [t |-> Context, words |-> w, hand |-> w \in Naming /\ Context \in mine]
Asked == [seen EXCEPT !.overlap = lookups # {}, !.moved = FALSE]

\* Slip: opening the palette shows what it listed last.
ResolveOnce(w) ==
  /\ UNCHANGED <<lookups, choices>>
  /\ IF listed # Nothing THEN UNCHANGED <<listed, seen>> ELSE listed' = Commands(w) /\ seen' = Asked
\* resolve: the list is there at once if no source has to ask the server.
Resolve(w) ==
  /\ seen' = Asked /\ UNCHANGED choices
  /\ \/ (choices \/ Context = None) /\ listed' = Commands(w) /\ UNCHANGED lookups
     \/ /\ ~ choices /\ Context # None /\ UNCHANGED listed
        /\ Room(lookups) /\ lookups' = lookups \cup {[n |-> Number(lookups), list |-> Commands(w)]}

OpenPalette ==
  /\ "palette" \in uses /\ ~ palette.open
  /\ palette' = [palette EXCEPT !.open = TRUE, !.words = ""] /\ Resolve("")
  /\ UNCHANGED <<mine, handover>>
Close == palette.open /\ palette' = [palette EXCEPT !.open = FALSE]
ClosePalette == Close /\ UNCHANGED <<lists, mine, handover, seen>>

\* scheduleResolve: of several inputs before a frame the last one counts.
Type(w) ==
  /\ palette.open /\ w # palette.words
  /\ palette' = [palette EXCEPT !.words = w, !.frame = TRUE]
  /\ UNCHANGED <<lists, mine, handover, seen>>
Frame ==
  /\ palette.frame /\ palette' = [palette EXCEPT !.frame = FALSE]
  /\ Resolve(palette.words)
  /\ UNCHANGED <<mine, handover>>

\* Whichever answer comes last is listed. An error of the server is remembered as no choices,
\* a failure of the network is not.
ChoicesCome(l) ==
  /\ lookups' = lookups \ {l} /\ listed' = l.list
  /\ choices' \in {choices, TRUE}
  /\ UNCHANGED <<palette, mine, handover, seen>>

----------------------------------------------------------------------------
(* Commands and the dialog.                                                  *)
\* Today, put off, a status: the request is the board's.
RunCommand ==
  /\ listed # Nothing /\ Close
  /\ UNCHANGED <<lists, mine, handover, seen>>

\* showHandoverDialog replaces a dialog that is there.
Leaves == seen' = [seen EXCEPT !.left = @ \/ dialog.sending]
RunHandover ==
  /\ "handover" \in uses /\ listed.hand /\ Close /\ opened < MaxDialogs
  /\ opened' = opened + 1
  /\ dialog' = [n |-> opened', t |-> listed.t, note |-> FALSE, sending |-> FALSE]
  /\ Leaves
  /\ UNCHANGED <<lists, mine, sent>>

DialogStep == UNCHANGED <<palette, lists, opened>>
Write ==
  /\ dialog # Closed /\ ~ dialog.sending
  /\ dialog' = [dialog EXCEPT !.note = ~ @]
  /\ UNCHANGED <<sent, mine, seen>> /\ DialogStep
\* By Cancel or Escape, unless it is being sent, or by a click beside it at any time.
Dismiss ==
  /\ dialog # Closed /\ dialog' = Closed /\ Leaves
  /\ UNCHANGED <<sent, mine>> /\ DialogStep
Submit ==
  /\ dialog.note /\ ~ dialog.sending
  /\ dialog' = [dialog EXCEPT !.sending = TRUE]
  /\ \E done \in BOOLEAN : sent' = sent \cup {[n |-> dialog.n, t |-> dialog.t, done |-> done]}
  /\ UNCHANGED <<mine, seen>> /\ DialogStep

Answered(h) == sent' = sent \ {h} /\ DialogStep
\* closeDialog closes whichever dialog is there.
HandedOver(h) ==
  /\ h.done /\ dialog' = Closed /\ Answered(h)
  /\ mine' = mine \ ({h.t} \cap OnPage)
  /\ seen' = [seen EXCEPT !.moved = TRUE]
\* Slip: an error of the server is not looked at.
RefusedUnseen(h) == dialog' = Closed /\ UNCHANGED <<mine, seen>> /\ Answered(h)
\* The dialog of this handover, if it is still there, can be used again. The network may
\* fail when the server has done it.
Refused(h) ==
  /\ dialog' = IF dialog.n = h.n THEN [dialog EXCEPT !.sending = FALSE] ELSE dialog
  /\ UNCHANGED <<mine, seen>> /\ Answered(h)

----------------------------------------------------------------------------
(* Once every answer has come, what Enter runs in the open palette is for    *)
(* the words in its input and the focused ticket, and a handover is offered  *)
(* only if it is ours, however often the palette was opened and closed on    *)
(* other tickets meanwhile; unless two lists were being made at once, or     *)
(* the board changed under the open palette (script.js:999-1022).            *)
ListIsCurrent ==
  palette.open /\ ~ palette.frame /\ lookups = {} /\ ~ seen.overlap =>
    /\ listed.words = palette.words
    /\ ~ seen.moved => listed = Commands(palette.words)

(* An answer takes away a note that is in the dialog only if it is the       *)
(* answer to this dialog's handover and the server has done it, unless some  *)
(* earlier dialog was closed while it was being sent (script.js:855-898).    *)
NoteKept ==
  [][\A h \in sent \ sent' :
       dialog.note /\ dialog' = Closed /\ ~ seen.left => h.done /\ h.n = dialog.n]_<<dialog, sent, seen>>
=============================================================================
