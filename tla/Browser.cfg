SPECIFICATION Spec
CONSTANTS
  t1 = t1  t2 = t2  t3 = t3
  None = None
  Tickets = {t1, t2, t3}
  Scenes <- SomeScenes
  Slots = {1, 2}
  MaxSwaps = 1
  Words = {"", "s"}
  Naming = {""}
  Mine = {t1, t2}
  MaxDialogs = 2
  Tabs = {a, b}
  MaxTexts = 4
  MaxPosts = 4
INVARIANTS OneUnlessLate ListIsCurrent DraftKept
PROPERTIES NoteKept
CHECK_DEADLOCK FALSE
