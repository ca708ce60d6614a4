------------------------------ MODULE MCBrowser ------------------------------
(* A small instance of Browser for TLC. *)
EXTENDS Browser

CONSTANTS t1, t2, t3

Scene(c, u) == [cards |-> c, uses |-> u]
SomeScenes ==
  {Scene(<<t1, t2, t3>>, {"previews", "changes"}),
   Scene(<<t1, t2>>, {"palette", "changes"}),
   Scene(<<t1, t2>>, {"palette", "words", "handover"}),
   Scene(<<t1, t2>>, {"palette", "previews"}),
   Scene(<<>>, {"note"})}
=============================================================================
