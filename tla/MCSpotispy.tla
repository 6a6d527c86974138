----------------------------- MODULE MCSpotispy -----------------------------
(* Spotispy for TLC.  What goes wrong between the worker and the notifier  *)
(* needs nothing of the GUI thread, so it is looked for where that thread  *)
(* waits and the mixer has nothing to say.                                 *)
EXTENDS Spotispy

AnyHeap == BOOLEAN

GuiWaits == pc = "idle" /\ ~session /\ ~muted /\ upset = "nothing"
=============================================================================
