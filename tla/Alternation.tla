---------------------------- MODULE Alternation ----------------------------
(***************************************************************************)
(* What the refresh cycle promises (SpotifyWebHook.h:40): two workers take *)
(* turns, one refreshes and the other one rests, until they stop.  There   *)
(* are no flags, waits or notifications here, only whose turn it is.       *)
(***************************************************************************)
VARIABLES
  turn,   \* "worker", "notifier" or, in the end, "nobody"
  rested  \* there was a rest since the last refresh

AlternationInit == turn = "worker" /\ rested = TRUE

Refresh == turn = "worker" /\ rested /\ rested' = FALSE /\ UNCHANGED turn
Rest == turn = "notifier" /\ ~rested /\ rested' = TRUE /\ UNCHANGED turn

Pass ==
  /\ \/ turn = "worker" /\ ~rested /\ turn' = "notifier"
     \/ turn = "notifier" /\ rested /\ turn' = "worker"
  /\ UNCHANGED rested

Stop == turn' = "nobody" /\ UNCHANGED rested

AlternationNext == Refresh \/ Rest \/ Pass \/ Stop

AlternationSpec == AlternationInit /\ [][AlternationNext]_<<turn, rested>>
=============================================================================
