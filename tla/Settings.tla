------------------------------ MODULE Settings ------------------------------
(***************************************************************************)
(* What the settings promise from one run of the program to the next       *)
(* (README.md: "save program properties to restore it the previous         *)
(* session"): a run starts with what is stored, and whatever happens the   *)
(* store is never a mixture.  There is no file, no order of saving and no  *)
(* memory here, only what the user has chosen and what the next run finds. *)
(***************************************************************************)
CONSTANTS Keys, Values, Default

VARIABLES
  open,    \* the program runs
  chosen,  \* what the user was shown or has set last, by setting
  stored   \* what he would find if the program started now

settings == <<open, chosen, stored>>

SettingsInit == open = FALSE /\ stored \in [Keys -> Values] /\ chosen = stored

StartRun == ~open /\ open' = TRUE /\ chosen' = stored /\ UNCHANGED stored
EndRun == open /\ open' = FALSE /\ UNCHANGED <<chosen, stored>>

Choose ==
  /\ open
  /\ \E k \in Keys, v \in Values : chosen' = [chosen EXCEPT ![k] = v]
  /\ UNCHANGED <<open, stored>>

\* All of them are stored, or all of them are lost.
StoreAll == open /\ stored' = chosen /\ UNCHANGED <<open, chosen>>
LoseAll == open /\ stored' = Default /\ UNCHANGED <<open, chosen>>

SettingsNext == StartRun \/ EndRun \/ Choose \/ StoreAll \/ LoseAll

SettingsSpec == SettingsInit /\ [][SettingsNext]_settings
=============================================================================
