--------------------------- MODULE MCSpotispyDlg ---------------------------
(* SpotispyDlg for TLC: a setting of each kind, with its default and one   *)
(* other value.                                                            *)
EXTENDS SpotispyDlg

CONSTANTS yes, no

MCValues == {yes, no}
MCKeys == Named \cup {"muteAds"}
MCDefault == [k \in MCKeys |-> yes]
=============================================================================
