--------------------------- MODULE MCRefreshCycle ---------------------------
(* RefreshCycle for TLC.  The memory under m_notifierThreadNotification,   *)
(* which has no initialiser, may hold anything when the hook is made.      *)
EXTENDS RefreshCycle

AnyHeap == BOOLEAN
=============================================================================
