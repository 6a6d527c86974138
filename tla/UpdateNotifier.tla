--------------------------- MODULE UpdateNotifier ---------------------------
(***************************************************************************)
(* The update check (UpdateNotifier.cpp): a detached thread asks for the   *)
(* version last released, once per run of the program, and the dialog's    *)
(* third timer looks for its answer.                                       *)
(***************************************************************************)

VARIABLES
  query,    \* the thread: "none", "asking", "stored", "done"
  hasData,  \* m_hasData
  result,   \* m_updateInformation.m_updateResult
  released  \* environment: the version released, against the program's

updateNotifier == <<query, hasData, result, released>>

Versions == {"older", "same", "newer"}
Results == {"NotInitiated", "NoConnection", "InvalidData", "AlreadyRecent", "UpdateAvailable"}

NotifierInit ==
  /\ query = "none" /\ hasData = FALSE /\ result = "NotInitiated"
  /\ released \in Versions

\* external: the project releases another version; between two queries is enough.
Release == query = "none" /\ released' \in Versions /\ UNCHANGED <<query, hasData, result>>

\* The constructor starts the thread.
QueryResult ==
  /\ query' = "asking" /\ hasData' = FALSE /\ result' = "NotInitiated"
  /\ UNCHANGED released

\* Mutant of Answered: the data are announced before they are there.
AnsweredTooEarly ==
  /\ query = "asking" /\ query' = "stored"
  /\ hasData' = TRUE
  /\ UNCHANGED <<result, released>>

\* The answer is there, or an exception that is caught.  A version that differs
\* is taken for a new one.
Answered ==
  /\ query = "asking" /\ query' = "stored"
  /\ \/ result' = IF released = "same" THEN "AlreadyRecent" ELSE "UpdateAvailable"
     \/ result' \in {"NoConnection", "InvalidData"}
  /\ UNCHANGED <<hasData, released>>

\* Any other exception ends in the future that TrueAsync returns and QueryResult
\* drops.
QueryThrows ==
  /\ query = "asking" /\ query' = "done"
  /\ UNCHANGED <<hasData, result, released>>

\* Mutant of Announce: the second critical section is forgotten.
AnnounceForgotten ==
  /\ query = "stored" /\ query' = "done"
  /\ UNCHANGED <<hasData, result, released>>

Announce ==
  /\ query = "stored" /\ query' = "done"
  /\ hasData' = TRUE
  /\ UNCHANGED <<result, released>>

\* Mutant of FetchData: the data stay.
FetchKeepsData == hasData /\ UNCHANGED updateNotifier

FetchData == hasData /\ hasData' = FALSE /\ UNCHANGED <<query, result, released>>

\* m_version, which only an answer sets, differs from the program's version.
VersionDiffers == result # "AlreadyRecent"
=============================================================================
