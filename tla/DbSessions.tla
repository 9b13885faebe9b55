---------------------------- MODULE DbSessions ----------------------------
(***************************************************************************)
(* What the Python services have in common: every request opens a session   *)
(* (AsyncSessionLocal), loads rows, changes the loaded objects and commits.  *)
(* No service takes a lock or, auth-service apart, tests a version, so rows  *)
(* may change between the SELECT and the commit (READ COMMITTED).           *)
(***************************************************************************)

CONSTANTS
    Sessions,   \* database sessions open at the same time in one service
    None        \* SQL NULL, and the row that is not there

Idle == [pc |-> "idle"]

\* AsyncSession.commit: the UPDATE names the columns in which the object differs
\* from the row as it was loaded; the others keep what the table has by now.
Flush(row, read, obj) ==
    [col \in DOMAIN row |-> IF obj[col] # read[col] THEN obj[col] ELSE row[col]]

\* The difference that makes: the row is not the one the session has read.
Changed(row, read) == row # read
=============================================================================
