------------------------------- MODULE MCLock -------------------------------
(* Small instances of Lock. *)
EXTENDS Lock

CONSTANTS s1, s2, s3, f1, f2

\* Calls that repeat the mode of the one they are made in.
SameMode == {<<m, m>> : m \in Modes}

\* Reads inside a write: Exclusion does not hold.
ReadUnderWrite == {<<"write", "read">>}

\* Writes inside a read: NoLostWakeup does not hold.
Upgrade == {<<"read", "write">>}
=============================================================================
