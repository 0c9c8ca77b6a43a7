----------------------------- MODULE SightingLog -----------------------------
(***************************************************************************)
(* finals.sightings.SightingLog: the append-only CSV of sightings.  A      *)
(* sighting's id is its row's position; nothing else in the file says so.  *)
(* Each row is flushed and fsynced under a lock; an append that fails      *)
(* poisons the handle; a process that dies leaves the bytes of at most one *)
(* row behind, which the next one to open the file truncates, unless they  *)
(* happen to be a whole row.                                               *)
(***************************************************************************)
EXTENDS Naturals, Sequences

CONSTANTS
  Writers,    \* the threads that append
  Sightings,  \* what they append, in whatever order
  Nobody,     \* the lock is free
  NoRow       \* no row is being written

VARIABLES
  header,     \* the first line on disk: absent, torn, ok
  rows,       \* the complete rows on disk
  bytes,      \* what is on disk of the row behind them: none of it, a torn
              \* part, a terminated but unreadable one ("mangled"), the whole
  inflight,   \* that row
  handle,     \* down, recovered, open, failed (poisoned) or closed
  holder,     \* who holds the lock, in append()
  mirror,     \* _rows: the rows as the process knows them
  acked       \* the ids that append() ever returned, with their sightings

logVars == <<header, rows, bytes, inflight, handle, holder, mirror, acked>>

LogTypeOK ==
  /\ header \in {"absent", "torn", "ok"}
  /\ rows \in Seq(Sightings) /\ mirror \in Seq(Sightings)
  /\ bytes \in {"none", "torn", "mangled", "whole"}
  /\ inflight \in Sightings \union {NoRow}
  /\ handle \in {"down", "recovered", "open", "failed", "closed"}
  /\ holder \in Writers \union {Nobody}
  /\ acked \subseteq Nat \X Sightings

LogInit ==
  /\ header = "absent" /\ rows = <<>> /\ bytes = "none" /\ inflight = NoRow
  /\ handle = "down" /\ holder = Nobody /\ mirror = <<>> /\ acked = {}

(***************************************************************************)
(* Opening: _recover_existing(), then the header if there is none.         *)
(***************************************************************************)
\* A row that is whole but for the fsync is read like any other, anything
\* less is cut off.  A torn header is the file's only line.
Recover ==
  /\ handle = "down"
  /\ header' = IF header = "torn" THEN "absent" ELSE header
  /\ rows' = IF bytes = "whole" THEN Append(rows, inflight) ELSE rows
  /\ mirror' = rows'
  /\ bytes' = "none" /\ inflight' = NoRow
  /\ handle' = "recovered"
  /\ UNCHANGED <<holder, acked>>

WriteHeader ==
  /\ handle = "recovered" /\ header # "ok"
  /\ header' = IF header = "absent" THEN "torn" ELSE "ok"
  /\ UNCHANGED <<rows, bytes, inflight, handle, holder, mirror, acked>>

OpenLog ==
  /\ handle = "recovered" /\ header = "ok"
  /\ handle' = "open"
  /\ UNCHANGED <<header, rows, bytes, inflight, holder, mirror, acked>>

(***************************************************************************)
(* append().                                                               *)
(***************************************************************************)
\* The lock is taken and the bytes go out, some way, before the fsync.
BeginAppend(w, s) ==
  /\ handle = "open" /\ holder = Nobody
  /\ holder' = w /\ inflight' = s
  /\ bytes' \in {"none", "torn", "mangled", "whole"}
  /\ UNCHANGED <<header, rows, handle, mirror, acked>>

\* The fsync returned: the row counts, and its id is handed out.
FinishAppend(w) ==
  /\ holder = w
  /\ rows' = Append(rows, inflight)
  /\ mirror' = Append(mirror, inflight)
  /\ acked' = acked \union {<<Len(mirror'), inflight>>}
  /\ bytes' = "none" /\ inflight' = NoRow
  /\ holder' = Nobody
  /\ UNCHANGED <<header, handle>>

\* Mutant of FailAppend: a failed append is reported and appends go on.
FailAppendUnpoisoned(w) ==
  /\ holder = w
  /\ rows' = IF bytes = "whole" THEN Append(rows, inflight) ELSE rows
  /\ bytes' = "none" /\ inflight' = NoRow
  /\ holder' = Nobody
  /\ UNCHANGED <<header, handle, mirror, acked>>

\* write, flush or fsync raised: nobody knows what is on disk, so this handle
\* gives out no further id.
FailAppend(w) ==
  /\ holder = w
  /\ handle' = "failed"
  /\ holder' = Nobody
  /\ UNCHANGED <<header, rows, bytes, inflight, mirror, acked>>

\* append() raises before it writes anything.
Refuses == handle \in {"failed", "closed"} /\ holder = Nobody

CloseLog ==
  /\ handle \in {"open", "failed"} /\ holder = Nobody
  /\ handle' = "closed"
  /\ UNCHANGED <<header, rows, bytes, inflight, holder, mirror, acked>>

\* The process dies: what it knew is gone, what is on disk stays.
LoseLog ==
  /\ handle' = "down" /\ holder' = Nobody /\ mirror' = <<>>
  /\ UNCHANGED <<header, rows, bytes, inflight, acked>>

-----------------------------------------------------------------------------
\* An id that append() returned is its sighting's row for good: whatever
\* fails afterwards, whoever dies, however often the file is reopened.
AckedIdsHold ==
  \A a \in acked : a[1] \in DOMAIN rows /\ rows[a[1]] = a[2]

\* A handle that accepts rows knows the file as it is, so that the next id is
\* the next row.
MirrorIsFile == handle = "open" => mirror = rows /\ header = "ok"
==============================================================================
