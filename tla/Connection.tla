------------------------------ MODULE Connection ------------------------------
(***************************************************************************)
(* What db.py's connect gives a daemon: one sqlite connection that all its *)
(* threads share, on a WAL file that other daemons may have open as well.  *)
(* Python's sqlite3 begins a deferred transaction before an INSERT or      *)
(* UPDATE and ends it only at commit() or rollback(); SQLite lets one      *)
(* connection at a time write, and gives a transaction one snapshot.       *)
(***************************************************************************)
CONSTANTS Daemon, None

VARIABLES
  disk,  \* the committed database
  conn   \* [Daemon -> [mode, db]]: the open transaction of each connection

\* "auto": none.  "begun": begun, nothing read.  "read": it has a snapshot, and
\* so has "stale", which another connection has outdated.  "write": it has the
\* write lock of the file, and db is its working copy.
Mode == {"auto", "begun", "read", "stale", "write"}
Closed == [mode |-> "auto", db |-> None]

ConnInit(db) == disk = db /\ conn = [d \in Daemon |-> Closed]

\* What a SELECT of any thread of the daemon sees.
View(d) ==
  IF conn[d].mode \in {"auto", "begun"} THEN disk ELSE conn[d].db

Select(d) ==
  /\ conn' = IF conn[d].mode = "begun"
             THEN [conn EXCEPT ![d] = [mode |-> "read", db |-> disk]] ELSE conn
  /\ UNCHANGED disk

CanWrite(d) ==
  /\ conn[d].mode # "stale"
  /\ \A e \in Daemon \ {d} : conn[e].mode # "write"

\* An INSERT or UPDATE after which the connection sees db.
Execute(d, db) ==
  /\ CanWrite(d)
  /\ conn' = [conn EXCEPT ![d] = [mode |-> "write", db |-> db]]
  /\ UNCHANGED disk

\* An INSERT or UPDATE that raises "database is locked": at once on a stale
\* snapshot, else after waiting for the other writer (busy_timeout).  The
\* transaction that was begun for it stays open, and nobody rolls it back.
ExecuteLocked(d) ==
  /\ ~CanWrite(d)
  /\ conn' = IF conn[d].mode = "auto"
             THEN [conn EXCEPT ![d].mode = "begun"] ELSE conn
  /\ UNCHANGED disk

\* What commit() makes of the connections when the one of d has written.
Committed(d) ==
  [e \in Daemon |->
     IF e = d THEN Closed
     ELSE IF conn[e].mode = "read" THEN [conn[e] EXCEPT !.mode = "stale"]
     ELSE conn[e]]

\* commit(): whatever the threads of d have executed by now.
Commit(d) ==
  IF conn[d].mode = "write"
  THEN disk' = conn[d].db /\ conn' = Committed(d)
  ELSE UNCHANGED disk /\ conn' = [conn EXCEPT ![d] = Closed]

\* An INSERT or UPDATE and its commit, with nothing in between.
Store(d, db) == CanWrite(d) /\ disk' = db /\ conn' = Committed(d)

\* rollback(), and what remains of a connection whose process is killed.
Rollback(d) == conn' = [conn EXCEPT ![d] = Closed] /\ UNCHANGED disk
=============================================================================
