----------------------------- MODULE JobService -----------------------------
(***************************************************************************)
(* What GdaThreadWrapper promises about the functions given to it: each is *)
(* executed once or cancelled before it started, never both; functions     *)
(* are started one at a time and in the order they were queued; a result   *)
(* is collected once, after the function returned.  ThreadWrapper          *)
(* implements this specification.                                          *)
(***************************************************************************)
CONSTANT Jobs

VARIABLES status,  \* what became of each job
          before,  \* the queue: pairs of waiting jobs, the one queued first on the left
          closed   \* nothing waits for an execution any more

svars == <<status, before, closed>>

Statuses == {"none", "waiting", "cancelled", "running", "done", "collected"}

Waiting == {j \in Jobs : status[j] = "waiting"}

SInit == /\ status = [j \in Jobs |-> "none"]
         /\ before = {}
         /\ closed = FALSE

SetTo(j, s) == status' = [status EXCEPT ![j] = s]

Leave(j) == before' = {p \in before : p[1] # j /\ p[2] # j}

Enqueue(j) == /\ status[j] = "none" /\ ~closed
              /\ SetTo(j, "waiting")
              /\ before' = before \cup (Waiting \X {j})
              /\ UNCHANGED closed

\* A running function has a function executed: it does not wait.
RunNested(j) == /\ status[j] = "none" /\ ~closed
                /\ \E k \in Jobs : status[k] = "running"
                /\ SetTo(j, "done")
                /\ UNCHANGED <<before, closed>>

Cancel(j) == /\ status[j] = "waiting"
             /\ SetTo(j, "cancelled")
             /\ Leave(j)
             /\ UNCHANGED closed

\* The first in the queue starts, when nothing is running.
Start(j) == /\ status[j] = "waiting"
            /\ \A k \in Jobs : status[k] # "running" /\ <<k, j>> \notin before
            /\ SetTo(j, "running")
            /\ Leave(j)
            /\ UNCHANGED closed

Finish(j) == /\ status[j] = "running"
             /\ SetTo(j, "done")
             /\ UNCHANGED <<before, closed>>

Collect(j) == /\ status[j] = "done"
              /\ SetTo(j, "collected")
              /\ UNCHANGED <<before, closed>>

\* Everything that waits is cancelled at once; the results that had been
\* handed over are dropped with the rest.
Close == \E dropped \in SUBSET {j \in Jobs : status[j] = "done"} :
           /\ ~closed /\ closed' = TRUE
           /\ status' = [j \in Jobs |-> CASE status[j] = "waiting" -> "cancelled"
                                          [] j \in dropped -> "collected"
                                          [] OTHER -> status[j]]
           /\ before' = {}

SNext == \/ \E j \in Jobs : \/ Enqueue(j) \/ RunNested(j) \/ Cancel(j)
                            \/ Start(j) \/ Finish(j) \/ Collect(j)
         \/ Close

SSpec == SInit /\ [][SNext]_svars
=============================================================================
