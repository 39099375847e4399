------------------------------ MODULE TaskList ------------------------------
(***************************************************************************)
(* What the server's active client task queue promises its callers: a list *)
(* of the running tasks, the newest first, in which a task is added at the *)
(* front and any single task, wherever it stands, can be taken out without *)
(* disturbing the others.  A task is named by the client that asked for    *)
(* it; one client may own several tasks.                                   *)
(***************************************************************************)
EXTENDS Naturals, Sequences, SequencesExt

CONSTANT Client

VARIABLE tasks

Init == tasks = <<>>

Add(c) == tasks' = Cons(c, tasks)

End(i) == tasks' = RemoveAt(tasks, i)

Next ==
    \/ \E c \in Client : Add(c)
    \/ \E i \in 1..Len(tasks) : End(i)

Spec == Init /\ [][Next]_tasks

=============================================================================
