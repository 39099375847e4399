----------------------------- MODULE QueueRace ------------------------------
(***************************************************************************)
(* The active client task queue once more, now as its callers meet it:     *)
(* request threads add and remove their nodes and the console lists them,  *)
(* without a lock ("UNPROTECTED MULTITHREAD SHARED DATA STRUCT", says the  *)
(* source).  One step is one statement on the shared pointers, and a test  *)
(* and the statement it guards are two.  races records which kinds of      *)
(* calls have overlapped so far, so that each property can say which of    *)
(* them it takes for something to go wrong.                                *)
(*                                                                         *)
(* What follows a null or a dangling dereference is undefined: the model   *)
(* stops there.                                                            *)
(***************************************************************************)
EXTENDS TaskQueue

CONSTANT Thread     \* the request threads

VARIABLES tpc,      \* the statement each thread is at
          mine,     \* the node each thread's taskqAdd returned
          kpc,      \* "getline", or "show" while the console is in taskqShow
          kcurr,    \* the pointer curr of taskqShow
          due,      \* history: what taskqShow has still to print
          strayed,  \* history: it has printed anything else, or too little
          races,    \* history: the kinds of calls that have overlapped
          fault     \* what has been dereferenced: "none", "null" or "freed"

links == <<HEAD_taskq, next, prev, client_id, allocated, order>>
console == <<kpc, kcurr, due, strayed>>
rvars == <<links, tpc, mine, console, races, fault>>

InitRace ==
    /\ Init
    /\ tpc = [t \in Thread |-> "start"]
    /\ mine = [t \in Thread |-> NULL]
    /\ kpc = "getline"
    /\ kcurr = NULL
    /\ due = <<>>
    /\ strayed = FALSE
    /\ races = {}
    /\ fault = "none"

Adding == {"a_first", "a_prev", "a_next", "a_head"}
Removing == {"r_head", "r_inner", "r_back", "r_link", "r_free"}

Goto(t, there) == tpc' = [tpc EXCEPT ![t] = there]

\* A call of this kind begins beside the calls that are going on.  That adds
\* overlap the list command has no consequences and is not recorded.
Begins(kind) ==
    LET others == {"add" : t \in {u \in Thread : tpc[u] \in Adding}}
                  \cup {"remove" : t \in {u \in Thread : tpc[u] \in Removing}}
                  \cup (IF kpc = "show" THEN {"show"} ELSE {})
    IN  races' = races \cup ({{kind, o} : o \in others} \ {{"add", "show"}})

Overlapped(a, b) == {a, b} \in races

\* A statement that dereferences p, and what it does when p is sound.
Deref(p, effect) ==
    IF p = NULL THEN fault' = "null" /\ UNCHANGED <<links, tpc, console>>
    ELSE IF p \notin allocated THEN fault' = "freed" /\ UNCHANGED <<links, tpc, console>>
    ELSE fault' = fault /\ effect

-----------------------------------------------------------------------------
(* taskqAdd.  The node is made and filled in before anybody can see it.    *)

\* Faulty variant: malloc fails and nobody looks.
AddTest_UncheckedMalloc(t, node) ==
    /\ tpc[t] = "start"
    /\ node \notin allocated
    /\ mine' = [mine EXCEPT ![t] = NULL]
    /\ Goto(t, IF HEAD_taskq = NULL THEN "a_first" ELSE "a_prev")
    /\ Begins("add")
    /\ UNCHANGED <<links, console, fault>>

AddTest(t, node) ==
    /\ tpc[t] = "start"
    /\ node \notin allocated
    /\ allocated' = allocated \cup {node}
    /\ next' = [next EXCEPT ![node] = NULL]
    /\ prev' = [prev EXCEPT ![node] = NULL]
    /\ mine' = [mine EXCEPT ![t] = node]
    /\ Goto(t, IF HEAD_taskq = NULL THEN "a_first" ELSE "a_prev")
    /\ Begins("add")
    /\ UNCHANGED <<HEAD_taskq, client_id, order, console, fault>>

\* HEAD_taskq = node
AddHead(t) ==
    /\ tpc[t] \in {"a_first", "a_head"}
    /\ HEAD_taskq' = mine[t]
    /\ order' = Cons(mine[t], order)
    /\ Goto(t, "queued")
    /\ UNCHANGED <<next, prev, client_id, allocated, mine, console, races, fault>>

\* Faulty variant: the old head is not told about its new predecessor.
AddPrev_Forgotten(t) ==
    /\ tpc[t] = "a_prev"
    /\ Goto(t, "a_next")
    /\ UNCHANGED <<links, mine, console, races, fault>>

\* HEAD_taskq->prev = node
AddPrev(t) ==
    /\ tpc[t] = "a_prev"
    /\ Deref(HEAD_taskq,
             /\ prev' = [prev EXCEPT ![HEAD_taskq] = mine[t]]
             /\ Goto(t, "a_next")
             /\ UNCHANGED <<HEAD_taskq, next, client_id, allocated, order, console>>)
    /\ UNCHANGED <<mine, races>>

\* Faulty variant: the node is made the head first, and then linked
\* to the head, which is itself.
AddNext_Late(t) ==
    /\ tpc[t] = "a_next"
    /\ next' = [next EXCEPT ![mine[t]] = mine[t]]
    /\ Goto(t, "a_head")
    /\ UNCHANGED <<HEAD_taskq, prev, client_id, allocated, order, mine, console, races, fault>>

\* node->next = HEAD_taskq
AddNext(t) ==
    /\ tpc[t] = "a_next"
    /\ next' = [next EXCEPT ![mine[t]] = HEAD_taskq]
    /\ Goto(t, "a_head")
    /\ UNCHANGED <<HEAD_taskq, prev, client_id, allocated, order, mine, console, races, fault>>

-----------------------------------------------------------------------------
(* taskqRemove of the thread's own node.                                   *)

RemoveTest(t) ==
    /\ tpc[t] = "queued"
    /\ Goto(t, IF mine[t] = HEAD_taskq THEN "r_head" ELSE "r_inner")
    /\ Begins("remove")
    /\ UNCHANGED <<links, mine, console, fault>>

Dequeued(t) ==
    \E i \in 1..Len(order) : order[i] = mine[t] /\ order' = RemoveAt(order, i)

\* HEAD_taskq = node->next; the node's own prev is cleared.
RemoveHead(t) ==
    /\ tpc[t] = "r_head"
    /\ HEAD_taskq' = next[mine[t]]
    /\ prev' = [prev EXCEPT ![mine[t]] = IF next[mine[t]] = NULL THEN @ ELSE NULL]
    /\ Dequeued(t)
    /\ Goto(t, "r_free")
    /\ UNCHANGED <<next, client_id, allocated, mine, console, races, fault>>

\* node->prev->next = node->next
RemoveInner(t) ==
    LET p == prev[mine[t]] IN
    /\ tpc[t] = "r_inner"
    /\ Deref(p,
             /\ next' = [next EXCEPT ![p] = next[mine[t]]]
             /\ Dequeued(t)
             /\ Goto(t, "r_back")
             /\ UNCHANGED <<HEAD_taskq, prev, client_id, allocated, console>>)
    /\ UNCHANGED <<mine, races>>

\* if (node->next)
RemoveBack(t) ==
    /\ tpc[t] = "r_back"
    /\ Goto(t, IF next[mine[t]] = NULL THEN "r_free" ELSE "r_link")
    /\ UNCHANGED <<links, mine, console, races, fault>>

\* Faulty variant: the successor keeps pointing back at the freed node.
RemoveLink_Forgotten(t) ==
    /\ tpc[t] = "r_link"
    /\ Goto(t, "r_free")
    /\ UNCHANGED <<links, mine, console, races, fault>>

\* node->next->prev = node->prev, where node->next is read once more.
RemoveLink(t) ==
    LET n == next[mine[t]] IN
    /\ tpc[t] = "r_link"
    /\ Deref(n,
             /\ prev' = [prev EXCEPT ![n] = prev[mine[t]]]
             /\ Goto(t, "r_free")
             /\ UNCHANGED <<HEAD_taskq, next, client_id, allocated, order, console>>)
    /\ UNCHANGED <<mine, races>>

\* free(node), and the thread goes on to its end.  No step reads the fields
\* of a freed node, so that their values do not matter.
RemoveFree(t) ==
    /\ tpc[t] = "r_free"
    /\ allocated' = allocated \ {mine[t]}
    /\ next' = [next EXCEPT ![mine[t]] = NULL]
    /\ prev' = [prev EXCEPT ![mine[t]] = NULL]
    /\ mine' = [mine EXCEPT ![t] = NULL]
    /\ Goto(t, "done")
    /\ UNCHANGED <<HEAD_taskq, client_id, order, console, races, fault>>

-----------------------------------------------------------------------------
(* taskqShow, for the console's "list".                                    *)

ShowBegin ==
    /\ kpc = "getline"
    /\ kpc' = "show"
    /\ kcurr' = HEAD_taskq
    /\ due' = IF strayed THEN <<>> ELSE order
    /\ Begins("show")
    /\ UNCHANGED <<links, tpc, mine, strayed, fault>>

ShowStep ==
    /\ kpc = "show"
    /\ kcurr # NULL
    /\ Deref(kcurr,
             /\ kcurr' = next[kcurr]
             /\ strayed' = (strayed \/ due = <<>> \/ due[1] # kcurr)
             /\ due' = IF strayed' THEN <<>> ELSE Tail(due)
             /\ UNCHANGED <<links, tpc, kpc>>)
    /\ UNCHANGED <<mine, races>>

ShowEnd ==
    /\ kpc = "show"
    /\ kcurr = NULL
    /\ kpc' = "getline"
    /\ strayed' = (strayed \/ due # <<>>)
    /\ due' = <<>>
    /\ UNCHANGED <<links, tpc, mine, kcurr, races, fault>>

-----------------------------------------------------------------------------
Call(t) ==
    \/ AddHead(t) \/ AddPrev(t) \/ AddNext(t)
    \/ RemoveHead(t) \/ RemoveInner(t) \/ RemoveBack(t) \/ RemoveLink(t)
    \/ RemoveFree(t)

Show == ShowStep \/ ShowEnd

NextRace ==
    /\ fault = "none"
    /\ \/ \E t \in Thread : Call(t) \/ RemoveTest(t)
       \/ \E t \in Thread, node \in Node : AddTest(t, node)
       \/ ShowBegin
       \/ Show

SpecRace == InitRace /\ [][NextRace]_rvars

-----------------------------------------------------------------------------
(* Properties.                                                             *)

TypeOKRace ==
    /\ TypeOK
    /\ tpc \in [Thread -> {"start", "queued", "done"} \cup Adding \cup Removing]
    /\ mine \in [Thread -> Node \cup {NULL}]
    /\ kpc \in {"getline", "show"}
    /\ kcurr \in Node \cup {NULL}
    /\ due \in Seq(Node)
    /\ strayed \in BOOLEAN
    /\ races \in SUBSET (SUBSET {"add", "remove", "show"})
    /\ fault \in {"none", "null", "freed"}

\* Calls of two threads have overlapped.
ThreadsRaced == Overlapped("add", "add") \/ Overlapped("add", "remove") \/ Overlapped("remove", "remove")

\* As long as no two threads' calls overlap the statements, taken one by
\* one, keep the list as sound as the calls of TaskQueue do, seen whenever
\* no call is under way; a list command may run beside them.
SoundUntilThreadsRace ==
    (~ThreadsRaced /\ fault = "none" /\ \A t \in Thread : tpc[t] \in {"start", "queued", "done"})
        => QueueLinked

\* A pointer goes wrong only after two threads' calls have overlapped, or
\* under a list command that a removal has overlapped: adding beside a list
\* command is harmless.
FaultNeedsRace == fault # "none" => ThreadsRaced \/ Overlapped("show", "remove")

\* The server dereferences a null pointer only after an add has overlapped
\* another thread's call, which is how a node gets lost, and the next
\* taskqRemove of a lost node follows its null prev; or, when only removals
\* have overlapped, at one place: another removal has taken the successor
\* away between the test of node->next and its second reading.
NullNeedsAddRace ==
    fault = "null" =>
        \/ Overlapped("add", "add") \/ Overlapped("add", "remove")
        \/ \E t \in Thread : tpc[t] = "r_link" /\ next[mine[t]] = NULL

\* "list" prints the tasks that were active when it was typed, the newest
\* first, whatever is added meanwhile; it takes a removal during the walk,
\* or links that two threads have spoilt, to make it print anything else.
ListIsASnapshot == strayed => ThreadsRaced \/ Overlapped("show", "remove")

\* Following next from the head always comes to an end, so that neither
\* "list" nor the search of a cancel goes round for ever, until two threads'
\* calls have overlapped.  Adds are enough: the memory of a node that one of
\* them has lost and another still points at may become the new head.
ListHasEnd == curr[Cardinality(Node)] = NULL \/ ThreadsRaced

=============================================================================
