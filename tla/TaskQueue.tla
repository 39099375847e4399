----------------------------- MODULE TaskQueue ------------------------------
(***************************************************************************)
(* The server's active client task queue: the doubly linked list of        *)
(* ClientRequestMsg nodes that taskqAdd, taskqFind, taskqRemove and        *)
(* taskqShow of ipcServer.cpp work on (s_taskq* in the C program).  The    *)
(* heap is a fixed set of nodes; free() leaves a node's fields as they     *)
(* are, and a later malloc() may hand the same node out again.             *)
(*                                                                         *)
(* Each call is one step here: the module says what the pointer code does  *)
(* when calls do not overlap.  Nothing in the code keeps them apart.       *)
(***************************************************************************)
EXTENDS Naturals, Sequences, FiniteSets, FiniteSetsExt, SequencesExt

CONSTANTS Node,     \* the heap chunks malloc() can return
          Client,   \* client process ids
          NULL      \* the null pointer

ASSUME NodeAssumption == IsFiniteSet(Node) /\ NULL \notin Node

VARIABLES HEAD_taskq,   \* head of the list
          next, prev,   \* the link fields of every node
          client_id,    \* the owner field of every node
          allocated,    \* nodes malloc()ed and not yet free()d
          order         \* history: the queued nodes, newest first

vars == <<HEAD_taskq, next, prev, client_id, allocated, order>>

Init ==
    /\ HEAD_taskq = NULL
    /\ next = [n \in Node |-> NULL]
    /\ prev = [n \in Node |-> NULL]
    /\ client_id \in [Node -> Client]     \* never-used memory
    /\ allocated = {}
    /\ order = <<>>

-----------------------------------------------------------------------------
(* taskqAdd.  The new node is zeroed, filled in and linked in at the head. *)

LinkFirst(node) ==
    /\ HEAD_taskq = NULL
    /\ prev' = [prev EXCEPT ![node] = NULL]
    /\ next' = [next EXCEPT ![node] = NULL]
    /\ HEAD_taskq' = node

\* Faulty variant: the old head is not told about its new predecessor.
LinkAtHead_ForwardOnly(node) ==
    /\ HEAD_taskq # NULL
    /\ prev' = [prev EXCEPT ![node] = NULL]
    /\ next' = [next EXCEPT ![node] = HEAD_taskq]
    /\ HEAD_taskq' = node

LinkAtHead(node) ==
    /\ HEAD_taskq # NULL
    /\ prev' = [prev EXCEPT ![node] = NULL, ![HEAD_taskq] = node]
    /\ next' = [next EXCEPT ![node] = HEAD_taskq]
    /\ HEAD_taskq' = node

\* Faulty variant: the result of malloc() is used unchecked.
taskqAdd_UncheckedMalloc(c, node) ==
    /\ node \notin allocated
    /\ allocated' = allocated \cup {node}
    /\ client_id' = [client_id EXCEPT ![node] = c]
    /\ LinkFirst(node) \/ LinkAtHead(node)
    /\ order' = Cons(node, order)

\* Faulty variant: the node is not given memory of its own.
taskqAdd_Unallocated(c, node) ==
    /\ node # NULL
    /\ client_id' = [client_id EXCEPT ![node] = c]
    /\ LinkFirst(node) \/ LinkAtHead(node)
    /\ order' = Cons(node, order)
    /\ allocated' = allocated \cup {node}

\* node is what malloc() returns: when that is null nothing is added.
taskqAdd(c, node) ==
    /\ node # NULL
    /\ node \notin allocated
    /\ allocated' = allocated \cup {node}
    /\ client_id' = [client_id EXCEPT ![node] = c]
    /\ LinkFirst(node) \/ LinkAtHead(node)
    /\ order' = Cons(node, order)

-----------------------------------------------------------------------------
(* taskqRemove, called with a node that taskqAdd returned.  In the head    *)
(* case the code clears the prev field of the node it is about to free,    *)
(* not that of the new head: the new head keeps a dangling prev.           *)

UnlinkHead(node) ==
    /\ node = HEAD_taskq
    /\ HEAD_taskq' = next[node]
    /\ prev' = [prev EXCEPT ![node] = IF next[node] = NULL THEN @ ELSE NULL]
    /\ UNCHANGED next

\* Faulty variant: the successor keeps pointing back at the freed node.
UnlinkInner_ForwardOnly(node) ==
    /\ node # HEAD_taskq
    /\ next' = [next EXCEPT ![prev[node]] = next[node]]
    /\ UNCHANGED <<HEAD_taskq, prev>>

UnlinkInner(node) ==
    /\ node # HEAD_taskq
    /\ next' = [next EXCEPT ![prev[node]] = next[node]]
    /\ prev' = [n \in Node |-> IF n = next[node] THEN prev[node] ELSE prev[n]]
    /\ UNCHANGED HEAD_taskq

taskqRemove(node) ==
    /\ UnlinkHead(node) \/ UnlinkInner(node)
    /\ allocated' = allocated \ {node}
    /\ \E i \in 1..Len(order) : order[i] = node /\ order' = RemoveAt(order, i)
    /\ UNCHANGED client_id

-----------------------------------------------------------------------------
(* taskqFind and taskqShow follow the next pointers from the head.         *)

\* The pointer curr holds after k turns of the loop.
curr[k \in Nat] ==
    IF k = 0 THEN HEAD_taskq
    ELSE IF curr[k - 1] = NULL THEN NULL ELSE next[curr[k - 1]]

\* The turns the loop makes before it meets a null pointer.  A list that
\* runs into a cycle is cut off after as many turns as there are nodes.
Turns == {k \in 0..Cardinality(Node) : curr[k] # NULL}

taskqShow == [i \in 1..Cardinality(Turns) |-> client_id[curr[i - 1]]]

\* Faulty variant: the test is made after the loop has moved on, so the
\* node at the head is never looked at.
taskqFind_SkipsHead(c) ==
    LET hits == {k \in Turns \ {0} : client_id[curr[k]] = c}
    IN  IF hits = {} THEN NULL ELSE curr[Min(hits)]

taskqFind(c) ==
    LET hits == {k \in Turns : client_id[curr[k]] = c}
    IN  IF hits = {} THEN NULL ELSE curr[Min(hits)]

-----------------------------------------------------------------------------
Next ==
    \/ \E c \in Client, node \in Node \cup {NULL} : taskqAdd(c, node)
    \/ \E node \in allocated : taskqRemove(node)

Spec == Init /\ [][Next]_vars

-----------------------------------------------------------------------------
(* Properties.                                                             *)

TypeOK ==
    /\ HEAD_taskq \in Node \cup {NULL}
    /\ next \in [Node -> Node \cup {NULL}]
    /\ prev \in [Node -> Node \cup {NULL}]
    /\ client_id \in [Node -> Client]
    /\ allocated \in SUBSET Node
    /\ order \in Seq(Node)

\* The live nodes are exactly the queued ones, each once.
QueueIsHeap ==
    /\ \A i \in 1..Len(order) : order[i] \in allocated
    /\ \A n \in allocated : \E i \in 1..Len(order) : order[i] = n
    /\ \A i, j \in 1..Len(order) : order[i] = order[j] => i = j

\* next leads from each queued node to the one added before it.
LinkedForward ==
    /\ HEAD_taskq = IF order = <<>> THEN NULL ELSE order[1]
    /\ \A i \in 1..Len(order) :
         next[order[i]] = IF i = Len(order) THEN NULL ELSE order[i + 1]

\* prev leads back, except from the head, whose prev may dangle.
LinkedBack == \A i \in 2..Len(order) : prev[order[i]] = order[i - 1]

QueueLinked == QueueIsHeap /\ LinkedForward /\ LinkedBack

\* The nodes whose fields taskqRemove(node) reads or writes.
Accessed(node) ==
    {node} \cup (IF node = HEAD_taskq THEN {}
                 ELSE {prev[node]} \cup ({next[node]} \ {NULL}))

\* Whatever sequence of calls came before, taskqRemove of any queued node
\* follows no null and no dangling pointer: the prev field that the head
\* case leaves stale (ipcServer.cpp:385) is overwritten or passed over
\* before anyone follows it.
RemoveTouchesLiveNodes == \A n \in allocated : Accessed(n) \subseteq allocated

\* "list" walks the pointers and shows every active task, the newest first,
\* and no finished one (taskqShow).
ShowListsActiveTasks == taskqShow = [i \in 1..Len(order) |-> client_id[order[i]]]

\* taskqFind(c) returns the newest live task of c, and null only if c has none.
FindReturnsNewest ==
    \A c \in Client :
       LET mine == {i \in 1..Len(order) : client_id[order[i]] = c}
       IN  taskqFind(c) = IF mine = {} THEN NULL ELSE order[Min(mine)]

\* Seen through the tasks' owners the linked list is the list of TaskList.
TL == INSTANCE TaskList WITH tasks <- [i \in 1..Len(order) |-> client_id[order[i]]]

ImplementsTaskList == TL!Spec

=============================================================================
