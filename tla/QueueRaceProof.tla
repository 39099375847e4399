--------------------------- MODULE QueueRaceProof ---------------------------
(***************************************************************************)
(* For every finite heap and every number of request threads: which        *)
(* overlaps of the unlocked calls it takes for the active client task      *)
(* queue to go wrong.  Until two threads' calls have overlapped the links  *)
(* are sound after every statement, and every walk along them ends; until  *)
(* a removal has overlapped "list" as well no pointer goes wrong and the   *)
(* list shown is the one that was active; until an add has overlapped      *)
(* another thread's call there is one place where null is dereferenced.    *)
(***************************************************************************)
EXTENDS QueueRace, TaskQueueProof

-----------------------------------------------------------------------------
(* The inductive invariant.                                                *)

\* The threads whose node is theirs to use, and those whose node is listed.
Holding == {"queued"} \cup Adding \cup Removing
Listed == {"queued", "r_head", "r_inner"}

Busy(t) == tpc[t] \in Adding \cup Removing

\* Every live node is held by one thread, and the list is made of the nodes
\* of the threads that have added theirs and not yet taken it out, each once.
Owners ==
    /\ \A t \in Thread : tpc[t] \in Holding => mine[t] \in allocated
    /\ \A t, u \in Thread :
         tpc[t] \in Holding /\ tpc[u] \in Holding /\ mine[t] = mine[u] => t = u
    /\ \A n \in allocated : \E t \in Thread : tpc[t] \in Holding /\ mine[t] = n
    /\ \A t \in Thread :
         tpc[t] \in Listed => \E i \in 1..Len(order) : order[i] = mine[t]
    /\ \A i \in 1..Len(order) : \E t \in Thread : tpc[t] \in Listed /\ mine[t] = order[i]
    /\ \A i, j \in 1..Len(order) : order[i] = order[j] => i = j

Alone == \A t, u \in Thread : Busy(t) /\ Busy(u) => t = u

\* prev leads back, except where a removal has still to put it right.
BackLinks ==
    \A i \in 2..Len(order) :
       \/ prev[order[i]] = order[i - 1]
       \/ \E t \in Thread : tpc[t] \in {"r_back", "r_link"} /\ next[mine[t]] = order[i]

\* What a thread that works on the list alone relies on at each statement.
AtWork(t) ==
    /\ tpc[t] = "a_first" => HEAD_taskq = NULL /\ next[mine[t]] = NULL
    /\ tpc[t] \in {"a_prev", "a_next", "a_head"} => HEAD_taskq # NULL
    /\ tpc[t] \in {"a_next", "a_head"} => prev[HEAD_taskq] = mine[t]
    /\ tpc[t] = "a_head" => next[mine[t]] = HEAD_taskq
    /\ tpc[t] = "r_head" => mine[t] = HEAD_taskq
    /\ tpc[t] = "r_inner" => mine[t] # HEAD_taskq
    /\ tpc[t] \in {"r_back", "r_link"} =>
         \/ next[mine[t]] = NULL /\ tpc[t] = "r_back"
         \/ \E i \in 2..Len(order) : next[mine[t]] = order[i] /\ prev[mine[t]] = order[i - 1]

Sound == Alone /\ LinkedForward /\ BackLinks /\ \A t \in Thread : AtWork(t)

\* What taskqShow has still to print is the rest of the list.
Undisturbed ==
    /\ ~strayed
    /\ kpc = "show" =>
         /\ \A t \in Thread : tpc[t] \notin Removing
         /\ Len(due) <= Len(order)
         /\ \A i \in 1..Len(due) : due[i] = order[Len(order) - Len(due) + i]
         /\ kcurr = IF due = <<>> THEN NULL ELSE due[1]

\* No add has overlapped another thread's call: then no node gets lost, and
\* every queued node but the head has a predecessor to point at.
NoLostNode ==
    /\ \A t, u \in Thread : tpc[t] \in Adding /\ Busy(u) => t = u
    /\ \A t \in Thread :
         /\ tpc[t] = "a_first" => HEAD_taskq = NULL
         /\ tpc[t] \in {"a_prev", "a_next", "a_head"} => HEAD_taskq # NULL
         /\ tpc[t] \in {"a_next", "a_head"} => prev[HEAD_taskq] # NULL
         /\ tpc[t] = "r_head" => HEAD_taskq = mine[t]
         /\ tpc[t] \in {"r_inner", "r_back", "r_link"} => prev[mine[t]] # NULL
         /\ tpc[t] = "queued" => HEAD_taskq = mine[t] \/ prev[mine[t]] # NULL

AddsRaced == Overlapped("add", "add") \/ Overlapped("add", "remove")

RaceInv ==
    /\ TypeOKRace /\ Owners
    /\ ~ThreadsRaced => Sound
    /\ ~ThreadsRaced /\ ~Overlapped("show", "remove") => Undisturbed
    /\ ~AddsRaced => NoLostNode
    /\ FaultNeedsRace /\ NullNeedsAddRace

-----------------------------------------------------------------------------
(* The record of overlaps.                                                 *)

\* A call that begins adds the overlaps with the calls that are going on.
LEMMA BeginsGrows ==
    ASSUME NEW kind, Begins(kind)
    PROVE  races \subseteq races'
BY DEF Begins

\* A call of taskqAdd that begins beside other calls is recorded with each kind.
LEMMA AddBegins ==
    ASSUME Begins("add")
    PROVE  /\ \A u \in Thread : tpc[u] \in Adding => {"add", "add"} \in races'
           /\ \A u \in Thread : tpc[u] \in Removing => {"add", "remove"} \in races'
<1>1. {"add", "add"} # {"add", "show"} /\ {"add", "remove"} # {"add", "show"}
  OBVIOUS
<1> QED
  BY <1>1 DEF Begins

\* So is a call of taskqRemove, and it notices a list command as well.
LEMMA RemoveBegins ==
    ASSUME Begins("remove")
    PROVE  /\ \A u \in Thread : tpc[u] \in Adding => {"add", "remove"} \in races'
           /\ \A u \in Thread : tpc[u] \in Removing => {"remove", "remove"} \in races'
           /\ kpc = "show" => {"show", "remove"} \in races'
<1>1. /\ {"remove", "add"} # {"add", "show"} /\ {"remove", "remove"} # {"add", "show"}
      /\ {"remove", "show"} # {"add", "show"}
      /\ {"remove", "add"} = {"add", "remove"} /\ {"remove", "show"} = {"show", "remove"}
  OBVIOUS
<1> QED
  BY <1>1 DEF Begins

\* A list command notices the removals that are going on.
LEMMA ShowBegins ==
    ASSUME Begins("show")
    PROVE  \A u \in Thread : tpc[u] \in Removing => {"show", "remove"} \in races'
<1>1. {"show", "remove"} # {"add", "show"}
  OBVIOUS
<1> QED
  BY <1>1 DEF Begins

\* The overlaps stay typed.
LEMMA BeginsTyped ==
    ASSUME NEW kind \in {"add", "remove", "show"}, Begins(kind),
           races \in SUBSET (SUBSET {"add", "remove", "show"})
    PROVE  races' \in SUBSET (SUBSET {"add", "remove", "show"})
<1>1. PICK others : /\ others \subseteq {"add", "remove", "show"}
                    /\ races' = races \cup ({{kind, o} : o \in others} \ {{"add", "show"}})
  <2> DEFINE others == {"add" : t \in {u \in Thread : tpc[u] \in Adding}}
                       \cup {"remove" : t \in {u \in Thread : tpc[u] \in Removing}}
                       \cup (IF kpc = "show" THEN {"show"} ELSE {})
  <2>1. others \subseteq {"add", "remove", "show"}
    OBVIOUS
  <2>2. races' = races \cup ({{kind, o} : o \in others} \ {{"add", "show"}})
    BY DEF Begins
  <2> HIDE DEF others
  <2> QED
    BY <2>1, <2>2
<1>2. ASSUME NEW r \in races' PROVE r \in SUBSET {"add", "remove", "show"}
  <2>1. CASE r \in races
    BY <2>1
  <2>2. CASE r \notin races
    <3>1. PICK o \in others : r = {kind, o}
      BY <1>1, <2>2
    <3>2. o \in {"add", "remove", "show"}
      BY <1>1
    <3> QED
      BY <3>1, <3>2
  <2> QED
    BY <2>1, <2>2
<1> QED
  BY <1>2

\* What has never happened had not happened a step ago.
LEMMA StillCalm ==
    ASSUME races \subseteq races'
    PROVE  /\ ~ThreadsRaced' => ~ThreadsRaced
           /\ ~AddsRaced' => ~AddsRaced
           /\ ~Overlapped("show", "remove")' => ~Overlapped("show", "remove")
           /\ ~ThreadsRaced' => ~AddsRaced'
BY DEF ThreadsRaced, AddsRaced, Overlapped

\* No thread begins a call beside another one's unless threads have raced.
LEMMA BeginsAlone ==
    ASSUME Begins("add") \/ Begins("remove"), ~ThreadsRaced'
    PROVE  \A u \in Thread : ~Busy(u)
BY AddBegins, RemoveBegins DEF ThreadsRaced, Overlapped, Busy

-----------------------------------------------------------------------------
(* The list and the threads whose nodes it is made of.                     *)

Typed == TypeOKRace /\ Owners

\* The elements of the list.
LEMMA OrderFacts ==
    ASSUME Typed
    PROVE  /\ order \in Seq(Node) /\ Len(order) \in Nat
           /\ order = <<>> <=> Len(order) = 0
           /\ \A i \in 1..Len(order) :
                order[i] \in Node /\ order[i] \in allocated /\ order[i] # NULL
           /\ \A i, j \in 1..Len(order) : order[i] = order[j] => i = j
           /\ NULL \notin Node
<1>1. order \in Seq(Node)
  BY DEF Typed, TypeOKRace, TypeOK
<1>2. Len(order) \in Nat /\ (order = <<>> <=> Len(order) = 0)
  BY <1>1, LenProperties, EmptySeq
<1>3. \A i \in 1..Len(order) : order[i] \in Node /\ order[i] # NULL
  BY <1>1, ElementOfSeq, NodeAssumption
<1>4. \A i \in 1..Len(order) : order[i] \in allocated
  BY DEF Typed, Owners, Listed, Holding, Removing
<1>5. \A i, j \in 1..Len(order) : order[i] = order[j] => i = j
  BY DEF Typed, Owners
<1> QED
  BY <1>1, <1>2, <1>3, <1>4, <1>5, NodeAssumption

\* The node of a thread that holds one.
LEMMA MineFacts ==
    ASSUME Typed, NEW t \in Thread, tpc[t] \in Holding
    PROVE  /\ mine[t] \in Node /\ mine[t] \in allocated /\ mine[t] # NULL
           /\ \A u \in Thread : tpc[u] \in Holding /\ u # t => mine[u] # mine[t]
           /\ tpc[t] \notin Listed => \A i \in 1..Len(order) : order[i] # mine[t]
           /\ tpc[t] \in Listed => \E i \in 1..Len(order) : order[i] = mine[t]
<1>1. mine[t] \in allocated /\ allocated \subseteq Node
  BY DEF Typed, TypeOKRace, TypeOK, Owners
<1>2. \A u \in Thread : tpc[u] \in Holding /\ u # t => mine[u] # mine[t]
  BY DEF Typed, Owners
<1>3. tpc[t] \notin Listed => \A i \in 1..Len(order) : order[i] # mine[t]
  <2>1. \A u \in Thread : tpc[u] \in Listed => tpc[u] \in Holding
    BY DEF Listed, Holding, Removing
  <2>2. \A i \in 1..Len(order) : \E u \in Thread : tpc[u] \in Listed /\ mine[u] = order[i]
    BY DEF Typed, Owners
  <2> QED
    BY ONLY <1>2, <2>1, <2>2
<1>4. tpc[t] \in Listed => \E i \in 1..Len(order) : order[i] = mine[t]
  BY DEF Typed, Owners
<1> QED
  BY <1>1, <1>2, <1>3, <1>4, NodeAssumption

\* The head and the links of a list that is sound.
LEMMA LinkFacts ==
    ASSUME Typed, LinkedForward
    PROVE  /\ HEAD_taskq = IF Len(order) = 0 THEN NULL ELSE order[1]
           /\ \A i \in 1..Len(order) :
                next[order[i]] = IF i = Len(order) THEN NULL ELSE order[i + 1]
BY OrderFacts DEF LinkedForward

\* A step after which the same threads hold and list the same nodes.
LEMMA OwnersStay ==
    ASSUME Owners, UNCHANGED <<mine, allocated, order>>,
           \A u \in Thread : (tpc'[u] \in Holding <=> tpc[u] \in Holding)
                             /\ (tpc'[u] \in Listed <=> tpc[u] \in Listed)
    PROVE  Owners'
<1>1. mine' = mine /\ allocated' = allocated /\ order' = order
  OBVIOUS
<1>2. /\ \A u \in Thread : tpc'[u] \in Holding => mine'[u] \in allocated'
      /\ \A u, v \in Thread :
           tpc'[u] \in Holding /\ tpc'[v] \in Holding /\ mine'[u] = mine'[v] => u = v
      /\ \A n \in allocated' : \E u \in Thread : tpc'[u] \in Holding /\ mine'[u] = n
  BY <1>1 DEF Owners
<1>3. /\ \A u \in Thread :
           tpc'[u] \in Listed => \E i \in 1..Len(order') : order'[i] = mine'[u]
      /\ \A i \in 1..Len(order') : \E u \in Thread : tpc'[u] \in Listed /\ mine'[u] = order'[i]
      /\ \A i, j \in 1..Len(order') : order'[i] = order'[j] => i = j
  BY <1>1 DEF Owners
<1> QED
  BY <1>2, <1>3 DEF Owners

\* Thread t takes its node out of the list.
LEMMA OwnersDequeue ==
    ASSUME Typed, NEW t \in Thread, tpc[t] \in {"r_head", "r_inner"},
           Dequeued(t), UNCHANGED <<mine, allocated>>,
           NEW there \in {"r_free", "r_back"}, Goto(t, there)
    PROVE  Owners'
<1>1. PICK i \in 1..Len(order) : order[i] = mine[t] /\ order' = RemoveAt(order, i)
  BY DEF Dequeued
<1>2. /\ order \in Seq(Node) /\ Len(order) \in Nat /\ i \in 1..Len(order)
      /\ \A k, l \in 1..Len(order) : order[k] = order[l] => k = l
  BY <1>1, OrderFacts
<1>3. /\ Len(order') = Len(order) - 1
      /\ \A k \in 1..Len(order) - 1 :
           order'[k] = IF k < i THEN order[k] ELSE order[k + 1]
  <2>1. /\ Len(RemoveAt(order, i)) = Len(order) - 1
        /\ \A k \in 1..Len(order) - 1 :
             RemoveAt(order, i)[k] = IF k < i THEN order[k] ELSE order[k + 1]
    BY ONLY <1>2, RemoveAtProperties
  <2> QED
    BY ONLY <2>1, <1>1
<1>4. /\ tpc \in [Thread -> {"start", "queued", "done"} \cup Adding \cup Removing]
      /\ mine' = mine /\ allocated' = allocated
  BY DEF Typed, TypeOKRace
<1>5. /\ tpc'[t] = there /\ there \in Holding /\ there \notin Listed
      /\ tpc[t] \in Holding /\ tpc[t] \in Listed
      /\ \A u \in Thread : u # t => tpc'[u] = tpc[u]
  BY <1>4 DEF Goto, Holding, Listed, Removing
<1>6. \A k \in 1..Len(order') :
         /\ order'[k] # mine[t]
         /\ \E l \in 1..Len(order) : order'[k] = order[l]
  BY ONLY <1>1, <1>2, <1>3
<1>7. \A l \in 1..Len(order) :
         order[l] # mine[t] => \E k \in 1..Len(order') : order'[k] = order[l]
  <2> SUFFICES ASSUME NEW l \in 1..Len(order), order[l] # mine[t]
               PROVE \E k \in 1..Len(order') : order'[k] = order[l]
    OBVIOUS
  <2>1. CASE l < i
    <3>1. l \in 1..Len(order') /\ order'[l] = order[l]
      BY ONLY <1>2, <1>3, <2>1
    <3> QED
      BY <3>1
  <2>2. CASE ~(l < i)
    <3>1. l # i
      BY <1>1
    <3>2. l - 1 \in 1..Len(order') /\ order'[l - 1] = order[l]
      BY ONLY <1>2, <1>3, <2>2, <3>1
    <3> QED
      BY <3>2
  <2> QED
    BY <2>1, <2>2
<1>8. \A k, l \in 1..Len(order') : order'[k] = order'[l] => k = l
  <2> SUFFICES ASSUME NEW k \in 1..Len(order'), NEW l \in 1..Len(order'),
                      order'[k] = order'[l]
               PROVE  k = l
    OBVIOUS
  <2> DEFINE was(m) == IF m < i THEN m ELSE m + 1
  <2>1. /\ was(k) \in 1..Len(order) /\ was(l) \in 1..Len(order)
        /\ order'[k] = order[was(k)] /\ order'[l] = order[was(l)]
    BY ONLY <1>2, <1>3
  <2>2. was(k) = was(l)
    <3> HIDE DEF was
    <3> QED
      BY ONLY <2>1, <1>2, order'[k] = order'[l]
  <2> QED
    BY ONLY <2>2, <1>2, <1>3
<1>9. Owners
  BY DEF Typed
<1>a. \A u \in Thread : tpc[u] \in Holding /\ u # t => mine[u] # mine[t]
  BY <1>5, <1>9 DEF Owners
<1>b. Listed \subseteq Holding
  BY DEF Listed, Holding, Removing
<1>c. \A u \in Thread : tpc'[u] \in Holding <=> tpc[u] \in Holding
  BY ONLY <1>5
<1>d. \A u \in Thread : tpc'[u] \in Listed <=> tpc[u] \in Listed /\ u # t
  BY ONLY <1>5
<1>e. \A u \in Thread :
        tpc'[u] \in Listed => \E k \in 1..Len(order') : order'[k] = mine[u]
  <2> SUFFICES ASSUME NEW u \in Thread, tpc'[u] \in Listed
               PROVE \E k \in 1..Len(order') : order'[k] = mine[u]
    OBVIOUS
  <2>1. tpc[u] \in Listed /\ u # t
    BY <1>d
  <2>2. mine[u] # mine[t]
    BY <2>1, <1>a, <1>b
  <2>3. PICK l \in 1..Len(order) : order[l] = mine[u]
    BY <2>1, <1>9 DEF Owners
  <2> QED
    BY <2>2, <2>3, <1>7
<1>f. \A k \in 1..Len(order') : \E u \in Thread : tpc'[u] \in Listed /\ mine[u] = order'[k]
  <2> SUFFICES ASSUME NEW k \in 1..Len(order')
               PROVE \E u \in Thread : tpc'[u] \in Listed /\ mine[u] = order'[k]
    OBVIOUS
  <2>1. PICK l \in 1..Len(order) : order'[k] = order[l]
    BY <1>6
  <2>2. PICK u \in Thread : tpc[u] \in Listed /\ mine[u] = order[l]
    BY <1>9 DEF Owners
  <2>3. u # t
    BY <2>1, <2>2, <1>6
  <2> QED
    BY <2>1, <2>2, <2>3, <1>d
<1>g. /\ \A u \in Thread : tpc'[u] \in Holding => mine'[u] \in allocated'
      /\ \A u, v \in Thread :
           tpc'[u] \in Holding /\ tpc'[v] \in Holding /\ mine'[u] = mine'[v] => u = v
      /\ \A n \in allocated' : \E u \in Thread : tpc'[u] \in Holding /\ mine'[u] = n
  BY <1>4, <1>9, <1>c DEF Owners
<1> QED
  BY <1>4, <1>8, <1>e, <1>f, <1>g DEF Owners

-----------------------------------------------------------------------------
(* Types and owners, statement by statement.                               *)

\* The fields of a state, each with its type.
LEMMA Fields ==
    ASSUME Typed
    PROVE  /\ HEAD_taskq \in Node \cup {NULL}
           /\ next \in [Node -> Node \cup {NULL}]
           /\ prev \in [Node -> Node \cup {NULL}]
           /\ client_id \in [Node -> Client]
           /\ allocated \in SUBSET Node
           /\ order \in Seq(Node)
           /\ tpc \in [Thread -> {"start", "queued", "done"} \cup Adding \cup Removing]
           /\ mine \in [Thread -> Node \cup {NULL}]
           /\ kpc \in {"getline", "show"}
           /\ kcurr \in Node \cup {NULL}
           /\ due \in Seq(Node)
           /\ strayed \in BOOLEAN
           /\ races \in SUBSET (SUBSET {"add", "remove", "show"})
           /\ fault \in {"none", "null", "freed"}
BY DEF Typed, TypeOKRace, TypeOK

\* A thread moves on, and the others stay where they are.
LEMMA Moves ==
    ASSUME Typed, NEW t \in Thread, NEW there, Goto(t, there)
    PROVE  tpc'[t] = there /\ \A u \in Thread : u # t => tpc'[u] = tpc[u]
BY Fields DEF Goto

\* taskqAdd gets a node nobody holds.
LEMMA AddTestTyped ==
    ASSUME Typed, NEW t \in Thread, NEW node \in Node, AddTest(t, node)
    PROVE  Typed'
<1>1. TypeOKRace'
  <2>1. races' \in SUBSET (SUBSET {"add", "remove", "show"})
    BY Fields, BeginsTyped DEF AddTest
  <2>2. TypeOK'
    BY Fields DEF AddTest, TypeOK
  <2>3. /\ tpc' \in [Thread -> {"start", "queued", "done"} \cup Adding \cup Removing]
        /\ mine' \in [Thread -> Node \cup {NULL}]
    BY Fields DEF AddTest, Goto, Adding
  <2>4. /\ kpc' \in {"getline", "show"}
        /\ kcurr' \in Node \cup {NULL}
        /\ due' \in Seq(Node)
        /\ strayed' \in BOOLEAN
        /\ fault' \in {"none", "null", "freed"}
    BY Fields DEF AddTest, console
  <2> QED
    BY <2>1, <2>2, <2>3, <2>4 DEF TypeOKRace
<1>2. Owners'
  <2>1. /\ mine'[t] = node /\ \A u \in Thread : u # t => mine'[u] = mine[u]
        /\ allocated' = allocated \cup {node} /\ node \notin allocated /\ order' = order
    BY Fields DEF AddTest
  <2>2. /\ tpc[t] \notin Holding /\ tpc'[t] \in Holding /\ tpc'[t] \notin Listed
        /\ tpc[t] \notin Listed
        /\ \A u \in Thread : u # t => tpc'[u] = tpc[u]
    <3>1. tpc[t] = "start" /\ Goto(t, IF HEAD_taskq = NULL THEN "a_first" ELSE "a_prev")
      BY DEF AddTest
    <3> QED
      BY <3>1, Moves DEF Holding, Listed, Adding, Removing
  <2>3. Owners
    BY DEF Typed
  <2>4. \A u \in Thread : tpc'[u] \in Holding => mine'[u] \in allocated'
    BY <2>1, <2>2, <2>3 DEF Owners
  <2>5. \A u, v \in Thread :
          tpc'[u] \in Holding /\ tpc'[v] \in Holding /\ mine'[u] = mine'[v] => u = v
    BY <2>1, <2>2, <2>3 DEF Owners
  <2>6. \A n \in allocated' : \E u \in Thread : tpc'[u] \in Holding /\ mine'[u] = n
    BY <2>1, <2>2, <2>3 DEF Owners
  <2>7. \A u \in Thread :
          tpc'[u] \in Listed => \E i \in 1..Len(order') : order'[i] = mine'[u]
    BY <2>1, <2>2, <2>3 DEF Owners
  <2>8. \A i \in 1..Len(order') : \E u \in Thread : tpc'[u] \in Listed /\ mine'[u] = order'[i]
    BY <2>1, <2>2, <2>3 DEF Owners
  <2>9. \A i, j \in 1..Len(order') : order'[i] = order'[j] => i = j
    BY <2>1, <2>3 DEF Owners
  <2> QED
    BY <2>4, <2>5, <2>6, <2>7, <2>8, <2>9 DEF Owners
<1> QED
  BY <1>1, <1>2 DEF Typed

\* The list with the node of t in front.
LEMMA Listing ==
    ASSUME Typed, NEW t \in Thread, tpc[t] \in Holding, order' = Cons(mine[t], order)
    PROVE  /\ order' \in Seq(Node)
           /\ Len(order') = Len(order) + 1
           /\ order'[1] = mine[t]
           /\ \A i \in 2..Len(order) + 1 : order'[i] = order[i - 1]
           /\ \A i \in 1..Len(order) : order'[i + 1] = order[i]
<1>1. mine[t] \in Node /\ order \in Seq(Node) /\ Len(order) \in Nat
  BY MineFacts, OrderFacts
<1>2. /\ Cons(mine[t], order) \in Seq(Node)
      /\ Len(Cons(mine[t], order)) = Len(order) + 1
      /\ Cons(mine[t], order)[1] = mine[t]
      /\ \A i \in 2..Len(order) + 1 : Cons(mine[t], order)[i] = order[i - 1]
  <2>1. PICK e \in Node : e = mine[t]
    BY <1>1
  <2>2. order \in Seq(Node)
    BY <1>1
  <2>3. /\ Cons(e, order) \in Seq(Node)
        /\ Len(Cons(e, order)) = Len(order) + 1
        /\ Cons(e, order)[1] = e
        /\ \A i \in 2..Len(order) + 1 : Cons(e, order)[i] = order[i - 1]
    BY ONLY <2>2, e \in Node, ConsProperties
  <2> QED
    BY ONLY <2>1, <2>3
<1>3. \A i \in 1..Len(order) : i + 1 \in 2..Len(order) + 1 /\ (i + 1) - 1 = i
  BY ONLY <1>1
<1> QED
  BY ONLY <1>2, <1>3, order' = Cons(mine[t], order)

\* HEAD_taskq = node: the thread's node is listed from now on.
LEMMA AddHeadTyped ==
    ASSUME Typed, NEW t \in Thread, AddHead(t)
    PROVE  Typed'
<1>0. tpc[t] \in Holding /\ tpc[t] \notin Listed
  BY DEF AddHead, Holding, Listed, Adding, Removing
<1>1. /\ mine[t] \in Node /\ mine[t] \in allocated
      /\ \A i \in 1..Len(order) : order[i] # mine[t]
  BY <1>0, MineFacts
<1>2. /\ order' \in Seq(Node) /\ Len(order) \in Nat
      /\ Len(order') = Len(order) + 1
      /\ order'[1] = mine[t]
      /\ \A i \in 2..Len(order) + 1 : order'[i] = order[i - 1]
      /\ \A i \in 1..Len(order) : order'[i + 1] = order[i]
  <2>1. order' = Cons(mine[t], order)
    BY DEF AddHead
  <2> QED
    BY <1>0, <2>1, Listing, OrderFacts
<1>3. TypeOKRace'
  <2>1. TypeOK'
    BY <1>1, <1>2, Fields DEF AddHead, TypeOK
  <2>2. tpc' \in [Thread -> {"start", "queued", "done"} \cup Adding \cup Removing]
    BY Fields DEF AddHead, Goto
  <2> QED
    BY <2>1, <2>2, Fields DEF AddHead, console, TypeOKRace
<1>4. Owners'
  <2>1. mine' = mine /\ allocated' = allocated
    BY DEF AddHead
  <2>2. /\ tpc'[t] \in Holding /\ tpc'[t] \in Listed
        /\ \A u \in Thread : u # t => tpc'[u] = tpc[u]
    <3>1. Goto(t, "queued")
      BY DEF AddHead
    <3> QED
      BY <3>1, Moves DEF Holding, Listed
  <2>3. Owners
    BY DEF Typed
  <2>4. \A u \in Thread : tpc'[u] \in Holding <=> tpc[u] \in Holding
    BY ONLY <2>2, <1>0
  <2>5. \A u \in Thread : tpc'[u] \in Listed <=> tpc[u] \in Listed \/ u = t
    BY ONLY <2>2, <1>0
  <2>6. \A u \in Thread :
          tpc'[u] \in Listed => \E i \in 1..Len(order') : order'[i] = mine[u]
    <3> SUFFICES ASSUME NEW u \in Thread, tpc'[u] \in Listed
                 PROVE \E i \in 1..Len(order') : order'[i] = mine[u]
      OBVIOUS
    <3>1. CASE u = t
      <4>1. 1 \in 1..Len(order')
        BY <1>2
      <4> QED
        BY <3>1, <4>1, <1>2
    <3>2. CASE u # t
      <4>1. PICK i \in 1..Len(order) : order[i] = mine[u]
        BY <2>3, <2>5, <3>2 DEF Owners
      <4>2. i + 1 \in 1..Len(order') /\ order'[i + 1] = mine[u]
        BY <1>2, <4>1
      <4> QED
        BY <4>2
    <3> QED
      BY <3>1, <3>2
  <2>7. \A i \in 1..Len(order') : \E u \in Thread : tpc'[u] \in Listed /\ mine[u] = order'[i]
    <3> SUFFICES ASSUME NEW i \in 1..Len(order')
                 PROVE \E u \in Thread : tpc'[u] \in Listed /\ mine[u] = order'[i]
      OBVIOUS
    <3>1. CASE i = 1
      BY <3>1, <1>2, <2>5
    <3>2. CASE i # 1
      <4>1. i - 1 \in 1..Len(order) /\ order'[i] = order[i - 1]
        BY <3>2, <1>2
      <4>2. PICK u \in Thread : tpc[u] \in Listed /\ mine[u] = order[i - 1]
        BY <4>1, <2>3 DEF Owners
      <4> QED
        BY <4>1, <4>2, <2>5
    <3> QED
      BY <3>1, <3>2
  <2>8. \A i, j \in 1..Len(order') : order'[i] = order'[j] => i = j
    <3>1. \A i, j \in 1..Len(order) : order[i] = order[j] => i = j
      BY <2>3 DEF Owners
    <3>2. \A i \in 1..Len(order') :
            i = 1 \/ (i - 1 \in 1..Len(order) /\ order'[i] = order[i - 1])
      BY ONLY <1>2
    <3> QED
      BY ONLY <1>1, <1>2, <3>1, <3>2
  <2>9. /\ \A u \in Thread : tpc'[u] \in Holding => mine'[u] \in allocated'
        /\ \A u, v \in Thread :
             tpc'[u] \in Holding /\ tpc'[v] \in Holding /\ mine'[u] = mine'[v] => u = v
        /\ \A n \in allocated' : \E u \in Thread : tpc'[u] \in Holding /\ mine'[u] = n
    BY <2>1, <2>3, <2>4 DEF Owners
  <2> QED
    BY <2>1, <2>6, <2>7, <2>8, <2>9 DEF Owners
<1> QED
  BY <1>3, <1>4 DEF Typed

\* HEAD_taskq->prev = node, or a fault.
LEMMA AddPrevTyped ==
    ASSUME Typed, NEW t \in Thread, AddPrev(t)
    PROVE  Typed'
<1>1. /\ UNCHANGED <<mine, allocated, order, HEAD_taskq, next, client_id, console, races>>
      /\ \/ prev' = prev
         \/ prev' = [prev EXCEPT ![HEAD_taskq] = mine[t]]
      /\ fault' \in {"none", "null", "freed"}
      /\ tpc' = tpc \/ Goto(t, "a_next")
      /\ tpc[t] = "a_prev"
  BY Fields DEF AddPrev, Deref, links, console
<1>2. TypeOKRace'
  <2>1. tpc[t] \in Holding /\ mine[t] \in Node
    BY <1>1, MineFacts DEF Holding, Adding
  <2>2. tpc' \in [Thread -> {"start", "queued", "done"} \cup Adding \cup Removing]
    BY <1>1, Fields DEF Goto, Adding
  <2>3. prev' \in [Node -> Node \cup {NULL}]
    BY <1>1, <2>1, Fields
  <2> QED
    BY <1>1, <2>2, <2>3, Fields DEF TypeOKRace, TypeOK, console
<1>3. \A u \in Thread : (tpc'[u] \in Holding <=> tpc[u] \in Holding)
                        /\ (tpc'[u] \in Listed <=> tpc[u] \in Listed)
  BY <1>1, Moves DEF Holding, Listed, Adding, Removing
<1> QED
  BY <1>1, <1>2, <1>3, OwnersStay DEF Typed

\* node->next = HEAD_taskq.
LEMMA AddNextTyped ==
    ASSUME Typed, NEW t \in Thread, AddNext(t)
    PROVE  Typed'
<1>1. TypeOKRace'
  <2>1. tpc' \in [Thread -> {"start", "queued", "done"} \cup Adding \cup Removing]
    BY Fields DEF AddNext, Goto, Adding
  <2>2. next' \in [Node -> Node \cup {NULL}]
    BY Fields DEF AddNext
  <2> QED
    BY <2>1, <2>2, Fields DEF AddNext, TypeOKRace, TypeOK, console
<1>2. \A u \in Thread : (tpc'[u] \in Holding <=> tpc[u] \in Holding)
                        /\ (tpc'[u] \in Listed <=> tpc[u] \in Listed)
  BY Moves DEF AddNext, Holding, Listed, Adding, Removing
<1>3. UNCHANGED <<mine, allocated, order>>
  BY DEF AddNext
<1> QED
  BY <1>1, <1>2, <1>3, OwnersStay DEF Typed

\* taskqRemove looks whether its node is the head.
LEMMA RemoveTestTyped ==
    ASSUME Typed, NEW t \in Thread, RemoveTest(t)
    PROVE  Typed'
<1>1. TypeOKRace'
  <2>1. tpc' \in [Thread -> {"start", "queued", "done"} \cup Adding \cup Removing]
    BY Fields DEF RemoveTest, Goto, Removing
  <2>2. races' \in SUBSET (SUBSET {"add", "remove", "show"})
    BY Fields, BeginsTyped DEF RemoveTest
  <2> QED
    BY <2>1, <2>2, Fields DEF RemoveTest, TypeOKRace, TypeOK, links, console
<1>2. \A u \in Thread : (tpc'[u] \in Holding <=> tpc[u] \in Holding)
                        /\ (tpc'[u] \in Listed <=> tpc[u] \in Listed)
  BY Moves DEF RemoveTest, Holding, Listed, Adding, Removing
<1>3. UNCHANGED <<mine, allocated, order>>
  BY DEF RemoveTest, links
<1> QED
  BY <1>1, <1>2, <1>3, OwnersStay DEF Typed

\* The list without one of its nodes.
LEMMA Unlisting ==
    ASSUME Typed, NEW i \in 1..Len(order), order' = RemoveAt(order, i)
    PROVE  /\ order' \in Seq(Node)
           /\ Len(order') = Len(order) - 1
           /\ \A k \in 1..Len(order) - 1 :
                order'[k] = IF k < i THEN order[k] ELSE order[k + 1]
<1>1. order \in Seq(Node) /\ i \in 1..Len(order)
  BY OrderFacts
<1>2. /\ RemoveAt(order, i) \in Seq(Node)
      /\ Len(RemoveAt(order, i)) = Len(order) - 1
      /\ \A k \in 1..Len(order) - 1 :
           RemoveAt(order, i)[k] = IF k < i THEN order[k] ELSE order[k + 1]
  BY ONLY <1>1, RemoveAtProperties
<1> QED
  BY ONLY <1>2, order' = RemoveAt(order, i)

\* HEAD_taskq = node->next: the node is listed no more.
LEMMA RemoveHeadTyped ==
    ASSUME Typed, NEW t \in Thread, RemoveHead(t)
    PROVE  Typed'
<1>1. /\ UNCHANGED <<next, client_id, allocated, mine, console, races, fault>>
      /\ HEAD_taskq' = next[mine[t]]
      /\ prev' = [prev EXCEPT ![mine[t]] = IF next[mine[t]] = NULL THEN @ ELSE NULL]
      /\ Dequeued(t) /\ Goto(t, "r_free") /\ tpc[t] = "r_head"
  BY DEF RemoveHead
<1>2. mine[t] \in Node
  BY <1>1, MineFacts DEF Holding, Removing
<1>3. PICK i \in 1..Len(order) : order[i] = mine[t] /\ order' = RemoveAt(order, i)
  BY <1>1 DEF Dequeued
<1>4. order' \in Seq(Node)
  BY <1>3, Unlisting
<1>5. TypeOKRace'
  <2>1. tpc' \in [Thread -> {"start", "queued", "done"} \cup Adding \cup Removing]
    BY <1>1, Fields DEF Goto, Removing
  <2>2. HEAD_taskq' \in Node \cup {NULL}
    BY <1>1, <1>2, Fields
  <2>3. prev' \in [Node -> Node \cup {NULL}]
    BY <1>1, <1>2, Fields
  <2>4. TypeOK'
    BY <1>1, <1>4, <2>2, <2>3, Fields DEF TypeOK
  <2> QED
    BY <1>1, <2>1, <2>4, Fields DEF TypeOKRace, console
<1>6. Owners'
  BY <1>1, OwnersDequeue
<1> QED
  BY <1>5, <1>6 DEF Typed

\* node->prev->next = node->next, or a fault.
LEMMA RemoveInnerTyped ==
    ASSUME Typed, NEW t \in Thread, RemoveInner(t)
    PROVE  Typed'
<1>1. /\ UNCHANGED <<mine, races, HEAD_taskq, prev, client_id, allocated, console>>
      /\ fault' \in {"none", "null", "freed"} /\ tpc[t] = "r_inner"
      /\ \/ UNCHANGED <<next, order, tpc>>
         \/ /\ next' = [next EXCEPT ![prev[mine[t]]] = next[mine[t]]]
            /\ Dequeued(t) /\ Goto(t, "r_back")
  BY Fields DEF RemoveInner, Deref, links, console
<1>2. mine[t] \in Node
  BY <1>1, MineFacts DEF Holding, Removing
<1>3. CASE UNCHANGED <<next, order, tpc>>
  <2>1. TypeOKRace'
    BY <1>1, <1>3, Fields DEF TypeOKRace, TypeOK, console
  <2>2. Owners'
    BY <1>1, <1>3, OwnersStay DEF Typed
  <2> QED
    BY <2>1, <2>2 DEF Typed
<1>4. CASE /\ next' = [next EXCEPT ![prev[mine[t]]] = next[mine[t]]]
           /\ Dequeued(t) /\ Goto(t, "r_back")
  <2>1. PICK i \in 1..Len(order) : order[i] = mine[t] /\ order' = RemoveAt(order, i)
    BY <1>4 DEF Dequeued
  <2>2. order' \in Seq(Node)
    BY <2>1, Unlisting
  <2>3. tpc' \in [Thread -> {"start", "queued", "done"} \cup Adding \cup Removing]
    BY <1>4, Fields DEF Goto, Removing
  <2>4. next' \in [Node -> Node \cup {NULL}]
    BY <1>2, <1>4, Fields
  <2>5. TypeOK'
    BY <1>1, <2>2, <2>4, Fields DEF TypeOK
  <2>6. TypeOKRace'
    BY <1>1, <2>3, <2>5, Fields DEF TypeOKRace, console
  <2>7. Owners'
    BY <1>1, <1>4, OwnersDequeue
  <2> QED
    BY <2>6, <2>7 DEF Typed
<1> QED
  BY <1>1, <1>3, <1>4

\* if (node->next)
LEMMA RemoveBackTyped ==
    ASSUME Typed, NEW t \in Thread, RemoveBack(t)
    PROVE  Typed'
<1>1. /\ UNCHANGED <<HEAD_taskq, next, prev, client_id, allocated, order, mine, console, races,
                     fault>>
      /\ tpc[t] = "r_back" /\ (Goto(t, "r_free") \/ Goto(t, "r_link"))
  BY DEF RemoveBack, links
<1>2. tpc' \in [Thread -> {"start", "queued", "done"} \cup Adding \cup Removing]
  BY <1>1, Fields DEF Goto, Removing
<1>3. TypeOKRace'
  BY <1>1, <1>2, Fields DEF TypeOKRace, TypeOK, console
<1>4. \A u \in Thread : (tpc'[u] \in Holding <=> tpc[u] \in Holding)
                        /\ (tpc'[u] \in Listed <=> tpc[u] \in Listed)
  BY <1>1, Moves DEF Holding, Listed, Adding, Removing
<1> QED
  BY <1>1, <1>3, <1>4, OwnersStay DEF Typed

\* node->next->prev = node->prev, or a fault.
LEMMA RemoveLinkTyped ==
    ASSUME Typed, NEW t \in Thread, RemoveLink(t)
    PROVE  Typed'
<1>1. /\ UNCHANGED <<mine, races, HEAD_taskq, next, client_id, allocated, order, console>>
      /\ fault' \in {"none", "null", "freed"} /\ tpc[t] = "r_link"
      /\ tpc' = tpc \/ Goto(t, "r_free")
      /\ prev' = prev \/ prev' = [prev EXCEPT ![next[mine[t]]] = prev[mine[t]]]
  BY Fields DEF RemoveLink, Deref, links, console
<1>2. mine[t] \in Node
  BY <1>1, MineFacts DEF Holding, Removing
<1>3. TypeOKRace'
  <2>1. tpc' \in [Thread -> {"start", "queued", "done"} \cup Adding \cup Removing]
    BY <1>1, Fields DEF Goto, Removing
  <2>2. prev' \in [Node -> Node \cup {NULL}]
    BY <1>1, <1>2, Fields
  <2> QED
    BY <1>1, <2>1, <2>2, Fields DEF TypeOKRace, TypeOK, console
<1>4. \A u \in Thread : (tpc'[u] \in Holding <=> tpc[u] \in Holding)
                        /\ (tpc'[u] \in Listed <=> tpc[u] \in Listed)
  BY <1>1, Moves DEF Holding, Listed, Adding, Removing
<1> QED
  BY <1>1, <1>3, <1>4, OwnersStay DEF Typed

\* free(node): its thread holds nothing any more.
LEMMA RemoveFreeTyped ==
    ASSUME Typed, NEW t \in Thread, RemoveFree(t)
    PROVE  Typed'
<1>0. tpc[t] = "r_free" /\ tpc[t] \in Holding /\ tpc[t] \notin Listed
  BY DEF RemoveFree, Holding, Listed, Removing
<1>1. TypeOKRace'
  <2>1. tpc' \in [Thread -> {"start", "queued", "done"} \cup Adding \cup Removing]
    BY Fields DEF RemoveFree, Goto
  <2>2. /\ next' \in [Node -> Node \cup {NULL}] /\ prev' \in [Node -> Node \cup {NULL}]
        /\ mine' \in [Thread -> Node \cup {NULL}] /\ allocated' \in SUBSET Node
    BY Fields DEF RemoveFree
  <2> QED
    BY <2>1, <2>2, Fields DEF RemoveFree, TypeOKRace, TypeOK, console
<1>2. Owners'
  <2>1. /\ mine[t] \in allocated
        /\ \A u \in Thread : tpc[u] \in Holding /\ u # t => mine[u] # mine[t]
    BY <1>0, MineFacts
  <2>2. /\ \A u \in Thread : u # t => mine'[u] = mine[u]
        /\ allocated' = allocated \ {mine[t]} /\ order' = order
    BY Fields DEF RemoveFree
  <2>3. /\ tpc'[t] \notin Holding /\ tpc'[t] \notin Listed
        /\ \A u \in Thread : u # t => tpc'[u] = tpc[u]
    <3>1. Goto(t, "done")
      BY DEF RemoveFree
    <3> QED
      BY <3>1, Moves DEF Holding, Listed, Adding, Removing
  <2>4. Owners
    BY DEF Typed
  <2>5. \A u \in Thread : tpc'[u] \in Holding => mine'[u] \in allocated'
    BY <2>1, <2>2, <2>3, <2>4 DEF Owners
  <2>6. \A u, v \in Thread :
          tpc'[u] \in Holding /\ tpc'[v] \in Holding /\ mine'[u] = mine'[v] => u = v
    BY <2>2, <2>3, <2>4 DEF Owners
  <2>7. \A n \in allocated' : \E u \in Thread : tpc'[u] \in Holding /\ mine'[u] = n
    BY <2>2, <2>3, <2>4 DEF Owners
  <2>8. \A u \in Thread :
          tpc'[u] \in Listed => \E i \in 1..Len(order') : order'[i] = mine'[u]
    BY <2>2, <2>3, <2>4 DEF Owners
  <2>9. \A i \in 1..Len(order') : \E u \in Thread : tpc'[u] \in Listed /\ mine'[u] = order'[i]
    BY <2>2, <2>3, <2>4, <1>0 DEF Owners
  <2>a. \A i, j \in 1..Len(order') : order'[i] = order'[j] => i = j
    BY <2>2, <2>4 DEF Owners
  <2> QED
    BY <2>5, <2>6, <2>7, <2>8, <2>9, <2>a DEF Owners
<1> QED
  BY <1>1, <1>2 DEF Typed

\* The list command changes nothing but its own variables.
LEMMA ShowTyped ==
    ASSUME Typed, ShowBegin \/ Show
    PROVE  Typed'
<1>1. UNCHANGED <<links, tpc, mine>>
  BY DEF ShowBegin, Show, ShowStep, ShowEnd, Deref
<1>2. /\ kpc' \in {"getline", "show"} /\ kcurr' \in Node \cup {NULL} /\ due' \in Seq(Node)
      /\ strayed' \in BOOLEAN
      /\ races' \in SUBSET (SUBSET {"add", "remove", "show"})
      /\ fault' \in {"none", "null", "freed"}
  <2>1. CASE ShowBegin
    <3>1. races' \in SUBSET (SUBSET {"add", "remove", "show"})
      BY <2>1, Fields, BeginsTyped DEF ShowBegin
    <3> QED
      BY <2>1, <3>1, Fields DEF ShowBegin
  <2>2. CASE ShowStep
    <3>1. CASE UNCHANGED console
      BY <2>2, <3>1, Fields DEF ShowStep, Deref, console
    <3>2. CASE /\ kcurr \in allocated
               /\ kcurr' = next[kcurr]
               /\ strayed' = (strayed \/ due = <<>> \/ due[1] # kcurr)
               /\ due' = IF strayed' THEN <<>> ELSE Tail(due)
               /\ kpc' = kpc
               /\ fault' = fault
      <4>1. strayed' \in BOOLEAN
        BY <3>2
      <4>2. due' \in Seq(Node)
        <5>1. CASE due = <<>>
          BY <5>1, <3>2, Fields
        <5>2. CASE due # <<>>
          BY <5>2, <3>2, Fields
        <5> QED
          BY <5>1, <5>2
      <4>3. races' = races
        BY <2>2 DEF ShowStep
      <4> QED
        BY <3>2, <4>1, <4>2, <4>3, Fields
    <3> QED
      BY <2>2, <3>1, <3>2 DEF ShowStep, Deref
  <2>3. CASE ShowEnd
    BY <2>3, Fields DEF ShowEnd
  <2> QED
    BY <2>1, <2>2, <2>3 DEF Show
<1>3. TypeOKRace'
  BY <1>1, <1>2, Fields DEF TypeOKRace, TypeOK, links
<1>4. Owners'
  BY <1>1, OwnersStay DEF links, Typed
<1> QED
  BY <1>3, <1>4 DEF Typed

-----------------------------------------------------------------------------
(* The links, until two threads' calls have overlapped.                    *)

\* When only t works on the list it is alone, and no other thread's progress
\* has to be looked at.
LEMMA OneAtWork ==
    ASSUME NEW t \in Thread, \A u \in Thread : u # t => tpc'[u] \notin Adding \cup Removing,
           AtWork(t)'
    PROVE  Alone' /\ (\A u \in Thread : AtWork(u))'
<1>1. Alone'
  BY DEF Alone, Busy
<1>2. ASSUME NEW u \in Thread, u # t PROVE AtWork(u)'
  <2>1. tpc'[u] \notin Adding \cup Removing
    BY <1>2
  <2> QED
    BY ONLY <2>1 DEF AtWork, Adding, Removing
<1> QED
  BY <1>1, <1>2

\* The thread that works on a sound list is the only one, and prev leads back
\* unless it is between the two halves of a removal.
LEMMA TheWorker ==
    ASSUME Sound, NEW t \in Thread, tpc[t] \in Adding \cup Removing
    PROVE  /\ \A u \in Thread : u # t => tpc[u] \notin Adding \cup Removing
           /\ AtWork(t)
           /\ \A i \in 2..Len(order) :
                \/ prev[order[i]] = order[i - 1]
                \/ tpc[t] \in {"r_back", "r_link"} /\ next[mine[t]] = order[i]
<1>1. \A u \in Thread : u # t => tpc[u] \notin Adding \cup Removing
  BY DEF Sound, Alone, Busy
<1>2. \A u \in Thread : tpc[u] \in {"r_back", "r_link"} => u = t
  BY <1>1 DEF Removing
<1> QED
  BY <1>1, <1>2 DEF Sound, BackLinks

\* And when no thread works on it, prev leads back everywhere.
LEMMA NobodyAtWork ==
    ASSUME Sound, \A u \in Thread : ~Busy(u)
    PROVE  \A i \in 2..Len(order) : prev[order[i]] = order[i - 1]
BY DEF Sound, BackLinks, Busy, Removing

\* A new node is not linked to anything, and no other thread is at work.
LEMMA AddTestSound ==
    ASSUME Typed, Sound, ~ThreadsRaced',
           NEW t \in Thread, NEW node \in Node, AddTest(t, node)
    PROVE  Sound'
<1>0. \A u \in Thread : ~Busy(u)
  BY BeginsAlone DEF AddTest
<1>1. /\ HEAD_taskq' = HEAD_taskq /\ order' = order /\ node \notin allocated
      /\ next'[node] = NULL /\ mine'[t] = node
      /\ \A n \in Node : n # node => next'[n] = next[n] /\ prev'[n] = prev[n]
  BY Fields DEF AddTest
<1>2. /\ tpc'[t] = IF HEAD_taskq = NULL THEN "a_first" ELSE "a_prev"
      /\ \A u \in Thread : u # t => tpc'[u] = tpc[u]
  BY Moves DEF AddTest
<1>3. \A i \in 1..Len(order) : order[i] \in Node /\ order[i] # node
  BY <1>1, OrderFacts
<1>4. LinkedForward'
  BY <1>1, <1>3 DEF Sound, LinkedForward
<1>5. BackLinks'
  <2>1. Len(order) \in Nat
    BY OrderFacts
  <2>2. \A i \in 2..Len(order) : prev[order[i]] = order[i - 1]
    BY <1>0, NobodyAtWork
  <2> QED
    BY <2>1, <2>2, <1>1, <1>3 DEF BackLinks
<1>6. AtWork(t)'
  BY <1>1, <1>2 DEF AtWork
<1>7. \A u \in Thread : u # t => tpc'[u] \notin Adding \cup Removing
  BY <1>0, <1>2 DEF Busy
<1> QED
  BY <1>4, <1>5, <1>6, <1>7, OneAtWork DEF Sound

\* The new head leads to the old one, which leads back.
LEMMA AddHeadSound ==
    ASSUME Typed, Sound, NEW t \in Thread, AddHead(t)
    PROVE  Sound'
<1>0. tpc[t] \in Adding \cup Removing /\ tpc[t] \in {"a_first", "a_head"}
      /\ tpc[t] \in Holding /\ tpc[t] \notin {"r_back", "r_link"}
  BY DEF AddHead, Adding, Holding
<1>1. /\ HEAD_taskq' = mine[t] /\ next' = next /\ prev' = prev
      /\ order' = Cons(mine[t], order) /\ Goto(t, "queued")
  BY DEF AddHead
<1>2. /\ order' \in Seq(Node)
      /\ Len(order') = Len(order) + 1
      /\ order'[1] = mine[t]
      /\ \A i \in 2..Len(order) + 1 : order'[i] = order[i - 1]
      /\ \A i \in 1..Len(order) : order'[i + 1] = order[i]
  BY <1>0, <1>1, Listing
<1>3. Len(order) \in Nat /\ (order = <<>> <=> Len(order) = 0) /\ order' # <<>>
      /\ \A i \in 1..Len(order) : order[i] # NULL
  BY <1>2, OrderFacts
<1>4. /\ HEAD_taskq = IF Len(order) = 0 THEN NULL ELSE order[1]
      /\ \A i \in 1..Len(order) :
           next[order[i]] = IF i = Len(order) THEN NULL ELSE order[i + 1]
  BY LinkFacts DEF Sound
<1>5. /\ \A u \in Thread : u # t => tpc[u] \notin Adding \cup Removing
      /\ AtWork(t)
      /\ \A i \in 2..Len(order) : prev[order[i]] = order[i - 1]
  BY <1>0, TheWorker
<1>6. next[mine[t]] = HEAD_taskq /\ (Len(order) # 0 => prev[HEAD_taskq] = mine[t])
  BY <1>0, <1>3, <1>4, <1>5 DEF AtWork
<1>7. LinkedForward'
  <2>1. ASSUME NEW i \in 1..Len(order')
        PROVE  next[order'[i]] = IF i = Len(order') THEN NULL ELSE order'[i + 1]
    <3>1. CASE i = 1
      <4>1. CASE Len(order) = 0
        BY ONLY <4>1, <3>1, <1>2, <1>4, <1>6
      <4>2. CASE Len(order) # 0
        <5>1. 1 \in 1..Len(order)
          BY <4>2, <1>3
        <5>2. order'[1 + 1] = order[1] /\ 1 # Len(order')
          BY ONLY <5>1, <1>2, <1>3, <4>2
        <5> QED
          BY ONLY <5>2, <4>2, <3>1, <1>2, <1>4, <1>6
      <4> QED
        BY <4>1, <4>2
    <3>2. CASE i # 1
      <4>1. i - 1 \in 1..Len(order) /\ order'[i] = order[i - 1] /\ (i - 1) + 1 = i
            /\ (i - 1 = Len(order) <=> i = Len(order'))
        BY ONLY <3>2, <1>2, <1>3, i \in 1..Len(order')
      <4>2. i # Len(order') => i \in 1..Len(order) /\ order'[i + 1] = order[i]
        BY ONLY <4>1, <1>2, <1>3, i \in 1..Len(order')
      <4>3. next[order[i - 1]] = IF i - 1 = Len(order) THEN NULL ELSE order[(i - 1) + 1]
        BY ONLY <4>1, <1>4
      <4> QED
        BY ONLY <4>1, <4>2, <4>3
    <3> QED
      BY <3>1, <3>2
  <2> QED
    BY <2>1, <1>1, <1>2, <1>3 DEF LinkedForward
<1>8. BackLinks'
  <2>1. ASSUME NEW i \in 2..Len(order')
        PROVE  prev[order'[i]] = order'[i - 1]
    <3>1. CASE i = 2
      <4>1. Len(order) # 0 /\ order'[2] = order[1]
        BY ONLY <3>1, <1>2, <1>3, i \in 2..Len(order')
      <4> QED
        BY ONLY <4>1, <3>1, <1>2, <1>4, <1>6
    <3>2. CASE i # 2
      <4>1. /\ i - 1 \in 2..Len(order) /\ order'[i] = order[i - 1]
            /\ order'[i - 1] = order[(i - 1) - 1]
        BY ONLY <3>2, <1>2, <1>3, i \in 2..Len(order')
      <4> QED
        BY ONLY <4>1, <1>5
    <3> QED
      BY <3>1, <3>2
  <2> QED
    BY <2>1, <1>1 DEF BackLinks
<1>9. tpc'[t] = "queued" /\ \A u \in Thread : u # t => tpc'[u] = tpc[u]
  BY <1>1, Moves
<1>a. AtWork(t)'
  BY <1>9 DEF AtWork
<1>b. \A u \in Thread : u # t => tpc'[u] \notin Adding \cup Removing
  BY <1>5, <1>9
<1> QED
  BY <1>7, <1>8, <1>a, <1>b, OneAtWork DEF Sound

\* The prev of the head is of no importance to the list as it stands.
LEMMA AddPrevSound ==
    ASSUME Typed, Sound, NEW t \in Thread, AddPrev(t), tpc' # tpc
    PROVE  Sound'
<1>0. tpc[t] \in Adding \cup Removing /\ tpc[t] = "a_prev"
  BY DEF AddPrev, Adding
<1>1. /\ HEAD_taskq' = HEAD_taskq /\ next' = next /\ order' = order /\ mine' = mine
      /\ prev' = [prev EXCEPT ![HEAD_taskq] = mine[t]]
      /\ Goto(t, "a_next") /\ HEAD_taskq # NULL
  BY DEF AddPrev, Deref
<1>2. /\ \A u \in Thread : u # t => tpc[u] \notin Adding \cup Removing
      /\ AtWork(t)
      /\ \A i \in 2..Len(order) : prev[order[i]] = order[i - 1]
  BY <1>0, TheWorker
<1>3. tpc'[t] = "a_next" /\ \A u \in Thread : u # t => tpc'[u] = tpc[u]
  BY <1>1, Moves
<1>4. prev'[HEAD_taskq] = mine[t] /\ \A n \in Node : n # HEAD_taskq => prev'[n] = prev[n]
  BY <1>1, Fields
<1>5. LinkedForward'
  BY <1>1 DEF Sound, LinkedForward
<1>6. BackLinks'
  <2>1. HEAD_taskq = IF Len(order) = 0 THEN NULL ELSE order[1]
    BY LinkFacts DEF Sound
  <2>2. /\ Len(order) \in Nat
        /\ \A i \in 1..Len(order) : order[i] \in Node
        /\ \A i, j \in 1..Len(order) : order[i] = order[j] => i = j
    BY OrderFacts
  <2>3. ASSUME NEW i \in 2..Len(order) PROVE prev'[order[i]] = order[i - 1]
    <3>1. i \in 1..Len(order) /\ 1 \in 1..Len(order) /\ i # 1 /\ Len(order) # 0
      BY <2>2
    <3>2. order[i] # HEAD_taskq /\ order[i] \in Node
      BY ONLY <3>1, <2>1, <2>2
    <3> QED
      BY <3>2, <1>2, <1>4
  <2> QED
    BY <2>3, <1>1 DEF BackLinks
<1>7. AtWork(t)'
  BY <1>1, <1>3, <1>4 DEF AtWork
<1>8. \A u \in Thread : u # t => tpc'[u] \notin Adding \cup Removing
  BY <1>2, <1>3
<1> QED
  BY <1>5, <1>6, <1>7, <1>8, OneAtWork DEF Sound

\* Nor is the next of a node that is not listed yet.
LEMMA AddNextSound ==
    ASSUME Typed, Sound, NEW t \in Thread, AddNext(t)
    PROVE  Sound'
<1>0. /\ tpc[t] \in Adding \cup Removing /\ tpc[t] = "a_next"
      /\ tpc[t] \in Holding /\ tpc[t] \notin Listed
  BY DEF AddNext, Adding, Holding, Listed
<1>1. /\ HEAD_taskq' = HEAD_taskq /\ prev' = prev /\ order' = order /\ mine' = mine
      /\ next' = [next EXCEPT ![mine[t]] = HEAD_taskq]
      /\ Goto(t, "a_head")
  BY DEF AddNext
<1>2. /\ \A u \in Thread : u # t => tpc[u] \notin Adding \cup Removing
      /\ AtWork(t)
      /\ \A i \in 2..Len(order) : prev[order[i]] = order[i - 1]
  BY <1>0, TheWorker
<1>3. tpc'[t] = "a_head" /\ \A u \in Thread : u # t => tpc'[u] = tpc[u]
  BY <1>1, Moves
<1>4. mine[t] \in Node /\ \A i \in 1..Len(order) : order[i] # mine[t] /\ order[i] \in Node
  BY <1>0, MineFacts, OrderFacts
<1>5. next'[mine[t]] = HEAD_taskq /\ \A n \in Node : n # mine[t] => next'[n] = next[n]
  BY <1>1, <1>4, Fields
<1>6. LinkedForward'
  BY <1>1, <1>4, <1>5 DEF Sound, LinkedForward
<1>7. BackLinks'
  BY <1>1, <1>2 DEF BackLinks
<1>8. AtWork(t)'
  BY <1>0, <1>1, <1>2, <1>3, <1>5 DEF AtWork
<1>9. \A u \in Thread : u # t => tpc'[u] \notin Adding \cup Removing
  BY <1>2, <1>3
<1> QED
  BY <1>6, <1>7, <1>8, <1>9, OneAtWork DEF Sound

\* Whether the node is the head stays true while the thread works alone.
LEMMA RemoveTestSound ==
    ASSUME Typed, Sound, ~ThreadsRaced', NEW t \in Thread, RemoveTest(t)
    PROVE  Sound'
<1>0. \A u \in Thread : ~Busy(u)
  BY BeginsAlone DEF RemoveTest
<1>1. /\ HEAD_taskq' = HEAD_taskq /\ next' = next /\ prev' = prev /\ order' = order
      /\ mine' = mine
      /\ Goto(t, IF mine[t] = HEAD_taskq THEN "r_head" ELSE "r_inner")
  BY DEF RemoveTest, links
<1>2. /\ tpc'[t] = IF mine[t] = HEAD_taskq THEN "r_head" ELSE "r_inner"
      /\ \A u \in Thread : u # t => tpc'[u] = tpc[u]
  BY <1>1, Moves
<1>3. LinkedForward'
  BY <1>1 DEF Sound, LinkedForward
<1>4. BackLinks'
  BY <1>0, <1>1, NobodyAtWork DEF BackLinks
<1>5. AtWork(t)'
  BY <1>1, <1>2 DEF AtWork
<1>6. \A u \in Thread : u # t => tpc'[u] \notin Adding \cup Removing
  BY <1>0, <1>2 DEF Busy
<1> QED
  BY <1>3, <1>4, <1>5, <1>6, OneAtWork DEF Sound

\* The second node becomes the head, and its prev may dangle.
LEMMA RemoveHeadSound ==
    ASSUME Typed, Sound, NEW t \in Thread, RemoveHead(t)
    PROVE  Sound'
<1>0. tpc[t] \in Adding \cup Removing /\ tpc[t] = "r_head" /\ tpc[t] \in Holding
  BY DEF RemoveHead, Removing, Holding
<1>1. /\ HEAD_taskq' = next[mine[t]] /\ next' = next /\ mine' = mine
      /\ prev' = [prev EXCEPT ![mine[t]] = IF next[mine[t]] = NULL THEN @ ELSE NULL]
      /\ Dequeued(t) /\ Goto(t, "r_free")
  BY DEF RemoveHead
<1>2. /\ \A u \in Thread : u # t => tpc[u] \notin Adding \cup Removing
      /\ AtWork(t)
      /\ \A i \in 2..Len(order) : prev[order[i]] = order[i - 1]
  BY <1>0, TheWorker
<1>3. PICK i \in 1..Len(order) : order[i] = mine[t] /\ order' = RemoveAt(order, i)
  BY <1>1 DEF Dequeued
<1>4. /\ Len(order) \in Nat /\ i \in 1..Len(order)
      /\ \A k \in 1..Len(order) : order[k] \in Node /\ order[k] # NULL
      /\ \A k, l \in 1..Len(order) : order[k] = order[l] => k = l
  BY <1>3, OrderFacts
<1>5. /\ HEAD_taskq = IF Len(order) = 0 THEN NULL ELSE order[1]
      /\ \A k \in 1..Len(order) :
           next[order[k]] = IF k = Len(order) THEN NULL ELSE order[k + 1]
  BY LinkFacts DEF Sound
<1>6. i = 1
  <2>1. mine[t] = HEAD_taskq
    BY <1>0, <1>2 DEF AtWork
  <2>2. 1 \in 1..Len(order) /\ Len(order) # 0
    BY ONLY <1>4
  <2> QED
    BY ONLY <2>1, <2>2, <1>3, <1>4, <1>5
<1>7. /\ order' \in Seq(Node) /\ Len(order') = Len(order) - 1
      /\ \A k \in 1..Len(order') : order'[k] = order[k + 1] /\ k + 1 \in 1..Len(order)
  <2>1. /\ order' \in Seq(Node) /\ Len(order') = Len(order) - 1
        /\ \A k \in 1..Len(order) - 1 :
             order'[k] = IF k < i THEN order[k] ELSE order[k + 1]
    BY <1>3, Unlisting
  <2> QED
    BY ONLY <2>1, <1>4, <1>6
<1>8. order' = <<>> <=> Len(order') = 0
  BY <1>7, EmptySeq
<1>9. LinkedForward'
  <2>1. next[mine[t]] = IF 1 = Len(order) THEN NULL ELSE order[1 + 1]
    BY ONLY <1>3, <1>4, <1>5, <1>6
  <2>2. HEAD_taskq' = IF order' = <<>> THEN NULL ELSE order'[1]
    <3>1. CASE Len(order) = 1
      BY ONLY <3>1, <2>1, <1>1, <1>7, <1>8
    <3>2. CASE Len(order) # 1
      <4>1. 1 \in 1..Len(order') /\ order' # <<>>
        BY ONLY <3>2, <1>4, <1>7, <1>8
      <4>2. order'[1] = order[1 + 1]
        BY ONLY <4>1, <1>7
      <4> QED
        BY ONLY <4>1, <4>2, <3>2, <2>1, <1>1
    <3> QED
      BY <3>1, <3>2
  <2>3. ASSUME NEW k \in 1..Len(order')
        PROVE  next[order'[k]] = IF k = Len(order') THEN NULL ELSE order'[k + 1]
    <3>1. next[order[k + 1]] = IF k + 1 = Len(order) THEN NULL ELSE order[(k + 1) + 1]
      BY <1>5, <1>7
    <3>2. (k + 1 = Len(order) <=> k = Len(order'))
          /\ (k # Len(order') => k + 1 \in 1..Len(order'))
      BY ONLY <1>4, <1>7, k \in 1..Len(order')
    <3> QED
      BY <3>1, <3>2, <1>7
  <2> QED
    BY <2>2, <2>3, <1>1 DEF LinkedForward
<1>a. BackLinks'
  <2>1. ASSUME NEW k \in 2..Len(order') PROVE prev'[order'[k]] = order'[k - 1]
    <3>1. /\ k \in 1..Len(order') /\ k - 1 \in 1..Len(order')
          /\ k + 1 \in 2..Len(order) /\ (k - 1) + 1 = (k + 1) - 1
      BY ONLY <1>4, <1>7, k \in 2..Len(order')
    <3>2. /\ order'[k] = order[k + 1] /\ k + 1 \in 1..Len(order)
          /\ order'[k - 1] = order[(k - 1) + 1]
      BY ONLY <3>1, <1>7
    <3>3. k + 1 # i
      BY ONLY <3>1, <1>6
    <3>4. order'[k] # mine[t] /\ order'[k] \in Node
      BY ONLY <3>2, <3>3, <1>3, <1>4
    <3>5. prev'[order'[k]] = prev[order'[k]]
      BY <3>4, <1>1, Fields
    <3> QED
      BY ONLY <3>1, <3>2, <3>5, <1>2
  <2> QED
    BY <2>1 DEF BackLinks
<1>b. tpc'[t] = "r_free" /\ \A u \in Thread : u # t => tpc'[u] = tpc[u]
  BY <1>1, Moves
<1>c. AtWork(t)'
  BY <1>b DEF AtWork
<1>d. \A u \in Thread : u # t => tpc'[u] \notin Adding \cup Removing
  BY <1>2, <1>b
<1> QED
  BY <1>9, <1>a, <1>c, <1>d, OneAtWork DEF Sound

\* What the pointers of the node are that is taken out below the head.
LEMMA InnerFacts ==
    ASSUME Typed, Sound, NEW t \in Thread, tpc[t] = "r_inner",
           NEW i \in 1..Len(order), order[i] = mine[t]
    PROVE  /\ i \in 2..Len(order)
           /\ prev[mine[t]] = order[i - 1]
           /\ next[mine[t]] = IF i = Len(order) THEN NULL ELSE order[i + 1]
<1>0. tpc[t] \in Adding \cup Removing /\ tpc[t] \notin {"r_back", "r_link"}
  BY DEF Removing
<1>1. /\ AtWork(t)
      /\ \A k \in 2..Len(order) : prev[order[k]] = order[k - 1]
  BY <1>0, TheWorker
<1>2. /\ HEAD_taskq = IF Len(order) = 0 THEN NULL ELSE order[1]
      /\ \A k \in 1..Len(order) :
           next[order[k]] = IF k = Len(order) THEN NULL ELSE order[k + 1]
      /\ Len(order) \in Nat
  BY LinkFacts, OrderFacts DEF Sound
<1>3. mine[t] # HEAD_taskq
  BY <1>1 DEF AtWork
<1>4. i # 1
  BY <1>2, <1>3
<1>5. i \in 2..Len(order)
  BY <1>2, <1>4
<1> QED
  BY <1>1, <1>2, <1>5

\* The predecessor leads past the node; the successor still leads back to it,
\* unless there is none.
LEMMA RemoveInnerSound ==
    ASSUME Typed, Sound, NEW t \in Thread, RemoveInner(t), tpc' # tpc
    PROVE  Sound'
<1>0. tpc[t] \in Adding \cup Removing /\ tpc[t] = "r_inner"
  BY DEF RemoveInner, Removing
<1>1. /\ HEAD_taskq' = HEAD_taskq /\ prev' = prev /\ mine' = mine
      /\ next' = [next EXCEPT ![prev[mine[t]]] = next[mine[t]]]
      /\ Dequeued(t) /\ Goto(t, "r_back")
  BY DEF RemoveInner, Deref
<1>2. /\ \A u \in Thread : u # t => tpc[u] \notin Adding \cup Removing
      /\ \A k \in 2..Len(order) : prev[order[k]] = order[k - 1]
  BY <1>0, TheWorker
<1>3. PICK i \in 1..Len(order) : order[i] = mine[t] /\ order' = RemoveAt(order, i)
  BY <1>1 DEF Dequeued
<1>4. /\ Len(order) \in Nat /\ i \in 1..Len(order)
      /\ \A k \in 1..Len(order) : order[k] \in Node /\ order[k] # NULL
      /\ \A k, l \in 1..Len(order) : order[k] = order[l] => k = l
  BY <1>3, OrderFacts
<1>5. /\ HEAD_taskq = IF Len(order) = 0 THEN NULL ELSE order[1]
      /\ \A k \in 1..Len(order) :
           next[order[k]] = IF k = Len(order) THEN NULL ELSE order[k + 1]
  BY LinkFacts DEF Sound
<1>6. /\ i \in 2..Len(order) /\ i - 1 \in 1..Len(order)
      /\ prev[mine[t]] = order[i - 1]
      /\ next[mine[t]] = IF i = Len(order) THEN NULL ELSE order[i + 1]
  BY <1>0, <1>3, <1>4, InnerFacts
<1>7. /\ order' \in Seq(Node) /\ Len(order') = Len(order) - 1
      /\ \A k \in 1..Len(order') :
           order'[k] = IF k < i THEN order[k] ELSE order[k + 1]
      /\ order' # <<>>
  <2>1. /\ order' \in Seq(Node) /\ Len(order') = Len(order) - 1
        /\ \A k \in 1..Len(order) - 1 :
             order'[k] = IF k < i THEN order[k] ELSE order[k + 1]
    BY <1>3, Unlisting
  <2> QED
    BY <2>1, <1>4, <1>6, EmptySeq
<1>8. /\ next'[order[i - 1]] = next[mine[t]]
      /\ \A n \in Node : n # order[i - 1] => next'[n] = next[n]
  BY <1>1, <1>4, <1>6, Fields
<1>9. LinkedForward'
  <2>1. HEAD_taskq' = order'[1]
    <3>1. 1 \in 1..Len(order') /\ 1 < i /\ Len(order) # 0
      BY ONLY <1>4, <1>6, <1>7
    <3> QED
      BY ONLY <3>1, <1>1, <1>5, <1>7
  <2>2. ASSUME NEW k \in 1..Len(order')
        PROVE  next'[order'[k]] = IF k = Len(order') THEN NULL ELSE order'[k + 1]
    <3>1. CASE k = i - 1
      <4>1. order'[k] = order[i - 1]
        BY ONLY <3>1, <1>4, <1>6, <1>7, k \in 1..Len(order')
      <4>2. k = Len(order') <=> i = Len(order)
        BY ONLY <3>1, <1>4, <1>6, <1>7
      <4>3. k # Len(order') => order'[k + 1] = order[i + 1]
        <5>1. k # Len(order') => k + 1 \in 1..Len(order') /\ ~(k + 1 < i) /\ (k + 1) + 1 = i + 1
          BY ONLY <3>1, <1>4, <1>6, <1>7
        <5> QED
          BY ONLY <5>1, <1>7
      <4> QED
        BY ONLY <4>1, <4>2, <4>3, <1>6, <1>8
    <3>2. CASE k < i - 1
      <4>1. /\ order'[k] = order[k] /\ k \in 1..Len(order) /\ k # i - 1
            /\ k # Len(order') /\ k # Len(order) /\ order'[k + 1] = order[k + 1]
        BY ONLY <3>2, <1>4, <1>6, <1>7, k \in 1..Len(order')
      <4>2. order[k] # order[i - 1] /\ order[k] \in Node
        BY ONLY <4>1, <1>4, <1>6
      <4> QED
        BY ONLY <4>1, <4>2, <1>5, <1>8
    <3>3. CASE i - 1 < k
      <4>1. /\ order'[k] = order[k + 1] /\ k + 1 \in 1..Len(order) /\ k + 1 # i - 1
            /\ (k = Len(order') <=> k + 1 = Len(order))
        BY ONLY <3>3, <1>4, <1>6, <1>7, k \in 1..Len(order')
      <4>2. order[k + 1] # order[i - 1] /\ order[k + 1] \in Node
        BY ONLY <4>1, <1>4, <1>6
      <4>3. k # Len(order') => order'[k + 1] = order[(k + 1) + 1]
        BY ONLY <3>3, <1>4, <1>6, <1>7, k \in 1..Len(order')
      <4>4. next[order[k + 1]] = IF k + 1 = Len(order) THEN NULL ELSE order[(k + 1) + 1]
        BY ONLY <4>1, <1>5
      <4> QED
        BY ONLY <4>1, <4>2, <4>3, <4>4, <1>8
    <3> QED
      BY ONLY <3>1, <3>2, <3>3, <1>4, <1>6, <1>7, k \in 1..Len(order')
  <2> QED
    BY <2>1, <2>2, <1>7 DEF LinkedForward
<1>b. tpc'[t] = "r_back" /\ \A u \in Thread : u # t => tpc'[u] = tpc[u]
  BY <1>1, Moves
<1>c. next'[mine[t]] = next[mine[t]]
  <2>1. order[i] # order[i - 1] /\ order[i] \in Node
    BY ONLY <1>4, <1>6
  <2> QED
    BY <2>1, <1>3, <1>8
<1>d. i # Len(order) => i \in 2..Len(order') /\ order'[i] = order[i + 1]
                        /\ order'[i - 1] = order[i - 1]
  BY ONLY <1>4, <1>6, <1>7
<1>e. BackLinks'
  <2>1. ASSUME NEW k \in 2..Len(order'), k # i PROVE prev[order'[k]] = order'[k - 1]
    <3>1. CASE k < i
      <4>1. order'[k] = order[k] /\ order'[k - 1] = order[k - 1] /\ k \in 2..Len(order)
        BY ONLY <3>1, <1>4, <1>6, <1>7, k \in 2..Len(order')
      <4> QED
        BY <4>1, <1>2
    <3>2. CASE i < k
      <4>0. /\ k \in 1..Len(order') /\ ~(k < i)
            /\ k - 1 \in 1..Len(order') /\ ~(k - 1 < i)
            /\ k + 1 \in 2..Len(order) /\ (k - 1) + 1 = (k + 1) - 1
        BY ONLY <3>2, <1>4, <1>6, <1>7, k \in 2..Len(order')
      <4>1. /\ order'[k] = order[k + 1] /\ order'[k - 1] = order[(k - 1) + 1]
            /\ k + 1 \in 2..Len(order) /\ (k - 1) + 1 = (k + 1) - 1
        BY ONLY <4>0, <1>7
      <4>2. prev[order[k + 1]] = order[(k + 1) - 1]
        BY ONLY <4>1, <1>2
      <4> QED
        BY ONLY <4>1, <4>2
    <3> QED
      BY ONLY <3>1, <3>2, <2>1, <1>4, k \in 2..Len(order')
  <2>2. i \in 2..Len(order') => next'[mine[t]] = order'[i]
    <3>1. i \in 2..Len(order') => i # Len(order)
      BY ONLY <1>4, <1>7
    <3> QED
      BY ONLY <3>1, <1>6, <1>c, <1>d
  <2>3. prev' = prev /\ mine' = mine
    BY <1>1
  <2>4. ASSUME NEW k \in 2..Len(order')
        PROVE  \/ prev'[order'[k]] = order'[k - 1]
               \/ \E u \in Thread : /\ tpc'[u] \in {"r_back", "r_link"}
                                     /\ next'[mine'[u]] = order'[k]
    <3>1. CASE k = i
      BY <3>1, <2>2, <2>3, <1>b
    <3>2. CASE k # i
      BY <3>2, <2>1, <2>3
    <3> QED
      BY <3>1, <3>2
  <2> QED
    BY <2>4 DEF BackLinks
<1>f. AtWork(t)'
  <2>1. CASE i = Len(order)
    BY <2>1, <1>1, <1>6, <1>b, <1>c DEF AtWork
  <2>2. CASE i # Len(order)
    <3>1. /\ i \in 2..Len(order')
          /\ next'[mine[t]] = order'[i] /\ prev[mine[t]] = order'[i - 1]
      BY ONLY <2>2, <1>6, <1>c, <1>d
    <3> QED
      BY <3>1, <1>1, <1>b DEF AtWork
  <2> QED
    BY <2>1, <2>2
<1>g. \A u \in Thread : u # t => tpc'[u] \notin Adding \cup Removing
  BY <1>2, <1>b
<1> QED
  BY <1>9, <1>e, <1>f, <1>g, OneAtWork DEF Sound

\* Nobody else works on the list: the test of node->next stays true.
LEMMA RemoveBackSound ==
    ASSUME Typed, Sound, NEW t \in Thread, RemoveBack(t)
    PROVE  Sound'
<1>0. tpc[t] \in Adding \cup Removing /\ tpc[t] = "r_back"
  BY DEF RemoveBack, Removing
<1>1. /\ HEAD_taskq' = HEAD_taskq /\ next' = next /\ prev' = prev /\ order' = order
      /\ mine' = mine
      /\ Goto(t, IF next[mine[t]] = NULL THEN "r_free" ELSE "r_link")
  BY DEF RemoveBack, links
<1>2. /\ \A u \in Thread : u # t => tpc[u] \notin Adding \cup Removing
      /\ AtWork(t)
      /\ \A i \in 2..Len(order) :
           prev[order[i]] = order[i - 1] \/ next[mine[t]] = order[i]
  BY <1>0, TheWorker
<1>3. \A i \in 2..Len(order) : i \in 1..Len(order) /\ order[i] # NULL
  BY OrderFacts
<1>4. LinkedForward'
  BY <1>1 DEF Sound, LinkedForward
<1>5. /\ tpc'[t] = IF next[mine[t]] = NULL THEN "r_free" ELSE "r_link"
      /\ \A u \in Thread : u # t => tpc'[u] = tpc[u]
  BY <1>1, Moves
<1>6. BackLinks'
  BY <1>1, <1>2, <1>3, <1>5 DEF BackLinks
<1>7. AtWork(t)'
  BY <1>0, <1>1, <1>2, <1>5 DEF AtWork
<1>8. \A u \in Thread : u # t => tpc'[u] \notin Adding \cup Removing
  BY <1>2, <1>5
<1> QED
  BY <1>4, <1>6, <1>7, <1>8, OneAtWork DEF Sound

\* The successor leads back to the predecessor.
LEMMA RemoveLinkSound ==
    ASSUME Typed, Sound, NEW t \in Thread, RemoveLink(t), tpc' # tpc
    PROVE  Sound'
<1>0. tpc[t] \in Adding \cup Removing /\ tpc[t] = "r_link"
  BY DEF RemoveLink, Removing
<1>1. /\ HEAD_taskq' = HEAD_taskq /\ next' = next /\ order' = order /\ mine' = mine
      /\ Goto(t, "r_free")
      /\ prev' = [prev EXCEPT ![next[mine[t]]] = prev[mine[t]]]
  BY DEF RemoveLink, Deref, links
<1>2. /\ \A u \in Thread : u # t => tpc[u] \notin Adding \cup Removing
      /\ AtWork(t)
      /\ \A i \in 2..Len(order) :
           prev[order[i]] = order[i - 1] \/ next[mine[t]] = order[i]
  BY <1>0, TheWorker
<1>3. /\ Len(order) \in Nat
      /\ \A i \in 2..Len(order) : i \in 1..Len(order) /\ order[i] \in Node /\ order[i] # NULL
      /\ \A k, l \in 1..Len(order) : order[k] = order[l] => k = l
  BY OrderFacts
<1>4. LinkedForward'
  BY <1>1 DEF Sound, LinkedForward
<1>5. BackLinks'
  <2>1. PICK k \in 2..Len(order) : next[mine[t]] = order[k] /\ prev[mine[t]] = order[k - 1]
    BY <1>0, <1>2 DEF AtWork
  <2>2. prev' = [prev EXCEPT ![order[k]] = order[k - 1]]
    BY <2>1, <1>1
  <2>3. prev'[order[k]] = order[k - 1] /\ \A n \in Node : n # order[k] => prev'[n] = prev[n]
    BY <2>2, <1>3, Fields
  <2>4. \A i \in 2..Len(order) : prev'[order[i]] = order[i - 1]
    BY ONLY <2>1, <2>3, <1>2, <1>3
  <2> QED
    BY <2>4, <1>1 DEF BackLinks
<1>6. tpc'[t] = "r_free" /\ \A u \in Thread : u # t => tpc'[u] = tpc[u]
  BY <1>1, Moves
<1>7. AtWork(t)'
  BY <1>6 DEF AtWork
<1>8. \A u \in Thread : u # t => tpc'[u] \notin Adding \cup Removing
  BY <1>2, <1>6
<1> QED
  BY <1>4, <1>5, <1>7, <1>8, OneAtWork DEF Sound

\* Nothing on the list leads to the node that is freed.
LEMMA RemoveFreeSound ==
    ASSUME Typed, Sound, NEW t \in Thread, RemoveFree(t)
    PROVE  Sound'
<1>0. /\ tpc[t] \in Adding \cup Removing /\ tpc[t] = "r_free"
      /\ tpc[t] \in Holding /\ tpc[t] \notin Listed
  BY DEF RemoveFree, Removing, Holding, Listed
<1>1. /\ HEAD_taskq' = HEAD_taskq /\ order' = order /\ Goto(t, "done")
      /\ \A n \in Node : n # mine[t] => next'[n] = next[n] /\ prev'[n] = prev[n]
  BY Fields DEF RemoveFree
<1>2. /\ \A u \in Thread : u # t => tpc[u] \notin Adding \cup Removing
      /\ \A i \in 2..Len(order) : prev[order[i]] = order[i - 1]
  BY <1>0, TheWorker
<1>3. /\ Len(order) \in Nat
      /\ \A i \in 1..Len(order) : order[i] \in Node /\ order[i] # mine[t]
  BY <1>0, MineFacts, OrderFacts
<1>4. LinkedForward'
  BY <1>1, <1>3 DEF Sound, LinkedForward
<1>5. BackLinks'
  BY <1>1, <1>2, <1>3 DEF BackLinks
<1>6. tpc'[t] = "done" /\ \A u \in Thread : u # t => tpc'[u] = tpc[u]
  BY <1>1, Moves
<1>7. AtWork(t)'
  BY <1>6 DEF AtWork
<1>8. \A u \in Thread : u # t => tpc'[u] \notin Adding \cup Removing
  BY <1>2, <1>6
<1> QED
  BY <1>4, <1>5, <1>7, <1>8, OneAtWork DEF Sound

\* A step that leaves the links and the threads alone.
LEMMA SoundStays ==
    ASSUME Sound, UNCHANGED <<links, tpc, mine>>
    PROVE  Sound'
<1>1. /\ HEAD_taskq' = HEAD_taskq /\ next' = next /\ prev' = prev /\ order' = order
      /\ tpc' = tpc /\ mine' = mine
  BY DEF links
<1>2. Alone' /\ LinkedForward' /\ BackLinks'
  BY <1>1 DEF Sound, Alone, Busy, LinkedForward, BackLinks
<1>3. ASSUME NEW t \in Thread PROVE AtWork(t)'
  <2>1. AtWork(t)
    BY DEF Sound
  <2> QED
    BY ONLY <1>1, <2>1 DEF AtWork
<1> QED
  BY <1>2, <1>3 DEF Sound

-----------------------------------------------------------------------------
(* The list command, until a removal has overlapped it.                    *)

\* A step of no thread that removes, which leaves the list and the console be.
LEMMA UndisturbedStays ==
    ASSUME Undisturbed, UNCHANGED <<console, order>>,
           \A u \in Thread : tpc'[u] \in Removing => tpc[u] \in Removing \/ kpc # "show"
    PROVE  Undisturbed'
<1>1. strayed' = strayed /\ kpc' = kpc /\ due' = due /\ kcurr' = kcurr /\ order' = order
  BY DEF console
<1>2. ~strayed'
  BY <1>1 DEF Undisturbed
<1>3. kpc' = "show" =>
        /\ \A u \in Thread : tpc'[u] \notin Removing
        /\ Len(due') <= Len(order')
        /\ \A i \in 1..Len(due') : due'[i] = order'[Len(order') - Len(due') + i]
        /\ kcurr' = IF due' = <<>> THEN NULL ELSE due'[1]
  BY <1>1 DEF Undisturbed
<1> QED
  BY <1>2, <1>3 DEF Undisturbed

\* A removal finds the console waiting for a command.
LEMMA NotShowing ==
    ASSUME Undisturbed, NEW t \in Thread, tpc[t] \in Removing, UNCHANGED console
    PROVE  Undisturbed'
<1>1. ~strayed' /\ kpc' # "show"
  BY DEF Undisturbed, console
<1> QED
  BY <1>1 DEF Undisturbed

\* An addition puts its node before those that are still to be printed.
LEMMA AddHeadUndisturbed ==
    ASSUME Typed, Undisturbed, NEW t \in Thread, AddHead(t)
    PROVE  Undisturbed'
<1>0. tpc[t] \in Holding
  BY DEF AddHead, Adding, Holding
<1>1. /\ UNCHANGED <<kpc, kcurr, due, strayed>>
      /\ order' = Cons(mine[t], order) /\ Goto(t, "queued")
  BY DEF AddHead, console
<1>2. /\ Len(order') = Len(order) + 1
      /\ \A i \in 1..Len(order) : order'[i + 1] = order[i]
  BY <1>0, <1>1, Listing
<1>3. Len(order) \in Nat /\ Len(due) \in Nat
  BY OrderFacts, Fields, LenProperties
<1>4. ASSUME kpc = "show"
      PROVE  /\ \A u \in Thread : tpc'[u] \notin Removing
             /\ Len(due) <= Len(order')
             /\ \A i \in 1..Len(due) : due[i] = order'[Len(order') - Len(due) + i]
             /\ kcurr = IF due = <<>> THEN NULL ELSE due[1]
  <2>1. /\ \A u \in Thread : tpc[u] \notin Removing
        /\ Len(due) <= Len(order)
        /\ \A i \in 1..Len(due) : due[i] = order[Len(order) - Len(due) + i]
        /\ kcurr = IF due = <<>> THEN NULL ELSE due[1]
    BY <1>4 DEF Undisturbed
  <2>2. \A u \in Thread : tpc'[u] \notin Removing
    BY <2>1, <1>1, Moves DEF Removing
  <2>3. ASSUME NEW i \in 1..Len(due) PROVE due[i] = order'[Len(order') - Len(due) + i]
    <3>1. PICK j \in 1..Len(order) : /\ j = Len(order) - Len(due) + i
                                     /\ j + 1 = Len(order') - Len(due) + i
      BY ONLY <1>2, <1>3, <2>1, i \in 1..Len(due)
    <3>2. order'[j + 1] = order[j]
      BY <1>2
    <3>3. due[i] = order[j]
      BY <2>1, <3>1
    <3> QED
      BY <3>1, <3>2, <3>3
  <2> QED
    BY <2>1, <2>2, <2>3, <1>2, <1>3
<1> QED
  BY <1>1, <1>4 DEF Undisturbed

\* taskqShow starts at the head, with the whole list to print.
LEMMA ShowBeginUndisturbed ==
    ASSUME Typed, Sound, Undisturbed, ~Overlapped("show", "remove")', ShowBegin
    PROVE  Undisturbed'
<1>1. /\ strayed' = strayed /\ order' = order /\ tpc' = tpc
      /\ kcurr' = HEAD_taskq /\ due' = order /\ ~strayed
  BY DEF ShowBegin, links, Undisturbed
<1>2. \A u \in Thread : tpc[u] \notin Removing
  BY ShowBegins DEF ShowBegin, Overlapped
<1>3. Len(order) \in Nat /\ HEAD_taskq = IF order = <<>> THEN NULL ELSE order[1]
  BY OrderFacts DEF Sound, LinkedForward
<1>4. \A i \in 1..Len(order) : order[i] = order[Len(order) - Len(order) + i]
  BY <1>3
<1> QED
  BY <1>1, <1>2, <1>3, <1>4 DEF Undisturbed

\* The node taskqShow is at, while nothing disturbs it.
LEMMA ShowFacts ==
    ASSUME Typed, Undisturbed, kpc = "show", kcurr # NULL
    PROVE  /\ due # <<>> /\ Len(due) \in Nat \ {0} /\ Len(due) <= Len(order)
           /\ kcurr = due[1] /\ kcurr = order[Len(order) - Len(due) + 1]
           /\ Len(order) - Len(due) + 1 \in 1..Len(order)
<1>1. Len(order) \in Nat /\ due \in Seq(Node)
  BY OrderFacts, Fields
<1>2. due # <<>> /\ kcurr = due[1] /\ Len(due) <= Len(order)
  BY DEF Undisturbed
<1>3. Len(due) \in Nat \ {0}
  BY <1>1, <1>2, EmptySeq, LenProperties
<1>4. due[1] = order[Len(order) - Len(due) + 1]
  BY <1>3 DEF Undisturbed
<1> QED
  BY <1>1, <1>2, <1>3, <1>4

\* It prints a node and goes on to the next one.
LEMMA ShowStepUndisturbed ==
    ASSUME Typed, Sound, Undisturbed, ShowStep
    PROVE  Undisturbed'
<1>1. CASE UNCHANGED <<links, tpc, console>>
  BY <1>1, UndisturbedStays DEF links
<1>2. CASE /\ kcurr' = next[kcurr]
           /\ strayed' = (strayed \/ due = <<>> \/ due[1] # kcurr)
           /\ due' = IF strayed' THEN <<>> ELSE Tail(due)
           /\ UNCHANGED <<links, tpc, kpc>>
  <2>0. kpc = "show" /\ kcurr # NULL /\ order' = order /\ tpc' = tpc /\ kpc' = kpc
    BY <1>2 DEF ShowStep, links
  <2>1. /\ due # <<>> /\ Len(due) \in Nat \ {0} /\ Len(due) <= Len(order)
        /\ kcurr = due[1] /\ kcurr = order[Len(order) - Len(due) + 1]
        /\ Len(order) - Len(due) + 1 \in 1..Len(order)
    BY <2>0, ShowFacts
  <2>2. ~strayed
    BY DEF Undisturbed
  <2>3. ~strayed' /\ due' = Tail(due)
    BY <1>2, <2>1, <2>2
  <2>4. due \in Seq(Node) /\ Len(order) \in Nat
    BY Fields, OrderFacts
  <2>5. /\ due' \in Seq(Node) /\ Len(due') = Len(due) - 1
        /\ \A i \in 1..Len(due) - 1 : due'[i] = due[i + 1]
    BY <2>1, <2>3, <2>4, HeadTailProperties
  <2>6. /\ \A u \in Thread : tpc[u] \notin Removing
        /\ \A i \in 1..Len(due) : due[i] = order[Len(order) - Len(due) + i]
    BY <2>0 DEF Undisturbed
  <2>7. ASSUME NEW i \in 1..Len(due')
        PROVE  due'[i] = order[Len(order) - Len(due') + i]
    <3>1. /\ i + 1 \in 1..Len(due)
          /\ Len(order) - Len(due') + i = Len(order) - Len(due) + (i + 1)
      BY ONLY <2>1, <2>4, <2>5, i \in 1..Len(due')
    <3>2. due'[i] = due[i + 1]
      BY ONLY <2>1, <2>5, i \in 1..Len(due')
    <3> QED
      BY ONLY <3>1, <3>2, <2>6
  <2>8. kcurr' = IF due' = <<>> THEN NULL ELSE due'[1]
    <3>1. next[kcurr] = IF Len(order) - Len(due) + 1 = Len(order) THEN NULL
                        ELSE order[Len(order) - Len(due) + 1 + 1]
      BY <2>1, LinkFacts DEF Sound
    <3>2. kcurr' = next[kcurr]
      BY <1>2
    <3>3. CASE Len(due) = 1
      <4>1. due' = <<>>
        BY <3>3, <2>5, EmptySeq
      <4>2. Len(order) - Len(due) + 1 = Len(order)
        BY ONLY <3>3, <2>4
      <4> QED
        BY ONLY <3>1, <3>2, <4>1, <4>2
    <3>4. CASE Len(due) # 1
      <4>1. 1 \in 1..Len(due') /\ due' # <<>>
        BY <3>4, <2>1, <2>5, EmptySeq
      <4>2. /\ Len(order) - Len(due) + 1 # Len(order)
            /\ Len(order) - Len(due) + 1 + 1 = Len(order) - Len(due') + 1
        BY ONLY <3>4, <2>1, <2>4, <2>5
      <4>3. due'[1] = order[Len(order) - Len(due') + 1]
        BY <4>1, <2>7
      <4> QED
        BY ONLY <3>1, <3>2, <4>1, <4>2, <4>3
    <3> QED
      BY <3>3, <3>4
  <2> QED
    BY <2>0, <2>1, <2>3, <2>4, <2>5, <2>6, <2>7, <2>8 DEF Undisturbed
<1> QED
  BY <1>1, <1>2 DEF ShowStep, Deref

\* When it meets null it has printed everything.
LEMMA ShowEndUndisturbed ==
    ASSUME Typed, Undisturbed, ShowEnd
    PROVE  Undisturbed'
<1>1. kpc = "show" /\ kcurr = NULL /\ kpc' = "getline" /\ strayed' = (strayed \/ due # <<>>)
  BY DEF ShowEnd
<1>2. ~strayed /\ kcurr = IF due = <<>> THEN NULL ELSE due[1]
  BY <1>1 DEF Undisturbed
<1>3. due = <<>>
  <2> SUFFICES ASSUME due # <<>> PROVE FALSE
    OBVIOUS
  <2>1. due[1] \in Node /\ NULL \notin Node
    <3>1. due \in Seq(Node)
      BY Fields
    <3> QED
      BY <3>1, EmptySeq, ElementOfSeq, LenProperties, NodeAssumption
  <2> QED
    BY <2>1, <1>1, <1>2
<1>4. ~strayed' /\ kpc' # "show"
  BY <1>1, <1>2, <1>3
<1> QED
  BY <1>4 DEF Undisturbed

-----------------------------------------------------------------------------
(* Null pointers, until an add has overlapped another thread's call.       *)

\* An add that overlaps no other call finds the head as it will stay.
LEMMA AddTestNoLost ==
    ASSUME Typed, NoLostNode, ~AddsRaced',
           NEW t \in Thread, NEW node \in Node, AddTest(t, node)
    PROVE  NoLostNode'
<1>0. \A u \in Thread : ~Busy(u)
  BY AddBegins DEF AddTest, AddsRaced, Overlapped, Busy
<1>1. /\ HEAD_taskq' = HEAD_taskq /\ node \notin allocated
      /\ \A u \in Thread : u # t => mine'[u] = mine[u]
      /\ \A n \in Node : n # node => prev'[n] = prev[n]
  BY Fields DEF AddTest
<1>2. /\ tpc'[t] = IF HEAD_taskq = NULL THEN "a_first" ELSE "a_prev"
      /\ \A u \in Thread : u # t => tpc'[u] = tpc[u]
  BY Moves DEF AddTest
<1>3. \A u \in Thread : u # t => tpc'[u] \notin Adding \cup Removing
  BY <1>0, <1>2 DEF Busy
<1>4. \A u \in Thread :
        tpc'[u] = "queued" => HEAD_taskq' = mine'[u] \/ prev'[mine'[u]] # NULL
  <2> SUFFICES ASSUME NEW u \in Thread, tpc'[u] = "queued"
               PROVE HEAD_taskq' = mine'[u] \/ prev'[mine'[u]] # NULL
    OBVIOUS
  <2>1. u # t /\ tpc[u] = "queued"
    BY <1>2
  <2>2. HEAD_taskq = mine[u] \/ prev[mine[u]] # NULL
    BY <2>1 DEF NoLostNode
  <2>3. mine[u] \in Node /\ mine[u] \in allocated
    BY <2>1, MineFacts DEF Holding
  <2> QED
    BY <2>1, <2>2, <2>3, <1>1
<1>5. \A u, v \in Thread : tpc'[u] \in Adding /\ tpc'[v] \in Adding \cup Removing => u = v
  BY <1>3
<1>6. \A u \in Thread :
        /\ tpc'[u] = "a_first" => HEAD_taskq' = NULL
        /\ tpc'[u] \in {"a_prev", "a_next", "a_head"} => HEAD_taskq' # NULL
        /\ tpc'[u] \in {"a_next", "a_head"} => prev'[HEAD_taskq'] # NULL
        /\ tpc'[u] = "r_head" => HEAD_taskq' = mine'[u]
        /\ tpc'[u] \in {"r_inner", "r_back", "r_link"} => prev'[mine'[u]] # NULL
  BY <1>1, <1>2, <1>3 DEF Adding, Removing
<1> QED
  BY <1>4, <1>5, <1>6 DEF NoLostNode, Busy

\* While a thread adds, no other one is at work.
LEMMA TheAdder ==
    ASSUME NoLostNode, NEW t \in Thread, tpc[t] \in Adding
    PROVE  \A u \in Thread : u # t => tpc[u] \notin Adding \cup Removing
BY DEF NoLostNode, Busy

\* The old head, if there is one, has got its predecessor by then.
LEMMA AddHeadNoLost ==
    ASSUME Typed, NoLostNode, NEW t \in Thread, AddHead(t)
    PROVE  NoLostNode'
<1>0. tpc[t] \in Adding /\ tpc[t] \in {"a_first", "a_head"}
  BY DEF AddHead, Adding
<1>1. HEAD_taskq' = mine[t] /\ prev' = prev /\ mine' = mine /\ Goto(t, "queued")
  BY DEF AddHead
<1>2. tpc'[t] = "queued" /\ \A u \in Thread : u # t => tpc'[u] = tpc[u]
  BY <1>1, Moves
<1>3. \A u \in Thread : tpc'[u] \notin Adding \cup Removing
  BY <1>0, <1>2, TheAdder DEF Adding, Removing
<1>4. \A u \in Thread :
        tpc'[u] = "queued" => HEAD_taskq' = mine'[u] \/ prev'[mine'[u]] # NULL
  <2> SUFFICES ASSUME NEW u \in Thread, tpc'[u] = "queued", u # t
               PROVE prev[mine[u]] # NULL
    BY <1>1
  <2>1. tpc[u] = "queued"
    BY <1>2
  <2>2. mine[u] # NULL
    BY <2>1, MineFacts DEF Holding
  <2>3. HEAD_taskq = mine[u] \/ prev[mine[u]] # NULL
    BY <2>1 DEF NoLostNode
  <2>4. HEAD_taskq = NULL \/ prev[HEAD_taskq] # NULL
    BY <1>0 DEF NoLostNode
  <2> QED
    BY <2>2, <2>3, <2>4
<1>5. \A u \in Thread : tpc'[u] \notin {"a_first", "a_prev", "a_next", "a_head"}
                        /\ tpc'[u] \notin {"r_head", "r_inner", "r_back", "r_link"}
  BY <1>3 DEF Adding, Removing
<1> QED
  BY <1>3, <1>4, <1>5 DEF NoLostNode, Busy

\* Here it gets it.
LEMMA AddPrevNoLost ==
    ASSUME Typed, NoLostNode, NEW t \in Thread, AddPrev(t), tpc' # tpc
    PROVE  NoLostNode'
<1>0. tpc[t] \in Adding /\ tpc[t] = "a_prev" /\ tpc[t] \in Holding
  BY DEF AddPrev, Adding, Holding
<1>1. /\ HEAD_taskq' = HEAD_taskq /\ mine' = mine /\ HEAD_taskq # NULL
      /\ prev' = [prev EXCEPT ![HEAD_taskq] = mine[t]]
      /\ Goto(t, "a_next")
  BY DEF AddPrev, Deref
<1>2. tpc'[t] = "a_next" /\ \A u \in Thread : u # t => tpc'[u] = tpc[u]
  BY <1>1, Moves
<1>3. mine[t] # NULL
  BY <1>0, MineFacts
<1>4. /\ prev'[HEAD_taskq] # NULL
      /\ \A n \in Node : prev[n] # NULL => prev'[n] # NULL
  BY <1>1, <1>3, Fields
<1>5. \A u \in Thread : u # t => tpc'[u] \notin Adding \cup Removing
  BY <1>0, <1>2, TheAdder
<1>6. \A u \in Thread :
        tpc'[u] = "queued" => HEAD_taskq' = mine'[u] \/ prev'[mine'[u]] # NULL
  <2> SUFFICES ASSUME NEW u \in Thread, tpc'[u] = "queued"
               PROVE HEAD_taskq = mine[u] \/ prev'[mine[u]] # NULL
    BY <1>1
  <2>1. tpc[u] = "queued"
    BY <1>2
  <2>2. mine[u] \in Node
    BY <2>1, MineFacts DEF Holding
  <2>3. HEAD_taskq = mine[u] \/ prev[mine[u]] # NULL
    BY <2>1 DEF NoLostNode
  <2> QED
    BY <2>2, <2>3, <1>4
<1>7. \A u \in Thread :
        /\ tpc'[u] = "a_first" => HEAD_taskq' = NULL
        /\ tpc'[u] \in {"a_prev", "a_next", "a_head"} => HEAD_taskq' # NULL
        /\ tpc'[u] \in {"a_next", "a_head"} => prev'[HEAD_taskq'] # NULL
        /\ tpc'[u] = "r_head" => HEAD_taskq' = mine'[u]
        /\ tpc'[u] \in {"r_inner", "r_back", "r_link"} => prev'[mine'[u]] # NULL
  BY <1>1, <1>2, <1>4, <1>5 DEF Adding, Removing
<1>8. \A u, v \in Thread : tpc'[u] \in Adding /\ tpc'[v] \in Adding \cup Removing => u = v
  BY <1>5
<1> QED
  BY <1>6, <1>7, <1>8 DEF NoLostNode, Busy

\* The links back stay as they are.
LEMMA AddNextNoLost ==
    ASSUME Typed, NoLostNode, NEW t \in Thread, AddNext(t)
    PROVE  NoLostNode'
<1>0. tpc[t] \in Adding /\ tpc[t] = "a_next"
  BY DEF AddNext, Adding
<1>1. HEAD_taskq' = HEAD_taskq /\ mine' = mine /\ prev' = prev /\ Goto(t, "a_head")
  BY DEF AddNext
<1>2. tpc'[t] = "a_head" /\ \A u \in Thread : u # t => tpc'[u] = tpc[u]
  BY <1>1, Moves
<1>3. \A u \in Thread : u # t => tpc'[u] \notin Adding \cup Removing
  BY <1>0, <1>2, TheAdder
<1>4. HEAD_taskq # NULL /\ prev[HEAD_taskq] # NULL
  BY <1>0 DEF NoLostNode
<1>5. \A u \in Thread : tpc'[u] = "queued" => HEAD_taskq = mine[u] \/ prev[mine[u]] # NULL
  BY <1>2 DEF NoLostNode
<1>6. \A u \in Thread : tpc'[u] # "a_first" /\ tpc'[u] \notin {"r_head", "r_inner", "r_back", "r_link"}
  BY <1>2, <1>3 DEF Adding, Removing
<1>7. \A u, v \in Thread : tpc'[u] \in Adding /\ tpc'[v] \in Adding \cup Removing => u = v
  BY <1>3
<1> QED
  BY <1>1, <1>4, <1>5, <1>6, <1>7 DEF NoLostNode, Busy

\* A queued node that is not the head has a predecessor.
LEMMA RemoveTestNoLost ==
    ASSUME Typed, NoLostNode, ~AddsRaced', NEW t \in Thread, RemoveTest(t)
    PROVE  NoLostNode'
<1>0. /\ \A u \in Thread : tpc[u] \notin Adding
      /\ tpc[t] = "queued"
  BY RemoveBegins DEF RemoveTest, AddsRaced, Overlapped
<1>1. /\ HEAD_taskq' = HEAD_taskq /\ prev' = prev /\ mine' = mine
      /\ Goto(t, IF mine[t] = HEAD_taskq THEN "r_head" ELSE "r_inner")
  BY DEF RemoveTest, links
<1>2. /\ tpc'[t] = IF mine[t] = HEAD_taskq THEN "r_head" ELSE "r_inner"
      /\ \A u \in Thread : u # t => tpc'[u] = tpc[u]
  BY <1>1, Moves
<1>3. \A u \in Thread : tpc'[u] \notin Adding
  BY <1>0, <1>2 DEF Adding
<1>4. HEAD_taskq = mine[t] \/ prev[mine[t]] # NULL
  BY <1>0 DEF NoLostNode
<1>5. \A u \in Thread : u # t =>
        /\ tpc'[u] = "r_head" => HEAD_taskq = mine[u]
        /\ tpc'[u] \in {"r_inner", "r_back", "r_link"} => prev[mine[u]] # NULL
        /\ tpc'[u] = "queued" => HEAD_taskq = mine[u] \/ prev[mine[u]] # NULL
  BY <1>2 DEF NoLostNode
<1>6. \A u \in Thread : tpc'[u] \notin {"a_first", "a_prev", "a_next", "a_head"}
  BY <1>3 DEF Adding
<1> QED
  BY <1>1, <1>2, <1>3, <1>4, <1>5, <1>6 DEF NoLostNode, Busy

\* While a thread removes, none adds.
LEMMA NoAdder ==
    ASSUME NoLostNode, NEW t \in Thread, tpc[t] \in Removing
    PROVE  \A u \in Thread : tpc[u] \notin Adding
BY DEF NoLostNode, Busy, Adding, Removing

\* Only the removed node's own prev is cleared.
LEMMA RemoveHeadNoLost ==
    ASSUME Typed, NoLostNode, NEW t \in Thread, RemoveHead(t)
    PROVE  NoLostNode'
<1>0. tpc[t] \in Removing /\ tpc[t] = "r_head" /\ tpc[t] \in Holding
  BY DEF RemoveHead, Removing, Holding
<1>1. /\ mine' = mine /\ Goto(t, "r_free")
      /\ prev' = [prev EXCEPT ![mine[t]] = IF next[mine[t]] = NULL THEN @ ELSE NULL]
  BY DEF RemoveHead
<1>2. tpc'[t] = "r_free" /\ \A u \in Thread : u # t => tpc'[u] = tpc[u]
  BY <1>1, Moves
<1>3. \A u \in Thread : tpc'[u] \notin Adding
  BY <1>0, <1>2, NoAdder DEF Adding
<1>4. /\ HEAD_taskq = mine[t]
      /\ \A u \in Thread : tpc[u] \in Holding /\ u # t => mine[u] # mine[t]
  BY <1>0, MineFacts DEF NoLostNode
<1>5. \A n \in Node : n # mine[t] => prev'[n] = prev[n]
  BY <1>1, Fields
<1>6. ASSUME NEW u \in Thread
      PROVE  /\ tpc'[u] # "r_head"
             /\ tpc'[u] \in {"r_inner", "r_back", "r_link", "queued"} => prev'[mine[u]] # NULL
  <2>1. CASE tpc[u] \in {"r_head", "r_inner", "r_back", "r_link", "queued"} /\ u # t
    <3>1. tpc[u] \in Holding
      BY <2>1 DEF Holding, Removing
    <3>2. mine[u] \in Node /\ mine[u] # mine[t]
      BY <2>1, <3>1, <1>4, MineFacts
    <3>3. tpc[u] # "r_head" /\ prev[mine[u]] # NULL
      BY <2>1, <3>2, <1>4 DEF NoLostNode
    <3> QED
      BY <2>1, <3>2, <3>3, <1>2, <1>5
  <2>2. CASE tpc[u] \notin {"r_head", "r_inner", "r_back", "r_link", "queued"} \/ u = t
    BY <2>2, <1>2
  <2> QED
    BY <2>1, <2>2
<1>7. \A u \in Thread : tpc'[u] \notin {"a_first", "a_prev", "a_next", "a_head"}
  BY <1>3 DEF Adding
<1> QED
  BY <1>1, <1>3, <1>6, <1>7 DEF NoLostNode, Busy

\* A removal below the head changes next only,
LEMMA RemoveInnerNoLost ==
    ASSUME Typed, NoLostNode, NEW t \in Thread, RemoveInner(t), tpc' # tpc
    PROVE  NoLostNode'
<1>0. tpc[t] \in Removing /\ tpc[t] = "r_inner"
  BY DEF RemoveInner, Removing
<1>1. HEAD_taskq' = HEAD_taskq /\ prev' = prev /\ mine' = mine /\ Goto(t, "r_back")
  BY DEF RemoveInner, Deref
<1>2. tpc'[t] = "r_back" /\ \A u \in Thread : u # t => tpc'[u] = tpc[u]
  BY <1>1, Moves
<1>3. \A u \in Thread : tpc'[u] \notin Adding
  BY <1>0, <1>2, NoAdder DEF Adding
<1>4. prev[mine[t]] # NULL
  BY <1>0 DEF NoLostNode
<1>5. \A u \in Thread :
        /\ tpc'[u] = "r_head" => HEAD_taskq = mine[u]
        /\ tpc'[u] \in {"r_inner", "r_back", "r_link"} => prev[mine[u]] # NULL
        /\ tpc'[u] = "queued" => HEAD_taskq = mine[u] \/ prev[mine[u]] # NULL
  BY <1>2, <1>4 DEF NoLostNode
<1>6. \A u \in Thread : tpc'[u] \notin {"a_first", "a_prev", "a_next", "a_head"}
  BY <1>3 DEF Adding
<1> QED
  BY <1>1, <1>3, <1>5, <1>6 DEF NoLostNode, Busy

\* as does the test that follows,
LEMMA RemoveBackNoLost ==
    ASSUME Typed, NoLostNode, NEW t \in Thread, RemoveBack(t)
    PROVE  NoLostNode'
<1>0. tpc[t] \in Removing /\ tpc[t] = "r_back"
  BY DEF RemoveBack, Removing
<1>1. /\ HEAD_taskq' = HEAD_taskq /\ prev' = prev /\ mine' = mine
      /\ Goto(t, "r_free") \/ Goto(t, "r_link")
  BY DEF RemoveBack, links
<1>2. tpc'[t] \in {"r_free", "r_link"} /\ \A u \in Thread : u # t => tpc'[u] = tpc[u]
  BY <1>1, Moves
<1>3. \A u \in Thread : tpc'[u] \notin Adding
  BY <1>0, <1>2, NoAdder DEF Adding
<1>4. prev[mine[t]] # NULL
  BY <1>0 DEF NoLostNode
<1>5. \A u \in Thread :
        /\ tpc'[u] = "r_head" => HEAD_taskq = mine[u]
        /\ tpc'[u] \in {"r_inner", "r_back", "r_link"} => prev[mine[u]] # NULL
        /\ tpc'[u] = "queued" => HEAD_taskq = mine[u] \/ prev[mine[u]] # NULL
  BY <1>2, <1>4 DEF NoLostNode
<1>6. \A u \in Thread : tpc'[u] \notin {"a_first", "a_prev", "a_next", "a_head"}
  BY <1>3 DEF Adding
<1> QED
  BY <1>1, <1>3, <1>5, <1>6 DEF NoLostNode, Busy

\* and then hands its own predecessor, which is not null, to its successor.
LEMMA RemoveLinkNoLost ==
    ASSUME Typed, NoLostNode, NEW t \in Thread, RemoveLink(t), tpc' # tpc
    PROVE  NoLostNode'
<1>0. tpc[t] \in Removing /\ tpc[t] = "r_link"
  BY DEF RemoveLink, Removing
<1>1. /\ HEAD_taskq' = HEAD_taskq /\ mine' = mine /\ Goto(t, "r_free")
      /\ prev' = [prev EXCEPT ![next[mine[t]]] = prev[mine[t]]]
  BY DEF RemoveLink, Deref, links
<1>2. tpc'[t] = "r_free" /\ \A u \in Thread : u # t => tpc'[u] = tpc[u]
  BY <1>1, Moves
<1>3. \A u \in Thread : tpc'[u] \notin Adding
  BY <1>0, <1>2, NoAdder DEF Adding
<1>4. prev[mine[t]] # NULL
  BY <1>0 DEF NoLostNode
<1>5. \A n \in Node : prev[n] # NULL => prev'[n] # NULL
  BY <1>1, <1>4, Fields
<1>6. \A u \in Thread : tpc[u] \in {"queued", "r_inner", "r_back", "r_link"} => mine[u] \in Node
  BY MineFacts DEF Holding, Removing
<1>7. \A u \in Thread :
        /\ tpc'[u] = "r_head" => HEAD_taskq = mine[u]
        /\ tpc'[u] \in {"r_inner", "r_back", "r_link"} => prev'[mine[u]] # NULL
        /\ tpc'[u] = "queued" => HEAD_taskq = mine[u] \/ prev'[mine[u]] # NULL
  <2> SUFFICES ASSUME NEW u \in Thread, u # t
               PROVE /\ tpc[u] = "r_head" => HEAD_taskq = mine[u]
                     /\ tpc[u] \in {"r_inner", "r_back", "r_link"} => prev'[mine[u]] # NULL
                     /\ tpc[u] = "queued" => HEAD_taskq = mine[u] \/ prev'[mine[u]] # NULL
    BY <1>2
  <2>1. /\ tpc[u] = "r_head" => HEAD_taskq = mine[u]
        /\ tpc[u] \in {"r_inner", "r_back", "r_link"} => prev[mine[u]] # NULL
        /\ tpc[u] = "queued" => HEAD_taskq = mine[u] \/ prev[mine[u]] # NULL
    BY DEF NoLostNode
  <2> QED
    BY <2>1, <1>5, <1>6
<1>8. \A u \in Thread : tpc'[u] \notin {"a_first", "a_prev", "a_next", "a_head"}
  BY <1>3 DEF Adding
<1> QED
  BY <1>1, <1>3, <1>7, <1>8 DEF NoLostNode, Busy

\* The freed node is no other thread's.
LEMMA RemoveFreeNoLost ==
    ASSUME Typed, NoLostNode, NEW t \in Thread, RemoveFree(t)
    PROVE  NoLostNode'
<1>0. tpc[t] \in Removing /\ tpc[t] \in Holding
  BY DEF RemoveFree, Removing, Holding
<1>1. /\ HEAD_taskq' = HEAD_taskq /\ Goto(t, "done")
      /\ \A u \in Thread : u # t => mine'[u] = mine[u]
      /\ \A n \in Node : n # mine[t] => prev'[n] = prev[n]
  BY Fields DEF RemoveFree
<1>2. tpc'[t] = "done" /\ \A u \in Thread : u # t => tpc'[u] = tpc[u]
  BY <1>1, Moves
<1>3. \A u \in Thread : tpc'[u] \notin Adding
  BY <1>0, <1>2, NoAdder DEF Adding
<1>4. \A u \in Thread : tpc[u] \in Holding /\ u # t => mine[u] # mine[t]
  BY <1>0, MineFacts
<1>5. \A u \in Thread :
        /\ tpc'[u] = "r_head" => HEAD_taskq = mine'[u]
        /\ tpc'[u] \in {"r_inner", "r_back", "r_link"} => prev'[mine'[u]] # NULL
        /\ tpc'[u] = "queued" => HEAD_taskq = mine'[u] \/ prev'[mine'[u]] # NULL
  <2> SUFFICES ASSUME NEW u \in Thread, u # t,
                      tpc[u] \in {"queued", "r_head", "r_inner", "r_back", "r_link"}
               PROVE /\ tpc[u] = "r_head" => HEAD_taskq = mine'[u]
                     /\ tpc[u] \in {"r_inner", "r_back", "r_link"} => prev'[mine'[u]] # NULL
                     /\ tpc[u] = "queued" => HEAD_taskq = mine'[u] \/ prev'[mine'[u]] # NULL
    BY <1>2
  <2>1. tpc[u] \in Holding
    BY DEF Holding, Removing
  <2>2. mine'[u] = mine[u] /\ prev'[mine[u]] = prev[mine[u]]
    BY <2>1, <1>1, <1>4, MineFacts
  <2> QED
    BY <2>2 DEF NoLostNode
<1>6. \A u \in Thread : tpc'[u] \notin {"a_first", "a_prev", "a_next", "a_head"}
  BY <1>3 DEF Adding
<1> QED
  BY <1>1, <1>3, <1>5, <1>6 DEF NoLostNode, Busy

\* A step that leaves the links and the threads alone loses nothing.
LEMMA NoLostStays ==
    ASSUME NoLostNode, UNCHANGED <<links, tpc, mine>>
    PROVE  NoLostNode'
<1>1. HEAD_taskq' = HEAD_taskq /\ prev' = prev /\ tpc' = tpc /\ mine' = mine
  BY DEF links
<1>2. /\ \A t, u \in Thread : tpc'[t] \in Adding /\ tpc'[u] \in Adding \cup Removing => t = u
      /\ \A t \in Thread :
           /\ tpc'[t] = "a_first" => HEAD_taskq' = NULL
           /\ tpc'[t] \in {"a_prev", "a_next", "a_head"} => HEAD_taskq' # NULL
           /\ tpc'[t] \in {"a_next", "a_head"} => prev'[HEAD_taskq'] # NULL
           /\ tpc'[t] = "r_head" => HEAD_taskq' = mine'[t]
           /\ tpc'[t] \in {"r_inner", "r_back", "r_link"} => prev'[mine'[t]] # NULL
           /\ tpc'[t] = "queued" => HEAD_taskq' = mine'[t] \/ prev'[mine'[t]] # NULL
  BY <1>1 DEF NoLostNode, Busy
<1> QED
  BY <1>2 DEF NoLostNode, Busy

-----------------------------------------------------------------------------
(* Dereferences.                                                           *)

\* A sound list makes taskqAdd dereference a live head.
LEMMA AddPrevFault ==
    ASSUME Typed, NEW t \in Thread, AddPrev(t), fault = "none"
    PROVE  (Sound => fault' = "none") /\ (NoLostNode => fault' # "null")
<1>0. tpc[t] \in Adding \cup Removing /\ tpc[t] = "a_prev"
  BY DEF AddPrev, Adding
<1>1. /\ fault' = "null" => HEAD_taskq = NULL
      /\ fault' # "none" => HEAD_taskq = NULL \/ HEAD_taskq \notin allocated
  BY DEF AddPrev, Deref
<1>2. NoLostNode => HEAD_taskq # NULL
  BY <1>0 DEF NoLostNode
<1>3. Sound => HEAD_taskq # NULL /\ HEAD_taskq \in allocated
  <2> SUFFICES ASSUME Sound PROVE HEAD_taskq # NULL /\ HEAD_taskq \in allocated
    OBVIOUS
  <2>1. HEAD_taskq # NULL
    BY <1>0, TheWorker DEF AtWork
  <2>2. Len(order) # 0 /\ HEAD_taskq = order[1]
    BY <2>1, LinkFacts DEF Sound
  <2>3. 1 \in 1..Len(order)
    BY <2>2, OrderFacts
  <2> QED
    BY <2>1, <2>2, <2>3, OrderFacts
<1> QED
  BY <1>1, <1>2, <1>3

\* And taskqRemove a live predecessor.
LEMMA RemoveInnerFault ==
    ASSUME Typed, NEW t \in Thread, RemoveInner(t), fault = "none"
    PROVE  (Sound => fault' = "none") /\ (NoLostNode => fault' # "null")
<1>0. tpc[t] = "r_inner" /\ tpc[t] \in Holding /\ tpc[t] \in Listed
  BY DEF RemoveInner, Removing, Holding, Listed
<1>1. /\ fault' = "null" => prev[mine[t]] = NULL
      /\ fault' # "none" => prev[mine[t]] = NULL \/ prev[mine[t]] \notin allocated
  BY DEF RemoveInner, Deref
<1>2. NoLostNode => prev[mine[t]] # NULL
  BY <1>0 DEF NoLostNode
<1>3. Sound => prev[mine[t]] # NULL /\ prev[mine[t]] \in allocated
  <2> SUFFICES ASSUME Sound PROVE prev[mine[t]] # NULL /\ prev[mine[t]] \in allocated
    OBVIOUS
  <2>1. PICK i \in 1..Len(order) : order[i] = mine[t]
    BY <1>0, MineFacts
  <2>2. i \in 2..Len(order) /\ prev[mine[t]] = order[i - 1]
    BY <1>0, <2>1, InnerFacts
  <2>3. i - 1 \in 1..Len(order)
    BY <2>2, OrderFacts
  <2> QED
    BY <2>2, <2>3, OrderFacts
<1> QED
  BY <1>1, <1>2, <1>3

\* And a live successor, unless another removal has made it null meanwhile.
LEMMA RemoveLinkFault ==
    ASSUME Typed, NEW t \in Thread, RemoveLink(t), fault = "none"
    PROVE  /\ Sound => fault' = "none"
           /\ fault' = "null" => tpc'[t] = "r_link" /\ next'[mine'[t]] = NULL
<1>0. tpc[t] \in Adding \cup Removing /\ tpc[t] = "r_link"
  BY DEF RemoveLink, Removing
<1>1. /\ fault' = "null" => next[mine[t]] = NULL /\ UNCHANGED <<next, tpc, mine>>
      /\ fault' # "none" => next[mine[t]] = NULL \/ next[mine[t]] \notin allocated
  BY DEF RemoveLink, Deref, links
<1>2. Sound => next[mine[t]] # NULL /\ next[mine[t]] \in allocated
  <2> SUFFICES ASSUME Sound PROVE next[mine[t]] # NULL /\ next[mine[t]] \in allocated
    OBVIOUS
  <2>1. PICK i \in 2..Len(order) : next[mine[t]] = order[i]
    BY <1>0, TheWorker DEF AtWork
  <2>2. i \in 1..Len(order)
    BY OrderFacts
  <2> QED
    BY <2>1, <2>2, OrderFacts
<1> QED
  BY <1>0, <1>1, <1>2

\* taskqShow stands at a live node, and never at null.
LEMMA ShowStepFault ==
    ASSUME Typed, ShowStep, fault = "none"
    PROVE  (Undisturbed => fault' = "none") /\ fault' # "null"
<1>1. /\ kpc = "show" /\ kcurr # NULL
      /\ fault' # "null" /\ (fault' # "none" => kcurr \notin allocated)
  BY DEF ShowStep, Deref
<1>2. Undisturbed => kcurr \in allocated
  BY <1>1, ShowFacts, OrderFacts
<1> QED
  BY <1>1, <1>2

-----------------------------------------------------------------------------
(* The invariant.                                                          *)

\* No overlap is ever forgotten.
LEMMA RacesGrow ==
    ASSUME NextRace
    PROVE  races \subseteq races'
<1>1. ASSUME NEW t \in Thread, Call(t) PROVE races' = races
  BY <1>1 DEF Call, AddHead, AddPrev, AddNext, RemoveHead, RemoveInner, RemoveBack, RemoveLink,
                    RemoveFree
<1>2. ASSUME NEW t \in Thread, RemoveTest(t) PROVE races \subseteq races'
  BY <1>2, BeginsGrows DEF RemoveTest
<1>3. ASSUME NEW t \in Thread, NEW node \in Node, AddTest(t, node) PROVE races \subseteq races'
  BY <1>3, BeginsGrows DEF AddTest
<1>4. ASSUME ShowBegin PROVE races \subseteq races'
  BY <1>4, BeginsGrows DEF ShowBegin
<1>5. ASSUME Show PROVE races' = races
  BY <1>5 DEF Show, ShowStep, ShowEnd
<1> QED
  BY <1>1, <1>2, <1>3, <1>4, <1>5 DEF NextRace

\* Every step keeps the types and the owners.
LEMMA TypedStep ==
    ASSUME Typed, NextRace
    PROVE  Typed'
<1>1. ASSUME NEW t \in Thread, Call(t) PROVE Typed'
  BY <1>1, AddHeadTyped, AddPrevTyped, AddNextTyped, RemoveHeadTyped, RemoveInnerTyped,
     RemoveBackTyped, RemoveLinkTyped, RemoveFreeTyped DEF Call
<1> QED
  BY <1>1, RemoveTestTyped, AddTestTyped, ShowTyped DEF NextRace

\* A statement that does not get its thread on has found a pointer broken.
LEMMA ProgressOrFault ==
    ASSUME Typed, NEW t \in Thread, AddPrev(t) \/ RemoveInner(t) \/ RemoveLink(t)
    PROVE  tpc' # tpc \/ UNCHANGED <<links, tpc, mine>>
<1>1. ASSUME NEW there, there # tpc[t], Goto(t, there) PROVE tpc' # tpc
  BY <1>1, Moves
<1>2. CASE AddPrev(t)
  <2>1. tpc[t] # "a_next"
    BY <1>2 DEF AddPrev
  <2> QED
    BY <1>1, <1>2, <2>1 DEF AddPrev, Deref
<1>3. CASE RemoveInner(t)
  <2>1. tpc[t] # "r_back"
    BY <1>3 DEF RemoveInner
  <2> QED
    BY <1>1, <1>3, <2>1 DEF RemoveInner, Deref
<1>4. CASE RemoveLink(t)
  <2>1. tpc[t] # "r_free"
    BY <1>4 DEF RemoveLink
  <2> QED
    BY <1>1, <1>4, <2>1 DEF RemoveLink, Deref
<1> QED
  BY <1>2, <1>3, <1>4

\* As long as no two threads' calls overlap every statement keeps the links
\* sound.
LEMMA SoundStep ==
    ASSUME Typed, Sound, ~ThreadsRaced', NextRace
    PROVE  Sound'
<1>1. ASSUME NEW t \in Thread, Call(t) PROVE Sound'
  <2>1. CASE AddPrev(t)
    <3>1. tpc' # tpc \/ UNCHANGED <<links, tpc, mine>>
      BY <2>1, ProgressOrFault
    <3> QED
      BY <2>1, <3>1, AddPrevSound, SoundStays
  <2>2. CASE RemoveInner(t)
    <3>1. tpc' # tpc \/ UNCHANGED <<links, tpc, mine>>
      BY <2>2, ProgressOrFault
    <3> QED
      BY <2>2, <3>1, RemoveInnerSound, SoundStays
  <2>3. CASE RemoveLink(t)
    <3>1. tpc' # tpc \/ UNCHANGED <<links, tpc, mine>>
      BY <2>3, ProgressOrFault
    <3> QED
      BY <2>3, <3>1, RemoveLinkSound, SoundStays
  <2> QED
    BY <1>1, <2>1, <2>2, <2>3, AddHeadSound, AddNextSound, RemoveHeadSound, RemoveBackSound,
       RemoveFreeSound
       DEF Call
<1>2. ASSUME ShowBegin \/ Show PROVE Sound'
  <2>1. UNCHANGED <<links, tpc, mine>>
    BY <1>2 DEF ShowBegin, Show, ShowStep, ShowEnd, Deref
  <2> QED
    BY <2>1, SoundStays
<1> QED
  BY <1>1, <1>2, RemoveTestSound, AddTestSound DEF NextRace

\* As long as no removal has overlapped it either, nothing disturbs "list".
LEMMA UndisturbedStep ==
    ASSUME Typed, Sound, Undisturbed, ~Overlapped("show", "remove")', NextRace
    PROVE  Undisturbed'
<1>1. ASSUME NEW t \in Thread, Call(t) PROVE Undisturbed'
  <2>1. CASE tpc[t] \in Removing
    <3>1. UNCHANGED console
      BY <1>1, <2>1 DEF Call, AddHead, AddPrev, AddNext, RemoveHead, RemoveInner, RemoveBack,
                        RemoveLink, RemoveFree, Deref
    <3> QED
      BY <2>1, <3>1, NotShowing
  <2>2. CASE AddHead(t)
    BY <2>2, AddHeadUndisturbed
  <2>3. CASE AddPrev(t) \/ AddNext(t)
    <3>1. UNCHANGED <<console, order>>
      BY <2>3 DEF AddPrev, AddNext, Deref, links
    <3>2. \A u \in Thread : tpc'[u] \in Removing => tpc[u] \in Removing
      <4>1. tpc' = tpc \/ Goto(t, "a_next") \/ Goto(t, "a_head")
        BY <2>3 DEF AddPrev, AddNext, Deref
      <4> QED
        BY <4>1, Moves DEF Removing
    <3> QED
      BY <3>1, <3>2, UndisturbedStays
  <2> QED
    BY <1>1, <2>1, <2>2, <2>3 DEF Call, RemoveHead, RemoveInner, RemoveBack, RemoveLink,
                                    RemoveFree, Removing
<1>2. ASSUME NEW t \in Thread, RemoveTest(t) PROVE Undisturbed'
  <2>1. kpc # "show"
    BY <1>2, RemoveBegins DEF RemoveTest, Overlapped
  <2>2. UNCHANGED <<console, order>>
    BY <1>2 DEF RemoveTest, links
  <2> QED
    BY <2>1, <2>2, UndisturbedStays
<1>3. ASSUME NEW t \in Thread, NEW node \in Node, AddTest(t, node) PROVE Undisturbed'
  <2>1. UNCHANGED <<console, order>>
    BY <1>3 DEF AddTest
  <2>2. \A u \in Thread : tpc'[u] \in Removing => tpc[u] \in Removing
    <3>1. Goto(t, IF HEAD_taskq = NULL THEN "a_first" ELSE "a_prev")
      BY <1>3 DEF AddTest
    <3> QED
      BY <3>1, Moves DEF Removing
  <2> QED
    BY <2>1, <2>2, UndisturbedStays
<1> QED
  BY <1>1, <1>2, <1>3, ShowBeginUndisturbed, ShowStepUndisturbed, ShowEndUndisturbed
     DEF NextRace, Show

\* As long as no add has overlapped another thread's call no node is lost.
LEMMA NoLostStep ==
    ASSUME Typed, NoLostNode, ~AddsRaced', NextRace
    PROVE  NoLostNode'
<1>1. ASSUME NEW t \in Thread, Call(t) PROVE NoLostNode'
  <2>1. CASE AddPrev(t)
    <3>1. tpc' # tpc \/ UNCHANGED <<links, tpc, mine>>
      BY <2>1, ProgressOrFault
    <3> QED
      BY <2>1, <3>1, AddPrevNoLost, NoLostStays
  <2>2. CASE RemoveInner(t)
    <3>1. tpc' # tpc \/ UNCHANGED <<links, tpc, mine>>
      BY <2>2, ProgressOrFault
    <3> QED
      BY <2>2, <3>1, RemoveInnerNoLost, NoLostStays
  <2>3. CASE RemoveLink(t)
    <3>1. tpc' # tpc \/ UNCHANGED <<links, tpc, mine>>
      BY <2>3, ProgressOrFault
    <3> QED
      BY <2>3, <3>1, RemoveLinkNoLost, NoLostStays
  <2> QED
    BY <1>1, <2>1, <2>2, <2>3, AddHeadNoLost, AddNextNoLost, RemoveHeadNoLost,
       RemoveBackNoLost, RemoveFreeNoLost DEF Call
<1>2. ASSUME ShowBegin \/ Show PROVE NoLostNode'
  <2>1. UNCHANGED <<links, tpc, mine>>
    BY <1>2 DEF ShowBegin, Show, ShowStep, ShowEnd, Deref
  <2> QED
    BY <2>1, NoLostStays
<1> QED
  BY <1>1, <1>2, RemoveTestNoLost, AddTestNoLost DEF NextRace

\* What a step dereferences.
LEMMA FaultStep ==
    ASSUME Typed, NextRace
    PROVE  /\ Sound /\ Undisturbed => fault' = "none"
           /\ NoLostNode =>
                \/ fault' # "null"
                \/ \E t \in Thread : tpc'[t] = "r_link" /\ next'[mine'[t]] = NULL
<1>0. fault = "none"
  BY DEF NextRace
<1>1. ASSUME NEW t \in Thread, Call(t)
      PROVE  /\ Sound => fault' = "none"
             /\ NoLostNode =>
                  fault' # "null" \/ (tpc'[t] = "r_link" /\ next'[mine'[t]] = NULL)
  <2>1. CASE AddPrev(t) \/ RemoveInner(t) \/ RemoveLink(t)
    BY <1>0, <2>1, AddPrevFault, RemoveInnerFault, RemoveLinkFault
  <2>2. CASE ~(AddPrev(t) \/ RemoveInner(t) \/ RemoveLink(t))
    BY <1>0, <1>1, <2>2 DEF Call, AddHead, AddNext, RemoveHead, RemoveBack, RemoveFree
  <2> QED
    BY <2>1, <2>2
<1>2. ASSUME Show PROVE (Undisturbed => fault' = "none") /\ fault' # "null"
  <2>1. CASE ShowStep
    BY <1>0, <2>1, ShowStepFault
  <2>2. CASE ShowEnd
    BY <1>0, <2>2 DEF ShowEnd
  <2> QED
    BY <1>2, <2>1, <2>2 DEF Show
<1>3. ASSUME ShowBegin PROVE fault' = fault
  BY <1>3 DEF ShowBegin
<1>4. ASSUME NEW t \in Thread, RemoveTest(t) PROVE fault' = fault
  BY <1>4 DEF RemoveTest
<1>5. ASSUME NEW t \in Thread, NEW node \in Node, AddTest(t, node) PROVE fault' = fault
  BY <1>5 DEF AddTest
<1> QED
  BY <1>0, <1>1, <1>2, <1>3, <1>4, <1>5 DEF NextRace

\* At the start there are no nodes and no calls.
LEMMA InitRaceInv == InitRace => RaceInv
<1> SUFFICES ASSUME InitRace PROVE RaceInv
  OBVIOUS
<1>1. /\ HEAD_taskq = NULL /\ allocated = {} /\ order = <<>> /\ due = <<>>
      /\ next = [n \in Node |-> NULL] /\ prev = [n \in Node |-> NULL]
      /\ client_id \in [Node -> Client]
      /\ tpc = [t \in Thread |-> "start"] /\ mine = [t \in Thread |-> NULL]
      /\ kpc = "getline" /\ kcurr = NULL /\ strayed = FALSE /\ races = {} /\ fault = "none"
  BY DEF InitRace, Init
<1>2. TypeOKRace
  <2>1. TypeOK
    BY <1>1 DEF TypeOK
  <2>2. tpc \in [Thread -> {"start", "queued", "done"} \cup Adding \cup Removing]
    BY <1>1
  <2>3. mine \in [Thread -> Node \cup {NULL}]
    BY <1>1
  <2>4. /\ kpc \in {"getline", "show"} /\ kcurr \in Node \cup {NULL}
        /\ fault \in {"none", "null", "freed"}
    BY <1>1
  <2>5. due \in Seq(Node)
    BY <1>1
  <2>6. strayed \in BOOLEAN
    BY <1>1, Zenon
  <2>7. races \in SUBSET (SUBSET {"add", "remove", "show"})
    BY <1>1
  <2> QED
    BY <2>1, <2>2, <2>3, <2>4, <2>5, <2>6, <2>7 DEF TypeOKRace
<1>3. \A t \in Thread : tpc[t] = "start"
  BY <1>1
<1>4. Owners
  BY <1>1, <1>3 DEF Owners, Holding, Listed, Adding, Removing
<1>5. Alone /\ LinkedForward /\ BackLinks
  BY <1>1, <1>3 DEF Alone, Busy, Adding, Removing, LinkedForward, BackLinks
<1>6. \A t \in Thread : AtWork(t)
  BY <1>3 DEF AtWork
<1>7. Undisturbed
  BY <1>1 DEF Undisturbed
<1>8. NoLostNode
  BY <1>3 DEF NoLostNode, Adding
<1>9. FaultNeedsRace /\ NullNeedsAddRace
  BY <1>1 DEF FaultNeedsRace, NullNeedsAddRace
<1> QED
  BY <1>2, <1>4, <1>5, <1>6, <1>7, <1>8, <1>9 DEF RaceInv, Sound

\* Every step keeps every part of the invariant.
LEMMA NextRaceInv == RaceInv /\ [NextRace]_rvars => RaceInv'
<1> SUFFICES ASSUME RaceInv, [NextRace]_rvars PROVE RaceInv'
  OBVIOUS
<1>1. CASE NextRace
  <2>1. Typed
    BY DEF RaceInv, Typed
  <2>2. Typed'
    BY <1>1, <2>1, TypedStep
  <2>3. /\ ~ThreadsRaced' => ~ThreadsRaced
        /\ ~AddsRaced' => ~AddsRaced
        /\ ~Overlapped("show", "remove")' => ~Overlapped("show", "remove")
    BY <1>1, RacesGrow, StillCalm
  <2>4. ~ThreadsRaced' => Sound'
    BY <1>1, <2>1, <2>3, SoundStep DEF RaceInv
  <2>5. ~ThreadsRaced' /\ ~Overlapped("show", "remove")' => Undisturbed'
    BY <1>1, <2>1, <2>3, UndisturbedStep DEF RaceInv
  <2>6. ~AddsRaced' => NoLostNode'
    BY <1>1, <2>1, <2>3, NoLostStep DEF RaceInv
  <2>7. fault' # "none" => ThreadsRaced' \/ Overlapped("show", "remove")'
    BY <1>1, <2>1, <2>3, FaultStep DEF RaceInv
  <2>8. \/ fault' # "null"
        \/ AddsRaced'
        \/ \E t \in Thread : tpc'[t] = "r_link" /\ next'[mine'[t]] = NULL
    BY <1>1, <2>1, <2>3, FaultStep DEF RaceInv
  <2>9. FaultNeedsRace' /\ NullNeedsAddRace'
    BY <2>7, <2>8 DEF FaultNeedsRace, NullNeedsAddRace, AddsRaced
  <2> QED
    BY <2>2, <2>4, <2>5, <2>6, <2>9 DEF RaceInv, Typed
<1>2. CASE UNCHANGED rvars
  <2>0. /\ UNCHANGED <<links, tpc, mine, console, races, fault>>
        /\ UNCHANGED <<mine, allocated, order>>
    BY <1>2 DEF rvars, links
  <2>1. TypeOKRace'
    BY <2>0 DEF RaceInv, TypeOKRace, TypeOK, links, console
  <2>2. Owners'
    BY <2>0, OwnersStay DEF RaceInv
  <2>3. ~ThreadsRaced' => Sound'
    BY <2>0, SoundStays DEF RaceInv, ThreadsRaced, Overlapped
  <2>4. ~ThreadsRaced' /\ ~Overlapped("show", "remove")' => Undisturbed'
    BY <2>0, UndisturbedStays DEF RaceInv, ThreadsRaced, Overlapped
  <2>5. ~AddsRaced' => NoLostNode'
    BY <2>0, NoLostStays DEF RaceInv, AddsRaced, Overlapped
  <2>6. FaultNeedsRace' /\ NullNeedsAddRace'
    BY <2>0 DEF RaceInv, FaultNeedsRace, NullNeedsAddRace, ThreadsRaced, Overlapped, links
  <2> QED
    BY <2>1, <2>2, <2>3, <2>4, <2>5, <2>6 DEF RaceInv
<1> QED
  BY <1>1, <1>2

\* So it holds throughout.
LEMMA RaceInvariance == SpecRace => []RaceInv
  BY InitRaceInv, NextRaceInv, PTL DEF SpecRace

-----------------------------------------------------------------------------
(* Theorems.                                                               *)

\* Every variable keeps its type, whatever overlaps.
THEOREM RaceTypeCorrect == SpecRace => []TypeOKRace
<1>1. RaceInv => TypeOKRace
  BY DEF RaceInv
<1> QED
  BY <1>1, RaceInvariance, PTL

\* Taken one by one, the statements of taskqAdd and taskqRemove leave the
\* list as sound as whole calls do, unless two threads' calls overlap; a list
\* command beside them does no harm.
THEOREM SoundWithoutRaces == SpecRace => []SoundUntilThreadsRace
<1>1. RaceInv => SoundUntilThreadsRace
  <2> SUFFICES ASSUME RaceInv, ~ThreadsRaced,
                      \A t \in Thread : tpc[t] \in {"start", "queued", "done"}
               PROVE QueueLinked
    BY DEF SoundUntilThreadsRace
  <2>1. Sound /\ Typed
    BY DEF RaceInv, Typed
  <2>2. \A t \in Thread : ~Busy(t)
    BY DEF Busy, Adding, Removing
  <2>3. LinkedForward /\ LinkedBack
    BY <2>1, <2>2, NobodyAtWork DEF Sound, LinkedBack
  <2>4. ASSUME NEW n \in allocated PROVE \E i \in 1..Len(order) : order[i] = n
    <3>1. PICK t \in Thread : tpc[t] \in Holding /\ mine[t] = n
      BY <2>1 DEF Typed, Owners
    <3>2. tpc[t] \in Listed
      BY <3>1 DEF Holding, Listed, Adding, Removing
    <3> QED
      BY <3>1, <3>2, <2>1 DEF Typed, Owners
  <2>5. QueueIsHeap
    BY <2>1, <2>4, OrderFacts DEF QueueIsHeap
  <2> QED
    BY <2>3, <2>5 DEF QueueLinked
<1> QED
  BY <1>1, RaceInvariance, PTL

\* Nothing dereferences a null or a dangling pointer before two threads'
\* calls, or a list command and a removal, have overlapped.
THEOREM NoFaultWithoutRaces == SpecRace => []FaultNeedsRace
<1>1. RaceInv => FaultNeedsRace
  BY DEF RaceInv
<1> QED
  BY <1>1, RaceInvariance, PTL

\* Removals may overlap each other and the list command: what they follow may
\* dangle, but until an add has overlapped another call it is null in one
\* place only, the second reading of node->next in taskqRemove.
THEOREM NullsWithoutAddRaces == SpecRace => []NullNeedsAddRace
<1>1. RaceInv => NullNeedsAddRace
  BY DEF RaceInv
<1> QED
  BY <1>1, RaceInvariance, PTL

\* Adding beside the list command does not change what it prints.
THEOREM ListShowsASnapshot == SpecRace => []ListIsASnapshot
<1>1. RaceInv => ListIsASnapshot
  BY DEF RaceInv, Undisturbed, ListIsASnapshot
<1> QED
  BY <1>1, RaceInvariance, PTL

\* In the middle of any one call, too, every walk along next ends.
THEOREM WalksEnd == SpecRace => []ListHasEnd
<1>1. RaceInv => ListHasEnd
  <2> SUFFICES ASSUME RaceInv, ~ThreadsRaced PROVE curr[Cardinality(Node)] = NULL
    BY DEF ListHasEnd
  <2>1. Sound /\ Typed
    BY DEF RaceInv, Typed
  <2>2. Walkable
    BY <2>1, OrderFacts DEF Walkable, Sound, Typed, TypeOKRace
  <2>3. curr = Path /\ Len(order) <= Cardinality(Node) /\ Len(order) \in Nat
    BY <2>2, CurrIsPath, QueueFits, QueueFacts
  <2>4. Cardinality(Node) \in Nat
    BY NodeAssumption, FS_CardinalityType
  <2> QED
    BY <2>3, <2>4 DEF Path
<1> QED
  BY <1>1, RaceInvariance, PTL

=============================================================================
