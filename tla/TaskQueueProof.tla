--------------------------- MODULE TaskQueueProof ---------------------------
(***************************************************************************)
(* For every finite heap and every set of clients: the linked list of      *)
(* TaskQueue stays well formed, taskqRemove follows no dangling pointer,   *)
(* the list implements TaskList, and the loops that follow next from the   *)
(* head (taskqFind and taskqShow) meet exactly the queued nodes, the       *)
(* newest first.                                                           *)
(***************************************************************************)
EXTENDS TaskQueue, FiniteSetTheorems, Lemmas

-----------------------------------------------------------------------------
(* The inductive invariant.  QueueLinked alone does not carry the types it *)
(* relies on, and TypeOK alone does not say which pointers are null.       *)

IInv == TypeOK /\ QueueLinked

\* The empty queue.
LEMMA InitInvariant == Init => IInv
  BY SMT DEF Init, IInv, TypeOK, QueueLinked, QueueIsHeap, LinkedForward, LinkedBack

\* Adding a node that malloc() has just returned.
LEMMA AddInvariant ==
    ASSUME IInv, NEW c \in Client, NEW node \in Node, taskqAdd(c, node)
    PROVE  IInv'
<1> USE NodeAssumption
<1>1. /\ order \in Seq(Node)
      /\ Len(order) \in Nat
      /\ \A i \in 1..Len(order) : order[i] \in Node /\ order[i] # node
  BY LenProperties, ElementOfSeq DEF IInv, TypeOK, QueueLinked, QueueIsHeap, taskqAdd
<1>2. /\ order' \in Seq(Node)
      /\ Len(order') = Len(order) + 1
      /\ order'[1] = node
      /\ \A i \in 2..Len(order) + 1 : order'[i] = order[i - 1]
  <2>1. /\ Cons(node, order) \in Seq(Node)
        /\ Len(Cons(node, order)) = Len(order) + 1
        /\ Cons(node, order)[1] = node
        /\ \A i \in 2..Len(order) + 1 : Cons(node, order)[i] = order[i - 1]
    <3>1. order \in Seq(Node) /\ node \in Node
      BY <1>1
    <3> HIDE NodeAssumption
    <3>2. QED
      BY ONLY <3>1, ConsProperties
  <2>2. QED
    BY <2>1 DEF taskqAdd
<1>3. TypeOK'
  <2>1. /\ HEAD_taskq \in Node \cup {NULL}
        /\ next \in [Node -> Node \cup {NULL}]
        /\ prev \in [Node -> Node \cup {NULL}]
        /\ client_id \in [Node -> Client]
        /\ allocated \in SUBSET Node
    BY DEF IInv, TypeOK
  <2>2. HEAD_taskq' \in Node \cup {NULL} /\ next' \in [Node -> Node \cup {NULL}]
    BY <2>1 DEF taskqAdd, LinkFirst, LinkAtHead
  <2>3. prev' \in [Node -> Node \cup {NULL}]
    BY <2>1 DEF taskqAdd, LinkFirst, LinkAtHead
  <2>4. client_id' \in [Node -> Client] /\ allocated' \in SUBSET Node
    BY <2>1 DEF taskqAdd
  <2>5. QED
    BY <1>2, <2>2, <2>3, <2>4 DEF TypeOK
<1>4. QueueIsHeap'
  <2> DEFINE old(i) == i - 1 \in 1..Len(order) /\ order'[i] = order[i - 1]
  <2>0. \A i \in 1..Len(order') : i # 1 => old(i)
    BY <1>1, <1>2
  <2>1. ASSUME NEW i \in 1..Len(order') PROVE order'[i] \in allocated'
    <3>1. \A k \in 1..Len(order) : order[k] \in allocated
      BY DEF IInv, QueueLinked, QueueIsHeap
    <3>2. allocated' = allocated \cup {node}
      BY DEF taskqAdd
    <3>3. QED
      BY <2>0, <3>1, <3>2, <1>2
  <2>2. ASSUME NEW n \in allocated'
        PROVE  \E i \in 1..Len(order') : order'[i] = n
    <3>1. CASE n = node
      BY <3>1, <1>1, <1>2
    <3>2. CASE n # node
      <4>1. PICK k \in 1..Len(order) : order[k] = n
        BY <2>2, <3>2 DEF IInv, QueueLinked, QueueIsHeap, taskqAdd
      <4>2. k + 1 \in 2..Len(order) + 1 /\ k + 1 \in 1..Len(order') /\ (k + 1) - 1 = k
        BY <4>1, <1>1, <1>2
      <4>3. QED
        BY <4>1, <4>2, <1>2
    <3>3. QED
      BY <3>1, <3>2
  <2>3. \A i, j \in 1..Len(order') : order'[i] = order'[j] => i = j
    <3>1. \A i, j \in 1..Len(order) : order[i] = order[j] => i = j
      BY DEF IInv, QueueLinked, QueueIsHeap
    <3>2. \A i \in 1..Len(order') : i # 1 => order'[i] # node
      BY <2>0, <1>1
    <3>3. ASSUME NEW i \in 1..Len(order'), NEW j \in 1..Len(order'),
                 i # 1, j # 1, order'[i] = order'[j]
          PROVE  i = j
      <4>1. i - 1 = j - 1
        BY <2>0, <3>1, <3>3
      <4>2. QED
        BY <4>1, <1>1, <1>2
    <3>4. QED
      BY <3>2, <3>3, <1>2
  <2>4. QED
    BY <2>1, <2>2, <2>3 DEF QueueIsHeap
<1>5. HEAD_taskq = IF Len(order) = 0 THEN NULL ELSE order[1]
  BY <1>1, EmptySeq DEF IInv, QueueLinked, LinkedForward
<1>6. LinkedForward'
  <2>1. HEAD_taskq' = node /\ order' # <<>>
    BY <1>1, <1>2 DEF taskqAdd, LinkFirst, LinkAtHead
  <2>2. next' = [next EXCEPT ![node] = HEAD_taskq]
    BY DEF taskqAdd, LinkFirst, LinkAtHead
  <2>3. next'[node] = HEAD_taskq /\ \A n \in Node \ {node} : next'[n] = next[n]
    BY <2>2 DEF IInv, TypeOK
  <2>4. ASSUME NEW i \in 1..Len(order')
        PROVE  next'[order'[i]] = IF i = Len(order') THEN NULL ELSE order'[i + 1]
    <3>1. CASE i = 1
      BY <3>1, <2>3, <1>1, <1>2, <1>5
    <3>2. CASE i # 1
      <4>1. /\ i - 1 \in 1..Len(order)
            /\ order'[i] = order[i - 1]
            /\ i # Len(order') => i + 1 \in 2..Len(order) + 1 /\ (i + 1) - 1 = (i - 1) + 1
        BY <3>2, <1>1, <1>2
      <4>2. next[order[i - 1]]
              = IF i - 1 = Len(order) THEN NULL ELSE order[(i - 1) + 1]
        BY <4>1 DEF IInv, QueueLinked, LinkedForward
      <4>3. next'[order'[i]] = next[order[i - 1]]
        BY <4>1, <2>3, <1>1
      <4>4. QED
        BY <4>1, <4>2, <4>3, <1>1, <1>2
    <3>3. QED
      BY <3>1, <3>2
  <2>5. QED
    BY <2>1, <2>4, <1>2 DEF LinkedForward
<1>7. LinkedBack'
  <2>1. CASE Len(order) = 0
    BY <2>1, <1>2 DEF LinkedBack
  <2>2. CASE Len(order) # 0
    <3>1. HEAD_taskq = order[1] /\ order[1] \in Node /\ order[1] # node
      BY <2>2, <1>1, <1>5
    <3>2. prev' = [prev EXCEPT ![node] = NULL, ![HEAD_taskq] = node]
      BY <3>1 DEF taskqAdd, LinkFirst, LinkAtHead
    <3>3. /\ prev'[order[1]] = node
          /\ \A n \in Node \ {node, order[1]} : prev'[n] = prev[n]
      BY <3>1, <3>2 DEF IInv, TypeOK
    <3>4. \A i \in 2..Len(order) : order[i] # order[1] /\ prev[order[i]] = order[i - 1]
      BY <1>1 DEF IInv, QueueLinked, QueueIsHeap, LinkedBack
    <3>5. ASSUME NEW i \in 2..Len(order')
          PROVE  prev'[order'[i]] = order'[i - 1]
      <4>1. /\ i - 1 \in 1..Len(order)
            /\ order'[i] = order[i - 1]
            /\ order[i - 1] \in Node \ {node}
        BY <1>1, <1>2, <1>5
      <4>2. CASE i = 2
        <5>1. order'[i] = order[1] /\ order'[i - 1] = node
          BY <4>1, <4>2, <1>2
        <5>2. QED
          BY <5>1, <3>3
      <4>3. CASE i # 2
        <5>1. /\ i - 1 \in 2..Len(order) /\ i - 1 \in 2..Len(order) + 1
              /\ (i - 1) - 1 = i - 2
          BY <4>1, <4>3, <1>1
        <5>2. order'[i - 1] = order[i - 2]
          BY <5>1, <1>2
        <5>3. order[i - 1] # order[1] /\ prev[order[i - 1]] = order[i - 2]
          BY <5>1, <3>4
        <5>4. QED
          BY <4>1, <5>2, <5>3, <3>3
      <4>4. QED
        BY <4>2, <4>3
    <3>6. QED
      BY <3>5 DEF LinkedBack
  <2>3. QED
    BY <2>1, <2>2
<1>8. QED
  BY <1>3, <1>4, <1>6, <1>7 DEF IInv, QueueLinked

\* Removing a queued node, at the head or further down.
LEMMA RemoveInvariant ==
    ASSUME IInv, NEW node \in allocated, taskqRemove(node)
    PROVE  IInv'
<1>1. /\ order \in Seq(Node)
      /\ Len(order) \in Nat
      /\ \A k \in 1..Len(order) : order[k] \in Node
      /\ node \in Node
  BY LenProperties, ElementOfSeq DEF IInv, TypeOK
<1>2. PICK i \in 1..Len(order) : order[i] = node /\ order' = RemoveAt(order, i)
  BY DEF taskqRemove
<1>3. /\ order' \in Seq(Node)
      /\ Len(order') = Len(order) - 1
      /\ \A k \in 1..Len(order) - 1 :
           order'[k] = IF k < i THEN order[k] ELSE order[k + 1]
  <2>1. order \in Seq(Node) /\ i \in 1..Len(order)
    BY <1>1, <1>2
  <2>2. /\ RemoveAt(order, i) \in Seq(Node)
        /\ Len(RemoveAt(order, i)) = Len(order) - 1
        /\ \A k \in 1..Len(order) - 1 :
             RemoveAt(order, i)[k] = IF k < i THEN order[k] ELSE order[k + 1]
    BY ONLY <2>1, RemoveAtProperties
  <2>3. QED
    BY <2>2, <1>2
<1>4. /\ \A k \in 1..Len(order) : order[k] \in allocated
      /\ \A k, l \in 1..Len(order) : order[k] = order[l] => k = l
      /\ \A k \in 1..Len(order) :
           next[order[k]] = IF k = Len(order) THEN NULL ELSE order[k + 1]
      /\ \A k \in 2..Len(order) : prev[order[k]] = order[k - 1]
      /\ HEAD_taskq = order[1]
  <2>1. order # <<>>
    BY <1>1, <1>2, EmptySeq
  <2>2. QED
    BY <2>1 DEF IInv, QueueLinked, QueueIsHeap, LinkedForward, LinkedBack
\* Where the element at position k of the new order stood in the old one.
<1> DEFINE was(k) == IF k < i THEN k ELSE k + 1
<1>5. \A k \in 1..Len(order') : /\ was(k) \in 1..Len(order)
                                /\ was(k) # i
                                /\ order'[k] = order[was(k)]
  BY <1>1, <1>2, <1>3
<1>6. \A k \in 1..Len(order') : order'[k] \in Node \ {node}
  BY <1>1, <1>2, <1>4, <1>5
<1>7. TypeOK'
  <2>1. /\ HEAD_taskq \in Node \cup {NULL}
        /\ next \in [Node -> Node \cup {NULL}]
        /\ prev \in [Node -> Node \cup {NULL}]
        /\ client_id \in [Node -> Client]
        /\ allocated \in SUBSET Node
    BY DEF IInv, TypeOK
  <2>2. client_id' \in [Node -> Client] /\ allocated' \in SUBSET Node
    BY <2>1 DEF taskqRemove
  <2>3. CASE UnlinkHead(node)
    BY <2>1, <2>2, <2>3, <1>1, <1>3 DEF UnlinkHead, TypeOK
  <2>4. CASE UnlinkInner(node)
    BY <2>1, <2>2, <2>4, <1>1, <1>3 DEF UnlinkInner, TypeOK
  <2>5. QED
    BY <2>3, <2>4 DEF taskqRemove
<1>8. QueueIsHeap'
  <2>1. \A k \in 1..Len(order') : order'[k] \in allocated'
    BY <1>4, <1>5, <1>6 DEF taskqRemove
  <2>2. ASSUME NEW n \in allocated'
        PROVE  \E k \in 1..Len(order') : order'[k] = n
    <3>1. n \in allocated /\ n # node
      BY DEF taskqRemove
    <3>2. PICK l \in 1..Len(order) : order[l] = n
      BY <3>1 DEF IInv, QueueLinked, QueueIsHeap
    <3>3. l # i
      BY <3>1, <3>2, <1>2
    <3>4. CASE l < i
      <4>1. l \in 1..Len(order') /\ was(l) = l
        BY <3>4, <1>1, <1>3
      <4>2. QED
        BY <4>1, <3>2, <1>5
    <3>5. CASE ~(l < i)
      <4>1. l - 1 \in 1..Len(order') /\ was(l - 1) = l
        BY <3>3, <3>5, <1>1, <1>3
      <4>2. QED
        BY <4>1, <3>2, <1>5
    <3>6. QED
      BY <3>4, <3>5
  <2>3. ASSUME NEW k \in 1..Len(order'), NEW l \in 1..Len(order'),
               order'[k] = order'[l]
        PROVE  k = l
    <3>1. was(k) = was(l)
      <4>1. /\ was(k) \in 1..Len(order) /\ was(l) \in 1..Len(order)
            /\ order[was(k)] = order[was(l)]
        BY <2>3, <1>5
      <4> HIDE DEF was
      <4>2. QED
        BY <4>1, <1>4
    <3>2. QED
      BY <3>1, <1>1, <1>3
  <2>4. QED
    BY <2>1, <2>2, <2>3 DEF QueueIsHeap
<1>9. HEAD_taskq = node <=> i = 1
  BY <1>1, <1>2, <1>4
<1>10. CASE i = 1
  <2>1. UnlinkHead(node)
    BY <1>9, <1>10 DEF taskqRemove, UnlinkInner
  <2>2. /\ HEAD_taskq' = next[node]
        /\ next' = next
        /\ \A n \in Node \ {node} : prev'[n] = prev[n]
    BY <2>1, <1>1 DEF UnlinkHead, IInv, TypeOK
  <2>3. \A k \in 1..Len(order') : order'[k] = order[k + 1] /\ k + 1 \in 1..Len(order)
    BY <1>10, <1>1, <1>3
  <2>4. LinkedForward'
    <3>1. HEAD_taskq' = IF Len(order) = 1 THEN NULL ELSE order[2]
      <4>1. 1 \in 1..Len(order) /\ order[1] = node
        BY <1>2, <1>10
      <4>2. next[order[1]] = IF 1 = Len(order) THEN NULL ELSE order[1 + 1]
        BY ONLY <1>4, <4>1
      <4>3. QED
        BY ONLY <2>2, <4>1, <4>2
    <3>2. HEAD_taskq' = IF order' = <<>> THEN NULL ELSE order'[1]
      <4>1. order' = <<>> <=> Len(order') = 0
        BY <1>3, EmptySeq
      <4>2. QED
        BY <3>1, <4>1, <2>3, <1>1, <1>3
    <3>3. ASSUME NEW k \in 1..Len(order')
          PROVE  next'[order'[k]] = IF k = Len(order') THEN NULL ELSE order'[k + 1]
      <4>1. next'[order'[k]]
              = IF k + 1 = Len(order) THEN NULL ELSE order[(k + 1) + 1]
        BY <2>2, <2>3, <1>4
      <4>2. k # Len(order') => k + 1 \in 1..Len(order')
        BY <1>1, <1>3
      <4>3. QED
        BY <4>1, <4>2, <2>3, <1>1, <1>3
    <3>4. QED
      BY <3>2, <3>3 DEF LinkedForward
  <2>5. LinkedBack'
    <3>1. ASSUME NEW k \in 2..Len(order')
          PROVE  prev'[order'[k]] = order'[k - 1]
      <4>1. /\ k \in 1..Len(order') /\ k - 1 \in 1..Len(order')
            /\ k + 1 \in 2..Len(order) /\ (k - 1) + 1 = (k + 1) - 1
        BY <1>1, <1>3
      <4>2. prev'[order'[k]] = prev[order[k + 1]]
        BY <4>1, <2>2, <2>3, <1>6
      <4>3. QED
        BY <4>1, <4>2, <2>3, <1>4
    <3>2. QED
      BY <3>1 DEF LinkedBack
  <2>6. QED
    BY <2>4, <2>5, <1>7, <1>8 DEF IInv, QueueLinked
<1>11. CASE i # 1
  <2>1. UnlinkInner(node)
    BY <1>9, <1>11 DEF taskqRemove, UnlinkHead
  <2>2. i \in 2..Len(order) /\ i - 1 \in 1..Len(order)
    BY <1>1, <1>2, <1>11
  <2>3. /\ prev[node] = order[i - 1]
        /\ next[node] = IF i = Len(order) THEN NULL ELSE order[i + 1]
    BY <2>2, <1>2, <1>4
  <2>4. /\ HEAD_taskq' = HEAD_taskq
        /\ next'[order[i - 1]] = next[node]
        /\ \A n \in Node \ {order[i - 1]} : next'[n] = next[n]
    BY <2>1, <2>2, <2>3, <1>1 DEF UnlinkInner, IInv, TypeOK
  <2>5. \A n \in Node : prev'[n] = IF n = next[node] THEN order[i - 1] ELSE prev[n]
    BY <2>1, <2>3 DEF UnlinkInner
  <2>6. LinkedForward'
    <3>1. HEAD_taskq' = order'[1] /\ order' # <<>>
      <4>1. 1 \in 1..Len(order') /\ was(1) = 1
        BY <2>2, <1>1, <1>3
      <4>2. order' # <<>>
        BY <4>1, <1>1, <1>3, EmptySeq
      <4>3. QED
        BY <4>1, <4>2, <2>4, <1>4, <1>5
    <3>2. ASSUME NEW k \in 1..Len(order')
          PROVE  next'[order'[k]] = IF k = Len(order') THEN NULL ELSE order'[k + 1]
      <4>0. k # Len(order') => k + 1 \in 1..Len(order') /\ order'[k + 1] = order[was(k + 1)]
        BY <1>1, <1>3, <1>5
      <4>1. CASE k = i - 1
        <5>1. next'[order'[k]] = next[node]
          BY <4>1, <2>2, <2>4, <1>1, <1>5
        <5>2. was(k + 1) = i + 1 /\ (k = Len(order') <=> i = Len(order))
          BY <4>1, <1>1, <1>3
        <5>3. QED
          BY <4>0, <5>1, <5>2, <2>3
      <4>2. CASE k # i - 1
        <5>1. was(k) # i - 1 /\ was(k) \in 1..Len(order)
          BY <4>2, <1>1, <1>2, <1>5
        <5>2. order[was(k)] # order[i - 1] /\ order[was(k)] \in Node
          BY <5>1, <2>2, <1>1, <1>4
        <5>3. next'[order'[k]]
                = IF was(k) = Len(order) THEN NULL ELSE order[was(k) + 1]
          <6>1. next'[order[was(k)]] = next[order[was(k)]] /\ order'[k] = order[was(k)]
            BY <5>2, <2>4, <1>5
          <6> HIDE DEF was
          <6>2. QED
            BY <6>1, <5>1, <1>4
        <5>4. was(k + 1) = was(k) + 1 /\ (k = Len(order') <=> was(k) = Len(order))
          BY <4>2, <1>1, <1>2, <1>3
        <5>5. QED
          BY <4>0, <5>3, <5>4
      <4>3. QED
        BY <4>1, <4>2
    <3>3. QED
      BY <3>1, <3>2 DEF LinkedForward
  <2>7. LinkedBack'
    <3>1. ASSUME NEW k \in 2..Len(order')
          PROVE  prev'[order'[k]] = order'[k - 1]
      <4>1. k \in 1..Len(order') /\ k - 1 \in 1..Len(order')
        BY <1>1, <1>3
      <4>2. /\ order'[k] = order[was(k)] /\ order[was(k)] \in Node
            /\ was(k) \in 2..Len(order)
            /\ order'[k - 1] = order[was(k - 1)]
        BY <4>1, <1>1, <1>2, <1>3, <1>5
      <4>3. CASE k = i
        <5>1. was(k) = i + 1 /\ was(k - 1) = i - 1 /\ i # Len(order)
          BY <4>1, <4>3, <1>1, <1>2, <1>3
        <5>2. QED
          BY <4>2, <5>1, <2>3, <2>5
      <4>4. CASE k # i
        <5>1. was(k - 1) = was(k) - 1 /\ was(k) # i + 1
          <6>1. k \in Nat /\ i \in Nat
            BY <1>1, <1>2, <4>1
          <6>2. QED
            BY ONLY <6>1, <4>4
        <5>2. order[was(k)] # next[node]
          <6>1. CASE i = Len(order)
            <7>1. next[node] = NULL
              BY <6>1, <2>3, <1>4
            <7>2. QED
              BY ONLY <7>1, <4>2, NodeAssumption
          <6>2. CASE i # Len(order)
            <7>1. i + 1 \in 1..Len(order) /\ next[node] = order[i + 1]
              BY <6>2, <2>3, <1>1, <1>2
            <7>2. QED
              BY <7>1, <4>2, <5>1, <1>4
          <6>3. QED
            BY <6>1, <6>2
        <5>3. QED
          BY <4>2, <5>1, <5>2, <2>5, <1>4
      <4>5. QED
        BY <4>3, <4>4
    <3>2. QED
      BY <3>1 DEF LinkedBack
  <2>8. QED
    BY <2>6, <2>7, <1>7, <1>8 DEF IInv, QueueLinked
<1>12. QED
  BY <1>10, <1>11

\* The list's invariant.
LEMMA Invariance == Spec => []IInv
<1>1. IInv /\ [Next]_vars => IInv'
  <2> SUFFICES ASSUME IInv, [Next]_vars PROVE IInv'
    OBVIOUS
  <2>1. ASSUME NEW c \in Client, NEW node \in Node \cup {NULL}, taskqAdd(c, node)
        PROVE  IInv'
    <3>1. node \in Node
      BY <2>1 DEF taskqAdd
    <3>2. QED
      BY <2>1, <3>1, AddInvariant
  <2>2. ASSUME NEW node \in allocated, taskqRemove(node) PROVE IInv'
    BY <2>2, RemoveInvariant
  <2>3. CASE UNCHANGED vars
    BY <2>3 DEF vars, IInv, TypeOK, QueueLinked, QueueIsHeap, LinkedForward, LinkedBack
  <2>4. QED
    BY <2>1, <2>2, <2>3 DEF Next
<1>2. QED
  BY <1>1, InitInvariant, PTL DEF Spec

\* Every pointer of the queue is null or a node, in every reachable state.
THEOREM TypeCorrect == Spec => []TypeOK
<1>1. IInv => TypeOK
  BY DEF IInv
<1>2. QED
  BY <1>1, Invariance, PTL

\* The queue stays a well-formed list of exactly the live nodes, although
\* taskqRemove leaves the prev field of a new head stale.
THEOREM QueueStaysLinked == Spec => []QueueLinked
<1>1. IInv => QueueLinked
  BY DEF IInv
<1>2. QED
  BY <1>1, Invariance, PTL

\* taskqRemove of a queued node follows only pointers to live nodes: the
\* stale prev of a head is never followed.
THEOREM RemoveIsMemorySafe == Spec => []RemoveTouchesLiveNodes
<1>1. IInv => RemoveTouchesLiveNodes
  <2> SUFFICES ASSUME IInv, NEW n \in allocated PROVE Accessed(n) \subseteq allocated
    BY DEF RemoveTouchesLiveNodes
  <2>1. /\ order \in Seq(Node) /\ Len(order) \in Nat
        /\ \A k \in 1..Len(order) : order[k] \in allocated
    BY LenProperties DEF IInv, TypeOK, QueueLinked, QueueIsHeap
  <2>2. PICK i \in 1..Len(order) : order[i] = n
    BY DEF IInv, QueueLinked, QueueIsHeap
  <2>3. CASE n = HEAD_taskq
    BY <2>3 DEF Accessed
  <2>4. CASE n # HEAD_taskq
    <3>1. i \in 2..Len(order)
      <4>1. order # <<>>
        BY <2>1, <2>2, EmptySeq
      <4>2. QED
        BY <4>1, <2>1, <2>2, <2>4 DEF IInv, QueueLinked, LinkedForward
    <3>2. prev[n] = order[i - 1] /\ i - 1 \in 1..Len(order)
      BY <3>1, <2>1, <2>2 DEF IInv, QueueLinked, LinkedBack
    <3>3. next[n] = IF i = Len(order) THEN NULL ELSE order[i + 1]
      BY <2>2 DEF IInv, QueueLinked, LinkedForward
    <3>4. i # Len(order) => i + 1 \in 1..Len(order)
      BY <2>1, <2>2
    <3>5. QED
      BY <3>2, <3>3, <3>4, <2>1 DEF Accessed
  <2>5. QED
    BY <2>3, <2>4
<1>2. QED
  BY <1>1, Invariance, PTL

-----------------------------------------------------------------------------
(* Refinement.                                                             *)

\* The queue of TaskList that the linked list stands for.
owners == [i \in 1..Len(order) |-> client_id[order[i]]]

OwnersAreClients == /\ owners \in Seq(Client)
                    /\ Len(owners) = Len(order)
                    /\ Len(order) \in Nat

\* The abstract queue holds clients.
LEMMA OwnersType == IInv => OwnersAreClients
<1> SUFFICES ASSUME IInv PROVE OwnersAreClients
  OBVIOUS
<1>1. order \in Seq(Node) /\ Len(order) \in Nat /\ \A i \in 1..Len(order) : order[i] \in Node
  BY LenProperties, ElementOfSeq DEF IInv, TypeOK
<1>2. \A i \in 1..Len(order) : client_id[order[i]] \in Client
  BY <1>1 DEF IInv, TypeOK
<1>3. owners \in [1..Len(order) -> Client]
  BY <1>2 DEF owners
<1>4. owners \in Seq(Client)
  BY <1>1, <1>3
<1>5. QED
  BY <1>1, <1>3, <1>4, LenProperties DEF OwnersAreClients

\* taskqAdd is the abstract queue's Add.
LEMMA AddIsAdd ==
    ASSUME IInv, IInv', NEW c \in Client, NEW node \in Node, taskqAdd(c, node)
    PROVE  owners' = Cons(c, owners)
<1>1. /\ owners \in Seq(Client) /\ Len(owners) = Len(order) /\ Len(order) \in Nat
      /\ owners' \in Seq(Client) /\ Len(owners') = Len(order')
  <2>1. IInv => OwnersAreClients
    BY OwnersType
  <2>2. IInv' => OwnersAreClients'
    BY OwnersType, PTL
  <2>3. QED
    BY <2>1, <2>2 DEF OwnersAreClients
<1>2. /\ order \in Seq(Node)
      /\ \A i \in 1..Len(order) : order[i] \in Node /\ order[i] # node
  BY ElementOfSeq DEF IInv, TypeOK, QueueLinked, QueueIsHeap, taskqAdd
<1>3. /\ Len(order') = Len(order) + 1
      /\ order'[1] = node
      /\ \A i \in 2..Len(order) + 1 : order'[i] = order[i - 1]
  <2>1. order \in Seq(Node) /\ node \in Node
    BY <1>2
  <2>2. /\ Cons(node, order) \in Seq(Node)
        /\ Len(Cons(node, order)) = Len(order) + 1
        /\ Cons(node, order)[1] = node
        /\ \A i \in 2..Len(order) + 1 : Cons(node, order)[i] = order[i - 1]
    BY ONLY <2>1, ConsProperties
  <2>3. QED
    BY <2>2 DEF taskqAdd
<1>4. /\ Cons(c, owners) \in Seq(Client)
      /\ Len(Cons(c, owners)) = Len(owners) + 1
      /\ Cons(c, owners)[1] = c
      /\ \A i \in 2..Len(owners) + 1 : Cons(c, owners)[i] = owners[i - 1]
  <2>1. ASSUME NEW s \in Seq(Client)
        PROVE  /\ Cons(c, s) \in Seq(Client)
               /\ Len(Cons(c, s)) = Len(s) + 1
               /\ Cons(c, s)[1] = c
               /\ \A i \in 2..Len(s) + 1 : Cons(c, s)[i] = s[i - 1]
    <3>1. s \in Seq(Client) /\ c \in Client
      OBVIOUS
    <3>2. QED
      BY ONLY <3>1, ConsProperties
  <2>2. owners \in Seq(Client)
    BY <1>1
  <2>3. QED
    BY ONLY <2>1, <2>2
<1>5. client_id'[node] = c /\ \A n \in Node \ {node} : client_id'[n] = client_id[n]
  BY DEF taskqAdd, IInv, TypeOK
<1>6. ASSUME NEW i \in 1..Len(owners')
      PROVE  owners'[i] = Cons(c, owners)[i]
  <2>1. owners'[i] = client_id'[order'[i]]
    BY <1>1 DEF owners
  <2>2. CASE i = 1
    BY <2>1, <2>2, <1>3, <1>4, <1>5
  <2>3. CASE i # 1
    <3>1. i \in 2..Len(order) + 1 /\ i - 1 \in 1..Len(order)
      BY <2>3, <1>1, <1>3
    <3>2. owners'[i] = client_id[order[i - 1]]
      BY <3>1, <2>1, <1>2, <1>3, <1>5
    <3>3. owners[i - 1] = client_id[order[i - 1]]
      BY <3>1 DEF owners
    <3>4. QED
      BY <3>1, <3>2, <3>3, <1>1, <1>4
  <2>4. QED
    BY <2>2, <2>3
<1>7. QED
  <2>1. Len(owners') = Len(Cons(c, owners))
    BY <1>1, <1>3, <1>4
  <2>2. QED
    BY <1>1, <1>4, <1>6, <2>1, SeqEqual

\* taskqRemove is the abstract queue's End.
LEMMA RemoveIsEnd ==
    ASSUME IInv, IInv', NEW node \in allocated, taskqRemove(node)
    PROVE  \E i \in 1..Len(owners) : owners' = RemoveAt(owners, i)
<1>1. /\ owners \in Seq(Client) /\ Len(owners) = Len(order) /\ Len(order) \in Nat
      /\ owners' \in Seq(Client) /\ Len(owners') = Len(order')
      /\ order \in Seq(Node)
  <2>1. IInv => OwnersAreClients
    BY OwnersType
  <2>2. IInv' => OwnersAreClients'
    BY OwnersType, PTL
  <2>3. QED
    BY <2>1, <2>2 DEF OwnersAreClients, IInv, TypeOK
<1>2. PICK i \in 1..Len(order) : order[i] = node /\ order' = RemoveAt(order, i)
  BY DEF taskqRemove
<1>3. /\ Len(order') = Len(order) - 1
      /\ \A k \in 1..Len(order) - 1 :
           order'[k] = IF k < i THEN order[k] ELSE order[k + 1]
  <2>1. order \in Seq(Node) /\ i \in 1..Len(order)
    BY <1>1, <1>2
  <2>2. /\ Len(RemoveAt(order, i)) = Len(order) - 1
        /\ \A k \in 1..Len(order) - 1 :
             RemoveAt(order, i)[k] = IF k < i THEN order[k] ELSE order[k + 1]
    BY ONLY <2>1, RemoveAtProperties
  <2>3. QED
    BY <2>2, <1>2
<1>4. i \in 1..Len(owners) /\ i \in Nat
  BY <1>1, <1>2
<1>5. /\ RemoveAt(owners, i) \in Seq(Client)
      /\ Len(RemoveAt(owners, i)) = Len(owners) - 1
      /\ \A k \in 1..Len(owners) - 1 :
           RemoveAt(owners, i)[k] = IF k < i THEN owners[k] ELSE owners[k + 1]
  <2>1. owners \in Seq(Client)
    BY <1>1
  <2>2. QED
    BY ONLY <2>1, <1>4, RemoveAtProperties
<1>6. ASSUME NEW k \in 1..Len(owners')
      PROVE  owners'[k] = RemoveAt(owners, i)[k]
  <2>1. owners'[k] = client_id[order'[k]]
    BY <1>1 DEF owners, taskqRemove
  <2>2. /\ k \in 1..Len(order) - 1 /\ k \in 1..Len(owners) - 1
        /\ k \in 1..Len(order) /\ k + 1 \in 1..Len(order)
    BY <1>1, <1>3
  <2>3. owners[k] = client_id[order[k]] /\ owners[k + 1] = client_id[order[k + 1]]
    BY <2>2 DEF owners
  <2>4. QED
    BY <2>1, <2>2, <2>3, <1>3, <1>5
<1>7. QED
  <2>1. Len(owners') = Len(RemoveAt(owners, i))
    BY <1>1, <1>3, <1>5
  <2>2. owners' = RemoveAt(owners, i)
    BY <1>1, <1>5, <1>6, <2>1, SeqEqual
  <2>3. QED
    BY <2>2, <1>4

\* The pointer code implements TaskList: every taskqAdd adds the caller's
\* task at the front, every taskqRemove takes out one task and disturbs no
\* other, and nothing else changes the list.
THEOREM QueueRefinesTaskList == Spec => ImplementsTaskList
<1>1. Init => TL!Init
  BY SMT DEF Init, TL!Init
<1>2. IInv /\ IInv' /\ [Next]_vars => [TL!Next]_owners
  <2> SUFFICES ASSUME IInv, IInv', [Next]_vars PROVE [TL!Next]_owners
    OBVIOUS
  <2>1. ASSUME NEW c \in Client, NEW node \in Node \cup {NULL}, taskqAdd(c, node)
        PROVE  TL!Next
    <3>1. node \in Node
      BY <2>1 DEF taskqAdd
    <3>2. QED
      BY <2>1, <3>1, AddIsAdd DEF owners, TL!Next, TL!Add, Cons, TL!Cons
  <2>2. ASSUME NEW node \in allocated, taskqRemove(node)
        PROVE  TL!Next
    BY <2>2, RemoveIsEnd DEF owners, TL!Next, TL!End, RemoveAt, TL!RemoveAt
  <2>3. CASE UNCHANGED vars
    BY <2>3 DEF vars, owners
  <2>4. QED
    BY <2>1, <2>2, <2>3 DEF Next
<1>3. QED
  BY <1>1, <1>2, Invariance, PTL DEF Spec, ImplementsTaskList, TL!Spec, owners

-----------------------------------------------------------------------------
(* The pointer curr, turn by turn.                                         *)

\* What one turn of the loop makes of the pointers before it.
Turn(f) == [k \in Nat |-> IF k = 0 THEN HEAD_taskq
                          ELSE IF f[k - 1] = NULL THEN NULL ELSE next[f[k - 1]]]

\* The queued nodes in order, and null after them.
Path == [k \in Nat |-> IF k < Len(order) THEN order[k + 1] ELSE NULL]

\* What the walk depends on: prev, and the memory behind the nodes, are of
\* no importance to it.
Walkable ==
    /\ TypeOK
    /\ LinkedForward
    /\ \A i, j \in 1..Len(order) : order[i] = order[j] => i = j

\* It holds of the queue between two calls.
LEMMA QueueIsWalkable == IInv => Walkable
BY DEF IInv, QueueLinked, QueueIsHeap, Walkable

\* The same, node by node.
LEMMA QueueFacts ==
    ASSUME Walkable
    PROVE  /\ Len(order) \in Nat
           /\ \A i \in 1..Len(order) : order[i] \in Node /\ order[i] # NULL
           /\ HEAD_taskq = IF Len(order) = 0 THEN NULL ELSE order[1]
           /\ \A i \in 1..Len(order) :
                next[order[i]] = IF i = Len(order) THEN NULL ELSE order[i + 1]
           /\ \A i, j \in 1..Len(order) : order[i] = order[j] => i = j
<1>1. order \in Seq(Node) /\ Len(order) \in Nat
  BY LenProperties DEF Walkable, TypeOK
<1>2. \A i \in 1..Len(order) : order[i] \in Node /\ order[i] # NULL
  BY <1>1, ElementOfSeq, NodeAssumption
<1>3. order = <<>> <=> Len(order) = 0
  BY <1>1, EmptySeq
<1> QED
  BY <1>1, <1>2, <1>3 DEF Walkable, LinkedForward

\* Following next from the head leads along the queue.
LEMMA PathIsWalked == Walkable => Path = Turn(Path)
<1> SUFFICES ASSUME Walkable PROVE Path = Turn(Path)
  OBVIOUS
<1>1. ASSUME NEW k \in Nat PROVE Path[k] = Turn(Path)[k]
  <2>1. CASE k = 0
    BY <2>1, QueueFacts DEF Path, Turn
  <2>2. CASE k # 0 /\ k - 1 < Len(order)
    <3>1. k \in 1..Len(order) /\ k - 1 \in Nat
      BY <2>2, QueueFacts
    <3>2. Path[k - 1] = order[k] /\ order[k] # NULL
      BY <2>2, <3>1, QueueFacts DEF Path
    <3>3. Path[k] = next[order[k]]
      BY <3>1, QueueFacts DEF Path
    <3> QED
      BY <2>2, <3>2, <3>3 DEF Turn
  <2>3. CASE k # 0 /\ ~(k - 1 < Len(order))
    <3>1. k - 1 \in Nat /\ ~(k < Len(order))
      BY <2>3, QueueFacts
    <3> QED
      BY <2>3, <3>1 DEF Path, Turn
  <2> QED
    BY <2>1, <2>2, <2>3
<1> QED
  BY <1>1 DEF Path, Turn

\* And nothing else does: two walks that agree on every turn so far agree on
\* the next one.
LEMMA WalkIsUnique ==
    ASSUME NEW f, NEW g, f = Turn(f), g = Turn(g)
    PROVE  f = g
<1>1. f = [k \in Nat |-> f[k]] /\ g = [k \in Nat |-> g[k]]
  BY DEF Turn
<1> DEFINE Differ == {k \in Nat : f[k] # g[k]}
<1>2. Differ = {}
  <2> SUFFICES ASSUME Differ # {} PROVE FALSE
    OBVIOUS
  <2>1. PICK m \in Differ : \A y \in Differ : m <= y
    BY LeastElement
  <2>2. m \in Nat /\ f[m] # g[m]
    OBVIOUS
  <2>3. m # 0
    BY <2>2 DEF Turn
  <2>4. m - 1 \in Nat /\ m - 1 \notin Differ
    BY <2>1, <2>2, <2>3
  <2>5. f[m - 1] = g[m - 1]
    BY <2>4
  <2>6. f[m] = g[m]
    BY <2>2, <2>3, <2>5 DEF Turn
  <2> QED
    BY <2>2, <2>6
<1>3. \A k \in Nat : f[k] = g[k]
  BY <1>2
<1> QED
  BY <1>1, <1>3

\* So that is what curr is.
LEMMA CurrIsPath == Walkable => curr = Path
<1> SUFFICES ASSUME Walkable PROVE curr = Path
  OBVIOUS
<1>1. Path = Turn(Path)
  BY PathIsWalked
<1>2. curr = CHOOSE f : f = Turn(f)
  BY DEF curr, Turn
<1>3. curr = Turn(curr)
  BY <1>1, <1>2
<1> QED
  BY <1>1, <1>3, WalkIsUnique

-----------------------------------------------------------------------------
(* The loops.                                                              *)

\* There are no more queued nodes than heap chunks: the walk is not cut off.
LEMMA QueueFits == Walkable => Len(order) <= Cardinality(Node)
<1> SUFFICES ASSUME Walkable PROVE Len(order) <= Cardinality(Node)
  OBVIOUS
<1>1. Len(order) \in Nat /\ Cardinality(1..Len(order)) = Len(order)
  BY QueueFacts, FS_Interval
<1> DEFINE f == [i \in 1..Len(order) |-> order[i]]
<1>2. f \in Injection(1..Len(order), Node)
  BY QueueFacts DEF Injection, IsInjective
<1>3. Cardinality(1..Len(order)) <= Cardinality(Node)
  BY <1>2, NodeAssumption, FS_Injection
<1> QED
  BY <1>1, <1>3

\* How many natural numbers are below n.
LEMMA BelowHasSize ==
    ASSUME NEW n \in Nat
    PROVE  Cardinality(0..(n - 1)) = n
<1> DEFINE b == n - 1
<1>1. b \in Int /\ 0 \in Int
  OBVIOUS
<1> HIDE DEF b
<1>2. Cardinality(0..b) = IF 0 > b THEN 0 ELSE b - 0 + 1
  BY <1>1, FS_Interval
<1> QED
  BY <1>1, <1>2 DEF b

\* The loop makes as many turns as there are tasks.
LEMMA TurnsAreTasks ==
    ASSUME IInv
    PROVE  /\ Len(order) \in Nat
           /\ Turns = {k \in Nat : k < Len(order)}
           /\ \A k \in Turns : curr[k] = order[k + 1]
           /\ Cardinality(Turns) = Len(order)
<1>0. Walkable
  BY QueueIsWalkable
<1>1. Len(order) \in Nat /\ Cardinality(Node) \in Nat
  BY <1>0, QueueFacts, NodeAssumption, FS_CardinalityType
<1>2. \A k \in Nat : curr[k] = IF k < Len(order) THEN order[k + 1] ELSE NULL
  BY <1>0, CurrIsPath DEF Path
<1>3. \A k \in Nat : k < Len(order) => order[k + 1] # NULL
  BY <1>0, <1>1, QueueFacts
<1>4. Turns = {k \in Nat : k < Len(order)}
  BY <1>0, <1>1, <1>2, <1>3, QueueFits DEF Turns
<1>5. Turns = 0..(Len(order) - 1)
  BY <1>1, <1>4
<1>6. Cardinality(Turns) = Len(order)
  BY <1>1, <1>5, BelowHasSize
<1> QED
  BY <1>1, <1>2, <1>4, <1>6

\* "list" shows every active task, the newest first, and no finished one,
\* however long the queue is.
THEOREM ListTellsTheTruth == Spec => []ShowListsActiveTasks
<1>1. IInv => ShowListsActiveTasks
  <2> SUFFICES ASSUME IInv PROVE ShowListsActiveTasks
    OBVIOUS
  <2>1. Len(order) \in Nat /\ Cardinality(Turns) = Len(order)
    BY TurnsAreTasks
  <2>2. \A i \in 1..Len(order) : i - 1 \in Turns /\ curr[i - 1] = order[i]
    BY <2>1, TurnsAreTasks
  <2> QED
    BY <2>1, <2>2 DEF ShowListsActiveTasks, taskqShow
<1> QED
  BY <1>1, Invariance, PTL

\* taskqFind returns the newest task of the client it is asked for, and null
\* only if the client has none.
THEOREM FindTellsTheTruth == Spec => []FindReturnsNewest
<1>1. IInv => FindReturnsNewest
  <2> SUFFICES ASSUME IInv, NEW c \in Client
               PROVE  LET mine == {i \in 1..Len(order) : client_id[order[i]] = c}
                      IN  taskqFind(c) = IF mine = {} THEN NULL ELSE order[Min(mine)]
    BY DEF FindReturnsNewest
  <2> DEFINE mine == {i \in 1..Len(order) : client_id[order[i]] = c}
             hits == {k \in Turns : client_id[curr[k]] = c}
  <2>1. taskqFind(c) = IF hits = {} THEN NULL ELSE curr[Min(hits)]
    BY DEF taskqFind
  <2>2. /\ hits \subseteq Nat /\ mine \subseteq Nat
        /\ \A k \in hits : k + 1 \in mine
        /\ \A i \in mine : i - 1 \in hits
        /\ \A k \in hits : curr[k] = order[k + 1]
    BY TurnsAreTasks
  <2> HIDE DEF mine, hits
  <2>3. hits = {} <=> mine = {}
    BY <2>2
  <2>4. ASSUME hits # {} PROVE curr[Min(hits)] = order[Min(mine)]
    <3>1. Min(hits) \in hits /\ \A k \in hits : Min(hits) <= k
      BY <2>2, <2>4, MinIsLeast
    <3>2. Min(mine) \in mine /\ \A i \in mine : Min(mine) <= i
      BY <2>2, <2>3, <2>4, MinIsLeast
    <3>3. Min(mine) <= Min(hits) + 1 /\ Min(hits) <= Min(mine) - 1
      BY <2>2, <3>1, <3>2
    <3>4. Min(hits) \in Nat /\ Min(mine) \in Nat
      BY <2>2, <3>1, <3>2
    <3>5. Min(hits) + 1 = Min(mine)
      BY <3>3, <3>4
    <3> QED
      BY <2>2, <3>1, <3>5
  <2>5. taskqFind(c) = IF mine = {} THEN NULL ELSE order[Min(mine)]
    BY <2>1, <2>3, <2>4
  <2> QED
    BY <2>5 DEF mine
<1> QED
  BY <1>1, Invariance, PTL

=============================================================================
