-------------------------- MODULE RequestSlotProof --------------------------
(***************************************************************************)
(* For every number of clients, commands and threads: what the unlocked    *)
(* shared memory still guarantees.                                         *)
(***************************************************************************)
EXTENDS RequestSlot, FiniteSetTheorems, TLAPS

USE DEF Quiet, fvars

-----------------------------------------------------------------------------
(* Types.                                                                  *)

LEMMA InitType == Init => TypeOK
<1> SUFFICES ASSUME Init PROVE TypeOK
  OBVIOUS
<1>1. deserted \in 0..MaxDeserted
  BY DesertedAssumption DEF Init, InitClients
<1>2. failed \in BOOLEAN /\ answered \in SUBSET Client /\ parted \in SUBSET Client
  BY DEF Init, InitClients
<1>3. QED
  BY <1>1, <1>2, LengthAssumption DEF Init, InitClients, TypeOK, Request, Zeroed

LEMMA NextType == TypeOK /\ [Next]_vars => TypeOK'
<1> SUFFICES ASSUME TypeOK, [Next]_vars PROVE TypeOK'
  OBVIOUS
<1> USE LengthAssumption DEF TypeOK, Request
<1>1. ASSUME NEW c \in Client, NEW m \in Command, WriteId(c, m) PROVE TypeOK'
  BY <1>1 DEF WriteId
<1>2. ASSUME NEW c \in Client, ClearText(c) PROVE TypeOK'
  BY <1>2 DEF ClearText
<1>3. ASSUME NEW c \in Client, CopyText(c) PROVE TypeOK'
  BY <1>3 DEF CopyText
<1>4. ASSUME NEW c \in Client, WriteLen(c) PROVE TypeOK'
  BY <1>4 DEF WriteLen
<1>5. ASSUME NEW c \in Client, TryWait(c) PROVE TypeOK'
  BY <1>5 DEF TryWait
<1>6. ASSUME NEW c \in Client, Post(c) PROVE TypeOK'
  BY <1>6 DEF Post
<1>7. ASSUME NEW c \in Client, NEW S, Answer(c, S) PROVE TypeOK'
  BY <1>7 DEF Answer
<1>8. ASSUME NEW c \in Client, Leave(c) PROVE TypeOK'
  BY <1>8 DEF Leave
<1>9. CASE SemWait
  BY <1>9 DEF SemWait
<1>10. CASE ReadId
  BY <1>10 DEF ReadId
<1>11. CASE ReadLen
  BY <1>11 DEF ReadLen
<1>12. CASE ReadText
  BY <1>12 DEF ReadText
<1>13. ASSUME NEW t \in Thread, CreateThread(t) PROVE TypeOK'
  BY <1>13 DEF CreateThread, Zeroed
<1>14. CASE UNCHANGED vars
  BY <1>14 DEF vars
<1>15. ASSUME NEW c \in Client, GiveUp(c) PROVE TypeOK'
  <2>1. deserted' \in 0..MaxDeserted
    BY <1>15, DesertedAssumption DEF GiveUp
  <2>2. QED
    BY <1>15, <2>1 DEF GiveUp
<1>16. ASSUME NEW c \in Client, Interrupt(c) PROVE TypeOK'
  <2>1. deserted' \in 0..MaxDeserted
    BY <1>16, DesertedAssumption DEF Interrupt
  <2>2. QED
    BY <1>16, <2>1 DEF Interrupt
<1>17. ASSUME NEW c \in Client, LateUnlink(c) PROVE TypeOK'
  BY <1>17 DEF LateUnlink
<1>18. ASSUME NEW t \in Thread, ThreadEnds(t) PROVE TypeOK'
  BY <1>18 DEF ThreadEnds
<1>19. CASE ListenerEnds
  BY <1>19 DEF ListenerEnds, Zeroed
<1>20. QED
  BY <1>1, <1>2, <1>3, <1>4, <1>5, <1>6, <1>7, <1>8, <1>9, <1>10, <1>11, <1>12, <1>13,
     <1>14, <1>15, <1>16, <1>17, <1>18, <1>19 DEF Next, LoadRequest, Listen, Answered

\* The memory, the semaphore, the listener and the threads keep their types.
THEOREM TypeCorrect == Spec => []TypeOK
  BY InitType, NextType, PTL DEF Spec

-----------------------------------------------------------------------------
(* Every request thread is created for some client, gone or not.           *)

\* The length of some command.
SomeLength(n) == \E m \in Command : n = Length[m]

\* Whoever is about to post has written its id and its length, and nothing
\* ever takes a client's id or a real length out of the memory again: once a
\* permit exists, both fields hold some client's data, however mixed.
GInv ==
    /\ TypeOK
    /\ \A c \in Client : pc[c] \in {"memset", "strncpy", "textlen", "trywait", "post"}
                            => slot.client_id \in Client
    /\ (sem > 0 \/ lpc \notin {"wait", "ended"} \/ \E c \in Client : pc[c] \in {"trywait", "post"})
          => slot.client_id \in Client /\ SomeLength(slot.textlen)
    /\ lpc \in {"textlen", "text", "create"} => hold.client_id \in Client
    /\ lpc \in {"text", "create"} => SomeLength(hold.textlen)
    /\ TasksAreGenuine

LEMMA InitGenuine == Init => GInv
<1> SUFFICES ASSUME Init PROVE GInv
  OBVIOUS
<1>1. TypeOK
  BY InitType
<1>2. QED
  BY <1>1 DEF Init, InitClients, GInv, TasksAreGenuine

LEMMA NextGenuine == GInv /\ [Next]_vars => GInv'
<1> SUFFICES ASSUME GInv, [Next]_vars PROVE GInv'
  OBVIOUS
<1>0. TypeOK /\ TypeOK'
  BY NextType DEF GInv
<1> USE <1>0 DEF TypeOK, Request
<1>1. ASSUME NEW c \in Client, NEW m \in Command, WriteId(c, m) PROVE GInv'
  BY <1>1 DEF WriteId, GInv, TasksAreGenuine
<1>2. ASSUME NEW c \in Client, ClearText(c) PROVE GInv'
  BY <1>2 DEF ClearText, GInv, TasksAreGenuine
<1>3. ASSUME NEW c \in Client, CopyText(c) PROVE GInv'
  BY <1>3 DEF CopyText, GInv, TasksAreGenuine
<1>4. ASSUME NEW c \in Client, WriteLen(c) PROVE GInv'
  <2>1. SomeLength(slot'.textlen) /\ slot'.client_id = slot.client_id
    BY <1>4 DEF WriteLen, SomeLength
  <2>2. QED
    BY <1>4, <2>1 DEF WriteLen, GInv, TasksAreGenuine
<1>5. ASSUME NEW c \in Client, TryWait(c) PROVE GInv'
  BY <1>5 DEF TryWait, GInv, TasksAreGenuine
<1>6. ASSUME NEW c \in Client, Post(c) PROVE GInv'
  BY <1>6 DEF Post, GInv, TasksAreGenuine
<1>7. ASSUME NEW c \in Client, NEW S, Answer(c, S) PROVE GInv'
  BY <1>7 DEF Answer, GInv, TasksAreGenuine
<1>8. ASSUME NEW c \in Client, Leave(c) PROVE GInv'
  BY <1>8 DEF Leave, GInv, TasksAreGenuine
<1>9. CASE SemWait
  BY <1>9 DEF SemWait, GInv, TasksAreGenuine
<1>10. CASE ReadId
  BY <1>10 DEF ReadId, GInv, TasksAreGenuine
<1>11. CASE ReadLen
  BY <1>11 DEF ReadLen, GInv, TasksAreGenuine
<1>12. CASE ReadText
  BY <1>12 DEF ReadText, GInv, TasksAreGenuine
<1>13. ASSUME NEW t \in Thread, CreateThread(t) PROVE GInv'
  BY <1>13 DEF CreateThread, GInv, TasksAreGenuine, SomeLength
<1>14. CASE UNCHANGED vars
  BY <1>14 DEF vars, GInv, TasksAreGenuine
<1>15. ASSUME NEW c \in Client, GiveUp(c) PROVE GInv'
  BY <1>15 DEF GiveUp, GInv, TasksAreGenuine
<1>16. ASSUME NEW c \in Client, Interrupt(c) PROVE GInv'
  BY <1>16 DEF Interrupt, GInv, TasksAreGenuine
<1>17. ASSUME NEW c \in Client, LateUnlink(c) PROVE GInv'
  BY <1>17 DEF LateUnlink, GInv, TasksAreGenuine
<1>18. ASSUME NEW t \in Thread, ThreadEnds(t) PROVE GInv'
  BY <1>18 DEF ThreadEnds, GInv, TasksAreGenuine
<1>19. CASE ListenerEnds
  BY <1>19 DEF ListenerEnds, Zeroed, GInv, TasksAreGenuine
<1>20. QED
  BY <1>1, <1>2, <1>3, <1>4, <1>5, <1>6, <1>7, <1>8, <1>9, <1>10, <1>11, <1>12, <1>13,
     <1>14, <1>15, <1>16, <1>17, <1>18, <1>19 DEF Next, LoadRequest, Listen, Answered

\* A request thread is only ever created with the id of some client, which may
\* have left since, and with the length of some command, however the requests
\* of several clients are mixed or broken off (c_loadRequest_shm against
\* s_unloadClientRequest_shm).
THEOREM OnlyGenuineTasks == Spec => []TasksAreGenuine
<1>1. GInv => TasksAreGenuine
  BY DEF GInv
<1>2. QED
  BY <1>1, InitGenuine, NextGenuine, PTL DEF Spec

-----------------------------------------------------------------------------
(* Counting the work of the server against the clients that wait for it.   *)

LEMMA Counts == /\ IsFiniteSet(Running) /\ Cardinality(Running) \in Nat
                /\ IsFiniteSet(Waiting) /\ Cardinality(Waiting) \in Nat
                /\ IsFiniteSet(AtPost) /\ Cardinality(AtPost) \in Nat
                /\ Cardinality(AtPost) <= Cardinality(Client) /\ Cardinality(Client) \in Nat
<1>1. Running \subseteq Thread /\ Waiting \subseteq Client /\ AtPost \subseteq Client
  BY DEF Running, Waiting, AtPost
<1>2. QED
  BY <1>1, FiniteAssumption, FS_Subset, FS_CardinalityType

\* Starting a thread adds one to the running ones and frees the listener.
LEMMA CreateCounts ==
    ASSUME TypeOK, TypeOK', NEW t \in Thread, CreateThread(t)
    PROVE  /\ Cardinality(Running') = Cardinality(Running) + 1
           /\ Waiting' = Waiting
           /\ Busy = 1 /\ Busy' = 0
<1>1. task'[t] # NoTask
  BY NoTaskAssumption DEF CreateThread, TypeOK, Request
<1>2. Running' = Running \cup {t} /\ t \notin Running
  BY <1>1 DEF CreateThread, TypeOK, Running
<1>3. QED
  BY <1>2, Counts, FS_AddElement DEF CreateThread, Waiting, Busy

\* A client that stops waiting is one less.
LEMMA OneLessWaits ==
    ASSUME TypeOK, NEW c \in Client, pc[c] = "await",
           NEW there \in {"idle", "left"}, pc' = [pc EXCEPT ![c] = there]
    PROVE  Cardinality(Waiting') = Cardinality(Waiting) - 1
<1>1. Waiting' = Waiting \ {c} /\ c \in Waiting
  BY DEF TypeOK, Waiting
<1>2. QED
  BY <1>1, Counts, FS_RemoveElement

\* A thread that ends, for whatever reason, is at least one less.
LEMMA FewerRun ==
    ASSUME NEW s \in Thread, task[s] # NoTask, task'[s] = NoTask,
           \A t \in Thread : task'[t] \in {task[t], NoTask}
    PROVE  /\ Cardinality(Running') + 1 <= Cardinality(Running)
           /\ Cardinality(Running') \in Nat
<1>1. s \in Running /\ Running' \subseteq Running \ {s}
  BY DEF Running
<1>2. Cardinality(Running \ {s}) = Cardinality(Running) - 1 /\ IsFiniteSet(Running \ {s})
  BY <1>1, Counts, FS_RemoveElement
<1>3. Cardinality(Running') <= Cardinality(Running \ {s}) /\ IsFiniteSet(Running')
  BY <1>1, <1>2, FS_Subset
<1>4. Cardinality(Running') \in Nat
  BY <1>3, FS_CardinalityType
<1>5. QED
  BY <1>2, <1>3, <1>4, Counts

LEMMA AnswerCounts ==
    ASSUME TypeOK, NEW c \in Client, NEW S, Answer(c, S)
    PROVE  /\ Cardinality(Running') + 1 <= Cardinality(Running)
           /\ Cardinality(Waiting') = Cardinality(Waiting) - 1
           /\ Cardinality(Running') \in Nat
<1>1. PICK s \in S : s \in Thread /\ task[s] # NoTask
  BY DEF Answer, TasksOf
<1>2. task'[s] = NoTask /\ \A t \in Thread : task'[t] \in {task[t], NoTask}
  BY <1>1 DEF Answer
<1>3. pc[c] = "await" /\ pc' = [pc EXCEPT ![c] = "idle"]
  BY DEF Answer
<1>4. QED
  BY <1>1, <1>2, <1>3, FewerRun, OneLessWaits

LEMMA EndCounts ==
    ASSUME TypeOK, NEW t \in Thread, ThreadEnds(t)
    PROVE  /\ Cardinality(Running') + 1 <= Cardinality(Running)
           /\ Cardinality(Running') \in Nat
<1>1. task[t] # NoTask /\ task'[t] = NoTask /\ \A u \in Thread : task'[u] \in {task[u], NoTask}
  BY DEF ThreadEnds, TypeOK
<1>2. QED
  BY <1>1, FewerRun

\* A client that gives its request up, or dies while it waits, is one less
\* that waits and one more that has stopped.
Deserts(c) == GiveUp(c) \/ (Interrupt(c) /\ pc[c] = "await")

LEMMA DesertCounts ==
    ASSUME TypeOK, NEW c \in Client, Deserts(c)
    PROVE  /\ Cardinality(Waiting') = Cardinality(Waiting) - 1
           /\ deserted' = deserted + 1
           /\ Running' = Running /\ Busy' = Busy /\ sem' = sem /\ AtPost' = AtPost
           /\ pc'[c] # "await"
<1>1. PICK there \in {"idle", "left"} : pc' = [pc EXCEPT ![c] = there]
  BY DEF Deserts, GiveUp, Interrupt
<1>2. pc[c] = "await" /\ deserted' = deserted + 1
      /\ task' = task /\ lpc' = lpc /\ sem' = sem
  BY DEF Deserts, GiveUp, Interrupt
<1>3. Cardinality(Waiting') = Cardinality(Waiting) - 1
  BY <1>1, <1>2, OneLessWaits
<1>4. AtPost' = AtPost /\ pc'[c] # "await"
  BY <1>1, <1>2 DEF AtPost, TypeOK
<1>5. QED
  BY <1>2, <1>3, <1>4 DEF Running, Busy

\* Posting adds one to the waiting clients.
LEMMA PostCounts ==
    ASSUME TypeOK, NEW c \in Client, Post(c)
    PROVE  /\ Cardinality(Waiting') = Cardinality(Waiting) + 1
           /\ Cardinality(AtPost') = Cardinality(AtPost) - 1
           /\ Running' = Running
           /\ Busy' = Busy
<1>1. Waiting' = Waiting \cup {c} /\ c \notin Waiting
  BY DEF Post, TypeOK, Waiting
<1>2. AtPost' = AtPost \ {c} /\ c \in AtPost
  BY DEF Post, TypeOK, AtPost
<1>3. QED
  BY <1>1, <1>2, Counts, FS_AddElement, FS_RemoveElement DEF Post, Running, Busy

\* The steps that change none of the counts but the permits: everything a
\* client does before it posts, and its end when it does not wait.
ClientPrelude(c) ==
    \/ \E m \in Command : WriteId(c, m)
    \/ ClearText(c) \/ CopyText(c) \/ WriteLen(c) \/ TryWait(c) \/ Leave(c)
    \/ (Interrupt(c) /\ pc[c] # "await")

LEMMA PreludeCounts ==
    ASSUME TypeOK, NEW c \in Client, ClientPrelude(c)
    PROVE  /\ Running' = Running /\ Waiting' = Waiting /\ Busy' = Busy
           /\ sem' \in Nat /\ sem' <= sem
           /\ deserted' = deserted /\ failed' = failed
           /\ pc'[c] # "await"
<1> USE DEF ClientPrelude, WriteId, ClearText, CopyText, WriteLen, TryWait, Leave, Interrupt
<1>1. task' = task /\ lpc' = lpc /\ deserted' = deserted
  OBVIOUS
<1>2. /\ pc[c] # "await" /\ pc'[c] # "await"
      /\ \A d \in Client \ {c} : pc'[d] = pc[d]
  BY DEF TypeOK
<1>3. Waiting' = Waiting
  BY <1>2 DEF Waiting
<1>4. sem' \in Nat /\ sem' <= sem
  BY DEF TypeOK
<1>5. failed' = failed
  OBVIOUS
<1>6. QED
  BY <1>1, <1>2, <1>3, <1>4, <1>5 DEF Running, Busy

\* A client that has tried to take a permit has taken one unless there was
\* none, and no other step of the prelude brings a client nearer to posting.
LEMMA PreludePermits ==
    ASSUME TypeOK, NEW c \in Client, ClientPrelude(c),
           sem + Cardinality(AtPost) <= Cardinality(Client)
    PROVE  sem' + Cardinality(AtPost') <= Cardinality(Client)
<1>1. CASE TryWait(c)
  <2>1. AtPost' = AtPost \cup {c} /\ c \notin AtPost
    BY <1>1 DEF TryWait, TypeOK, AtPost
  <2>2. Cardinality(AtPost') = Cardinality(AtPost) + 1
    BY <2>1, Counts, FS_AddElement
  <2>3. AtPost' \subseteq Client
    BY DEF AtPost
  <2>4. Cardinality(AtPost') <= Cardinality(Client)
    BY <2>3, FiniteAssumption, FS_Subset
  <2>5. QED
    BY <1>1, <2>2, <2>4, Counts DEF TryWait, TypeOK
<1>2. CASE ~TryWait(c)
  <2>1. sem' = sem /\ pc'[c] # "post" /\ \A d \in Client \ {c} : pc'[d] = pc[d]
    BY <1>2 DEF ClientPrelude, WriteId, ClearText, CopyText, WriteLen, Leave, Interrupt, TypeOK
  <2>2. AtPost' \subseteq AtPost
    BY <2>1 DEF AtPost
  <2>3. Cardinality(AtPost') <= Cardinality(AtPost) /\ Cardinality(AtPost') \in Nat
    BY <2>2, Counts, FS_Subset, FS_CardinalityType
  <2>4. QED
    BY <2>1, <2>3, Counts DEF TypeOK
<1>3. QED
  BY <1>1, <1>2

\* The listener turns a permit into work of its own, and copies.
LEMMA ListenerCounts ==
    ASSUME TypeOK, SemWait \/ ReadId \/ ReadLen \/ ReadText
    PROVE  /\ Running' = Running /\ Waiting' = Waiting /\ AtPost' = AtPost
           /\ pc' = pc /\ deserted' = deserted /\ failed' = failed
           /\ sem' + Busy' = sem + Busy /\ sem' <= sem
  BY DEF SemWait, ReadId, ReadLen, ReadText, TypeOK, Running, Waiting, AtPost, Busy

\* The steps below change the counts in one way only.
LEMMA OtherCounts ==
    ASSUME TypeOK,
           \/ ListenerEnds
           \/ \E c \in Client : LateUnlink(c)
           \/ UNCHANGED vars
    PROVE  /\ Running' = Running /\ Waiting' = Waiting /\ AtPost' = AtPost
           /\ Busy' \in {0, Busy} /\ sem' = sem /\ deserted' = deserted /\ pc' = pc
           /\ (Busy' = Busy /\ failed' = failed) \/ failed'
  BY DEF ListenerEnds, LateUnlink, vars, Running, Waiting, AtPost, Busy

LEMMA WorkStep ==
    ASSUME TypeOK, TypeOK', [Next]_vars,
           sem + Busy + Cardinality(Running) <= Cardinality(Waiting) + deserted
    PROVE  (sem + Busy + Cardinality(Running) <= Cardinality(Waiting) + deserted)'
<1>0. /\ sem \in Nat /\ sem' \in Nat /\ Busy \in Nat /\ Busy' \in Nat
      /\ Cardinality(Running) \in Nat /\ Cardinality(Waiting) \in Nat
      /\ deserted \in Nat /\ deserted' \in Nat
  BY Counts DEF TypeOK, Busy
<1>1. ASSUME NEW c \in Client, ClientPrelude(c)
      PROVE (sem + Busy + Cardinality(Running) <= Cardinality(Waiting) + deserted)'
  BY <1>0, <1>1, PreludeCounts
<1>2. ASSUME NEW c \in Client, Post(c)
      PROVE (sem + Busy + Cardinality(Running) <= Cardinality(Waiting) + deserted)'
  <2>1. sem' = sem + 1 /\ deserted' = deserted
    BY <1>2 DEF Post
  <2>2. QED
    BY <1>0, <1>2, <2>1, PostCounts
<1>3. ASSUME NEW c \in Client, NEW S, Answer(c, S)
      PROVE (sem + Busy + Cardinality(Running) <= Cardinality(Waiting) + deserted)'
  <2>1. sem' = sem /\ Busy' = Busy /\ deserted' = deserted
    BY <1>3 DEF Answer, Busy
  <2>2. QED
    BY <1>0, <1>3, <2>1, AnswerCounts
<1>4. CASE SemWait \/ ReadId \/ ReadLen \/ ReadText
  BY <1>0, <1>4, ListenerCounts
<1>5. ASSUME NEW t \in Thread, CreateThread(t)
      PROVE (sem + Busy + Cardinality(Running) <= Cardinality(Waiting) + deserted)'
  <2>1. sem' = sem /\ deserted' = deserted
    BY <1>5 DEF CreateThread
  <2>2. QED
    BY <1>0, <1>5, <2>1, CreateCounts
<1>6. ASSUME NEW c \in Client, Deserts(c)
      PROVE (sem + Busy + Cardinality(Running) <= Cardinality(Waiting) + deserted)'
  BY <1>0, <1>6, DesertCounts
<1>7. ASSUME NEW t \in Thread, ThreadEnds(t)
      PROVE (sem + Busy + Cardinality(Running) <= Cardinality(Waiting) + deserted)'
  <2>1. sem' = sem /\ Busy' = Busy /\ deserted' = deserted /\ Waiting' = Waiting
    BY <1>7 DEF ThreadEnds, Busy, Waiting
  <2>2. QED
    BY <1>0, <1>7, <2>1, EndCounts
<1>8. CASE ListenerEnds \/ (\E c \in Client : LateUnlink(c)) \/ UNCHANGED vars
  BY <1>0, <1>8, OtherCounts
<1>9. QED
  BY <1>1, <1>2, <1>3, <1>4, <1>5, <1>6, <1>7, <1>8
     DEF Next, LoadRequest, Listen, Answered, ClientPrelude, Deserts

LEMMA PermitStep ==
    ASSUME TypeOK, TypeOK', [Next]_vars, sem + Cardinality(AtPost) <= Cardinality(Client)
    PROVE  (sem + Cardinality(AtPost) <= Cardinality(Client))'
<1>0. /\ sem \in Nat /\ sem' \in Nat
      /\ Cardinality(AtPost) \in Nat /\ Cardinality(Client) \in Nat
  BY Counts DEF TypeOK
<1>1. ASSUME NEW c \in Client, ClientPrelude(c)
      PROVE (sem + Cardinality(AtPost) <= Cardinality(Client))'
  BY <1>1, PreludePermits
<1>2. ASSUME NEW c \in Client, Post(c)
      PROVE (sem + Cardinality(AtPost) <= Cardinality(Client))'
  <2>1. sem' = sem + 1
    BY <1>2 DEF Post
  <2>2. QED
    BY <1>0, <1>2, <2>1, PostCounts
<1>3. ASSUME NEW c \in Client, NEW S, Answer(c, S)
      PROVE (sem + Cardinality(AtPost) <= Cardinality(Client))'
  <2>1. sem' = sem /\ AtPost' = AtPost
    BY <1>3 DEF Answer, AtPost, TypeOK
  <2>2. QED
    BY <2>1
<1>4. CASE SemWait \/ ReadId \/ ReadLen \/ ReadText
  BY <1>0, <1>4, ListenerCounts
<1>5. ASSUME NEW t \in Thread, CreateThread(t) \/ ThreadEnds(t)
      PROVE (sem + Cardinality(AtPost) <= Cardinality(Client))'
  BY <1>5 DEF CreateThread, ThreadEnds, AtPost
<1>6. ASSUME NEW c \in Client, Deserts(c)
      PROVE (sem + Cardinality(AtPost) <= Cardinality(Client))'
  BY <1>6, DesertCounts
<1>7. CASE ListenerEnds \/ (\E c \in Client : LateUnlink(c)) \/ UNCHANGED vars
  BY <1>7, OtherCounts
<1>8. QED
  BY <1>1, <1>2, <1>3, <1>4, <1>5, <1>6, <1>7
     DEF Next, LoadRequest, Listen, Answered, ClientPrelude, Deserts

\* The server's outstanding work never exceeds the clients that wait for it
\* and those that have stopped waiting, and its permits (sem_trywait before
\* sem_post) never exceed the clients, whatever dies or fails.
THEOREM WorkBound == Spec => []WorkIsWaitedFor
<1>1. Init => WorkIsWaitedFor
  <2> SUFFICES ASSUME Init PROVE WorkIsWaitedFor
    OBVIOUS
  <2>1. Running = {} /\ Waiting = {} /\ AtPost = {}
    BY DEF Init, InitClients, Running, Waiting, AtPost
  <2>2. QED
    BY <2>1, FS_EmptySet, Counts DEF WorkIsWaitedFor, Init, InitClients, Busy
<1>2. TypeOK /\ TypeOK' /\ WorkIsWaitedFor /\ [Next]_vars => WorkIsWaitedFor'
  BY WorkStep, PermitStep DEF WorkIsWaitedFor
<1>3. QED
  BY <1>1, <1>2, TypeCorrect, PTL DEF Spec

\* The clients never all wait while the server has nothing to do, unless a
\* thread or the listener has ended without an answer: the last client to
\* post leaves a permit behind, and nobody is left to swallow it.
THEOREM NeverAllStuck == Spec => []NotAllStuck
<1>1. Init => NotAllStuck
  BY FiniteAssumption DEF Init, InitClients, NotAllStuck
<1>2. TypeOK /\ TypeOK' /\ TasksAreGenuine /\ NotAllStuck /\ [Next]_vars => NotAllStuck'
  <2> SUFFICES ASSUME TypeOK, TypeOK', TasksAreGenuine, NotAllStuck, [Next]_vars
               PROVE  NotAllStuck'
    OBVIOUS
  <2>0. /\ sem \in Nat /\ sem' \in Nat /\ Busy \in Nat /\ Busy' \in Nat
        /\ Cardinality(Running) \in Nat
    BY Counts DEF TypeOK, Busy
  <2>1. ASSUME NEW c \in Client, ClientPrelude(c) PROVE NotAllStuck'
    BY <2>1, PreludeCounts DEF NotAllStuck
  <2>2. ASSUME NEW c \in Client, Post(c) PROVE NotAllStuck'
    <3>1. sem' = sem + 1
      BY <2>2 DEF Post
    <3>2. QED
      BY <2>0, <2>2, <3>1, PostCounts DEF NotAllStuck
  <2>3. ASSUME NEW c \in Client, NEW S, Answer(c, S) PROVE NotAllStuck'
    <3>1. pc'[c] = "idle"
      BY <2>3 DEF Answer, TypeOK
    <3>2. QED
      BY <3>1 DEF NotAllStuck
  <2>4. CASE SemWait \/ ReadId \/ ReadLen \/ ReadText
    BY <2>0, <2>4, ListenerCounts DEF NotAllStuck
  <2>5. ASSUME NEW t \in Thread, CreateThread(t) PROVE NotAllStuck'
    BY <2>0, <2>5, CreateCounts DEF NotAllStuck
  <2>6. ASSUME NEW c \in Client, Deserts(c) PROVE NotAllStuck'
    BY <2>6, DesertCounts DEF NotAllStuck
  <2>7. ASSUME NEW t \in Thread, ThreadEnds(t) PROVE NotAllStuck'
    <3> SUFFICES ASSUME \A c \in Client : pc'[c] = "await" PROVE failed'
      BY DEF NotAllStuck
    <3>1. task[t].client_id \in Client /\ pc' = pc
      BY <2>7 DEF ThreadEnds, TasksAreGenuine
    <3>2. QED
      BY <2>7, <3>1 DEF ThreadEnds, TasksOf
  <2>8. CASE ListenerEnds \/ (\E c \in Client : LateUnlink(c)) \/ UNCHANGED vars
    BY <2>0, <2>8, OtherCounts DEF NotAllStuck
  <2>9. QED
    BY <2>1, <2>2, <2>3, <2>4, <2>5, <2>6, <2>7, <2>8
       DEF Next, LoadRequest, Listen, Answered, ClientPrelude, Deserts
<1>3. QED
  BY <1>1, <1>2, TypeCorrect, OnlyGenuineTasks, PTL DEF Spec

-----------------------------------------------------------------------------
(* An exchange nobody disturbs.                                            *)

\* How far the exchange of the undisturbed client has come, in the memory
\* and in the listener's copy.  Everyone else is between two requests.
UInv ==
    /\ TypeOK
    /\ alone # NoClient =>
        /\ \A d \in Client \ {alone} : Quiet(d)
        /\ slot.client_id = alone
        /\ pc[alone] \in {"memset", "strncpy", "textlen", "trywait", "post"}
             => lpc = "wait" /\ sem = 0
        /\ lpc # "ended"
        /\ pc[alone] \notin {"memset", "strncpy"} => slot.text = msg[alone]
        /\ pc[alone] \notin {"memset", "strncpy", "textlen"}
             => slot.textlen = Length[msg[alone]]
        /\ Quiet(alone) => sem + Busy = 1
        /\ lpc \in {"textlen", "text", "create"} => hold.client_id = alone
        /\ lpc \in {"text", "create"} => hold.textlen = Length[msg[alone]]
        /\ lpc = "create" => hold.text = msg[alone]

LEMMA InitUndisturbed == Init => UInv
<1> SUFFICES ASSUME Init PROVE UInv
  OBVIOUS
<1>1. TypeOK
  BY InitType
<1>2. QED
  BY <1>1 DEF Init, InitClients, UInv

LEMMA NextUndisturbed == UInv /\ [Next]_vars => UInv'
<1> SUFFICES ASSUME UInv, [Next]_vars PROVE UInv'
  OBVIOUS
<1>0. TypeOK /\ TypeOK'
  BY NextType DEF UInv
<1> USE <1>0, NoClientAssumption DEF TypeOK, Request, Busy
<1>1. ASSUME NEW c \in Client, NEW m \in Command, WriteId(c, m) PROVE UInv'
  BY <1>1 DEF WriteId, UInv
<1>2. ASSUME NEW c \in Client, ClearText(c) PROVE UInv'
  BY <1>2 DEF ClearText, UInv
<1>3. ASSUME NEW c \in Client, CopyText(c) PROVE UInv'
  BY <1>3 DEF CopyText, UInv
<1>4. ASSUME NEW c \in Client, WriteLen(c) PROVE UInv'
  BY <1>4 DEF WriteLen, UInv
<1>5. ASSUME NEW c \in Client, TryWait(c) PROVE UInv'
  BY <1>5 DEF TryWait, UInv
<1>6. ASSUME NEW c \in Client, Post(c) PROVE UInv'
  BY <1>6 DEF Post, UInv
<1>7. ASSUME NEW c \in Client, NEW S, Answer(c, S) PROVE UInv'
  BY <1>7 DEF Answer, UInv
<1>8. ASSUME NEW c \in Client, Leave(c) PROVE UInv'
  BY <1>8 DEF Leave, UInv
<1>9. CASE SemWait
  BY <1>9 DEF SemWait, UInv
<1>10. CASE ReadId
  BY <1>10 DEF ReadId, UInv
<1>11. CASE ReadLen
  BY <1>11 DEF ReadLen, UInv
<1>12. CASE ReadText
  BY <1>12 DEF ReadText, UInv
<1>13. ASSUME NEW t \in Thread, CreateThread(t) PROVE UInv'
  BY <1>13 DEF CreateThread, UInv
<1>14. CASE UNCHANGED vars
  BY <1>14 DEF vars, UInv
<1>15. ASSUME NEW c \in Client, GiveUp(c) PROVE UInv'
  BY <1>15 DEF GiveUp, UInv
<1>16. ASSUME NEW c \in Client, Interrupt(c) PROVE UInv'
  BY <1>16 DEF Interrupt, UInv
<1>17. ASSUME NEW c \in Client, LateUnlink(c) PROVE UInv'
  BY <1>17 DEF LateUnlink, UInv
<1>18. ASSUME NEW t \in Thread, ThreadEnds(t) PROVE UInv'
  BY <1>18 DEF ThreadEnds, UInv
<1>19. CASE ListenerEnds
  BY <1>19 DEF ListenerEnds, Zeroed, UInv
<1>20. QED
  BY <1>1, <1>2, <1>3, <1>4, <1>5, <1>6, <1>7, <1>8, <1>9, <1>10, <1>11, <1>12, <1>13,
     <1>14, <1>15, <1>16, <1>17, <1>18, <1>19 DEF Next, LoadRequest, Listen, Answered

\* What nobody disturbs arrives as it was sent.
THEOREM UndisturbedIsIntact == Spec => []UndisturbedArrivesIntact
<1>1. UInv => UndisturbedArrivesIntact
  <2> SUFFICES ASSUME UInv, lpc = "create", alone # NoClient
               PROVE hold = [client_id |-> alone, text |-> msg[alone],
                             textlen |-> Length[msg[alone]]]
    BY DEF UndisturbedArrivesIntact
  <2>1. hold \in Request
    BY DEF UInv, TypeOK
  <2>2. /\ hold.client_id = alone
        /\ hold.text = msg[alone]
        /\ hold.textlen = Length[msg[alone]]
    BY DEF UInv
  <2>3. QED
    BY <2>1, <2>2 DEF Request
<1>2. QED
  BY <1>1, InitUndisturbed, NextUndisturbed, PTL DEF Spec

=============================================================================
