---------------------------- MODULE SessionProof ----------------------------
(***************************************************************************)
(* For any clients, any number of requests and output of any length: as    *)
(* long as no unlink has hit a newer FIFO, a request thread that writes    *)
(* has its client for a reader, and a client that stops reading has read   *)
(* everything, unless it took a line for a shutdown.                       *)
(***************************************************************************)
EXTENDS Session, FiniteSetTheorems, Lemmas

-----------------------------------------------------------------------------
(* Steps, types and numbers.                                               *)

\* A request whose thread begins, or whose thread never will, because no
\* server takes it any more (see ServerExit).
NewRequest(c, pc) ==
    /\ cpc[c] = "prompt"
    /\ Cardinality({t \in Task : tpc[t] # "none"}) < MaxRequests
    /\ nreq' = [nreq EXCEPT ![c] = @ + 1]
    /\ cpc' = [cpc EXCEPT ![c] = "mkfifo"]
    /\ tpc' = [tpc EXCEPT ![<<c, nreq[c] + 1>>] = pc]
    /\ UNCHANGED <<cfd, shown, misled, tfd, wrote, pipe, name, made, queue, stale>>

Request(c) == \E pc \in {"mkfifo", "gave_up"} : NewRequest(c, pc)

Step ==
    \/ \E c \in Client : Request(c) \/ GetResult(c) \/ Interrupt(c)
    \/ \E t \in Task : ProcessRequest(t)

\* Session's own steps are among them.
LEMMA NextIsStep == [Next]_vars => [Step]_vars
  BY DEF Next, Step, Request, NewRequest, SendRequest

ServerDead == \E t \in Task : tpc[t] = "dead"

ClientPc == {"prompt", "mkfifo", "open", "blocked", "read", "close", "unlink", "gone"}
ThreadPc == {"none", "mkfifo", "open", "blocked", "add", "popen", "run", "failed",
             "remove", "close", "unlink", "exited", "gave_up", "killed", "dead"}

\* TypeOK in three parts, with the functions' domains.
Shape ==
    /\ cpc \in [Client -> ClientPc] /\ tpc \in [Task -> ThreadPc]
    /\ nreq \in [Client -> Nat] /\ wrote \in [Task -> Nat]
    /\ cfd \in [Client -> Nat] /\ name \in [Client -> Nat] /\ made \in [Client -> Nat]
    /\ tfd \in [Task -> Nat]
    /\ stale \in BOOLEAN

Bounds ==
    /\ \A c \in Client : nreq[c] <= MaxRequests /\ cfd[c] <= made[c] /\ name[c] <= made[c]
    /\ \A t \in Task : wrote[t] <= MaxLines /\ tfd[t] <= made[Owner(t)]

Lists ==
    /\ pipe \in [Client -> Seq(Item)] /\ shown \in [Client -> Seq(Line \cup {NOTHING})]
    /\ queue \in Seq(Task)

Types == Shape /\ Bounds /\ Lists

\* A client's threads are numbered as its requests, a thread that has not
\* begun has written nothing, the server dies with all its threads, and only
\* requests that were sent can have misled their clients.
Numbering ==
    /\ \A t, u \in Task : tpc[t] = "dead" => tpc[u] = "dead"
    /\ \A t \in Task : tpc[t] = "none" => t[2] > nreq[t[1]]
    /\ \A t \in Task : t[2] > nreq[t[1]] => tpc[t] \in {"none", "dead"}
    /\ \A t \in Task : tpc[t] \in {"none", "mkfifo", "open", "blocked"} => wrote[t] = 0
    /\ \A c \in Client : cpc[c] \notin {"prompt", "gone"} => nreq[c] > 0
    /\ misled \subseteq Task /\ \A t \in misled : t[2] <= nreq[t[1]]

TypesInv == Types /\ Numbering

\* A thread is named by its client and the number of the request.
LEMMA TaskIsPair ==
    /\ \A t \in Task : /\ t[1] \in Client /\ t[2] \in 1..MaxRequests
                       /\ t = <<t[1], t[2]>> /\ Owner(t) = t[1]
    /\ \A c \in Client, k \in 1..MaxRequests :
         <<c, k>> \in Task /\ <<c, k>>[1] = c /\ <<c, k>>[2] = k
  BY DEF Task, Owner

\* No client has used up its requests when another one may be sent, and the
\* server has not died.
LEMMA RoomForRequest ==
    ASSUME TypesInv, NEW c \in Client,
           Cardinality({t \in Task : tpc[t] # "none"}) < MaxRequests
    PROVE  nreq[c] < MaxRequests /\ ~ServerDead
<1> DEFINE S == {t \in Task : tpc[t] # "none"}
<1>1. IsFiniteSet(Task) /\ MaxRequests \in Nat /\ MaxRequests \in Int /\ 1 \in Int
  <2>1. MaxRequests \in Nat /\ MaxRequests \in Int /\ 1 \in Int
    BY BoundAssumption
  <2>2. IsFiniteSet(1..MaxRequests)
    BY <2>1, FS_Interval
  <2> QED
    BY <2>1, <2>2, ClientAssumption, FS_Product DEF Task
<1>2. IsFiniteSet(S) /\ Cardinality(S) \in Nat
  BY <1>1, FS_Subset, FS_CardinalityType
<1>3. ASSUME NEW n \in 0..MaxRequests, \A k \in 1..n : <<c, k>> \in S
      PROVE  n <= Cardinality(S)
  <2> DEFINE f == [k \in 1..n |-> <<c, k>>]
  <2>1. f \in Injection(1..n, S)
    BY <1>3 DEF Injection, IsInjective
  <2>2. Cardinality(1..n) <= Cardinality(S)
    BY <2>1, <1>2, FS_Injection
  <2>3. n \in Int /\ 1 \in Int
    BY <1>1
  <2>4. Cardinality(1..n) = n
    BY <2>3, <1>1, FS_Interval
  <2> QED
    BY <2>2, <2>4
<1>4. nreq[c] \in 0..MaxRequests
  BY DEF TypesInv, Types, Shape, Bounds
<1>5. \A k \in 1..nreq[c] : <<c, k>> \in S
  <2> SUFFICES ASSUME NEW k \in 1..nreq[c] PROVE <<c, k>> \in S
    OBVIOUS
  <2>1. k \in 1..MaxRequests /\ ~(k > nreq[c])
    BY <1>1, <1>4
  <2>2. tpc[<<c, k>>] # "none"
    BY <2>1, TaskIsPair DEF TypesInv, Numbering
  <2> QED
    BY <2>1, <2>2, TaskIsPair
<1>6. nreq[c] <= Cardinality(S)
  BY <1>3, <1>4, <1>5
<1>7. ASSUME ServerDead PROVE FALSE
  <2>1. \A t \in Task : tpc[t] = "dead"
    BY <1>7 DEF ServerDead, TypesInv, Numbering
  <2>2. \A k \in 1..MaxRequests : <<c, k>> \in S
    BY <2>1, TaskIsPair
  <2>3. MaxRequests \in 0..MaxRequests
    BY <1>1
  <2>4. MaxRequests <= Cardinality(S)
    BY <1>3, <2>2, <2>3
  <2> QED
    BY <1>1, <1>2, <2>4
<1> QED
  BY <1>1, <1>2, <1>4, <1>6, <1>7


\* The calls of the abstract list, on the queue.
LEMMA QueueCalls ==
    /\ \A t : TL!Add(t) <=> queue' = Cons(t, queue)
    /\ \A i : TL!End(i) <=> queue' = RemoveAt(queue, i)
  BY Zenon DEF TL!Add, TL!End, TL!Cons, TL!RemoveAt, Cons, RemoveAt

\* mkfifo keeps the domains and ranges of name and made.
LEMMA MkfifoShape ==
    ASSUME Shape, NEW c \in Client, Mkfifo(c)
    PROVE  name' \in [Client -> Nat] /\ made' \in [Client -> Nat]
<1>1. name \in [Client -> Nat] /\ made \in [Client -> Nat]
  BY DEF Shape
<1>2. CASE name[c] = 0
  <2>1. /\ made' = [made EXCEPT ![c] = @ + 1]
        /\ name' = [name EXCEPT ![c] = made[c] + 1]
    BY <1>2 DEF Mkfifo
  <2> QED
    BY ONLY <1>1, <2>1, c \in Client
<1>3. CASE name[c] # 0
  BY <1>1, <1>3 DEF Mkfifo
<1> QED
  BY <1>2, <1>3

\* Every step keeps the functions' domains and ranges.
LEMMA NextShape == Shape /\ [Step]_vars => Shape'
<1> SUFFICES ASSUME Shape, [Step]_vars PROVE Shape'
  OBVIOUS
<1> USE TaskIsPair DEF Shape, ClientPc, ThreadPc, cvars, tvars
<1>1. ASSUME NEW c \in Client, Request(c) PROVE Shape'
  <2>1. nreq' \in [Client -> Nat]
    BY <1>1 DEF Request, NewRequest
  <2>2. tpc' \in [Task -> ThreadPc]
    <3>1. PICK pc \in {"mkfifo", "gave_up"} : tpc' = [tpc EXCEPT ![<<c, nreq[c] + 1>>] = pc]
      BY <1>1 DEF Request, NewRequest
    <3>2. pc \in ThreadPc
      OBVIOUS
    <3> QED
      BY <3>1, <3>2, Zenon DEF Shape
  <2> QED
    BY <1>1, <2>1, <2>2 DEF Request, NewRequest
<1>2. ASSUME NEW c \in Client, ClientMkfifo(c) PROVE Shape'
  <2>1. name' \in [Client -> Nat] /\ made' \in [Client -> Nat]
    BY <1>2, MkfifoShape DEF ClientMkfifo
  <2>2. cpc' \in [Client -> ClientPc]
    BY <1>2 DEF ClientMkfifo
  <2> QED
    BY <1>2, <2>1, <2>2 DEF ClientMkfifo
<1>3. ASSUME NEW c \in Client, ClientOpen(c) PROVE Shape'
  BY <1>3 DEF ClientOpen
<1>4. ASSUME NEW c \in Client, ClientOpenFails(c) PROVE Shape'
  BY <1>4 DEF ClientOpenFails
<1>5. ASSUME NEW c \in Client, ReadLine(c) PROVE Shape'
  BY <1>5 DEF ReadLine
<1>6. ASSUME NEW c \in Client, ReadEOF(c) PROVE Shape'
  BY <1>6 DEF ReadEOF
<1>7. ASSUME NEW c \in Client, ClientClose(c) PROVE Shape'
  BY <1>7 DEF ClientClose
<1>8. ASSUME NEW c \in Client, ClientUnlink(c) PROVE Shape'
  BY <1>8 DEF ClientUnlink, RemoveFifo
<1>9. ASSUME NEW c \in Client, Interrupt(c) PROVE Shape'
  BY <1>9 DEF Interrupt
<1>10. ASSUME NEW t \in Task, ThreadMkfifo(t) PROVE Shape'
  <2>1. PICK d \in Client : d = Owner(t)
    OBVIOUS
  <2>2. name' \in [Client -> Nat] /\ made' \in [Client -> Nat]
    BY <1>10, <2>1, MkfifoShape DEF ThreadMkfifo
  <2>3. tpc' \in [Task -> ThreadPc]
    BY <1>10 DEF ThreadMkfifo
  <2> QED
    BY <1>10, <2>2, <2>3 DEF ThreadMkfifo
<1>11. ASSUME NEW t \in Task, ThreadOpen(t) PROVE Shape'
  BY <1>11 DEF ThreadOpen
<1>12. ASSUME NEW t \in Task, ThreadOpenFails(t) PROVE Shape'
  BY <1>12 DEF ThreadOpenFails
<1>13. ASSUME NEW t \in Task, TaskqAdd(t) PROVE Shape'
  BY <1>13 DEF TaskqAdd
<1>14. ASSUME NEW t \in Task, Popen(t) PROVE Shape'
  BY <1>14 DEF Popen
<1>15. ASSUME NEW t \in Task, WriteLine(t) PROVE Shape'
  BY <1>15 DEF WriteLine
<1>16. ASSUME NEW t \in Task, WriteFails(t) PROVE Shape'
  BY <1>16 DEF WriteFails
<1>17. ASSUME NEW t \in Task, Pclose(t) PROVE Shape'
  BY <1>17 DEF Pclose
<1>18. ASSUME NEW t \in Task, TaskqRemove(t) PROVE Shape'
  BY <1>18 DEF TaskqRemove
<1>19. ASSUME NEW t \in Task, ThreadClose(t) PROVE Shape'
  BY <1>19 DEF ThreadClose
<1>20. ASSUME NEW t \in Task, ThreadUnlink(t) PROVE Shape'
  BY <1>20 DEF ThreadUnlink, RemoveFifo
<1>21. CASE UNCHANGED vars
  BY <1>21 DEF vars
<1> QED
  BY <1>1, <1>2, <1>3, <1>4, <1>5, <1>6, <1>7, <1>8, <1>9, <1>10, <1>11, <1>12, <1>13, <1>14, <1>15, <1>16, <1>17, <1>18, <1>19, <1>20, <1>21
  DEF Step, GetResult, ProcessRequest

\* What mkfifo makes is newer than anything before.
LEMMA MkfifoBounds ==
    ASSUME Shape, \A c \in Client : name[c] <= made[c], NEW c \in Client, Mkfifo(c)
    PROVE  \A d \in Client : name'[d] <= made'[d] /\ made[d] <= made'[d]
<1> SUFFICES ASSUME NEW d \in Client PROVE name'[d] <= made'[d] /\ made[d] <= made'[d]
  OBVIOUS
<1>1. name \in [Client -> Nat] /\ made \in [Client -> Nat]
  BY DEF Shape
<1>2. CASE name[c] = 0
  <2>1. /\ made' = [made EXCEPT ![c] = @ + 1]
        /\ name' = [name EXCEPT ![c] = made[c] + 1]
    BY <1>2 DEF Mkfifo
  <2> QED
    BY ONLY <1>1, <2>1, \A e \in Client : name[e] <= made[e], c \in Client, d \in Client
<1>3. CASE name[c] # 0
  BY <1>1, <1>3 DEF Mkfifo
<1> QED
  BY <1>2, <1>3

\* No client sends more requests, opens or names a FIFO that was never made,
\* and no thread writes more lines, than there may be.
LEMMA NextBounds == TypesInv /\ [Step]_vars => Bounds'
<1> SUFFICES ASSUME TypesInv, [Step]_vars PROVE Bounds'
  OBVIOUS
<1>0. Shape /\ Bounds
  BY DEF TypesInv, Types
<1> USE BoundAssumption, TaskIsPair, <1>0 DEF Shape, Bounds, cvars, tvars
<1>1. ASSUME NEW c \in Client, Request(c) PROVE Bounds'
  BY <1>1, RoomForRequest DEF Request, NewRequest
<1>2. ASSUME NEW c \in Client, ClientMkfifo(c) PROVE Bounds'
  <2>1. \A d \in Client : name'[d] <= made'[d] /\ made[d] <= made'[d]
    BY <1>2, MkfifoBounds DEF ClientMkfifo
  <2>2. made' \in [Client -> Nat]
    BY <1>2, NextShape DEF Step, GetResult, ProcessRequest
  <2>3. cfd' = cfd /\ nreq' = nreq /\ wrote' = wrote /\ tfd' = tfd
    BY <1>2 DEF ClientMkfifo
  <2> QED
    BY <2>1, <2>2, <2>3
<1>3. ASSUME NEW c \in Client, ClientOpen(c) PROVE Bounds'
  BY <1>3 DEF ClientOpen
<1>4. ASSUME NEW c \in Client, ClientOpenFails(c) PROVE Bounds'
  BY <1>4 DEF ClientOpenFails
<1>5. ASSUME NEW c \in Client, ReadLine(c) PROVE Bounds'
  BY <1>5 DEF ReadLine
<1>6. ASSUME NEW c \in Client, ReadEOF(c) PROVE Bounds'
  BY <1>6 DEF ReadEOF
<1>7. ASSUME NEW c \in Client, ClientClose(c) PROVE Bounds'
  BY <1>7 DEF ClientClose
<1>8. ASSUME NEW c \in Client, ClientUnlink(c) PROVE Bounds'
  BY <1>8 DEF ClientUnlink, RemoveFifo
<1>9. ASSUME NEW c \in Client, Interrupt(c) PROVE Bounds'
  BY <1>9 DEF Interrupt
<1>10. ASSUME NEW t \in Task, ThreadMkfifo(t) PROVE Bounds'
  <2>1. \A d \in Client : name'[d] <= made'[d] /\ made[d] <= made'[d]
    BY <1>10, MkfifoBounds DEF ThreadMkfifo
  <2>2. made' \in [Client -> Nat]
    BY <1>10, NextShape DEF Step, GetResult, ProcessRequest
  <2>3. cfd' = cfd /\ nreq' = nreq /\ wrote' = wrote /\ tfd' = tfd
    BY <1>10 DEF ThreadMkfifo
  <2> QED
    BY <2>1, <2>2, <2>3
<1>11. ASSUME NEW t \in Task, ThreadOpen(t) PROVE Bounds'
  BY <1>11 DEF ThreadOpen
<1>12. ASSUME NEW t \in Task, ThreadOpenFails(t) PROVE Bounds'
  BY <1>12 DEF ThreadOpenFails
<1>13. ASSUME NEW t \in Task, TaskqAdd(t) PROVE Bounds'
  BY <1>13 DEF TaskqAdd
<1>14. ASSUME NEW t \in Task, Popen(t) PROVE Bounds'
  BY <1>14 DEF Popen
<1>15. ASSUME NEW t \in Task, WriteLine(t) PROVE Bounds'
  BY <1>15 DEF WriteLine
<1>16. ASSUME NEW t \in Task, WriteFails(t) PROVE Bounds'
  BY <1>16 DEF WriteFails
<1>17. ASSUME NEW t \in Task, Pclose(t) PROVE Bounds'
  BY <1>17 DEF Pclose
<1>18. ASSUME NEW t \in Task, TaskqRemove(t) PROVE Bounds'
  BY <1>18 DEF TaskqRemove
<1>19. ASSUME NEW t \in Task, ThreadClose(t) PROVE Bounds'
  BY <1>19 DEF ThreadClose
<1>20. ASSUME NEW t \in Task, ThreadUnlink(t) PROVE Bounds'
  BY <1>20 DEF ThreadUnlink, RemoveFifo
<1>21. CASE UNCHANGED vars
  BY <1>21 DEF vars
<1> QED
  BY <1>1, <1>2, <1>3, <1>4, <1>5, <1>6, <1>7, <1>8, <1>9, <1>10, <1>11, <1>12, <1>13, <1>14, <1>15, <1>16, <1>17, <1>18, <1>19, <1>20, <1>21
  DEF Step, GetResult, ProcessRequest

\* FIFOs, displays and the queue hold what they should.
LEMMA NextLists == Shape /\ Lists /\ [Step]_vars => Lists'
<1> SUFFICES ASSUME Shape, Lists, [Step]_vars PROVE Lists'
  OBVIOUS
<1>0. MaxLines \in Nat
  BY BoundAssumption
<1> USE DEF Lists, cvars, tvars
<1>1. ASSUME NEW c \in Client, Request(c) PROVE Lists'
  BY <1>1 DEF Request, NewRequest
<1>2. ASSUME NEW c \in Client, ClientMkfifo(c) PROVE Lists'
  BY <1>2 DEF ClientMkfifo, Mkfifo
<1>3. ASSUME NEW c \in Client, ClientOpen(c) PROVE Lists'
  BY <1>3 DEF ClientOpen
<1>4. ASSUME NEW c \in Client, ClientOpenFails(c) PROVE Lists'
  BY <1>4 DEF ClientOpenFails
<1>5. ASSUME NEW c \in Client, ReadLine(c) PROVE Lists'
  <2>1. Head(pipe[c]) \in Line /\ Tail(pipe[c]) \in Seq(Item)
    <3>1. pipe[c] \in Seq(Item) /\ pipe[c] # <<>> /\ ~IsMarker(Head(pipe[c]))
      BY <1>5 DEF ReadLine
    <3>2. Head(pipe[c]) \in Item /\ Tail(pipe[c]) \in Seq(Item)
      BY <3>1, HeadTailProperties
    <3> QED
      BY <3>1, <3>2 DEF IsMarker, Item
  <2>2. PICK l \in {Head(pipe[c]), NOTHING} : shown' = [shown EXCEPT ![c] = Append(@, l)]
    BY <1>5 DEF ReadLine
  <2>3. Append(shown[c], l) \in Seq(Line \cup {NOTHING})
    <3>1. shown[c] \in Seq(Line \cup {NOTHING}) /\ l \in Line \cup {NOTHING}
      BY <2>1
    <3> QED
      BY <3>1, AppendProperties
  <2>4. pipe' = [pipe EXCEPT ![c] = Tail(@)] /\ queue' = queue
    BY <1>5 DEF ReadLine
  <2> QED
    BY <2>1, <2>2, <2>3, <2>4, Zenon
<1>6. ASSUME NEW c \in Client, ReadEOF(c) PROVE Lists'
  BY <1>6 DEF ReadEOF
<1>7. ASSUME NEW c \in Client, ClientClose(c) PROVE Lists'
  BY <1>7 DEF ClientClose
<1>8. ASSUME NEW c \in Client, ClientUnlink(c) PROVE Lists'
  BY <1>8 DEF ClientUnlink, RemoveFifo
<1>9. ASSUME NEW c \in Client, Interrupt(c) PROVE Lists'
  BY <1>9 DEF Interrupt
<1>10. ASSUME NEW t \in Task, ThreadMkfifo(t) PROVE Lists'
  BY <1>10 DEF ThreadMkfifo, Mkfifo
<1>11. ASSUME NEW t \in Task, ThreadOpen(t) PROVE Lists'
  BY <1>11 DEF ThreadOpen
<1>12. ASSUME NEW t \in Task, ThreadOpenFails(t) PROVE Lists'
  BY <1>12 DEF ThreadOpenFails
<1>13. ASSUME NEW t \in Task, TaskqAdd(t) PROVE Lists'
  <2>1. Cons(t, queue) \in Seq(Task)
    BY ConsProperties
  <2>2. queue' \in Seq(Task)
    BY <1>13, <2>1, QueueCalls DEF TaskqAdd
  <2> QED
    BY <1>13, <2>2 DEF TaskqAdd
<1>14. ASSUME NEW t \in Task, Popen(t) PROVE Lists'
  BY <1>14 DEF Popen
<1>15. ASSUME NEW t \in Task, WriteLine(t) PROVE Lists'
  <2>1. Append(pipe[Owner(t)], <<t[2], wrote[t] + 1>>) \in Seq(Item)
    <3>1. wrote[t] + 1 \in 1..MaxLines
      BY <1>0, <1>15 DEF WriteLine, Shape
    <3>2. <<t[2], wrote[t] + 1>> \in Item
      BY <3>1 DEF Item, Line
    <3> QED
      BY <3>2, TaskIsPair, AppendProperties
  <2> QED
    BY <1>15, <2>1 DEF WriteLine
<1>16. ASSUME NEW t \in Task, WriteFails(t) PROVE Lists'
  BY <1>16 DEF WriteFails
<1>17. ASSUME NEW t \in Task, Pclose(t) PROVE Lists'
  BY <1>17 DEF Pclose
<1>18. ASSUME NEW t \in Task, TaskqRemove(t) PROVE Lists'
  <2>1. \A i \in 1..Len(queue) : RemoveAt(queue, i) \in Seq(Task)
    BY RemoveAtProperties
  <2>2. queue' \in Seq(Task)
    BY <1>18, <2>1, QueueCalls DEF TaskqRemove
  <2> QED
    BY <1>18, <2>2 DEF TaskqRemove
<1>19. ASSUME NEW t \in Task, ThreadClose(t) PROVE Lists'
  BY <1>19 DEF ThreadClose
<1>20. ASSUME NEW t \in Task, ThreadUnlink(t) PROVE Lists'
  BY <1>20 DEF ThreadUnlink, RemoveFifo
<1>21. CASE UNCHANGED vars
  BY <1>21 DEF vars
<1> QED
  BY <1>1, <1>2, <1>3, <1>4, <1>5, <1>6, <1>7, <1>8, <1>9, <1>10, <1>11, <1>12, <1>13, <1>14, <1>15, <1>16, <1>17, <1>18, <1>19, <1>20, <1>21
  DEF Step, GetResult, ProcessRequest

\* A new request has the next number.
LEMMA RequestIsNext ==
    ASSUME TypesInv, NEW c \in Client, Request(c)
    PROVE  /\ nreq[c] \in Nat /\ nreq[c] + 1 \in 1..MaxRequests /\ ~ServerDead
           /\ <<c, nreq[c] + 1>> \in Task
           /\ nreq'[c] = nreq[c] + 1 /\ tpc'[<<c, nreq[c] + 1>>] \in {"mkfifo", "gave_up"}
           /\ \A d \in Client : d # c => nreq'[d] = nreq[d] /\ cpc'[d] = cpc[d]
           /\ \A t \in Task : t # <<c, nreq[c] + 1>> => tpc'[t] = tpc[t]
<1>1. nreq[c] < MaxRequests /\ ~ServerDead
  BY RoomForRequest DEF Request, NewRequest
<1>2. Shape
  BY DEF TypesInv, Types
<1>3. nreq[c] \in Nat /\ nreq[c] + 1 \in 1..MaxRequests
  BY <1>1, <1>2, BoundAssumption DEF Shape
<1>4. <<c, nreq[c] + 1>> \in Task
  BY <1>3, TaskIsPair
<1> QED
  BY <1>1, <1>2, <1>3, <1>4 DEF Request, NewRequest, Shape

\* A request starts the thread with its number, and no other.
LEMMA RequestNumbering ==
    ASSUME TypesInv, NEW c \in Client, Request(c)
    PROVE  Numbering'
<1> DEFINE new == <<c, nreq[c] + 1>>
<1>1. /\ nreq[c] \in Nat /\ nreq[c] + 1 \in 1..MaxRequests /\ ~ServerDead
      /\ new \in Task
      /\ nreq'[c] = nreq[c] + 1 /\ tpc'[new] \in {"mkfifo", "gave_up"}
      /\ \A d \in Client : d # c => nreq'[d] = nreq[d] /\ cpc'[d] = cpc[d]
      /\ \A t \in Task : t # new => tpc'[t] = tpc[t]
  BY RequestIsNext
<1>2. new[1] = c /\ new[2] = nreq[c] + 1
  OBVIOUS
<1>3. ASSUME NEW t \in Task, t # new
      PROVE  t[2] > nreq'[t[1]] <=> t[2] > nreq[t[1]]
  <2>1. t[1] \in Client /\ t[2] \in Nat /\ t = <<t[1], t[2]>>
    BY TaskIsPair, BoundAssumption
  <2>2. CASE t[1] = c
    <3>1. t[2] # nreq[c] + 1
      BY ONLY <1>3, <2>1, <2>2 DEF new
    <3> QED
      BY ONLY <1>1, <2>1, <2>2, <3>1
  <2>3. CASE t[1] # c
    BY ONLY <1>1, <2>1, <2>3
  <2> QED
    BY <2>2, <2>3
<1>4. /\ \A t \in Task : tpc[t] = "none" => t[2] > nreq[t[1]]
      /\ \A t \in Task : t[2] > nreq[t[1]] => tpc[t] \in {"none", "dead"}
      /\ \A t \in Task : tpc[t] \in {"none", "mkfifo", "open", "blocked"} => wrote[t] = 0
      /\ \A t \in Task : tpc[t] # "dead"
  BY <1>1 DEF TypesInv, Numbering, ServerDead
<1>5. wrote' = wrote /\ wrote[new] = 0
  <2>1. new[2] > nreq[new[1]]
    BY ONLY <1>1, <1>2
  <2>2. tpc[new] = "none"
    BY <1>1, <1>4, <2>1
  <2> QED
    BY <1>1, <1>4, <2>2 DEF Request, NewRequest
<1> HIDE DEF new
<1>6. /\ \A t \in Task : tpc'[t] # "dead"
      /\ \A t \in Task : tpc'[t] = "none" => t[2] > nreq'[t[1]]
      /\ \A t \in Task : t[2] > nreq'[t[1]] => tpc'[t] = "none"
      /\ \A t \in Task : tpc'[t] \in {"none", "mkfifo", "open", "blocked"} => wrote'[t] = 0
  BY ONLY <1>1, <1>2, <1>3, <1>4, <1>5
<1>7. \A d \in Client : nreq[d] \in Nat /\ nreq[d] <= nreq'[d]
  BY <1>1 DEF TypesInv, Types, Shape
<1>8. \A d \in Client : cpc'[d] \notin {"prompt", "gone"} => nreq'[d] > 0
  <2>1. \A d \in Client : cpc[d] \notin {"prompt", "gone"} => nreq[d] > 0
    BY DEF TypesInv, Numbering
  <2> QED
    BY <1>1, <2>1
<1>9. misled' \subseteq Task /\ \A t \in misled' : t[2] <= nreq'[t[1]]
  <2>1. misled' = misled
    BY DEF Request, NewRequest
  <2>2. misled \subseteq Task /\ \A t \in misled : t[2] <= nreq[t[1]]
    BY DEF TypesInv, Numbering
  <2>3. MaxRequests \in Nat
    BY BoundAssumption
  <2>4. ASSUME NEW t \in misled PROVE t[2] <= nreq'[t[1]]
    <3>1. t[1] \in Client /\ t[2] \in Nat
      BY <2>2, <2>3, TaskIsPair
    <3>2. nreq'[t[1]] \in Nat
      BY <1>1, <1>7, <3>1
    <3> QED
      BY <1>7, <2>2, <3>1, <3>2
  <2> QED
    BY <2>1, <2>2, <2>4
<1> QED
  BY <1>6, <1>8, <1>9 DEF Numbering

\* Every step keeps threads and requests numbered alike.
LEMMA NextNumbering == TypesInv /\ [Step]_vars => Numbering'
<1> SUFFICES ASSUME TypesInv, [Step]_vars PROVE Numbering'
  OBVIOUS
<1>0. Shape /\ Numbering
  BY DEF TypesInv, Types
<1> USE TaskIsPair, <1>0 DEF Shape, Numbering, cvars, tvars
<1>1. ASSUME NEW c \in Client, Request(c) PROVE Numbering'
  BY <1>1, RequestNumbering
<1>2. ASSUME NEW c \in Client, ClientMkfifo(c) PROVE Numbering'
  BY <1>2 DEF ClientMkfifo, Mkfifo
<1>3. ASSUME NEW c \in Client, ClientOpen(c) PROVE Numbering'
  <2>1. \A t \in Task : tpc'[t] = tpc[t] \/ (tpc[t] = "blocked" /\ tpc'[t] = "add")
    BY <1>3 DEF ClientOpen, Blocked
  <2>2. /\ nreq' = nreq /\ wrote' = wrote /\ misled' = misled
        /\ \A d \in Client : cpc'[d] = cpc[d] \/ cpc[d] = "open"
    BY <1>3 DEF ClientOpen
  <2> QED
    BY <2>1, <2>2
<1>4. ASSUME NEW c \in Client, ClientOpenFails(c) PROVE Numbering'
  BY <1>4 DEF ClientOpenFails
<1>5. ASSUME NEW c \in Client, ReadLine(c) PROVE Numbering'
  <2>1. /\ UNCHANGED <<nreq, tpc, wrote>> /\ cpc[c] = "read"
        /\ \A d \in Client : cpc'[d] = cpc[d] \/ cpc[d] = "read"
        /\ misled' = misled \/ misled' = misled \cup {<<c, nreq[c]>>}
    BY <1>5 DEF ReadLine
  <2>2. nreq[c] \in 1..MaxRequests
    BY <2>1, BoundAssumption DEF TypesInv, Types, Bounds
  <2>3. <<c, nreq[c]>> \in Task /\ <<c, nreq[c]>>[2] <= nreq[<<c, nreq[c]>>[1]]
    BY <2>2, BoundAssumption
  <2>4. misled' \subseteq Task /\ \A t \in misled' : t[2] <= nreq'[t[1]]
    BY <2>1, <2>3
  <2> QED
    BY <2>1, <2>4
<1>6. ASSUME NEW c \in Client, ReadEOF(c) PROVE Numbering'
  BY <1>6 DEF ReadEOF
<1>7. ASSUME NEW c \in Client, ClientClose(c) PROVE Numbering'
  BY <1>7 DEF ClientClose
<1>8. ASSUME NEW c \in Client, ClientUnlink(c) PROVE Numbering'
  BY <1>8 DEF ClientUnlink, RemoveFifo
<1>9. ASSUME NEW c \in Client, Interrupt(c) PROVE Numbering'
  BY <1>9 DEF Interrupt
<1>10. ASSUME NEW t \in Task, ThreadMkfifo(t) PROVE Numbering'
  BY <1>10 DEF ThreadMkfifo, Mkfifo
<1>11. ASSUME NEW t \in Task, ThreadOpen(t) PROVE Numbering'
  BY <1>11 DEF ThreadOpen
<1>12. ASSUME NEW t \in Task, ThreadOpenFails(t) PROVE Numbering'
  BY <1>12 DEF ThreadOpenFails
<1>13. ASSUME NEW t \in Task, TaskqAdd(t) PROVE Numbering'
  BY <1>13 DEF TaskqAdd
<1>14. ASSUME NEW t \in Task, Popen(t) PROVE Numbering'
  BY <1>14 DEF Popen
<1>15. ASSUME NEW t \in Task, WriteLine(t) PROVE Numbering'
  BY <1>15 DEF WriteLine
<1>16. ASSUME NEW t \in Task, WriteFails(t) PROVE Numbering'
  BY <1>16 DEF WriteFails
<1>17. ASSUME NEW t \in Task, Pclose(t) PROVE Numbering'
  BY <1>17 DEF Pclose
<1>18. ASSUME NEW t \in Task, TaskqRemove(t) PROVE Numbering'
  BY <1>18 DEF TaskqRemove
<1>19. ASSUME NEW t \in Task, ThreadClose(t) PROVE Numbering'
  BY <1>19 DEF ThreadClose
<1>20. ASSUME NEW t \in Task, ThreadUnlink(t) PROVE Numbering'
  BY <1>20 DEF ThreadUnlink, RemoveFifo
<1>21. CASE UNCHANGED vars
  BY <1>21 DEF vars
<1> QED
  BY <1>1, <1>2, <1>3, <1>4, <1>5, <1>6, <1>7, <1>8, <1>9, <1>10, <1>11, <1>12, <1>13, <1>14, <1>15, <1>16, <1>17, <1>18, <1>19, <1>20, <1>21
  DEF Step, GetResult, ProcessRequest

-----------------------------------------------------------------------------
(* Where a client stands, and where its threads.                           *)

Latest(c) == <<c, nreq[c]>>

\* A thread that will not touch its end of the FIFO any more.
Over == {"unlink", "exited", "failed", "killed"}

\* A thread that its client does not wait for any more, or that it need not
\* wait for: one it stopped reading from too early may still be at work.
AtWork == {"add", "popen", "run", "remove", "close"}
Done(t) == tpc[t] \in Over \/ (t \in misled /\ tpc[t] \in AtWork)

\* The threads of earlier requests are done, and what the name now refers to
\* and what the client reads is not theirs.
OlderAreOver(c) ==
    \A k \in 1..nreq[c] - 1 :
        LET t == <<c, k>> IN
        /\ Done(t)
        /\ name[c] # 0 => tfd[t] # name[c]
        /\ tpc[t] # "exited" => ~Reads(c, tfd[t])

\* The client and the thread of its latest request meet on one FIFO.
InStep(c) ==
    LET t == Latest(c) IN
    /\ cpc[c] = "prompt" => name[c] = 0 /\ (nreq[c] > 0 => Done(t))
    /\ cpc[c] # "prompt" => nreq[c] > 0
    /\ cpc[c] \in {"mkfifo", "open", "blocked", "read"} => t \notin misled
    /\ cpc[c] \in {"mkfifo", "open", "blocked"} =>
          /\ tpc[t] \in {"mkfifo", "open", "blocked", "gave_up"}
          /\ tpc[t] = "open" => name[c] # 0
          /\ tpc[t] = "blocked" => tfd[t] = name[c] /\ name[c] # 0
    /\ cpc[c] = "open" => name[c] # 0
    /\ cpc[c] = "blocked" =>
          name[c] # 0 /\ cfd[c] = name[c] /\ tpc[t] # "blocked"
    /\ cpc[c] = "read" =>
          /\ tpc[t] \in {"add", "popen", "run", "remove", "close"} \cup Over
          /\ tpc[t] # "exited" => tfd[t] = cfd[c]
    /\ cpc[c] \in {"close", "unlink"} => Done(t)

\* What the client has read and what is in the FIFO are the lines its thread
\* has written, and a marker comes last.
Marked(c) == \E i \in 1..Len(pipe[c]) : IsMarker(pipe[c][i])

LinesInOrder(c) ==
    /\ cpc[c] \notin {"read", "close", "unlink"} => shown[c] = <<>> /\ pipe[c] = <<>>
    /\ cpc[c] \in {"close", "unlink"} => pipe[c] = <<>> \/ Latest(c) \in misled
    /\ cpc[c] \in {"read", "close", "unlink"} =>
          /\ nreq[c] > 0
          /\ \A i \in 1..Len(shown[c]) : shown[c][i] \in {<<nreq[c], i>>, NOTHING}
          /\ \A i \in 1..Len(pipe[c]) :
                IF IsMarker(pipe[c][i]) THEN i = Len(pipe[c])
                ELSE pipe[c][i] = <<nreq[c], Len(shown[c]) + i>>
          /\ Marked(c) => tpc[Latest(c)] \in {"killed", "failed", "exited", "dead"}
          /\ wrote[Latest(c)] = Len(shown[c]) + Len(pipe[c]) - (IF Marked(c) THEN 1 ELSE 0)

Meeting(c) ==
    /\ LinesInOrder(c)
    /\ cpc[c] # "gone" /\ ~ServerDead => OlderAreOver(c) /\ InStep(c)

SessionInv == TypesInv /\ (~stale => \A c \in Client : Meeting(c))


\* Only the thread of the latest request is at work, but for those whose
\* clients were misled.
LEMMA WorkingIsLatest ==
    ASSUME TypesInv, ~ServerDead, NEW t \in Task, OlderAreOver(t[1]),
           t \notin misled, tpc[t] \notin Over \cup {"none"}
    PROVE  t = Latest(t[1]) /\ nreq[t[1]] \in 1..MaxRequests /\ nreq[t[1]] \in Nat
<1>1. t[1] \in Client /\ t[2] \in 1..MaxRequests /\ t = <<t[1], t[2]>> /\ MaxRequests \in Nat
  BY TaskIsPair, BoundAssumption
<1>2. nreq[t[1]] \in Nat
  BY <1>1 DEF TypesInv, Types, Shape
<1>3. tpc[t] # "dead"
  BY DEF ServerDead
<1>4. ~(t[2] > nreq[t[1]])
  BY <1>1, <1>3 DEF TypesInv, Numbering, Over
<1>5. t[2] \notin 1..nreq[t[1]] - 1
  <2> SUFFICES ASSUME t[2] \in 1..nreq[t[1]] - 1 PROVE FALSE
    OBVIOUS
  <2>1. Done(<<t[1], t[2]>>)
    BY Zenon DEF OlderAreOver
  <2> QED
    BY <1>1, <2>1 DEF Done
<1>6. t[2] = nreq[t[1]]
  BY ONLY <1>1, <1>2, <1>4, <1>5
<1> QED
  BY <1>1, <1>2, <1>6 DEF Latest

\* Older threads stay where they are as long as neither the name nor the
\* client comes to refer to an inode of theirs.
LEMMA OlderStay ==
    ASSUME TypesInv, NEW c \in Client, OlderAreOver(c), nreq'[c] = nreq[c],
           name'[c] \in {0, name[c]} \/ name'[c] > made[c], misled \subseteq misled',
           cpc'[c] \in {"blocked", "read", "close"} =>
              \/ cpc[c] \in {"blocked", "read", "close"} /\ cfd'[c] = cfd[c]
              \/ cfd'[c] = name[c] /\ name[c] # 0,
           \A k \in 1..nreq[c] - 1 : tpc'[<<c, k>>] = tpc[<<c, k>>] /\ tfd'[<<c, k>>] = tfd[<<c, k>>]
    PROVE  OlderAreOver(c)'
<1> SUFFICES ASSUME NEW k \in 1..nreq[c] - 1
             PROVE  /\ Done(<<c, k>>)' /\ (name'[c] # 0 => tfd'[<<c, k>>] # name'[c])
                    /\ tpc'[<<c, k>>] # "exited" => ~Reads(c, tfd[<<c, k>>])'
  BY DEF OlderAreOver, Reads
<1>1. /\ Done(<<c, k>>) /\ (name[c] # 0 => tfd[<<c, k>>] # name[c])
      /\ tpc[<<c, k>>] # "exited" => ~Reads(c, tfd[<<c, k>>])
  BY DEF OlderAreOver
<1>2. nreq[c] \in Nat /\ nreq[c] <= MaxRequests /\ MaxRequests \in Nat
  BY BoundAssumption DEF TypesInv, Types, Shape, Bounds
<1>3. k \in 1..MaxRequests
  BY <1>2
<1>4. <<c, k>> \in Task /\ Owner(<<c, k>>) = c
  BY <1>3, TaskIsPair DEF Owner
<1>5. tfd[<<c, k>>] <= made[c] /\ tfd[<<c, k>>] \in Nat /\ made[c] \in Nat
  BY <1>4 DEF TypesInv, Types, Shape, Bounds
<1>6. tpc'[<<c, k>>] = tpc[<<c, k>>] /\ tfd'[<<c, k>>] = tfd[<<c, k>>]
  OBVIOUS
<1>7. Done(<<c, k>>)'
  BY <1>1, <1>6 DEF Done
<1>8. name'[c] # 0 => tfd'[<<c, k>>] # name'[c]
  BY <1>1, <1>5, <1>6
<1>9. tpc'[<<c, k>>] # "exited" => ~Reads(c, tfd[<<c, k>>])'
  BY <1>1, <1>6 DEF Reads
<1> QED
  BY <1>7, <1>8, <1>9


\* The thread makes the FIFO, or finds the one its client has made.
LEMMA ThreadMkfifoInStep ==
    ASSUME TypesInv, ~ServerDead, NEW t \in Task, NEW c \in Client, c = t[1],
           cpc[c] # "gone", OlderAreOver(c), InStep(c), t \notin misled, ThreadMkfifo(t)
    PROVE  OlderAreOver(c)' /\ InStep(c)'
<1>1. t = <<c, nreq[c]>> /\ nreq[c] \in 1..MaxRequests /\ nreq[c] \in Nat
  BY WorkingIsLatest DEF ThreadMkfifo, Over, Latest
<1>2. Shape /\ Owner(t) = c
  BY DEF TypesInv, Types, Owner
<1>3. /\ tpc[t] = "mkfifo" /\ nreq'[c] = nreq[c] /\ cpc[c] \in ClientPc /\ misled' = misled
      /\ tpc'[t] = "open"
      /\ name'[c] # 0 /\ (name[c] # 0 => name'[c] = name[c])
      /\ cpc'[c] = cpc[c] /\ cfd'[c] = cfd[c] /\ tfd'[t] = tfd[t]
  BY <1>2 DEF ThreadMkfifo, Mkfifo, Shape, cvars, tvars, Reads
<1>4. /\ name'[c] \in {0, name[c]} \/ name'[c] > made[c]
      /\ \A u \in Task : u # t => tpc'[u] = tpc[u] /\ tfd'[u] = tfd[u]
  BY <1>2 DEF ThreadMkfifo, Mkfifo, Shape, cvars, tvars
<1>5. OlderAreOver(c)'
  <2>1. \A k \in 1..nreq[c] - 1 : <<c, k>> \in Task /\ <<c, k>> # t
    <3> SUFFICES ASSUME NEW k \in 1..nreq[c] - 1 PROVE <<c, k>> \in Task /\ <<c, k>> # t
      OBVIOUS
    <3>1. k \in 1..MaxRequests /\ k # nreq[c]
      BY <1>1, BoundAssumption
    <3> QED
      BY <1>1, <3>1, TaskIsPair
  <2> QED
    BY <1>3, <1>4, <2>1, OlderStay
<1>6. InStep(c)'
  BY ONLY <1>1, <1>3, InStep(c), t \notin misled, cpc[c] # "gone"
  DEF InStep, Latest, Done, AtWork, Over, ClientPc
<1> QED
  BY <1>5, <1>6

\* The thread opens the FIFO its client opens.
LEMMA ThreadOpenInStep ==
    ASSUME TypesInv, ~ServerDead, NEW t \in Task, NEW c \in Client, c = t[1],
           cpc[c] # "gone", OlderAreOver(c), InStep(c), t \notin misled, ThreadOpen(t)
    PROVE  OlderAreOver(c)' /\ InStep(c)'
<1>1. t = <<c, nreq[c]>> /\ nreq[c] \in 1..MaxRequests /\ nreq[c] \in Nat
  BY WorkingIsLatest DEF ThreadOpen, Over, Latest
<1>2. Shape /\ Owner(t) = c
  BY DEF TypesInv, Types, Owner
<1>3. /\ tpc[t] = "open" /\ nreq'[c] = nreq[c] /\ cpc[c] \in ClientPc /\ misled' = misled
      /\ name[c] # 0 /\ name'[c] = name[c] /\ tfd'[t] = name[c] /\ cfd'[c] = cfd[c]
      /\ \/ /\ cpc[c] = "blocked" /\ cfd[c] = name[c] /\ cpc'[c] = "read" /\ tpc'[t] = "add"
        \/ /\ cpc[c] \in {"read", "close"} /\ cpc'[c] = cpc[c]
        \/ /\ cpc[c] \notin {"blocked", "read", "close"} /\ cpc'[c] = cpc[c] /\ tpc'[t] = "blocked"
        \/ /\ cpc[c] = "blocked" /\ cpc'[c] = cpc[c] /\ cfd[c] # name[c]
  BY <1>2 DEF ThreadOpen, Shape, cvars, tvars, Reads
<1>4. /\ name'[c] \in {0, name[c]} \/ name'[c] > made[c]
      /\ \A u \in Task : u # t => tpc'[u] = tpc[u] /\ tfd'[u] = tfd[u]
  BY <1>2 DEF ThreadOpen, Shape, cvars, tvars
<1>5. OlderAreOver(c)'
  <2>1. \A k \in 1..nreq[c] - 1 : <<c, k>> \in Task /\ <<c, k>> # t
    <3> SUFFICES ASSUME NEW k \in 1..nreq[c] - 1 PROVE <<c, k>> \in Task /\ <<c, k>> # t
      OBVIOUS
    <3>1. k \in 1..MaxRequests /\ k # nreq[c]
      BY <1>1, BoundAssumption
    <3> QED
      BY <1>1, <3>1, TaskIsPair
  <2> QED
    BY <1>3, <1>4, <2>1, OlderStay
<1>6. InStep(c)'
  BY ONLY <1>1, <1>3, InStep(c), t \notin misled, cpc[c] # "gone"
  DEF InStep, Latest, Done, AtWork, Over, ClientPc
<1> QED
  BY <1>5, <1>6

\* The name is there while the thread's client has not opened it.
LEMMA ThreadOpenFailsNever ==
    ASSUME TypesInv, ~ServerDead, NEW t \in Task, NEW c \in Client, c = t[1],
           cpc[c] # "gone", OlderAreOver(c), InStep(c), t \notin misled, ThreadOpenFails(t)
    PROVE  FALSE
<1>1. t = <<c, nreq[c]>> /\ nreq[c] > 0
  <2>1. t = <<c, nreq[c]>> /\ nreq[c] \in 1..MaxRequests
    BY WorkingIsLatest DEF ThreadOpenFails, Over, Latest
  <2> QED
    BY <2>1, BoundAssumption
<1>2. tpc[t] = "open" /\ name[c] = 0 /\ cpc[c] \in ClientPc
  BY DEF ThreadOpenFails, Owner, TypesInv, Types, Shape
<1> QED
  BY ONLY <1>1, <1>2, InStep(c), t \notin misled, cpc[c] # "gone"
  DEF InStep, Latest, Done, AtWork, Over, ClientPc

\* The thread's node goes into the queue.
LEMMA TaskqAddInStep ==
    ASSUME TypesInv, ~ServerDead, NEW t \in Task, NEW c \in Client, c = t[1],
           cpc[c] # "gone", OlderAreOver(c), InStep(c), t \notin misled, TaskqAdd(t)
    PROVE  OlderAreOver(c)' /\ InStep(c)'
<1>1. t = <<c, nreq[c]>> /\ nreq[c] \in 1..MaxRequests /\ nreq[c] \in Nat
  BY WorkingIsLatest DEF TaskqAdd, Over, Latest
<1>2. Shape /\ Owner(t) = c
  BY DEF TypesInv, Types, Owner
<1>3. /\ tpc[t] = "add" /\ nreq'[c] = nreq[c] /\ cpc[c] \in ClientPc /\ misled' = misled
      /\ tpc'[t] = "popen"
      /\ cpc'[c] = cpc[c] /\ cfd'[c] = cfd[c] /\ tfd'[t] = tfd[t] /\ name'[c] = name[c]
  BY <1>2 DEF TaskqAdd, Shape, cvars, tvars, Reads
<1>4. /\ name'[c] \in {0, name[c]} \/ name'[c] > made[c]
      /\ \A u \in Task : u # t => tpc'[u] = tpc[u] /\ tfd'[u] = tfd[u]
  BY <1>2 DEF TaskqAdd, Shape, cvars, tvars
<1>5. OlderAreOver(c)'
  <2>1. \A k \in 1..nreq[c] - 1 : <<c, k>> \in Task /\ <<c, k>> # t
    <3> SUFFICES ASSUME NEW k \in 1..nreq[c] - 1 PROVE <<c, k>> \in Task /\ <<c, k>> # t
      OBVIOUS
    <3>1. k \in 1..MaxRequests /\ k # nreq[c]
      BY <1>1, BoundAssumption
    <3> QED
      BY <1>1, <3>1, TaskIsPair
  <2> QED
    BY <1>3, <1>4, <2>1, OlderStay
<1>6. InStep(c)'
  BY ONLY <1>1, <1>3, InStep(c), t \notin misled, cpc[c] # "gone"
  DEF InStep, Latest, Done, AtWork, Over, ClientPc
<1> QED
  BY <1>5, <1>6

\* A thread whose popen fails is over with its end open.
LEMMA PopenInStep ==
    ASSUME TypesInv, ~ServerDead, NEW t \in Task, NEW c \in Client, c = t[1],
           cpc[c] # "gone", OlderAreOver(c), InStep(c), t \notin misled, Popen(t)
    PROVE  OlderAreOver(c)' /\ InStep(c)'
<1>1. t = <<c, nreq[c]>> /\ nreq[c] \in 1..MaxRequests /\ nreq[c] \in Nat
  BY WorkingIsLatest DEF Popen, Over, Latest
<1>2. Shape /\ Owner(t) = c
  BY DEF TypesInv, Types, Owner
<1>3. /\ tpc[t] = "popen" /\ nreq'[c] = nreq[c] /\ cpc[c] \in ClientPc /\ misled' = misled
      /\ tpc'[t] \in {"run", "failed"}
      /\ cpc'[c] = cpc[c] /\ cfd'[c] = cfd[c] /\ tfd'[t] = tfd[t] /\ name'[c] = name[c]
  BY <1>2 DEF Popen, Shape, cvars, tvars, Reads
<1>4. /\ name'[c] \in {0, name[c]} \/ name'[c] > made[c]
      /\ \A u \in Task : u # t => tpc'[u] = tpc[u] /\ tfd'[u] = tfd[u]
  BY <1>2 DEF Popen, Shape, cvars, tvars
<1>5. OlderAreOver(c)'
  <2>1. \A k \in 1..nreq[c] - 1 : <<c, k>> \in Task /\ <<c, k>> # t
    <3> SUFFICES ASSUME NEW k \in 1..nreq[c] - 1 PROVE <<c, k>> \in Task /\ <<c, k>> # t
      OBVIOUS
    <3>1. k \in 1..MaxRequests /\ k # nreq[c]
      BY <1>1, BoundAssumption
    <3> QED
      BY <1>1, <3>1, TaskIsPair
  <2> QED
    BY <1>3, <1>4, <2>1, OlderStay
<1>6. InStep(c)'
  BY ONLY <1>1, <1>3, InStep(c), t \notin misled, cpc[c] # "gone"
  DEF InStep, Latest, Done, AtWork, Over, ClientPc
<1> QED
  BY <1>5, <1>6

\* Writing moves neither side on.
LEMMA WriteLineInStep ==
    ASSUME TypesInv, ~ServerDead, NEW t \in Task, NEW c \in Client, c = t[1],
           cpc[c] # "gone", OlderAreOver(c), InStep(c), t \notin misled, WriteLine(t)
    PROVE  OlderAreOver(c)' /\ InStep(c)'
<1>1. t = <<c, nreq[c]>> /\ nreq[c] \in 1..MaxRequests /\ nreq[c] \in Nat
  BY WorkingIsLatest DEF WriteLine, Over, Latest
<1>2. Shape /\ Owner(t) = c
  BY DEF TypesInv, Types, Owner
<1>3. /\ tpc[t] = "run" /\ nreq'[c] = nreq[c] /\ cpc[c] \in ClientPc /\ misled' = misled
      /\ tpc'[t] = "run"
      /\ cpc'[c] = cpc[c] /\ cfd'[c] = cfd[c] /\ tfd'[t] = tfd[t] /\ name'[c] = name[c]
  BY <1>2 DEF WriteLine, Shape, cvars, tvars, Reads
<1>4. /\ name'[c] \in {0, name[c]} \/ name'[c] > made[c]
      /\ \A u \in Task : u # t => tpc'[u] = tpc[u] /\ tfd'[u] = tfd[u]
  BY <1>2 DEF WriteLine, Shape, cvars, tvars
<1>5. OlderAreOver(c)'
  <2>1. \A k \in 1..nreq[c] - 1 : <<c, k>> \in Task /\ <<c, k>> # t
    <3> SUFFICES ASSUME NEW k \in 1..nreq[c] - 1 PROVE <<c, k>> \in Task /\ <<c, k>> # t
      OBVIOUS
    <3>1. k \in 1..MaxRequests /\ k # nreq[c]
      BY <1>1, BoundAssumption
    <3> QED
      BY <1>1, <3>1, TaskIsPair
  <2> QED
    BY <1>3, <1>4, <2>1, OlderStay
<1>6. InStep(c)'
  BY ONLY <1>1, <1>3, InStep(c), t \notin misled, cpc[c] # "gone"
  DEF InStep, Latest, Done, AtWork, Over, ClientPc
<1> QED
  BY <1>5, <1>6

\* The command has ended.
LEMMA PcloseInStep ==
    ASSUME TypesInv, ~ServerDead, NEW t \in Task, NEW c \in Client, c = t[1],
           cpc[c] # "gone", OlderAreOver(c), InStep(c), t \notin misled, Pclose(t)
    PROVE  OlderAreOver(c)' /\ InStep(c)'
<1>1. t = <<c, nreq[c]>> /\ nreq[c] \in 1..MaxRequests /\ nreq[c] \in Nat
  BY WorkingIsLatest DEF Pclose, Over, Latest
<1>2. Shape /\ Owner(t) = c
  BY DEF TypesInv, Types, Owner
<1>3. /\ tpc[t] = "run" /\ nreq'[c] = nreq[c] /\ cpc[c] \in ClientPc /\ misled' = misled
      /\ tpc'[t] \in {"remove", "failed"}
      /\ cpc'[c] = cpc[c] /\ cfd'[c] = cfd[c] /\ tfd'[t] = tfd[t] /\ name'[c] = name[c]
  BY <1>2 DEF Pclose, Shape, cvars, tvars, Reads
<1>4. /\ name'[c] \in {0, name[c]} \/ name'[c] > made[c]
      /\ \A u \in Task : u # t => tpc'[u] = tpc[u] /\ tfd'[u] = tfd[u]
  BY <1>2 DEF Pclose, Shape, cvars, tvars
<1>5. OlderAreOver(c)'
  <2>1. \A k \in 1..nreq[c] - 1 : <<c, k>> \in Task /\ <<c, k>> # t
    <3> SUFFICES ASSUME NEW k \in 1..nreq[c] - 1 PROVE <<c, k>> \in Task /\ <<c, k>> # t
      OBVIOUS
    <3>1. k \in 1..MaxRequests /\ k # nreq[c]
      BY <1>1, BoundAssumption
    <3> QED
      BY <1>1, <3>1, TaskIsPair
  <2> QED
    BY <1>3, <1>4, <2>1, OlderStay
<1>6. InStep(c)'
  BY ONLY <1>1, <1>3, InStep(c), t \notin misled, cpc[c] # "gone"
  DEF InStep, Latest, Done, AtWork, Over, ClientPc
<1> QED
  BY <1>5, <1>6

\* The thread's node leaves the queue.
LEMMA TaskqRemoveInStep ==
    ASSUME TypesInv, ~ServerDead, NEW t \in Task, NEW c \in Client, c = t[1],
           cpc[c] # "gone", OlderAreOver(c), InStep(c), t \notin misled, TaskqRemove(t)
    PROVE  OlderAreOver(c)' /\ InStep(c)'
<1>1. t = <<c, nreq[c]>> /\ nreq[c] \in 1..MaxRequests /\ nreq[c] \in Nat
  BY WorkingIsLatest DEF TaskqRemove, Over, Latest
<1>2. Shape /\ Owner(t) = c
  BY DEF TypesInv, Types, Owner
<1>3. /\ tpc[t] = "remove" /\ nreq'[c] = nreq[c] /\ cpc[c] \in ClientPc /\ misled' = misled
      /\ tpc'[t] = "close"
      /\ cpc'[c] = cpc[c] /\ cfd'[c] = cfd[c] /\ tfd'[t] = tfd[t] /\ name'[c] = name[c]
  BY <1>2 DEF TaskqRemove, Shape, cvars, tvars, Reads
<1>4. /\ name'[c] \in {0, name[c]} \/ name'[c] > made[c]
      /\ \A u \in Task : u # t => tpc'[u] = tpc[u] /\ tfd'[u] = tfd[u]
  BY <1>2 DEF TaskqRemove, Shape, cvars, tvars
<1>5. OlderAreOver(c)'
  <2>1. \A k \in 1..nreq[c] - 1 : <<c, k>> \in Task /\ <<c, k>> # t
    <3> SUFFICES ASSUME NEW k \in 1..nreq[c] - 1 PROVE <<c, k>> \in Task /\ <<c, k>> # t
      OBVIOUS
    <3>1. k \in 1..MaxRequests /\ k # nreq[c]
      BY <1>1, BoundAssumption
    <3> QED
      BY <1>1, <3>1, TaskIsPair
  <2> QED
    BY <1>3, <1>4, <2>1, OlderStay
<1>6. InStep(c)'
  BY ONLY <1>1, <1>3, InStep(c), t \notin misled, cpc[c] # "gone"
  DEF InStep, Latest, Done, AtWork, Over, ClientPc
<1> QED
  BY <1>5, <1>6

\* The thread is over once it has closed its end.
LEMMA ThreadCloseInStep ==
    ASSUME TypesInv, ~ServerDead, NEW t \in Task, NEW c \in Client, c = t[1],
           cpc[c] # "gone", OlderAreOver(c), InStep(c), t \notin misled, ThreadClose(t)
    PROVE  OlderAreOver(c)' /\ InStep(c)'
<1>1. t = <<c, nreq[c]>> /\ nreq[c] \in 1..MaxRequests /\ nreq[c] \in Nat
  BY WorkingIsLatest DEF ThreadClose, Over, Latest
<1>2. Shape /\ Owner(t) = c
  BY DEF TypesInv, Types, Owner
<1>3. /\ tpc[t] = "close" /\ nreq'[c] = nreq[c] /\ cpc[c] \in ClientPc /\ misled' = misled
      /\ tpc'[t] = "unlink"
      /\ cpc'[c] = cpc[c] /\ cfd'[c] = cfd[c] /\ tfd'[t] = tfd[t] /\ name'[c] = name[c]
  BY <1>2 DEF ThreadClose, Shape, cvars, tvars, Reads
<1>4. /\ name'[c] \in {0, name[c]} \/ name'[c] > made[c]
      /\ \A u \in Task : u # t => tpc'[u] = tpc[u] /\ tfd'[u] = tfd[u]
  BY <1>2 DEF ThreadClose, Shape, cvars, tvars
<1>5. OlderAreOver(c)'
  <2>1. \A k \in 1..nreq[c] - 1 : <<c, k>> \in Task /\ <<c, k>> # t
    <3> SUFFICES ASSUME NEW k \in 1..nreq[c] - 1 PROVE <<c, k>> \in Task /\ <<c, k>> # t
      OBVIOUS
    <3>1. k \in 1..MaxRequests /\ k # nreq[c]
      BY <1>1, BoundAssumption
    <3> QED
      BY <1>1, <3>1, TaskIsPair
  <2> QED
    BY <1>3, <1>4, <2>1, OlderStay
<1>6. InStep(c)'
  BY ONLY <1>1, <1>3, InStep(c), t \notin misled, cpc[c] # "gone"
  DEF InStep, Latest, Done, AtWork, Over, ClientPc
<1> QED
  BY <1>5, <1>6


\* The client makes the FIFO, or finds the one its thread has made.
LEMMA ClientMkfifoInStep ==
    ASSUME TypesInv, ~ServerDead, NEW c \in Client,
           cpc[c] # "gone", OlderAreOver(c), InStep(c), ClientMkfifo(c)
    PROVE  OlderAreOver(c)' /\ InStep(c)'
<1>1. Shape /\ nreq[c] \in Nat
  BY DEF TypesInv, Types, Shape
<1>2. /\ nreq'[c] = nreq[c] /\ tpc' = tpc /\ tfd' = tfd /\ misled \subseteq misled'
      /\ cpc[c] = "mkfifo" /\ cpc'[c] = "open" /\ misled' = misled
      /\ name'[c] # 0 /\ (name[c] # 0 => name'[c] = name[c])
  BY <1>1 DEF ClientMkfifo, Mkfifo, Shape, cvars, tvars
<1>3. name'[c] \in {0, name[c]} \/ name'[c] > made[c]
  BY <1>1 DEF ClientMkfifo, Mkfifo, Shape, cvars, tvars
<1>4. OlderAreOver(c)'
  BY <1>2, <1>3, OlderStay
<1>5. InStep(c)'
  BY ONLY <1>1, <1>2, InStep(c) DEF InStep, Latest, Done, AtWork, Over
<1> QED
  BY <1>4, <1>5

\* The name is there when the client opens it.
LEMMA ClientOpenFailsNever ==
    ASSUME NEW c \in Client, InStep(c), ClientOpenFails(c)
    PROVE  FALSE
  BY DEF ClientOpenFails, InStep

\* Reading a line moves neither side on, unless it misleads the client.
LEMMA ReadLineInStep ==
    ASSUME TypesInv, ~ServerDead, NEW c \in Client,
           cpc[c] # "gone", OlderAreOver(c), InStep(c), ReadLine(c)
    PROVE  OlderAreOver(c)' /\ InStep(c)'
<1>1. Shape /\ nreq[c] \in Nat
  BY DEF TypesInv, Types, Shape
<1>2. /\ nreq'[c] = nreq[c] /\ tpc' = tpc /\ tfd' = tfd /\ misled \subseteq misled'
      /\ cpc[c] = "read" /\ name'[c] = name[c] /\ cfd'[c] = cfd[c]
      /\ \/ cpc'[c] = "read" /\ misled' = misled
         \/ cpc'[c] = "close" /\ misled' = misled \cup {<<c, nreq[c]>>}
  BY <1>1 DEF ReadLine, Shape, cvars, tvars
<1>3. name'[c] \in {0, name[c]} \/ name'[c] > made[c]
  BY <1>1 DEF ReadLine, Shape, cvars, tvars
<1>4. OlderAreOver(c)'
  BY <1>2, <1>3, OlderStay
<1>5. InStep(c)'
  BY ONLY <1>1, <1>2, InStep(c) DEF InStep, Latest, Done, AtWork, Over
<1> QED
  BY <1>4, <1>5

\* The client closes its end.
LEMMA ClientCloseInStep ==
    ASSUME TypesInv, ~ServerDead, NEW c \in Client,
           cpc[c] # "gone", OlderAreOver(c), InStep(c), ClientClose(c)
    PROVE  OlderAreOver(c)' /\ InStep(c)'
<1>1. Shape /\ nreq[c] \in Nat
  BY DEF TypesInv, Types, Shape
<1>2. /\ nreq'[c] = nreq[c] /\ tpc' = tpc /\ tfd' = tfd /\ misled \subseteq misled'
      /\ cpc[c] = "close" /\ cpc'[c] = "unlink" /\ misled' = misled
      /\ name'[c] = name[c]
  BY <1>1 DEF ClientClose, Shape, cvars, tvars
<1>3. name'[c] \in {0, name[c]} \/ name'[c] > made[c]
  BY <1>1 DEF ClientClose, Shape, cvars, tvars
<1>4. OlderAreOver(c)'
  BY <1>2, <1>3, OlderStay
<1>5. InStep(c)'
  BY ONLY <1>1, <1>2, InStep(c) DEF InStep, Latest, Done, AtWork, Over
<1> QED
  BY <1>4, <1>5

\* The client is back at the prompt, and its FIFO has no name.
LEMMA ClientUnlinkInStep ==
    ASSUME TypesInv, ~ServerDead, NEW c \in Client,
           cpc[c] # "gone", OlderAreOver(c), InStep(c), ClientUnlink(c)
    PROVE  OlderAreOver(c)' /\ InStep(c)'
<1>1. Shape /\ nreq[c] \in Nat
  BY DEF TypesInv, Types, Shape
<1>2. /\ nreq'[c] = nreq[c] /\ tpc' = tpc /\ tfd' = tfd /\ misled \subseteq misled'
      /\ cpc[c] = "unlink" /\ cpc'[c] = "prompt" /\ misled' = misled
      /\ name'[c] = 0
  BY <1>1 DEF ClientUnlink, RemoveFifo, Shape, cvars, tvars
<1>3. name'[c] \in {0, name[c]} \/ name'[c] > made[c]
  BY <1>1 DEF ClientUnlink, RemoveFifo, Shape, cvars, tvars
<1>4. OlderAreOver(c)'
  BY <1>2, <1>3, OlderStay
<1>5. InStep(c)'
  BY ONLY <1>1, <1>2, InStep(c) DEF InStep, Latest, Done, AtWork, Over
<1> QED
  BY <1>4, <1>5

\* With the next request, the last one's thread becomes an older one.
LEMMA RequestInStep ==
    ASSUME TypesInv, ~ServerDead, NEW c \in Client,
           cpc[c] # "gone", OlderAreOver(c), InStep(c), Request(c)
    PROVE  OlderAreOver(c)' /\ InStep(c)'
<1>1. /\ nreq[c] \in Nat /\ nreq[c] + 1 \in 1..MaxRequests
      /\ nreq'[c] = nreq[c] + 1 /\ tpc'[<<c, nreq[c] + 1>>] \in {"mkfifo", "gave_up"}
      /\ \A t \in Task : t # <<c, nreq[c] + 1>> => tpc'[t] = tpc[t]
  BY RequestIsNext
<1>2. cpc[c] = "prompt" /\ cpc'[c] = "mkfifo" /\ name'[c] = name[c] /\ misled' = misled
  BY DEF Request, NewRequest, TypesInv, Types, Shape
<1>3. name[c] = 0 /\ (nreq[c] > 0 => Done(<<c, nreq[c]>>))
  BY <1>2 DEF InStep, Latest
<1>4. \A k \in 1..nreq[c] : Done(<<c, k>>)
  BY <1>1, <1>3 DEF OlderAreOver
<1>5. \A k \in 1..nreq[c] : <<c, k>> \in Task /\ <<c, k>> # <<c, nreq[c] + 1>>
  <2> SUFFICES ASSUME NEW k \in 1..nreq[c]
               PROVE  <<c, k>> \in Task /\ <<c, k>> # <<c, nreq[c] + 1>>
    OBVIOUS
  <2>1. k \in 1..MaxRequests /\ k # nreq[c] + 1
    BY <1>1, BoundAssumption
  <2> QED
    BY <2>1, TaskIsPair
<1>6. OlderAreOver(c)'
  <2> SUFFICES ASSUME NEW k \in 1..nreq'[c] - 1
               PROVE  Done(<<c, k>>)' /\ name'[c] = 0
    BY <1>2 DEF OlderAreOver, Reads
  <2>1. k \in 1..nreq[c]
    BY <1>1
  <2>2. tpc'[<<c, k>>] = tpc[<<c, k>>]
    BY <1>1, <1>5, <2>1
  <2> QED
    BY <1>2, <1>3, <1>4, <2>1, <2>2 DEF Done
<1>7. <<c, nreq[c] + 1>> \notin misled
  <2>1. <<c, nreq[c] + 1>>[1] = c /\ <<c, nreq[c] + 1>>[2] = nreq[c] + 1
    OBVIOUS
  <2> QED
    BY <1>1, <2>1 DEF TypesInv, Numbering
<1>8. InStep(c)'
  BY ONLY <1>1, <1>2, <1>7 DEF InStep, Latest, Done, Over
<1> QED
  BY <1>6, <1>8

\* The client opens the FIFO its thread opens, and wakes it if it waits there.
LEMMA ClientOpenInStep ==
    ASSUME TypesInv, ~ServerDead, NEW c \in Client,
           cpc[c] # "gone", OlderAreOver(c), InStep(c), ClientOpen(c)
    PROVE  OlderAreOver(c)' /\ InStep(c)'
<1> DEFINE t == <<c, nreq[c]>>
<1>1. Shape
  BY DEF TypesInv, Types
<1>2. /\ cpc[c] = "open" /\ name[c] # 0 /\ nreq'[c] = nreq[c] /\ name'[c] = name[c]
      /\ cfd'[c] = name[c] /\ tfd' = tfd /\ pipe'[c] = <<>> /\ misled' = misled
      /\ cpc'[c] = IF Writers(c, name[c]) \cup Blocked(c, name[c]) = {} THEN "blocked" ELSE "read"
      /\ \A u \in Task : tpc'[u] = IF u \in Blocked(c, name[c]) THEN "add" ELSE tpc[u]
  <2>1. /\ cpc[c] = "open" /\ name[c] # 0 /\ nreq' = nreq /\ name' = name /\ tfd' = tfd
        /\ misled' = misled
        /\ cfd' = [cfd EXCEPT ![c] = name[c]] /\ pipe' = [pipe EXCEPT ![c] = <<>>]
        /\ cpc' = [cpc EXCEPT ![c] = IF Writers(c, name[c]) \cup Blocked(c, name[c]) = {}
                                     THEN "blocked" ELSE "read"]
        /\ tpc' = [u \in Task |-> IF u \in Blocked(c, name[c]) THEN "add" ELSE tpc[u]]
    BY DEF ClientOpen
  <2>2. c \in DOMAIN cpc /\ c \in DOMAIN cfd /\ c \in DOMAIN pipe
    BY DEF TypesInv, Types, Shape, Lists
  <2> QED
    BY <2>1, <2>2, Zenon
<1>3. nreq[c] > 0 /\ nreq[c] \in Nat /\ tpc[t] \in {"mkfifo", "open", "blocked", "gave_up"}
      /\ (tpc[t] = "blocked" => tfd[t] = name[c]) /\ t \notin misled
  BY <1>1, <1>2 DEF InStep, Latest, Shape
<1>4. t \in Task /\ Owner(t) = c
  <2>1. nreq[c] \in 1..MaxRequests
    BY <1>3, BoundAssumption DEF TypesInv, Types, Bounds
  <2> QED
    BY <2>1, TaskIsPair DEF Owner
<1>5. ASSUME NEW u \in Task, Owner(u) = c, tpc[u] = "blocked" PROVE u = t
  <2>1. u[1] = c /\ u[2] \in 1..MaxRequests /\ u = <<c, u[2]>> /\ MaxRequests \in Nat
    BY <1>5, TaskIsPair, BoundAssumption DEF Owner
  <2>2. ~(u[2] > nreq[c])
    BY <1>5, <2>1 DEF TypesInv, Numbering
  <2>3. u[2] \notin 1..nreq[c] - 1
    <3> SUFFICES ASSUME u[2] \in 1..nreq[c] - 1 PROVE FALSE
      OBVIOUS
    <3>1. Done(<<c, u[2]>>)
      BY Zenon DEF OlderAreOver
    <3> QED
      BY <1>5, <2>1, <3>1 DEF Done, AtWork, Over
  <2>4. u[2] = nreq[c]
    BY ONLY <1>3, <2>1, <2>2, <2>3
  <2> QED
    BY <2>1, <2>4
<1>6. \A u \in Task : u \in Blocked(c, name[c]) => u = t /\ tpc[t] = "blocked"
  BY <1>5 DEF Blocked, Over
<1>7. tpc[t] = "blocked" => t \in Blocked(c, name[c])
  BY <1>3, <1>4 DEF Blocked
<1>8. Writers(c, name[c]) = {}
  <2> SUFFICES ASSUME NEW u \in Writers(c, name[c]) PROVE FALSE
    OBVIOUS
  <2>1. /\ u \in Task /\ Owner(u) = c /\ tfd[u] = name[c] /\ u # t
        /\ tpc[u] \in {"add", "popen", "run", "remove", "close", "failed", "killed"}
    BY <1>3 DEF Writers
  <2>2. u[1] = c /\ u[2] \in 1..MaxRequests /\ u = <<c, u[2]>> /\ MaxRequests \in Nat
    BY <2>1, TaskIsPair, BoundAssumption DEF Owner
  <2>3. ~(u[2] > nreq[c])
    BY <2>1, <2>2 DEF TypesInv, Numbering
  <2>4. u[2] # nreq[c]
    BY ONLY <2>1, <2>2 DEF t
  <2>5. u[2] \in 1..nreq[c] - 1
    BY ONLY <1>3, <2>2, <2>3, <2>4
  <2>6. tfd[<<c, u[2]>>] # name[c]
    BY <1>2, <2>5 DEF OlderAreOver
  <2> QED
    BY <2>1, <2>2, <2>6
<1>9. OlderAreOver(c)'
  <2>1. \A k \in 1..nreq[c] - 1 : <<c, k>> \in Task /\ <<c, k>> # t
    <3> SUFFICES ASSUME NEW k \in 1..nreq[c] - 1 PROVE <<c, k>> \in Task /\ <<c, k>> # t
      OBVIOUS
    <3>1. k \in 1..MaxRequests /\ k # nreq[c]
      BY <1>3, BoundAssumption DEF TypesInv, Types, Bounds
    <3> QED
      BY <3>1, TaskIsPair
  <2>2. \A k \in 1..nreq[c] - 1 : tpc'[<<c, k>>] = tpc[<<c, k>>]
    BY <1>2, <1>6, <2>1
  <2> HIDE DEF t
  <2> QED
    BY <1>2, <2>2, OlderStay
<1> HIDE DEF t
<1>10. /\ tpc[t] = "blocked" => tpc'[t] = "add" /\ cpc'[c] = "read"
       /\ tpc[t] # "blocked" => tpc'[t] = tpc[t] /\ cpc'[c] = "blocked"
  <2>1. CASE tpc[t] = "blocked"
    BY <1>2, <1>4, <1>7, <2>1
  <2>2. CASE tpc[t] # "blocked"
    <3>1. Blocked(c, name[c]) = {}
      BY <1>6, <2>2 DEF Blocked
    <3> QED
      BY <1>2, <1>4, <1>8, <2>2, <3>1
  <2> QED
    BY <2>1, <2>2
<1>11. InStep(c)'
  BY ONLY <1>2, <1>3, <1>10 DEF InStep, Latest, Done, AtWork, Over, t
<1> QED
  BY <1>9, <1>11

\* At the end of the FIFO the client's thread is over.
LEMMA ReadEOFInStep ==
    ASSUME TypesInv, ~ServerDead, NEW c \in Client,
           cpc[c] # "gone", OlderAreOver(c), InStep(c), ReadEOF(c)
    PROVE  OlderAreOver(c)' /\ InStep(c)'
<1> DEFINE t == <<c, nreq[c]>>
<1>1. Shape
  BY DEF TypesInv, Types
<1>2. /\ cpc[c] = "read" /\ cpc'[c] = "close" /\ nreq'[c] = nreq[c] /\ name'[c] = name[c]
      /\ Writers(c, cfd[c]) = {} /\ tpc' = tpc /\ tfd' = tfd
      /\ misled' = misled /\ cfd' = cfd
  BY <1>1 DEF ReadEOF, Shape, tvars
<1>3. OlderAreOver(c)'
  BY <1>2, OlderStay
<1>4. nreq[c] \in Nat /\ nreq[c] > 0
  BY <1>1, <1>2 DEF InStep, Latest, Shape
<1>5. t \in Task /\ Owner(t) = c
  <2>1. nreq[c] \in 1..MaxRequests
    BY <1>4, BoundAssumption DEF TypesInv, Types, Bounds
  <2> QED
    BY <2>1, TaskIsPair DEF Owner
<1>6. tpc[t] \in Over
  BY <1>2, <1>5 DEF InStep, Latest, Over, Writers
<1>7. InStep(c)'
  BY ONLY <1>2, <1>4, <1>6 DEF InStep, Latest, Done, AtWork, Over
<1> QED
  BY <1>3, <1>7

\* Unlinking the name of the FIFO a thread used takes no other away.
LEMMA UnlinkInStep ==
    ASSUME TypesInv, ~ServerDead, NEW t \in Task, NEW c \in Client, c = t[1],
           cpc[c] # "gone", OlderAreOver(c), InStep(c), RemoveFifo(c, tfd[t]), ~stale',
           tpc[t] \in Over, tpc'[t] = "exited",
           cpc'[c] = cpc[c], nreq'[c] = nreq[c], cfd'[c] = cfd[c],
           misled' = misled,
           \A v \in Task : v # t => tpc'[v] = tpc[v] /\ tfd'[v] = tfd[v]
    PROVE  OlderAreOver(c)' /\ InStep(c)'
<1> DEFINE u == <<c, nreq[c]>>
<1>1. Shape /\ Owner(t) = c
  BY DEF TypesInv, Types, Owner
<1>2. /\ cpc'[c] = cpc[c] /\ nreq'[c] = nreq[c] /\ cfd'[c] = cfd[c] /\ misled' = misled
      /\ name'[c] = 0 /\ name[c] \in {0, tfd[t]} /\ tpc[t] \in Over /\ tpc'[t] = "exited"
      /\ \A v \in Task : v # t => tpc'[v] = tpc[v] /\ tfd'[v] = tfd[v]
  BY <1>1 DEF RemoveFifo, Shape
<1>3. nreq[c] \in Nat /\ nreq[c] <= MaxRequests /\ MaxRequests \in Nat
  BY BoundAssumption DEF TypesInv, Types, Shape, Bounds
<1>4. OlderAreOver(c)'
  <2> SUFFICES ASSUME NEW k \in 1..nreq[c] - 1
               PROVE  /\ Done(<<c, k>>)'
                      /\ tpc'[<<c, k>>] # "exited" => ~Reads(c, tfd[<<c, k>>])'
    BY <1>2 DEF OlderAreOver, Reads
  <2>1. k \in 1..MaxRequests
    BY <1>3
  <2>2. /\ <<c, k>> \in Task /\ Done(<<c, k>>)
        /\ tpc[<<c, k>>] # "exited" => ~Reads(c, tfd[<<c, k>>])
    BY <2>1, TaskIsPair DEF OlderAreOver
  <2>3. CASE <<c, k>> = t
    BY <1>2, <2>3 DEF Done, Over
  <2>4. CASE <<c, k>> # t
    BY <1>2, <2>2, <2>4 DEF Done, Reads
  <2> QED
    BY <2>3, <2>4
<1>5. t[2] \in 1..MaxRequests /\ t = <<c, t[2]>>
  BY TaskIsPair
<1>6. ~(t[2] > nreq[c])
  BY <1>2 DEF TypesInv, Numbering, Over
<1>7. CASE t = u
  <2>1. /\ cpc[c] \in {"prompt", "read", "close", "unlink"} /\ (cpc[c] # "prompt" => nreq[c] > 0)
        /\ cpc[c] = "read" => u \notin misled
    BY ONLY <1>1, <1>2, <1>7, InStep(c), cpc[c] # "gone", c \in Client
    DEF InStep, Latest, Shape, ClientPc, Done, AtWork, Over, u
  <2> QED
    BY ONLY <1>2, <1>4, <1>7, <2>1 DEF InStep, Latest, Done, AtWork, Over, u
<1>8. CASE t # u
  <2>1. t[2] \in 1..nreq[c] - 1
    BY ONLY <1>3, <1>5, <1>6, <1>8 DEF u
  <2>2. name[c] # 0 => tfd[t] # name[c]
    BY <1>5, <2>1 DEF OlderAreOver
  <2>3. name[c] = 0
    BY <1>2, <2>2
  <2>4. nreq[c] > 0 /\ u \in Task
    <3>1. nreq[c] \in 1..MaxRequests
      BY ONLY <1>3, <1>5, <1>6
    <3> QED
      BY <3>1, TaskIsPair
  <2>5. tpc'[u] = tpc[u] /\ tfd'[u] = tfd[u]
    BY <1>2, <1>8, <2>4
  <2> QED
    BY ONLY <1>2, <1>4, <2>3, <2>4, <2>5, InStep(c) DEF InStep, Latest, Done, AtWork, Over, u
<1> QED
  BY <1>7, <1>8

\* The thread unlinks the name of the FIFO it used.
LEMMA ThreadUnlinkInStep ==
    ASSUME TypesInv, ~ServerDead, NEW t \in Task, NEW c \in Client, c = t[1],
           cpc[c] # "gone", OlderAreOver(c), InStep(c), ThreadUnlink(t), ~stale'
    PROVE  OlderAreOver(c)' /\ InStep(c)'
<1>1. Shape /\ Owner(t) = c
  BY DEF TypesInv, Types, Owner
<1>2. /\ RemoveFifo(c, tfd[t]) /\ tpc[t] \in Over /\ tpc'[t] = "exited"
      /\ cpc' = cpc /\ nreq' = nreq /\ cfd' = cfd /\ misled' = misled
      /\ \A v \in Task : v # t => tpc'[v] = tpc[v] /\ tfd'[v] = tfd[v]
  BY <1>1 DEF ThreadUnlink, Shape, Over, cvars
<1> QED
  BY <1>2, UnlinkInStep

\* A request that misled its client has its thread past the opening.
LEMMA MisledIsDone ==
    ASSUME TypesInv, NEW t \in misled, t \in Task, NEW c \in Client, c = t[1],
           cpc[c] # "gone", OlderAreOver(c), InStep(c)
    PROVE  Done(t)
<1>1. nreq[c] \in Nat /\ cpc[c] \in ClientPc
  BY DEF TypesInv, Types, Shape
<1>2. t[2] \in 1..MaxRequests /\ t = <<c, t[2]>> /\ MaxRequests \in Nat /\ t[2] <= nreq[c]
  BY TaskIsPair, BoundAssumption DEF TypesInv, Numbering
<1>3. CASE t[2] = nreq[c]
  <2>1. t = Latest(c) /\ nreq[c] > 0
    BY <1>2, <1>3 DEF Latest
  <2> QED
    BY ONLY <1>1, <2>1, InStep(c), cpc[c] # "gone", t \in misled DEF InStep, ClientPc
<1>4. CASE t[2] # nreq[c]
  <2>1. t[2] \in 1..nreq[c] - 1
    BY ONLY <1>1, <1>2, <1>4
  <2>2. Done(<<c, t[2]>>)
    BY <2>1, Zenon DEF OlderAreOver
  <2> QED
    BY <1>2, <2>2
<1> QED
  BY <1>3, <1>4

\* A thread whose client was misled works on towards its end, and whatever it
\* does, the client does not wait for it.
LEMMA MisledInStep ==
    ASSUME TypesInv, ~ServerDead, NEW t \in Task, NEW c \in Client, c = t[1],
           cpc[c] # "gone", OlderAreOver(c), InStep(c), t \in misled,
           tpc[t] \in AtWork, tpc'[t] \in AtWork \cup {"failed", "unlink"},
           UNCHANGED <<cpc, nreq, cfd, name, misled, tfd>>,
           \A u \in Task : u # t => tpc'[u] = tpc[u]
    PROVE  OlderAreOver(c)' /\ InStep(c)'
<1>1. nreq[c] \in Nat /\ nreq[c] <= MaxRequests /\ MaxRequests \in Nat /\ cpc[c] \in ClientPc
  BY BoundAssumption DEF TypesInv, Types, Shape, Bounds
<1>2. \A k \in 1..nreq[c] : <<c, k>> \in Task
  <2>1. \A k \in 1..nreq[c] : k \in 1..MaxRequests
    BY <1>1
  <2> QED
    BY <2>1, TaskIsPair
<1>3. \A u \in Task : Done(u) => Done(u)'
  BY DEF Done, Over
<1>4. OlderAreOver(c)'
  <2> SUFFICES ASSUME NEW k \in 1..nreq[c] - 1
               PROVE  /\ Done(<<c, k>>)' /\ (name[c] # 0 => tfd[<<c, k>>] # name[c])
                      /\ tpc'[<<c, k>>] # "exited" => ~Reads(c, tfd[<<c, k>>])'
    BY DEF OlderAreOver, Reads
  <2>1. <<c, k>> \in Task
    BY <1>1, <1>2
  <2>2. /\ Done(<<c, k>>) /\ (name[c] # 0 => tfd[<<c, k>>] # name[c])
        /\ tpc[<<c, k>>] # "exited" => ~Reads(c, tfd[<<c, k>>])
    BY DEF OlderAreOver
  <2>3. tpc[<<c, k>>] = "exited" => tpc'[<<c, k>>] = "exited"
    BY <2>1 DEF AtWork
  <2> QED
    BY <1>3, <2>1, <2>2, <2>3 DEF Reads
<1>5. CASE cpc[c] \in {"prompt", "close", "unlink"}
  <2>1. nreq[c] > 0 => <<c, nreq[c]>> \in Task
    BY <1>1, <1>2
  <2>2. nreq[c] > 0 => (Done(<<c, nreq[c]>>) => Done(<<c, nreq[c]>>)')
    BY <1>3, <2>1
  <2>3. cpc'[c] = cpc[c] /\ nreq'[c] = nreq[c] /\ name'[c] = name[c] /\ misled' = misled
    OBVIOUS
  <2> QED
    BY ONLY <1>4, <1>5, <2>2, <2>3, InStep(c) DEF InStep, Latest, Done, AtWork, Over
<1>6. CASE cpc[c] \in {"mkfifo", "open", "blocked", "read"}
  <2>1. nreq[c] > 0 /\ <<c, nreq[c]>> # t
    BY <1>6 DEF InStep, Latest
  <2>2. tpc'[<<c, nreq[c]>>] = tpc[<<c, nreq[c]>>]
    BY <1>1, <1>2, <2>1
  <2>3. /\ cpc'[c] = cpc[c] /\ nreq'[c] = nreq[c] /\ name'[c] = name[c] /\ misled' = misled
        /\ cfd'[c] = cfd[c] /\ tfd' = tfd
    OBVIOUS
  <2> QED
    BY ONLY <1>4, <1>6, <2>2, <2>3, InStep(c) DEF InStep, Latest, Over
<1> QED
  BY <1>1, <1>4, <1>5, <1>6 DEF ClientPc

-----------------------------------------------------------------------------
(* What has been written, what is in the FIFO and what has been displayed. *)

Reading == {"read", "close", "unlink"}
MarkedPc == {"killed", "failed", "exited", "dead"}

\* A step that touches neither the FIFO nor the display leaves the lines in
\* order.
LEMMA LinesStay ==
    ASSUME NEW c \in Client, LinesInOrder(c), nreq'[c] = nreq[c], pipe'[c] = pipe[c],
           shown'[c] = shown[c], cpc[c] \in Reading <=> cpc'[c] \in Reading,
           cpc'[c] \in {"close", "unlink"} => cpc[c] \in {"close", "unlink"} \/ pipe[c] = <<>>,
           misled \subseteq misled',
           nreq[c] > 0 => /\ wrote'[<<c, nreq[c]>>] = wrote[<<c, nreq[c]>>]
                          /\ tpc[<<c, nreq[c]>>] \in MarkedPc => tpc'[<<c, nreq[c]>>] \in MarkedPc
    PROVE  LinesInOrder(c)'
<1>1. Marked(c)' <=> Marked(c)
  BY DEF Marked
<1>2. Latest(c) = <<c, nreq[c]>> /\ Latest(c)' = <<c, nreq[c]>>
  BY DEF Latest
<1>3. CASE cpc[c] \notin Reading
  BY ONLY <1>3, LinesInOrder(c), shown'[c] = shown[c], pipe'[c] = pipe[c],
     cpc[c] \in Reading <=> cpc'[c] \in Reading
  DEF LinesInOrder, Reading
<1>4. CASE cpc[c] \in Reading
  <2> DEFINE n == nreq[c]
             P == pipe[c]
             S == shown[c]
             t == <<c, nreq[c]>>
  <2>1. /\ n > 0
        /\ \A i \in 1..Len(S) : S[i] \in {<<n, i>>, NOTHING}
        /\ \A i \in 1..Len(P) :
              IF IsMarker(P[i]) THEN i = Len(P) ELSE P[i] = <<n, Len(S) + i>>
        /\ Marked(c) => tpc[t] \in MarkedPc
        /\ wrote[t] = Len(S) + Len(P) - (IF Marked(c) THEN 1 ELSE 0)
    BY <1>2, <1>4 DEF LinesInOrder, Reading, MarkedPc
  <2>2. /\ n > 0
        /\ \A i \in 1..Len(S) : S[i] \in {<<n, i>>, NOTHING}
        /\ \A i \in 1..Len(P) :
              IF IsMarker(P[i]) THEN i = Len(P) ELSE P[i] = <<n, Len(S) + i>>
        /\ Marked(c)' => tpc'[t] \in MarkedPc
        /\ wrote'[t] = Len(S) + Len(P) - (IF Marked(c)' THEN 1 ELSE 0)
    BY <1>1, <2>1
  <2>3. /\ cpc'[c] \in {"read", "close", "unlink"}
        /\ cpc'[c] \in {"close", "unlink"} => P = <<>> \/ t \in misled'
    BY <1>2, <1>4 DEF LinesInOrder, Reading
  <2> QED
    BY <1>2, <2>2, <2>3 DEF LinesInOrder, MarkedPc
<1> QED
  BY <1>3, <1>4

\* A client that is not reading displays nothing.
LEMMA NothingToRead ==
    ASSUME NEW c \in Client, cpc'[c] \notin Reading, shown'[c] = <<>>, pipe'[c] = <<>>
    PROVE  LinesInOrder(c)'
  BY DEF LinesInOrder, Reading

\* A client that begins to read finds the FIFO empty and its thread about to
\* begin.
LEMMA BeginToRead ==
    ASSUME NEW c \in Client, cpc'[c] = "read", shown'[c] = <<>>, pipe'[c] = <<>>,
           nreq'[c] > 0, wrote'[<<c, nreq'[c]>>] = 0
    PROVE  LinesInOrder(c)'
<1>1. ~Marked(c)'
  BY DEF Marked
<1> QED
  BY <1>1 DEF LinesInOrder, Latest

\* Reading the line at the head of the FIFO, whatever is displayed of it.
LEMMA ReadLineInOrder ==
    ASSUME TypesInv, NEW c \in Client, LinesInOrder(c), ReadLine(c)
    PROVE  LinesInOrder(c)'
<1> DEFINE n == nreq[c]
           P == pipe[c]
           S == shown[c]
           t == <<c, nreq[c]>>
<1>1. P \in Seq(Item) /\ S \in Seq(Line \cup {NOTHING})
  BY DEF TypesInv, Types, Lists
<1>2. /\ cpc[c] = "read" /\ P # <<>> /\ ~IsMarker(Head(P)) /\ Latest(c)' = t
      /\ nreq' = nreq /\ tpc' = tpc /\ wrote' = wrote /\ pipe'[c] = Tail(P)
      /\ cpc'[c] = "read" \/ (cpc'[c] = "close" /\ t \in misled')
  BY DEF ReadLine, tvars, TypesInv, Types, Shape, Lists, Latest
<1>a. PICK l \in {Head(P), NOTHING} : shown'[c] = Append(S, l)
  BY DEF ReadLine, TypesInv, Types, Lists
<1>3. /\ n > 0
      /\ \A i \in 1..Len(S) : S[i] \in {<<n, i>>, NOTHING}
      /\ \A i \in 1..Len(P) :
            IF IsMarker(P[i]) THEN i = Len(P) ELSE P[i] = <<n, Len(S) + i>>
      /\ Marked(c) => tpc[t] \in MarkedPc
      /\ wrote[t] = Len(S) + Len(P) - (IF Marked(c) THEN 1 ELSE 0)
  BY <1>2 DEF LinesInOrder, MarkedPc, Latest
<1>4. Marked(c) <=> \E i \in 1..Len(P) : IsMarker(P[i])
  BY DEF Marked
<1>5. Marked(c)' <=> \E i \in 1..Len(Tail(P)) : IsMarker(Tail(P)[i])
  BY <1>2 DEF Marked
<1> DEFINE T == Tail(P)
           R == Append(S, l)
<1> HIDE DEF n, P, S, t, T, R
<1>6. /\ Len(P) \in Nat /\ Len(P) > 0 /\ Len(S) \in Nat /\ Head(P) = P[1]
      /\ Len(T) = Len(P) - 1 /\ \A i \in 1..Len(T) : T[i] = P[i + 1]
  BY <1>1, <1>2, HeadTailProperties, LenProperties DEF T
<1>7. Len(R) = Len(S) + 1 /\ R[Len(S) + 1] = l /\ \A i \in 1..Len(S) : R[i] = S[i]
  <2>1. Head(P) \in Item
    BY <1>1, <1>2, HeadTailProperties
  <2>2. Head(P) \in Line
    BY <1>2, <2>1 DEF IsMarker, Item
  <2> QED
    BY <1>1, <1>a, <1>6, <2>2, AppendProperties DEF R
<1>8. \A i \in 1..Len(R) : R[i] \in {<<n, i>>, NOTHING}
  <2> SUFFICES ASSUME NEW i \in 1..Len(R) PROVE R[i] \in {<<n, i>>, NOTHING}
    OBVIOUS
  <2>1. ~IsMarker(P[1]) /\ 1 \in 1..Len(P)
    BY <1>2, <1>6
  <2>2. P[1] = <<n, Len(S) + 1>>
    BY <1>3, <2>1
  <2>3. i \in 1..Len(S) \/ i = Len(S) + 1
    BY <1>6, <1>7
  <2> QED
    BY <1>3, <1>a, <1>6, <1>7, <2>2, <2>3
<1>9. \A i \in 1..Len(T) :
            IF IsMarker(T[i]) THEN i = Len(T) ELSE T[i] = <<n, Len(R) + i>>
  <2> SUFFICES ASSUME NEW i \in 1..Len(T)
               PROVE  IF IsMarker(T[i]) THEN i = Len(T) ELSE T[i] = <<n, Len(R) + i>>
    OBVIOUS
  <2>1. i + 1 \in 1..Len(P) /\ T[i] = P[i + 1] /\ i \in Nat
    BY <1>6
  <2>2. IF IsMarker(P[i + 1]) THEN i + 1 = Len(P) ELSE P[i + 1] = <<n, Len(S) + (i + 1)>>
    BY <1>3, <2>1
  <2>3. Len(S) + (i + 1) = Len(R) + i
    BY <1>6, <1>7, <2>1
  <2>4. i + 1 = Len(P) => i = Len(T)
    BY <1>6, <2>1
  <2> QED
    BY <2>1, <2>2, <2>3, <2>4
<1>10. Marked(c)' <=> Marked(c)
  <2>1. ASSUME NEW i \in 1..Len(P), IsMarker(P[i])
        PROVE  \E j \in 1..Len(T) : IsMarker(T[j])
    <3>1. i # 1
      BY <1>2, <1>6, <2>1
    <3>2. i - 1 \in 1..Len(T) /\ (i - 1) + 1 = i
      BY <1>6, <3>1
    <3>3. T[i - 1] = P[i]
      BY <1>6, <3>2
    <3> QED
      BY <2>1, <3>2, <3>3
  <2>2. ASSUME NEW j \in 1..Len(T), IsMarker(T[j])
        PROVE  \E i \in 1..Len(P) : IsMarker(P[i])
    <3>1. j + 1 \in 1..Len(P) /\ T[j] = P[j + 1]
      BY <1>6
    <3> QED
      BY <2>2, <3>1
  <2>3. Marked(c)' <=> \E j \in 1..Len(T) : IsMarker(T[j])
    BY <1>5 DEF T
  <2> QED
    BY <1>4, <2>1, <2>2, <2>3
<1>11. wrote[t] = Len(R) + Len(T) - (IF Marked(c)' THEN 1 ELSE 0)
  BY <1>3, <1>6, <1>7, <1>10
<1>12. /\ shown'[c] = R /\ pipe'[c] = T /\ nreq'[c] = n
  BY <1>2, <1>a DEF R, T, n
<1>13. /\ Marked(c)' => tpc'[Latest(c)'] \in MarkedPc
       /\ wrote'[Latest(c)'] = Len(R) + Len(T) - (IF Marked(c)' THEN 1 ELSE 0)
       /\ cpc'[c] = "read" \/ (cpc'[c] = "close" /\ Latest(c)' \in misled')
  BY <1>2, <1>3, <1>10, <1>11
<1> QED
  BY ONLY <1>3, <1>8, <1>9, <1>12, <1>13 DEF LinesInOrder, MarkedPc

\* Only the thread of the client's latest request writes, while the client
\* reads, unless the client was misled.
LEMMA WritesToReader ==
    ASSUME TypesInv, ~ServerDead, NEW t \in Task, NEW c \in Client, c = t[1],
           cpc[c] # "gone", OlderAreOver(c), InStep(c), tpc[t] = "run", t \notin misled
    PROVE  /\ cpc[c] = "read" /\ tfd[t] = cfd[c]
           /\ t = <<c, nreq[c]>> /\ nreq[c] \in Nat /\ nreq[c] > 0
<1>1. t = <<c, nreq[c]>> /\ nreq[c] \in 1..MaxRequests /\ nreq[c] \in Nat
  BY WorkingIsLatest DEF Over, Latest
<1>2. cpc[c] \in ClientPc
  BY DEF TypesInv, Types, Shape
<1>3. cpc[c] = "read" /\ tfd[t] = cfd[c]
  BY ONLY <1>1, <1>2, tpc[t] = "run", t \notin misled, InStep(c), cpc[c] # "gone"
  DEF InStep, Latest, Done, AtWork, Over, ClientPc
<1> QED
  BY <1>1, <1>3, BoundAssumption

\* A line that is written is the latest request's, also when its client has
\* been misled and only has the FIFO open still.
LEMMA WritesToLatest ==
    ASSUME TypesInv, ~ServerDead, NEW t \in Task, NEW c \in Client, c = t[1],
           cpc[c] # "gone", OlderAreOver(c), InStep(c), tpc[t] = "run", Reads(c, tfd[t])
    PROVE  /\ cpc[c] = "read" \/ (cpc[c] = "close" /\ t \in misled)
           /\ t = <<c, nreq[c]>> /\ nreq[c] \in Nat /\ nreq[c] > 0
<1>1. CASE t \notin misled
  BY <1>1, WritesToReader
<1>2. CASE t \in misled
  <2>1. nreq[c] \in Nat
    BY DEF TypesInv, Types, Shape
  <2>2. t[2] \in 1..MaxRequests /\ t = <<c, t[2]>> /\ MaxRequests \in Nat
    BY TaskIsPair, BoundAssumption
  <2>3. ~(t[2] > nreq[c])
    BY DEF TypesInv, Numbering
  <2>4. t[2] \notin 1..nreq[c] - 1
    <3> SUFFICES ASSUME t[2] \in 1..nreq[c] - 1 PROVE FALSE
      OBVIOUS
    <3>1. tpc[<<c, t[2]>>] # "exited" => ~Reads(c, tfd[<<c, t[2]>>])
      BY Zenon DEF OlderAreOver
    <3> QED
      BY <2>2, <3>1
  <2>5. t[2] = nreq[c] /\ nreq[c] > 0
    BY ONLY <2>1, <2>2, <2>3, <2>4
  <2>6. t = <<c, nreq[c]>>
    BY <2>2, <2>5
  <2>7. cpc[c] = "close"
    BY <1>2, <2>6 DEF InStep, Latest, Reads
  <2> QED
    BY <1>2, <2>1, <2>5, <2>6, <2>7
<1> QED
  BY <1>1, <1>2

\* Writing a line.
LEMMA WriteLineInOrder ==
    ASSUME TypesInv, ~ServerDead, NEW t \in Task, NEW c \in Client, c = t[1],
           cpc[c] # "gone", OlderAreOver(c), InStep(c), LinesInOrder(c), WriteLine(t)
    PROVE  LinesInOrder(c)'
<1> DEFINE n == nreq[c]
           P == pipe[c]
           S == shown[c]
<1>1. P \in Seq(Item) /\ S \in Seq(Line \cup {NOTHING}) /\ Owner(t) = c /\ tpc[t] = "run"
  BY DEF TypesInv, Types, Lists, Owner, WriteLine
<1>2. /\ cpc[c] = "read" \/ (cpc[c] = "close" /\ t \in misled)
      /\ t = <<c, n>> /\ n > 0 /\ t[2] = n
  <2>1. Reads(c, tfd[t])
    BY <1>1 DEF WriteLine
  <2> QED
    BY <1>1, <2>1, WritesToLatest
<1>3. /\ cpc' = cpc /\ nreq' = nreq /\ tpc' = tpc /\ Latest(c)' = t /\ Latest(c) = t
      /\ misled' = misled
      /\ wrote'[t] = wrote[t] + 1 /\ wrote[t] \in Nat
      /\ shown'[c] = S /\ pipe'[c] = Append(P, <<n, wrote[t] + 1>>)
  BY <1>1, <1>2 DEF WriteLine, cvars, TypesInv, Types, Shape, Lists, Latest
<1>4. /\ \A i \in 1..Len(S) : S[i] \in {<<n, i>>, NOTHING}
      /\ \A i \in 1..Len(P) :
            IF IsMarker(P[i]) THEN i = Len(P) ELSE P[i] = <<n, Len(S) + i>>
      /\ Marked(c) => tpc[t] \in MarkedPc
      /\ wrote[t] = Len(S) + Len(P) - (IF Marked(c) THEN 1 ELSE 0)
  BY <1>2, <1>3 DEF LinesInOrder, MarkedPc
<1>5. ~Marked(c) /\ wrote[t] = Len(S) + Len(P)
  <2>1. ~Marked(c)
    BY <1>1, <1>4 DEF MarkedPc
  <2>2. Len(S) \in Nat /\ Len(P) \in Nat
    BY <1>1, LenProperties
  <2> QED
    BY <1>4, <2>1, <2>2
<1>6. \A i \in 1..Len(P) : ~IsMarker(P[i]) /\ P[i] = <<n, Len(S) + i>>
  BY <1>4, <1>5 DEF Marked
<1> DEFINE R == Append(P, <<n, wrote[t] + 1>>)
<1>7. <<n, wrote[t] + 1>> \in Item
  <2>1. wrote[t] + 1 \in 1..MaxLines
    BY <1>3, BoundAssumption DEF WriteLine
  <2> QED
    BY <1>2, <2>1 DEF Item, Line
<1>8. /\ Len(R) = Len(P) + 1 /\ Len(P) \in Nat /\ Len(S) \in Nat
      /\ R[Len(P) + 1] = <<n, wrote[t] + 1>> /\ \A i \in 1..Len(P) : R[i] = P[i]
  BY <1>1, <1>7, AppendProperties, LenProperties
<1>9. ~IsMarker(<<n, wrote[t] + 1>>)
  BY <1>2 DEF IsMarker, INTERRUPT, SHUTDOWN
<1> HIDE DEF n, P, S, R
<1>10. \A i \in 1..Len(R) : ~IsMarker(R[i]) /\ R[i] = <<n, Len(S) + i>>
  <2> SUFFICES ASSUME NEW i \in 1..Len(R) PROVE ~IsMarker(R[i]) /\ R[i] = <<n, Len(S) + i>>
    OBVIOUS
  <2>1. i \in 1..Len(P) \/ i = Len(P) + 1
    BY <1>8
  <2>2. wrote[t] + 1 = Len(S) + (Len(P) + 1)
    BY <1>5, <1>8
  <2> QED
    BY <1>6, <1>8, <1>9, <2>1, <2>2
<1>11. pipe'[c] = R /\ shown'[c] = S /\ nreq'[c] = n
  BY <1>3 DEF R, S, P, n
<1>12. ~Marked(c)'
  BY <1>10, <1>11 DEF Marked
<1>13. wrote'[t] = Len(S) + Len(R)
  BY <1>3, <1>5, <1>8
<1>14. (cpc'[c] = "read" \/ (cpc'[c] = "close" /\ t \in misled')) /\ Latest(c)' = t
  BY <1>2, <1>3
<1> QED
  BY ONLY <1>2, <1>4, <1>10, <1>11, <1>12, <1>13, <1>14 DEF LinesInOrder

-----------------------------------------------------------------------------
(* The steps together.                                                     *)

\* A step that leaves client d and its threads as they are.
Untouched(d) ==
    /\ cpc'[d] = cpc[d] /\ nreq'[d] = nreq[d] /\ cfd'[d] = cfd[d] /\ name'[d] = name[d]
    /\ pipe'[d] = pipe[d] /\ shown'[d] = shown[d] /\ misled \subseteq misled'
    /\ \A k \in 1..MaxRequests : /\ tpc'[<<d, k>>] = tpc[<<d, k>>]
                                 /\ tfd'[<<d, k>>] = tfd[<<d, k>>]
                                 /\ wrote'[<<d, k>>] = wrote[<<d, k>>]
                                 /\ <<d, k>> \in misled' => <<d, k>> \in misled

\* Such a step changes nothing between them.
LEMMA UntouchedMeets ==
    ASSUME TypesInv, NEW d \in Client, Meeting(d), Untouched(d), ServerDead => ServerDead'
    PROVE  Meeting(d)'
<1>1. nreq[d] \in Nat /\ nreq[d] <= MaxRequests /\ MaxRequests \in Nat
  BY BoundAssumption DEF TypesInv, Types, Shape, Bounds
<1>2. LinesInOrder(d)'
  <2>1. LinesInOrder(d)
    BY DEF Meeting
  <2>2. nreq[d] > 0 => nreq[d] \in 1..MaxRequests
    BY <1>1
  <2>3. nreq[d] > 0 => /\ wrote'[<<d, nreq[d]>>] = wrote[<<d, nreq[d]>>]
                       /\ tpc'[<<d, nreq[d]>>] = tpc[<<d, nreq[d]>>]
    BY <2>2 DEF Untouched
  <2> QED
    BY <2>1, <2>3, LinesStay DEF Untouched
<1>3. ASSUME cpc'[d] # "gone", ~ServerDead' PROVE OlderAreOver(d)' /\ InStep(d)'
  <2>1. OlderAreOver(d) /\ InStep(d)
    BY <1>3 DEF Meeting, Untouched
  <2>2. \A k \in 1..nreq[d] - 1 : k \in 1..MaxRequests
    BY <1>1
  <2>3. OlderAreOver(d)'
    BY <2>1, <2>2, OlderStay DEF Untouched
  <2>4. nreq[d] > 0 => nreq[d] \in 1..MaxRequests
    BY <1>1
  <2>5. nreq[d] > 0 => /\ tfd'[<<d, nreq[d]>>] = tfd[<<d, nreq[d]>>]
                       /\ tpc'[<<d, nreq[d]>>] = tpc[<<d, nreq[d]>>]
                       /\ <<d, nreq[d]>> \in misled' => <<d, nreq[d]>> \in misled
    BY <2>4 DEF Untouched
  <2>6. /\ cpc'[d] = cpc[d] /\ nreq'[d] = nreq[d] /\ cfd'[d] = cfd[d] /\ name'[d] = name[d]
        /\ misled \subseteq misled'
    BY DEF Untouched
  <2>7. cpc[d] = "prompt" \/ nreq[d] > 0
    BY <2>1 DEF InStep
  <2>8. InStep(d)'
    BY ONLY <2>1, <2>5, <2>6, <2>7 DEF InStep, Latest, Done
  <2> QED
    BY <2>3, <2>8
<1> QED
  BY <1>2, <1>3 DEF Meeting

\* A client's step leaves the others alone.
LEMMA ClientStepIsLocal ==
    ASSUME TypesInv, NEW c \in Client, NEW d \in Client, d # c,
           Request(c) \/ GetResult(c) \/ Interrupt(c)
    PROVE  Untouched(d)
<1>1. Shape /\ Lists
  BY DEF TypesInv, Types
<1>2. \A k \in 1..MaxRequests : <<d, k>> \in Task /\ Owner(<<d, k>>) = d
  BY TaskIsPair DEF Owner
<1>3. CASE Request(c)
  <2>1. \A t \in Task : t # <<c, nreq[c] + 1>> => tpc'[t] = tpc[t]
    BY <1>3, RequestIsNext
  <2> QED
    BY <1>1, <1>2, <1>3, <2>1 DEF Request, NewRequest, Untouched, Shape, Lists
<1>4. CASE ClientOpen(c)
  <2>1. \A t \in Task : t \notin Blocked(c, name[c]) => tpc'[t] = tpc[t]
    BY <1>4 DEF ClientOpen
  <2>2. \A k \in 1..MaxRequests : <<d, k>> \notin Blocked(c, name[c])
    BY <1>2 DEF Blocked
  <2>3. /\ cpc'[d] = cpc[d] /\ cfd'[d] = cfd[d] /\ pipe'[d] = pipe[d]
        /\ UNCHANGED <<nreq, shown, misled, tfd, wrote, name>>
    BY <1>1, <1>4 DEF ClientOpen, Shape, Lists
  <2> QED
    BY <1>2, <2>1, <2>2, <2>3 DEF Untouched
<1>5. CASE ClientMkfifo(c) \/ ClientOpenFails(c) \/ ReadEOF(c) \/ ClientClose(c)
           \/ ClientUnlink(c) \/ Interrupt(c)
  BY <1>1, <1>5 DEF ClientMkfifo, Mkfifo, ClientOpenFails, ReadEOF, ClientClose,
     ClientUnlink, RemoveFifo, Interrupt, cvars, tvars, Untouched, Shape, Lists
<1>6. CASE ReadLine(c)
  <2>1. misled' = misled \/ misled' = misled \cup {<<c, nreq[c]>>}
    BY <1>6 DEF ReadLine
  <2>2. \A k \in 1..MaxRequests : <<d, k>> # <<c, nreq[c]>>
    OBVIOUS
  <2>3. /\ cpc'[d] = cpc[d] /\ pipe'[d] = pipe[d] /\ shown'[d] = shown[d]
        /\ UNCHANGED <<nreq, cfd, name, tvars>>
    BY <1>1, <1>6 DEF ReadLine, Shape, Lists
  <2> QED
    BY <2>1, <2>2, <2>3 DEF Untouched, tvars
<1> QED
  BY <1>3, <1>4, <1>5, <1>6 DEF GetResult

\* A thread's step leaves all clients but its own alone, unless the server
\* dies of it.
LEMMA ThreadStepIsLocal ==
    ASSUME TypesInv, NEW t \in Task, NEW d \in Client, d # t[1],
           ProcessRequest(t), ~WriteFails(t)
    PROVE  Untouched(d)
<1>1. Shape /\ Lists
  BY DEF TypesInv, Types
<1>2. \A k \in 1..MaxRequests : <<d, k>> \in Task /\ <<d, k>> # t
  BY TaskIsPair
<1>3. Owner(t) \in Client /\ Owner(t) # d
  BY TaskIsPair
<1>4. CASE ThreadMkfifo(t)
  BY <1>1, <1>2, <1>3, <1>4 DEF ThreadMkfifo, Mkfifo, cvars, tvars, Untouched, Shape, Lists
<1>5. CASE ThreadOpen(t)
  BY <1>1, <1>2, <1>3, <1>5 DEF ThreadOpen, cvars, tvars, Untouched, Shape, Lists
<1>6. CASE ThreadOpenFails(t)
  BY <1>1, <1>2, <1>3, <1>6 DEF ThreadOpenFails, cvars, tvars, Untouched, Shape, Lists
<1>7. CASE TaskqAdd(t)
  BY <1>1, <1>2, <1>3, <1>7 DEF TaskqAdd, cvars, tvars, Untouched, Shape, Lists
<1>8. CASE Popen(t)
  BY <1>1, <1>2, <1>3, <1>8 DEF Popen, cvars, tvars, Untouched, Shape, Lists
<1>9. CASE WriteLine(t)
  BY <1>1, <1>2, <1>3, <1>9 DEF WriteLine, cvars, tvars, Untouched, Shape, Lists
<1>10. CASE Pclose(t)
  BY <1>1, <1>2, <1>3, <1>10 DEF Pclose, cvars, tvars, Untouched, Shape, Lists
<1>11. CASE TaskqRemove(t)
  BY <1>1, <1>2, <1>3, <1>11 DEF TaskqRemove, cvars, tvars, Untouched, Shape, Lists
<1>12. CASE ThreadClose(t)
  BY <1>1, <1>2, <1>3, <1>12 DEF ThreadClose, cvars, tvars, Untouched, Shape, Lists
<1>13. CASE ThreadUnlink(t)
  BY <1>1, <1>2, <1>3, <1>13 DEF ThreadUnlink, RemoveFifo, cvars, tvars, Untouched, Shape, Lists
<1> QED
  BY <1>4, <1>5, <1>6, <1>7, <1>8, <1>9, <1>10, <1>11, <1>12, <1>13 DEF ProcessRequest

\* The server stays dead.
LEMMA DeadStays ==
    ASSUME TypesInv, ServerDead, [Step]_vars
    PROVE  ServerDead'
<1>1. \A t \in Task : tpc[t] = "dead"
  BY DEF ServerDead, TypesInv, Numbering
<1>2. ASSUME NEW t \in Task, ProcessRequest(t) PROVE FALSE
  BY <1>1, <1>2 DEF ProcessRequest, ThreadMkfifo, ThreadOpen, ThreadOpenFails, TaskqAdd, Popen,
     WriteLine, WriteFails, Pclose, TaskqRemove, ThreadClose, ThreadUnlink
<1>3. ASSUME NEW c \in Client, Request(c) PROVE FALSE
  BY <1>3, RequestIsNext
<1>4. ASSUME NEW c \in Client, ClientOpen(c) PROVE ServerDead'
  <2>1. \A t \in Task : tpc'[t] = tpc[t]
    BY <1>1, <1>4 DEF ClientOpen, Blocked
  <2> QED
    BY <2>1 DEF ServerDead
<1>5. ASSUME NEW c \in Client, GetResult(c) \/ Interrupt(c), ~ClientOpen(c) PROVE ServerDead'
  <2>1. tpc' = tpc
    BY <1>5 DEF GetResult, ClientMkfifo, ClientOpenFails, ReadLine, ReadEOF, ClientClose,
       ClientUnlink, Interrupt, tvars
  <2> QED
    BY <2>1 DEF ServerDead
<1>6. CASE UNCHANGED vars
  BY <1>6 DEF vars, tvars, ServerDead
<1> QED
  BY <1>2, <1>3, <1>4, <1>5, <1>6 DEF Step, GetResult

\* A FIFO whose name was lost to another's unlink is not forgotten.
LEMMA StaleStays ==
    ASSUME stale, [Step]_vars
    PROVE  stale'
  BY DEF Step, GetResult, ProcessRequest, vars, Request, NewRequest, ClientMkfifo, ClientOpen,
     ClientOpenFails, ReadLine, ReadEOF, ClientClose, ClientUnlink, Interrupt, ThreadMkfifo,
     ThreadOpen, ThreadOpenFails, TaskqAdd, Popen, WriteLine, WriteFails, Pclose, TaskqRemove,
     ThreadClose, ThreadUnlink, RemoveFifo

\* A client's own step.
LEMMA ClientStepMeets ==
    ASSUME TypesInv, NEW c \in Client, Meeting(c), ~stale',
           Request(c) \/ GetResult(c) \/ Interrupt(c)
    PROVE  Meeting(c)'
<1>1. Shape /\ Lists /\ [Step]_vars
  BY DEF TypesInv, Types, Step
<1> SUFFICES ASSUME ~Interrupt(c)
             PROVE  LinesInOrder(c)' /\ (~ServerDead' => OlderAreOver(c)' /\ InStep(c)')
  <2>1. CASE Interrupt(c)
    <3>1. cpc'[c] = "gone" /\ shown'[c] = <<>> /\ pipe'[c] = <<>>
      BY <1>1, <2>1 DEF Interrupt, Shape, Lists
    <3> QED
      BY <3>1, NothingToRead DEF Meeting, Reading
  <2> QED
    BY <2>1 DEF Meeting
<1>2. ~Interrupt(c)
  OBVIOUS
<1>3. cpc[c] # "gone"
  BY <1>2 DEF GetResult, Request, NewRequest, ClientMkfifo, ClientOpen, ClientOpenFails, ReadLine,
     ReadEOF, ClientClose, ClientUnlink
<1>4. LinesInOrder(c) /\ (~ServerDead => OlderAreOver(c) /\ InStep(c))
  BY <1>3 DEF Meeting
<1>5. ~ServerDead' => OlderAreOver(c)' /\ InStep(c)'
  <2> SUFFICES ASSUME ~ServerDead' PROVE OlderAreOver(c)' /\ InStep(c)'
    OBVIOUS
  <2>1. ~ServerDead
    BY <1>1, DeadStays
  <2> QED
    BY <1>2, <1>3, <1>4, <2>1, RequestInStep, ClientMkfifoInStep, ClientOpenInStep,
       ClientOpenFailsNever, ReadLineInStep, ReadEOFInStep, ClientCloseInStep,
       ClientUnlinkInStep DEF GetResult
<1>6. cpc[c] \notin Reading => shown[c] = <<>> /\ pipe[c] = <<>>
  BY <1>4 DEF LinesInOrder, Reading
<1>7. LinesInOrder(c)'
  <2>1. CASE Request(c)
    <3>1. cpc'[c] = "mkfifo" /\ shown'[c] = <<>> /\ pipe'[c] = <<>>
      BY <1>1, <1>6, <2>1 DEF Request, NewRequest, Shape, Reading
    <3> QED
      BY <3>1, NothingToRead DEF Reading
  <2>2. CASE ClientMkfifo(c) \/ ClientOpenFails(c)
    <3>1. cpc'[c] \in {"open", "prompt"} /\ shown'[c] = <<>> /\ pipe'[c] = <<>>
      BY <1>1, <1>6, <2>2 DEF ClientMkfifo, ClientOpenFails, Shape, Reading
    <3> QED
      BY <3>1, NothingToRead DEF Reading
  <2>3. CASE ClientOpen(c)
    <3>1. /\ cpc[c] = "open" /\ shown' = shown /\ nreq' = nreq /\ wrote' = wrote
          /\ pipe'[c] = <<>>
          /\ cpc' = [cpc EXCEPT ![c] =
                       IF Writers(c, name[c]) \cup Blocked(c, name[c]) = {} THEN "blocked" ELSE "read"]
      BY <1>1, <2>3 DEF ClientOpen, Lists
    <3>2. cpc'[c] \in {"blocked", "read"} /\ shown'[c] = <<>>
      BY <1>1, <1>6, <3>1 DEF Shape, Reading
    <3>3. CASE cpc'[c] = "blocked"
      BY <3>1, <3>2, <3>3, NothingToRead DEF Reading
    <3>4. CASE cpc'[c] = "read"
      <4>1. ~ServerDead'
        <5> SUFFICES ASSUME ServerDead' PROVE FALSE
          OBVIOUS
        <5>1. PICK u \in Task : tpc'[u] = "dead"
          BY DEF ServerDead
        <5>2. tpc[u] = "dead"
          BY <2>3, <5>1 DEF ClientOpen
        <5>3. \A v \in Task : tpc[v] = "dead"
          BY <5>2 DEF TypesInv, Numbering
        <5>4. Writers(c, name[c]) \cup Blocked(c, name[c]) = {}
          BY <5>3 DEF Writers, Blocked
        <5> QED
          BY <1>1, <3>1, <3>4, <5>4 DEF Shape
      <4>2. ~ServerDead
        BY <1>1, <4>1, DeadStays
      <4>3. nreq[c] > 0 /\ tpc[<<c, nreq[c]>>] \in {"mkfifo", "open", "blocked", "gave_up"}
        BY <1>4, <3>1, <4>2 DEF InStep, Latest
      <4>4. <<c, nreq[c]>> \in Task
        <5>1. nreq[c] \in 1..MaxRequests
          BY <1>1, <4>3, BoundAssumption DEF TypesInv, Types, Shape, Bounds
        <5> QED
          BY <5>1, TaskIsPair
      <4>5. tpc'[<<c, nreq[c]>>] # "gave_up"
        BY <1>5, <3>1, <3>4, <4>1 DEF InStep, Latest, Over
      <4>6. tpc[<<c, nreq[c]>>] # "gave_up"
        BY <2>3, <4>4, <4>5 DEF ClientOpen, Blocked
      <4>7. wrote[<<c, nreq[c]>>] = 0
        BY <4>3, <4>4, <4>6 DEF TypesInv, Numbering
      <4> QED
        BY <3>1, <3>2, <3>4, <4>3, <4>7, BeginToRead
    <3> QED
      BY <3>2, <3>3, <3>4
  <2>4. CASE ReadLine(c)
    BY <1>4, <2>4, ReadLineInOrder
  <2>5. CASE ReadEOF(c) \/ ClientClose(c)
    <3>1. /\ nreq' = nreq /\ pipe' = pipe /\ shown' = shown /\ wrote' = wrote /\ tpc' = tpc
          /\ misled' = misled /\ cpc[c] \in Reading /\ cpc'[c] \in Reading
          /\ cpc[c] \in {"close", "unlink"} \/ pipe[c] = <<>>
      BY <1>1, <2>5 DEF ReadEOF, ClientClose, tvars, Shape, Reading
    <3> QED
      BY <1>4, <3>1, LinesStay
  <2>6. CASE ClientUnlink(c)
    <3>1. cpc'[c] = "prompt" /\ shown'[c] = <<>> /\ pipe'[c] = <<>>
      BY <1>1, <1>6, <2>6 DEF ClientUnlink, Shape, Lists
    <3> QED
      BY <3>1, NothingToRead DEF Reading
  <2> QED
    BY <1>2, <2>1, <2>2, <2>3, <2>4, <2>5, <2>6 DEF GetResult
<1> QED
  BY <1>5, <1>7

\* The step of a client's own thread.
LEMMA ThreadStepMeets ==
    ASSUME TypesInv, NEW t \in Task, NEW c \in Client, c = t[1], Meeting(c), ~stale',
           ProcessRequest(t), ~WriteFails(t)
    PROVE  Meeting(c)'
<1>1. Shape /\ Lists /\ [Step]_vars /\ Owner(t) = c
  BY DEF TypesInv, Types, Step, Owner
<1>2. cpc'[c] = cpc[c] \/ (ThreadOpen(t) /\ cpc[c] = "blocked" /\ cpc'[c] = "read")
  BY <1>1 DEF ProcessRequest, ThreadMkfifo, ThreadOpen, ThreadOpenFails, TaskqAdd, Popen,
     WriteLine, Pclose, TaskqRemove, ThreadClose, ThreadUnlink, cvars, Shape
<1>3. ~ServerDead
  <2> SUFFICES ASSUME ServerDead PROVE FALSE
    OBVIOUS
  <2>1. tpc[t] = "dead"
    BY DEF ServerDead, TypesInv, Numbering
  <2> QED
    BY <2>1 DEF ProcessRequest, ThreadMkfifo, ThreadOpen, ThreadOpenFails, TaskqAdd, Popen,
       WriteLine, Pclose, TaskqRemove, ThreadClose, ThreadUnlink
<1>4. LinesInOrder(c) /\ (cpc[c] # "gone" => OlderAreOver(c) /\ InStep(c))
  BY <1>3 DEF Meeting
<1>5. cpc'[c] # "gone" => cpc[c] # "gone" /\ OlderAreOver(c)' /\ InStep(c)'
  <2> SUFFICES ASSUME cpc[c] # "gone" PROVE OlderAreOver(c)' /\ InStep(c)'
    BY <1>2
  <2>1. CASE ThreadUnlink(t)
    BY <1>3, <1>4, <2>1, ThreadUnlinkInStep
  <2>2. CASE t \notin misled /\ ~ThreadUnlink(t)
    BY <1>3, <1>4, <2>2, ThreadMkfifoInStep, ThreadOpenInStep, ThreadOpenFailsNever, TaskqAddInStep,
       PopenInStep, WriteLineInStep, PcloseInStep, TaskqRemoveInStep, ThreadCloseInStep
    DEF ProcessRequest
  <2>3. CASE t \in misled /\ ~ThreadUnlink(t)
    <3>1. tpc[t] \in AtWork
      <4>1. Done(t)
        BY <1>1, <1>3, <1>4, <2>3, MisledIsDone
      <4>2. tpc[t] \notin Over
        BY <2>3 DEF ProcessRequest, ThreadMkfifo, ThreadOpen, ThreadOpenFails, TaskqAdd, Popen,
           WriteLine, Pclose, TaskqRemove, ThreadClose, ThreadUnlink, Over
      <4> QED
        BY <4>1, <4>2 DEF Done
    <3>2. TaskqAdd(t) \/ Popen(t) \/ WriteLine(t) \/ Pclose(t) \/ TaskqRemove(t) \/ ThreadClose(t)
      BY <2>3, <3>1 DEF ProcessRequest, AtWork, ThreadMkfifo, ThreadOpen, ThreadOpenFails
    <3>3. UNCHANGED <<cpc, nreq, cfd, name, misled, tfd>>
      BY <3>2 DEF TaskqAdd, Popen, WriteLine, Pclose, TaskqRemove, ThreadClose, cvars
    <3>4. /\ tpc'[t] \in AtWork \cup {"failed", "unlink"}
          /\ \A u \in Task : u # t => tpc'[u] = tpc[u]
      BY <1>1, <3>1, <3>2 DEF TaskqAdd, Popen, WriteLine, Pclose, TaskqRemove, ThreadClose, AtWork,
         Shape
    <3> QED
      BY <1>3, <1>4, <2>3, <3>1, <3>3, <3>4, MisledInStep
  <2> QED
    BY <2>1, <2>2, <2>3
<1>6. nreq[c] > 0 => <<c, nreq[c]>> \in Task
  <2>1. nreq[c] > 0 => nreq[c] \in 1..MaxRequests
    BY BoundAssumption DEF TypesInv, Types, Shape, Bounds
  <2> QED
    BY <2>1, TaskIsPair
<1>7. LinesInOrder(c)'
  <2>1. CASE cpc'[c] # cpc[c]
    <3>1. /\ cpc'[c] = "read" /\ cpc[c] = "blocked" /\ tpc[t] = "open" /\ pipe[c] = <<>>
          /\ UNCHANGED <<nreq, pipe, shown, wrote>>
      BY <1>2, <1>4, <2>1 DEF ThreadOpen, LinesInOrder
    <3>2. t = <<c, nreq[c]>> /\ nreq[c] > 0
      <4>0. t \notin misled
        BY <1>4, <3>1, MisledIsDone DEF Done, AtWork, Over
      <4>1. t = <<c, nreq[c]>> /\ nreq[c] \in 1..MaxRequests
        BY <1>3, <1>4, <3>1, <4>0, WorkingIsLatest DEF Latest, Over
      <4> QED
        BY <4>1, BoundAssumption
    <3>3. wrote[t] = 0 /\ shown[c] = <<>>
      BY <1>4, <3>1 DEF TypesInv, Numbering, LinesInOrder
    <3> QED
      BY <3>1, <3>2, <3>3, BeginToRead
  <2>2. CASE WriteLine(t)
    <3>1. cpc[c] # "gone"
      BY <1>1, <2>2 DEF WriteLine, Reads
    <3> QED
      BY <1>3, <1>4, <2>2, <3>1, WriteLineInOrder
  <2>3. CASE cpc'[c] = cpc[c] /\ ~WriteLine(t)
    <3>1. UNCHANGED <<nreq, pipe, shown, wrote, misled>>
      BY <2>3 DEF ProcessRequest, ThreadMkfifo, ThreadOpen, ThreadOpenFails, TaskqAdd, Popen,
         Pclose, TaskqRemove, ThreadClose, ThreadUnlink, cvars
    <3>2. \A u \in Task : tpc[u] \in MarkedPc => tpc'[u] = tpc[u]
      BY <1>1, <2>3 DEF ProcessRequest, ThreadMkfifo, ThreadOpen, ThreadOpenFails, TaskqAdd, Popen,
         Pclose, TaskqRemove, ThreadClose, ThreadUnlink, MarkedPc, Shape, tvars
    <3>3. nreq[c] > 0 => (tpc[<<c, nreq[c]>>] \in MarkedPc => tpc'[<<c, nreq[c]>>] \in MarkedPc)
      BY <1>6, <3>2
    <3> QED
      BY <1>4, <2>3, <3>1, <3>3, LinesStay
  <2> QED
    BY <2>1, <2>2, <2>3
<1> QED
  BY <1>5, <1>7 DEF Meeting

\* A server that dies leaves to every client what it was sent.
LEMMA DyingMeets ==
    ASSUME TypesInv, tpc' = [u \in Task |-> "dead"],
           UNCHANGED <<cpc, nreq, pipe, shown, misled, wrote>>, NEW c \in Client, Meeting(c)
    PROVE  Meeting(c)'
<1>1. UNCHANGED <<cpc, nreq, pipe, shown, misled, wrote>>
  OBVIOUS
<1>2. ServerDead'
  <2>1. <<c, 1>> \in Task
    BY BoundAssumption, TaskIsPair
  <2> QED
    BY <2>1 DEF ServerDead
<1>3. nreq[c] > 0 => <<c, nreq[c]>> \in Task
  <2>1. nreq[c] > 0 => nreq[c] \in 1..MaxRequests
    BY BoundAssumption DEF TypesInv, Types, Shape, Bounds
  <2> QED
    BY <2>1, TaskIsPair
<1>4. nreq[c] > 0 => tpc'[<<c, nreq[c]>>] \in MarkedPc
  BY <1>3 DEF MarkedPc
<1>5. LinesInOrder(c)
  BY DEF Meeting
<1>6. LinesInOrder(c)'
  BY <1>1, <1>4, <1>5, LinesStay
<1> QED
  BY <1>2, <1>6 DEF Meeting

\* The typing invariant is inductive.
LEMMA NextTypes == TypesInv /\ [Step]_vars => TypesInv'
  BY NextShape, NextBounds, NextLists, NextNumbering DEF TypesInv, Types

\* So is the whole invariant.
LEMMA NextSession == SessionInv /\ [Step]_vars => SessionInv'
<1> SUFFICES ASSUME SessionInv, [Step]_vars PROVE SessionInv'
  OBVIOUS
<1>1. TypesInv /\ TypesInv'
  BY NextTypes DEF SessionInv
<1>2. ASSUME ~stale', NEW d \in Client PROVE Meeting(d)'
  <2>1. Meeting(d)
    BY <1>2, StaleStays DEF SessionInv
  <2>2. ServerDead => ServerDead'
    BY <1>1, DeadStays
  <2>3. ASSUME NEW c \in Client, Request(c) \/ GetResult(c) \/ Interrupt(c) PROVE Meeting(d)'
    <3>1. CASE c = d
      BY <1>1, <1>2, <2>1, <2>3, <3>1, ClientStepMeets
    <3>2. CASE c # d
      BY <1>1, <2>1, <2>2, <2>3, <3>2, ClientStepIsLocal, UntouchedMeets
    <3> QED
      BY <3>1, <3>2
  <2>4. ASSUME NEW t \in Task, ProcessRequest(t) PROVE Meeting(d)'
    <3>1. CASE WriteFails(t)
      BY <1>1, <2>1, <3>1, DyingMeets DEF WriteFails, cvars
    <3>2. CASE ~WriteFails(t) /\ t[1] = d
      BY <1>1, <1>2, <2>1, <2>4, <3>2, ThreadStepMeets
    <3>3. CASE ~WriteFails(t) /\ t[1] # d
      BY <1>1, <2>1, <2>2, <2>4, <3>3, ThreadStepIsLocal, UntouchedMeets
    <3> QED
      BY <3>1, <3>2, <3>3
  <2>5. CASE UNCHANGED vars
    <3>1. Untouched(d)
      BY <2>5 DEF vars, cvars, tvars, Untouched
    <3> QED
      BY <1>1, <2>1, <2>2, <3>1, UntouchedMeets
  <2> QED
    BY <2>3, <2>4, <2>5 DEF Step
<1> QED
  BY <1>1, <1>2 DEF SessionInv

\* It holds at the start.
LEMMA InitSession == Init => SessionInv
<1> SUFFICES ASSUME Init PROVE SessionInv
  OBVIOUS
<1>1. MaxRequests \in Nat /\ MaxLines \in Nat
  BY BoundAssumption
<1>2. queue = <<>> /\ \A S : <<>> \in Seq(S)
  BY DEF Init, TL!Init
<1>3. Lists
  BY <1>2, Zenon DEF Init, Lists
<1>4. Shape /\ Bounds
  <2>1. Shape
    BY DEF Init, Shape, ClientPc, ThreadPc
  <2>2. \A c \in Client : nreq[c] = 0 /\ cfd[c] = 0 /\ name[c] = 0 /\ made[c] = 0
    BY DEF Init
  <2>3. \A t \in Task : wrote[t] = 0 /\ tfd[t] = 0 /\ Owner(t) \in Client
    BY TaskIsPair DEF Init
  <2> QED
    BY <1>1, <2>1, <2>2, <2>3 DEF Bounds
<1>5. Numbering
  BY <1>1, TaskIsPair DEF Init, Numbering
<1>6. ASSUME NEW c \in Client PROVE Meeting(c)
  BY DEF Init, Meeting, LinesInOrder, OlderAreOver, InStep
<1> QED
  BY <1>3, <1>4, <1>5, <1>6 DEF SessionInv, TypesInv, Types

-----------------------------------------------------------------------------
(* What follows.                                                           *)

\* The typing invariant says all that TypeOK says.
LEMMA TypesAreOK == TypesInv => TypeOK
<1> SUFFICES ASSUME TypesInv PROVE TypeOK
  OBVIOUS
<1>1. Shape /\ Bounds /\ Lists /\ MaxRequests \in Nat /\ MaxLines \in Nat
  BY BoundAssumption DEF TypesInv, Types
<1>2. nreq \in [Client -> 0..MaxRequests] /\ wrote \in [Task -> 0..MaxLines]
  BY <1>1 DEF Shape, Bounds
<1>3. \A c \in Client : cfd[c] \in 0..made[c] /\ name[c] \in 0..made[c]
  BY <1>1 DEF Shape, Bounds
<1>4. \A t \in Task : tfd[t] \in 0..made[Owner(t)]
  <2>1. \A t \in Task : Owner(t) \in Client
    BY TaskIsPair
  <2> QED
    BY <1>1, <2>1 DEF Shape, Bounds
<1>5. misled \in SUBSET Task
  BY DEF TypesInv, Numbering
<1> QED
  BY <1>1, <1>2, <1>3, <1>4, <1>5 DEF TypeOK, Shape, Lists, ClientPc, ThreadPc

\* A running thread is the one its reading client waits for.
LEMMA SessionWriters == SessionInv => WritersHaveReader
<1> SUFFICES ASSUME SessionInv, ~stale, NEW t \in Task, tpc[t] = "run", cpc[Owner(t)] # "gone",
                    t \notin misled
             PROVE  Reads(Owner(t), tfd[t])
  BY DEF WritersHaveReader
<1>1. t[1] \in Client /\ Owner(t) = t[1] /\ TypesInv
  BY TaskIsPair DEF SessionInv
<1>2. ~ServerDead
  BY <1>1 DEF ServerDead, TypesInv, Numbering
<1>3. OlderAreOver(t[1]) /\ InStep(t[1])
  BY <1>1, <1>2 DEF SessionInv, Meeting
<1> QED
  BY <1>1, <1>2, <1>3, WritesToReader DEF Reads

\* When a client that was not misled has stopped reading, the FIFO is empty.
LEMMA SessionOutput == SessionInv => OutputIsComplete
<1> SUFFICES ASSUME SessionInv, ~stale, NEW c \in Client, cpc[c] \in {"close", "unlink"}
             PROVE  /\ \A i \in 1..Len(shown[c]) : shown[c][i] \in {<<nreq[c], i>>, NOTHING}
                    /\ <<c, nreq[c]>> \notin misled => Len(shown[c]) = wrote[<<c, nreq[c]>>]
  BY DEF OutputIsComplete
<1>1. LinesInOrder(c)
  BY DEF SessionInv, Meeting
<1>2. <<c, nreq[c]>> \notin misled => pipe[c] = <<>> /\ ~Marked(c)
  BY <1>1 DEF LinesInOrder, Marked, Latest
<1>3. shown[c] \in Seq(Line \cup {NOTHING})
  BY DEF SessionInv, TypesInv, Types, Lists
<1>4. /\ \A i \in 1..Len(shown[c]) : shown[c][i] \in {<<nreq[c], i>>, NOTHING}
      /\ wrote[<<c, nreq[c]>>] = Len(shown[c]) + Len(pipe[c]) - (IF Marked(c) THEN 1 ELSE 0)
  BY <1>1 DEF LinesInOrder, Latest
<1>5. Len(shown[c]) \in Nat /\ Len(<<>>) = 0
  BY <1>3, LenProperties
<1>6. ASSUME <<c, nreq[c]>> \notin misled PROVE Len(shown[c]) = wrote[<<c, nreq[c]>>]
  <2>1. Len(pipe[c]) = 0 /\ ~Marked(c)
    BY <1>2, <1>5, <1>6
  <2> QED
    BY <1>4, <1>5, <2>1
<1> QED
  BY <1>4, <1>6

\* The sessions' invariant.
LEMMA SessionIsInvariant == Spec => []SessionInv
  BY InitSession, NextIsStep, NextSession, PTL DEF Spec

\* Type correctness of clients, FIFOs and request threads.
THEOREM TypeCorrect == Spec => []TypeOK
<1>1. SessionInv => TypeOK
  BY TypesAreOK DEF SessionInv
<1> QED
  BY <1>1, SessionIsInvariant, PTL

\* No request thread writes to a FIFO that nobody reads, unless its client was
\* interrupted or took a line of this very request for a shutdown, or an
\* unlink has hit a newer FIFO.
THEOREM WritersKeepReader == Spec => []WritersHaveReader
  BY SessionWriters, SessionIsInvariant, PTL

\* As long as no unlink has hit a newer FIFO, a client that stops reading has
\* read every line its request's thread wrote, in order and nothing else, and
\* has displayed each of them or nothing of it; one that took a line for a
\* shutdown has read a prefix.
THEOREM OutputArrives == Spec => []OutputIsComplete
  BY SessionOutput, SessionIsInvariant, PTL

====
