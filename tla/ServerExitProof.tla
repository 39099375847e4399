--------------------------- MODULE ServerExitProof ---------------------------
(***************************************************************************)
(* The whole server, for any clients and any number of requests: what its  *)
(* cancelClient and the walk of s_CancelAllActiveClients may rely on while *)
(* the request threads run beside them.                                    *)
(***************************************************************************)
EXTENDS ServerExit, SessionProof

-----------------------------------------------------------------------------
(* The invariant.                                                          *)

ExitTypes ==
    /\ kpc \in {"getline", "cancel", "join", "write", "close", "unlink", "remove"}
    /\ victim \in Task \cup {NoTask}
    /\ opt \in {INTERRUPT, SHUTDOWN}
    /\ pending \in SUBSET Task
    /\ left \in SUBSET Client
    /\ fault \in {"none", "use_after_free", "SIGPIPE"}
    /\ overtaken \in BOOLEAN
    /\ mode \in {"serve", "test", "walk", "exited"}
    /\ SERVER_STOP \in BOOLEAN
    /\ option \in {INTERRUPT, SHUTDOWN}
    /\ listener \in {"created", "listening", "ended"}
    /\ wpc \in {"visit", "next"}
    /\ curr \in Task \cup {NoTask}
    /\ link \in [Task -> Task \cup {NoTask}]
    /\ reused \in BOOLEAN
    /\ late \in SUBSET Client

\* The console cancels when it is told to or in the walk, and has a victim
\* then, whose thread is dead when the marker is sent.
Control ==
    /\ mode = "exited" => \A t \in Task : tpc[t] = "dead"
    /\ ServerDead => mode = "exited"
    /\ wpc = "next" => mode = "walk" /\ curr # NoTask
    /\ mode # "test" /\ wpc = "visit" => kpc = "getline"
    /\ kpc # "getline" => victim \in Task /\ (Queued(victim) \/ overtaken)
    /\ kpc \in {"write", "close"} => Dead(victim)
    /\ kpc \in {"unlink", "remove"} => tpc[victim] = "exited"

\* A node belongs to one thread, which has not yet taken it out.
Nodes ==
    /\ \A i, j \in 1..Len(queue) : queue[i] = queue[j] => i = j
    /\ mode # "exited" =>
         \A t \in Task : Queued(t) =>
            \/ tpc[t] \in {"popen", "run", "remove", "failed", "killed"}
            \/ tpc[t] = "exited" /\ kpc \in {"unlink", "remove"} /\ victim = t

\* A thread that has died with its end of the FIFO open has a client that
\* still reads, unless it was misled, and that the console has not yet sent a
\* marker.
Ended(t) == tpc[t] \in {"killed", "failed"}
Closing(t) == kpc = "close" /\ victim = t

Cancelling ==
    ~stale /\ mode # "exited" =>
      \A t \in Task : cpc[t[1]] # "gone" =>
        /\ Ended(t) => Closing(t) \/ t \in misled \/ (t = Latest(t[1]) /\ cpc[t[1]] = "read")
        /\ t = Latest(t[1]) /\ Marked(t[1]) => tpc[t] = "exited" \/ Closing(t)

\* The nodes that were queued when the walk began, of clients that have got no
\* other task since.
Early(t) == Queued(t) /\ Owner(t) \notin late

\* The walk passes the nodes in the order of their ranks, freed or not: no
\* early node comes before the one it stands on, and what a freed node still
\* points to is not beyond any early one.
Ordered(rank) ==
    /\ \A i, j \in 1..Len(queue) : i < j => rank[queue[i]] < rank[queue[j]]
    /\ \A u, q \in Task : Queued(q) /\ u # q => rank[u] # rank[q]
    /\ \A u, q \in Task : ~Queued(u) /\ Early(q) /\ rank[q] > rank[u] =>
          link[u] # NoTask /\ rank[q] >= rank[link[u]]
    /\ curr = NoTask => wpc = "visit" /\ \A q \in Task : ~Early(q)
    /\ curr # NoTask => \A q \in Task : Early(q) => rank[q] >= rank[curr]
    /\ curr # NoTask /\ reused => ~Early(curr)
    /\ wpc = "next" /\ Early(curr) => kpc # "getline" /\ victim = curr

Walking ==
    /\ mode \in {"serve", "test"} =>
          late = {} /\ ~reused /\ curr = NoTask /\ link = [t \in Task |-> NoTask]
    /\ mode = "walk" => \E rank \in [Task -> Nat] : Ordered(rank)

ExitInv ==
    /\ SessionInv
    /\ ExitTypes
    /\ UseAfterFreeNeedsOverlap /\ SigpipeNeedsLostReader /\ ExitCancelsAll
    /\ fault = "none" => Control /\ Nodes /\ Cancelling /\ Walking

-----------------------------------------------------------------------------
(* The console's own steps, and the sessions.                              *)

\* A thread that is cancelled, or whose end of the FIFO is closed for it, is
\* over for its client.
LEMMA EndingKeeps ==
    ASSUME SessionInv, NEW t \in Task, NEW pc \in {"killed", "exited"},
           tpc[t] \in {"run", "close", "killed", "failed", "exited"},
           pc = "exited" \/ tpc[t] # "exited",
           tpc' = [tpc EXCEPT ![t] = pc],
           UNCHANGED <<cvars, tfd, wrote, pipe, name, made, queue, stale>>
    PROVE  SessionInv'
<1>0. UNCHANGED <<cpc, nreq, cfd, shown, misled, tfd, wrote, pipe, name, made, queue, stale>>
  BY DEF cvars
<1>1. TypesInv /\ Shape /\ Bounds /\ Lists /\ Numbering
  BY DEF SessionInv, TypesInv, Types
<1>2. /\ tpc'[t] = pc /\ \A u \in Task : u # t => tpc'[u] = tpc[u]
      /\ tpc' \in [Task -> ThreadPc]
  BY <1>1 DEF Shape, ThreadPc
<1>3. TypesInv'
  <2>1. Shape' /\ Bounds' /\ Lists'
    BY <1>0, <1>1, <1>2 DEF Shape, Bounds, Lists
  <2>2. Numbering'
    BY <1>0, <1>1, <1>2 DEF Numbering
  <2> QED
    BY <2>1, <2>2 DEF TypesInv, Types
<1>4. ~ServerDead
  <2>1. tpc[t] # "dead"
    OBVIOUS
  <2> QED
    BY <1>1, <2>1 DEF ServerDead, Numbering
<1>5. ASSUME ~stale, NEW d \in Client PROVE Meeting(d)'
  <2>1. Meeting(d)
    BY <1>5 DEF SessionInv
  <2>2. CASE d # t[1]
    <3>1. \A k \in 1..MaxRequests : <<d, k>> \in Task /\ <<d, k>> # t
      BY <2>2, TaskIsPair
    <3>2. Untouched(d)
      BY <1>0, <1>2, <3>1 DEF Untouched
    <3> QED
      BY <1>1, <1>4, <2>1, <3>2, UntouchedMeets
  <2>3. CASE d = t[1]
    <3> DEFINE u == <<d, nreq[d]>>
    <3>1. nreq[d] \in Nat /\ nreq[d] <= MaxRequests /\ MaxRequests \in Nat
      BY <1>1, BoundAssumption DEF Shape, Bounds
    <3>2. \A k \in 1..nreq[d] : <<d, k>> \in Task
      <4> SUFFICES ASSUME NEW k \in 1..nreq[d] PROVE <<d, k>> \in Task
        OBVIOUS
      <4>1. k \in 1..MaxRequests
        BY <3>1
      <4> QED
        BY <4>1, TaskIsPair
    <3>3. nreq[d] > 0 => u \in Task
      BY <3>1, <3>2
    <3>4. LinesInOrder(d)'
      <4>1. nreq[d] > 0 => (tpc[u] \in MarkedPc => tpc'[u] \in MarkedPc)
        BY <1>2, <3>3 DEF MarkedPc
      <4> QED
        BY <1>0, <2>1, <4>1, LinesStay DEF Meeting
    <3>5. ASSUME cpc[d] # "gone" PROVE OlderAreOver(d)' /\ InStep(d)'
      <4>1. OlderAreOver(d) /\ InStep(d)
        BY <1>4, <2>1, <3>5 DEF Meeting
      <4>2. OlderAreOver(d)'
        <5> SUFFICES ASSUME NEW k \in 1..nreq[d] - 1
                     PROVE  /\ Done(<<d, k>>)' /\ (name[d] # 0 => tfd[<<d, k>>] # name[d])
                            /\ tpc'[<<d, k>>] # "exited" => ~Reads(d, tfd[<<d, k>>])
          BY <1>0 DEF OlderAreOver, Reads
        <5>1. /\ Done(<<d, k>>) /\ (name[d] # 0 => tfd[<<d, k>>] # name[d])
              /\ tpc[<<d, k>>] # "exited" => ~Reads(d, tfd[<<d, k>>])
          BY <4>1 DEF OlderAreOver
        <5>2. <<d, k>> \in Task
          BY <3>1, <3>2
        <5> QED
          BY <1>0, <1>2, <5>1, <5>2 DEF Done, Over
      <4>3. CASE t = u
        <5>1. cpc[d] \in {"prompt", "read", "close", "unlink"} /\ (cpc[d] # "prompt" => nreq[d] > 0)
              /\ (cpc[d] = "prompt" => name[d] = 0)
              /\ (cpc[d] = "read" => (tpc[t] = "exited" \/ tfd[t] = cfd[d]))
          <6>1. cpc[d] \in ClientPc /\ tpc[t] \in {"run", "close", "killed", "failed", "exited"}
            BY <1>1 DEF Shape
          <6> QED
            BY ONLY <3>5, <4>1, <4>3, <6>1 DEF InStep, Latest, ClientPc, Over, u
        <5>2. pc = "exited" \/ (tpc[t] # "exited" /\ pc = "killed")
          OBVIOUS
        <5>3. UNCHANGED <<cpc, nreq, cfd, tfd, name, misled>>
          BY <1>0
        <5> QED
          BY ONLY <1>2, <4>1, <4>2, <4>3, <5>1, <5>2, <5>3 DEF InStep, Latest, Done, Over, u
      <4>4. CASE t # u
        <5>1. cpc[d] = "prompt" \/ nreq[d] > 0
          BY <4>1 DEF InStep
        <5>2. nreq[d] > 0 => tpc'[u] = tpc[u]
          BY <1>2, <3>3, <4>4
        <5>3. UNCHANGED <<cpc, nreq, cfd, tfd, name, misled>>
          BY <1>0
        <5> QED
          BY ONLY <3>1, <4>1, <4>2, <5>1, <5>2, <5>3 DEF InStep, Latest, Done, AtWork, Over, u
      <4> QED
        BY <4>3, <4>4
    <3> QED
      BY <1>0, <1>4, <3>4, <3>5 DEF Meeting
  <2> QED
    BY <2>2, <2>3
<1> QED
  BY <1>0, <1>3, <1>5 DEF SessionInv

\* A client that meets a marker has displayed all its thread has written.
LEMMA ReadMarkerKeeps ==
    ASSUME SessionInv, NEW c \in Client, ReadMarker(c)
    PROVE  SessionInv'
<1> DEFINE P == pipe[c]
           t == <<c, nreq[c]>>
<1>1. TypesInv /\ Shape /\ Bounds /\ Lists /\ Numbering
  BY DEF SessionInv, TypesInv, Types
<1>2. /\ cpc[c] = "read" /\ cpc' = [cpc EXCEPT ![c] = "close"]
      /\ P # <<>> /\ IsMarker(Head(P)) /\ pipe' = [pipe EXCEPT ![c] = Tail(P)]
      /\ UNCHANGED <<nreq, cfd, shown, misled, tpc, tfd, wrote, name, made, queue, stale>>
  BY DEF ReadMarker, tvars
<1>3. P \in Seq(Item)
  BY <1>1 DEF Lists
<1>4. /\ Tail(P) \in Seq(Item) /\ Len(P) \in Nat /\ Len(P) > 0 /\ Head(P) = P[1]
      /\ Len(Tail(P)) = Len(P) - 1
  BY <1>2, <1>3, HeadTailProperties, LenProperties
<1>5. cpc'[c] = "close" /\ pipe'[c] = Tail(P)
  BY <1>1, <1>2 DEF Shape, Lists
<1>6. TypesInv'
  <2>1. Shape'
    BY <1>1, <1>2 DEF Shape, ClientPc
  <2>2. Lists'
    BY <1>1, <1>2, <1>4 DEF Lists
  <2>3. Bounds'
    BY <1>1, <1>2 DEF Bounds
  <2>4. \A d \in Client : cpc'[d] \notin {"prompt", "gone"} => cpc[d] \notin {"prompt", "gone"}
    BY <1>1, <1>2 DEF Shape
  <2>5. Numbering'
    BY <1>1, <1>2, <2>4 DEF Numbering
  <2> QED
    BY <2>1, <2>2, <2>3, <2>5 DEF TypesInv, Types
<1>7. ASSUME ~stale, NEW d \in Client PROVE Meeting(d)'
  <2>1. Meeting(d)
    BY <1>7 DEF SessionInv
  <2>2. CASE d # c
    <3>1. Untouched(d)
      BY <1>1, <1>2, <2>2 DEF Untouched, Shape, Lists
    <3>2. ServerDead => ServerDead'
      BY <1>2 DEF ServerDead
    <3> QED
      BY <1>1, <2>1, <3>1, <3>2, UntouchedMeets
  <2>3. CASE d = c
    <3>1. LinesInOrder(c)
      BY <2>1, <2>3 DEF Meeting
    <3>2. Marked(c) /\ Len(P) = 1 /\ 1 \in 1..Len(P)
      <4>1. 1 \in 1..Len(P) /\ IsMarker(P[1])
        BY <1>2, <1>4
      <4> QED
        BY <1>2, <3>1, <4>1 DEF LinesInOrder, Marked
    <3>3. Tail(P) = <<>> /\ Len(Tail(P)) = 0
      <4> DEFINE T == Tail(P)
      <4>1. T \in Seq(Item) /\ Len(T) = 0
        BY <1>4, <3>2
      <4> HIDE DEF T
      <4>2. T = <<>>
        BY <4>1, EmptySeq
      <4> QED
        BY <4>1, <4>2 DEF T
    <3>4. ~Marked(c)'
      <4>1. pipe'[c] = <<>>
        BY <1>5, <3>3
      <4> QED
        BY ONLY <4>1 DEF Marked
    <3>5. /\ nreq[c] > 0
          /\ \A i \in 1..Len(shown[c]) : shown[c][i] \in {<<nreq[c], i>>, NOTHING}
          /\ tpc[t] \in MarkedPc
          /\ wrote[t] = Len(shown[c]) + Len(P) - 1
      BY <1>2, <3>1, <3>2 DEF LinesInOrder, Latest, MarkedPc
    <3>6. Len(shown[c]) \in Nat
      <4>1. shown[c] \in Seq(Line \cup {NOTHING})
        BY <1>1 DEF Lists
      <4> QED
        BY <4>1, LenProperties
    <3>7. wrote[t] = Len(shown[c])
      BY ONLY <3>2, <3>5, <3>6
    <3>8. LinesInOrder(c)'
      <4>1. /\ cpc'[c] = "close" /\ pipe'[c] = <<>> /\ shown' = shown /\ nreq' = nreq
            /\ wrote' = wrote /\ Len(<<>>) = 0
        BY <1>2, <1>5, <3>3
      <4> HIDE DEF P
      <4> QED
        BY ONLY <3>4, <3>5, <3>6, <3>7, <4>1 DEF LinesInOrder, Latest, t
    <3>9. ASSUME ~ServerDead' PROVE OlderAreOver(c)' /\ InStep(c)'
      <4>1. ~ServerDead
        BY <1>2, <3>9 DEF ServerDead
      <4>2. OlderAreOver(c) /\ InStep(c)
        BY <1>2, <2>1, <2>3, <4>1 DEF Meeting
      <4>3. tpc[t] # "dead"
        <5>1. nreq[c] \in 1..MaxRequests
          BY <1>1, <3>5, BoundAssumption DEF Shape, Bounds
        <5>2. t \in Task
          BY <5>1, TaskIsPair
        <5> QED
          BY <4>1, <5>2 DEF ServerDead
      <4>4. OlderAreOver(c)'
        BY <1>1, <1>2, <1>5, <4>2, OlderStay
      <4>5. UNCHANGED <<nreq, tpc, misled>>
        BY <1>2
      <4>6. InStep(c)'
        BY ONLY <1>5, <3>5, <4>3, <4>5 DEF InStep, Latest, Done, AtWork, Over, MarkedPc, t
      <4> QED
        BY <4>4, <4>6
    <3> QED
      BY <2>3, <3>8, <3>9 DEF Meeting
  <2> QED
    BY <2>2, <2>3
<1> QED
  BY <1>2, <1>6, <1>7 DEF SessionInv

\* The console takes the name of its victim's FIFO away, and no other.
LEMMA UnlinkFifoKeeps ==
    ASSUME SessionInv, ~ServerDead, NEW v \in Task, tpc[v] = "exited",
           RemoveFifo(Owner(v), tfd[v]),
           UNCHANGED <<cvars, tvars, pipe, queue>>
    PROVE  SessionInv'
<1>0. UNCHANGED <<cpc, nreq, cfd, shown, misled, tpc, tfd, wrote, pipe, queue>>
  BY DEF cvars, tvars
<1>1. TypesInv /\ Shape /\ Bounds /\ Lists /\ Numbering
  BY DEF SessionInv, TypesInv, Types
<1>2. v[1] \in Client /\ Owner(v) = v[1]
  BY TaskIsPair
<1>3. /\ name' = [name EXCEPT ![v[1]] = 0] /\ made' = made
      /\ stale' = (stale \/ name[v[1]] \notin {0, tfd[v]})
  BY <1>2 DEF RemoveFifo
<1>4. TypesInv'
  <2>1. Shape'
    BY <1>0, <1>1, <1>3 DEF Shape
  <2>2. Lists' /\ Numbering'
    BY <1>0, <1>1 DEF Lists, Numbering
  <2>3. Bounds'
    BY <1>0, <1>1, <1>3 DEF Bounds, Shape
  <2> QED
    BY <2>1, <2>2, <2>3 DEF TypesInv, Types
<1>5. ASSUME ~stale', NEW d \in Client PROVE Meeting(d)'
  <2>1. Meeting(d)
    BY <1>3, <1>5 DEF SessionInv
  <2>2. CASE d # v[1]
    <3>1. Untouched(d)
      BY <1>0, <1>1, <1>2, <1>3, <2>2 DEF Untouched, Shape
    <3> QED
      BY <1>1, <2>1, <3>1, UntouchedMeets
  <2>3. CASE d = v[1]
    <3>1. LinesInOrder(d)'
      BY <1>0, <2>1, LinesStay DEF Meeting
    <3>2. ASSUME cpc[d] # "gone" PROVE OlderAreOver(d)' /\ InStep(d)'
      <4>1. OlderAreOver(d) /\ InStep(d)
        BY <2>1, <3>2 DEF Meeting
      <4>2. tpc[v] \in Over /\ tpc'[v] = "exited" /\ RemoveFifo(d, tfd[v])
        BY <1>0, <1>2, <2>3 DEF Over
      <4> QED
        BY <1>0, <1>1, <1>5, <2>3, <3>2, <4>1, <4>2, UnlinkInStep
    <3> QED
      BY <1>0, <3>1, <3>2 DEF Meeting
  <2> QED
    BY <2>2, <2>3
<1> QED
  BY <1>4, <1>5 DEF SessionInv

\* The marker comes after what the dead thread has written.
LEMMA WriteMarkerKeeps ==
    ASSUME SessionInv, NEW v \in Task, NEW o \in {INTERRUPT, SHUTDOWN},
           Reads(Owner(v), tfd[v]),
           ~stale => /\ v = Latest(v[1]) /\ ~Marked(v[1]) /\ tpc[v] \in MarkedPc
                     /\ cpc[v[1]] = "read" \/ (cpc[v[1]] = "close" /\ v \in misled),
           pipe' = [pipe EXCEPT ![Owner(v)] = Append(@, o)],
           UNCHANGED <<cvars, tvars, name, made, queue, stale>>
    PROVE  SessionInv'
<1> DEFINE c == v[1]
           P == pipe[c]
           S == shown[c]
           R == Append(P, o)
<1>0. UNCHANGED <<cpc, nreq, cfd, shown, misled, tpc, tfd, wrote, name, made, queue, stale>>
  BY DEF cvars, tvars
<1>1. TypesInv /\ Shape /\ Bounds /\ Lists /\ Numbering
  BY DEF SessionInv, TypesInv, Types
<1>2. c \in Client /\ Owner(v) = c
  BY TaskIsPair
<1>3. P \in Seq(Item) /\ o \in Item /\ S \in Seq(Line \cup {NOTHING})
  BY <1>1, <1>2 DEF Lists, Item
<1>4. /\ R \in Seq(Item) /\ Len(R) = Len(P) + 1 /\ Len(P) \in Nat /\ Len(S) \in Nat
      /\ R[Len(P) + 1] = o /\ \A i \in 1..Len(P) : R[i] = P[i]
  BY <1>3, AppendProperties, LenProperties
<1>5. pipe' = [pipe EXCEPT ![c] = R]
  BY <1>2
<1>6. TypesInv'
  <2>1. Lists'
    BY <1>0, <1>1, <1>2, <1>4, <1>5 DEF Lists
  <2>2. Shape' /\ Bounds' /\ Numbering'
    BY <1>0, <1>1 DEF Shape, Bounds, Numbering
  <2> QED
    BY <2>1, <2>2 DEF TypesInv, Types
<1>7. ServerDead' <=> ServerDead
  BY <1>0 DEF ServerDead
<1>8. ASSUME ~stale, NEW d \in Client PROVE Meeting(d)'
  <2>1. Meeting(d)
    BY <1>8 DEF SessionInv
  <2>2. CASE d # c
    <3>1. Untouched(d)
      BY <1>0, <1>1, <1>2, <1>5, <2>2 DEF Untouched, Lists
    <3> QED
      BY <1>1, <1>7, <2>1, <3>1, UntouchedMeets
  <2>3. CASE d = c
    <3>1. /\ v = <<c, nreq[c]>> /\ ~Marked(c) /\ tpc[v] \in MarkedPc
          /\ LinesInOrder(c) /\ Latest(c) = v
          /\ cpc[c] = "read" \/ (cpc[c] = "close" /\ v \in misled)
      BY <1>8, <2>1, <2>3 DEF Meeting, Latest
    <3>2. /\ nreq[c] > 0
          /\ \A i \in 1..Len(S) : S[i] \in {<<nreq[c], i>>, NOTHING}
          /\ \A i \in 1..Len(P) : ~IsMarker(P[i]) /\ P[i] = <<nreq[c], Len(S) + i>>
          /\ wrote[v] = Len(S) + Len(P) - 0
      BY <3>1 DEF LinesInOrder, Marked
    <3>3. IsMarker(o)
      BY DEF IsMarker
    <3>4. pipe'[c] = R
      BY <1>1, <1>2, <1>5 DEF Lists
    <3> HIDE DEF P, S, R
    <3>5. \A i \in 1..Len(R) :
            IF IsMarker(R[i]) THEN i = Len(R) ELSE R[i] = <<nreq[c], Len(S) + i>>
      <4> SUFFICES ASSUME NEW i \in 1..Len(R)
                   PROVE  IF IsMarker(R[i]) THEN i = Len(R) ELSE R[i] = <<nreq[c], Len(S) + i>>
        OBVIOUS
      <4>1. i \in 1..Len(P) \/ i = Len(P) + 1
        BY <1>4
      <4>2. CASE i \in 1..Len(P)
        BY <1>4, <3>2, <4>2
      <4>3. CASE i = Len(P) + 1
        BY <1>4, <3>3, <4>3
      <4> QED
        BY <4>1, <4>2, <4>3
    <3>6. Marked(c)'
      <4>1. Len(P) + 1 \in 1..Len(R) /\ IsMarker(R[Len(P) + 1])
        BY <1>4, <3>3
      <4> QED
        BY <3>4, <4>1 DEF Marked
    <3>7. wrote[v] = Len(S) + Len(R) - 1
      BY <1>4, <3>2
    <3>8. shown'[c] = S /\ UNCHANGED <<cpc, nreq, misled, tpc, wrote>>
      BY <1>0 DEF S
    <3>9. LinesInOrder(c)'
      BY ONLY <3>1, <3>2, <3>4, <3>5, <3>6, <3>7, <3>8 DEF LinesInOrder, Latest, MarkedPc
    <3>10. ASSUME ~ServerDead', cpc[c] # "gone" PROVE OlderAreOver(c)' /\ InStep(c)'
      <4>1. OlderAreOver(c) /\ InStep(c)
        BY <1>7, <2>1, <2>3, <3>10 DEF Meeting
      <4> QED
        BY <1>0, <4>1 DEF OlderAreOver, InStep, Latest, Done, Reads
    <3> QED
      BY <1>0, <2>3, <3>9, <3>10 DEF Meeting
  <2> QED
    BY <2>2, <2>3
<1> QED
  BY <1>0, <1>6, <1>8 DEF SessionInv

-----------------------------------------------------------------------------
(* Nodes that come and go.                                                 *)

\* Taking out the ith node leaves the others, in their order.
LEMMA Removing ==
    ASSUME queue \in Seq(Task), \A i, j \in 1..Len(queue) : queue[i] = queue[j] => i = j,
           NEW k \in 1..Len(queue), queue' = RemoveAt(queue, k)
    PROVE  /\ Len(queue') = Len(queue) - 1
           /\ \A i \in 1..Len(queue') : queue'[i] = IF i < k THEN queue[i] ELSE queue[i + 1]
           /\ \A i, j \in 1..Len(queue') : queue'[i] = queue'[j] => i = j
           /\ \A t : Queued(t)' <=> Queued(t) /\ t # queue[k]
<1>1. Len(queue) \in Nat
  BY LenProperties
<1>2. /\ Len(queue') = Len(queue) - 1
      /\ \A i \in 1..Len(queue') : queue'[i] = IF i < k THEN queue[i] ELSE queue[i + 1]
  BY RemoveAtProperties
<1> DEFINE old(i) == IF i < k THEN i ELSE i + 1
<1>3. \A i \in 1..Len(queue') : old(i) \in 1..Len(queue) /\ old(i) # k /\ queue'[i] = queue[old(i)]
  BY <1>1, <1>2
<1>4. \A i, j \in 1..Len(queue') : queue'[i] = queue'[j] => i = j
  <2> SUFFICES ASSUME NEW i \in 1..Len(queue'), NEW j \in 1..Len(queue'), queue'[i] = queue'[j]
               PROVE  i = j
    OBVIOUS
  <2>1. \A a, b \in 1..Len(queue) : queue[a] = queue[b] => a = b
    OBVIOUS
  <2> HIDE DEF old
  <2>2. /\ old(i) \in 1..Len(queue) /\ queue'[i] = queue[old(i)]
        /\ old(j) \in 1..Len(queue) /\ queue'[j] = queue[old(j)]
    BY <1>3
  <2>3. old(i) = old(j)
    BY <2>1, <2>2
  <2> QED
    BY <1>1, <1>2, <2>3 DEF old
<1>5. ASSUME NEW t, Queued(t)' PROVE Queued(t) /\ t # queue[k]
  <2>1. PICK i \in 1..Len(queue') : queue'[i] = t
    BY <1>5 DEF Queued
  <2>2. old(i) \in 1..Len(queue) /\ old(i) # k /\ t = queue[old(i)]
    BY <1>3, <2>1
  <2> QED
    BY <2>2 DEF Queued
<1>6. ASSUME NEW t, Queued(t), t # queue[k] PROVE Queued(t)'
  <2>1. PICK i \in 1..Len(queue) : queue[i] = t
    BY <1>6 DEF Queued
  <2> DEFINE m == IF i < k THEN i ELSE i - 1
  <2>2. i # k
    BY <1>6, <2>1
  <2>3. m \in 1..Len(queue') /\ old(m) = i
    BY <1>1, <1>2, <2>2
  <2>4. queue'[m] = t
    BY <1>3, <2>1, <2>3
  <2> QED
    BY <2>3, <2>4 DEF Queued
<1> QED
  BY <1>2, <1>4, <1>5, <1>6

\* Adding a node puts it before the others.
LEMMA Adding ==
    ASSUME queue \in Seq(Task), \A i, j \in 1..Len(queue) : queue[i] = queue[j] => i = j,
           NEW t \in Task, ~Queued(t), queue' = Cons(t, queue)
    PROVE  /\ Len(queue') = Len(queue) + 1 /\ queue'[1] = t
           /\ \A i \in 2..Len(queue) + 1 : queue'[i] = queue[i - 1]
           /\ \A i, j \in 1..Len(queue') : queue'[i] = queue'[j] => i = j
           /\ \A u : Queued(u)' <=> Queued(u) \/ u = t
<1>1. Len(queue) \in Nat
  BY LenProperties
<1>2. /\ Len(queue') = Len(queue) + 1 /\ queue'[1] = t
      /\ \A i \in 2..Len(queue) + 1 : queue'[i] = queue[i - 1]
  <2>1. /\ Len(Cons(t, queue)) = Len(queue) + 1 /\ Cons(t, queue)[1] = t
        /\ \A i \in 2..Len(queue) + 1 : Cons(t, queue)[i] = queue[i - 1]
    BY ONLY ConsProperties, queue \in Seq(Task), t \in Task
  <2> QED
    BY <2>1
<1>3. \A i \in 1..Len(queue) : queue[i] # t
  BY DEF Queued
<1>4. \A i \in 1..Len(queue') : i = 1 \/ (i - 1 \in 1..Len(queue) /\ queue'[i] = queue[i - 1])
  BY <1>1, <1>2
<1>5. \A i, j \in 1..Len(queue') : queue'[i] = queue'[j] => i = j
  <2> SUFFICES ASSUME NEW i \in 1..Len(queue'), NEW j \in 1..Len(queue'), queue'[i] = queue'[j]
               PROVE  i = j
    OBVIOUS
  <2>1. i = 1 <=> j = 1
    BY <1>2, <1>3, <1>4
  <2>2. CASE i # 1
    <3>1. i - 1 = j - 1
      BY <1>4, <2>1, <2>2
    <3> QED
      BY <3>1
  <2> QED
    BY <2>1, <2>2
<1>6. ASSUME NEW u, Queued(u)' PROVE Queued(u) \/ u = t
  <2>1. PICK i \in 1..Len(queue') : queue'[i] = u
    BY <1>6 DEF Queued
  <2> QED
    BY <1>2, <1>4, <2>1 DEF Queued
<1>7. ASSUME NEW u, Queued(u) PROVE Queued(u)'
  <2>1. PICK i \in 1..Len(queue) : queue[i] = u
    BY <1>7 DEF Queued
  <2>2. i + 1 \in 1..Len(queue') /\ queue'[i + 1] = u
    <3>1. i + 1 \in 2..Len(queue) + 1 /\ i + 1 \in 1..Len(queue') /\ (i + 1) - 1 = i
      BY <1>1, <1>2
    <3> QED
      BY <1>2, <2>1, <3>1
  <2> QED
    BY <2>2 DEF Queued
<1>8. Queued(t)'
  BY <1>1, <1>2 DEF Queued
<1> QED
  BY <1>2, <1>5, <1>6, <1>7, <1>8

\* What the next pointer of a queued node leads to.
LEMMA NextOfQueued ==
    ASSUME queue \in Seq(Task), \A i, j \in 1..Len(queue) : queue[i] = queue[j] => i = j,
           NEW k \in 1..Len(queue)
    PROVE  Next1(queue[k]) = IF k = Len(queue) THEN NoTask ELSE queue[k + 1]
<1> DEFINE j == CHOOSE i \in 1..Len(queue) : queue[i] = queue[k]
<1>1. j = k
  BY Zenon
<1>2. Queued(queue[k])
  BY DEF Queued
<1> HIDE DEF j
<1>3. Next1(queue[k]) = IF j = Len(queue) THEN NoTask ELSE queue[j + 1]
  BY <1>2 DEF Next1, j
<1> QED
  BY <1>1, <1>3

\* NoTask is no task.
LEMMA NoTaskIsNone == NoTask \notin Task
  BY DEF NoTask, Task

\* Beside a step of somebody else that frees at most one node, the walk stays
\* in order.
LEMMA WalkBeside ==
    ASSUME queue \in Seq(Task), \A i, j \in 1..Len(queue) : queue[i] = queue[j] => i = j,
           link \in [Task -> Task \cup {NoTask}], mode = "walk",
           NEW rank \in [Task -> Nat], Ordered(rank),
           link' = [t \in Task |-> IF mode = "walk" /\ Queued(t) /\ ~Queued(t)'
                                   THEN Next1(t) ELSE link[t]],
           reused' => reused \/ (curr # NoTask /\ ~Queued(curr)),
           wpc' = wpc, curr' = curr, late \subseteq late',
           queue' = queue \/ \E k \in 1..Len(queue) : queue' = RemoveAt(queue, k),
           \A t : kpc # "getline" /\ t = victim /\ Queued(t)' => kpc' # "getline" /\ victim' = t
    PROVE  Ordered(rank)'
<1>1. \A t : Queued(t)' => Queued(t)
  BY Removing DEF Queued
<1>2. Len(queue) \in Nat /\ \A i \in 1..Len(queue) : queue[i] \in Task
  BY LenProperties, ElementOfSeq
<1>0. \A t : Early(t)' => Early(t) /\ Queued(t)'
  BY <1>1 DEF Early
<1>3. \A i, j \in 1..Len(queue) : i < j => rank[queue[i]] < rank[queue[j]]
  BY DEF Ordered
<1>4. \A i, j \in 1..Len(queue') : i < j => rank[queue'[i]] < rank[queue'[j]]
  <2>1. CASE queue' = queue
    BY <1>3, <2>1
  <2>2. ASSUME NEW k \in 1..Len(queue), queue' = RemoveAt(queue, k)
        PROVE  \A i, j \in 1..Len(queue') : i < j => rank[queue'[i]] < rank[queue'[j]]
    <3>1. /\ Len(queue') = Len(queue) - 1
          /\ \A i \in 1..Len(queue') : queue'[i] = IF i < k THEN queue[i] ELSE queue[i + 1]
      BY <2>2, Removing
    <3> DEFINE old(i) == IF i < k THEN i ELSE i + 1
    <3>2. \A i \in 1..Len(queue') : old(i) \in 1..Len(queue) /\ queue'[i] = queue[old(i)]
      BY <1>2, <3>1
    <3>3. \A i, j \in 1..Len(queue') : i < j => old(i) < old(j)
      BY <1>2, <3>1
    <3> HIDE DEF old
    <3> SUFFICES ASSUME NEW i \in 1..Len(queue'), NEW j \in 1..Len(queue'), i < j
                 PROVE  rank[queue'[i]] < rank[queue'[j]]
      OBVIOUS
    <3>4. /\ old(i) \in 1..Len(queue) /\ queue'[i] = queue[old(i)]
          /\ old(j) \in 1..Len(queue) /\ queue'[j] = queue[old(j)] /\ old(i) < old(j)
      BY <3>2, <3>3
    <3> QED
      BY <1>3, <3>4
  <2> QED
    BY <2>1, <2>2
<1>5. \A u, q \in Task : Queued(q)' /\ u # q => rank[u] # rank[q]
  BY <1>1 DEF Ordered
<1>6. ASSUME NEW u \in Task, NEW q \in Task, ~Queued(u)', Early(q)', rank[q] > rank[u]
      PROVE  link'[u] # NoTask /\ rank[q] >= rank[link'[u]]
  <2>1. CASE ~Queued(u)
    <3>1. link'[u] = link[u]
      BY <2>1
    <3> QED
      BY <1>0, <1>6, <2>1, <3>1 DEF Ordered
  <2>2. CASE Queued(u)
    <3>1. PICK k \in 1..Len(queue) : queue[k] = u
      BY <2>2 DEF Queued
    <3>2. PICK m \in 1..Len(queue) : queue[m] = q
      BY <1>0, <1>1, <1>6 DEF Queued
    <3>3. link'[u] = IF k = Len(queue) THEN NoTask ELSE queue[k + 1]
      BY <1>6, <2>2, <3>1, NextOfQueued
    <3>4. rank[u] \in Nat /\ rank[q] \in Nat
      OBVIOUS
    <3>5. k < m
      <4>1. m # k
        BY <1>6, <3>1, <3>2, <3>4
      <4>2. ~(m < k)
        BY <1>3, <1>6, <3>1, <3>2, <3>4
      <4> QED
        BY <4>1, <4>2
    <3>6. k + 1 \in 1..Len(queue) /\ link'[u] = queue[k + 1] /\ (m = k + 1 \/ k + 1 < m)
      BY <1>2, <3>3, <3>5
    <3>7. link'[u] \in Task /\ rank[link'[u]] \in Nat
      BY <1>2, <3>6
    <3>8. rank[q] >= rank[link'[u]]
      BY <1>3, <3>2, <3>4, <3>6, <3>7
    <3> QED
      BY <3>7, <3>8, NoTaskIsNone
  <2> QED
    BY <2>1, <2>2
<1>7. curr = NoTask => wpc = "visit" /\ \A q \in Task : ~Early(q)'
  BY <1>0 DEF Ordered
<1>8. curr # NoTask => \A q \in Task : Early(q)' => rank[q] >= rank[curr]
  BY <1>0 DEF Ordered
<1>9. wpc' = wpc /\ curr' = curr
  OBVIOUS
<1>10. curr # NoTask /\ reused' => ~Early(curr)'
  <2> SUFFICES ASSUME NEW t, t = curr, curr # NoTask, reused', Early(t)' PROVE FALSE
    BY <1>9
  <2>1. Early(t) /\ Queued(t)
    BY <1>0, <1>1
  <2> QED
    BY <2>1 DEF Ordered
<1>11. wpc = "next" /\ Early(curr)' => kpc' # "getline" /\ victim' = curr
  <2> SUFFICES ASSUME NEW t, t = curr, wpc = "next", Early(t)'
               PROVE  kpc' # "getline" /\ victim' = t
    BY <1>9
  <2>1. kpc # "getline" /\ victim = t /\ Queued(t)'
    BY <1>0 DEF Ordered
  <2> QED
    BY <2>1
<1> QED
  BY ONLY <1>4, <1>5, <1>6, <1>7, <1>8, <1>9, <1>10, <1>11 DEF Ordered

\* A node that is added meanwhile ranks before all others.
LEMMA WalkJoined ==
    ASSUME queue \in Seq(Task), \A i, j \in 1..Len(queue) : queue[i] = queue[j] => i = j,
           link \in [Task -> Task \cup {NoTask}], mode = "walk",
           NEW rank \in [Task -> Nat], Ordered(rank),
           NEW t \in Task, ~Queued(t), queue' = Cons(t, queue), curr \in Task \cup {NoTask},
           late \subseteq late', Owner(t) \in late', link' = link,
           reused' => reused \/ (curr # NoTask /\ ~Queued(curr)),
           wpc' = wpc, curr' = curr,
           \A u : kpc # "getline" /\ u = victim /\ Queued(u)' => kpc' # "getline" /\ victim' = u
    PROVE  \E r \in [Task -> Nat] : Ordered(r)'
<1>1. /\ Len(queue') = Len(queue) + 1 /\ queue'[1] = t
      /\ \A i \in 2..Len(queue) + 1 : queue'[i] = queue[i - 1]
      /\ \A u : Queued(u)' <=> Queued(u) \/ u = t
  BY Adding
<1>2. Len(queue) \in Nat /\ \A i \in 1..Len(queue) : queue[i] \in Task /\ queue[i] # t
  BY LenProperties, ElementOfSeq DEF Queued
<1> DEFINE r == [u \in Task |-> IF u = t THEN 0 ELSE rank[u] + 1]
<1>3. /\ r \in [Task -> Nat] /\ r[t] = 0
      /\ \A u \in Task : u # t => r[u] = rank[u] + 1 /\ rank[u] \in Nat /\ r[u] \in Nat
  OBVIOUS
<1> HIDE DEF r
<1>4. \A u : Early(u)' => Early(u) /\ u # t
  BY <1>1 DEF Early
<1>5. \A i, j \in 1..Len(queue') : i < j => r[queue'[i]] < r[queue'[j]]
  <2> SUFFICES ASSUME NEW i \in 1..Len(queue'), NEW j \in 1..Len(queue'), i < j
               PROVE  r[queue'[i]] < r[queue'[j]]
    OBVIOUS
  <2>1. j \in 2..Len(queue) + 1 /\ j - 1 \in 1..Len(queue) /\ queue'[j] = queue[j - 1]
    BY <1>1, <1>2
  <2>2. r[queue'[j]] = rank[queue[j - 1]] + 1 /\ rank[queue[j - 1]] \in Nat
    BY <1>2, <1>3, <2>1
  <2>3. CASE i = 1
    BY <1>1, <1>3, <2>2, <2>3
  <2>4. CASE i # 1
    <3>1. i \in 2..Len(queue) + 1 /\ i - 1 \in 1..Len(queue) /\ queue'[i] = queue[i - 1]
      BY <1>1, <1>2, <2>4
    <3>2. r[queue'[i]] = rank[queue[i - 1]] + 1 /\ rank[queue[i - 1]] \in Nat
      BY <1>2, <1>3, <3>1
    <3>3. rank[queue[i - 1]] < rank[queue[j - 1]]
      <4>1. i - 1 < j - 1
        OBVIOUS
      <4> QED
        BY <2>1, <3>1, <4>1 DEF Ordered
    <3> QED
      BY <2>2, <3>2, <3>3
  <2> QED
    BY <2>3, <2>4
<1>6. ASSUME NEW u \in Task, NEW q \in Task, Queued(q)', u # q PROVE r[u] # r[q]
  <2>1. CASE u = t \/ q = t
    BY <1>3, <1>6, <2>1
  <2>2. CASE u # t /\ q # t
    <3>1. rank[u] # rank[q]
      BY <1>1, <1>6, <2>2 DEF Ordered
    <3> QED
      BY <1>3, <2>2, <3>1
  <2> QED
    BY <2>1, <2>2
<1>7. ASSUME NEW u \in Task, NEW q \in Task, ~Queued(u)', Early(q)', r[q] > r[u]
      PROVE  link[u] # NoTask /\ r[q] >= r[link[u]]
  <2>1. u # t /\ ~Queued(u) /\ q # t /\ Early(q)
    BY <1>1, <1>4, <1>7
  <2>2. rank[q] > rank[u]
    BY <1>3, <1>7, <2>1
  <2>3. link[u] # NoTask /\ rank[q] >= rank[link[u]]
    BY <2>1, <2>2 DEF Ordered
  <2>4. link[u] \in Task
    BY <2>3
  <2> QED
    BY <1>3, <2>1, <2>3, <2>4
<1>8. curr = NoTask => wpc = "visit" /\ \A q \in Task : ~Early(q)'
  BY <1>4 DEF Ordered
<1>9. ASSUME curr # NoTask, NEW q \in Task, Early(q)' PROVE r[q] >= r[curr]
  <2>1. rank[q] >= rank[curr] /\ q # t
    BY <1>4, <1>9 DEF Ordered
  <2>2. CASE curr = t
    BY <1>3, <2>1, <2>2
  <2>3. CASE curr # t
    <3>1. r[curr] = rank[curr] + 1 /\ rank[curr] \in Nat
      BY <1>3, <1>9, <2>3
    <3>2. r[q] = rank[q] + 1 /\ rank[q] \in Nat
      BY <1>3, <2>1
    <3> QED
      BY <2>1, <3>1, <3>2
  <2> QED
    BY <2>2, <2>3
<1>10. ASSUME NEW u, u = curr, Early(u)' PROVE Early(u) /\ Queued(u) /\ Queued(u)'
  BY <1>4, <1>10 DEF Early
<1>11. curr # NoTask /\ reused' => ~Early(curr)'
  <2> SUFFICES ASSUME NEW u, u = curr, curr # NoTask, reused', Early(u)' PROVE FALSE
    OBVIOUS
  <2> QED
    BY <1>10 DEF Ordered
<1>12. wpc = "next" /\ Early(curr)' => kpc' # "getline" /\ victim' = curr
  <2> SUFFICES ASSUME NEW u, u = curr, wpc = "next", Early(u)'
               PROVE  kpc' # "getline" /\ victim' = u
    OBVIOUS
  <2>1. kpc # "getline" /\ victim = u /\ Queued(u)'
    BY <1>10 DEF Ordered
  <2> QED
    BY <2>1
<1>13. UNCHANGED <<wpc, curr, link>>
  OBVIOUS
<1>14. Ordered(r)'
  BY ONLY <1>5, <1>6, <1>7, <1>8, <1>9, <1>11, <1>12, <1>13 DEF Ordered
<1> QED
  BY <1>3, <1>14

-----------------------------------------------------------------------------
(* What the sessions' steps mean for the console.                          *)

\* No step of a session brings a thread back, and a thread takes its own node
\* out.
LEMMA StepThreads ==
    ASSUME TypesInv, Step, \A t \in Task : tpc'[t] = "dead" => tpc[t] = "dead", NEW t \in Task
    PROVE  /\ tpc[t] \in MarkedPc => tpc'[t] = tpc[t]
           /\ tpc'[t] = "killed" => tpc[t] = "killed"
           /\ tpc'[t] = "failed" => tpc[t] \in {"failed", "popen", "run"}
           /\ tpc[t] \in {"popen", "run"} => tpc'[t] \in {"popen", "run", "remove", "failed"}
           /\ tpc[t] = "remove" => tpc'[t] = "remove" \/ TaskqRemove(t)
<1>1. Shape
  BY DEF TypesInv, Types
<1>2. ASSUME NEW c \in Client, Request(c)
      PROVE  tpc'[t] = tpc[t] \/ (tpc[t] = "none" /\ tpc'[t] \in {"mkfifo", "gave_up"})
  <2>1. CASE t = <<c, nreq[c] + 1>>
    <3>1. tpc'[t] \in {"mkfifo", "gave_up"} /\ nreq[c] \in Nat /\ ~ServerDead
      BY <1>2, <2>1, RequestIsNext
    <3>2. t[2] > nreq[t[1]]
      BY <2>1, <3>1
    <3>3. tpc[t] \in {"none", "dead"}
      BY <3>2 DEF TypesInv, Numbering
    <3> QED
      BY <3>1, <3>3 DEF ServerDead
  <2>2. CASE t # <<c, nreq[c] + 1>>
    BY <1>2, <2>2, RequestIsNext
  <2> QED
    BY <2>1, <2>2
<1>3. ASSUME NEW c \in Client, ClientOpen(c)
      PROVE  tpc'[t] = tpc[t] \/ (tpc[t] = "blocked" /\ tpc'[t] = "add")
  BY <1>3 DEF ClientOpen, Blocked
<1>4. ASSUME NEW c \in Client, GetResult(c) \/ Interrupt(c), ~ClientOpen(c) PROVE tpc' = tpc
  BY <1>4 DEF GetResult, ClientMkfifo, ClientOpenFails, ReadLine, ReadEOF, ClientClose,
     ClientUnlink, Interrupt, tvars
<1>5. ASSUME NEW u \in Task, ProcessRequest(u), u # t PROVE tpc'[t] = tpc[t]
  <2>1. ~WriteFails(u)
    <3> SUFFICES ASSUME WriteFails(u) PROVE FALSE
      OBVIOUS
    <3>1. tpc'[u] = "dead" /\ tpc[u] # "dead"
      BY DEF WriteFails
    <3> QED
      BY <3>1
  <2> QED
    BY <1>1, <1>5, <2>1 DEF ProcessRequest, ThreadMkfifo, ThreadOpen, ThreadOpenFails, TaskqAdd,
       Popen, WriteLine, Pclose, TaskqRemove, ThreadClose, ThreadUnlink, Shape, tvars
<1>6. ASSUME ProcessRequest(t)
      PROVE  \/ tpc'[t] = tpc[t]
             \/ tpc[t] = "mkfifo" /\ tpc'[t] = "open"
             \/ tpc[t] = "open" /\ tpc'[t] \in {"add", "blocked", "gave_up"}
             \/ tpc[t] = "add" /\ tpc'[t] = "popen"
             \/ tpc[t] = "popen" /\ tpc'[t] \in {"run", "failed"}
             \/ tpc[t] = "run" /\ tpc'[t] \in {"remove", "failed"}
             \/ tpc[t] = "remove" /\ tpc'[t] = "close" /\ TaskqRemove(t)
             \/ tpc[t] = "close" /\ tpc'[t] = "unlink"
             \/ tpc[t] = "unlink" /\ tpc'[t] = "exited"
  <2>1. CASE WriteFails(t)
    <3>1. tpc'[t] = "dead" /\ tpc[t] # "dead"
      BY <2>1 DEF WriteFails
    <3> QED
      BY <3>1
  <2>2. CASE ThreadMkfifo(t) \/ ThreadOpen(t) \/ ThreadOpenFails(t) \/ TaskqAdd(t)
    BY <1>1, <2>2 DEF ThreadMkfifo, ThreadOpen, ThreadOpenFails, TaskqAdd, Shape
  <2>3. CASE Popen(t)
    <3>1. PICK pc \in {"run", "failed"} : tpc' = [tpc EXCEPT ![t] = pc]
      BY <2>3 DEF Popen
    <3> QED
      BY <1>1, <2>3, <3>1 DEF Popen, Shape
  <2>4. CASE Pclose(t)
    <3>1. PICK pc \in {"remove", "failed"} : tpc' = [tpc EXCEPT ![t] = pc]
      BY <2>4 DEF Pclose
    <3> QED
      BY <1>1, <2>4, <3>1 DEF Pclose, Shape
  <2>5. CASE WriteLine(t) \/ ThreadClose(t) \/ ThreadUnlink(t)
    BY <1>1, <2>5 DEF WriteLine, ThreadClose, ThreadUnlink, Shape
  <2>6. CASE TaskqRemove(t)
    <3>1. tpc[t] = "remove" /\ tpc' = [tpc EXCEPT ![t] = "close"]
      BY <2>6 DEF TaskqRemove
    <3> QED
      BY <1>1, <2>6, <3>1 DEF Shape
  <2> QED
    BY <1>6, <2>1, <2>2, <2>3, <2>4, <2>5, <2>6 DEF ProcessRequest
<1> QED
  BY <1>2, <1>3, <1>4, <1>5, <1>6 DEF Step, GetResult, MarkedPc

\* Only the two calls of the request threads change the queue.
LEMMA StepQueue ==
    ASSUME Step
    PROVE  \/ queue' = queue
           \/ \E t \in Task : TaskqAdd(t)
           \/ \E t \in Task : TaskqRemove(t)
  BY DEF Step, Request, NewRequest, GetResult, ProcessRequest, ClientMkfifo, ClientOpen,
     ClientOpenFails, ReadLine, ReadEOF, ClientClose, ClientUnlink, Interrupt, ThreadMkfifo,
     ThreadOpen, ThreadOpenFails, Popen, WriteLine, WriteFails, Pclose, ThreadClose, ThreadUnlink

\* A client stops reading at the end of the FIFO only, or when it is misled
\* or interrupted.
LEMMA StepClient ==
    ASSUME TypesInv, Step, NEW c \in Client
    PROVE  /\ cpc[c] = "gone" => cpc'[c] = "gone"
           /\ cpc[c] = "read" => \/ cpc'[c] \in {"read", "gone"} \/ ReadEOF(c)
                                \/ <<c, nreq[c]>> \in misled'
           /\ misled \subseteq misled'
           /\ nreq'[c] = nreq[c] \/ cpc'[c] = "mkfifo"
<1>1. Shape
  BY DEF TypesInv, Types
<1>2. ASSUME NEW d \in Client, Request(d)
      PROVE  IF d = c THEN cpc[c] = "prompt" /\ cpc'[c] = "mkfifo"
             ELSE cpc'[c] = cpc[c] /\ nreq'[c] = nreq[c]
  BY <1>1, <1>2 DEF Request, NewRequest, Shape
<1>3. ASSUME NEW d \in Client, GetResult(d) \/ Interrupt(d), d # c
      PROVE  cpc'[c] = cpc[c] /\ nreq'[c] = nreq[c]
  <2>1. Untouched(c)
    BY <1>3, ClientStepIsLocal
  <2> QED
    BY <2>1 DEF Untouched
<1>4. ASSUME GetResult(c) \/ Interrupt(c)
      PROVE  /\ nreq'[c] = nreq[c]
             /\ cpc[c] # "gone"
             /\ cpc[c] = "read" => \/ cpc'[c] \in {"read", "gone"} \/ ReadEOF(c)
                                  \/ <<c, nreq[c]>> \in misled'
  BY <1>1, <1>4 DEF GetResult, ClientMkfifo, ClientOpen, ClientOpenFails, ReadLine, ReadEOF,
     ClientClose, ClientUnlink, Interrupt, Shape
<1>5. ASSUME NEW t \in Task, ProcessRequest(t)
      PROVE  nreq'[c] = nreq[c] /\ (cpc'[c] = cpc[c] \/ (cpc[c] = "blocked" /\ cpc'[c] = "read"))
  <2>1. t[1] \in Client /\ Owner(t) = t[1]
    BY TaskIsPair
  <2> QED
    BY <1>1, <1>5, <2>1 DEF ProcessRequest, ThreadMkfifo, ThreadOpen, ThreadOpenFails, TaskqAdd,
       Popen, WriteLine, WriteFails, Pclose, TaskqRemove, ThreadClose, ThreadUnlink, Shape, cvars
<1>6. misled \subseteq misled'
  BY DEF Step, Request, NewRequest, GetResult, ClientMkfifo, ClientOpen, ClientOpenFails, ReadLine,
     ReadEOF, ClientClose, ClientUnlink, Interrupt, ProcessRequest, ThreadMkfifo, ThreadOpen,
     ThreadOpenFails, TaskqAdd, Popen, WriteLine, WriteFails, Pclose, TaskqRemove, ThreadClose,
     ThreadUnlink, cvars
<1> QED
  BY <1>2, <1>3, <1>4, <1>5, <1>6 DEF Step

\* Sessions put no markers into a FIFO.
LEMMA StepMarks ==
    ASSUME TypesInv, Step, NEW c \in Client, Marked(c)'
    PROVE  Marked(c)
<1>1. Shape /\ Lists
  BY DEF TypesInv, Types
<1>2. PICK i \in 1..Len(pipe'[c]) : IsMarker(pipe'[c][i])
  BY DEF Marked
<1>3. pipe[c] \in Seq(Item)
  BY <1>1 DEF Lists
<1>4. ASSUME NEW d \in Client, ReadLine(d) PROVE Marked(c)
  <2>1. CASE d # c
    <3>1. pipe'[c] = pipe[c]
      BY <1>1, <1>4, <2>1 DEF ReadLine, Lists
    <3> QED
      BY <1>2, <3>1 DEF Marked
  <2>2. CASE d = c
    <3>1. pipe[c] # <<>> /\ pipe'[c] = Tail(pipe[c])
      BY <1>1, <1>4, <2>2 DEF ReadLine, Lists
    <3>2. Len(pipe[c]) \in Nat /\ i + 1 \in 1..Len(pipe[c]) /\ pipe'[c][i] = pipe[c][i + 1]
      BY <1>2, <1>3, <3>1, HeadTailProperties, LenProperties
    <3> QED
      BY <1>2, <3>2 DEF Marked
  <2> QED
    BY <2>1, <2>2
<1>5. ASSUME NEW t \in Task, WriteLine(t) PROVE Marked(c)
  <2> DEFINE item == <<t[2], wrote[t] + 1>>
  <2>1. t[1] \in Client /\ Owner(t) = t[1] /\ t[2] > 0
    BY TaskIsPair, BoundAssumption
  <2>2. CASE t[1] # c
    <3>1. pipe'[c] = pipe[c]
      BY <1>1, <1>5, <2>1, <2>2 DEF WriteLine, Lists
    <3> QED
      BY <1>2, <3>1 DEF Marked
  <2>3. CASE t[1] = c
    <3>1. pipe'[c] = Append(pipe[c], item)
      BY <1>1, <1>5, <2>1, <2>3 DEF WriteLine, Lists
    <3>2. ~IsMarker(item)
      BY <2>1 DEF IsMarker, INTERRUPT, SHUTDOWN
    <3>3. item \in Item
      <4>1. wrote[t] + 1 \in 1..MaxLines
        BY <1>1, <1>5, BoundAssumption DEF WriteLine, Shape
      <4> QED
        BY <4>1 DEF Item, Line
    <3> HIDE DEF item
    <3>4. /\ Len(pipe'[c]) = Len(pipe[c]) + 1 /\ Len(pipe[c]) \in Nat
          /\ pipe'[c][Len(pipe[c]) + 1] = item
          /\ \A j \in 1..Len(pipe[c]) : pipe'[c][j] = pipe[c][j]
      BY <1>3, <3>1, <3>3, AppendProperties, LenProperties
    <3>5. i \in 1..Len(pipe[c]) /\ IsMarker(pipe[c][i])
      BY <1>2, <3>2, <3>4
    <3> QED
      BY <3>5 DEF Marked
  <2> QED
    BY <2>2, <2>3
<1>6. ASSUME NEW d \in Client, ClientOpen(d) \/ ClientUnlink(d) \/ Interrupt(d) PROVE Marked(c)
  <2>1. pipe'[c] = pipe[c] \/ pipe'[c] = <<>>
    BY <1>1, <1>6 DEF ClientOpen, ClientUnlink, Interrupt, Lists
  <2> QED
    BY <1>2, <2>1 DEF Marked
<1>7. CASE pipe' = pipe
  BY <1>2, <1>7 DEF Marked
<1> QED
  BY <1>4, <1>5, <1>6, <1>7 DEF Step, Request, NewRequest, GetResult, ProcessRequest, ClientMkfifo,
     ClientOpenFails, ReadEOF, ClientClose, ThreadMkfifo, ThreadOpen,
     ThreadOpenFails, TaskqAdd, Popen, WriteFails, Pclose, TaskqRemove, ThreadClose, ThreadUnlink

-----------------------------------------------------------------------------
(* Steps beside the console.                                               *)

\* What a step of somebody else does to the walk.
Passing ==
    /\ UNCHANGED <<mode, wpc, curr>>
    /\ link' = [t \in Task |-> IF mode = "walk" /\ Queued(t) /\ ~Queued(t)' THEN Next1(t) ELSE link[t]]
    /\ late' = late \cup {c \in Client : /\ mode = "walk"
                                      /\ \E t \in Task : Owner(t) = c /\ ~Queued(t) /\ Queued(t)'}
    /\ reused' => reused \/ (curr # NoTask /\ ~Queued(curr))

\* The steps beside the walk pass it.
LEMMA MeanwhilePasses == Meanwhile /\ mode' = mode => Passing
  BY DEF Meanwhile, Passing

\* The walk goes on when a node is freed, or added.
LEMMA WalkingKeeps ==
    ASSUME queue \in Seq(Task), link \in [Task -> Task \cup {NoTask}], curr \in Task \cup {NoTask},
           Nodes, Walking, Passing,
           \/ queue' = queue
           \/ \E k \in 1..Len(queue) : queue' = RemoveAt(queue, k)
           \/ \E t \in Task : ~Queued(t) /\ queue' = Cons(t, queue),
           \A t : kpc # "getline" /\ t = victim /\ Queued(t)' => kpc' # "getline" /\ victim' = t
    PROVE  Walking'
<1>1. ASSUME mode \in {"serve", "test"}
      PROVE  late' = {} /\ ~reused' /\ curr' = NoTask /\ link' = [t \in Task |-> NoTask]
  <2>1. late = {} /\ ~reused /\ curr = NoTask /\ link = [t \in Task |-> NoTask]
    BY <1>1 DEF Walking
  <2>2. mode # "walk"
    BY <1>1
  <2>3. link' = [t \in Task |-> link[t]]
    BY <2>2, Zenon DEF Passing
  <2> QED
    BY <2>1, <2>2, <2>3 DEF Passing
<1>2. ASSUME mode = "walk" PROVE \E rank \in [Task -> Nat] : Ordered(rank)'
  <2>1. late \subseteq late'
    BY DEF Passing
  <2>2. PICK rank \in [Task -> Nat] : Ordered(rank)
    BY <1>2 DEF Walking
  <2>3. \A i, j \in 1..Len(queue) : queue[i] = queue[j] => i = j
    BY DEF Nodes
  <2>4. CASE queue' = queue \/ \E k \in 1..Len(queue) : queue' = RemoveAt(queue, k)
    <3>1. Ordered(rank)'
      BY <1>2, <2>1, <2>2, <2>3, <2>4, WalkBeside DEF Passing
    <3> QED
      BY <3>1
  <2>5. ASSUME NEW t \in Task, ~Queued(t), queue' = Cons(t, queue)
        PROVE  \E r \in [Task -> Nat] : Ordered(r)'
    <3>1. \A u : Queued(u)' <=> Queued(u) \/ u = t
      BY <2>3, <2>5, Adding
    <3>2. Owner(t) \in late'
      <4>1. Owner(t) \in Client
        BY TaskIsPair
      <4> QED
        BY <1>2, <2>5, <3>1, <4>1 DEF Passing
    <3>3. link' = link
      <4>1. link' = [u \in Task |-> link[u]]
        BY <3>1, Zenon DEF Passing
      <4> QED
        BY <4>1
    <3> QED
      BY <1>2, <2>1, <2>2, <2>3, <2>5, <3>2, <3>3, WalkJoined DEF Passing
  <2> QED
    BY <2>4, <2>5
<1>3. mode' = mode
  BY DEF Passing
<1> QED
  BY <1>1, <1>2, <1>3 DEF Walking

\* The sessions' own steps, except for the write that ends the server.
Beside ==
    /\ Step /\ Passing
    /\ \A t \in Task : tpc'[t] = "dead" => tpc[t] = "dead"
    /\ UNCHANGED <<kpc, victim>>
    /\ overtaken => overtaken'
    /\ \A t \in Task : TaskqRemove(t) /\ t = victim => overtaken'

Settled == Control /\ Nodes /\ Cancelling /\ Walking /\ ExitCancelsAll

\* A thread that adds its node has none yet; one that takes its node out has it.
LEMMA QueueOfStep ==
    ASSUME SessionInv, Control, Nodes, Step,
           \A t \in Task : tpc'[t] = "dead" => tpc[t] = "dead"
    PROVE  \/ queue' = queue
           \/ \E t \in Task : /\ TaskqAdd(t) /\ ~Queued(t) /\ queue' = Cons(t, queue)
                              /\ mode # "exited" /\ tpc'[t] = "popen"
                              /\ \A u \in Task : Queued(u)' <=> Queued(u) \/ u = t
           \/ \E t \in Task : /\ TaskqRemove(t) /\ mode # "exited"
                              /\ \E k \in 1..Len(queue) : queue[k] = t /\ queue' = RemoveAt(queue, k)
                              /\ \A u \in Task : Queued(u)' <=> Queued(u) /\ u # t
<1>1. queue \in Seq(Task) /\ Shape
  BY DEF SessionInv, TypesInv, Types, Lists
<1>2. \A i, j \in 1..Len(queue) : queue[i] = queue[j] => i = j
  BY DEF Nodes
<1>3. ASSUME NEW t \in Task, TaskqAdd(t), queue' # queue
      PROVE  /\ ~Queued(t) /\ queue' = Cons(t, queue) /\ mode # "exited" /\ tpc'[t] = "popen"
             /\ \A u \in Task : Queued(u)' <=> Queued(u) \/ u = t
  <2>1. tpc[t] = "add" /\ queue' = Cons(t, queue) /\ tpc'[t] = "popen"
    BY <1>1, <1>3, QueueCalls DEF TaskqAdd, Shape
  <2>2. mode # "exited"
    BY <2>1 DEF Control
  <2>3. ~Queued(t)
    BY <2>1, <2>2 DEF Nodes
  <2> QED
    BY <1>1, <1>2, <2>1, <2>2, <2>3, Adding
<1>4. ASSUME NEW t \in Task, TaskqRemove(t), queue' # queue
      PROVE  /\ mode # "exited"
             /\ \E k \in 1..Len(queue) : queue[k] = t /\ queue' = RemoveAt(queue, k)
             /\ \A u \in Task : Queued(u)' <=> Queued(u) /\ u # t
  <2>1. tpc[t] = "remove"
    BY <1>4 DEF TaskqRemove
  <2>2. PICK k \in 1..Len(queue) : queue[k] = t /\ queue' = RemoveAt(queue, k)
    BY <1>4, QueueCalls DEF TaskqRemove
  <2>3. mode # "exited"
    BY <2>1 DEF Control
  <2>4. \A u : Queued(u)' <=> Queued(u) /\ u # queue[k]
    BY <1>1, <1>2, <2>2, Removing
  <2> QED
    BY <2>2, <2>3, <2>4
<1> QED
  BY <1>3, <1>4, StepQueue

\* Beside the console, it stands where it stood and its victim stays where it
\* is, unless the victim's thread comes to its end.
LEMMA BesideControl ==
    ASSUME SessionInv, ExitTypes, Control, Nodes, Beside
    PROVE  Control'
<1>1. TypesInv /\ Step
  BY DEF SessionInv, Beside
<1>2. UNCHANGED <<mode, wpc, curr, kpc, victim>>
  BY DEF Beside, Passing
<1>3. \A t \in Task : /\ tpc[t] \in MarkedPc => tpc'[t] = tpc[t]
                      /\ tpc'[t] = "dead" => tpc[t] = "dead"
  BY <1>1, StepThreads DEF Beside
<1>4. mode = "exited" => \A t \in Task : tpc'[t] = "dead"
  BY <1>3 DEF Control, MarkedPc
<1>5. ServerDead' => mode = "exited"
  BY <1>3 DEF Control, ServerDead
<1>6. kpc # "getline" => victim \in Task /\ (Queued(victim)' \/ overtaken')
  <2>1. kpc # "getline" => victim \in Task /\ (Queued(victim) \/ overtaken)
    BY DEF Control
  <2>2. ASSUME NEW t \in Task, t = victim, Queued(t) \/ overtaken PROVE Queued(t)' \/ overtaken'
    <3>1. CASE overtaken \/ TaskqRemove(t)
      BY <2>2, <3>1 DEF Beside
    <3>2. CASE Queued(t) /\ ~TaskqRemove(t)
      <4>1. ASSUME queue' = queue PROVE Queued(t)'
        BY <3>2, <4>1 DEF Queued
      <4>2. ASSUME NEW u \in Task, \A w \in Task : Queued(w)' <=> Queued(w) \/ w = u
            PROVE  Queued(t)'
        BY <3>2, <4>2
      <4>3. ASSUME NEW u \in Task, TaskqRemove(u), \A w \in Task : Queued(w)' <=> Queued(w) /\ w # u
            PROVE  Queued(t)'
        BY <3>2, <4>3
      <4> QED
        BY <1>1, <4>1, <4>2, <4>3, QueueOfStep DEF Beside
    <3> QED
      BY <2>2, <3>1, <3>2
  <2>3. \A t \in Task : t = victim /\ Queued(t)' => Queued(victim)'
    BY <1>2
  <2> QED
    BY <2>1, <2>2, <2>3
<1>7. \A t \in Task : /\ Dead(t) => Dead(t)'
                      /\ tpc[t] = "exited" => tpc'[t] = "exited"
  BY <1>3 DEF Dead, MarkedPc
<1>8. kpc \in {"write", "close"} => Dead(victim)'
  BY <1>2, <1>7 DEF Control, Dead
<1>9. kpc \in {"unlink", "remove"} => tpc'[victim] = "exited"
  BY <1>7 DEF Control
<1> QED
  BY <1>2, <1>4, <1>5, <1>6, <1>8, <1>9 DEF Control

\* Threads add and take out nodes of their own.
LEMMA BesideNodes ==
    ASSUME SessionInv, ExitTypes, Control, Nodes, Beside
    PROVE  Nodes'
<1>1. TypesInv /\ Step /\ queue \in Seq(Task)
  BY DEF SessionInv, TypesInv, Types, Lists, Beside
<1>2. UNCHANGED <<mode, kpc, victim>>
  BY DEF Beside, Passing
<1>3. \A t \in Task : /\ tpc[t] \in MarkedPc => tpc'[t] = tpc[t]
                      /\ tpc[t] \in {"popen", "run"} => tpc'[t] \in {"popen", "run", "remove", "failed"}
                      /\ tpc[t] = "remove" => tpc'[t] = "remove" \/ TaskqRemove(t)
  BY <1>1, StepThreads DEF Beside
<1>4. \A i, j \in 1..Len(queue) : queue[i] = queue[j] => i = j
  BY DEF Nodes
<1>5. \A i, j \in 1..Len(queue') : queue'[i] = queue'[j] => i = j
  <2>1. CASE queue' = queue
    BY <1>4, <2>1
  <2>2. ASSUME NEW t \in Task, ~Queued(t), queue' = Cons(t, queue)
        PROVE  \A i, j \in 1..Len(queue') : queue'[i] = queue'[j] => i = j
    BY <1>1, <1>4, <2>2, Adding
  <2>3. ASSUME NEW k \in 1..Len(queue), queue' = RemoveAt(queue, k)
        PROVE  \A i, j \in 1..Len(queue') : queue'[i] = queue'[j] => i = j
    BY <1>1, <1>4, <2>3, Removing
  <2> QED
    BY <2>1, <2>2, <2>3, QueueOfStep DEF Beside
<1>6. ASSUME mode # "exited", NEW t \in Task, Queued(t)'
      PROVE  \/ tpc'[t] \in {"popen", "run", "remove", "failed", "killed"}
             \/ tpc'[t] = "exited" /\ kpc \in {"unlink", "remove"} /\ victim = t
  <2>1. ASSUME Queued(t), ~TaskqRemove(t)
        PROVE  \/ tpc'[t] \in {"popen", "run", "remove", "failed", "killed"}
               \/ tpc'[t] = "exited" /\ kpc \in {"unlink", "remove"} /\ victim = t
    BY <1>3, <1>6, <2>1 DEF Nodes, MarkedPc
  <2>2. CASE queue' = queue
    <3>1. Queued(t)
      BY <1>6, <2>2 DEF Queued
    <3>2. ~TaskqRemove(t)
      <4> SUFFICES ASSUME TaskqRemove(t) PROVE FALSE
        OBVIOUS
      <4>1. PICK k \in 1..Len(queue) : queue' = RemoveAt(queue, k)
        BY <3>1, QueueCalls DEF TaskqRemove
      <4>2. Len(queue') = Len(queue) - 1 /\ Len(queue) \in Nat
        BY <1>1, <4>1, RemoveAtProperties, LenProperties
      <4> QED
        BY <2>2, <4>2
    <3> QED
      BY <2>1, <3>1, <3>2
  <2>3. ASSUME NEW u \in Task, TaskqAdd(u), tpc'[u] = "popen",
               \A v \in Task : Queued(v)' <=> Queued(v) \/ v = u
        PROVE  \/ tpc'[t] \in {"popen", "run", "remove", "failed", "killed"}
               \/ tpc'[t] = "exited" /\ kpc \in {"unlink", "remove"} /\ victim = t
    <3>1. CASE t = u
      BY <2>3, <3>1
    <3>2. CASE t # u
      <4>1. Queued(t)
        BY <1>6, <2>3, <3>2
      <4>2. tpc'[t] = tpc[t]
        BY <1>1, <2>3, <3>2 DEF TaskqAdd, TypesInv, Types, Shape
      <4> QED
        BY <1>6, <4>1, <4>2 DEF Nodes
    <3> QED
      BY <3>1, <3>2
  <2>4. ASSUME NEW u \in Task, TaskqRemove(u), \A v \in Task : Queued(v)' <=> Queued(v) /\ v # u
        PROVE  \/ tpc'[t] \in {"popen", "run", "remove", "failed", "killed"}
               \/ tpc'[t] = "exited" /\ kpc \in {"unlink", "remove"} /\ victim = t
    <3>1. Queued(t) /\ t # u
      BY <1>6, <2>4
    <3>2. tpc'[t] = tpc[t]
      BY <1>1, <2>4, <3>1 DEF TaskqRemove, TypesInv, Types, Shape
    <3> QED
      BY <1>6, <3>1, <3>2 DEF Nodes
  <2> QED
    BY <2>2, <2>3, <2>4, QueueOfStep DEF Beside
<1> QED
  BY <1>2, <1>5, <1>6 DEF Nodes

\* Threads that have died with their end open keep their client reading.
LEMMA BesideCancelling ==
    ASSUME SessionInv, SessionInv', ExitTypes, Control, Cancelling, Beside
    PROVE  Cancelling'
<1>1. TypesInv /\ Step
  BY DEF SessionInv, Beside
<1>2. UNCHANGED <<mode, kpc, victim>>
  BY DEF Beside, Passing
<1> SUFFICES ASSUME ~stale', mode # "exited", NEW t \in Task, NEW c \in Client, c = t[1],
                    cpc'[c] # "gone"
             PROVE  /\ tpc'[t] \in {"killed", "failed"} =>
                         Closing(t) \/ t \in misled' \/ (t = <<c, nreq'[c]>> /\ cpc'[c] = "read")
                    /\ t = <<c, nreq'[c]>> /\ Marked(c)' => tpc'[t] = "exited" \/ Closing(t)
  BY <1>2, TaskIsPair DEF Cancelling, Ended, Closing, Latest
<1>3. ~stale
  BY <1>1, StaleStays
<1>4. /\ cpc[c] # "gone"
      /\ cpc[c] = "read" => \/ cpc'[c] \in {"read", "gone"} \/ ReadEOF(c)
                           \/ <<c, nreq[c]>> \in misled'
      /\ misled \subseteq misled'
      /\ nreq'[c] = nreq[c] \/ cpc'[c] = "mkfifo"
  BY <1>1, StepClient
<1>5. /\ tpc[t] \in MarkedPc => tpc'[t] = tpc[t]
      /\ tpc'[t] = "killed" => tpc[t] = "killed"
      /\ tpc'[t] = "failed" => tpc[t] \in {"failed", "popen", "run"}
  BY <1>1, StepThreads DEF Beside
<1>6. ~ServerDead /\ Owner(t) = c
  BY TaskIsPair DEF Control
<1>7. OlderAreOver(c) /\ InStep(c)
  BY <1>3, <1>4, <1>6 DEF SessionInv, Meeting
<1>8. ASSUME tpc'[t] \in {"killed", "failed"}, ~Closing(t), t \notin misled'
      PROVE  t = <<c, nreq'[c]>> /\ cpc'[c] = "read"
  <2>1. tpc[t] \in {"killed", "failed", "popen", "run"}
    BY <1>5, <1>8
  <2>2. t = Latest(c) /\ cpc[c] = "read"
    <3>1. CASE Ended(t)
      BY <1>3, <1>4, <1>8, <3>1 DEF Cancelling
    <3>2. CASE ~Ended(t)
      <4>1. tpc[t] \in {"popen", "run"}
        BY <2>1, <3>2 DEF Ended
      <4>2. t = Latest(c) /\ nreq[c] > 0
        <5>1. t \notin misled /\ tpc[t] \notin Over \cup {"none"}
          BY <1>4, <1>8, <4>1 DEF Over
        <5>2. t = Latest(c) /\ nreq[c] \in 1..MaxRequests
          BY <1>1, <1>6, <1>7, <5>1, WorkingIsLatest
        <5> QED
          BY <5>2, BoundAssumption
      <4>3. cpc[c] \in ClientPc /\ cpc[c] # "gone" /\ InStep(c)
        BY <1>1, <1>4, <1>7 DEF TypesInv, Types, Shape
      <4>4. t \notin misled
        BY <1>4, <1>8
      <4>5. cpc[c] = "read"
        BY ONLY <4>1, <4>2, <4>3, <4>4 DEF InStep, Latest, Done, AtWork, ClientPc, Over
      <4> QED
        BY <4>2, <4>5
    <3> QED
      BY <3>1, <3>2
  <2>3. tfd[t] = cfd[c]
    BY <1>7, <2>1, <2>2 DEF InStep
  <2>4. ~ReadEOF(c)
    <3>1. t \in Writers(c, cfd[c])
      BY <1>6, <2>1, <2>3 DEF Writers
    <3> QED
      BY <3>1 DEF ReadEOF
  <2>5. cpc'[c] = "read" /\ nreq'[c] = nreq[c]
    BY <1>4, <1>8, <2>2, <2>4 DEF Latest
  <2> QED
    BY <2>2, <2>5 DEF Latest
<1>9. ASSUME t = <<c, nreq'[c]>>, Marked(c)', ~Closing(t)
      PROVE  tpc'[t] = "exited"
  <2>1. LinesInOrder(c)'
    BY <1>3 DEF SessionInv, Meeting
  <2>2. cpc'[c] \in {"read", "close", "unlink"}
    BY <1>9, <2>1 DEF LinesInOrder, Marked
  <2>3. t = Latest(c)
    BY <1>4, <1>9, <2>2 DEF Latest
  <2>4. Marked(c)
    BY <1>1, <1>9, StepMarks
  <2>5. tpc[t] = "exited"
    BY <1>3, <1>4, <1>9, <2>3, <2>4 DEF Cancelling
  <2> QED
    BY <1>5, <2>5 DEF MarkedPc
<1> QED
  BY <1>8, <1>9

\* What the console relies on outlasts every step beside it.
LEMMA BesideSettled ==
    ASSUME SessionInv, SessionInv', ExitTypes, Settled, Beside
    PROVE  Settled'
<1>1. Control' /\ Nodes' /\ Cancelling'
  BY BesideControl, BesideNodes, BesideCancelling DEF Settled
<1>2. Walking'
  <2>1. /\ queue \in Seq(Task) /\ link \in [Task -> Task \cup {NoTask}]
        /\ curr \in Task \cup {NoTask}
    BY DEF SessionInv, TypesInv, Types, Lists, ExitTypes
  <2>2. \/ queue' = queue
        \/ \E k \in 1..Len(queue) : queue' = RemoveAt(queue, k)
        \/ \E t \in Task : ~Queued(t) /\ queue' = Cons(t, queue)
    BY QueueOfStep DEF Settled, Beside
  <2> QED
    BY <2>1, <2>2, WalkingKeeps DEF Settled, Beside
<1>3. ExitCancelsAll'
  <2> SUFFICES ASSUME mode = "exited" PROVE \A i \in 1..Len(queue') : Owner(queue'[i]) \in late'
    BY DEF ExitCancelsAll, Beside, Passing, Owner
  <2>1. \A i \in 1..Len(queue) : Owner(queue[i]) \in late
    BY DEF Settled, ExitCancelsAll
  <2>2. queue' = queue
    BY QueueOfStep DEF Settled, Beside
  <2> QED
    BY <2>1, <2>2 DEF Beside, Passing
<1> QED
  BY <1>1, <1>2, <1>3 DEF Settled

-----------------------------------------------------------------------------
(* The steps of clients and threads that the console has a part in.        *)

\* Where the console stands, the server has not ended.
LEMMA ConsoleAtWork ==
    ASSUME ExitTypes, Control, kpc # "getline" \/ mode \in {"serve", "test", "walk"}
    PROVE  mode # "exited" /\ ~ServerDead
  BY DEF ExitTypes, Control

\* A client that meets a marker met its thread's, or the thread's it has been
\* sent for.
LEMMA ReadMarkerSettled ==
    ASSUME SessionInv, SessionInv', ExitTypes, Settled, NEW c \in Client, ReadMarker(c), Passing
    PROVE  Settled'
<1>1. TypesInv /\ Shape /\ Lists
  BY DEF SessionInv, TypesInv, Types
<1>2. /\ cpc[c] = "read" /\ cpc' = [cpc EXCEPT ![c] = "close"]
      /\ pipe[c] # <<>> /\ IsMarker(Head(pipe[c])) /\ pipe' = [pipe EXCEPT ![c] = Tail(@)]
      /\ UNCHANGED <<nreq, misled, tpc, queue, stale, kpc, victim, overtaken, mode, wpc, curr>>
  BY DEF ReadMarker, tvars, Passing
<1>3. Marked(c)
  <2>1. pipe[c] \in Seq(Item)
    BY <1>1 DEF Lists
  <2>2. Head(pipe[c]) = pipe[c][1] /\ 1 \in 1..Len(pipe[c])
    BY <1>2, <2>1, HeadTailProperties, LenProperties
  <2> QED
    BY <1>2, <2>2 DEF Marked
<1>4. Control'
  BY <1>2 DEF Settled, Control, Queued, Dead, ServerDead
<1>5. Nodes'
  BY <1>2 DEF Settled, Nodes, Queued
<1>6. Cancelling'
  <2> SUFFICES ASSUME ~stale, mode # "exited", NEW t \in Task, NEW d \in Client, d = t[1],
                      cpc'[d] # "gone"
               PROVE  /\ Ended(t) => Closing(t) \/ t \in misled \/ (t = Latest(d) /\ cpc'[d] = "read")
                      /\ t = Latest(d) /\ Marked(d)' => tpc[t] = "exited" \/ Closing(t)
    BY <1>2, TaskIsPair DEF Cancelling, Ended, Closing, Latest
  <2>1. cpc[d] # "gone"
    BY <1>1, <1>2 DEF Shape
  <2>2. /\ Ended(t) => Closing(t) \/ t \in misled \/ (t = Latest(d) /\ cpc[d] = "read")
        /\ t = Latest(d) /\ Marked(d) => tpc[t] = "exited" \/ Closing(t)
    BY <2>1 DEF Settled, Cancelling
  <2>3. CASE d # c
    <3>1. cpc'[d] = cpc[d] /\ pipe'[d] = pipe[d]
      BY <1>1, <1>2, <2>3 DEF Shape, Lists
    <3> QED
      BY <2>2, <3>1 DEF Marked
  <2>4. CASE d = c
    <3>1. ~Marked(d)'
      <4>1. LinesInOrder(d)'
        BY <1>2 DEF SessionInv, Meeting
      <4>2. cpc'[d] # "read"
        BY <1>1, <1>2, <2>4 DEF Shape
      <4>3. Latest(c) \notin misled
        <5>1. Meeting(c) /\ ~ServerDead
          BY <2>1 DEF SessionInv, Settled, Control
        <5> QED
          BY <1>2, <5>1 DEF Meeting, InStep
      <4>4. Latest(c)' = Latest(c) /\ misled' = misled
        BY <1>2 DEF Latest
      <4> QED
        BY <2>4, <4>1, <4>2, <4>3, <4>4 DEF LinesInOrder, Marked
    <3>2. Ended(t) => Closing(t) \/ t \in misled
      BY <1>3, <2>2, <2>4 DEF Ended
    <3> QED
      BY <3>1, <3>2
  <2> QED
    BY <2>3, <2>4
<1>7. Walking'
  BY <1>1, <1>2, WalkingKeeps DEF Settled, Lists, ExitTypes
<1>8. ExitCancelsAll'
  BY <1>2 DEF Settled, ExitCancelsAll, Passing
<1> QED
  BY <1>4, <1>5, <1>6, <1>7, <1>8 DEF Settled

\* A thread that dies of its cancellation leaves a client that still reads.
LEMMA DieSettled ==
    ASSUME SessionInv, ExitTypes, Settled, NEW v \in Task, Die(v), Passing
    PROVE  Settled'
<1>1. TypesInv /\ Shape /\ Lists
  BY DEF SessionInv, TypesInv, Types
<1>2. /\ tpc[v] \in {"run", "close"} /\ tpc' = [tpc EXCEPT ![v] = "killed"]
      /\ UNCHANGED <<cpc, nreq, misled, pipe, queue, stale, kpc, victim, overtaken, mode, wpc, curr>>
  BY DEF Die, cvars, kvars, Passing
<1>3. tpc'[v] = "killed" /\ \A t \in Task : t # v => tpc'[t] = tpc[t]
  BY <1>1, <1>2 DEF Shape
<1>4. mode # "exited" /\ ~ServerDead
  BY <1>2 DEF Settled, Control
<1>5. kpc \in {"write", "close", "unlink", "remove"} => victim # v /\ victim \in Task
  BY <1>2 DEF Settled, Control, Dead
<1>6. Control'
  <2>1. ~ServerDead'
    BY <1>3, <1>4 DEF ServerDead
  <2>2. kpc \in {"write", "close"} => Dead(victim)'
    BY <1>2, <1>3, <1>5 DEF Settled, Control, Dead
  <2> QED
    BY <1>2, <1>3, <1>4, <1>5, <2>1, <2>2 DEF Settled, Control, Queued
<1>7. Nodes'
  BY <1>2, <1>3, <1>4 DEF Settled, Nodes, Queued
<1>8. Cancelling'
  <2> SUFFICES ASSUME ~stale, NEW t \in Task, NEW c \in Client, c = t[1], cpc[c] # "gone"
               PROVE  /\ tpc'[t] \in {"killed", "failed"} =>
                            Closing(t) \/ t \in misled \/ (t = Latest(c) /\ cpc[c] = "read")
                      /\ t = Latest(c) /\ Marked(c) => tpc'[t] = "exited" \/ Closing(t)
    BY <1>2, TaskIsPair DEF Cancelling, Ended, Closing, Latest, Marked
  <2>1. /\ Ended(t) => Closing(t) \/ t \in misled \/ (t = Latest(c) /\ cpc[c] = "read")
        /\ t = Latest(c) /\ Marked(c) => tpc[t] = "exited" \/ Closing(t)
    BY <1>4 DEF Settled, Cancelling
  <2>2. CASE t # v
    BY <1>3, <2>1, <2>2 DEF Ended
  <2>3. CASE t = v
    <3>1. OlderAreOver(c) /\ InStep(c)
      BY <1>4 DEF SessionInv, Meeting
    <3>2. ASSUME t \notin misled PROVE t = Latest(c) /\ nreq[c] > 0
      <4>1. t = Latest(c) /\ nreq[c] \in 1..MaxRequests
        BY <1>1, <1>2, <1>4, <2>3, <3>1, <3>2, WorkingIsLatest DEF Over
      <4> QED
        BY <4>1, BoundAssumption
    <3>3. cpc[c] \in ClientPc /\ cpc[c] # "gone" /\ tpc[t] \in {"run", "close"}
      BY <1>1, <1>2, <2>3 DEF Shape
    <3>4. ASSUME t \notin misled PROVE cpc[c] = "read"
      BY ONLY <3>1, <3>2, <3>3, <3>4 DEF InStep, Latest, Done, AtWork, ClientPc, Over
    <3>5. t = Latest(c) => ~Marked(c)
      BY <1>5, <2>1, <2>3, <3>3 DEF Closing
    <3> QED
      BY <3>2, <3>4, <3>5
  <2> QED
    BY <2>2, <2>3
<1>9. Walking'
  BY <1>1, <1>2, WalkingKeeps DEF Settled, Lists, ExitTypes
<1>10. ExitCancelsAll'
  BY <1>2, <1>4 DEF ExitCancelsAll
<1> QED
  BY <1>6, <1>7, <1>8, <1>9, <1>10 DEF Settled

-----------------------------------------------------------------------------
(* cancelClient.                                                           *)

\* The thread is cancelled and joined.
LEMMA JoinSettled ==
    ASSUME SessionInv, ExitTypes, Settled, PthreadCancel \/ PthreadJoin, Passing
    PROVE  Settled'
<1>1. queue \in Seq(Task)
  BY DEF SessionInv, TypesInv, Types, Lists
<1>2. /\ (kpc = "cancel" /\ kpc' = "join") \/ (kpc = "join" /\ kpc' = "write" /\ Dead(victim))
      /\ UNCHANGED <<cpc, nreq, misled, tpc, pipe, queue, stale, victim, overtaken, mode, wpc, curr>>
  BY DEF PthreadCancel, PthreadJoin, vars, cvars, tvars, Passing
<1>3. mode # "exited"
  BY <1>2, ConsoleAtWork DEF Settled
<1>4. Control'
  BY <1>2 DEF Settled, Control, Queued, Dead, ServerDead
<1>5. Nodes'
  BY <1>2 DEF Settled, Nodes, Queued
<1>6. Cancelling'
  BY <1>2 DEF Settled, Cancelling, Ended, Closing, Latest, Marked
<1>7. Walking'
  BY <1>1, <1>2, WalkingKeeps DEF Settled, ExitTypes
<1>8. ExitCancelsAll'
  BY <1>2, <1>3 DEF ExitCancelsAll
<1> QED
  BY <1>4, <1>5, <1>6, <1>7, <1>8 DEF Settled

\* A thread with its end open that its client reads from is the latest.
LEMMA ReadIsLatest ==
    ASSUME TypesInv, NEW t \in Task, NEW c \in Client, c = t[1], OlderAreOver(c),
           Reads(c, tfd[t]), tpc[t] \notin {"none", "exited", "dead"}
    PROVE  t = Latest(c) /\ nreq[c] > 0
<1>1. nreq[c] \in Nat
  BY DEF TypesInv, Types, Shape
<1>2. t[2] \in 1..MaxRequests /\ t = <<c, t[2]>> /\ MaxRequests \in Nat
  BY TaskIsPair, BoundAssumption
<1>3. ~(t[2] > nreq[c])
  BY DEF TypesInv, Numbering
<1>4. t[2] \notin 1..nreq[c] - 1
  <2> SUFFICES ASSUME t[2] \in 1..nreq[c] - 1 PROVE FALSE
    OBVIOUS
  <2>1. tpc[<<c, t[2]>>] # "exited" => ~Reads(c, tfd[<<c, t[2]>>])
    BY Zenon DEF OlderAreOver
  <2> QED
    BY <1>2, <2>1
<1>5. t[2] = nreq[c] /\ nreq[c] > 0
  BY ONLY <1>1, <1>2, <1>3, <1>4
<1> QED
  BY <1>2, <1>5 DEF Latest

\* When the console comes to write its marker, the thread has died with its
\* node in the queue and its client reading, unless it was misled, and no
\* marker has gone before.
LEMMA VictimIsRead ==
    ASSUME SessionInv, ExitTypes, Settled, kpc = "write", Queued(victim), ~stale,
           NEW c \in Client, c = victim[1], cpc[c] # "gone"
    PROVE  /\ victim \in Task /\ Ended(victim) /\ (victim = Latest(c) => ~Marked(c))
           /\ victim \notin misled =>
                 victim = Latest(c) /\ cpc[c] = "read" /\ tfd[victim] = cfd[c]
           /\ Reads(c, tfd[victim]) =>
                 /\ victim = Latest(c)
                 /\ cpc[c] = "read" \/ (cpc[c] = "close" /\ victim \in misled)
<1>1. mode # "exited" /\ ~ServerDead /\ victim \in Task /\ Dead(victim)
  BY ConsoleAtWork DEF Settled, Control
<1>2. Ended(victim)
  BY <1>1 DEF Settled, Nodes, Dead, Ended
<1>3. /\ victim = Latest(c) => ~Marked(c)
      /\ victim \notin misled => victim = Latest(c) /\ cpc[c] = "read"
  BY <1>1, <1>2 DEF Settled, Cancelling, Closing, Ended
<1>4. TypesInv /\ OlderAreOver(c) /\ InStep(c)
  BY <1>1 DEF SessionInv, Meeting
<1>5. victim \notin misled => tfd[victim] = cfd[c]
  BY <1>2, <1>3, <1>4 DEF InStep, Ended
<1>6. ASSUME Reads(c, tfd[victim])
      PROVE  victim = Latest(c) /\ (cpc[c] = "read" \/ (cpc[c] = "close" /\ victim \in misled))
  <2>1. victim = Latest(c)
    BY <1>1, <1>2, <1>4, <1>6, ReadIsLatest DEF Ended
  <2> QED
    BY <1>3, <1>4, <1>6, <2>1 DEF InStep, Reads
<1> QED
  BY <1>1, <1>2, <1>3, <1>5, <1>6

\* The marker is written.
LEMMA WriteMarkerSettled ==
    ASSUME SessionInv, ExitTypes, Settled, WriteMarker, Passing
    PROVE  Settled' /\ SessionInv'
<1>1. TypesInv /\ Shape /\ Lists
  BY DEF SessionInv, TypesInv, Types
<1> DEFINE v == victim
           c == Owner(victim)
<1>2. /\ kpc = "write" /\ kpc' = "close" /\ Queued(victim) /\ Reads(c, tfd[victim])
      /\ pipe' = [pipe EXCEPT ![c] = Append(@, opt)]
      /\ UNCHANGED <<cvars, tvars, name, made, queue, stale>>
      /\ UNCHANGED <<cpc, nreq, misled, tpc, tfd>>
      /\ UNCHANGED <<victim, overtaken, mode, wpc, curr>>
  BY DEF WriteMarker, cvars, tvars, Passing
<1>3. mode # "exited" /\ ~ServerDead /\ victim \in Task /\ Dead(victim)
  BY <1>2, ConsoleAtWork DEF Settled, Control
<1>4. c = victim[1] /\ c \in Client
  BY <1>3, TaskIsPair
<1>5. cpc[c] # "gone"
  BY <1>2 DEF Reads
<1>6. ~stale => /\ Ended(victim) /\ victim = Latest(c) /\ ~Marked(c)
                /\ cpc[c] = "read" \/ (cpc[c] = "close" /\ victim \in misled)
  BY <1>2, <1>4, <1>5, VictimIsRead
<1>7. SessionInv'
  <2>1. opt \in {INTERRUPT, SHUTDOWN}
    BY DEF ExitTypes
  <2>2. ~stale => /\ victim = Latest(victim[1]) /\ ~Marked(victim[1]) /\ tpc[victim] \in MarkedPc
                  /\ \/ cpc[victim[1]] = "read"
                     \/ cpc[victim[1]] = "close" /\ victim \in misled
    BY <1>4, <1>6 DEF Ended, MarkedPc
  <2> QED
    BY <1>2, <1>3, <2>1, <2>2, WriteMarkerKeeps
<1>8. Control'
  BY <1>2, <1>3 DEF Settled, Control, Queued, Dead, ServerDead
<1>9. Nodes'
  BY <1>2 DEF Settled, Nodes, Queued
<1>10. Cancelling'
  <2> SUFFICES ASSUME ~stale, NEW t \in Task, NEW d \in Client, d = t[1], cpc[d] # "gone"
               PROVE  /\ Ended(t) => t = victim \/ t \in misled \/ (t = Latest(d) /\ cpc[d] = "read")
                      /\ t = Latest(d) /\ Marked(d)' => tpc[t] = "exited" \/ t = victim
    BY <1>2, TaskIsPair DEF Cancelling, Ended, Closing, Latest
  <2>1. /\ Ended(t) => t \in misled \/ (t = Latest(d) /\ cpc[d] = "read")
        /\ t = Latest(d) /\ Marked(d) => tpc[t] = "exited"
    BY <1>2, <1>3 DEF Settled, Cancelling, Closing
  <2>2. CASE d = c
    BY <1>6, <2>1, <2>2
  <2>3. CASE d # c
    <3>1. pipe'[d] = pipe[d]
      BY <1>1, <1>2, <2>3 DEF Lists
    <3> QED
      BY <2>1, <3>1 DEF Marked
  <2> QED
    BY <2>2, <2>3
<1>11. Walking'
  BY <1>1, <1>2, WalkingKeeps DEF Settled, Lists, ExitTypes
<1>12. ExitCancelsAll'
  BY <1>2, <1>3 DEF ExitCancelsAll
<1> QED
  BY <1>7, <1>8, <1>9, <1>10, <1>11, <1>12 DEF Settled

\* The server's end of the FIFO is closed.
LEMMA CloseFifoSettled ==
    ASSUME SessionInv, ExitTypes, Settled, CloseFifo, Passing
    PROVE  Settled' /\ SessionInv'
<1>1. TypesInv /\ Shape /\ Lists
  BY DEF SessionInv, TypesInv, Types
<1>2. /\ kpc = "close" /\ kpc' = "unlink" /\ tpc' = [tpc EXCEPT ![victim] = "exited"]
      /\ UNCHANGED <<cvars, tfd, wrote, pipe, name, made, queue, stale>>
      /\ UNCHANGED <<cpc, nreq, misled, victim, overtaken, mode, wpc, curr>>
  BY DEF CloseFifo, cvars, Passing
<1>3. mode # "exited" /\ ~ServerDead /\ victim \in Task /\ Dead(victim)
  BY <1>2, ConsoleAtWork DEF Settled, Control
<1>4. tpc'[victim] = "exited" /\ \A t \in Task : t # victim => tpc'[t] = tpc[t]
  BY <1>1, <1>2, <1>3 DEF Shape
<1>5. SessionInv'
  BY <1>2, <1>3, EndingKeeps DEF Dead
<1>6. ~ServerDead'
  BY <1>3, <1>4 DEF ServerDead
<1>7. Control'
  BY <1>2, <1>3, <1>4, <1>6 DEF Settled, Control, Queued
<1>8. Nodes'
  BY <1>2, <1>3, <1>4 DEF Settled, Nodes, Queued
<1>9. Cancelling'
  <2> SUFFICES ASSUME ~stale, NEW t \in Task, NEW d \in Client, d = t[1], cpc[d] # "gone"
               PROVE  /\ tpc'[t] \in {"killed", "failed"} =>
                            t \in misled \/ (t = Latest(d) /\ cpc[d] = "read")
                      /\ t = Latest(d) /\ Marked(d) => tpc'[t] = "exited"
    BY <1>2, TaskIsPair DEF Cancelling, Ended, Closing, Latest, Marked
  <2>1. CASE t = victim
    BY <1>4, <2>1
  <2>2. CASE t # victim
    BY <1>3, <1>4, <2>2 DEF Settled, Cancelling, Closing, Ended
  <2> QED
    BY <2>1, <2>2
<1>10. Walking'
  BY <1>1, <1>2, WalkingKeeps DEF Settled, Lists, ExitTypes
<1>11. ExitCancelsAll'
  BY <1>2, <1>3 DEF ExitCancelsAll
<1> QED
  BY <1>5, <1>7, <1>8, <1>9, <1>10, <1>11 DEF Settled

\* The FIFO's name is unlinked.
LEMMA UnlinkFifoSettled ==
    ASSUME SessionInv, ExitTypes, Settled, UnlinkFifo, Passing
    PROVE  Settled' /\ SessionInv'
<1>1. TypesInv /\ Shape /\ Lists
  BY DEF SessionInv, TypesInv, Types
<1>2. /\ kpc = "unlink" /\ kpc' = "remove" /\ RemoveFifo(Owner(victim), tfd[victim])
      /\ UNCHANGED <<cvars, tvars, pipe, queue>>
      /\ UNCHANGED <<cpc, nreq, misled, tpc, victim, overtaken, mode, wpc, curr>>
  BY DEF UnlinkFifo, cvars, tvars, Passing
<1>3. mode # "exited" /\ ~ServerDead /\ victim \in Task /\ tpc[victim] = "exited"
  BY <1>2, ConsoleAtWork DEF Settled, Control
<1>4. SessionInv'
  BY <1>2, <1>3, UnlinkFifoKeeps
<1>5. ~stale' => ~stale
  BY <1>2 DEF RemoveFifo
<1>6. Control'
  BY <1>2, <1>3 DEF Settled, Control, Queued, ServerDead
<1>7. Nodes'
  BY <1>2 DEF Settled, Nodes, Queued
<1>8. Cancelling'
  BY <1>2, <1>5 DEF Settled, Cancelling, Ended, Closing, Latest, Marked
<1>9. Walking'
  BY <1>1, <1>2, WalkingKeeps DEF Settled, Lists, ExitTypes
<1>10. ExitCancelsAll'
  BY <1>2, <1>3 DEF ExitCancelsAll
<1> QED
  BY <1>4, <1>6, <1>7, <1>8, <1>9, <1>10 DEF Settled

\* The victim's node is taken out.
LEMMA RemoveVictimSettled ==
    ASSUME SessionInv, ExitTypes, Settled, RemoveVictim, Passing
    PROVE  Settled'
<1>1. queue \in Seq(Task)
  BY DEF SessionInv, TypesInv, Types, Lists
<1>2. /\ kpc = "remove" /\ kpc' = "getline" /\ victim' = NoTask
      /\ UNCHANGED <<cpc, nreq, misled, tpc, pipe, stale, mode, wpc, curr>>
  BY DEF RemoveVictim, cvars, tvars, Passing
<1>3. PICK k \in 1..Len(queue) : queue[k] = victim /\ queue' = RemoveAt(queue, k)
  BY QueueCalls DEF RemoveVictim
<1>4. mode # "exited" /\ ~ServerDead
  BY <1>2, ConsoleAtWork DEF Settled
<1>5. /\ \A i, j \in 1..Len(queue') : queue'[i] = queue'[j] => i = j
      /\ \A t : Queued(t)' <=> Queued(t) /\ t # victim
  BY <1>1, <1>3, Removing DEF Settled, Nodes
<1>6. Control'
  BY <1>2, <1>4 DEF Settled, Control, ServerDead
<1>7. Nodes'
  BY <1>2, <1>5 DEF Settled, Nodes
<1>8. Cancelling'
  BY <1>2 DEF Settled, Cancelling, Ended, Closing, Latest, Marked
<1>9. Walking'
  BY <1>1, <1>3, <1>5, WalkingKeeps DEF Settled, ExitTypes
<1>10. ExitCancelsAll'
  BY <1>2, <1>4 DEF ExitCancelsAll
<1> QED
  BY <1>6, <1>7, <1>8, <1>9, <1>10 DEF Settled

-----------------------------------------------------------------------------
(* Commands, the loop and the walk.                                        *)

\* The victim is a queued node, the first one of its client's.
LEMMA FindsQueued ==
    ASSUME queue \in Seq(Task), NEW c \in Client, NEW o, Find(c, o)
    PROVE  /\ kpc = "getline" /\ kpc' = "cancel" /\ ~overtaken'
           /\ victim' \in Task /\ Queued(victim')
           /\ \E i \in 1..Len(queue) :
                 /\ victim' = queue[i] /\ Owner(queue[i]) = c
                 /\ \A j \in 1..Len(queue) : Owner(queue[j]) = c => i <= j
           /\ UNCHANGED <<vars, pending, left, fault>>
<1> DEFINE hits == {i \in 1..Len(queue) : Owner(queue[i]) = c}
<1>1. /\ hits # {} /\ victim' = queue[Min(hits)] /\ kpc = "getline" /\ kpc' = "cancel"
      /\ ~overtaken' /\ UNCHANGED <<vars, pending, left, fault>>
  BY DEF Find
<1>2. hits \subseteq Nat
  OBVIOUS
<1>3. Min(hits) \in hits /\ \A i \in hits : Min(hits) <= i
  BY <1>1, <1>2, MinIsLeast
<1>4. /\ Min(hits) \in 1..Len(queue) /\ Owner(queue[Min(hits)]) = c
      /\ \A j \in 1..Len(queue) : Owner(queue[j]) = c => Min(hits) <= j
  BY <1>3
<1>5. queue[Min(hits)] \in Task
  BY <1>4, ElementOfSeq
<1>6. Queued(queue[Min(hits)])
  BY <1>4 DEF Queued
<1> HIDE DEF hits
<1>7. Queued(victim') <=> Queued(queue[Min(hits)])
  BY <1>1
<1> QED
  BY <1>1, <1>4, <1>5, <1>6, <1>7

\* A command of the operator's changes no session and no node.
LEMMA CommandSettled ==
    ASSUME ExitTypes, Settled, UNCHANGED <<vars, wvars>>,
           kpc = "getline" \/ UNCHANGED <<kpc, victim>>,
           \/ mode = "serve" /\ mode' = "test"
           \/ mode' = mode /\ UNCHANGED <<kpc, victim>>,
           kpc' \notin {"write", "close", "unlink", "remove"} \/ UNCHANGED <<kpc, victim>>,
           kpc' # "getline" => victim' \in Task /\ (Queued(victim') \/ overtaken')
    PROVE  Settled'
<1>1. UNCHANGED <<cpc, nreq, misled, tpc, pipe, queue, stale, wpc, curr, link, reused, late>>
  BY DEF vars, cvars, tvars, wvars
<1>2. mode' = "exited" <=> mode = "exited"
  OBVIOUS
<1>3. Control'
  <2>1. \A t : Queued(t)' <=> Queued(t)
    BY <1>1 DEF Queued
  <2>2. kpc' # "getline" => victim' \in Task /\ (Queued(victim)' \/ overtaken')
    BY <1>1 DEF Queued
  <2> QED
    BY <1>1, <1>2, <2>2 DEF Settled, Control, Dead, ServerDead, ExitTypes
<1>4. Nodes'
  BY <1>1, <1>2 DEF Settled, Nodes, Queued
<1>5. Cancelling'
  BY <1>1, <1>2 DEF Settled, Cancelling, Ended, Closing, Latest, Marked
<1>6. Walking'
  <2>1. CASE mode \in {"serve", "test"}
    BY <1>1, <2>1 DEF Settled, Walking
  <2>2. CASE mode = "walk"
    <3>1. mode' = "walk" /\ kpc' = kpc
      BY <2>2
    <3>2. ASSUME NEW rank \in [Task -> Nat], Ordered(rank) PROVE Ordered(rank)'
      BY <1>1, <3>1, <3>2 DEF Ordered, Early, Queued
    <3> QED
      BY <1>1, <2>2, <3>1, <3>2 DEF Settled, Walking
  <2> QED
    BY <1>2, <2>1, <2>2 DEF Walking, ExitTypes
<1>7. ExitCancelsAll'
  BY <1>1, <1>2 DEF Settled, ExitCancelsAll
<1> QED
  BY <1>3, <1>4, <1>5, <1>6, <1>7 DEF Settled

\* The walk begins: the nodes are ranked as they stand in the queue.
LEMMA LoopTestSettled ==
    ASSUME SessionInv, ExitTypes, Settled, LoopTest
    PROVE  Settled'
<1>1. queue \in Seq(Task) /\ Len(queue) \in Nat
  BY LenProperties DEF SessionInv, TypesInv, Types, Lists
<1>2. /\ mode = "test" /\ kpc = "getline" /\ mode' = IF SERVER_STOP THEN "walk" ELSE "serve"
      /\ curr' = IF SERVER_STOP /\ queue # <<>> THEN queue[1] ELSE NoTask
      /\ UNCHANGED <<cpc, nreq, misled, tpc, pipe, queue, stale, kpc, victim, overtaken,
                     wpc, link, reused, late>>
  BY DEF LoopTest, allvars, vars, cvars, tvars, kvars
<1>3. /\ late = {} /\ ~reused /\ curr = NoTask /\ link = [t \in Task |-> NoTask]
      /\ wpc = "visit" /\ kpc = "getline" /\ ~ServerDead
  BY <1>2 DEF Settled, Control, Walking, ExitTypes
<1>4. Control'
  BY <1>2, <1>3 DEF Settled, Control, ServerDead
<1>5. Nodes'
  BY <1>2 DEF Settled, Nodes, Queued
<1>6. Cancelling'
  BY <1>2 DEF Settled, Cancelling, Ended, Closing, Latest, Marked
<1>7. Walking'
  <2>1. CASE ~SERVER_STOP
    BY <1>2, <1>3, <2>1 DEF Walking
  <2>2. CASE SERVER_STOP
    <3>1. \A i, j \in 1..Len(queue) : queue[i] = queue[j] => i = j
      BY DEF Settled, Nodes
    <3> DEFINE place(t) == IF Queued(t) THEN CHOOSE i \in 1..Len(queue) : queue[i] = t
                           ELSE Len(queue) + 1
    <3>2. \A t \in Task : Queued(t) => place(t) \in 1..Len(queue) /\ queue[place(t)] = t
      BY Zenon DEF Queued
    <3>3. \A t \in Task : ~Queued(t) => place(t) = Len(queue) + 1
      OBVIOUS
    <3> HIDE DEF place
    <3>4. \A t \in Task : place(t) \in Nat
      BY <1>1, <3>2, <3>3
    <3>5. PICK rank \in [Task -> Nat] : \A t \in Task : rank[t] = place(t)
      <4>1. [t \in Task |-> place(t)] \in [Task -> Nat]
        BY <3>4
      <4> QED
        BY <4>1
    <3>6. \A i \in 1..Len(queue) : queue[i] \in Task /\ Queued(queue[i])
      BY <1>1, ElementOfSeq DEF Queued
    <3>7. \A i \in 1..Len(queue) : rank[queue[i]] = i
      BY <3>1, <3>2, <3>5, <3>6
    <3>8. \A i, j \in 1..Len(queue) : i < j => rank[queue[i]] < rank[queue[j]]
      BY <3>7
    <3>9. \A u, q \in Task : Queued(q) /\ u # q => rank[u] # rank[q]
      BY <1>1, <3>2, <3>3, <3>5
    <3>10. \A u, q \in Task : ~Queued(u) /\ Queued(q) => rank[q] < rank[u]
      BY <1>1, <3>2, <3>3, <3>5
    <3>11. \A u, q \in Task : ~(~Queued(u) /\ Queued(q) /\ rank[q] > rank[u])
      BY <3>5, <3>10
    <3>12. curr' = NoTask => queue = <<>>
      <4> SUFFICES ASSUME queue # <<>>, curr' = NoTask PROVE FALSE
        OBVIOUS
      <4>1. 1 \in 1..Len(queue) /\ curr' = queue[1]
        BY <1>1, <1>2, <2>2, EmptySeq
      <4> QED
        BY <3>6, <4>1, NoTaskIsNone
    <3>13. curr' # NoTask => \A q \in Task : Queued(q) => rank[q] >= rank[curr']
      <4> SUFFICES ASSUME NEW q \in Task, Queued(q) PROVE rank[q] >= rank[curr']
        OBVIOUS
      <4>1. place(q) \in 1..Len(queue) /\ rank[q] = place(q)
        BY <3>2, <3>5
      <4>2. 1 \in 1..Len(queue) /\ queue # <<>>
        BY <1>1, <4>1
      <4>3. rank[curr'] = 1
        BY <1>2, <2>2, <3>7, <4>2
      <4> QED
        BY <4>1, <4>3
    <3>14. ~reused' /\ wpc' = "visit" /\ queue' = queue /\ link' = link
      BY <1>2, <1>3
    <3>15. \A t : (Queued(t)' <=> Queued(t)) /\ (Early(t)' => Queued(t))
      BY <1>2 DEF Early, Queued
    <3>16. curr' = NoTask => \A q \in Task : ~Early(q)'
      <4> SUFFICES ASSUME curr' = NoTask, NEW q \in Task, Queued(q) PROVE FALSE
        BY <3>15
      <4>1. 1..Len(queue) = {}
        BY <3>12
      <4> QED
        BY <4>1 DEF Queued
    <3>17. Ordered(rank)'
      BY ONLY <3>8, <3>9, <3>11, <3>13, <3>14, <3>15, <3>16 DEF Ordered
    <3> QED
      BY <1>2, <2>2, <3>5, <3>17 DEF Walking
  <2> QED
    BY <2>1, <2>2 DEF ExitTypes
<1>8. ExitCancelsAll'
  BY <1>2 DEF ExitCancelsAll
<1> QED
  BY <1>4, <1>5, <1>6, <1>7, <1>8 DEF Settled

\* The walk cancels the client of the node it stands on: an early node is the
\* first of its client's, so that it is the victim.
LEMMA WalkCancelSettled ==
    ASSUME SessionInv, ExitTypes, Settled, WalkCancel
    PROVE  Settled'
<1>1. queue \in Seq(Task) /\ Len(queue) \in Nat
  BY LenProperties DEF SessionInv, TypesInv, Types, Lists
<1>2. PICK c \in Client : (c = Owner(curr) \/ reused) /\ Find(c, option)
  BY DEF WalkCancel
<1>3. /\ kpc = "getline" /\ kpc' = "cancel" /\ victim' \in Task /\ Queued(victim')
      /\ UNCHANGED <<cpc, nreq, misled, tpc, pipe, queue, stale>>
  BY <1>1, <1>2, FindsQueued DEF vars, cvars, tvars
<1>4. /\ mode = "walk" /\ wpc = "visit" /\ curr # NoTask /\ wpc' = "next"
      /\ UNCHANGED <<mode, curr, link, reused, late>>
  BY DEF WalkCancel, svars
<1>5. \A t : Queued(t)' <=> Queued(t)
  BY <1>3 DEF Queued
<1>6. Control'
  <2>1. Queued(victim)'
    BY <1>3 DEF Queued
  <2> QED
    BY <1>3, <1>4, <2>1 DEF Settled, Control, ServerDead
<1>7. Nodes'
  BY <1>3, <1>4 DEF Settled, Nodes, Queued
<1>8. Cancelling'
  BY <1>3, <1>4 DEF Settled, Cancelling, Ended, Closing, Latest, Marked
<1>9. ASSUME NEW rank \in [Task -> Nat], Ordered(rank) PROVE Ordered(rank)'
  <2>1. Early(curr) => victim' = curr
    <3> SUFFICES ASSUME Early(curr) PROVE victim' = curr
      OBVIOUS
    <3>1. c = Owner(curr) /\ c \notin late
      BY <1>2, <1>4, <1>9 DEF Ordered, Early
    <3>2. PICK m \in 1..Len(queue) : queue[m] = curr
      BY DEF Early, Queued
    <3>3. PICK i \in 1..Len(queue) :
             /\ victim' = queue[i] /\ Owner(queue[i]) = c
             /\ \A j \in 1..Len(queue) : Owner(queue[j]) = c => i <= j
      BY <1>1, <1>2, FindsQueued
    <3>4. queue[i] \in Task /\ curr \in Task /\ Early(queue[i])
      BY <1>1, <3>1, <3>2, <3>3, ElementOfSeq DEF Early, Queued
    <3>5. rank[queue[i]] >= rank[curr] /\ rank[queue[i]] \in Nat /\ rank[curr] \in Nat
      BY <1>4, <1>9, <3>4 DEF Ordered
    <3>6. i < m => rank[queue[i]] < rank[curr]
      BY <1>9, <3>2, <3>3 DEF Ordered
    <3>7. i <= m
      BY <3>1, <3>2, <3>3
    <3>8. i = m
      BY <3>5, <3>6, <3>7
    <3> QED
      BY <3>2, <3>3, <3>8
  <2>2. \A t : Early(t)' <=> Early(t)
    BY <1>4, <1>5 DEF Early
  <2>4. Early(curr)' => kpc' # "getline" /\ victim' = curr
    <3>1. curr' = curr
      BY <1>4
    <3> QED
      BY <1>3, <2>1, <2>2, <3>1 DEF Early, Queued
  <2>3. UNCHANGED <<queue, link, curr, reused>>
    BY <1>3, <1>4
  <2> QED
    BY ONLY <1>4, <1>5, <1>9, <2>2, <2>3, <2>4 DEF Ordered
<1>10. Walking'
  BY <1>4, <1>9 DEF Settled, Walking
<1>11. ExitCancelsAll'
  BY <1>4 DEF ExitCancelsAll
<1> QED
  BY <1>6, <1>7, <1>8, <1>10, <1>11 DEF Settled

\* The walk steps from a node that is not early any more, freed or not, to
\* what it points to.
LEMMA WalkOnSettled ==
    ASSUME SessionInv, ExitTypes, Settled, WalkInvalid \/ WalkNext
    PROVE  Settled'
<1>1. queue \in Seq(Task) /\ Len(queue) \in Nat
  BY LenProperties DEF SessionInv, TypesInv, Types, Lists
<1>2. /\ mode = "walk" /\ kpc = "getline"
      /\ UNCHANGED <<cpc, nreq, misled, tpc, pipe, queue, stale, kpc, victim, overtaken, mode, link, late>>
  BY DEF WalkInvalid, WalkNext, allvars, vars, cvars, tvars, kvars, svars
<1>3. WalkInvalid => /\ wpc = "visit" /\ wpc' = "next" /\ curr # NoTask /\ ~Queued(curr)
                     /\ UNCHANGED <<curr, reused>>
  BY DEF WalkInvalid
<1>4. WalkNext => /\ wpc = "next" /\ wpc' = "visit" /\ curr' = Next1(curr)
                  /\ reused' = (curr' # NoTask /\ ~Queued(curr'))
  BY DEF WalkNext
<1>5. \A t : (Queued(t)' <=> Queued(t)) /\ (Early(t)' <=> Early(t))
  BY <1>2 DEF Early, Queued
<1>6. Control'
  BY <1>2, <1>3, <1>4 DEF Settled, Control, ServerDead
<1>7. Nodes'
  BY <1>2 DEF Settled, Nodes, Queued
<1>8. Cancelling'
  BY <1>2 DEF Settled, Cancelling, Ended, Closing, Latest, Marked
<1>9. ASSUME NEW rank \in [Task -> Nat], Ordered(rank) PROVE Ordered(rank)'
  <2>1. CASE WalkInvalid
    <3>1. ~Early(curr)' /\ curr' = curr /\ curr # NoTask
      BY <1>3, <1>5, <2>1 DEF Early, Queued
    <3>2. UNCHANGED <<queue, link, reused>>
      BY <1>2, <1>3, <2>1
    <3> QED
      BY ONLY <1>5, <1>9, <3>1, <3>2 DEF Ordered
  <2>2. CASE WalkNext
    <3>1. curr \in Task /\ ~Early(curr)
      BY <1>2, <1>4, <1>9, <2>2 DEF Ordered, ExitTypes, Settled, Control
    <3>2. curr' = Next1(curr) /\ reused' = (curr' # NoTask /\ ~Queued(curr'))
      BY <1>4, <2>2
    <3>3. ASSUME NEW q \in Task, Early(q) PROVE Next1(curr) # NoTask /\ rank[q] >= rank[Next1(curr)]
      <4>1. rank[q] >= rank[curr] /\ rank[q] # rank[curr] /\ Queued(q)
        BY <1>9, <3>1, <3>3, NoTaskIsNone DEF Ordered, Early
      <4>2. rank[q] > rank[curr] /\ rank[q] \in Nat /\ rank[curr] \in Nat
        BY <3>1, <4>1
      <4>3. CASE ~Queued(curr)
        <5>1. Next1(curr) = link[curr]
          BY <4>3 DEF Next1
        <5> QED
          BY <1>9, <3>1, <3>3, <4>2, <4>3, <5>1 DEF Ordered
      <4>4. CASE Queued(curr)
        <5>1. PICK k \in 1..Len(queue) : queue[k] = curr
          BY <4>4 DEF Queued
        <5>2. PICK m \in 1..Len(queue) : queue[m] = q
          BY <4>1 DEF Queued
        <5>3. \A i, j \in 1..Len(queue) : i < j => rank[queue[i]] < rank[queue[j]]
          BY <1>9 DEF Ordered
        <5>4. k < m
          <6>1. m # k
            BY <4>1, <5>1, <5>2
          <6>2. ~(m < k)
            BY <4>2, <5>1, <5>2, <5>3
          <6> QED
            BY <6>1, <6>2
        <5>5. Next1(curr) = queue[k + 1] /\ k + 1 \in 1..Len(queue)
          <6>1. Next1(curr) = IF k = Len(queue) THEN NoTask ELSE queue[k + 1]
            BY <1>1, <5>1, NextOfQueued DEF Settled, Nodes
          <6> QED
            BY <1>1, <5>4, <6>1
        <5>6. queue[k + 1] \in Task /\ rank[queue[k + 1]] \in Nat
          BY <1>1, <5>5, ElementOfSeq
        <5>7. rank[q] >= rank[queue[k + 1]]
          <6>1. k + 1 < m => rank[queue[k + 1]] < rank[q]
            BY <5>2, <5>3, <5>5
          <6>2. k + 1 = m => queue[k + 1] = q
            BY <5>2
          <6> QED
            BY <4>2, <5>4, <5>6, <6>1, <6>2
        <5> QED
          BY <5>5, <5>6, <5>7, NoTaskIsNone
      <4> QED
        BY <4>3, <4>4
    <3>4. curr' = NoTask => \A q \in Task : ~Early(q)
      BY <3>2, <3>3
    <3>5. curr' # NoTask => \A q \in Task : Early(q) => rank[q] >= rank[curr']
      BY <3>2, <3>3
    <3>6. /\ curr' # NoTask /\ reused' => ~Queued(curr')
          /\ wpc' = "visit" /\ UNCHANGED <<queue, link>>
      BY <1>2, <1>4, <2>2, <3>2
    <3>7. curr' # NoTask /\ reused' => ~Early(curr)'
      BY <3>6 DEF Early, Queued
    <3> QED
      BY ONLY <1>5, <1>9, <3>4, <3>5, <3>6, <3>7 DEF Ordered
  <2> QED
    BY <2>1, <2>2
<1>10. Walking'
  BY <1>2, <1>9 DEF Settled, Walking
<1>11. ExitCancelsAll'
  BY <1>2 DEF ExitCancelsAll
<1> QED
  BY <1>6, <1>7, <1>8, <1>10, <1>11 DEF Settled

\* When the walk has come to an end, no early node is left.
LEMMA ExitSettled ==
    ASSUME SessionInv, ExitTypes, Settled, Exit
    PROVE  Settled' /\ SessionInv'
<1>1. TypesInv /\ Shape /\ Bounds /\ Lists /\ Numbering
  BY DEF SessionInv, TypesInv, Types
<1>2. /\ mode = "walk" /\ mode' = "exited" /\ wpc = "visit" /\ curr = NoTask
      /\ tpc' = [t \in Task |-> "dead"] /\ tfd' = [t \in Task |-> 0]
      /\ UNCHANGED <<cpc, nreq, cfd, shown, misled, wrote, pipe, name, made, queue, stale>>
      /\ UNCHANGED <<kpc, victim, overtaken, wpc, curr, late>>
  BY DEF Exit, cvars, kvars
<1>3. \A t \in Task : tpc'[t] = "dead"
  BY <1>2
<1>4. SessionInv'
  <2>1. Shape'
    BY <1>1, <1>2 DEF Shape, ThreadPc
  <2>2. Bounds'
    <3>1. \A t \in Task : tfd'[t] = 0 /\ Owner(t) \in Client
      BY <1>2, TaskIsPair
    <3> QED
      BY <1>1, <1>2, <3>1 DEF Bounds, Shape
  <2>3. Lists' /\ Numbering'
    BY <1>1, <1>2 DEF Lists, Numbering
  <2>4. ASSUME ~stale, NEW c \in Client PROVE Meeting(c)'
    BY <1>1, <1>2, <2>4, DyingMeets DEF SessionInv
  <2> QED
    BY <1>2, <2>1, <2>2, <2>3, <2>4 DEF SessionInv, TypesInv, Types
<1>5. kpc = "getline"
  BY <1>2 DEF Settled, Control
<1>6. Control'
  BY <1>2, <1>3, <1>5 DEF Control
<1>7. Nodes'
  BY <1>2 DEF Settled, Nodes
<1>8. Cancelling' /\ Walking'
  BY <1>2 DEF Cancelling, Walking
<1>9. ExitCancelsAll'
  <2>1. \A q \in Task : ~Early(q)
    BY <1>2 DEF Settled, Walking, Ordered
  <2>2. \A i \in 1..Len(queue) : queue[i] \in Task /\ Queued(queue[i])
    BY <1>1, ElementOfSeq DEF Lists, Queued
  <2>3. \A i \in 1..Len(queue) : Owner(queue[i]) \in late
    BY <2>1, <2>2 DEF Early
  <2>4. queue' = queue /\ late' = late
    BY <1>2
  <2> QED
    BY <2>3, <2>4 DEF ExitCancelsAll, Owner
<1> QED
  BY <1>4, <1>6, <1>7, <1>8, <1>9 DEF Settled

-----------------------------------------------------------------------------
(* The steps together.                                                     *)

\* A client's step starts or wakes threads, no more.
LEMMA ClientStepThreads ==
    ASSUME TypesInv, NEW c \in Client, Request(c) \/ GetResult(c) \/ Interrupt(c), NEW t \in Task
    PROVE  tpc'[t] = tpc[t] \/ tpc'[t] \in {"mkfifo", "gave_up", "add"}
<1>1. CASE Request(c)
  <2>1. CASE t = <<c, nreq[c] + 1>>
    BY <1>1, <2>1, RequestIsNext
  <2>2. CASE t # <<c, nreq[c] + 1>>
    BY <1>1, <2>2, RequestIsNext
  <2> QED
    BY <2>1, <2>2
<1>2. CASE GetResult(c) \/ Interrupt(c)
  BY <1>2 DEF GetResult, ClientMkfifo, ClientOpen, ClientOpenFails, ReadLine, ReadEOF, ClientClose,
     ClientUnlink, Interrupt, tvars
<1> QED
  BY <1>1, <1>2

\* A thread's step moves that thread alone, unless the server dies of it.
LEMMA ThreadStepThreads ==
    ASSUME TypesInv, NEW t \in Task, ProcessRequest(t), ~WriteFails(t)
    PROVE  /\ tpc[t] # "dead" /\ tpc'[t] # "dead"
           /\ \A u \in Task : u # t => tpc'[u] = tpc[u]
<1>1. Shape
  BY DEF TypesInv, Types
<1>2. CASE Popen(t)
  <2>1. PICK pc \in {"run", "failed"} : tpc' = [tpc EXCEPT ![t] = pc]
    BY <1>2 DEF Popen
  <2> QED
    BY <1>1, <1>2, <2>1 DEF Popen, Shape
<1>3. CASE Pclose(t)
  <2>1. PICK pc \in {"remove", "failed"} : tpc' = [tpc EXCEPT ![t] = pc]
    BY <1>3 DEF Pclose
  <2> QED
    BY <1>1, <1>3, <2>1 DEF Pclose, Shape
<1>4. CASE ThreadMkfifo(t) \/ ThreadOpen(t) \/ ThreadOpenFails(t) \/ TaskqAdd(t)
  BY <1>1, <1>4 DEF ThreadMkfifo, ThreadOpen, ThreadOpenFails, TaskqAdd, Shape
<1>5. CASE WriteLine(t) \/ ThreadClose(t) \/ ThreadUnlink(t)
  BY <1>1, <1>5 DEF WriteLine, ThreadClose, ThreadUnlink, Shape
<1>6. CASE TaskqRemove(t)
  <2>1. tpc[t] = "remove" /\ tpc' = [tpc EXCEPT ![t] = "close"]
    BY <1>6 DEF TaskqRemove
  <2> QED
    BY <1>1, <2>1 DEF Shape
<1> QED
  BY <1>2, <1>3, <1>4, <1>5, <1>6 DEF ProcessRequest

\* What the walk notes has its type.
LEMMA WalkTypes ==
    ASSUME SessionInv, ExitTypes, Nodes
    PROVE  /\ \A t \in Task : Next1(t) \in Task \cup {NoTask}
           /\ Meanwhile => /\ link' \in [Task -> Task \cup {NoTask}]
                           /\ reused' \in BOOLEAN /\ late' \in SUBSET Client
                           /\ wpc' = wpc /\ curr' = curr
<1>1. queue \in Seq(Task) /\ Len(queue) \in Nat
  BY LenProperties DEF SessionInv, TypesInv, Types, Lists
<1>2. \A t \in Task : Next1(t) \in Task \cup {NoTask}
  <2> SUFFICES ASSUME NEW t \in Task PROVE Next1(t) \in Task \cup {NoTask}
    OBVIOUS
  <2>1. CASE ~Queued(t)
    BY <2>1 DEF Next1, ExitTypes
  <2>2. CASE Queued(t)
    <3>1. PICK k \in 1..Len(queue) : queue[k] = t
      BY <2>2 DEF Queued
    <3>2. Next1(t) = IF k = Len(queue) THEN NoTask ELSE queue[k + 1]
      BY <1>1, <3>1, NextOfQueued DEF Nodes
    <3>3. k # Len(queue) => k + 1 \in 1..Len(queue)
      BY <1>1
    <3> QED
      BY <1>1, <3>2, <3>3, ElementOfSeq
  <2> QED
    BY <2>1, <2>2
<1>3. ASSUME Meanwhile
      PROVE  /\ link' \in [Task -> Task \cup {NoTask}]
             /\ reused' \in BOOLEAN /\ late' \in SUBSET Client
             /\ wpc' = wpc /\ curr' = curr
  <2>1. link' = [t \in Task |-> IF mode = "walk" /\ Queued(t) /\ ~Queued(t)' THEN Next1(t) ELSE link[t]]
    BY <1>3 DEF Meanwhile
  <2>2. \A t \in Task :
          (IF mode = "walk" /\ Queued(t) /\ ~Queued(t)' THEN Next1(t) ELSE link[t]) \in Task \cup {NoTask}
    BY <1>2 DEF ExitTypes
  <2>3. link' \in [Task -> Task \cup {NoTask}]
    BY <2>1, <2>2, Zenon
  <2> QED
    BY <1>3, <2>3 DEF Meanwhile, ExitTypes
<1> QED
  BY <1>2, <1>3

\* Every step keeps the types.
LEMMA NextExitTypes ==
    ASSUME SessionInv, ExitTypes, Settled, NextExit
    PROVE  ExitTypes'
<1>1. queue \in Seq(Task)
  BY DEF SessionInv, TypesInv, Types, Lists
<1>2. /\ \A t \in Task : Next1(t) \in Task \cup {NoTask}
      /\ Meanwhile => /\ link' \in [Task -> Task \cup {NoTask}]
                      /\ reused' \in BOOLEAN /\ late' \in SUBSET Client
                      /\ wpc' = wpc /\ curr' = curr
  BY WalkTypes DEF Settled
<1>3. ASSUME NEW c \in Client, ClientRuns(c) \/ ClientDies(c) \/ Serve(c) \/ Unheard(c)
      PROVE  ExitTypes'
  BY <1>2, <1>3 DEF ClientRuns, ClientDies, Serve, Unheard, ReadMarker, kvars, svars, wvars, ExitTypes
<1>4. ASSUME NEW t \in Task, ThreadRuns(t) PROVE ExitTypes'
  <2>1. Meanwhile /\ UNCHANGED <<mode, SERVER_STOP, option, listener>>
    BY <1>4 DEF ThreadRuns, svars
  <2>2. /\ UNCHANGED <<kpc, victim, opt, pending, left>>
        /\ overtaken' \in BOOLEAN /\ fault' \in {"none", "use_after_free", "SIGPIPE"}
    <3>1. CASE Die(t)
      <4>1. UNCHANGED <<kpc, victim, opt, pending, left, fault, overtaken>>
        BY <3>1 DEF Die, kvars
      <4> QED
        BY <4>1 DEF ExitTypes
    <3>2. CASE ThreadStep(t)
      <4>1. UNCHANGED <<kpc, victim, opt, pending, left>> /\ fault' \in {"SIGPIPE", fault}
        BY <3>2 DEF ThreadStep
      <4>2. overtaken' \in BOOLEAN
        BY <3>2, Zenon DEF ThreadStep
      <4> QED
        BY <4>1, <4>2 DEF ExitTypes
    <3> QED
      BY <1>4, <3>1, <3>2 DEF ThreadRuns
  <2> QED
    BY <1>2, <2>1, <2>2 DEF ExitTypes
<1>5. ASSUME NEW c \in Client, NEW o \in {INTERRUPT, SHUTDOWN}, Find(c, o)
      PROVE  /\ kpc' \in {"getline", "cancel", "join", "write", "close", "unlink", "remove"}
             /\ victim' \in Task \cup {NoTask} /\ opt' \in {INTERRUPT, SHUTDOWN}
             /\ overtaken' \in BOOLEAN /\ UNCHANGED <<pending, left, fault>>
  <2>1. victim' \in Task /\ kpc' = "cancel"
    BY <1>1, <1>5, FindsQueued
  <2> QED
    BY <1>5, <2>1 DEF Find
<1>6. ASSUME NEW c \in Client, NEW o \in {INTERRUPT, SHUTDOWN}, Cancel(c, o) PROVE ExitTypes'
  BY <1>5, <1>6 DEF Cancel, svars, wvars, ExitTypes
<1>7. ASSUME NEW o \in {INTERRUPT, SHUTDOWN}, TypeExit(o) PROVE ExitTypes'
  BY <1>7 DEF TypeExit, allvars, kvars, wvars, ExitTypes
<1>8. CASE ListenerStart
  <2>1. UNCHANGED <<kpc, victim, opt, pending, left, fault, overtaken, mode, option, wpc, curr, link,
                    reused, late>>
    BY <1>8 DEF ListenerStart, allvars, kvars, wvars
  <2>2. listener' = "listening" /\ SERVER_STOP' \in BOOLEAN
    BY <1>8 DEF ListenerStart
  <2> QED
    BY <2>1, <2>2 DEF ExitTypes
<1>16. CASE ListenerFails \/ OtherCommand
  <2>1. UNCHANGED <<kpc, victim, opt, pending, left, fault, overtaken, option, wpc, curr, link,
                    reused, late>>
    BY <1>16 DEF ListenerFails, OtherCommand, allvars, kvars, wvars
  <2>2. /\ listener' \in {listener, "ended"} /\ SERVER_STOP' \in BOOLEAN
        /\ mode' \in {mode, "test"}
    BY <1>16 DEF ListenerFails, OtherCommand, ExitTypes
  <2> QED
    BY <2>1, <2>2 DEF ExitTypes
<1>9. CASE LoopTest
  <2>1. curr' \in Task \cup {NoTask}
    <3>1. queue # <<>> => queue[1] \in Task
      BY <1>1, HeadTailProperties
    <3> QED
      BY <1>9, <3>1 DEF LoopTest
  <2>2. mode' \in {"walk", "serve"}
    BY <1>9 DEF LoopTest
  <2> QED
    BY <1>9, <2>1, <2>2 DEF LoopTest, allvars, kvars, ExitTypes
<1>10. CASE ConsoleRuns
  <2>1. /\ kpc' \in {"getline", "cancel", "join", "write", "close", "unlink", "remove"}
        /\ victim' \in Task \cup {NoTask} /\ overtaken' \in BOOLEAN
        /\ fault' \in {"none", "use_after_free", "SIGPIPE"} /\ opt' = opt /\ left' = left
    BY <1>10 DEF ConsoleRuns, CancelClient, PthreadCancel, PthreadJoin, WriteMarker, CloseFifo,
       UnlinkFifo, RemoveVictim, Blunder, ExitTypes
  <2>2. pending' \in SUBSET Task
    <3>1. PthreadCancel => victim \in Task
      BY DEF PthreadCancel, Settled, Control
    <3> QED
      BY <1>10, <3>1 DEF ConsoleRuns, CancelClient, PthreadCancel, PthreadJoin, WriteMarker,
         CloseFifo, UnlinkFifo, RemoveVictim, Blunder, ExitTypes
  <2> QED
    BY <1>2, <1>10, <2>1, <2>2 DEF ConsoleRuns, svars, ExitTypes
<1>11. CASE WalkCancel
  <2>1. PICK c \in Client : Find(c, option)
    BY <1>11 DEF WalkCancel
  <2>2. option \in {INTERRUPT, SHUTDOWN} /\ UNCHANGED <<svars, curr, link, reused, late>> /\ wpc' = "next"
    BY <1>11 DEF WalkCancel, ExitTypes
  <2> QED
    BY <1>5, <2>1, <2>2 DEF svars, ExitTypes
<1>12. CASE WalkInvalid
  BY <1>12 DEF WalkInvalid, allvars, kvars, svars, ExitTypes
<1>13. CASE WalkNext
  <2>1. curr \in Task
    BY <1>13 DEF WalkNext, Settled, Control, ExitTypes
  <2>2. curr' \in Task \cup {NoTask} /\ reused' \in BOOLEAN /\ wpc' = "visit"
    BY <1>2, <1>13, <2>1 DEF WalkNext
  <2> QED
    BY <1>13, <2>2 DEF WalkNext, allvars, kvars, svars, ExitTypes
<1>14. CASE WalkBlunder
  BY <1>14 DEF WalkBlunder, svars, wvars, ExitTypes
<1>15. CASE Exit
  BY <1>15 DEF Exit, kvars, ExitTypes
<1> QED
  BY <1>3, <1>4, <1>6, <1>7, <1>8, <1>9, <1>10, <1>11, <1>12, <1>13, <1>14, <1>15, <1>16
     DEF NextExit, Walk

\* Without a fault, the invariant is what the console relies on.
LEMMA SettlesExit ==
    ASSUME SessionInv', ExitTypes', Settled', fault' = "none"
    PROVE  ExitInv'
  BY DEF ExitInv, Settled, UseAfterFreeNeedsOverlap, SigpipeNeedsLostReader

\* The sessions' own steps.
LEMMA SessionStepsKeep ==
    ASSUME SessionInv, SessionInv', ExitTypes, ExitTypes', Settled, Passing,
           UNCHANGED <<kpc, victim>>, fault' = "none",
           \/ \E c \in Client : (Request(c) \/ GetResult(c) \/ Interrupt(c)) /\ overtaken' = overtaken
           \/ \E t \in Task : /\ ProcessRequest(t) /\ ~WriteFails(t)
                              /\ overtaken' = (overtaken \/ (t = victim /\ tpc[t] = "remove"))
    PROVE  ExitInv'
<1>1. TypesInv /\ Step
  BY DEF SessionInv, Step
<1>2. \A t \in Task : tpc'[t] = "dead" => tpc[t] = "dead"
  BY <1>1, ClientStepThreads, ThreadStepThreads
<1>3. ASSUME NEW t \in Task, TaskqRemove(t), t = victim PROVE overtaken'
  <2>1. tpc[t] = "remove" /\ tpc'[t] = "close"
    BY <1>1, <1>3 DEF TaskqRemove, TypesInv, Types, Shape
  <2>2. ~\E c \in Client : Request(c) \/ GetResult(c) \/ Interrupt(c)
    BY <1>1, <2>1, ClientStepThreads
  <2>3. \A u \in Task : ProcessRequest(u) /\ ~WriteFails(u) => u = t
    BY <1>1, <2>1, ThreadStepThreads
  <2> QED
    BY <1>3, <2>1, <2>2, <2>3
<1>4. overtaken => overtaken'
  BY DEF ExitTypes
<1>5. Beside
  BY <1>1, <1>2, <1>3, <1>4 DEF Beside
<1> QED
  BY <1>5, BesideSettled, SettlesExit

\* The write that ends the server found its client interrupted or misled, or
\* the name of a newer FIFO gone.
LEMMA WriteFailsKeeps ==
    ASSUME ExitInv, ExitTypes', SessionInv', fault = "none", NEW t \in Task, WriteFails(t),
           fault' = "SIGPIPE", mode' = mode, late \subseteq late'
    PROVE  ExitInv'
<1>1. stale \/ misled # {} \/ \E c \in Client : cpc[c] = "gone"
  <2>1. tpc[t] = "run" /\ ~Reads(Owner(t), tfd[t]) /\ Owner(t) \in Client
    BY TaskIsPair DEF WriteFails
  <2> QED
    BY <2>1, SessionWriters DEF ExitInv, WritersHaveReader
<1>2. UNCHANGED <<cpc, misled, stale, queue>>
  BY DEF WriteFails, cvars
<1>3. SigpipeNeedsLostReader'
  BY <1>1, <1>2 DEF SigpipeNeedsLostReader
<1>4. ExitCancelsAll'
  BY <1>2 DEF ExitInv, ExitCancelsAll
<1> QED
  BY <1>3, <1>4 DEF ExitInv, UseAfterFreeNeedsOverlap

\* The console's missteps.
LEMMA BlunderKeeps ==
    ASSUME ExitInv, ExitTypes', SessionInv', fault = "none", Blunder \/ WalkBlunder,
           mode' = mode, late' = late, Blunder \/ reused' = reused
    PROVE  ExitInv'
<1>1. UNCHANGED <<cpc, misled, stale, queue, overtaken>>
  BY DEF Blunder, WalkBlunder, vars, cvars
<1>2. Settled /\ SessionInv /\ ExitTypes
  BY DEF ExitInv, Settled
<1>3. ExitCancelsAll'
  BY <1>1 DEF ExitInv, ExitCancelsAll
<1>4. CASE WalkBlunder
  BY <1>1, <1>3, <1>4 DEF WalkBlunder, ExitInv, UseAfterFreeNeedsOverlap, SigpipeNeedsLostReader, wvars
<1>5. CASE Blunder /\ ~Queued(victim)
  <2>1. overtaken /\ fault' = "use_after_free"
    BY <1>2, <1>5 DEF Blunder, Settled, Control
  <2> QED
    BY <1>1, <1>3, <2>1 DEF ExitInv, UseAfterFreeNeedsOverlap, SigpipeNeedsLostReader
<1>6. CASE Blunder /\ Queued(victim)
  <2>1. kpc = "write" /\ ~Reads(Owner(victim), tfd[victim]) /\ fault' = "SIGPIPE"
    BY <1>6 DEF Blunder
  <2>2. victim \in Task
    BY <1>2, <2>1 DEF Settled, Control
  <2>3. victim[1] \in Client /\ Owner(victim) = victim[1]
    BY <2>2, TaskIsPair
  <2>4. stale \/ victim \in misled \/ cpc[victim[1]] = "gone"
    <3> SUFFICES ASSUME ~stale, victim \notin misled, cpc[victim[1]] # "gone" PROVE FALSE
      OBVIOUS
    <3>1. cpc[victim[1]] = "read" /\ tfd[victim] = cfd[victim[1]]
      BY <1>2, <1>6, <2>1, <2>3, VictimIsRead
    <3> QED
      BY <2>1, <2>3, <3>1 DEF Reads
  <2>5. SigpipeNeedsLostReader'
    BY <1>1, <2>3, <2>4 DEF SigpipeNeedsLostReader
  <2> QED
    BY <1>3, <2>1, <2>5 DEF ExitInv, UseAfterFreeNeedsOverlap
<1> QED
  BY <1>4, <1>5, <1>6

\* Whatever step is taken, the sessions go on.
LEMMA ExitKeepsSession ==
    ASSUME ExitInv, UNCHANGED vars \/ [Step]_vars
    PROVE  SessionInv'
  BY NextSession DEF ExitInv

\* The invariant is inductive.
LEMMA NextExitInv == ExitInv /\ [NextExit]_exitvars => ExitInv'
<1> SUFFICES ASSUME ExitInv, [NextExit]_exitvars PROVE ExitInv'
  OBVIOUS
<1>1. SessionInv /\ ExitTypes /\ TypesInv
  BY DEF ExitInv, SessionInv
<1>2. CASE UNCHANGED exitvars
  <2>1. /\ UNCHANGED <<vars, wvars, fault, kpc, victim, opt, pending, left, overtaken>>
        /\ UNCHANGED <<mode, SERVER_STOP, option, listener>>
    BY <1>2 DEF exitvars, allvars, kvars, svars
  <2>2. SessionInv'
    BY <2>1, ExitKeepsSession
  <2>3. ExitTypes'
    BY <1>1, <2>1 DEF ExitTypes, wvars
  <2>4. CASE fault = "none"
    <3>1. Settled
      BY <2>4 DEF ExitInv, Settled
    <3>2. kpc # "getline" => victim' \in Task /\ (Queued(victim') \/ overtaken')
      BY <2>1, <3>1 DEF Settled, Control
    <3>3. Settled'
      BY <1>1, <2>1, <3>1, <3>2, CommandSettled
    <3> QED
      BY <2>1, <2>2, <2>3, <2>4, <3>3, SettlesExit
  <2>5. CASE fault # "none"
    <3>1. /\ UseAfterFreeNeedsOverlap' /\ SigpipeNeedsLostReader' /\ ExitCancelsAll'
          /\ fault' # "none"
      BY <2>1, <2>5 DEF ExitInv, UseAfterFreeNeedsOverlap, SigpipeNeedsLostReader, ExitCancelsAll,
         vars, cvars, wvars
    <3> QED
      BY <2>2, <2>3, <3>1 DEF ExitInv
  <2> QED
    BY <2>4, <2>5
<1>3. CASE NextExit
  <2>1. fault = "none" /\ Settled /\ ExitTypes'
    <3>1. fault = "none"
      BY <1>3 DEF NextExit
    <3>2. Settled
      BY <3>1 DEF ExitInv, Settled
    <3> QED
      BY <1>1, <1>3, <3>1, <3>2, NextExitTypes
  <2>2. ASSUME NEW c \in Client, ClientRuns(c) \/ ClientDies(c) \/ Serve(c) \/ Unheard(c)
        PROVE  ExitInv'
    <3>1. CASE ReadMarker(c) /\ Meanwhile /\ UNCHANGED svars
      <4>1. SessionInv' /\ fault' = fault /\ Passing
        BY <1>1, <3>1, ReadMarkerKeeps, MeanwhilePasses DEF ReadMarker, svars
      <4> QED
        BY <1>1, <2>1, <3>1, <4>1, ReadMarkerSettled, SettlesExit
    <3>2. CASE /\ Request(c) \/ GetResult(c) \/ Interrupt(c)
               /\ UNCHANGED kvars /\ Passing
      <4>1. UNCHANGED <<kpc, victim, fault, overtaken>>
        BY <3>2 DEF kvars
      <4>2. SessionInv'
        BY <3>2, ExitKeepsSession DEF Step
      <4> QED
        BY <1>1, <2>1, <3>2, <4>1, <4>2, SessionStepsKeep
    <3>3. CASE Unheard(c)
      <4>1. Request(c) /\ UNCHANGED kvars /\ UNCHANGED <<mode, wvars, queue>>
        BY <3>3 DEF Unheard, Request, NewRequest, svars
      <4>2. Passing
        <5>1. \A t : Queued(t)' <=> Queued(t)
          BY <4>1 DEF Queued
        <5>2. link = [t \in Task |-> link[t]] /\ link' = link
          BY <1>1, <4>1 DEF ExitTypes, wvars
        <5>3. [t \in Task |-> IF mode = "walk" /\ Queued(t) /\ ~Queued(t)' THEN Next1(t) ELSE link[t]]
                = [t \in Task |-> link[t]]
          BY <5>1, Zenon
        <5>4. late' = late \cup {c2 \in Client : /\ mode = "walk"
                                              /\ \E t \in Task : Owner(t) = c2 /\ ~Queued(t) /\ Queued(t)'}
          BY <1>1, <4>1, <5>1 DEF ExitTypes, wvars
        <5> QED
          BY <4>1, <5>2, <5>3, <5>4 DEF Passing, wvars
      <4> QED
        BY <3>2, <4>1, <4>2
    <3>4. CASE (GetResult(c) \/ Interrupt(c)) /\ UNCHANGED kvars /\ Meanwhile /\ UNCHANGED svars
      BY <3>2, <3>4, MeanwhilePasses DEF svars
    <3>5. CASE Serve(c)
      <4>1. Request(c) /\ UNCHANGED kvars /\ Passing
        BY <3>5, MeanwhilePasses DEF Serve, SendRequest, Request, NewRequest
      <4> QED
        BY <3>2, <4>1
    <3> QED
      BY <2>2, <3>1, <3>3, <3>4, <3>5 DEF ClientRuns, ClientDies
  <2>3. ASSUME NEW t \in Task, ThreadRuns(t) PROVE ExitInv'
    <3>1. Passing /\ mode' = mode /\ late \subseteq late'
      BY <2>3, MeanwhilePasses DEF ThreadRuns, svars, Meanwhile
    <3>2. CASE Die(t)
      <4>1. /\ tpc[t] \in {"run", "close"} /\ tpc' = [tpc EXCEPT ![t] = "killed"] /\ fault' = fault
            /\ UNCHANGED <<cvars, tfd, wrote, pipe, name, made, queue, stale>>
        BY <3>2 DEF Die, kvars
      <4>2. SessionInv'
        BY <1>1, <4>1, EndingKeeps
      <4>3. Settled'
        BY <1>1, <2>1, <3>1, <3>2, DieSettled
      <4> QED
        BY <2>1, <4>1, <4>2, <4>3, SettlesExit
    <3>3. CASE ThreadStep(t)
      <4>1. /\ ProcessRequest(t) /\ UNCHANGED <<kpc, victim>>
            /\ overtaken' = (overtaken \/ (t = victim /\ tpc[t] = "remove"))
            /\ fault' = IF tpc'[t] = "dead" THEN "SIGPIPE" ELSE fault
        BY <3>3 DEF ThreadStep
      <4>2. SessionInv'
        BY <4>1, ExitKeepsSession DEF Step
      <4>3. CASE WriteFails(t)
        <5>1. tpc'[t] = "dead"
          BY <4>3 DEF WriteFails
        <5> QED
          BY <2>1, <3>1, <4>1, <4>2, <4>3, <5>1, WriteFailsKeeps
      <4>4. CASE ~WriteFails(t)
        <5>1. fault' = "none"
          BY <1>1, <2>1, <4>1, <4>4, ThreadStepThreads
        <5> QED
          BY <1>1, <2>1, <3>1, <4>1, <4>2, <4>4, <5>1, SessionStepsKeep
      <4> QED
        BY <4>3, <4>4
    <3> QED
      BY <2>3, <3>2, <3>3 DEF ThreadRuns
  <2>4. ASSUME NEW c \in Client, NEW o, Cancel(c, o) PROVE ExitInv'
    <3>1. queue \in Seq(Task)
      BY <1>1 DEF TypesInv, Types, Lists
    <3>2. /\ mode = "serve" /\ mode' = "test" /\ UNCHANGED <<vars, wvars, fault>>
          /\ kpc = "getline" /\ kpc' = "cancel" /\ victim' \in Task /\ Queued(victim')
      BY <2>4, <3>1, FindsQueued DEF Cancel, svars
    <3>3. SessionInv'
      BY <3>2, ExitKeepsSession
    <3>4. Settled'
      BY <1>1, <2>1, <3>2, CommandSettled
    <3> QED
      BY <2>1, <3>2, <3>3, <3>4, SettlesExit
  <2>5. ASSUME OtherCommand \/ \E o \in {INTERRUPT, SHUTDOWN} : TypeExit(o) PROVE ExitInv'
    <3>1. mode = "serve" /\ mode' = "test" /\ UNCHANGED <<vars, wvars, fault, kpc, victim>>
      BY <2>5 DEF TypeExit, OtherCommand, allvars, kvars
    <3>2. SessionInv'
      BY <3>1, ExitKeepsSession
    <3>3. kpc = "getline"
      BY <1>1, <2>1, <3>1 DEF Settled, Control, ExitTypes
    <3>4. Settled'
      BY <1>1, <2>1, <3>1, <3>3, CommandSettled
    <3> QED
      BY <2>1, <3>1, <3>2, <3>4, SettlesExit
  <2>6. CASE ListenerStart \/ ListenerFails
    <3>1. UNCHANGED <<vars, wvars, fault, kpc, victim, overtaken, mode>>
      BY <2>6 DEF ListenerStart, ListenerFails, allvars, kvars
    <3>2. SessionInv'
      BY <3>1, ExitKeepsSession
    <3>3. kpc' # "getline" => victim' \in Task /\ (Queued(victim') \/ overtaken')
      BY <2>1, <3>1 DEF Settled, Control
    <3>4. Settled'
      BY <1>1, <2>1, <3>1, <3>3, CommandSettled
    <3> QED
      BY <2>1, <3>1, <3>2, <3>4, SettlesExit
  <2>7. CASE LoopTest
    <3>1. UNCHANGED <<vars, fault>>
      BY <2>7 DEF LoopTest, allvars, kvars
    <3> QED
      BY <1>1, <2>1, <2>7, <3>1, ExitKeepsSession, LoopTestSettled, SettlesExit
  <2>8. CASE ConsoleRuns
    <3>1. Passing /\ mode' = mode
      BY <2>8, MeanwhilePasses DEF ConsoleRuns, svars
    <3>2. CASE PthreadCancel \/ PthreadJoin
      <4>1. UNCHANGED <<vars, fault>>
        BY <3>2 DEF PthreadCancel, PthreadJoin
      <4> QED
        BY <1>1, <2>1, <3>1, <3>2, <4>1, ExitKeepsSession, JoinSettled, SettlesExit
    <3>3. CASE WriteMarker
      BY <1>1, <2>1, <3>1, <3>3, WriteMarkerSettled, SettlesExit DEF WriteMarker
    <3>4. CASE CloseFifo
      BY <1>1, <2>1, <3>1, <3>4, CloseFifoSettled, SettlesExit DEF CloseFifo
    <3>5. CASE UnlinkFifo
      BY <1>1, <2>1, <3>1, <3>5, UnlinkFifoSettled, SettlesExit DEF UnlinkFifo
    <3>6. CASE RemoveVictim
      <4>1. SessionInv'
        <5>1. queue' \in Seq(Task) 
          <6>1. PICK k \in 1..Len(queue) : queue' = RemoveAt(queue, k)
            BY <3>6, QueueCalls DEF RemoveVictim
          <6> QED
            BY <1>1, <6>1, RemoveAtProperties DEF TypesInv, Types, Lists
        <5>2. UNCHANGED <<cpc, nreq, cfd, shown, misled, tpc, tfd, wrote, pipe, name, made, stale>>
          BY <3>6 DEF RemoveVictim, cvars, tvars
        <5>3. TypesInv'
          BY <1>1, <5>1, <5>2 DEF TypesInv, Types, Shape, Bounds, Lists, Numbering
        <5>4. ASSUME ~stale, NEW c \in Client PROVE Meeting(c)'
          <6>1. Meeting(c)
            BY <1>1, <5>4 DEF SessionInv
          <6>2. Untouched(c) /\ (ServerDead => ServerDead')
            BY <5>2 DEF Untouched, ServerDead
          <6> QED
            BY <1>1, <6>1, <6>2, UntouchedMeets
        <5> QED
          BY <5>2, <5>3, <5>4 DEF SessionInv
      <4>2. fault' = fault
        BY <3>6 DEF RemoveVictim
      <4> QED
        BY <1>1, <2>1, <3>1, <3>6, <4>1, <4>2, RemoveVictimSettled, SettlesExit
    <3>7. CASE Blunder
      <4>1. UNCHANGED <<vars, mode>> /\ late' = late
        <5>1. UNCHANGED <<vars, mode, queue>>
          BY <3>1, <3>7 DEF Blunder, vars
        <5>2. \A t : Queued(t)' <=> Queued(t)
          BY <5>1 DEF Queued
        <5> QED
          BY <1>1, <3>1, <5>1, <5>2 DEF Passing, ExitTypes
      <4> QED
        BY <2>1, <3>7, <4>1, ExitKeepsSession, BlunderKeeps
    <3> QED
      BY <2>8, <3>2, <3>3, <3>4, <3>5, <3>6, <3>7 DEF ConsoleRuns, CancelClient
  <2>9. CASE WalkCancel
    <3>1. UNCHANGED <<vars, fault>>
      BY <2>9 DEF WalkCancel, Find
    <3> QED
      BY <1>1, <2>1, <2>9, <3>1, ExitKeepsSession, WalkCancelSettled, SettlesExit
  <2>10. CASE WalkInvalid \/ WalkNext
    <3>1. UNCHANGED <<vars, fault>>
      BY <2>10 DEF WalkInvalid, WalkNext, allvars, kvars
    <3> QED
      BY <1>1, <2>1, <2>10, <3>1, ExitKeepsSession, WalkOnSettled, SettlesExit
  <2>11. CASE WalkBlunder
    <3>1. UNCHANGED <<vars, mode, late, reused>>
      BY <2>11 DEF WalkBlunder, svars, wvars
    <3> QED
      BY <2>1, <2>11, <3>1, ExitKeepsSession, BlunderKeeps
  <2>12. CASE Exit
    BY <1>1, <2>1, <2>12, ExitSettled, SettlesExit DEF Exit, kvars
  <2> QED
    BY <1>3, <2>2, <2>3, <2>4, <2>5, <2>6, <2>7, <2>8, <2>9, <2>10, <2>11, <2>12
       DEF NextExit, Walk
<1> QED
  BY <1>2, <1>3

\* It holds at the start.
LEMMA InitExitInv == InitExit => ExitInv
<1> SUFFICES ASSUME InitExit PROVE ExitInv
  OBVIOUS
<1>1. /\ Init /\ kpc = "getline" /\ victim = NoTask /\ opt = INTERRUPT /\ pending = {} /\ left = {}
      /\ fault = "none" /\ overtaken = FALSE /\ mode = "serve" /\ SERVER_STOP = FALSE
      /\ option = INTERRUPT /\ listener = "created" /\ wpc = "visit" /\ curr = NoTask
      /\ link = [t \in Task |-> NoTask] /\ reused = FALSE /\ late = {}
  BY DEF InitExit, InitConsole
<1>2. /\ queue = <<>> /\ \A t \in Task : tpc[t] = "none"
      /\ \A c \in Client : nreq[c] = 0 /\ pipe[c] = <<>>
  BY <1>1 DEF Init, TL!Init
<1>3. ExitTypes
  BY <1>1 DEF ExitTypes
<1>4. Control
  BY <1>1, <1>2 DEF Control, ServerDead
<1>5. ~\E t : Queued(t)
  BY <1>2 DEF Queued
<1>6. Nodes
  BY <1>2, <1>5 DEF Nodes
<1>7. Cancelling
  <2>1. \A t \in Task : t[1] \in Client
    BY TaskIsPair
  <2> QED
    BY <1>2, <2>1 DEF Cancelling, Ended, Marked
<1>8. Walking
  BY <1>1 DEF Walking
<1>9. UseAfterFreeNeedsOverlap /\ SigpipeNeedsLostReader /\ ExitCancelsAll
  BY <1>1 DEF UseAfterFreeNeedsOverlap, SigpipeNeedsLostReader, ExitCancelsAll
<1> QED
  BY <1>1, <1>3, <1>4, <1>6, <1>7, <1>8, <1>9, InitSession DEF ExitInv

\* The server's invariant.
LEMMA ExitIsInvariant == SpecExit => []ExitInv
  BY InitExitInv, NextExitInv, PTL DEF SpecExit

-----------------------------------------------------------------------------
(* What follows.                                                           *)

\* Type correctness of the whole server.
THEOREM ExitTypeCorrect == SpecExit => []TypeOKExit
<1>1. ExitInv => TypeOKExit
  <2> SUFFICES ASSUME ExitInv PROVE TypeOKExit
    OBVIOUS
  <2>1. TypeOK /\ ExitTypes
    BY TypesAreOK DEF ExitInv, SessionInv
  <2> QED
    BY <2>1 DEF TypeOKExit, TypeOKConsole, ExitTypes
<1> QED
  BY <1>1, ExitIsInvariant, PTL

\* The console, in cancelClient and in the walk, uses a freed node to bad
\* effect only when the victim's thread took its node out meanwhile, or when
\* memory was allocated after the walk's node had been freed.
THEOREM CancellingIsClean == SpecExit => []UseAfterFreeNeedsOverlap
<1>1. ExitInv => UseAfterFreeNeedsOverlap
  BY DEF ExitInv
<1> QED
  BY <1>1, ExitIsInvariant, PTL

\* The server dies of a SIGPIPE only after a client was interrupted or took a
\* line of output for a shutdown, or a FIFO's name was unlinked by a side that
\* had not used it.
THEOREM ServerSurvives == SpecExit => []SigpipeNeedsLostReader
<1>1. ExitInv => SigpipeNeedsLostReader
  BY DEF ExitInv
<1> QED
  BY <1>1, ExitIsInvariant, PTL

\* The marker is the last thing a cancelled client reads.
THEOREM MarkerComesLast == SpecExit => []NothingFollowsMarker
<1>1. ExitInv => NothingFollowsMarker
  <2> SUFFICES ASSUME ExitInv, ~stale, NEW c \in Client, NEW i \in 1..Len(pipe[c]),
                      IsMarker(pipe[c][i])
               PROVE  i = Len(pipe[c])
    BY DEF NothingFollowsMarker
  <2>1. LinesInOrder(c)
    BY DEF ExitInv, SessionInv, Meeting
  <2>2. cpc[c] \in {"read", "close", "unlink"}
    <3> SUFFICES ASSUME cpc[c] \notin {"read", "close", "unlink"} PROVE FALSE
      OBVIOUS
    <3>1. pipe[c] = <<>>
      BY <2>1 DEF LinesInOrder
    <3> QED
      BY <3>1
  <2> QED
    BY <2>1, <2>2 DEF LinesInOrder
<1> QED
  BY <1>1, ExitIsInvariant, PTL

\* When the server has ended, its walk has cancelled every task that was queued
\* when it began and had not ended by itself, whatever was freed or added
\* meanwhile; only of a client that got another task during the walk it may
\* have missed one.
THEOREM WalkCancelsAll == SpecExit => []ExitCancelsAll
<1>1. ExitInv => ExitCancelsAll
  BY DEF ExitInv
<1> QED
  BY <1>1, ExitIsInvariant, PTL

====
