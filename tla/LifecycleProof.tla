--------------------------- MODULE LifecycleProof ---------------------------
(***************************************************************************)
(* Proofs about Lifecycle, for any processes and bounds: two servers never *)
(* share a segment, and the name is only taken while a process that will   *)
(* unlink it is there or after one has died.  Kills and -x are included.   *)
(***************************************************************************)
EXTENDS Lifecycle, TLAPS

Makers == ServerPC \cup {"c_clean"}

\* Each segment has one maker.
OneMaker ==
    \A p, q \in Process :
        (p # q /\ pc[p] \in Makers /\ pc[q] \in Makers /\ seg[p] = seg[q]) => seg[p] = 0

\* A server that holds a segment and has got beyond mmap will run its handler.
HandlerPending ==
    \A p \in Process :
        (pc[p] \in {"s_map", "up", "s_exit"} /\ seg[p] # 0) => handlers[p] > 0

\* A process that is between two commands has no segment open.
HoldsNothing == \A p \in Process : pc[p] \in {"off", "prompt"} => seg[p] = 0

IInv == TypeOK /\ OneMaker /\ HandlerPending /\ HoldsNothing /\ NameHasKeeper

LEMMA Initiation == Init => IInv
BY BoundAssumption DEF Init, IInv, TypeOK, OneMaker, HandlerPending, HoldsNothing, NameHasKeeper,
                       Makers, ServerPC, ClientPC

\* What an exclusive open does to the invariant, for a process that starts to
\* keep the segment it makes.
LEMMA CreateKeeps ==
    ASSUME IInv, NEW p \in Process, pc[p] \in {"off", "prompt"}, CreateExclusive(p),
           NEW there \in {"s_open", "c_clean"}, Goto(p, there),
           serverdown' \in [Process -> BOOLEAN], UNCHANGED <<handlers, orphan>>
    PROVE  IInv'
<1> USE DEF IInv, TypeOK, HoldsNothing, ServerPC, ClientPC, CreateExclusive, Goto
<1>1. made + 1 \in 0..made' /\ made' \in 0..MaxSegments /\ 0..made \subseteq 0..made'
  BY BoundAssumption
<1>2. TypeOK'
  BY <1>1
<1>3. OneMaker'
  BY BoundAssumption DEF OneMaker, Makers
<1>4. HandlerPending'
  BY DEF HandlerPending
<1>5. NameHasKeeper'
  BY BoundAssumption DEF NameHasKeeper, Keeps
<1> QED
  BY <1>2, <1>3, <1>4, <1>5

LEMMA Invariance == IInv /\ [Next]_vars => IInv'
<1> SUFFICES ASSUME IInv, [Next]_vars PROVE IInv'
  OBVIOUS
<1> USE DEF IInv, TypeOK, HoldsNothing, Makers, ServerPC, ClientPC
<1>1. CASE UNCHANGED vars
  BY <1>1 DEF vars, OneMaker, HandlerPending, NameHasKeeper, Keeps
<1>2. ASSUME NEW p \in Process, ServerOpen(p) PROVE IInv'
  BY <1>2, CreateKeeps DEF ServerOpen
<1>3. ASSUME NEW p \in Process, ClientCreates(p) PROVE IInv'
  BY <1>3, CreateKeeps DEF ClientCreates
<1>4. ASSUME NEW p \in Process, ServerRefused(p) PROVE IInv'
  BY <1>4 DEF ServerRefused, Goto, OneMaker, HandlerPending, NameHasKeeper, Keeps
<1>5. ASSUME NEW p \in Process, ServerMap(p) PROVE IInv'
  <2> USE <1>5 DEF ServerMap, Goto
  <2>1. TypeOK'
    BY BoundAssumption
  <2>2. OneMaker'
    BY DEF OneMaker
  <2>3. HandlerPending'
    BY DEF HandlerPending
  <2>4. NameHasKeeper'
    BY DEF NameHasKeeper, Keeps
  <2> QED
    BY <2>1, <2>2, <2>3, <2>4 DEF IInv
<1>6. ASSUME NEW p \in Process, ServerMapFails(p) PROVE IInv'
  <2> USE <1>6 DEF ServerMapFails, Ended
  <2>0. seg[p] \in 0..made /\ orphan' \in SUBSET (0..made)
    OBVIOUS
  <2>1. TypeOK'
    BY <2>0
  <2>2. OneMaker'
    BY DEF OneMaker
  <2>3. HandlerPending'
    BY DEF HandlerPending
  <2>4. NameHasKeeper'
    BY DEF NameHasKeeper, Keeps
  <2> QED
    BY <2>1, <2>2, <2>3, <2>4 DEF IInv
<1>7. ASSUME NEW p \in Process, ServerInit(p) PROVE IInv'
  <2> USE <1>7 DEF ServerInit, Goto
  <2>1. TypeOK'
    BY BoundAssumption
  <2>2. OneMaker'
    BY DEF OneMaker
  <2>3. HandlerPending'
    BY DEF HandlerPending
  <2>4. NameHasKeeper'
    BY DEF NameHasKeeper, Keeps
  <2> QED
    BY <2>1, <2>2, <2>3, <2>4 DEF IInv
<1>8. ASSUME NEW p \in Process, ServerExit(p) \/ ServerInitFails(p) PROVE IInv'
  <2>1. CASE ServerExit(p)
    BY <2>1 DEF ServerExit, Goto, OneMaker, HandlerPending, NameHasKeeper, Keeps
  <2>2. CASE ServerInitFails(p)
    BY <2>2 DEF ServerInitFails, Goto, OneMaker, HandlerPending, NameHasKeeper, Keeps
  <2> QED
    BY <1>8, <2>1, <2>2
<1>9. ASSUME NEW p \in Process, ClientStart(p) \/ ClientExit(p)
      PROVE  IInv'
  <2>1. CASE ClientStart(p)
    BY <2>1 DEF ClientStart, Goto, OneMaker, HandlerPending, NameHasKeeper, Keeps
  <2>2. CASE ClientExit(p)
    BY <2>2 DEF ClientExit, Goto, OneMaker, HandlerPending, NameHasKeeper, Keeps
  <2> QED
    BY <1>9, <2>1, <2>2
<1>10. ASSUME NEW p \in Process, ClientCleans(p) PROVE IInv'
  <2> USE <1>10 DEF ClientCleans, Goto, Unlink
  <2>1. TypeOK'
    BY BoundAssumption
  <2>2. OneMaker'
    BY DEF OneMaker
  <2>3. HandlerPending'
    BY DEF HandlerPending
  <2>4. NameHasKeeper'
    BY DEF NameHasKeeper, Keeps
  <2> QED
    BY <2>1, <2>2, <2>3, <2>4 DEF IInv
<1>11. ASSUME NEW p \in Process,
              \/ ClientFindsServer(p) \/ ClientMissesServer(p) \/ ClientPosts(p)
              \/ ClientSetupFails(p) \/ ClientIsServed(p)
      PROVE  IInv'
  <2>1. CASE ClientFindsServer(p)
    BY <2>1 DEF ClientFindsServer, Goto, OneMaker, HandlerPending, NameHasKeeper, Keeps
  <2>2. CASE ClientMissesServer(p)
    BY <2>2 DEF ClientMissesServer, Goto, OneMaker, HandlerPending, NameHasKeeper, Keeps
  <2>3. CASE ClientPosts(p)
    BY <2>3 DEF ClientPosts, Goto, OneMaker, HandlerPending, NameHasKeeper, Keeps
  <2>4. CASE ClientSetupFails(p)
    BY <2>4 DEF ClientSetupFails, Goto, OneMaker, HandlerPending, NameHasKeeper, Keeps
  <2>5. CASE ClientIsServed(p)
    BY <2>5 DEF ClientIsServed, Goto, OneMaker, HandlerPending, NameHasKeeper, Keeps
  <2> QED
    BY <1>11, <2>1, <2>2, <2>3, <2>4, <2>5
<1>12. ASSUME NEW p \in Process, ClientConnects(p) PROVE IInv'
  <2> USE <1>12 DEF ClientConnects, Goto
  <2>1. TypeOK'
    BY BoundAssumption
  <2>2. OneMaker'
    BY DEF OneMaker
  <2>3. HandlerPending'
    BY DEF HandlerPending
  <2>4. NameHasKeeper'
    BY DEF NameHasKeeper, Keeps
  <2> QED
    BY <2>1, <2>2, <2>3, <2>4 DEF IInv
<1>13. ASSUME NEW p \in Process, ClientReturns(p) \/ ClientGivesUp(p) PROVE IInv'
  <2> USE DEF ClientReturns, ClientGivesUp, Goto
  <2>0. PICK there \in {"prompt", "c_exit"} :
           pc' = [pc EXCEPT ![p] = there] /\ seg' = [seg EXCEPT ![p] = 0]
           /\ UNCHANGED <<serverdown, handlers, name, made, orphan>>
           /\ pc[p] \in {"wait", "served"}
    BY <1>13
  <2>1. TypeOK'
    BY <2>0, BoundAssumption
  <2>2. OneMaker'
    BY <2>0 DEF OneMaker
  <2>3. HandlerPending'
    BY <2>0 DEF HandlerPending
  <2>4. NameHasKeeper'
    BY <2>0 DEF NameHasKeeper, Keeps
  <2> QED
    BY <2>0, <2>1, <2>2, <2>3, <2>4 DEF IInv
<1>14. ASSUME NEW p \in Process, RunHandler(p) PROVE IInv'
  <2> USE <1>14 DEF RunHandler, Unlink
  <2>1. TypeOK'
    BY BoundAssumption
  <2>2. OneMaker'
    BY DEF OneMaker
  <2>3. HandlerPending'
    BY DEF HandlerPending
  <2>4. NameHasKeeper'
    BY DEF NameHasKeeper, Keeps
  <2> QED
    BY <2>1, <2>2, <2>3, <2>4 DEF IInv
<1>15. ASSUME NEW p \in Process, End(p) PROVE IInv'
  <2> USE <1>15 DEF End, Ended
  <2>1. TypeOK'
    BY BoundAssumption
  <2>2. OneMaker'
    BY DEF OneMaker
  <2>3. HandlerPending'
    BY DEF HandlerPending
  <2>4. NameHasKeeper'
    BY DEF NameHasKeeper, Keeps, HandlerPending
  <2> QED
    BY <2>1, <2>2, <2>3, <2>4 DEF IInv
<1>16. ASSUME NEW p \in Process, Crash(p) PROVE IInv'
  <2> USE <1>16 DEF Crash, Ended
  <2>0. seg[p] \in 0..made /\ orphan' \in SUBSET (0..made)
    OBVIOUS
  <2>1. TypeOK'
    BY <2>0
  <2>2. OneMaker'
    BY DEF OneMaker
  <2>3. HandlerPending'
    BY DEF HandlerPending
  <2>4. NameHasKeeper'
    BY DEF NameHasKeeper, Keeps
  <2> QED
    BY <2>1, <2>2, <2>3, <2>4 DEF IInv
<1>17. ASSUME NEW p \in Process, CleanUp(p) PROVE IInv'
  BY <1>17 DEF CleanUp, Unlink, OneMaker, HandlerPending, NameHasKeeper, Keeps
<1>18. ASSUME NEW p \in Process, ClientOpenFails(p) PROVE IInv'
  <2> USE <1>18 DEF ClientOpenFails, Goto
  <2>1. TypeOK'
    BY BoundAssumption
  <2>2. OneMaker'
    BY DEF OneMaker
  <2>3. HandlerPending'
    BY DEF HandlerPending
  <2>4. NameHasKeeper'
    BY DEF NameHasKeeper, Keeps
  <2> QED
    BY <2>1, <2>2, <2>3, <2>4 DEF IInv
<1> QED
  BY <1>1, <1>2, <1>3, <1>4, <1>5, <1>6, <1>7, <1>8, <1>9, <1>10, <1>11, <1>12, <1>13,
     <1>14, <1>15, <1>16, <1>17, <1>18
  DEF Next, Gentle, Fails, Server, Client, ClientRuns

\* A segment that a server holds is held by no other server.
LEMMA NotShared == IInv => ServersDoNotShare
BY DEF IInv, OneMaker, Makers, ServersDoNotShare

-----------------------------------------------------------------------------
\* The variables keep their types, whatever the processes do.
THEOREM TypeCorrect == Spec => []TypeOK
<1>1. IInv => TypeOK
  BY DEF IInv
<1> QED
  BY <1>1, Initiation, Invariance, PTL DEF Spec

\* No two servers ever listen to one segment (the exclusive open of
\* cs_setupConnectionAccess_shmIPC), also with kills, -x and clients that
\* unlink the name at the wrong moment.
THEOREM SegmentsAreNotShared == Spec => []ServersDoNotShare
BY NotShared, Initiation, Invariance, PTL DEF Spec

\* The name is only taken as long as a process is there that will unlink it,
\* unless one has died without running its exit handlers (cs_cleanup_shm).
THEOREM NameIsKept == Spec => []NameHasKeeper
<1>1. IInv => NameHasKeeper
  BY DEF IInv
<1> QED
  BY <1>1, Initiation, Invariance, PTL DEF Spec

=============================================================================
