----------------------------- MODULE Lifecycle ------------------------------
(***************************************************************************)
(* How servers and clients come, meet and go: the name of the shared       *)
(* memory segment, which a server creates exclusively and a client uses to *)
(* find out whether there is a server (cs_setupConnectionAccess_shmIPC),   *)
(* the exit handlers that unlink it (cs_cleanup_shm), the option -x, and   *)
(* processes that die without running their handlers.                      *)
(*                                                                         *)
(* A segment is its inode: unlinking the name leaves the segment to those  *)
(* who have mapped it, and the next exclusive open makes a new one.  What  *)
(* is put into a segment is RequestSlot's concern.                         *)
(***************************************************************************)
EXTENDS Integers

CONSTANTS Process,       \* the processes; one that has ended may be started again
          MaxSegments,   \* bound: segments made
          MaxHandlers    \* bound: connections one client makes

ASSUME BoundAssumption == MaxSegments \in Nat \ {0} /\ MaxHandlers \in Nat \ {0}

VARIABLES pc,           \* where each process stands; "off" before it is started
          seg,          \* the segment a process has opened or mapped, 0 for none
          serverdown,   \* the client's variable of that name
          handlers,     \* registrations of cs_cleanup_shm with atexit
          name,         \* the segment /sjdavids_SERVER refers to, 0 for none
          made,         \* segments made so far
          orphan        \* history: segments whose maker died without its handlers

vars == <<pc, seg, serverdown, handlers, name, made, orphan>>

Init ==
    /\ pc = [p \in Process |-> "off"]
    /\ seg = [p \in Process |-> 0]
    /\ serverdown = [p \in Process |-> TRUE]
    /\ handlers = [p \in Process |-> 0]
    /\ name = 0
    /\ made = 0
    /\ orphan = {}

ServerPC == {"s_open", "s_map", "up", "s_exit"}
ClientPC == {"prompt", "c_open", "post", "wait", "served", "c_clean", "c_exit"}

\* The processes whose duty it is to unlink segment i.
Keeps(p, i) == seg[p] = i /\ pc[p] \in ServerPC \cup {"c_clean"}

\* The process ends; its variables start afresh in the next one.
Ended(p) ==
    /\ pc' = [pc EXCEPT ![p] = "off"]
    /\ seg' = [seg EXCEPT ![p] = 0]
    /\ serverdown' = [serverdown EXCEPT ![p] = TRUE]
    /\ handlers' = [handlers EXCEPT ![p] = 0]

Goto(p, there) == pc' = [pc EXCEPT ![p] = there]

-----------------------------------------------------------------------------
(* cs_setupConnectionAccess_shmIPC: the exclusive open.                    *)

\* Faulty variant: the open is not exclusive.
CreateExclusive_Shared(p) ==
    /\ IF name = 0 THEN made < MaxSegments /\ made' = made + 1 ELSE UNCHANGED made
    /\ name' = IF name = 0 THEN made + 1 ELSE name
    /\ seg' = [seg EXCEPT ![p] = name']

CreateExclusive(p) ==
    /\ name = 0
    /\ made < MaxSegments
    /\ made' = made + 1
    /\ name' = made + 1
    /\ seg' = [seg EXCEPT ![p] = made + 1]

\* Faulty variant: the exit handler forgets shm_unlink.
Unlink_Forgotten == UNCHANGED name

\* shm_unlink in cs_cleanup_shm: the name goes, whichever segment it means.
Unlink == name' = 0

-----------------------------------------------------------------------------
(* A server: option -s, do_serverMain.                                     *)

ServerOpen(p) ==
    /\ pc[p] = "off"
    /\ CreateExclusive(p)
    /\ Goto(p, "s_open")
    /\ UNCHANGED <<serverdown, handlers, orphan>>

\* "SERVER Already Up"; the process ends in the next step.
ServerRefused(p) ==
    /\ pc[p] = "off"
    /\ name # 0
    /\ Goto(p, "refused")
    /\ UNCHANGED <<seg, serverdown, handlers, name, made, orphan>>

\* ftruncate, mmap and the registration of the handler.
ServerMap(p) ==
    /\ pc[p] = "s_open"
    /\ handlers' = [handlers EXCEPT ![p] = 1]
    /\ Goto(p, "s_map")
    /\ UNCHANGED <<seg, serverdown, name, made, orphan>>

\* One of them fails: the process exits with the name taken and no handler.
ServerMapFails(p) ==
    /\ pc[p] = "s_open"
    /\ orphan' = orphan \cup {seg[p]}
    /\ Ended(p)
    /\ UNCHANGED <<name, made>>

\* memset and sem_init; the listener starts.
ServerInit(p) ==
    /\ pc[p] = "s_map"
    /\ Goto(p, "up")
    /\ serverdown' = [serverdown EXCEPT ![p] = FALSE]
    /\ UNCHANGED <<seg, handlers, name, made, orphan>>

\* sem_init or the second registration fails: the process exits through the
\* handler.
ServerInitFails(p) ==
    /\ pc[p] = "s_map"
    /\ Goto(p, "s_exit")
    /\ UNCHANGED <<seg, serverdown, handlers, name, made, orphan>>

\* The console's "exit" and "shutdownall".
ServerExit(p) ==
    /\ pc[p] = "up"
    /\ Goto(p, "s_exit")
    /\ UNCHANGED <<seg, serverdown, handlers, name, made, orphan>>

-----------------------------------------------------------------------------
(* A client: option -c, do_clientMain, c_loadRequest_shm.                  *)

ClientStart(p) ==
    /\ pc[p] = "off"
    /\ Goto(p, "prompt")
    /\ UNCHANGED <<seg, serverdown, handlers, name, made, orphan>>

ClientExit(p) ==
    /\ pc[p] = "prompt"
    /\ Goto(p, "c_exit")
    /\ UNCHANGED <<seg, serverdown, handlers, name, made, orphan>>

\* A command is typed.  The client tells that there is no server by
\* succeeding in creating the segment.
ClientCreates(p) ==
    /\ pc[p] = "prompt"
    /\ CreateExclusive(p)
    /\ serverdown' = [serverdown EXCEPT ![p] = TRUE]
    /\ Goto(p, "c_clean")
    /\ UNCHANGED <<handlers, orphan>>

\* The exclusive open fails for another reason than EEXIST.  The code takes
\* that for the absence of a server too, though one may hold the name.
ClientOpenFails(p) ==
    /\ pc[p] = "prompt"
    /\ serverdown' = [serverdown EXCEPT ![p] = TRUE]
    /\ Goto(p, "c_clean")
    /\ UNCHANGED <<seg, handlers, name, made, orphan>>

\* cs_cleanup_shm of the failing setup; do_clientMain returns.
ClientCleans(p) ==
    /\ pc[p] = "c_clean"
    /\ Unlink
    /\ seg' = [seg EXCEPT ![p] = 0]
    /\ Goto(p, "c_exit")
    /\ UNCHANGED <<serverdown, handlers, made, orphan>>

\* EEXIST: the server is up.
ClientFindsServer(p) ==
    /\ pc[p] = "prompt"
    /\ name # 0
    /\ handlers[p] < MaxHandlers
    /\ Goto(p, "c_open")
    /\ UNCHANGED <<seg, serverdown, handlers, name, made, orphan>>

\* The second open, the mapping and the registration of the handler.
ClientConnects(p) ==
    /\ pc[p] = "c_open"
    /\ name # 0
    /\ seg' = [seg EXCEPT ![p] = name]
    /\ handlers' = [handlers EXCEPT ![p] = @ + 1]
    /\ serverdown' = [serverdown EXCEPT ![p] = FALSE]
    /\ Goto(p, "post")
    /\ UNCHANGED <<name, made, orphan>>

\* The name went in between; do_clientMain returns.
ClientMissesServer(p) ==
    /\ pc[p] = "c_open"
    /\ name = 0
    /\ Goto(p, "c_exit")
    /\ UNCHANGED <<seg, serverdown, handlers, name, made, orphan>>

\* The second open, ftruncate, mmap, the registration or sem_post fails;
\* do_clientMain returns, with serverdown as the last command left it.
ClientSetupFails(p) ==
    /\ pc[p] \in {"c_open", "post"}
    /\ Goto(p, "c_exit")
    /\ UNCHANGED <<seg, serverdown, handlers, name, made, orphan>>

ClientPosts(p) ==
    /\ pc[p] = "post"
    /\ Goto(p, "wait")
    /\ UNCHANGED <<seg, serverdown, handlers, name, made, orphan>>

\* A thread of the server that listens to the segment has opened the client's
\* FIFO; how, and what can keep it from that, is told by Session.
ClientIsServed(p) ==
    /\ pc[p] = "wait"
    /\ \E q \in Process : pc[q] = "up" /\ seg[q] = seg[p]
    /\ Goto(p, "served")
    /\ UNCHANGED <<seg, serverdown, handlers, name, made, orphan>>

\* c_getResult_FIFO has read to the end of the result or to the server's
\* demand to shut down.  Then cs_cleanup_shm only unmaps the segment.
ClientReturns(p) ==
    /\ pc[p] = "served"
    /\ seg' = [seg EXCEPT ![p] = 0]
    /\ \E there \in {"prompt", "c_exit"} : Goto(p, there)
    /\ UNCHANGED <<serverdown, handlers, name, made, orphan>>

\* mkfifo or open fails in c_getResult_FIFO: the client goes on without a
\* result.
ClientGivesUp(p) ==
    /\ pc[p] = "wait"
    /\ seg' = [seg EXCEPT ![p] = 0]
    /\ Goto(p, "prompt")
    /\ UNCHANGED <<serverdown, handlers, name, made, orphan>>

-----------------------------------------------------------------------------
(* The end of a process.                                                   *)

\* Faulty variant: the handler runs though it was never registered.
RunHandler_Always(p) ==
    /\ pc[p] \in {"s_exit", "c_exit"}
    /\ handlers' = [handlers EXCEPT ![p] = @ - 1]
    /\ IF pc[p] = "s_exit" \/ serverdown[p] THEN Unlink ELSE UNCHANGED name
    /\ seg' = [seg EXCEPT ![p] = 0]
    /\ UNCHANGED <<pc, serverdown, made, orphan>>

\* One run of cs_cleanup_shm out of exit().  A server unlinks the name, a
\* client does when it last found no server.
RunHandler(p) ==
    /\ pc[p] \in {"s_exit", "c_exit"}
    /\ handlers[p] > 0
    /\ handlers' = [handlers EXCEPT ![p] = @ - 1]
    /\ IF pc[p] = "s_exit" \/ serverdown[p] THEN Unlink ELSE UNCHANGED name
    /\ seg' = [seg EXCEPT ![p] = 0]
    /\ UNCHANGED <<pc, serverdown, made, orphan>>

End(p) ==
    /\ \/ pc[p] \in {"s_exit", "c_exit"} /\ handlers[p] = 0
       \/ pc[p] = "refused"
    /\ Ended(p)
    /\ UNCHANGED <<name, made, orphan>>

\* A signal, of the user or of a write without a reader, kills the process.
Crash(p) ==
    /\ pc[p] \in ServerPC \cup ClientPC
    /\ orphan' = IF pc[p] \in ServerPC \cup {"c_clean"} THEN orphan \cup {seg[p]} ELSE orphan
    /\ Ended(p)
    /\ UNCHANGED <<name, made>>

\* Option -x.
CleanUp(p) ==
    /\ pc[p] = "off"
    /\ Unlink
    /\ UNCHANGED <<pc, seg, serverdown, handlers, made, orphan>>

-----------------------------------------------------------------------------
Server(p) ==
    ServerOpen(p) \/ ServerRefused(p) \/ ServerMap(p) \/ ServerInit(p) \/ ServerExit(p)

ClientRuns(p) ==
    ClientCleans(p) \/ ClientConnects(p) \/ ClientMissesServer(p) \/ ClientPosts(p)

Client(p) ==
    ClientStart(p) \/ ClientExit(p) \/ ClientCreates(p) \/ ClientFindsServer(p)
    \/ ClientRuns(p) \/ ClientIsServed(p) \/ ClientReturns(p)

\* A system call fails that the code checks.
Fails(p) ==
    ServerMapFails(p) \/ ServerInitFails(p)
    \/ ClientOpenFails(p) \/ ClientSetupFails(p) \/ ClientGivesUp(p)

\* What happens when no system call fails, nobody sends a signal and nobody
\* uses -x.
Gentle(p) == Server(p) \/ Client(p) \/ RunHandler(p) \/ End(p)

Next == \E p \in Process : Gentle(p) \/ Fails(p) \/ Crash(p) \/ CleanUp(p)

Spec == Init /\ [][Next]_vars

GentleSpec == Init /\ [][\E p \in Process : Gentle(p)]_vars

\* A process that can run does; users need not type or start anything.
FairSpec ==
    /\ Spec
    /\ \A p \in Process :
          /\ WF_vars(ServerMap(p) \/ ServerInit(p))
          /\ WF_vars(ClientRuns(p))
          /\ WF_vars(RunHandler(p) \/ End(p))

-----------------------------------------------------------------------------
(* Properties.                                                             *)

TypeOK ==
    /\ pc \in [Process -> ServerPC \cup ClientPC \cup {"off", "refused"}]
    /\ made \in 0..MaxSegments
    /\ seg \in [Process -> 0..made]
    /\ serverdown \in [Process -> BOOLEAN]
    /\ handlers \in [Process -> Nat]
    /\ name \in 0..made
    /\ orphan \in SUBSET (0..made)

\* Two servers never listen to the same segment, whatever is killed and
\* whatever is unlinked.
ServersDoNotShare ==
    \A p, q \in Process :
        (p # q /\ pc[p] \in ServerPC /\ seg[p] # 0) => ~(pc[q] \in ServerPC /\ seg[q] = seg[p])

\* The name is only taken while a process that will unlink it is there, or
\* after such a process has died without its handlers: when all have ended
\* in an orderly way, the next server can start.
NameHasKeeper ==
    name # 0 => (\E p \in Process : Keeps(p, name)) \/ name \in orphan

\* The process that has made a segment gives its name back when it ends or
\* finds that it should not have made it, unless it is killed.
NamesAreGivenBack ==
    \A p \in Process : \A i \in 1..MaxSegments :
        (seg[p] = i /\ pc[p] \in {"s_exit", "c_clean"}) ~> (name # i \/ i \in orphan)

\* "exclusive open ERROR - multiple servers not allowed": there is one server
\* at a time, if no system call fails, nobody kills a process or uses -x.
OneServerUp == \A p, q \in Process : pc[p] = "up" /\ pc[q] = "up" => p = q

=============================================================================
