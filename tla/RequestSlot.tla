---------------------------- MODULE RequestSlot -----------------------------
(***************************************************************************)
(* How a request travels from a client to the server: one ClientRequestMsg *)
(* in shared memory, that every client writes (c_loadRequest_shm), that    *)
(* the server's listener thread copies (s_unloadClientRequest_shm), and a  *)
(* semaphore that starts at 0 and is posted for each request.  There is no *)
(* lock: one step here is one access to the shared memory or one operation *)
(* on its semaphore.                                                       *)
(*                                                                         *)
(* A command is a model value.  Its text takes two steps to write, the     *)
(* memset and the strncpy; a reader in between finds TORN, which stands    *)
(* for every mixture of old and new characters.  The answer, which reaches *)
(* the client through a FIFO, is one step here and many in Session: a      *)
(* request thread of client c meets c when c waits for its results.  What  *)
(* Session shows can keep the two apart is here too: a client that gives   *)
(* up or dies, a thread that ends without an answer, a name unlinked too   *)
(* late; and so is the end of the listener.                                *)
(***************************************************************************)
EXTENDS Naturals, FiniteSets

CONSTANTS Client,   \* client process ids
          Command,  \* the command lines users type
          Length,   \* strlen() of each, newline included
          Thread,   \* bound: the request threads the server has at one time
          MaxDeserted,  \* bound: requests whose client stops waiting for them
          NoClient, NoTask, TORN

ASSUME FiniteAssumption == IsFiniteSet(Client) /\ Client # {} /\ IsFiniteSet(Thread)
ASSUME LengthAssumption == Length \in [Command -> Nat \ {0}]
ASSUME DesertedAssumption == MaxDeserted \in Nat
ASSUME NoClientAssumption == NoClient \notin Client
ASSUME NoTaskAssumption ==
    NoTask \notin [client_id : Client \cup {NoClient},
                   text : Command \cup {TORN}, textlen : Nat]

VARIABLES slot,    \* mem_ServerConnect: client_id, text, textlen
          sem,     \* mem_ServerConnect->sem
          pc,      \* where each client stands in c_loadRequest_shm
          msg,     \* the command each client sends
          lpc,     \* where the listener stands
          hold,    \* client_request, the listener's copy
          task,    \* what each request thread was created with
          alone,    \* history: the client whose exchange nothing has disturbed
          answered, \* clients with a thread that has answered and may yet unlink
          parted,   \* clients whose FIFO has lost its name while they wait for it
          deserted, \* history: requests whose client has stopped waiting for them
          failed    \* history: a thread, the listener or an unlink has failed a client

fvars == <<answered, parted, deserted, failed>>
vars == <<slot, sem, pc, msg, lpc, hold, task, alone, fvars>>

Zeroed == [client_id |-> NoClient, text |-> TORN, textlen |-> 0]

InitClients ==
    /\ pc = [c \in Client |-> "idle"]
    /\ msg \in [Client -> Command]
    /\ hold = Zeroed
    /\ task = [t \in Thread |-> NoTask]
    /\ alone = NoClient
    /\ answered = {}
    /\ parted = {}
    /\ deserted = 0
    /\ failed = FALSE

\* The server is up: its memory is zeroed and its listener waits.
Init ==
    /\ slot = Zeroed
    /\ sem = 0
    /\ lpc = "wait"
    /\ InitClients

-----------------------------------------------------------------------------
(* A client sends one request.                                             *)

Quiet(c) == pc[c] \in {"idle", "await", "left"}

\* The user types m, the client connects and writes its process id.
WriteId(c, m) ==
    /\ pc[c] = "idle"
    /\ msg' = [msg EXCEPT ![c] = m]
    /\ slot' = [slot EXCEPT !.client_id = c]
    /\ pc' = [pc EXCEPT ![c] = "memset"]
    /\ alone' = IF sem = 0 /\ lpc = "wait" /\ \A d \in Client \ {c} : Quiet(d)
                THEN c ELSE NoClient
    /\ UNCHANGED <<sem, lpc, hold, task, fvars>>

ClearText(c) ==
    /\ pc[c] = "memset"
    /\ slot' = [slot EXCEPT !.text = TORN]
    /\ pc' = [pc EXCEPT ![c] = "strncpy"]
    /\ UNCHANGED <<sem, msg, lpc, hold, task, alone, fvars>>

CopyText(c) ==
    /\ pc[c] = "strncpy"
    /\ slot' = [slot EXCEPT !.text = msg[c]]
    /\ pc' = [pc EXCEPT ![c] = "textlen"]
    /\ UNCHANGED <<sem, msg, lpc, hold, task, alone, fvars>>

\* Faulty variant: the length is left to the previous request.
WriteLen_Forgotten(c) ==
    /\ pc[c] = "textlen"
    /\ pc' = [pc EXCEPT ![c] = "trywait"]
    /\ UNCHANGED <<slot, sem, msg, lpc, hold, task, alone, fvars>>

WriteLen(c) ==
    /\ pc[c] = "textlen"
    /\ slot' = [slot EXCEPT !.textlen = Length[msg[c]]]
    /\ pc' = [pc EXCEPT ![c] = "trywait"]
    /\ UNCHANGED <<sem, msg, lpc, hold, task, alone, fvars>>

\* sem_trywait never blocks: it may take the permit of another client's
\* request, and the writes above are already done.
TryWait(c) ==
    /\ pc[c] = "trywait"
    /\ sem' = IF sem = 0 THEN 0 ELSE sem - 1
    /\ pc' = [pc EXCEPT ![c] = "post"]
    /\ UNCHANGED <<slot, msg, lpc, hold, task, alone, fvars>>

\* Faulty variant: the client waits for its results without posting.
Post_Skipped(c) ==
    /\ pc[c] = "post"
    /\ pc' = [pc EXCEPT ![c] = "await"]
    /\ UNCHANGED <<slot, sem, msg, lpc, hold, task, alone, fvars>>

\* Faulty variant: the semaphore is posted twice.
Post_Twice(c) ==
    /\ pc[c] = "post"
    /\ sem' = sem + 2
    /\ pc' = [pc EXCEPT ![c] = "await"]
    /\ UNCHANGED <<slot, msg, lpc, hold, task, alone, fvars>>

Post(c) ==
    /\ pc[c] = "post"
    /\ sem' = sem + 1
    /\ pc' = [pc EXCEPT ![c] = "await"]
    /\ UNCHANGED <<slot, msg, lpc, hold, task, alone, fvars>>

-----------------------------------------------------------------------------
(* The listener thread copies one request and starts a thread for it.      *)

\* Faulty variant: the listener does not wait for a permit.
SemWait_Unguarded ==
    /\ lpc = "wait"
    /\ sem' = sem - 1
    /\ lpc' = "client_id"
    /\ UNCHANGED <<slot, pc, msg, hold, task, alone, fvars>>

SemWait ==
    /\ lpc = "wait"
    /\ sem > 0
    /\ sem' = sem - 1
    /\ lpc' = "client_id"
    /\ UNCHANGED <<slot, pc, msg, hold, task, alone, fvars>>

ReadId ==
    /\ lpc = "client_id"
    /\ hold' = [hold EXCEPT !.client_id = slot.client_id]
    /\ lpc' = "textlen"
    /\ UNCHANGED <<slot, sem, pc, msg, task, alone, fvars>>

ReadLen ==
    /\ lpc = "textlen"
    /\ hold' = [hold EXCEPT !.textlen = slot.textlen]
    /\ lpc' = "text"
    /\ UNCHANGED <<slot, sem, pc, msg, task, alone, fvars>>

ReadText ==
    /\ lpc = "text"
    /\ hold' = [hold EXCEPT !.text = slot.text]
    /\ lpc' = "create"
    /\ UNCHANGED <<slot, sem, pc, msg, task, alone, fvars>>

\* Faulty variant: the listener's loop ends after one request.
CreateThread_Once(t) ==
    /\ lpc = "create"
    /\ task[t] = NoTask
    /\ task' = [task EXCEPT ![t] = hold]
    /\ lpc' = "returned"
    /\ hold' = Zeroed
    /\ alone' = NoClient
    /\ UNCHANGED <<slot, sem, pc, msg, fvars>>

\* The copy is the thread's from now on; the listener goes round its loop and
\* gets a new one, zeroed.
CreateThread(t) ==
    /\ lpc = "create"
    /\ task[t] = NoTask
    /\ task' = [task EXCEPT ![t] = hold]
    /\ hold' = Zeroed
    /\ lpc' = "wait"
    /\ alone' = NoClient
    /\ UNCHANGED <<slot, sem, pc, msg, fvars>>

-----------------------------------------------------------------------------
(* The answer.  The threads in S, created for client c, have opened c's    *)
(* FIFO, run their commands and closed it; c has read to the end of file.  *)
(* Other threads of c are still blocked in open().                         *)

TasksOf(c) == {t \in Thread : task[t] # NoTask /\ task[t].client_id = c}

Answer(c, S) ==
    /\ pc[c] = "await"
    /\ c \notin parted
    /\ S # {}
    /\ S \subseteq TasksOf(c)
    /\ task' = [t \in Thread |-> IF t \in S THEN NoTask ELSE task[t]]
    /\ pc' = [pc EXCEPT ![c] = "idle"]
    /\ answered' = answered \cup {c}
    /\ UNCHANGED <<slot, sem, msg, lpc, hold, alone, parted, deserted, failed>>

\* The user types "exit".
Leave(c) ==
    /\ pc[c] = "idle"
    /\ pc' = [pc EXCEPT ![c] = "left"]
    /\ answered' = answered \ {c}
    /\ UNCHANGED <<slot, sem, msg, lpc, hold, task, alone, parted, deserted, failed>>

-----------------------------------------------------------------------------
(* What keeps an answer from its client.                                   *)

\* c_getResult_FIFO cannot make or open the FIFO: the client goes on to its
\* next command, with the thread of this one on its way.
GiveUp(c) ==
    /\ pc[c] = "await"
    /\ c \notin parted
    /\ deserted < MaxDeserted
    /\ deserted' = deserted + 1
    /\ pc' = [pc EXCEPT ![c] = "idle"]
    /\ UNCHANGED <<slot, sem, msg, lpc, hold, task, alone, answered, parted, failed>>

\* Ctrl-C, at any point; or sem_post fails, and do_clientMain returns.
Interrupt(c) ==
    /\ pc[c] \notin {"idle", "left"}
    /\ IF pc[c] = "await"
       THEN deserted < MaxDeserted /\ deserted' = deserted + 1 /\ UNCHANGED alone
       ELSE alone' = (IF alone = c THEN NoClient ELSE alone) /\ UNCHANGED deserted
    /\ pc' = [pc EXCEPT ![c] = "left"]
    /\ answered' = answered \ {c}
    /\ parted' = parted \ {c}
    /\ UNCHANGED <<slot, sem, msg, lpc, hold, task, failed>>

\* open, popen or pclose fails in the thread; or its client is gone, and
\* there was nothing to write.
ThreadEnds(t) ==
    /\ task[t] # NoTask
    /\ task' = [task EXCEPT ![t] = NoTask]
    /\ failed' = (failed \/ \E c \in Client : pc[c] = "await" /\ t \in TasksOf(c))
    /\ UNCHANGED <<slot, sem, pc, msg, lpc, hold, alone, answered, parted, deserted>>

\* A thread that has answered c unlinks the name when c is already opening
\* the FIFO for its next request: c and the next thread never meet.
LateUnlink(c) ==
    /\ c \in answered
    /\ pc[c] = "await"
    /\ parted' = parted \cup {c}
    /\ failed' = TRUE
    /\ UNCHANGED <<slot, sem, pc, msg, lpc, hold, task, alone, answered, deserted>>

\* malloc or sem_wait fails and SERVER_STOP is set, pthread_create fails and
\* the process exits, or it ends for any other reason; the request threads
\* and the clients that read from them follow in ThreadEnds and Answer.
ListenerEnds ==
    /\ lpc \in {"wait", "client_id", "textlen", "text", "create"}
    /\ lpc' = "ended"
    /\ hold' = Zeroed
    /\ alone' = NoClient
    /\ failed' = TRUE
    /\ UNCHANGED <<slot, sem, pc, msg, task, answered, parted, deserted>>

-----------------------------------------------------------------------------
LoadRequest(c) ==
    ClearText(c) \/ CopyText(c) \/ WriteLen(c) \/ TryWait(c) \/ Post(c)

Listen ==
    SemWait \/ ReadId \/ ReadLen \/ ReadText \/ (\E t \in Thread : CreateThread(t))

Answered(c) == \E S \in SUBSET Thread : Answer(c, S)

Next ==
    \/ \E c \in Client : \/ \E m \in Command : WriteId(c, m)
                         \/ LoadRequest(c) \/ Answered(c) \/ Leave(c)
                         \/ GiveUp(c) \/ Interrupt(c) \/ LateUnlink(c)
    \/ \E t \in Thread : ThreadEnds(t)
    \/ Listen \/ ListenerEnds

Spec == Init /\ [][Next]_vars

\* The operating system runs every thread that can run, and commands end.
\* Nothing makes a user type the next one, and nothing has to fail.
Fairness ==
    /\ \A c \in Client : WF_vars(LoadRequest(c)) /\ WF_vars(Answered(c))
    /\ WF_vars(Listen)

FairSpec == Spec /\ Fairness

-----------------------------------------------------------------------------
(* Starting the server.  The name of the shared memory exists as soon as   *)
(* the server's shm_open returns, and clients connect from then on; the    *)
(* server then clears the memory and initialises the semaphore.            *)

BootInit ==
    /\ slot = Zeroed
    /\ sem = 0
    /\ lpc = "boot"
    /\ InitClients

ClearMemory ==
    /\ lpc = "boot"
    /\ slot' = Zeroed
    /\ sem' = 0
    /\ lpc' = "sem_init"
    /\ UNCHANGED <<pc, msg, hold, task, alone, fvars>>

SemInit ==
    /\ lpc = "sem_init"
    /\ sem' = 0
    /\ lpc' = "wait"
    /\ UNCHANGED <<slot, pc, msg, hold, task, alone, fvars>>

Setup == ClearMemory \/ SemInit

FairBootSpec == BootInit /\ [][Setup \/ Next]_vars /\ Fairness /\ WF_vars(Setup)

-----------------------------------------------------------------------------
(* Properties.                                                             *)

Request == [client_id : Client \cup {NoClient}, text : Command \cup {TORN}, textlen : Nat]

TypeOK ==
    /\ slot \in Request
    /\ sem \in Nat
    /\ pc \in [Client -> {"idle", "memset", "strncpy", "textlen", "trywait", "post",
                          "await", "left"}]
    /\ msg \in [Client -> Command]
    /\ lpc \in {"wait", "client_id", "textlen", "text", "create", "ended"}
    /\ hold \in Request
    /\ task \in [Thread -> Request \cup {NoTask}]
    /\ alone \in Client \cup {NoClient}
    /\ answered \in SUBSET Client
    /\ parted \in SUBSET Client
    /\ deserted \in 0..MaxDeserted
    /\ failed \in BOOLEAN

\* However requests are torn, overwritten or broken off, a request thread is
\* only ever created with the process id of some client, which may have left
\* since, and with the length of a command that some client sent: the FIFO it
\* opens is never that of process 0, and text[textlen - 1], which
\* s_processClientReq writes to, is the end of some command.
TasksAreGenuine ==
    \A t \in Thread : task[t] # NoTask =>
        /\ task[t].client_id \in Client
        /\ \E m \in Command : task[t].textlen = Length[m]

Waiting == {c \in Client : pc[c] = "await"}
AtPost == {c \in Client : pc[c] = "post"}
Running == {t \in Thread : task[t] # NoTask}
Busy == IF lpc \in {"wait", "ended"} THEN 0 ELSE 1

\* Work does not pile up on the server.  The permits in the semaphore, the
\* request the listener is copying and the request threads never outnumber
\* the clients that wait for an answer and the requests whose clients have
\* stopped waiting: a duplicated request is always paid for by one that was
\* lost.  And however often clients give up and send again, and whether or
\* not anybody listens, there are never more permits than clients, because
\* every client tries to take one before it posts.
WorkIsWaitedFor ==
    /\ sem + Busy + Cardinality(Running) <= Cardinality(Waiting) + deserted
    /\ sem + Cardinality(AtPost) <= Cardinality(Client)

\* sem_trywait may swallow permits, but never so many that every client
\* waits while the server has nothing to do; for that a thread must have
\* ended without an answer, or the listener.
NotAllStuck ==
    (\A c \in Client : pc[c] = "await") =>
        sem + Busy + Cardinality(Running) > 0 \/ failed

\* A request that no other client's writes overlap, from the first write to
\* the listener's last read, is the request the server runs.
UndisturbedArrivesIntact ==
    lpc = "create" /\ alone # NoClient =>
        hold = [client_id |-> alone, text |-> msg[alone], textlen |-> Length[msg[alone]]]

\* Whichever requests are overwritten and permits swallowed, the system as a
\* whole goes on: when every client waits for results one of them gets some or
\* stops waiting, unless a thread or the listener has ended without an answer
\* or a late unlink has parted a client from its thread.
SomeoneIsServed ==
    (\A c \in Client : pc[c] = "await") ~> (\E c \in Client : pc[c] # "await") \/ failed

\* What the comments over the two functions promise ("Use semaphore to safely
\* lock shared memory"): a request the server takes over is one that the
\* client it names has sent.
RequestsAreWhole ==
    \A t \in Thread : task[t] # NoTask =>
        LET c == task[t].client_id
        IN  c \in Client /\ task[t].text = msg[c] /\ task[t].textlen = Length[msg[c]]

=============================================================================
