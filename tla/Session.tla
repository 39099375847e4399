------------------------------ MODULE Session -------------------------------
(***************************************************************************)
(* How the results of a request travel back: the client (c_getResult_FIFO) *)
(* and the request thread (processClientRequest) both create and open the  *)
(* FIFO named after the client, the thread runs the command and writes its *)
(* output, both ends close the FIFO and both unlink its name.  The threads *)
(* of all clients share the active task queue.                             *)
(*                                                                         *)
(* A FIFO is its inode: mkfifo makes a new one when the name is free, and  *)
(* unlink only takes the name away.  One step here is one system call or   *)
(* one call of a taskq function.  A request reaches its thread whole, as   *)
(* RequestSlot shows of a request that no other client's writes overlap.   *)
(***************************************************************************)
EXTENDS Integers, Sequences, FiniteSets

CONSTANTS Client,        \* client process ids
          MaxRequests,   \* bound: requests sent, by all clients together
          MaxLines       \* bound: output lines of a command

ASSUME BoundAssumption == MaxRequests \in Nat \ {0} /\ MaxLines \in Nat
ASSUME ClientAssumption == IsFiniteSet(Client)

\* The kth request of client c.
Task == Client \X (1..MaxRequests)
Owner(t) == t[1]

VARIABLES cpc,      \* where each client stands
          nreq,     \* requests each client has sent
          cfd,      \* the inode each client has opened, 0 for none
          pipe,     \* what is in the FIFO the client reads
          shown,    \* what the client has displayed of each line it has read
          misled,   \* history: requests whose client took a line for a shutdown
          tpc,      \* where each request thread stands
          tfd,      \* the inode each thread has opened, 0 for none
          wrote,    \* lines each thread has written
          name,     \* the inode /tmp/sjdavids_FIFO<pid> refers to, 0 for none
          made,     \* inodes made so far under each name
          queue,    \* the active task queue, newest first
          stale     \* history: an unlink took the name of a newer FIFO

cvars == <<cpc, nreq, cfd, shown, misled>>
tvars == <<tpc, tfd, wrote>>
vars == <<cvars, tvars, pipe, name, made, queue, stale>>

TL == INSTANCE TaskList WITH Client <- Task, tasks <- queue

Init ==
    /\ cpc = [c \in Client |-> "prompt"]
    /\ nreq = [c \in Client |-> 0]
    /\ cfd = [c \in Client |-> 0]
    /\ pipe = [c \in Client |-> <<>>]
    /\ shown = [c \in Client |-> <<>>]
    /\ misled = {}
    /\ tpc = [t \in Task |-> "none"]
    /\ tfd = [t \in Task |-> 0]
    /\ wrote = [t \in Task |-> 0]
    /\ name = [c \in Client |-> 0]
    /\ made = [c \in Client |-> 0]
    /\ stale = FALSE
    /\ TL!Init

-----------------------------------------------------------------------------
(* FIFOs.                                                                  *)

\* mkfifo: an existing FIFO is used as it is.
Mkfifo(c) ==
    IF name[c] = 0
    THEN /\ made' = [made EXCEPT ![c] = @ + 1]
         /\ name' = [name EXCEPT ![c] = made[c] + 1]
    ELSE UNCHANGED <<made, name>>

\* cs_removeFifo, called by a side that has used inode i: the name goes,
\* whichever inode it now refers to.
RemoveFifo(c, i) ==
    /\ name' = [name EXCEPT ![c] = 0]
    /\ stale' = (stale \/ name[c] \notin {0, i})
    /\ UNCHANGED made

\* The threads that have a write end of c's inode i.  A command that is
\* started meanwhile inherits the end and keeps it until it ends itself; as
\* every command ends, that only delays the end of the file, and is left out.
Writers(c, i) == {t \in Task : /\ Owner(t) = c /\ tfd[t] = i
                               /\ tpc[t] \in {"add", "popen", "run", "remove", "close",
                                            "failed", "killed"}}

\* The threads blocked in open() until somebody opens i for reading.
Blocked(c, i) == {t \in Task : Owner(t) = c /\ tfd[t] = i /\ tpc[t] = "blocked"}

\* The client has i open for reading, or is blocked in opening it.
Reads(c, i) == cpc[c] \in {"blocked", "read", "close"} /\ cfd[c] = i

\* The thread has a node in the queue, which has not been freed.
Queued(t) == \E i \in 1..Len(queue) : queue[i] = t

-----------------------------------------------------------------------------
(* The client.                                                             *)

\* The user types a command; the listener starts a thread for it.
SendRequest(c) ==
    /\ cpc[c] = "prompt"
    /\ Cardinality({t \in Task : tpc[t] # "none"}) < MaxRequests
    /\ nreq' = [nreq EXCEPT ![c] = @ + 1]
    /\ cpc' = [cpc EXCEPT ![c] = "mkfifo"]
    /\ tpc' = [tpc EXCEPT ![<<c, nreq[c] + 1>>] = "mkfifo"]
    /\ UNCHANGED <<cfd, shown, misled, tfd, wrote, pipe, name, made, queue, stale>>

\* Faulty variant: EEXIST is an error like any other.
ClientMkfifo_Exclusive(c) ==
    /\ cpc[c] = "mkfifo"
    /\ Mkfifo(c)
    /\ cpc' = [cpc EXCEPT ![c] = IF name[c] = 0 THEN "open" ELSE "prompt"]
    /\ UNCHANGED <<nreq, cfd, shown, misled, tvars, pipe, queue, stale>>

ClientMkfifo(c) ==
    /\ cpc[c] = "mkfifo"
    /\ Mkfifo(c)
    /\ cpc' = [cpc EXCEPT ![c] = "open"]
    /\ UNCHANGED <<nreq, cfd, shown, misled, tvars, pipe, queue, stale>>

\* Opening for reading and opening for writing wait for each other.
ClientOpen(c) ==
    /\ cpc[c] = "open"
    /\ name[c] # 0
    /\ cfd' = [cfd EXCEPT ![c] = name[c]]
    /\ pipe' = [pipe EXCEPT ![c] = <<>>]
    /\ cpc' = [cpc EXCEPT ![c] =
                 IF Writers(c, name[c]) \cup Blocked(c, name[c]) = {} THEN "blocked" ELSE "read"]
    /\ tpc' = [t \in Task |-> IF t \in Blocked(c, name[c]) THEN "add" ELSE tpc[t]]
    /\ UNCHANGED <<nreq, shown, misled, tfd, wrote, name, made, queue, stale>>

\* The name went between mkfifo and open: the client gives the request up.
ClientOpenFails(c) ==
    /\ cpc[c] = "open"
    /\ name[c] = 0
    /\ cpc' = [cpc EXCEPT ![c] = "prompt"]
    /\ UNCHANGED <<nreq, cfd, shown, misled, tvars, pipe, name, made, queue, stale>>

\* A line is the ith of the client's kth request.  The lines of "request 0"
\* are the markers that the server's console sends (see Console).
INTERRUPT == <<0, 1>>
SHUTDOWN  == <<0, 2>>
IsMarker(item) == item \in {INTERRUPT, SHUTDOWN}

\* Nothing of a line that was read.
NOTHING == <<0, 0>>

\* A line that reads as no marker is displayed, unless it is as long as one:
\* one of the interrupt's length is dropped, and one of the shutdown's length
\* ends the reading, without shutting the client down.  Which lines are that
\* long is ResultStream's subject; here any may be.
ReadLine(c) ==
    /\ cpc[c] = "read"
    /\ pipe[c] # <<>>
    /\ ~IsMarker(Head(pipe[c]))
    /\ pipe' = [pipe EXCEPT ![c] = Tail(@)]
    /\ \/ /\ \E l \in {Head(pipe[c]), NOTHING} : shown' = [shown EXCEPT ![c] = Append(@, l)]
          /\ UNCHANGED <<cpc, misled>>
       \/ /\ shown' = [shown EXCEPT ![c] = Append(@, NOTHING)]
          /\ misled' = misled \cup {<<c, nreq[c]>>}
          /\ cpc' = [cpc EXCEPT ![c] = "close"]
    /\ UNCHANGED <<nreq, cfd, tvars, name, made, queue, stale>>

\* Faulty variant: the client takes an empty FIFO for a finished one.
ReadEOF_Empty(c) ==
    /\ cpc[c] = "read"
    /\ pipe[c] = <<>>
    /\ cpc' = [cpc EXCEPT ![c] = "close"]
    /\ UNCHANGED <<nreq, cfd, shown, misled, tvars, pipe, name, made, queue, stale>>

\* Faulty variant: the client stops when the last writer has closed, whatever
\* is left to read.
ReadEOF_LosesRest(c) ==
    /\ cpc[c] = "read"
    /\ Writers(c, cfd[c]) = {}
    /\ cpc' = [cpc EXCEPT ![c] = "close"]
    /\ UNCHANGED <<nreq, cfd, shown, misled, tvars, pipe, name, made, queue, stale>>

ReadEOF(c) ==
    /\ cpc[c] = "read"
    /\ pipe[c] = <<>>
    /\ Writers(c, cfd[c]) = {}
    /\ cpc' = [cpc EXCEPT ![c] = "close"]
    /\ UNCHANGED <<nreq, cfd, shown, misled, tvars, pipe, name, made, queue, stale>>

ClientClose(c) ==
    /\ cpc[c] = "close"
    /\ cpc' = [cpc EXCEPT ![c] = "unlink"]
    /\ UNCHANGED <<nreq, cfd, shown, misled, tvars, pipe, name, made, queue, stale>>

ClientUnlink(c) ==
    /\ cpc[c] = "unlink"
    /\ RemoveFifo(c, cfd[c])
    /\ cpc' = [cpc EXCEPT ![c] = "prompt"]
    /\ cfd' = [cfd EXCEPT ![c] = 0]
    /\ shown' = [shown EXCEPT ![c] = <<>>]
    /\ pipe' = [pipe EXCEPT ![c] = <<>>]
    /\ UNCHANGED <<nreq, misled, tvars, queue>>

\* Ctrl-C: the program handles no signal.  The FIFO's name stays, and with it
\* whatever the thread has yet to open.
Interrupt(c) ==
    /\ cpc[c] \notin {"prompt", "gone"}
    /\ cpc' = [cpc EXCEPT ![c] = "gone"]
    /\ cfd' = [cfd EXCEPT ![c] = 0]
    /\ shown' = [shown EXCEPT ![c] = <<>>]
    /\ pipe' = [pipe EXCEPT ![c] = <<>>]
    /\ UNCHANGED <<nreq, misled, tvars, name, made, queue, stale>>

-----------------------------------------------------------------------------
(* The request thread.                                                     *)

ThreadMkfifo(t) ==
    /\ tpc[t] = "mkfifo"
    /\ Mkfifo(Owner(t))
    /\ tpc' = [tpc EXCEPT ![t] = "open"]
    /\ UNCHANGED <<cvars, tfd, wrote, pipe, queue, stale>>

\* Faulty variant: the thread does not wait for a reader.
ThreadOpen_NonBlocking(t) ==
    LET c == Owner(t) IN
    /\ tpc[t] = "open"
    /\ name[c] # 0
    /\ tfd' = [tfd EXCEPT ![t] = name[c]]
    /\ tpc' = [tpc EXCEPT ![t] = "add"]
    /\ cpc' = [cpc EXCEPT ![c] = IF Reads(c, name[c]) /\ @ = "blocked" THEN "read" ELSE @]
    /\ UNCHANGED <<nreq, cfd, shown, misled, wrote, pipe, name, made, queue, stale>>

ThreadOpen(t) ==
    LET c == Owner(t) IN
    /\ tpc[t] = "open"
    /\ name[c] # 0
    /\ tfd' = [tfd EXCEPT ![t] = name[c]]
    /\ tpc' = [tpc EXCEPT ![t] = IF Reads(c, name[c]) THEN "add" ELSE "blocked"]
    /\ cpc' = [cpc EXCEPT ![c] = IF Reads(c, name[c]) /\ @ = "blocked" THEN "read" ELSE @]
    /\ UNCHANGED <<nreq, cfd, shown, misled, wrote, pipe, name, made, queue, stale>>

\* Faulty variant: the result of open() is not looked at.
ThreadOpenFails_Unchecked(t) ==
    /\ tpc[t] = "open"
    /\ name[Owner(t)] = 0
    /\ tfd' = [tfd EXCEPT ![t] = -1]
    /\ tpc' = [tpc EXCEPT ![t] = "add"]
    /\ UNCHANGED <<cvars, wrote, pipe, name, made, queue, stale>>

\* The thread ends without having told the client anything.
ThreadOpenFails(t) ==
    /\ tpc[t] = "open"
    /\ name[Owner(t)] = 0
    /\ tpc' = [tpc EXCEPT ![t] = "gave_up"]
    /\ UNCHANGED <<cvars, tfd, wrote, pipe, name, made, queue, stale>>

\* When malloc fails the command runs all the same, and no node shows it.
TaskqAdd(t) ==
    /\ tpc[t] = "add"
    /\ TL!Add(t) \/ UNCHANGED queue
    /\ tpc' = [tpc EXCEPT ![t] = "popen"]
    /\ UNCHANGED <<cvars, tfd, wrote, pipe, name, made, stale>>

\* popen may fail.
Popen(t) ==
    /\ tpc[t] = "popen"
    /\ \E pc \in {"run", "failed"} : tpc' = [tpc EXCEPT ![t] = pc]
    /\ UNCHANGED <<cvars, tfd, wrote, pipe, name, made, queue, stale>>

WriteLine(t) ==
    LET c == Owner(t) IN
    /\ tpc[t] = "run"
    /\ wrote[t] < MaxLines
    /\ Reads(c, tfd[t])
    /\ wrote' = [wrote EXCEPT ![t] = @ + 1]
    /\ pipe' = [pipe EXCEPT ![c] = Append(@, <<t[2], wrote[t] + 1>>)]
    /\ UNCHANGED <<cvars, tpc, tfd, name, made, queue, stale>>

\* The write raises SIGPIPE, which ends the server with all its threads.
\* Nobody sends it another request.
WriteFails(t) ==
    /\ tpc[t] = "run"
    /\ wrote[t] < MaxLines
    /\ ~Reads(Owner(t), tfd[t])
    /\ tpc' = [u \in Task |-> "dead"]
    /\ tfd' = [u \in Task |-> 0]
    /\ UNCHANGED <<cvars, wrote, pipe, name, made, queue, stale>>

\* The command has no more output.  When pclose fails the thread ends here,
\* with its node queued and its end of the FIFO open.
Pclose(t) ==
    /\ tpc[t] = "run"
    /\ \E pc \in {"remove", "failed"} : tpc' = [tpc EXCEPT ![t] = pc]
    /\ UNCHANGED <<cvars, tfd, wrote, pipe, name, made, queue, stale>>

\* taskqRemove(NULL), for a thread without a node, does nothing.
TaskqRemove(t) ==
    /\ tpc[t] = "remove"
    /\ IF Queued(t)
       THEN \E i \in 1..Len(queue) : queue[i] = t /\ TL!End(i)
       ELSE UNCHANGED queue
    /\ tpc' = [tpc EXCEPT ![t] = "close"]
    /\ UNCHANGED <<cvars, tfd, wrote, pipe, name, made, stale>>

\* Faulty variant: the thread ends with its end of the FIFO open.
ThreadClose_Forgotten(t) ==
    /\ tpc[t] = "close"
    /\ tpc' = [tpc EXCEPT ![t] = "killed"]
    /\ UNCHANGED <<cvars, tfd, wrote, pipe, name, made, queue, stale>>

ThreadClose(t) ==
    /\ tpc[t] = "close"
    /\ tpc' = [tpc EXCEPT ![t] = "unlink"]
    /\ UNCHANGED <<cvars, tfd, wrote, pipe, name, made, queue, stale>>

ThreadUnlink(t) ==
    /\ tpc[t] = "unlink"
    /\ RemoveFifo(Owner(t), tfd[t])
    /\ tpc' = [tpc EXCEPT ![t] = "exited"]
    /\ tfd' = [tfd EXCEPT ![t] = 0]
    /\ UNCHANGED <<cvars, wrote, pipe, queue>>

-----------------------------------------------------------------------------
GetResult(c) ==
    \/ ClientMkfifo(c) \/ ClientOpen(c) \/ ClientOpenFails(c)
    \/ ReadLine(c) \/ ReadEOF(c) \/ ClientClose(c) \/ ClientUnlink(c)

ProcessRequest(t) ==
    \/ ThreadMkfifo(t) \/ ThreadOpen(t) \/ ThreadOpenFails(t)
    \/ TaskqAdd(t) \/ Popen(t) \/ WriteLine(t) \/ WriteFails(t) \/ Pclose(t)
    \/ TaskqRemove(t) \/ ThreadClose(t) \/ ThreadUnlink(t)

Next ==
    \/ \E c \in Client : SendRequest(c) \/ GetResult(c) \/ Interrupt(c)
    \/ \E t \in Task : ProcessRequest(t)

Spec == Init /\ [][Next]_vars

\* The operating system runs what can run and commands end; no user has to
\* type another command.
Fairness ==
    /\ \A c \in Client : WF_vars(GetResult(c))
    /\ \A t \in Task : WF_vars(ProcessRequest(t))

FairSpec == Spec /\ Fairness

-----------------------------------------------------------------------------
(* Properties.                                                             *)

Line == {<<t[2], i>> : t \in Task, i \in 1..MaxLines}
Item == Line \cup {INTERRUPT, SHUTDOWN}

TypeOK ==
    /\ cpc \in [Client -> {"prompt", "mkfifo", "open", "blocked", "read", "close", "unlink",
                         "gone"}]
    /\ nreq \in [Client -> 0..MaxRequests]
    /\ made \in [Client -> Nat]
    /\ \A c \in Client : cfd[c] \in 0..made[c] /\ name[c] \in 0..made[c]
    /\ pipe \in [Client -> Seq(Item)]
    /\ shown \in [Client -> Seq(Line \cup {NOTHING})]
    /\ misled \in SUBSET Task
    /\ tpc \in [Task -> {"none", "mkfifo", "open", "blocked", "add", "popen", "run", "failed",
                         "remove", "close", "unlink", "exited", "gave_up", "killed", "dead"}]
    /\ \A t \in Task : tfd[t] \in 0..made[Owner(t)]
    /\ wrote \in [Task -> 0..MaxLines]
    /\ queue \in Seq(Task)
    /\ stale \in BOOLEAN

\* The three properties below hold as long as no side has unlinked the name
\* of a FIFO it did not use; what happens then is EveryRequestEnds.

\* A request thread that writes output has a reader, unless its client was
\* interrupted or took a line of that request's output for a shutdown: without
\* one the write raises SIGPIPE, which the program does not handle, and ends
\* the server.  The client's other requests, before and after, are safe.
WritersHaveReader ==
    ~stale => \A t \in Task :
                 tpc[t] = "run" =>
                    Reads(Owner(t), tfd[t]) \/ cpc[Owner(t)] = "gone" \/ t \in misled

\* When a client has stopped reading it has read every line the thread of its
\* request wrote, in order, none of them twice and none of an earlier request;
\* of each it has displayed the line or, when it was as long as the interrupt,
\* nothing.  One that took a line for a shutdown has read no further.
OutputIsComplete ==
    ~stale => \A c \in Client : cpc[c] \in {"close", "unlink"} =>
                 /\ \A i \in 1..Len(shown[c]) : shown[c][i] \in {<<nreq[c], i>>, NOTHING}
                 /\ \/ Len(shown[c]) = wrote[<<c, nreq[c]>>]
                    \/ <<c, nreq[c]>> \in misled

\* Every request is answered: its client returns to the prompt after its
\* thread has run the command to the end, unless popen or pclose failed, the
\* client was interrupted or took a line for a shutdown, or the server died of
\* what another client did.
RequestsAreAnswered ==
    \A t \in Task :
        tpc[t] = "mkfifo"
            ~> \/ cpc[Owner(t)] = "prompt" /\ tpc[t] \in {"unlink", "exited"}
               \/ tpc[t] = "failed"
               \/ cpc[Owner(t)] = "gone"
               \/ t \in misled
               \/ tpc[t] = "dead"
               \/ stale

\* A client that has begun to read comes to the end of its input, whoever is
\* interrupted, whatever is unlinked, and also when the server dies, whose
\* end of the FIFO is closed then; only a failed popen or pclose keeps it.
ReadersComeToAnEnd ==
    \A c \in Client :
        cpc[c] = "read" ~> (cpc[c] # "read" \/ \E t \in Task : Owner(t) = c /\ tpc[t] = "failed")

\* Every request of a client that is not interrupted and takes no line for a
\* shutdown comes to an end, unless popen or pclose failed, whatever is
\* unlinked when: "No problem if it does not exist, it was already cleaned",
\* says cs_removeFifo, which both sides call.
EveryRequestEnds ==
    \A c \in Client :
        cpc[c] = "mkfifo"
            ~> \/ cpc[c] \in {"prompt", "gone"}
               \/ \E t \in Task : Owner(t) = c /\ (tpc[t] = "failed" \/ t \in misled)

=============================================================================
