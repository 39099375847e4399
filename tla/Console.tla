------------------------------ MODULE Console -------------------------------
(***************************************************************************)
(* The server's main thread: cancelClient, for the commands "cancel" and   *)
(* "shutdown", next to the sessions of Session.  The console looks a node  *)
(* up in the queue, cancels and joins the thread, sends the client a       *)
(* marker, closes and unlinks the FIFO and takes the node out, while the   *)
(* thread may be taking it out and freeing it itself.  What follows the    *)
(* use of a freed node is undefined: the model stops there.  ServerExit    *)
(* adds the console's loop and the listener, and says what may run when.   *)
(***************************************************************************)
EXTENDS Session, FiniteSetsExt

VARIABLES kpc,        \* where the console stands in cancelClient
          victim,     \* the node found, by the task it holds; NoTask outside cancelClient
          opt,        \* the marker to send
          pending,    \* threads that pthread_cancel was called for
          left,       \* clients told to shut down
          fault,      \* what has gone wrong
          overtaken   \* history: the victim's thread has freed its node meanwhile

kvars == <<kpc, victim, opt, pending, left, fault, overtaken>>
allvars == <<vars, kvars>>

NoTask == <<>>

InitConsole ==
    /\ Init
    /\ kpc = "getline"
    /\ victim = NoTask
    /\ opt = INTERRUPT
    /\ pending = {}
    /\ left = {}
    /\ fault = "none"
    /\ overtaken = FALSE

-----------------------------------------------------------------------------
(* The threads and the clients, as far as the console concerns them.       *)

\* A pthread_cancel takes effect when the thread reads the command's output,
\* writes it, waits in pclose or closes the FIFO, whose end it leaves open.
Die(t) ==
    /\ t \in pending
    /\ tpc[t] \in {"run", "close"}
    /\ tpc' = [tpc EXCEPT ![t] = "killed"]
    /\ UNCHANGED <<cvars, tfd, wrote, pipe, name, made, queue, stale, kvars>>

\* The client meets a marker: it stops reading, for good when the server asks
\* it to shut down.
ReadMarker(c) ==
    /\ cpc[c] = "read"
    /\ pipe[c] # <<>>
    /\ IsMarker(Head(pipe[c]))
    /\ cpc' = [cpc EXCEPT ![c] = "close"]
    /\ pipe' = [pipe EXCEPT ![c] = Tail(@)]
    /\ left' = IF Head(pipe[c]) = SHUTDOWN THEN left \cup {c} ELSE left
    /\ UNCHANGED <<nreq, cfd, shown, misled, tvars, name, made, queue, stale,
                   kpc, victim, opt, pending, fault, overtaken>>

ThreadStep(t) ==
    /\ ProcessRequest(t)
    /\ overtaken' = (overtaken \/ (t = victim /\ tpc[t] = "remove"))
    /\ fault' = IF tpc'[t] = "dead" THEN "SIGPIPE" ELSE fault
    /\ UNCHANGED <<kpc, victim, opt, pending, left>>

-----------------------------------------------------------------------------
(* cancelClient.                                                           *)

\* taskqFind: the newest task of the client.
Find(c, o) ==
    LET hits == {i \in 1..Len(queue) : Owner(queue[i]) = c} IN
    /\ kpc = "getline"
    /\ hits # {}
    /\ victim' = queue[Min(hits)]
    /\ opt' = o
    /\ overtaken' = FALSE
    /\ kpc' = "cancel"
    /\ UNCHANGED <<vars, pending, left, fault>>

\* The thread id is read from the node, the cancellation is only a request.
PthreadCancel ==
    /\ kpc = "cancel"
    /\ Queued(victim)
    /\ pending' = pending \cup {victim}
    /\ kpc' = "join"
    /\ UNCHANGED <<vars, victim, opt, left, fault, overtaken>>

Dead(t) == tpc[t] \in {"killed", "failed", "exited"}

\* Faulty variant: the node is taken out before its FIFO is used.
PthreadJoin_Removes ==
    /\ kpc = "join"
    /\ Dead(victim)
    /\ queue' = SelectSeq(queue, LAMBDA t : t # victim)
    /\ pending' = pending \ {victim}
    /\ kpc' = "write"
    /\ UNCHANGED <<cvars, tvars, pipe, name, made, stale, victim, opt, left, fault, overtaken>>

\* Faulty variant: the console does not wait for the thread to die.
PthreadJoin_Skipped ==
    /\ kpc = "join"
    /\ kpc' = "write"
    /\ UNCHANGED <<vars, victim, opt, pending, left, fault, overtaken>>

PthreadJoin ==
    /\ kpc = "join"
    /\ Dead(victim)
    /\ pending' = pending \ {victim}
    /\ kpc' = "write"
    /\ UNCHANGED <<vars, victim, opt, left, fault, overtaken>>

WriteMarker ==
    LET c == Owner(victim) IN
    /\ kpc = "write"
    /\ Queued(victim)
    /\ Reads(c, tfd[victim])
    /\ pipe' = [pipe EXCEPT ![c] = Append(@, opt)]
    /\ kpc' = "close"
    /\ UNCHANGED <<cvars, tvars, name, made, queue, stale,
                   victim, opt, pending, left, fault, overtaken>>

\* Faulty variant: the server's end of the FIFO stays open.
CloseFifo_Forgotten ==
    /\ kpc = "close"
    /\ kpc' = "unlink"
    /\ UNCHANGED <<vars, victim, opt, pending, left, fault, overtaken>>

CloseFifo ==
    /\ kpc = "close"
    /\ tpc' = [tpc EXCEPT ![victim] = "exited"]
    /\ kpc' = "unlink"
    /\ UNCHANGED <<cvars, tfd, wrote, pipe, name, made, queue, stale,
                   victim, opt, pending, left, fault, overtaken>>

UnlinkFifo ==
    /\ kpc = "unlink"
    /\ RemoveFifo(Owner(victim), tfd[victim])
    /\ kpc' = "remove"
    /\ UNCHANGED <<cvars, tvars, pipe, queue, victim, opt, pending, left, fault, overtaken>>

\* Faulty variant: the node stays in the queue.
RemoveVictim_Forgotten ==
    /\ kpc = "remove"
    /\ kpc' = "getline"
    /\ UNCHANGED <<vars, victim, opt, pending, left, fault, overtaken>>

RemoveVictim ==
    /\ kpc = "remove"
    /\ \E i \in 1..Len(queue) : queue[i] = victim /\ TL!End(i)
    /\ kpc' = "getline"
    /\ victim' = NoTask
    /\ overtaken' = FALSE
    /\ UNCHANGED <<cvars, tvars, pipe, name, made, stale, opt, pending, left, fault>>

\* The console reads the thread id or the FIFO out of a node that has been
\* freed, or writes to a FIFO nobody reads.
Blunder ==
    /\ kpc \in {"cancel", "write"}
    /\ \/ ~Queued(victim) /\ fault' = "use_after_free"
       \/ /\ Queued(victim) /\ kpc = "write" /\ ~Reads(Owner(victim), tfd[victim])
          /\ fault' = "SIGPIPE"
    /\ UNCHANGED <<vars, kpc, victim, opt, pending, left, overtaken>>

-----------------------------------------------------------------------------
CancelClient ==
    \/ PthreadCancel \/ PthreadJoin \/ WriteMarker \/ CloseFifo
    \/ UnlinkFifo \/ RemoveVictim \/ Blunder

-----------------------------------------------------------------------------
(* Properties.                                                             *)

TypeOKConsole ==
    /\ TypeOK
    /\ kpc \in {"getline", "cancel", "join", "write", "close", "unlink", "remove"}
    /\ victim \in Task \cup {NoTask}
    /\ opt \in {INTERRUPT, SHUTDOWN}
    /\ pending \in SUBSET Task
    /\ left \in SUBSET Client
    /\ fault \in {"none", "use_after_free", "SIGPIPE"}
    /\ overtaken \in BOOLEAN

\* Nobody writes to a FIFO without a reader, neither the threads nor the
\* console with its marker, and the server does not die of it, unless a client
\* was interrupted or took a line of output for a shutdown, or a FIFO's name
\* had been unlinked.
SigpipeNeedsLostReader ==
    fault = "SIGPIPE" => stale \/ misled # {} \/ \E c \in Client : cpc[c] = "gone"

\* The marker is the last thing a cancelled client reads: no line of the
\* cancelled command follows it into the FIFO.
NothingFollowsMarker ==
    ~stale => \A c \in Client : \A i \in 1..Len(pipe[c]) : IsMarker(pipe[c][i]) => i = Len(pipe[c])

\* The client of task t has got its result, or does not wait for one any more.
Released(t) == cpc[Owner(t)] \in {"prompt", "gone"} \/ nreq[Owner(t)] > t[2]

\* A cancelled command lets go of its client and of the server's end of the
\* FIFO, also one whose popen or pclose had failed, which nothing else would
\* let go.
CancelReleasesClient ==
    \A t \in Task :
        (kpc = "join" /\ victim = t)
            ~> (tpc[t] \in {"exited", "dead"} /\ Released(t)) \/ fault # "none" \/ stale

=============================================================================
