----------------------------- MODULE ServerExit -----------------------------
(***************************************************************************)
(* The console's "exit" and "shutdownall": the flag SERVER_STOP, which the *)
(* listener shares, the walk of s_CancelAllActiveClients over the active   *)
(* task queue beside everything Console describes, and the end of the      *)
(* process.                                                                *)
(*                                                                         *)
(* The walk cancels by client id, so that cancelClient looks for the       *)
(* newest task of the client of the node it stands on; and it reads the    *)
(* node's next pointer after cancelClient has freed the node.  free()      *)
(* leaves that field alone until the memory is handed out again: link says *)
(* what a freed node still points to, reused that some thread may own its  *)
(* memory by now.                                                          *)
(***************************************************************************)
EXTENDS Console

VARIABLES mode,         \* what s_catchServerUI does: "serve" while it waits for a
                        \* command, "test" from the command to the loop's test,
                        \* "walk" in s_CancelAllActiveClients, "exited" after it
          SERVER_STOP,  \* the flag both loops test
          option,       \* the marker for the walk
          listener,     \* "created", "listening" or "ended"
          wpc,          \* "visit" or "next": where the walk stands
          curr,         \* the node the walk stands on, by the task it holds
          link,         \* the next pointers of the nodes freed during the walk
          reused,       \* memory has been allocated since curr was freed
          late          \* history: the clients of tasks queued during the walk

wvars == <<wpc, curr, link, reused, late>>
svars == <<mode, SERVER_STOP, option, listener>>
exitvars == <<allvars, svars, wvars>>

InitExit ==
    /\ InitConsole
    /\ mode = "serve"
    /\ SERVER_STOP = FALSE
    /\ option = INTERRUPT
    /\ listener = "created"
    /\ wpc = "visit"
    /\ curr = NoTask
    /\ link = [t \in Task |-> NoTask]
    /\ reused = FALSE
    /\ late = {}

\* What the next field of t's node leads to.
Next1(t) ==
    IF Queued(t)
    THEN LET i == CHOOSE j \in 1..Len(queue) : queue[j] = t
         IN  IF i = Len(queue) THEN NoTask ELSE queue[i + 1]
    ELSE link[t]

\* A step that gets memory from malloc(): the listener's for a request, a
\* thread's for its node, for popen's stream, or for the lines it reads.
Allocates ==
    \/ \E t \in Task : tpc'[t] # tpc[t] /\ tpc[t] \in {"none", "popen"}
    \/ \E t \in Task : ~Queued(t) /\ Queued(t)'
    \/ wrote' # wrote

\* What a step of somebody else means for the walk.
Meanwhile ==
    /\ link' = [t \in Task |-> IF mode = "walk" /\ Queued(t) /\ ~Queued(t)' THEN Next1(t) ELSE link[t]]
    /\ reused' = (reused \/ (curr # NoTask /\ ~Queued(curr) /\ Allocates))
    /\ late' = late \cup {c \in Client : /\ mode = "walk"
                                      /\ \E t \in Task : Owner(t) = c /\ ~Queued(t) /\ Queued(t)'}
    /\ UNCHANGED <<wpc, curr>>

-----------------------------------------------------------------------------
(* The listener.                                                           *)

ListenerStart ==
    /\ listener = "created"
    /\ mode # "exited"
    /\ listener' = "listening"
    /\ SERVER_STOP' = FALSE
    /\ UNCHANGED <<allvars, mode, option, wvars>>

\* Faulty variant: the flag is reset before every request.
Serve_ResetsFlag(c) ==
    /\ listener = "listening"
    /\ mode # "exited"
    /\ c \notin left
    /\ SendRequest(c)
    /\ SERVER_STOP' = FALSE
    /\ Meanwhile
    /\ UNCHANGED <<kvars, mode, option, listener>>

\* It waits in sem_wait and tests the flag only after it has started the
\* request's thread: it takes one more request after the flag was set.
Serve(c) ==
    /\ listener = "listening"
    /\ mode # "exited"
    /\ c \notin left
    /\ SendRequest(c)
    /\ listener' = IF SERVER_STOP THEN "ended" ELSE listener
    /\ Meanwhile
    /\ UNCHANGED <<kvars, mode, SERVER_STOP, option>>

\* malloc or sem_wait fails: the listener ends, and tells the console to stop
\* after the next command.
ListenerFails ==
    /\ listener = "listening"
    /\ mode # "exited"
    /\ listener' = "ended"
    /\ SERVER_STOP' = TRUE
    /\ UNCHANGED <<allvars, mode, option, wvars>>

\* A request that no listener will look at: its client waits in open() for
\* ever.
Unheard(c) ==
    /\ listener = "ended" \/ mode = "exited"
    /\ cpc[c] = "prompt"
    /\ c \notin left
    /\ Cardinality({t \in Task : tpc[t] # "none"}) < MaxRequests
    /\ nreq' = [nreq EXCEPT ![c] = @ + 1]
    /\ cpc' = [cpc EXCEPT ![c] = "mkfifo"]
    /\ tpc' = [tpc EXCEPT ![<<c, nreq[c] + 1>>] = "gave_up"]
    /\ UNCHANGED <<cfd, shown, misled, tfd, wrote, pipe, name, made, queue, stale,
                   kvars, svars, wvars>>

-----------------------------------------------------------------------------
(* The loop of s_catchServerUI.                                            *)

Cancel(c, o) ==
    /\ mode = "serve"
    /\ Find(c, o)
    /\ mode' = "test"
    /\ UNCHANGED <<SERVER_STOP, option, listener, wvars>>

\* "list", "help", or a client id without a task.  As long as the loop goes on
\* nothing comes of it.
OtherCommand ==
    /\ mode = "serve"
    /\ SERVER_STOP
    /\ mode' = "test"
    /\ UNCHANGED <<allvars, SERVER_STOP, option, listener, wvars>>

\* "exit" and "shutdownall".
TypeExit(o) ==
    /\ mode = "serve"
    /\ mode' = "test"
    /\ SERVER_STOP' = TRUE
    /\ option' = o
    /\ UNCHANGED <<allvars, listener, wvars>>

\* The loop's test: a listener that has only now begun may have reset the flag.
LoopTest ==
    /\ mode = "test"
    /\ kpc = "getline"
    /\ mode' = IF SERVER_STOP THEN "walk" ELSE "serve"
    /\ curr' = IF SERVER_STOP /\ queue # <<>> THEN queue[1] ELSE NoTask
    /\ UNCHANGED <<allvars, SERVER_STOP, option, listener, wpc, link, reused, late>>

-----------------------------------------------------------------------------
(* s_CancelAllActiveClients.                                               *)

\* Faulty variant: the walk always asks for an interrupt.
WalkCancel_Interrupts ==
    /\ mode = "walk" /\ wpc = "visit"
    /\ curr # NoTask
    /\ \E c \in Client : (c = Owner(curr) \/ reused) /\ Find(c, INTERRUPT)
    /\ wpc' = "next"
    /\ UNCHANGED <<svars, curr, link, reused, late>>

\* s_cancelClient(curr->client_id, option), with any client's id when the node
\* was freed and its memory holds a newer one.
WalkCancel ==
    /\ mode = "walk" /\ wpc = "visit"
    /\ curr # NoTask
    /\ \E c \in Client : (c = Owner(curr) \/ reused) /\ Find(c, option)
    /\ wpc' = "next"
    /\ UNCHANGED <<svars, curr, link, reused, late>>

\* "Invalid Client Id": the node's thread has freed it, so that the client has
\* no task any more or the id is read from where free() writes its own data.
WalkInvalid ==
    /\ mode = "walk" /\ wpc = "visit" /\ kpc = "getline"
    /\ curr # NoTask
    /\ ~Queued(curr)
    /\ wpc' = "next"
    /\ UNCHANGED <<allvars, svars, curr, link, reused, late>>

\* curr = curr->next
WalkNext ==
    /\ mode = "walk" /\ wpc = "next" /\ kpc = "getline"
    /\ curr' = Next1(curr)
    /\ wpc' = "visit"
    /\ reused' = (curr' # NoTask /\ ~Queued(curr'))
    /\ UNCHANGED <<allvars, svars, link, late>>

\* The pointer is read from memory that holds something else by now.
WalkBlunder ==
    /\ mode = "walk" /\ wpc = "next" /\ kpc = "getline"
    /\ reused
    /\ fault' = "use_after_free"
    /\ UNCHANGED <<vars, kpc, victim, opt, pending, left, overtaken, svars, wvars>>

\* main returns: all threads end and all their files are closed.
Exit ==
    /\ mode = "walk" /\ wpc = "visit"
    /\ curr = NoTask
    /\ mode' = "exited"
    /\ tpc' = [t \in Task |-> "dead"]
    /\ tfd' = [t \in Task |-> 0]
    /\ link' = [t \in Task |-> NoTask]
    /\ UNCHANGED <<cvars, wrote, pipe, name, made, queue, stale, kvars,
                   SERVER_STOP, option, listener, wpc, curr, reused, late>>

-----------------------------------------------------------------------------
Walk == WalkCancel \/ WalkInvalid \/ WalkNext \/ WalkBlunder \/ Exit

ClientRuns(c) ==
    /\ (GetResult(c) /\ UNCHANGED kvars) \/ ReadMarker(c)
    /\ Meanwhile /\ UNCHANGED svars

ClientDies(c) == Interrupt(c) /\ UNCHANGED kvars /\ Meanwhile /\ UNCHANGED svars

ThreadRuns(t) == (ThreadStep(t) \/ Die(t)) /\ Meanwhile /\ UNCHANGED svars

ConsoleRuns == CancelClient /\ Meanwhile /\ UNCHANGED svars

NextExit ==
    /\ fault = "none"
    /\ \/ \E c \in Client : ClientRuns(c) \/ ClientDies(c) \/ Serve(c) \/ Unheard(c)
       \/ \E t \in Task : ThreadRuns(t)
       \/ \E c \in Client, o \in {INTERRUPT, SHUTDOWN} : Cancel(c, o)
       \/ \E o \in {INTERRUPT, SHUTDOWN} : TypeExit(o)
       \/ OtherCommand \/ ListenerFails \/ ListenerStart \/ LoopTest \/ ConsoleRuns \/ Walk

SpecExit == InitExit /\ [][NextExit]_exitvars

\* Nothing makes the operator or a user type or press anything, but what has
\* been typed runs on.
FairExit ==
    /\ SpecExit
    /\ \A c \in Client : WF_exitvars(fault = "none" /\ ClientRuns(c))
    /\ \A t \in Task : WF_exitvars(fault = "none" /\ ThreadRuns(t))
    /\ WF_exitvars(fault = "none" /\ (ListenerStart \/ LoopTest \/ ConsoleRuns \/ Walk))

-----------------------------------------------------------------------------
(* Properties.                                                             *)

TypeOKExit ==
    /\ TypeOKConsole
    /\ mode \in {"serve", "test", "walk", "exited"}
    /\ SERVER_STOP \in BOOLEAN
    /\ option \in {INTERRUPT, SHUTDOWN}
    /\ listener \in {"created", "listening", "ended"}
    /\ wpc \in {"visit", "next"}
    /\ curr \in Task \cup {NoTask}
    /\ link \in [Task -> Task \cup {NoTask}]
    /\ reused \in BOOLEAN
    /\ late \in SUBSET Client

\* The console uses a freed node to bad effect only when the victim's thread
\* came to its own taskqRemove between the console's taskqFind and the end of
\* the join, or, in the walk, which reads the next pointer of every node it has
\* freed, when memory has been allocated in between.  Cancelling a thread while
\* its command runs is clean, whatever other clients and threads do.
UseAfterFreeNeedsOverlap == fault = "use_after_free" => overtaken \/ reused

\* "all active tasks cancelled": every task that is in the queue when the walk
\* begins is cancelled or comes to its own end, even of a client with several,
\* when tasks end under the walk or are queued meanwhile, and when it steps
\* over freed nodes.  Only of a client that gets another task during the walk
\* an older one may be missed, as the walk cancels the newest in its place.
ExitCancelsAll ==
    mode = "exited" => \A i \in 1..Len(queue) : Owner(queue[i]) \in late

\* "exit" and "shutdownall" end the server once the listener has started:
\* before, it may still take the order back.  So does any command after the
\* listener has failed.
ExitIsCarriedOut ==
    (mode = "test" /\ SERVER_STOP /\ listener # "created") ~> mode = "exited" \/ fault # "none"

\* "shutdownall" shuts down every client that has a task queued when it is
\* typed and whose thread does not come to its own end first, wherever that
\* thread stands then and whether or not its popen or pclose has failed, but
\* not one that takes a line of output for a shutdown.
ShutdownAllReachesClients ==
    \A c \in Client :
        (/\ mode = "test" /\ kpc = "getline" /\ SERVER_STOP /\ listener # "created"
         /\ option = SHUTDOWN
         /\ \E t \in Task : Owner(t) = c /\ Queued(t))
            ~> \/ c \in left
               \/ \E t \in Task : Owner(t) = c /\ (t \in misled \/ tpc[t] = "close")
               \/ cpc[c] = "gone"
               \/ fault # "none"
               \/ stale

\* A client that a marker demands to shut down shuts down: no end of file
\* and no other marker gets in between, only a line that the client takes for
\* a shutdown.
ShutdownIsHeeded ==
    \A c \in Client :
        (\E i \in 1..Len(pipe[c]) : pipe[c][i] = SHUTDOWN)
            ~> \/ c \in left
               \/ <<c, nreq[c]>> \in misled
               \/ cpc[c] = "gone"
               \/ fault # "none"
               \/ stale

=============================================================================
