# Verification of the IPC client/server program

The program in `src/` runs as one server (`-s`) and any number of clients (`-c`) on one machine. A
user types a shell command into a client; the client puts it into shared memory; the server runs it
with `popen` in a thread of its own and sends the output back through a FIFO named after the client.
The server's operator can list, cancel and shut down the clients' tasks. `myproj2.c` is the complete C
program and `ipcClient.cpp` the same text; `ipcServer.cpp`, `ipcFifo.cpp`, `ipcSharedMem.cpp`,
`ipcCSProg.cpp` and `ipcMain.cpp` are an unfinished C++ port of it (`src/README` calls it under
construction), whose queue, request thread, FIFO and listener code is the C code again.

This directory holds TLA+ models of its parts, TLC configurations that check them on small instances,
and TLAPS proofs of what holds for every instance.

## 1. Inventory

| Component | State | Operations | Code |
|---|---|---|---|
| Shared memory request slot | one `ClientRequestMsg` (`client_id`, `text`, `textlen`, `sem`) | a client writes it and posts; the listener waits, copies, creates a thread; the server clears it when it starts | `c_loadRequest_shm`, `s_unloadClientRequest_shm` / `unloadClientRequests`, `cs_setupConnectionAccess_shmIPC` |
| Active client task queue | doubly linked list `HEAD_taskq` on the heap | add, find, remove, show | `taskqAdd`, `taskqFind`, `taskqRemove`, `taskqShow` (`s_taskq*`) |
| Request thread | its place in `processClientRequest`, its node, its end of the FIFO | make and open the FIFO, queue, `popen`, copy lines, `pclose`, dequeue, close, unlink, with three ways to fail | `processClientRequest` (`s_processClientReq`) |
| Result FIFO | the name `/tmp/sjdavids_FIFO<pid>`, the inode it means, the bytes in it | make, open, read, close, unlink, by both sides | `cs_makeFIFO`, `cs_removeFifo`, `c_getResult_FIFO`, `readLine` |
| Markers | two fixed lines, 32 and 31 characters | sent by the console, recognised by the client | `cancelClient`, `c_getResult_FIFO`, `ipcCommon.cpp` |
| Server console | what the operator typed, `SERVER_STOP` | `list`, `cancel`, `shutdown`, `shutdownall`, `exit` | `s_catchServerUI`, `cancelClient`, `s_CancelAllActiveClients` |
| Start and end of processes | the shared memory's name, `serverdown`, the handlers registered with `atexit` | exclusive open, connect, unlink, `-x`, death by a signal | `cs_setupConnectionAccess_shmIPC`, `cs_cleanup_shm`, `do_serverMain`, `do_clientMain`, `main` |
| C++ port's own skeleton | `_serverDown`, constructors and destructors | not modelled: there is no program (section 7) | `ipcCSProg.cpp`, `ipcMain.cpp`, `ipcSharedMem.cpp` |
| Help texts, makefile, `myecho` | none | not modelled: no state | `ipcCommon.cpp`, `makefile` |

How they meet. A client and the listener share the slot and its semaphore. The listener hands a copy to
a request thread. Thread and client share the FIFO, by name until each has opened it and by inode
afterwards. All threads and the console share the queue, without a lock. The console and a request thread
share the node, the thread id in it and the server's end of the FIFO. Servers and clients meet through
the name of the shared memory.

What is hard: the slot has no lock, and the semaphore that looks like one only counts; the queue has
none either; a name may change its meaning between two steps of a process that uses it; a node found is
used across a `pthread_join`, and a walk over the queue goes on from nodes it has freed; a process can die
between any two steps, a client by Ctrl-C and the server by `SIGPIPE`; either side of an exchange can give up
without the other, and the listener can end alone; and results and markers share one unframed stream,
in which any line may be as long as a marker. `PROJECT.json` lists each hazard at its line.

What makes each part correct:

- slot: a request that the server runs was sent by a client, whole; none is lost or run twice; clients
  do not wait on an idle server;
- queue: the links stay sound in both directions, no freed node is touched, find and list agree with
  what is running;
- session: the client shows all its command's output, in order and nothing else; writers have readers;
  every request ends;
- console: a cancel ends exactly the task that was found, lets go of the client, and touches no freed
  node; the marker comes last and is obeyed; exit is carried out and leaves no task;
- stream: only the server's markers stop a client, and no output is lost;
- lifecycle: one server, found by its clients, whose name is given back.

Not all of these hold. Sections 3 and 5 say which do, and under which conditions.

## 2. The modules

Each module's header names its code; `PROJECT.json` maps each definition to its lines.

| Module | Models | One step is |
|---|---|---|
| `TaskList` | abstract: what the queue promises, a list newest first | an add or an end |
| `TaskQueue` | the linked list with its pointers, `malloc` and `free` | a call |
| `QueueRace` | extends `TaskQueue`: its routines under several threads and the list command, without a lock | a statement on the shared pointers |
| `RequestSlot` | the slot, the semaphore, clients, listener, what parts a client from its thread, and the server's initialisation (`BootInit`, `Setup`) | an access to shared memory |
| `Session` | clients and request threads around the FIFOs, with failing calls, misread lines, Ctrl-C and `SIGPIPE`; uses `TaskList` for the queue | a system call or a queue call |
| `Console` | extends `Session` by `cancelClient` and the markers | a system call or a queue call |
| `ServerExit` | extends `Console` by the console's loop, `SERVER_STOP`, the listener and the walk of `exit` and `shutdownall`; the composition that is checked | the same; one turn of the walk is two steps around `cancelClient` |
| `ResultStream` | the contents of one FIFO: sizes, NULs, cut lines, markers | writing or reading a line |
| `Lifecycle` | the name of the shared memory, processes starting, connecting, failing, exiting and dying | a system call or a run of an exit handler |
| `TaskQueueProof`, `QueueRaceProof`, `RequestSlotProof`, `SessionProof`, `ServerExitProof`, `ResultStreamProof`, `LifecycleProof` | the proofs (section 6) | |
| `Lemmas` | what the proofs share: `Min` finds the least element, where `Cons` and `RemoveAt` put the elements of a list | |
| `MC*` | the constants for TLC | |

How they fit together. `TaskQueue` implements `TaskList` (`ImplementsTaskList`, checked and proved), and
`Session` uses the abstract list. `RequestSlot` ends where a thread has been created, `Session` begins
there. `RequestSlot` takes an exchange of results that succeeds as one step (`Answer`), and each way in
which `Session` shows it to fail as another (`GiveUp`, `Interrupt`, `ThreadEnds`, `LateUnlink`). `Session`
takes the request's way as one step (`SendRequest`), which is right for requests that nothing disturbs
(`UndisturbedArrivesIntact`). `Session` treats a line as an item that may be displayed, dropped or taken
for a shutdown; `ResultStream` looks at its size and says which.

Choices that need a reason:

- `TaskQueue`. `free()` leaves a node's fields alone, so that a dangling pointer leads somewhere and
  following one can be told from not following it. The head case of `taskqRemove` clears the wrong `prev`
  field (`ipcServer.cpp:385`), and the model does so too. A node is removed once, by its thread or by the
  console: that this may fail when both meet is in `Console`.
- `QueueRace`. Four one-shot threads stand for any four requests. Only statements that read or write what
  another thread may write are steps of their own; filling in the new node is part of `AddTest`. Line 492,
  `if (node->next) node->next->prev = node->prev`, reads `node->next` twice, and so does the model
  (`RemoveBack`, `RemoveLink`): in between, another removal may have emptied it. `free()`
  empties the fields, since the model stops when anybody follows a pointer to freed memory. `races` is a
  history of the kinds of calls that have overlapped, so that a property can name the overlap it takes.
  `malloc` does not fail here; it does in `TaskQueue`.
- `RequestSlot`. A command is a model value, and a text that is half written is `TORN`. `memset` and
  `strncpy` of the text are two steps, the integers one each. `alone` is a history variable: it names the
  client whose exchange no other has entered so far. An `Answer` ends any of the client's threads that
  have opened its FIFO by then, since a duplicated request gives it several. A client may stop waiting
  without one (`c_getResult_FIFO` fails, Ctrl-C), which `deserted` counts; a thread may end without
  having answered (`open`, `popen` or `pclose` fails), a thread that has answered may unlink the FIFO of
  the next request, and the listener ends when `malloc` or `sem_wait` fails, and with the process when
  `pthread_create` does. `failed` records that one of these has left a client waiting or the slot without
  a listener.
- `Session`. A FIFO is its inode; `cfd` and `tfd` say which inode a side has. Opening blocks until the
  other side comes. `stale` records that an `unlink` has taken the name of a newer FIFO than the caller
  used. Writing without a reader (`WriteFails`) ends the server: nobody handles `SIGPIPE`. `popen` and
  `pclose` may fail, with the node queued and the FIFO open as the code leaves them; `malloc` may fail in
  `taskqAdd`, and the command then runs without a node that would show it. `mkfifo` fails only
  with `EEXIST`, and `open` only because the name is gone. A line that is read is displayed, or nothing of
  it is (`NOTHING`: it was as long as the interrupt marker), or it ends the reading without shutting the
  client down (it was as long as the shutdown marker; `misled` records the request). Any line may be any
  of the three, as the module does not look at lengths. `Interrupt` is Ctrl-C in a client that waits for
  its result: its end of the FIFO closes, the name stays. It does not come back; with a new process id it
  would be another client.
- `Console`. A cancelled thread dies in `getline`, `write`, `pclose` or `close`: the cancellation points
  between queueing and unlinking. `pthread_cancel` of a thread that has ended, but has not been joined,
  succeeds, as POSIX has it. Using a freed node is undefined, so the model stops there with a `fault`.
- `ServerExit`. The walk of `s_CancelAllActiveClients` reads `curr->next` after `cancelClient` has freed
  `curr`. `free()` of a node writes its own data into the first and last fields (the client id and `prev`)
  and leaves `next` alone, so the walk goes on as if nothing had happened (`link`) unless memory has been
  allocated in between (`reused`): then anything may be found there, another client's id (`WalkCancel`) or
  a wild pointer (`WalkBlunder`). The listener and the console both reset `SERVER_STOP` when they begin,
  and the listener looks at it only after its next request (`Serve`); later requests are `Unheard`. A
  listener whose `malloc` or `sem_wait` fails sets the flag itself (`ListenerFails`), and the console sees
  it after any command (`OtherCommand`). `late` names the clients of which a task was queued during the
  walk.
- `ResultStream`. The server writes `strlen(line) + 1` bytes, so each line but the first reaches the
  client behind a NUL. A piece carries its length and whether a newline ends it, which is what `readLine`
  and the comparisons of sizes depend on. A cancelled thread may stop in the middle of a line. `readLine`
  drops what does not fit its buffer: `cut` names the lines of which it has dropped the end. The client
  may die at any time (`Die`).
- `Lifecycle`. A segment is an inode: who has mapped one keeps it when the name goes. Each successful
  connection registers `cs_cleanup_shm` once more with `atexit`, and a client's handler unlinks the name
  when `serverdown` is set. Every system call whose result the code tests may fail (`Fails`); the client
  takes any failure of the exclusive open but `EEXIST` for "no server" and unlinks the name, whoever holds
  it (`ClientOpenFails`). A client gets a result only from a server that is up on its segment
  (`ClientIsServed`), or gives up (`ClientGivesUp`). `orphan` records the segments whose maker died
  without unlinking the name.

## 3. The runs

Each property of a passing run has a mutant, in the module, that breaks it.

| Run | Instance | What it shows |
|---|---|---|
| `taskqueue` | 4 nodes, 2 clients | calls that do not overlap keep the list sound, touch no freed node in spite of the stale `prev`, and implement the abstract list; list and find tell the truth |
| `queue_race` | 4 threads, 3 nodes, one list command at a time | the statements, taken one by one, are sound while no two threads' calls overlap, and a list command beside adds is harmless; a null pointer is followed only after an add has overlapped or between the two readings of line 492, a freed one or a circle needs an overlap of two threads or of list and removal |
| `slot` | 2 clients, 2 commands, 2 threads, 1 deserted request | the unlocked slot never names a process that is no client nor a length nobody sent, work never outnumbers waiting clients and deserted requests, not all clients get stuck and someone is always served unless a thread or the listener has failed them, and an undisturbed request arrives whole |
| `slot_torn` (violated) | 2 clients | `RequestsAreWhole`: a thread runs a request that its client never sent |
| `slot_boot` (violated) | 1 client | `SomeoneIsServed`, from the server's start: the `memset` erases an early request |
| `session` | 2 clients, 2 requests, 2 lines | while no `unlink` hits a newer FIFO and no line of the request is taken for a shutdown, writers have readers, the output is read in order and to the end, requests are answered unless `popen` or `pclose` failed; and, whatever is unlinked or interrupted, a client that reads comes to the end of its input |
| `session_stale` (violated) | 1 client, 2 requests | `EveryRequestEnds`: a late `unlink` strands the next request |
| `console` | 2 clients, 2 requests, 1 line | a freed node does harm only when the victim's thread removed it itself in the meantime or the walk's memory was allocated again; `SIGPIPE` needs an interrupted client, a line taken for a shutdown or an unlinked newer FIFO; markers come last; exit leaves no task that was there when the walk began, unless its client was given another during the walk |
| `console_ends` | 1 client, 2 requests, 1 line, with fairness | cancelled clients are let go, also those of failed commands; shutdown markers are obeyed and `shutdownall` reaches the clients of all active tasks, unless they take a line for a shutdown first; exit is carried out once the listener has started, also when the listener has failed |
| `lifecycle` | 2 processes, 3 segments, 2 connections each | servers never share a segment; the name always has a keeper, or an owner that died; orderly ends give it back |
| `lifecycle_servers` (violated) | 3 processes, no failing call, no kills, no `-x` | `OneServerUp`: the leftover handler of a client that was once served removes a new server's name, and a second server starts |
| `stream` | lines of 1, 29 to 33, 4094, 4095 and 5000 characters, 2 lines, a buffer of 4096 | while the client lives, only lines within reach of the marker's size are lost, and only lines that do not fit the buffer are cut; a cancelled client stops, wherever its stream was cut; `SIGPIPE` needs a misread line |

Why these bounds are enough to be interesting. Four nodes give a head, two inner nodes and a tail, and
let a freed node be reused while another one's `prev` still points at it. Four threads can add two nodes
at the same time and remove both while a third comes and goes, and with three nodes for four threads the
memory of a lost node is used again. Two clients make every mixture
of two requests in the slot; three steps of one client against one of the listener tear a request. One
deserted request lets a permit or a thread outlive its client, and that client send again. Two requests
of one client are enough for it to run into the leftovers of the first, and to have two tasks in the queue,
which is what `taskqFind`'s choice of the newest is about; two lines give a first that ends the reading
and a second that is written after it. With two clients the exit walk has a second node to go to after it has freed the first,
and tasks that end, and one that is added, under it. The properties about time take one client, because
checking them with two takes more than a quarter of an hour; who waits for whom involves one client, its
threads and the console. The line lengths are those at which any comparison changes its outcome, with a NUL or a
newline in front or without, one ordinary line, those that just fit the buffer with and without a NUL in
front, and a longer one. Two processes can be
server and client, client and client, or server and `-x`, in every order of starting again. The
violations need three, of which two end as servers.

The named bounds are `MaxRequests` (requests of all clients together), `MaxLines`, `MaxDeserted`,
`MaxSegments`, `MaxHandlers`, and the sizes of the constant sets. `MaxLines` bounds a command's output, not the
queue of the FIFO, which is never full in these runs: a full FIFO only makes the writer wait for the
reader.

Deadlock is checked in `taskqueue`, `lifecycle`, `lifecycle_servers`; elsewhere the system may stop,
because nobody types another command. `NotAllStuck`, `SomeoneIsServed`, `RequestsAreAnswered`,
`CancelReleasesClient` and `ExitIsCarriedOut` say what stopping must not mean.

## 4. Fairness

Weak fairness of each process's or thread's own steps, and of nothing else. The operating system
schedules a thread that can run, and commands end. Weak is enough: what a blocked `open` or a join waits
for stays there once it has come. Only the permit that the listener's `sem_wait` waits for can be taken
away again, by a client's `sem_trywait`; `SomeoneIsServed` needs no strong fairness for it, since it speaks
of times when every client waits and nobody is left to take it. Typing a command, "exit", Ctrl-C,
starting a process, killing one, `-x`, the operator's commands and the failures of system calls have no
fairness: none of them need ever happen, and all may. `Answer` in `RequestSlot` has weak fairness, but
`LateUnlink`, `ThreadEnds` and `ListenerEnds` can take it away for good, and `SomeoneIsServed` names that
case (`failed`). In `ServerExit` the console, once a line has been typed, goes on with it as one thread, `FairExit`. In
`Lifecycle` the client's wait for its result has none, because a command may run for ever.

## 5. Where code and comments disagree

Four are runs that TLC finds violated.

- `slot_torn`. "Use semaphore to safely lock shared memory prior to putting client request in shared
  memory" (`myproj2.c:984`). The writes come first, `sem_trywait` never blocks, and the next client may
  write while the listener reads.
- `slot_boot`. "SERVER up, OK to connect shmem" (`myproj2.c:308`). The name exists before the server
  has cleared the memory and set up the semaphore; a request put there in between is erased.
- `session_stale`. "No problem if it does not exist, it was already cleaned" (`ipcFifo.cpp:102`). It may
  exist again, as the FIFO of the next request.
- `lifecycle_servers`. "multiple servers not allowed" (`myproj2.c:298`). They are possible, without any
  kill or failing call: a client has been served by a server that has ended since; its next command finds
  no server, and sets `serverdown`; the handler left from its first connection then unlinks the name of the
  server that has been started meanwhile.

The others are part of the models, and the passing runs say when they happen.

- "cancel active client task" (`myproj2.c:841`). The node found may be freed by its own thread before the
  console has finished with it: `overtaken` in `UseAfterFreeNeedsOverlap`.
- "checks for EOF (exit), interrupt from server, shutdown request from server" (`ipcFifo.cpp:118`). The
  block after the comparison with the shutdown marker runs whatever the comparison says, so that any line
  read as 31 characters ends the client's reading: `stopped = "length"` in `SigpipeNeedsMisreading`, and
  `misled` in the properties of `Session`, `Console` and `ServerExit`.
- "input beyond length n is dropped" (`ipcClient.cpp:159`) agrees with the code, and loses output:
  `cut` in `OnlyMarkerSizedLinesAreLost`.
- "all active tasks cancelled" (`myproj2.c:878`). Not the ones that are queued while the walk goes on, and
  of a client that gets one of these not always the older one, as the walk cancels the newest in its
  place: `late` in `ExitCancelsAll`. Nor those for which `malloc` failed, which are in no list.
- "UNPROTECTED MULTITHREAD SHARED DATA STRUCT" (`myproj2.c:382`) agrees with the code; `queue_race` says
  what follows from it.

## 6. What is proved

For every set of nodes, clients, commands, threads and processes; the assumptions are the ASSUMEs of
the modules: a finite heap, finite sets of clients and, in `RequestSlot`, of threads, commands of
positive length (every line ends in a newline), a line buffer larger than a marker, special values that
are none of the ordinary ones, bounds that are natural numbers. Each inductive invariant was checked by TLC on the instance of the run
in section 3 before it was proved.

All safety properties of the passing runs are theorems.

- `TaskQueueProof`: `TypeCorrect`, `QueueStaysLinked`, `RemoveIsMemorySafe`, `QueueRefinesTaskList`. The
  inductive invariant is `TypeOK /\ QueueLinked`, in which `order`, the history of what is queued, stands
  for the list that the pointers should form. `LinkedBack` says nothing of the head's `prev`, which may
  dangle: the proof of `RemoveIsMemorySafe` is that `taskqRemove` follows `prev` of inner nodes only, and
  that an inner node was given its `prev` when its predecessor was added. The refinement follows since
  the owners of `order` are the abstract list, and each call changes both at the same position.
  `ListTellsTheTruth`, `FindTellsTheTruth`: the loops of `taskqShow` and `taskqFind` are
  the function `curr`, which is defined from its own earlier values; TLA+ takes any function that
  satisfies the equation, so the proof has to show that only one does. Two that differ would differ at a
  least turn (`LeastElement`), and there is none (`WalkIsUnique`); the path along `order` is one, by
  `LinkedForward` (`PathIsWalked`). The walk reaches `NULL` after as many turns as there are tasks, and
  these are no more than the nodes of the heap (`QueueFits`), so that the loop is not cut short: this is
  what the heap has to be finite for.
- `QueueRaceProof`: `RaceTypeCorrect`, `SoundWithoutRaces`, `NoFaultWithoutRaces`,
  `NullsWithoutAddRaces`, `ListShowsASnapshot`, `WalksEnd`. The invariant `RaceInv` has a part for each
  degree of overlap. `Owners` holds whatever overlaps: the list is made of the nodes of the threads that
  have added theirs and not yet taken it out, each once; the pointers may be wrong, the history is not.
  `Sound`, while no two threads' calls have overlapped, is `QueueLinked` for the middle of a call: next
  leads along the list after every statement, while prev may lag behind at the one node a removal has
  still to visit (`BackLinks`), and `AtWork` says what the thread has done already. `Undisturbed`, while
  no removal has overlapped the list command either: what it has still to print is the rest of the list,
  which an add only makes longer in front. `NoLostNode`, while no add has overlapped another call: each
  queued node but the head has a predecessor, live or not; removals hand on what they have, so that
  however they overlap none follows a null `prev`, and what is left is the `node->next` of line 492, which
  is not null when it is tested and may be when it is read again. `WalksEnd` takes the walk lemmas of
  `TaskQueueProof`, which ask for `LinkedForward` only (`Walkable`) and so hold in the middle of a call.
- `RequestSlotProof`: `TypeCorrect`, `OnlyGenuineTasks`, `WorkBound`, `NeverAllStuck`, `UndisturbedIsIntact`.
  Each has its own strengthening. That tasks are genuine needs the listener's half-read copy to hold
  genuine parts, and the slot to hold some from the first post on. The bound on the work needs a count over
  finite sets: a post adds a permit and a waiting client; every other step moves a unit of work along or
  drops one, except an answer, which ends at least one thread for the one client it releases, and a client
  that stops waiting, which `deserted` makes up for. Permits have a bound of their own, with the clients that
  are about to post: each has come by `sem_trywait`, which leaves a permit less or none. That not all are
  stuck is inductive with the types alone: the last client to wait has just posted, and nobody is left whose
  `sem_trywait` could take the permit; a thread that ends while its client waits, or the end of the
  listener, is `failed`. That an undisturbed request arrives follows the one client step
  by step through both routines.
- `SessionProof`: `TypeCorrect`, `WritersKeepReader`, `OutputArrives`. The types need `Numbering`: threads
  are numbered as their client's requests, so that a request that may still be sent has a thread to go to;
  that there is room takes a count, and the set of clients has to be finite for it. The rest is `Meeting`, for each
  client, as long as nothing is `stale`. `OlderAreOver`: the threads of earlier requests have ended, and
  the name no longer means their FIFO. `InStep`: where the client and its latest thread can be at the
  same time, and that they have opened the same inode, whichever of them made it; a client that was misled
  by its latest request may be ahead of its thread. `LinesInOrder`: what the
  client has read, each line or `NOTHING` in its place, followed by what the FIFO holds, is what the thread
  has written. The two
  theorems are read off from it; without `OlderAreOver` a new request could meet an old FIFO, without the
  name in it a late thread could write to the new one. The proof takes every step `Session` can take and
  the requests that no server hears any more, so that `ServerExitProof` can build on it.
- `ServerExitProof`: `ExitTypeCorrect`, `CancellingIsClean`, `ServerSurvives`, `MarkerComesLast`,
  `WalkCancelsAll`. The invariant `ExitInv` adds to that of the sessions: `Control`, where the console is
  and that its victim is queued unless it was overtaken; `Nodes`, each queued node belongs to a thread
  that has not removed it; `Cancelling`, a cancelled or failed thread whose client still reads is that client's
  latest, and no marker is in its FIFO until the console has written one for it. A marker therefore meets
  the reader it is for, unless that one was misled, and nothing comes after it. `Walking` is for the exit
  walk, which goes on from nodes it has freed. It gives every task a rank, such that the queue is in order
  of rank, no queued node ranks before the one the walk stands on, and the `next` that a freed node keeps never ranks beyond a queued
  one: so nothing that is queued can be passed over, although the nodes the walk comes by may be free. It
  does so for the `Early` nodes, those of clients that are not `late`: a node that is added during the walk
  makes its client late, and takes a rank below all others (`WalkJoined`), which the others' order does
  not notice. The client of an early node has been given no task since the walk began, so that
  the newest task of that client, which `cancelClient` finds, is the node the walk stands on.
- `ResultStreamProof`: `SigpipeNeedsMisread`, `TypeCorrect`, `OnlyMarkerSizedAreLost`. `SIGPIPE` needs a
  client that has stopped reading, or died, while the server still writes. The strengthening `NoMarkerYet` says
  that until the server sends a marker the FIFO holds pieces of output only, and that the client, if it
  has stopped, was stopped by a line's length: no such piece equals a marker, and only `SendMarker` adds
  one, after which the thread writes no more. The other two need `StreamInv`: `InOrder`, which pieces may
  follow which, and that lines come in order; `Described`, a piece of text is a line written, and only
  the last can lack its newline; `NothingForgotten`, each line is shown, lost for its size, or still in the FIFO, as long as the client
  reads; and a line that is `cut` does not fit the buffer behind one NUL.
  The core is what one call of `readLine` can take (`OneTextTaken`): with a line of output no second one
  and no marker, at most a NUL before it, and a NUL and a newline behind it. So the size compared is
  that of the line and at most three more (`SizeOfText`, `MarkerSized`), which is where the 29 in the
  property comes from; and a marker that `strcmp` finds was the last piece (`MarkerIsLast`). What
  `readLine` counts and collects are functions defined from their earlier values, determined as in
  `TaskQueueProof` by there being no least turn at which two of them differ (`SameSteps`).
- `LifecycleProof`: `TypeCorrect`, `SegmentsAreNotShared`, `NameIsKept`. The invariant adds to the types
  that each segment has one maker, that a server past its setup still has its handler to run, that
  a client in between two connections holds no segment, and that the name's keeper is the name's maker. The keeper's duty cannot be lost but by `Crash` or
  `ServerMapFails`, which record the orphan.

Only model-checked: everything about time (`SomeoneIsServed`, `RequestsAreAnswered`,
`ReadersComeToAnEnd`, `CancelReleasesClient`, `ShutdownAllReachesClients`, `ExitIsCarriedOut`,
`ShutdownIsHeeded`, `NamesAreGivenBack`, `CancelledClientStops`), which is out of the prover's reach.

## 7. What is not modelled

- The C++ port's own skeleton (`ipcCSProg.cpp`, `ipcMain.cpp`, the constructors and destructors of
  `ipcSharedMem.cpp`). `src/README` calls it under construction and `src/makefile` links nothing ("NO
  EXECUTABLE YET"): `ipcServer.cpp:72` defines a function without parentheses, so that there is no
  behaviour to be faithful to. The routines it shares with the C program are modelled.
- Clients that wait in `open()` when the server has ended. The model has them (`Unheard`, `Exit`), but
  nothing in the code ever releases them, and there is nothing to check.
- That commands inherit files. `popen` starts each command with the server's open ends of all FIFOs (none
  is opened with `O_CLOEXEC`), so that a client sees the end of its FIFO only when the commands that were
  started while its thread had it open have ended too. Commands end by assumption, so this delays
  `ReadEOF` and changes nothing that the properties speak of; a command that runs for ever would hold up
  other users' clients.
- The operator's end of input: `getline` fails without filling the buffer that the console then compares.
- Commands whose output contains a marker, or a NUL (`strlen` cuts the line there).
- Errors of `close`, `read` and of a `write` other than for want of a reader: on a FIFO between two
  processes of one machine they do not arise. `mkfifo` that fails for another reason than `EEXIST` (a full
  disk, say) is `GiveUp` in `RequestSlot` and `ClientGivesUp` in `Lifecycle`; in `Session` it would be a
  client or a thread that ends at its first step.
- Commands longer than the buffer. `textlen` is then larger than the text.
- Request threads are never joined unless cancelled, and their requests never freed. That is a leak
  which no property of finite behaviours notices; that `pthread_create` fails in the end and the process
  exits is `ListenerEnds` in `RequestSlot`.
- Help texts and printing; the makefile.

## 8. Plan

Done, in this order: `TaskQueue` with `TaskList`, `RequestSlot`, `Session`, `Console`, `Lifecycle`,
`ResultStream`; the proofs of the first, second and fifth; `QueueRace`; Ctrl-C in `Session`; `ServerExit`; the proofs
of the walk along the queue and of `ResultStream`; the proofs of `Session`, of `ServerExit` with
`Console`, and of `QueueRace`; which lines `ResultStream` loses; the failures of one side alone in
`RequestSlot`, `Session`, `ServerExit` and `Lifecycle`, with their proofs.

Next: that `Session`'s queue calls, as `TaskList` has them, are what `QueueRace` does while calls do not
overlap.
