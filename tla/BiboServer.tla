----------------------------- MODULE BiboServer -----------------------------
(***************************************************************************)
(* biboServer and its clients (HW4): the requests in the server's FIFO,    *)
(* the main thread that admits clients and queues their tasks, the pool of *)
(* workers that execute them, and the end by killServer.  What a task does *)
(* with a file is in FileAccess: here it is answered, or it is a quit,     *)
(* which gives the place of the client to the first that waits.            *)
(*                                                                         *)
(* numClients, connectedClients and the queue of waiting clients have no   *)
(* lock: each access is a step.  Two conflicting accesses to the linked    *)
(* queue, and a store outside connectedClients, may corrupt memory, and    *)
(* nothing is said of what follows.                                        *)
(***************************************************************************)
EXTENDS Integers, FiniteSets, SequencesExt

CONSTANTS
  Clients, Workers, Main, NoClient,
  MAX_CLIENT,
  MaxTasks,   \* bound on the tasks a client sends
  InterruptAt \* the places of main at which the user interrupts the server

ASSUME BiboAssumption ==
  /\ NoClient \notin Clients /\ Main \notin Workers
  /\ MAX_CLIENT \in Nat \ {0} /\ MaxTasks \in Nat /\ InterruptAt \subseteq STRING

Procs == Workers \cup {Main}
Slots == 1..MAX_CLIENT
NoIndex == 0       \* -1 in the code

VARIABLES
  client,      \* where each client process is
  hasFifo,     \* whether the FIFO of a client exists
  asked, told, \* tasks a client has sent, times it was told it is connected
  serverFifo,  \* requests written and still to be read
  tasks,       \* the task queue, under mutexQueue
  pids,        \* the queue of waiting clients
  slots,       \* connectedClients
  numClients,
  killThreads,
  lockHeld,    \* whether main runs its SIGINT handler with mutexQueue held
  pc, job, reg   \* of a thread: place, request in hand, value or index read

env  == <<client, hasFifo, asked, told>>
adm  == <<pids, slots, numClients>>
stop == <<killThreads, lockHeld>>
vars == <<env, serverFifo, tasks, adm, stop, pc, job, reg>>

NoJob == [c |-> NoClient, kind |-> "none"]

Init ==
  /\ client = [c \in Clients |-> "out"] /\ hasFifo = [c \in Clients |-> FALSE]
  /\ asked = [c \in Clients |-> 0] /\ told = [c \in Clients |-> 0]
  /\ serverFifo = <<>> /\ tasks = <<>> /\ pids = <<>>
  /\ slots = [i \in Slots |-> NoClient]
  /\ numClients = 0 /\ killThreads = FALSE /\ lockHeld = FALSE
  /\ pc = [p \in Procs |-> IF p = Main THEN "read" ELSE "top"]
  /\ job = [p \in Procs |-> NoJob] /\ reg = [p \in Procs |-> 0]

Goto(p, from, to) == pc[p] = from /\ pc' = [pc EXCEPT ![p] = to]

-----------------------------------------------------------------------------
(* The clients (client.c): one request at a time. *)

\* Main runs the branch of killServer, or its handler: it reads no more requests.
Killing == pc[Main] \in {"kill", "kill_fifo", "kill_pids", "kill_threads", "broadcast", "join", "exit"}

Send(c, kind) ==
  serverFifo' = IF Killing THEN <<>> ELSE Append(serverFifo, [c |-> c, kind |-> kind])

Become(c, from, to) == client[c] = from /\ client' = [client EXCEPT ![c] = to]

server == <<tasks, adm, stop, pc, job, reg>>

\* Connect or tryConnect, with a FIFO of its own, which it then opens to read:
\* that returns when the server has opened it to write.
ClientConnects(c) ==
  /\ Become(c, "out", "opening") /\ hasFifo' = [hasFifo EXCEPT ![c] = TRUE]
  /\ Send(c, "connect") \/ Send(c, "try")
  /\ UNCHANGED <<asked, told, server>>

ClientAsks(c) ==
  /\ asked[c] < MaxTasks /\ asked' = [asked EXCEPT ![c] = @ + 1]
  /\ Become(c, "in", "busy") /\ Send(c, "task")
  /\ UNCHANGED <<hasFifo, told, server>>

\* The quit command, or the handler of SIGINT, which exits at the first answer
\* it reads, be it the answer to another request.  The client exits without
\* any answer after a transfer that was interrupted (client.c 156-171), and
\* when it has not opened its FIFO yet: clientFd is still 0, the terminal.  The
\* handler puts off the end of a client that uploads.
Uploading(c) == \E w \in Workers : pc[w] = "receive" /\ job[w].c = c

ClientQuits(c) ==
  /\ \/ \E from \in {"in", "waiting", "busy"} : Become(c, from, "leaving") /\ ~Uploading(c)
     \/ asked[c] > 0 /\ Become(c, "in", "gone")
     \/ Become(c, "opening", "gone")
  /\ Send(c, "quit")
  /\ UNCHANGED <<hasFifo, asked, told, server>>

ClientKillsServer(c) ==
  /\ Become(c, "in", "leaving") /\ Send(c, "kill")
  /\ UNCHANGED <<hasFifo, asked, told, server>>

\* What a response of the server makes of a client.
Answered(s) == CASE s \in {"waiting", "busy"} -> "in"
                 [] s = "leaving" -> "gone"
                 [] OTHER -> s

Answer(c) == client' = [client EXCEPT ![c] = Answered(@)]

Client(c) == ClientConnects(c) \/ ClientAsks(c) \/ ClientQuits(c) \/ ClientKillsServer(c)

-----------------------------------------------------------------------------
(* The queue of waiting clients, and the table of the connected ones. *)

PidWrites == {"pid_put", "pid_take", "pid_remove", "kill_pids"}
PidReads  == {"pid_front"}

\* After this no thread does anything that the model knows of.
Corrupted == [p \in Procs |-> "corrupt"]

\* Two threads in the linked queue at a time, one of them to change it.
Corrupt ==
  /\ \E p, q \in Procs : p # q /\ pc[p] \in PidWrites /\ pc[q] \in PidWrites \cup PidReads
  /\ pc' = Corrupted
  /\ UNCHANGED <<env, serverFifo, tasks, adm, stop, job, reg>>

FindInClientArray(c) ==
  IF \E i \in Slots : slots[i] = c
  THEN CHOOSE i \in Slots : slots[i] = c /\ \A j \in 1..(i - 1) : slots[j] # c
  ELSE NoIndex

SetReg(p, v) == reg' = [reg EXCEPT ![p] = v]

AddNumClients(p, from, to, d) ==
  /\ Goto(p, from, to) /\ numClients' = reg[p] + d
  /\ UNCHANGED <<env, serverFifo, tasks, pids, slots, stop, job, reg>>

\* open(clientFifo, O_WRONLY): it fails when there is no FIFO, and blocks for
\* good when the FIFO has lost its reader.
Blocks(c) == c \in Clients /\ hasFifo[c] /\ client[c] = "gone"

\* Admission, by main or by a worker: the client is told, counted and stored.
Tell(p) ==
  LET c == job[p].c IN
  /\ IF Blocks(c) THEN Goto(p, "tell", "stuck") /\ UNCHANGED <<client, told>>
     ELSE /\ Goto(p, "tell", "num")
          /\ IF c = NoClient THEN UNCHANGED <<client, told>>
             ELSE told' = [told EXCEPT ![c] = @ + 1] /\ Answer(c)
  /\ UNCHANGED <<hasFifo, asked, serverFifo, tasks, adm, stop, job, reg>>

ReadNumClients(p) ==
  /\ Goto(p, "num", "num_inc") /\ SetReg(p, numClients)
  /\ UNCHANGED <<env, serverFifo, tasks, adm, stop, job>>

CountClient(p) == AddNumClients(p, "num_inc", "find", 1)

FindFree(p) ==
  /\ Goto(p, "find", "store") /\ SetReg(p, FindInClientArray(NoClient))
  /\ UNCHANGED <<env, serverFifo, tasks, adm, stop, job>>

\* connectedClients[-1] is outside the array.
Store(p) ==
  /\ \/ Goto(p, "store", IF p # Main THEN "unlink"
                         ELSE IF job[p].kind = "try" THEN "open_tell" ELSE "read")
     \/ pc[p] = "store" /\ reg[p] = NoIndex /\ pc' = Corrupted
  /\ slots' = [i \in Slots |-> IF i = reg[p] THEN job[p].c ELSE slots[i]]
  /\ SetReg(p, 0)
  /\ UNCHANGED <<env, serverFifo, tasks, pids, numClients, stop, job>>

-----------------------------------------------------------------------------
(* The main thread. *)

\* Variant: killServer is a task like the others.
DispatchAll(kind) == IF kind \in {"connect", "try"} THEN "check" ELSE "enqueue"

Dispatch(kind) == CASE kind \in {"connect", "try"} -> "check"
                    [] kind = "kill" -> "kill"
                    [] OTHER -> "enqueue"

MainRead ==
  /\ serverFifo # <<>>
  /\ serverFifo' = IF Head(serverFifo).kind = "kill" THEN <<>> ELSE Tail(serverFifo)
  /\ job' = [job EXCEPT ![Main] = Head(serverFifo)]
  /\ Goto(Main, "read", Dispatch(Head(serverFifo).kind))
  /\ SetReg(Main, IF Head(serverFifo).kind = "kill" THEN 1 ELSE 0)
  /\ UNCHANGED <<env, tasks, adm, stop>>

IsRoom == numClients < MAX_CLIENT

\* The server opens the FIFO of the client, which ends the client's own open.
Opened(c) == [client EXCEPT ![c] = IF @ = "opening" THEN "waiting" ELSE @]

\* A client that only tries has its FIFO opened after it was counted.
CheckRoom ==
  LET c == job[Main].c IN
  /\ Goto(Main, "check", CASE job[Main].kind = "try" -> IF IsRoom THEN "num" ELSE "open_try"
                           [] Blocks(c) -> "stuck"
                           [] OTHER -> IF IsRoom THEN "tell" ELSE "pid_put")
  /\ client' = IF job[Main].kind = "try" THEN client ELSE Opened(c)
  /\ UNCHANGED <<hasFifo, asked, told, serverFifo, tasks, adm, stop, job, reg>>

EnqueuePid ==
  /\ Goto(Main, "pid_put", "read") /\ pids' = Append(pids, job[Main].c)
  /\ UNCHANGED <<env, serverFifo, tasks, slots, numClients, stop, job, reg>>

\* The answer to tryConnect: a refused client ends and removes its FIFO,
\* unless it ends in its handler.
OpenTry ==
  LET c == job[Main].c IN
  /\ \/ Goto(Main, "open_try", IF Blocks(c) THEN "stuck" ELSE "refuse")
     \/ Goto(Main, "open_tell", IF Blocks(c) THEN "stuck" ELSE "tell_try")
  /\ client' = Opened(c)
  /\ UNCHANGED <<hasFifo, asked, told, serverFifo, tasks, adm, stop, job, reg>>

AnswerTry ==
  LET c == job[Main].c IN
  /\ \/ /\ Goto(Main, "refuse", "read")
        /\ client' = [client EXCEPT ![c] = "gone"]
        /\ hasFifo' = [hasFifo EXCEPT ![c] = client[c] = "leaving"]
        /\ UNCHANGED told
     \/ /\ Goto(Main, "tell_try", "read")
        /\ told' = [told EXCEPT ![c] = @ + 1] /\ Answer(c)
        /\ UNCHANGED hasFifo
  /\ UNCHANGED <<asked, serverFifo, tasks, adm, stop, job, reg>>

\* mutexQueue is held by a worker that has tested killThreads and not yet the
\* queue, and by main while it appends, for good when its handler runs there.
QueueFree == (\A w \in Workers : pc[w] # "test") /\ pc[Main] # "append" /\ ~lockHeld

LockQueue ==
  /\ QueueFree /\ Goto(Main, "enqueue", "append")
  /\ UNCHANGED <<env, serverFifo, tasks, adm, stop, job, reg>>

EnqueueTask ==
  /\ Goto(Main, "append", "signal")
  /\ tasks' = Append(tasks, job[Main])
  /\ UNCHANGED <<env, serverFifo, adm, stop, job, reg>>

WokenBySignal(w) == pc[w] = "wait"

\* Variant: the signal is forgotten.
SignalTaskForgotten ==
  /\ Goto(Main, "signal", "read")
  /\ UNCHANGED <<env, serverFifo, tasks, adm, stop, job, reg>>

SignalTask ==
  /\ pc[Main] = "signal"
  /\ IF \E w \in Workers : WokenBySignal(w)
     THEN \E w \in Workers : WokenBySignal(w) /\ pc' = [pc EXCEPT ![w] = "woken", ![Main] = "read"]
     ELSE pc' = [pc EXCEPT ![Main] = "read"]
  /\ UNCHANGED <<env, serverFifo, tasks, adm, stop, job, reg>>

\* killServer: the connected clients are killed, slot by slot, and lose their
\* FIFO; then the waiting ones, and then the threads are told.
KillSlot ==
  /\ IF reg[Main] \notin Slots
     THEN Goto(Main, "kill", "kill_pids") /\ UNCHANGED <<client, job, reg>>
     ELSE IF slots[reg[Main]] = NoClient
     THEN /\ Goto(Main, "kill", "kill") /\ SetReg(Main, reg[Main] + 1)
          /\ UNCHANGED <<client, job>>
     ELSE /\ Goto(Main, "kill", "kill_fifo") /\ SetReg(Main, reg[Main] + 1)
          /\ job' = [job EXCEPT ![Main].c = slots[reg[Main]]]
          /\ client' = [client EXCEPT ![slots[reg[Main]]] = "gone"]
  /\ UNCHANGED <<hasFifo, asked, told, serverFifo, tasks, adm, stop>>

KillFifo ==
  /\ Goto(Main, "kill_fifo", "kill")
  /\ hasFifo' = [hasFifo EXCEPT ![job[Main].c] = FALSE]
  /\ UNCHANGED <<client, asked, told, serverFifo, tasks, adm, stop, job, reg>>

KillWaiting ==
  /\ IF pids = <<>> THEN Goto(Main, "kill_pids", "kill_threads") /\ UNCHANGED <<client, hasFifo, pids>>
     ELSE /\ Goto(Main, "kill_pids", "kill_pids")
          /\ pids' = Tail(pids)
          /\ client' = [client EXCEPT ![Head(pids)] = "gone"]
          /\ hasFifo' = [hasFifo EXCEPT ![Head(pids)] = FALSE]
  /\ UNCHANGED <<asked, told, serverFifo, tasks, slots, numClients, stop, job, reg>>

\* Without mutexQueue.
KillThreads ==
  /\ Goto(Main, "kill_threads", "broadcast") /\ killThreads' = TRUE
  /\ UNCHANGED <<env, serverFifo, tasks, adm, lockHeld, job, reg>>

Woken(q) == [p \in Procs |-> IF q[p] = "wait" THEN "woken" ELSE q[p]]

BroadcastKill ==
  /\ pc[Main] = "broadcast" /\ pc' = Woken([pc EXCEPT ![Main] = "join"])
  /\ UNCHANGED <<env, serverFifo, tasks, adm, stop, job, reg>>

Join ==
  /\ \A w \in Workers : pc[w] = "exit"
  /\ Goto(Main, "join", "exit")
  /\ UNCHANGED <<env, serverFifo, tasks, adm, stop, job, reg>>

\* The handler of SIGINT, which the main thread gets: it does what killServer
\* does, from wherever main is, be it stuck, and then exits.  A signal during
\* the shutdown itself is left out.
Interrupt ==
  /\ pc[Main] \in InterruptAt /\ ~Killing /\ pc[Main] # "corrupt"
  /\ lockHeld' = (pc[Main] = "append")
  /\ pc' = [pc EXCEPT ![Main] = "kill"]
  /\ job' = [job EXCEPT ![Main] = NoJob] /\ SetReg(Main, 1) /\ serverFifo' = <<>>
  /\ UNCHANGED <<env, tasks, adm, killThreads>>

MainStep ==
  \/ MainRead \/ CheckRoom \/ EnqueuePid \/ OpenTry \/ AnswerTry \/ LockQueue \/ EnqueueTask \/ SignalTask
  \/ KillSlot \/ KillFifo \/ KillWaiting \/ KillThreads \/ BroadcastKill \/ Join

-----------------------------------------------------------------------------
(* A worker. *)

\* At the top of the loop, or back from the wait: with mutexQueue, killThreads
\* is tested first.
TestKill(w) ==
  /\ QueueFree
  /\ \E from \in {"top", "woken"} : Goto(w, from, IF killThreads THEN "bye" ELSE "test")
  /\ UNCHANGED <<env, serverFifo, tasks, adm, stop, job, reg>>

\* Variant: a task is looked at and left in the queue.
DequeueTaskKept == tasks

DequeueTask == Tail(tasks)

TakeTask(w) ==
  /\ IF tasks = <<>>
     THEN Goto(w, "test", "wait") /\ UNCHANGED <<tasks, job>>
     ELSE /\ Goto(w, "test", "open")
          /\ job' = [job EXCEPT ![w] = Head(tasks)] /\ tasks' = DequeueTask
  /\ UNCHANGED <<env, serverFifo, adm, stop, reg>>

\* Variant: a worker that leaves does not wake the others.
FarewellSilent(w) == pc[w] = "bye" /\ pc' = [pc EXCEPT ![w] = "exit"]

Farewell(w) == pc[w] = "bye" /\ pc' = Woken([pc EXCEPT ![w] = "exit"])

WorkerExits(w) ==
  /\ Farewell(w)
  /\ UNCHANGED <<env, serverFifo, tasks, adm, stop, job, reg>>

OpenClient(w) ==
  /\ Goto(w, "open", IF Blocks(job[w].c) THEN "stuck"
                     ELSE IF job[w].kind = "quit" THEN "lookup" ELSE "execute")
  /\ UNCHANGED <<env, serverFifo, tasks, adm, stop, job, reg>>

Finish(w) == job' = [job EXCEPT ![w] = NoJob]

Execute(w) ==
  /\ Goto(w, "execute", "top") /\ Finish(w) /\ Answer(job[w].c)
  /\ UNCHANGED <<hasFifo, asked, told, serverFifo, tasks, adm, stop, reg>>

\* An upload: the client may send its file, and does, unless its handler has
\* read that as the answer to its quit.
StartUpload(w) ==
  /\ Goto(w, "execute", "receive")
  /\ IF client[job[w].c] = "leaving" THEN Answer(job[w].c) ELSE UNCHANGED client
  /\ UNCHANGED <<hasFifo, asked, told, serverFifo, tasks, adm, stop, job, reg>>

\* With its client gone the worker is blocked in open, or copies what it read
\* last for ever.
Receive(w) ==
  /\ \/ Goto(w, "receive", "stuck") /\ client[job[w].c] = "gone" /\ UNCHANGED <<client, job>>
     \/ Goto(w, "receive", "top") /\ client[job[w].c] # "gone" /\ Finish(w) /\ Answer(job[w].c)
  /\ UNCHANGED <<hasFifo, asked, told, serverFifo, tasks, adm, stop, reg>>

\* quit: the client is answered and ends.
Lookup(w) ==
  LET c == job[w].c IN
  /\ SetReg(w, FindInClientArray(c))
  /\ Goto(w, "lookup", IF FindInClientArray(c) = NoIndex THEN "pid_remove" ELSE "dec")
  /\ Answer(c)
  /\ UNCHANGED <<hasFifo, asked, told, serverFifo, tasks, adm, stop, job>>

RemoveFromPidQueue(w) ==
  /\ Goto(w, "pid_remove", "unlink") /\ pids' = RemoveFirst(pids, job[w].c)
  /\ UNCHANGED <<env, serverFifo, tasks, slots, numClients, stop, job, reg>>

\* The slot is known by the pid that was found there, so that the register can
\* hold the count.
ReadForQuit(w) ==
  /\ Goto(w, "dec", "dec_write") /\ SetReg(w, numClients)
  /\ UNCHANGED <<env, serverFifo, tasks, adm, stop, job>>

UncountClient(w) == AddNumClients(w, "dec_write", "clear", -1)

ClearSlot(w) ==
  /\ Goto(w, "clear", "pid_front")
  /\ slots' = [i \in Slots |-> IF i = FindInClientArray(job[w].c) THEN NoClient ELSE slots[i]]
  /\ UNCHANGED <<env, serverFifo, tasks, pids, numClients, stop, job, reg>>

LookForWaiting(w) ==
  /\ Goto(w, "pid_front", IF pids = <<>> THEN "unlink" ELSE "pid_take")
  /\ UNCHANGED <<env, serverFifo, tasks, adm, stop, job, reg>>

\* Variant: a waiting client is looked at and left in the queue.
DequeuedKept == pids

Dequeued == IF pids = <<>> THEN pids ELSE Tail(pids)

\* The FIFO of the client that quit is removed at the end, so the new client
\* is kept in hand with it.
DequeuePid(w) ==
  /\ Goto(w, "pid_take", "tell")
  /\ job' = [job EXCEPT ![w] = [c |-> IF pids = <<>> THEN NoClient ELSE Head(pids),
                                kind |-> "quit", old |-> @.c]]
  /\ pids' = Dequeued
  /\ UNCHANGED <<env, serverFifo, tasks, slots, numClients, stop, reg>>

Unlink(w) ==
  LET c == IF "old" \in DOMAIN job[w] THEN job[w].old ELSE job[w].c IN
  /\ Goto(w, "unlink", "top") /\ Finish(w) /\ SetReg(w, 0)
  /\ hasFifo' = [hasFifo EXCEPT ![c] = FALSE]
  /\ UNCHANGED <<client, asked, told, serverFifo, tasks, adm, stop>>

Admit(p) == Tell(p) \/ ReadNumClients(p) \/ CountClient(p) \/ FindFree(p) \/ Store(p)

WorkerStep(w) ==
  \/ TestKill(w) \/ TakeTask(w) \/ WorkerExits(w) \/ OpenClient(w) \/ Execute(w) \/ StartUpload(w) \/ Receive(w)
  \/ Lookup(w) \/ RemoveFromPidQueue(w) \/ ReadForQuit(w) \/ UncountClient(w)
  \/ ClearSlot(w) \/ LookForWaiting(w) \/ DequeuePid(w) \/ Unlink(w) \/ Admit(w)

Next ==
  \/ \E c \in Clients : Client(c)
  \/ MainStep \/ Admit(Main) \/ Corrupt \/ Interrupt
  \/ \E w \in Workers : WorkerStep(w)

Spec == Init /\ [][Next]_vars

\* Every thread that can run is scheduled; clients need not come.
FairSpec ==
  /\ Spec
  /\ WF_vars(MainStep \/ Admit(Main))
  /\ \A w \in Workers : WF_vars(WorkerStep(w))

-----------------------------------------------------------------------------
(* Properties. *)

Requests(kinds) == [c : Clients, kind : kinds]
Kinds == {"connect", "try", "task", "quit", "kill"}

\* What a thread has in hand: a request, or, while it lets in a client that
\* waited, that client and the one that quit.
Request == [c : Clients \cup {NoClient}, kind : Kinds \cup {"none"}]
Handover == [c : Clients \cup {NoClient}, kind : {"quit"}, old : Clients \cup {NoClient}]

AdmitPlaces == {"tell", "num", "num_inc", "find", "store", "stuck", "corrupt"}
MainPlaces == AdmitPlaces \cup
  {"read", "check", "pid_put", "refuse", "open_try", "open_tell", "tell_try", "enqueue",
   "append", "signal", "kill", "kill_fifo", "kill_pids", "kill_threads", "broadcast", "join", "exit"}
WorkerPlaces == AdmitPlaces \cup
  {"top", "test", "wait", "woken", "bye", "exit", "open", "execute", "receive", "lookup",
   "dec", "dec_write", "clear", "pid_front", "pid_take", "pid_remove", "unlink"}

TypeOK ==
  /\ client \in [Clients -> {"out", "opening", "waiting", "in", "busy", "leaving", "gone"}]
  /\ hasFifo \in [Clients -> BOOLEAN]
  /\ asked \in [Clients -> Nat] /\ told \in [Clients -> Nat]
  /\ serverFifo \in Seq(Requests(Kinds)) /\ tasks \in Seq(Requests({"task", "quit"}))
  /\ pids \in Seq(Clients) /\ slots \in [Slots -> Clients \cup {NoClient}]
  /\ numClients \in Int /\ killThreads \in BOOLEAN /\ lockHeld \in BOOLEAN
  /\ pc \in [Procs -> MainPlaces \cup WorkerPlaces]
  /\ pc[Main] \in MainPlaces /\ \A w \in Workers : pc[w] \in WorkerPlaces
  /\ job \in [Procs -> Request \cup Handover] /\ job[Main] \in Request
  /\ reg \in [Procs -> Int]

\* How often the request of a client is on its way: written, in main's hands,
\* queued or in a worker's hands.
Pending(c, kind) ==
  LET Is(r) == r.c = c /\ r.kind = kind IN
    Cardinality({i \in DOMAIN serverFifo : Is(serverFifo[i])})
    + Cardinality({i \in DOMAIN tasks : Is(tasks[i])})
    + Cardinality({p \in Procs : job[p].c = c /\ job[p].kind = kind
                                 /\ (p = Main => pc[p] \in {"enqueue", "append"})
                                 /\ (kind = "task" => pc[p] \in {"enqueue", "append", "open", "execute", "receive", "stuck"})})

\* Until the server is killed, or its memory corrupt, a task whose answer a
\* client awaits is on its way exactly once: the workers neither drop one nor
\* execute one twice.
TaskOnItsWay ==
  pc[Main] # "corrupt" /\ ~Killing => \A c \in Clients :
    /\ client[c] = "busy" => Pending(c, "task") = 1
    /\ Pending(c, "task") <= 1

\* No client is told twice that it is connected, whoever lets it in, and none
\* is in the waiting queue twice or after it was told.
ToldOnce ==
  \A c \in Clients :
    /\ told[c] <= 1
    /\ Cardinality({i \in DOMAIN pids : pids[i] = c}) <= 1 - told[c]

\* Unless a thread is stuck with a client that has gone, the request of a
\* client is answered: no wakeup is lost, although the signal comes after the
\* unlock and a worker tests killThreads before the queue.
Stuck == \E p \in Procs : pc[p] \in {"stuck", "corrupt"}

RequestAnswered ==
  \A c \in Clients : client[c] = "busy" ~> client[c] # "busy" \/ Killing \/ Stuck

\* killServer, and SIGINT wherever it finds main, end the server ("notify the
\* threads that they should finish executing ... join the threads to clear
\* memory", server.c 298-301 and 513-516), unless a thread is stuck with a
\* client that has gone, or the signal came while main held mutexQueue.  It
\* needs a second worker: with a single one, killThreads may be set between the
\* test of the worker and its wait.
ServerStops == pc[Main] = "kill" ~> pc[Main] = "exit" \/ Stuck \/ lockHeld

\* "<max. #ofClients>" (server.c 329): no more clients are connected.  Not so:
\* main tests numClients between the two changes of a worker.
AtMostMaxClients ==
  Cardinality({c \in Clients : told[c] > 0 /\ client[c] \in {"in", "busy"}}) <= MAX_CLIENT
=============================================================================
