---------------------------- MODULE ParallelCopy ----------------------------
(***************************************************************************)
(* pCp, the parallel directory copier of HW5.  One producer thread walks   *)
(* the source tree, opens every regular file and its copy and passes the   *)
(* two descriptors through a bounded buffer to a pool of consumer threads. *)
(* The main thread joins them all, and the SIGINT handler, which runs on   *)
(* the main thread, tears the buffer down without taking any mutex.        *)
(*                                                                         *)
(* A thread that sleeps on a condition variable is at the label of that    *)
(* wait: c_wait (Cond_full), p_wait (Cond_empty), p_fdWait (Cond_fd_count).*)
(* Mutex_write_stdout is not a variable: its critical sections never block *)
(* and touch nothing the handler touches but descriptors, so each of them  *)
(* is one step.                                                            *)
(***************************************************************************)
EXTENDS Integers, Sequences, FiniteSets, Functions

CONSTANTS
  Consumers,     \* the POOL_SIZE consumer threads
  Producer,      \* the producer thread
  BufferSize,    \* BUFFER_SIZE
  MaxOpen,       \* MAX_OPEN_FILE_COUNT
  FdLimit,       \* descriptors the process can open for the files it copies
  Root,          \* the source directory
  Listing,       \* for every directory of the tree, what readdir returns
  Fifos,         \* the entries that are FIFOs
  Files,         \* the entries that are regular files
  Chunks,        \* for every file, how many reads of 1024 bytes it takes
  Faulty,        \* entries on which opendir, mkdir, mkfifo or open may fail
  Interrupts,    \* TRUE if the user may press Ctrl-C (once)
  MaxSpurious,   \* bound on the spurious wakeups of condition variables
  NoThread, NoFile, NoDir

Dirs  == DOMAIN Listing
Slots == 1..BufferSize
Fds   == 1..FdLimit
Threads == Consumers \cup {Producer}
Entries(d) == {Listing[d][i] : i \in DOMAIN Listing[d]}

ASSUME ThreadAssumption ==
  /\ Producer \notin Consumers
  /\ NoThread \notin Consumers \cup {Producer}
ASSUME SizeAssumption ==
  /\ BufferSize \in Nat \ {0}
  /\ MaxOpen \in Nat
  /\ FdLimit \in Nat
  /\ MaxSpurious \in Nat
ASSUME TreeAssumption ==
  /\ Root \in Dirs
  /\ NoDir \notin Dirs
  /\ NoFile \notin Files
  /\ \A d \in Dirs : Listing[d] \in Seq(Dirs \cup Fifos \cup Files \cup {".", ".."})
  /\ Dirs \cap (Fifos \cup Files) = {} /\ Fifos \cap Files = {}
  /\ {".", ".."} \cap (Dirs \cup Fifos \cup Files) = {}
  /\ \A d \in Dirs \ {Root} : \E p \in Dirs : d \in Entries(p)
  /\ Chunks \in [Files -> Nat]
  /\ Interrupts \in BOOLEAN
\* An entry stands for a path: it is in one directory, and readdir returns it once.
ASSUME ListingAssumption ==
  \A d, e \in Dirs : \A i \in DOMAIN Listing[d], j \in DOMAIN Listing[e] :
    Listing[d][i] \in Files /\ Listing[d][i] = Listing[e][j] => d = e /\ i = j
ASSUME FiniteAssumption == IsFiniteSet(Consumers) /\ IsFiniteSet(Files)

VARIABLES
  pc,               \* where each thread is
  Mutex_m,          \* who holds it
  Mutex_open_file,
  Buffer, Done, KillSignal,
  OpenedFileCount,
  tmp,              \* OpenedFileCount as loaded by a thread that updates it
  cwd, at,          \* the directory the producer is in; next entry of each
  job,              \* the file a thread works on and its two descriptors
  bufIndex,
  chunk,            \* readBuff of each consumer
  fileSize,
  fdt,              \* the descriptor table of the process
  out,              \* what was written to the copy of each file
  stat,             \* the counters main prints
  hpc, hslot,       \* the handler: its next step, the slot it is at
  joined,           \* main has joined every thread
  spurious

vars == <<pc, Mutex_m, Mutex_open_file, Buffer, Done, KillSignal,
          OpenedFileCount, tmp, cwd, at, job, bufIndex, chunk, fileSize, fdt,
          out, stat, hpc, hslot, joined, spurious>>

fdCount == <<Mutex_open_file, OpenedFileCount, tmp>>
buf     == <<Mutex_m, Buffer, Done, bufIndex>>
walk    == <<cwd, at>>
copy    == <<chunk, fileSize, fdt, out>>
main    == <<KillSignal, hpc, hslot, joined, spurious>>

NoJob   == [file |-> NoFile, src |-> -1, dst |-> 0]
Closed  == [file |-> NoFile, mode |-> "none", pos |-> 0]

Counters == {"FilesSucceed", "FilesFailed", "FifoSucceed", "FifoFailed",
             "DirsSucceed", "DirsFailed", "TotalByteCopied"}

Init ==
  /\ pc = [t \in Threads |-> IF t = Producer THEN "p_start" ELSE "c_lock"]
  /\ Mutex_m = NoThread /\ Mutex_open_file = NoThread
  /\ Buffer = [i \in Slots |-> NoJob]
  /\ Done = FALSE /\ KillSignal = FALSE
  /\ OpenedFileCount = 0 /\ tmp = [t \in Threads |-> 0]
  /\ cwd = Root /\ at = [d \in Dirs |-> 1]
  /\ job = [t \in Threads |-> NoJob]
  /\ bufIndex = [t \in Threads |-> 1]
  /\ chunk = [c \in Consumers |-> <<NoFile, 0>>]
  /\ fileSize = [c \in Consumers |-> 0]
  /\ fdt = [fd \in Fds |-> Closed]
  /\ out = [f \in Files |-> <<>>]
  /\ stat = [k \in Counters |-> 0]
  /\ hpc = "idle" /\ hslot = 1 /\ joined = FALSE /\ spurious = 0

-----------------------------------------------------------------------------
(* What the threads' steps are made of.  The definitions that open with     *)
(* "Variant" are plausible mistakes, there to show that a property sees them*)

Goto(t, label) == pc' = [pc EXCEPT ![t] = label]

\* pthread_cond_signal by t on its way to label: one sleeper, if any, wakes up
\* and queues for the mutex again.
GotoAndSignal(t, label, sleeping, woken) ==
  \/ (\A s \in Threads : pc[s] # sleeping) /\ Goto(t, label)
  \/ \E s \in Threads \ {t} :
       pc[s] = sleeping /\ pc' = [pc EXCEPT ![t] = label, ![s] = woken]

\* pthread_cond_broadcast, as the sleepers see it.
Broadcast(sleeping, woken) ==
  [s \in Threads |-> IF pc[s] = sleeping THEN woken ELSE pc[s]]

\* close() ignores the numbers that are not open.
CloseFds(S) == [fd \in Fds |-> IF fd \in S THEN Closed ELSE fdt[fd]]

\* Variant: the copy stays open.
CloseSource(j) == CloseFds({j.src})

CloseBoth(j) == CloseFds({j.src, j.dst})

\* The searches of the buffer stop at the first slot that fits.
IsEmpty(i) == Buffer[i].src = -1
FindFullInBuffer(i)  == ~IsEmpty(i) /\ \A j \in Slots : j < i => IsEmpty(j)
FindEmptyInBuffer(i) == IsEmpty(i) /\ \A j \in Slots : j < i => ~IsEmpty(j)

-----------------------------------------------------------------------------
(* startConsumerThread *)

\* Variant: the done flag is not looked at.
MayQuitIdle == TRUE

\* Variant: a consumer quits on a signal only.
MayQuitKilled == KillSignal

MayQuit == Done \/ KillSignal

\* Lock Mutex_m and search the buffer.  With no file there, quit and pass the
\* wake-up on, or decide to wait: the handler may run before the wait begins.
EnterBuffer(c) ==
  /\ pc[c] = "c_lock" /\ Mutex_m = NoThread
  /\ \/ \E i \in Slots :
          /\ FindFullInBuffer(i) /\ bufIndex' = [bufIndex EXCEPT ![c] = i]
          /\ Mutex_m' = c /\ Goto(c, "c_take")
     \/ /\ (\A i \in Slots : IsEmpty(i)) /\ MayQuit
        /\ GotoAndSignal(c, "exit", "c_wait", "c_lock")
        /\ UNCHANGED <<Mutex_m, bufIndex>>
     \/ /\ (\A i \in Slots : IsEmpty(i)) /\ ~MayQuit
        /\ Mutex_m' = c /\ Goto(c, "c_sleep")
        /\ UNCHANGED bufIndex
  /\ UNCHANGED <<fdCount, Buffer, Done, walk, copy, job, stat, main>>

\* pthread_cond_wait: release Mutex_m and sleep.  A wake-up leads to its lock.
SleepOnBuffer(t, from, to) ==
  /\ pc[t] = from /\ Goto(t, to)
  /\ Mutex_m' = NoThread
  /\ UNCHANGED <<fdCount, Buffer, Done, bufIndex, walk, copy, job, stat, main>>

\* Variant: the slot is not emptied.
KeepSlot(i) == Buffer

EmptySlot(i) == [Buffer EXCEPT ![i].src = -1]   \* destFd stays behind

TakeFile(c) ==
  /\ pc[c] = "c_take"
  /\ job' = [job EXCEPT ![c] = Buffer[bufIndex[c]]]
  /\ Buffer' = EmptySlot(bufIndex[c])
  /\ GotoAndSignal(c, "c_read", "p_wait", "p_lock")
  /\ Mutex_m' = NoThread
  /\ UNCHANGED <<fdCount, Done, bufIndex, walk, copy, stat, main>>

\* read() has bytes to return.
Readable(fd) ==
  /\ fd \in Fds
  /\ fdt[fd].mode = "r" /\ fdt[fd].pos < Chunks[fdt[fd].file]

\* A chunk was read; when the kill signal is up, drop the file and quit.
ReadChunk(c) ==
  /\ pc[c] = "c_read" /\ Readable(job[c].src)
  /\ IF KillSignal
       THEN /\ fdt' = CloseBoth(job[c])
            /\ job' = [job EXCEPT ![c] = NoJob]
            /\ Goto(c, "exit") /\ UNCHANGED <<chunk, fileSize>>
       ELSE /\ fdt' = [fdt EXCEPT ![job[c].src].pos = @ + 1]
            /\ LET of == fdt[job[c].src] IN
                 chunk' = [chunk EXCEPT ![c] = <<of.file, of.pos + 1>>]
            /\ fileSize' = [fileSize EXCEPT ![c] = @ + 1]
            /\ Goto(c, "c_write") /\ UNCHANGED job
  /\ UNCHANGED <<fdCount, buf, walk, out, stat, main>>

\* write() fails, unnoticed, unless the descriptor is open for writing.
WriteChunk(c) ==
  /\ pc[c] = "c_write" /\ Goto(c, "c_read")
  /\ LET fd == job[c].dst IN
       out' = IF fd \in Fds /\ fdt[fd].mode = "w"
                THEN [out EXCEPT ![fdt[fd].file] = Append(@, chunk[c])]
                ELSE out
  /\ UNCHANGED <<fdCount, buf, walk, chunk, fileSize, fdt, job, stat, main>>

\* Variant: assigned, not added.
CountedLast(c) == [stat EXCEPT !.TotalByteCopied = fileSize[c], !.FilesSucceed = @ + 1]

Counted(c) == [stat EXCEPT !.TotalByteCopied = @ + fileSize[c], !.FilesSucceed = @ + 1]

\* read() returned 0 or an error: either way the file counts as copied.
ReportFile(c) ==
  /\ pc[c] = "c_read" /\ ~Readable(job[c].src)
  /\ stat' = Counted(c)
  /\ fdt' = CloseBoth(job[c])
  /\ job' = [job EXCEPT ![c] = NoJob]
  /\ fileSize' = [fileSize EXCEPT ![c] = 0]
  /\ Goto(c, "c_count")
  /\ UNCHANGED <<fdCount, buf, walk, chunk, out, main>>

\* Lock Mutex_open_file and load the counter.  The store is a step of its own
\* because the handler writes the counter without the mutex.
LoadCount(t, from, to) ==
  /\ pc[t] = from /\ Goto(t, to)
  /\ Mutex_open_file = NoThread /\ Mutex_open_file' = t
  /\ tmp' = [tmp EXCEPT ![t] = OpenedFileCount]
  /\ UNCHANGED <<OpenedFileCount, buf, walk, copy, job, stat, main>>

\* OpenedFileCount -= 2, wake the producer, unlock.
UncountFds(c) ==
  /\ pc[c] = "c_store"
  /\ OpenedFileCount' = tmp[c] - 2
  /\ Mutex_open_file' = NoThread
  /\ GotoAndSignal(c, "c_lock", "p_fdWait", "p_fdLock")
  /\ UNCHANGED <<tmp, buf, walk, copy, job, stat, main>>

Consume(c) ==
  \/ EnterBuffer(c) \/ SleepOnBuffer(c, "c_sleep", "c_wait") \/ TakeFile(c)
  \/ ReadChunk(c) \/ WriteChunk(c) \/ ReportFile(c)
  \/ LoadCount(c, "c_count", "c_store") \/ UncountFds(c)

-----------------------------------------------------------------------------
(* startProducerThread: the recursion is the walk of cwd through the tree.  *)

Parent(d) == IF d = Root THEN NoDir ELSE CHOOSE p \in Dirs : d \in Entries(p)

\* Variant: the outermost call goes on after its return.
AfterReturnAlways == "p_next"

\* Where the thread is after the return from the current directory.
AfterReturn == IF cwd = Root THEN "exit" ELSE "p_next"

Walking == pc[Producer] = "p_next"
MoreEntries == at[cwd] \in DOMAIN Listing[cwd]
Advance == at' = [at EXCEPT ![cwd] = @ + 1]

\* readdir returns e, and no kill signal is seen after it.
NextEntry(e) ==
  /\ Walking /\ MoreEntries /\ e = Listing[cwd][at[cwd]]
  /\ ~KillSignal

\* Variant: not counted.
CountNothing(k) == UNCHANGED stat

Count(k) == stat' = [stat EXCEPT ![k] = @ + 1]

\* opendir of the source.  When it fails the thread returns there and then.
OpenRoot ==
  /\ pc[Producer] = "p_start"
  /\ \/ Goto(Producer, "p_next") /\ cwd' = cwd
     \/ Root \in Faulty /\ Goto(Producer, "exit") /\ cwd' = NoDir
  /\ UNCHANGED <<fdCount, buf, at, copy, job, stat, main>>

\* The kill signal is looked at after every readdir.  The return leaves one
\* level of the recursion only.
LeaveWhenKilled ==
  /\ Walking /\ MoreEntries /\ KillSignal
  /\ Advance /\ cwd' = Parent(cwd) /\ Goto(Producer, AfterReturn)
  /\ UNCHANGED <<fdCount, buf, copy, job, stat, main>>

SkipDots ==
  /\ NextEntry(".") \/ NextEntry("..")
  /\ Advance
  /\ UNCHANGED <<pc, fdCount, buf, cwd, copy, job, stat, main>>

\* mkdir in the destination (which may fail), opendir in the recursive call
\* (which may fail as well, unnoticed).
VisitSubdir ==
  \E d \in Dirs :
    /\ NextEntry(d) /\ Advance
    /\ \/ Count("DirsSucceed") /\ cwd' = d
       \/ d \in Faulty /\ Count("DirsSucceed") /\ cwd' = cwd
       \/ d \in Faulty /\ Count("DirsFailed") /\ cwd' = cwd
    /\ UNCHANGED <<pc, fdCount, buf, copy, job, main>>

VisitFifo ==
  \E e \in Fifos :
    /\ NextEntry(e) /\ Advance
    /\ Count("FifoSucceed") \/ (e \in Faulty /\ Count("FifoFailed"))
    /\ UNCHANGED <<pc, fdCount, buf, cwd, copy, job, main>>

VisitFile ==
  \E f \in Files :
    /\ NextEntry(f) /\ Advance
    /\ job' = [job EXCEPT ![Producer] = [NoJob EXCEPT !.file = f]]
    /\ Goto(Producer, "p_fdLock")
    /\ UNCHANGED <<fdCount, buf, cwd, copy, stat, main>>

\* Variant: the limit is two descriptors too lax.
TooManyOpenLax == OpenedFileCount > MaxOpen + 2

TooManyOpen == OpenedFileCount > MaxOpen

\* Lock Mutex_open_file; with too many descriptors counted as open, go to wait.
CheckFdCount ==
  /\ pc[Producer] = "p_fdLock" /\ Mutex_open_file = NoThread
  /\ IF TooManyOpen
       THEN Goto(Producer, "p_fdSleep") /\ Mutex_open_file' = Producer
       ELSE Goto(Producer, "p_check") /\ UNCHANGED Mutex_open_file
  /\ UNCHANGED <<OpenedFileCount, tmp, buf, walk, copy, job, stat, main>>

SleepOnFdCount ==
  /\ pc[Producer] = "p_fdSleep" /\ Goto(Producer, "p_fdWait")
  /\ Mutex_open_file' = NoThread
  /\ UNCHANGED <<OpenedFileCount, tmp, buf, walk, copy, job, stat, main>>

CheckKill ==
  /\ pc[Producer] = "p_check"
  /\ IF KillSignal
       THEN /\ cwd' = Parent(cwd) /\ Goto(Producer, AfterReturn)
            /\ job' = [job EXCEPT ![Producer] = NoJob]
       ELSE UNCHANGED <<cwd, job>> /\ Goto(Producer, "p_open")
  /\ UNCHANGED <<fdCount, buf, at, copy, stat, main>>

\* open() gives the lowest numbers that are free: s to the source, d to the copy.
LowestFree(s, d) ==
  /\ s < d
  /\ {fd \in Fds : fdt[fd] = Closed /\ fd <= d} = {s, d}

OpenFiles ==
  /\ pc[Producer] = "p_open" /\ Goto(Producer, "p_count")
  /\ LET f == job[Producer].file IN
       \E s, d \in Fds :
         /\ LowestFree(s, d)
         /\ job' = [job EXCEPT ![Producer] = [file |-> f, src |-> s, dst |-> d]]
         /\ fdt' = [fdt EXCEPT ![s] = [file |-> f, mode |-> "r", pos |-> 0],
                               ![d] = [file |-> f, mode |-> "w", pos |-> 0]]
  /\ UNCHANGED <<fdCount, buf, walk, chunk, fileSize, out, stat, main>>

\* One of the two could not be opened, for its own reason or for want of
\* descriptors; whichever was opened is closed again.
OpenFails ==
  /\ pc[Producer] = "p_open" /\ Goto(Producer, "p_next")
  /\ job[Producer].file \in Faulty \/ \A s, d \in Fds : ~LowestFree(s, d)
  /\ Count("FilesFailed")
  /\ job' = [job EXCEPT ![Producer] = NoJob]
  /\ UNCHANGED <<fdCount, buf, walk, copy, main>>

\* OpenedFileCount += 2, unlock.
CountFds ==
  /\ pc[Producer] = "p_store" /\ Goto(Producer, "p_lock")
  /\ OpenedFileCount' = tmp[Producer] + 2
  /\ Mutex_open_file' = NoThread
  /\ UNCHANGED <<tmp, buf, walk, copy, job, stat, main>>

\* Lock Mutex_m and search an empty slot; with none, go to wait.
FindSlot ==
  /\ pc[Producer] = "p_lock" /\ Mutex_m = NoThread
  /\ Mutex_m' = Producer
  /\ \/ \E i \in Slots :
          /\ FindEmptyInBuffer(i) /\ bufIndex' = [bufIndex EXCEPT ![Producer] = i]
          /\ Goto(Producer, "p_kill")
     \/ /\ \A i \in Slots : ~IsEmpty(i)
        /\ Goto(Producer, "p_sleep") /\ UNCHANGED bufIndex
  /\ UNCHANGED <<fdCount, Buffer, Done, walk, copy, job, stat, main>>

\* The last look at the kill signal: close the two files, unlock and return.
LastCheckKill ==
  /\ pc[Producer] = "p_kill"
  /\ IF KillSignal
       THEN /\ GotoAndSignal(Producer, AfterReturn, "c_wait", "c_lock")
            /\ Mutex_m' = NoThread
            /\ fdt' = CloseBoth(job[Producer])
            /\ job' = [job EXCEPT ![Producer] = NoJob]
            /\ cwd' = Parent(cwd)
       ELSE Goto(Producer, "p_fill") /\ UNCHANGED <<Mutex_m, fdt, job, cwd>>
  /\ UNCHANGED <<fdCount, Buffer, Done, bufIndex, at, chunk, fileSize, out, stat, main>>

\* Variant: the slot keeps the destFd of the file before.
FilledStale(i, j) == [Buffer EXCEPT ![i] = [j EXCEPT !.dst = Buffer[i].dst]]

Filled(i, j) == [Buffer EXCEPT ![i] = j]

FillSlot ==
  /\ pc[Producer] = "p_fill"
  /\ Buffer' = Filled(bufIndex[Producer], job[Producer])
  /\ job' = [job EXCEPT ![Producer] = NoJob]
  /\ GotoAndSignal(Producer, "p_next", "c_wait", "c_lock")
  /\ Mutex_m' = NoThread
  /\ UNCHANGED <<fdCount, Done, bufIndex, walk, copy, stat, main>>

LeaveSubdir ==
  /\ Walking /\ ~MoreEntries /\ cwd # Root
  /\ cwd' = Parent(cwd)
  /\ UNCHANGED <<pc, fdCount, buf, at, copy, job, stat, main>>

\* The whole tree is walked: raise the done flag under Mutex_m and wake everyone.
RaiseDone ==
  /\ Walking /\ ~MoreEntries /\ cwd = Root
  /\ Mutex_m = NoThread
  /\ Done' = TRUE /\ cwd' = NoDir
  /\ pc' = [Broadcast("c_wait", "c_lock") EXCEPT ![Producer] = "exit"]
  /\ UNCHANGED <<fdCount, Mutex_m, Buffer, bufIndex, at, copy, job, stat, main>>

Produce ==
  \/ OpenRoot \/ LeaveWhenKilled \/ SkipDots \/ VisitSubdir \/ VisitFifo
  \/ VisitFile \/ CheckFdCount \/ SleepOnFdCount \/ CheckKill
  \/ OpenFiles \/ OpenFails
  \/ LoadCount(Producer, "p_count", "p_store") \/ CountFds
  \/ FindSlot \/ SleepOnBuffer(Producer, "p_sleep", "p_wait")
  \/ LastCheckKill \/ FillSlot \/ LeaveSubdir \/ RaiseDone

-----------------------------------------------------------------------------
(* MySignalHandler, on the main thread's stack, and main itself. *)

HandlerStep(from, to) ==
  /\ hpc = from /\ hpc' = to
  /\ UNCHANGED <<Mutex_m, Mutex_open_file, tmp, Done, bufIndex, walk, chunk,
                 fileSize, out, job, stat, joined, spurious>>

\* Ctrl-C while main joins its threads.
Interrupt ==
  /\ Interrupts /\ ~joined
  /\ HandlerStep("idle", "closeSrc")
  /\ KillSignal' = TRUE
  /\ UNCHANGED <<pc, OpenedFileCount, Buffer, fdt, hslot>>

HandlerCloseSource ==
  /\ HandlerStep("closeSrc", "clear")
  /\ fdt' = CloseFds({Buffer[hslot].src})
  /\ UNCHANGED <<pc, OpenedFileCount, Buffer, KillSignal, hslot>>

HandlerClearSlot ==
  /\ HandlerStep("clear", "closeDst")
  /\ Buffer' = [Buffer EXCEPT ![hslot].src = -1]
  /\ UNCHANGED <<pc, OpenedFileCount, fdt, KillSignal, hslot>>

\* destFd is closed even when the slot was empty: TakeFile leaves it behind.
HandlerCloseDest ==
  /\ fdt' = CloseFds({Buffer[hslot].dst})
  /\ IF hslot < BufferSize
       THEN HandlerStep("closeDst", "closeSrc") /\ hslot' = hslot + 1
       ELSE HandlerStep("closeDst", "zero") /\ UNCHANGED hslot
  /\ UNCHANGED <<pc, OpenedFileCount, Buffer, KillSignal>>

HandlerResetCount ==
  /\ HandlerStep("zero", "wakeEmpty")
  /\ OpenedFileCount' = 0
  /\ UNCHANGED <<pc, Buffer, fdt, KillSignal, hslot>>

\* The three wake-ups, none of them under the mutex of its condition.
HandlerWake ==
  /\ \/ HandlerStep("wakeEmpty", "wakeFull") /\ pc' = Broadcast("p_wait", "p_lock")
     \/ HandlerStep("wakeFull", "wakeFd")    /\ pc' = Broadcast("c_wait", "c_lock")
     \/ HandlerStep("wakeFd", "over")        /\ pc' = Broadcast("p_fdWait", "p_fdLock")
  /\ UNCHANGED <<OpenedFileCount, Buffer, fdt, KillSignal, hslot>>

Handle == HandlerCloseSource \/ HandlerClearSlot \/ HandlerCloseDest
          \/ HandlerResetCount \/ HandlerWake

\* pthread_join of every thread returns; main prints the counters and exits.
Join ==
  /\ ~joined /\ hpc \in {"idle", "over"}
  /\ \A t \in Threads : pc[t] = "exit"
  /\ joined' = TRUE
  /\ UNCHANGED <<pc, fdCount, buf, walk, copy, job, stat, KillSignal, hpc, hslot, spurious>>

\* A condition variable may wake a sleeper for no reason.
SpuriousWakeup(t) ==
  /\ spurious < MaxSpurious /\ spurious' = spurious + 1
  /\ \/ pc[t] = "c_wait" /\ Goto(t, "c_lock")
     \/ pc[t] = "p_wait" /\ Goto(t, "p_lock")
     \/ pc[t] = "p_fdWait" /\ Goto(t, "p_fdLock")
  /\ UNCHANGED <<fdCount, buf, walk, copy, job, stat, KillSignal, hpc, hslot, joined>>

Finished == joined /\ UNCHANGED vars

Next ==
  \/ \E c \in Consumers : Consume(c)
  \/ Produce \/ Interrupt \/ Handle \/ Join
  \/ \E t \in Threads : SpuriousWakeup(t)
  \/ Finished

Spec == Init /\ [][Next]_vars

\* Every thread that can run is scheduled; an interrupt or a spurious wakeup
\* need not happen.
Fairness ==
  /\ \A c \in Consumers : WF_vars(Consume(c))
  /\ WF_vars(Produce) /\ WF_vars(Handle) /\ WF_vars(Join)

FairSpec == Spec /\ Fairness

-----------------------------------------------------------------------------
(* Properties. *)

ConsumerPC == {"c_lock", "c_sleep", "c_wait", "c_take", "c_read",
               "c_write", "c_count", "c_store", "exit"}
ProducerPC == {"p_start", "p_next", "p_fdLock", "p_fdSleep",
               "p_fdWait", "p_check", "p_open", "p_count", "p_store", "p_lock",
               "p_sleep", "p_wait", "p_kill", "p_fill", "exit"}
HandlerPC == {"idle", "closeSrc", "clear", "closeDst", "zero", "wakeEmpty",
              "wakeFull", "wakeFd", "over"}

Jobs == [file : Files \cup {NoFile}, src : Fds \cup {-1}, dst : Fds \cup {0}]
OpenFile == [file : Files \cup {NoFile}, mode : {"none", "r", "w"}, pos : Nat]
Chunk == (Files \cup {NoFile}) \X Nat

PcOK ==
  /\ pc \in [Threads -> ConsumerPC \cup ProducerPC]
  /\ \A c \in Consumers : pc[c] \in ConsumerPC
  /\ pc[Producer] \in ProducerPC
LockOK ==
  /\ Mutex_m \in Threads \cup {NoThread}
  /\ Mutex_open_file \in Threads \cup {NoThread}
CountOK == OpenedFileCount \in Int /\ tmp \in [Threads -> Int]
FlagsOK == Done \in BOOLEAN /\ KillSignal \in BOOLEAN /\ joined \in BOOLEAN
WalkOK ==
  /\ cwd \in Dirs \cup {NoDir}
  /\ pc[Producer] # "exit" => cwd \in Dirs
  /\ at \in [Dirs -> Nat]
JobOK ==
  /\ Buffer \in [Slots -> Jobs] /\ job \in [Threads -> Jobs]
  /\ bufIndex \in [Threads -> Slots]
HasFile ==
  pc[Producer] \in ProducerPC \ {"p_start", "p_next", "exit"} =>
    job[Producer].file \in Files
FdsOK ==
  /\ fdt \in [Fds -> OpenFile]
  /\ \A fd \in Fds : fdt[fd].mode # "none" => fdt[fd].file \in Files
CopyOK ==
  /\ chunk \in [Consumers -> Chunk]
  /\ fileSize \in [Consumers -> Nat]
  /\ out \in [Files -> Seq(Chunk)]
StatOK == stat \in [Counters -> Nat]
HandlerOK == hpc \in HandlerPC /\ hslot \in Slots /\ spurious \in Nat

\* Every variable has its type; the producer is in a directory of the tree as
\* long as it walks and has a file from readdir to the buffer
\* (startProducerThread); an open descriptor belongs to a file.
TypeOK ==
  PcOK /\ LockOK /\ CountOK /\ FlagsOK /\ WalkOK /\ JobOK /\ HasFile /\ FdsOK
  /\ CopyOK /\ StatOK /\ HandlerOK

\* The guard of the producer's wait on Cond_fd_count keeps the counter within
\* two of its limit, even when the handler resets it in the middle of an update
\* (startProducerThread 226-264, MySignalHandler 336).
CountBounded == OpenedFileCount <= MaxOpen + 2

\* However the handler interferes, a file is worked on by one thread at most:
\* never twice in threads' hands, never in a slot and in a consumer's hands
\* (the consumers' critical section, 83-100).
InSlot(f) == \E i \in Slots : Buffer[i].file = f /\ Buffer[i].src # -1
NoFileTwice ==
  \A f \in Files :
    /\ \A s, t \in Threads : job[s].file = f /\ job[t].file = f => s = t
    /\ \A i, j \in Slots : /\ Buffer[i].file = f /\ Buffer[i].src # -1
                          /\ Buffer[j].file = f /\ Buffer[j].src # -1
                          => i = j
    /\ InSlot(f) => \A t \in Threads : job[t].file # f

\* The files readdir has returned so far.
Seen == {f \in Files : \E d \in Dirs : \E i \in DOMAIN Listing[d] :
                           i < at[d] /\ Listing[d][i] = f}

\* Without an interrupt no file is lost or counted twice: every file seen is
\* counted as copied, counted as failed, in a thread's hands or in the buffer,
\* and in one of these only (main prints these counters, 129).
EveryFileAccounted ==
  ~KillSignal =>
    Cardinality(Seen) = stat.FilesSucceed + stat.FilesFailed
                        + Cardinality({t \in Threads : job[t].file # NoFile})
                        + Cardinality({i \in Slots : ~IsEmpty(i)})

\* The open files of the process, and the jobs that hold descriptors.
OpenFds == {fd \in Fds : fdt[fd] # Closed}
LiveJobs == {j \in {job[t] : t \in Threads} \cup {Buffer[i] : i \in Slots} : j.src # -1}

\* Without an interrupt every job holds two descriptors that are open on its
\* own file, the source for reading and the copy for writing, and nothing else
\* is open: no thread reads, writes or closes a descriptor of another file and
\* none leaks (TakeFile leaves a stale destFd in the slot, 97).
DescriptorsOwned ==
  ~KillSignal =>
    /\ \A j \in LiveJobs :
         /\ fdt[j.src].file = j.file /\ fdt[j.src].mode = "r"
         /\ j.dst \in Fds /\ fdt[j.dst].file = j.file /\ fdt[j.dst].mode = "w"
    /\ OpenFds = UNION {{j.src, j.dst} : j \in LiveJobs}

\* Without an interrupt the copier never has more than MAX_OPEN_FILE_COUNT + 2
\* files open, although it opens before it counts and closes before it
\* counts down ("used to not exceed the fd limit", myglobals.h 18).
OpenFilesBounded == ~KillSignal => Cardinality(OpenFds) <= MaxOpen + 2

\* Without an interrupt a consumer leaves only when the producer is done and
\* the buffer is empty for good: no file waits for a pool that is gone
\* (startConsumerThread 84-93).
QuitOnlyWhenDone ==
  \A c \in Consumers :
    pc[c] = "exit" /\ ~KillSignal => Done /\ \A i \in Slots : IsEmpty(i)

Whole(f) == [k \in 1..Chunks[f] |-> <<f, k>>]

\* Without an interrupt the copy of a file is always a beginning of that file,
\* and at least as many files are complete as are counted as copied (118, 120).
CopiesFaithful ==
  ~KillSignal =>
    /\ \A f \in Files : out[f] = SubSeq(Whole(f), 1, Len(out[f]))
    /\ stat.FilesSucceed <= Cardinality({f \in Seen : out[f] = Whole(f)})

\* When the program ends without an interrupt, the total that main prints is
\* the length of all the copies together (TotalByteCopied, 118; main.c 132).
TotalsAddUp ==
  joined /\ ~KillSignal =>
    stat.TotalByteCopied = SumFunction([f \in Files |-> Len(out[f])])

\* When nobody interrupts it, the program ends ("when all the sub directories
\* are traversed ... done flag will be raised at the end", 294).
Terminates == <>joined

\* After Ctrl-C the program ends ("make sure that threads are not blocked", 338).
KillEnds == KillSignal ~> joined
=============================================================================
