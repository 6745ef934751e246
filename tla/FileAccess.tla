----------------------------- MODULE FileAccess -----------------------------
(***************************************************************************)
(* How the worker threads of biboServer (HW4) share one file of the served *)
(* directory: AppendToFile, WriteToLine, ReadWholeFile, ReadLine,          *)
(* DownloadFile and the upload of executeTask.  The first five follow a    *)
(* readers-writers protocol with writer preference, made of four named     *)
(* semaphores and two counts in shared memory, all named after the file.   *)
(* Readers and writers run the same steps on different semaphores, so a    *)
(* step is parameterised by the kind of the access.  The upload takes no   *)
(* semaphore.                                                              *)
(***************************************************************************)
EXTENDS Integers, Sequences

CONSTANTS
  Workers,    \* the worker threads
  Plans       \* the tasks each worker may be given, in order (bounds a run)

Tasks == {"append", "line", "read", "upload"}

ASSUME PlansAssumption == Plans \subseteq [Workers -> Seq(Tasks)]

VARIABLES
  todo,         \* what each worker will still be asked to do
  pc, task,     \* where a worker is, and what it was asked to do
  sem,          \* the named semaphores, initially 1
  count,        \* the writer and reader counts in shared memory
  local,        \* writerCount or readerCount of the function a worker is in
  exists, content,   \* the file: the messages written to it
  snap,         \* what a worker has read of the file
  appended, overwritten, \* messages whose write was reported, replaced
  uploaded      \* some worker has been asked for an upload

vars == <<todo, pc, task, sem, count, local, exists, content, snap, appended, overwritten,
          uploaded>>
asked == <<todo, task, uploaded>>
file == <<exists, content, appended, overwritten>>

Semaphores == {"wmutex", "rmutex", "readTry", "rsc"}
Kinds == {"writer", "reader"}

Kind(w) == IF task[w] = "read" THEN "reader" ELSE "writer"

\* The mutex of a count, and the semaphore its first holder takes for the rest.
Mutex(k) == IF k = "writer" THEN "wmutex" ELSE "rmutex"
Gate(k)  == IF k = "writer" THEN "readTry" ELSE "rsc"

\* What task w writes; a worker never writes the same twice.
Messages == Workers \X Nat
Message(w) == <<w, Len(todo[w])>>

Init ==
  /\ todo \in Plans
  /\ pc = [w \in Workers |-> "idle"]
  /\ task = [w \in Workers |-> "none"]
  /\ sem = [s \in Semaphores |-> 1]
  /\ count = [k \in Kinds |-> 0]
  /\ local = [w \in Workers |-> 0]
  /\ exists \in BOOLEAN /\ content = {}
  /\ snap = [w \in Workers |-> {}]
  /\ appended = {} /\ overwritten = {} /\ uploaded = FALSE

Goto(w, from, to) == pc[w] = from /\ pc' = [pc EXCEPT ![w] = to]

Wait(s) == sem[s] > 0 /\ sem' = [sem EXCEPT ![s] = @ - 1]
Post(S) == sem' = [s \in Semaphores |-> IF s \in S THEN sem[s] + 1 ELSE sem[s]]

\* DequeueTask: the worker gets its next task for this file.
Begin(w) ==
  /\ todo[w] # <<>>
  /\ todo' = [todo EXCEPT ![w] = Tail(@)]
  /\ task' = [task EXCEPT ![w] = Head(todo[w])]
  /\ uploaded' = (uploaded \/ Head(todo[w]) = "upload")
  /\ Goto(w, "idle", CASE Head(todo[w]) = "read"   -> "turnstile"
                        [] Head(todo[w]) = "upload" -> "u_seek"
                        [] OTHER                    -> "mutex")
  /\ UNCHANGED <<sem, count, local, file, snap>>

-----------------------------------------------------------------------------
(* Entry: readers through readTry, everyone through the mutex of its count; *)
(* the first takes the gate; a writer takes rsc as well.                    *)

Turnstile(w) ==
  /\ Goto(w, "turnstile", "mutex") /\ Wait("readTry")
  /\ UNCHANGED <<asked, count, local, file, snap>>

LockCount(w) ==
  /\ Goto(w, "mutex", "get") /\ Wait(Mutex(Kind(w)))
  /\ UNCHANGED <<asked, count, local, file, snap>>

\* GetFileWRCount, outside the semaphore that ChangeFileWRCount uses.
GetFileWRCount(w) ==
  /\ Goto(w, "get", "add")
  /\ local' = [local EXCEPT ![w] = count[Kind(w)] + 1]
  /\ UNCHANGED <<asked, sem, count, file, snap>>

\* ChangeFileWRCount(fd, name, 1), whose result is not used.
AddToCount(w) ==
  /\ Goto(w, "add", "first")
  /\ count' = [count EXCEPT ![Kind(w)] = @ + 1]
  /\ UNCHANGED <<asked, sem, local, file, snap>>

\* Variant: the count is tested as it was before.
IsFirstFromZero(w) == local[w] = 0

IsFirst(w) == local[w] = 1

TakeGate(w) ==
  /\ Goto(w, "first", "unlock")
  /\ IF IsFirst(w) THEN Wait(Gate(Kind(w))) ELSE UNCHANGED sem
  /\ UNCHANGED <<asked, count, local, file, snap>>

\* Variant: a reader keeps the turnstile.
LeftByEntryKept(k) == {Mutex(k)}

\* The semaphores given back at the end of the entry.
LeftByEntry(k) == IF k = "reader" THEN {Mutex(k), "readTry"} ELSE {Mutex(k)}

UnlockCount(w) ==
  /\ Goto(w, "unlock", IF Kind(w) = "reader" THEN "read" ELSE "rsc")
  /\ Post(LeftByEntry(Kind(w)))
  /\ UNCHANGED <<asked, count, local, file, snap>>

\* Variant: writers rely on the turnstile alone.
TakeResourceFree(w) ==
  /\ Goto(w, "rsc", task[w])
  /\ UNCHANGED <<asked, sem, count, local, file, snap>>

TakeResource(w) ==
  /\ Goto(w, "rsc", task[w]) /\ Wait("rsc")
  /\ UNCHANGED <<asked, count, local, file, snap>>

-----------------------------------------------------------------------------
(* The accesses themselves. *)

\* IsFileCreated decides between fopen "ab" and fopen "wb".
CheckAppend(w) ==
  /\ Goto(w, "append", IF exists THEN "append_ab" ELSE "append_wb")
  /\ UNCHANGED <<asked, sem, count, local, file, snap>>

AppendMessage(w) ==
  /\ \/ Goto(w, "append_ab", "leave") /\ content' = content \cup {Message(w)}
     \/ Goto(w, "append_wb", "leave") /\ content' = {Message(w)}
  /\ exists' = TRUE
  /\ appended' = appended \cup {Message(w)}
  /\ UNCHANGED <<asked, sem, count, local, snap, overwritten>>

\* What a line number stands for: a line of the file, or nothing past the end.
Lines == {{}} \cup {{m} : m \in content}

\* WriteToLine copies the old file to a temporary one with line l replaced.  A
\* missing file is not handled: fgets gets a null stream, and the whole server
\* is gone.
CopyLines(w) ==
  /\ \/ exists /\ Goto(w, "line", "remove")
     \/ ~exists /\ pc[w] = "line" /\ pc' = [v \in Workers |-> "crashed"]
  /\ \E l \in Lines :
       /\ snap' = [snap EXCEPT ![w] = (content \ l) \cup {Message(w)}]
       /\ overwritten' = overwritten \cup l
  /\ UNCHANGED <<asked, sem, count, local, exists, content, appended>>

RemoveOld(w) ==
  /\ Goto(w, "remove", "rename") /\ exists' = FALSE
  /\ UNCHANGED <<asked, sem, count, local, content, snap, appended, overwritten>>

RenameTemp(w) ==
  /\ Goto(w, "rename", "leave")
  /\ exists' = TRUE /\ content' = snap[w]
  /\ appended' = appended \cup {Message(w)}
  /\ UNCHANGED <<asked, sem, count, local, snap, overwritten>>

\* ReadWholeFile, ReadLine and DownloadFile read the file in several calls.
OpenRead(w) ==
  /\ Goto(w, "read", IF exists THEN "reading" ELSE "leave")
  /\ snap' = [snap EXCEPT ![w] = content]
  /\ UNCHANGED <<asked, sem, count, local, file>>

CloseRead(w) ==
  /\ Goto(w, "reading", "leave")
  /\ UNCHANGED <<asked, sem, count, local, file, snap>>

\* The upload without -ow gives up when the file exists; else it truncates the
\* file and fills it, or removes it when the client has no such file.
SeekUpload(w) ==
  /\ Goto(w, "u_seek", "u_open") \/ (exists /\ Goto(w, "u_seek", "idle"))
  /\ UNCHANGED <<asked, sem, count, local, file, snap>>

OpenUpload(w) ==
  /\ Goto(w, "u_open", "u_fill")
  /\ exists' = TRUE /\ content' = {}
  /\ overwritten' = overwritten \cup content
  /\ UNCHANGED <<asked, sem, count, local, snap, appended>>

FillUpload(w) ==
  /\ Goto(w, "u_fill", "idle")
  /\ \/ content' = content \cup {Message(w)} /\ UNCHANGED <<exists, overwritten>>
     \/ /\ exists' = FALSE /\ content' = {}
        /\ overwritten' = overwritten \cup content
  /\ UNCHANGED <<asked, sem, count, local, snap, appended>>

-----------------------------------------------------------------------------
(* Exit: a writer gives rsc back; everyone uncounts itself; the last opens  *)
(* the gate.                                                                *)

Leave(w) ==
  /\ Goto(w, "leave", "mutex2")
  /\ Post(IF Kind(w) = "writer" THEN {"rsc"} ELSE {})
  /\ UNCHANGED <<asked, count, local, file, snap>>

LockCountAgain(w) ==
  /\ Goto(w, "mutex2", "sub") /\ Wait(Mutex(Kind(w)))
  /\ UNCHANGED <<asked, count, local, file, snap>>

SubFromCount(w) ==
  /\ Goto(w, "sub", "result")
  /\ count' = [count EXCEPT ![Kind(w)] = @ - 1]
  /\ UNCHANGED <<asked, sem, local, file, snap>>

\* Variant: the exit trusts the count of the entry.
ResultOfEntry(w) ==
  /\ Goto(w, "result", "last")
  /\ local' = [local EXCEPT ![w] = @ - 1]
  /\ UNCHANGED <<asked, sem, count, file, snap>>

\* ChangeFileWRCount reads its result from the mapping after it has given its
\* own semaphore back.
ResultOfChange(w) ==
  /\ Goto(w, "result", "last")
  /\ local' = [local EXCEPT ![w] = count[Kind(w)]]
  /\ UNCHANGED <<asked, sem, count, file, snap>>

\* Variant: everyone opens the gate.
LeftByExitOpen(w) == {Gate(Kind(w)), Mutex(Kind(w))}

LeftByExit(w) ==
  IF local[w] = 0 THEN {Gate(Kind(w)), Mutex(Kind(w))} ELSE {Mutex(Kind(w))}

End(w) ==
  /\ Goto(w, "last", "idle")
  /\ Post(LeftByExit(w))
  /\ UNCHANGED <<asked, count, local, file, snap>>

Step(w) ==
  \/ Turnstile(w) \/ LockCount(w) \/ GetFileWRCount(w) \/ AddToCount(w)
  \/ TakeGate(w) \/ UnlockCount(w) \/ TakeResource(w)
  \/ CheckAppend(w) \/ AppendMessage(w)
  \/ CopyLines(w) \/ RemoveOld(w) \/ RenameTemp(w)
  \/ OpenRead(w) \/ CloseRead(w)
  \/ SeekUpload(w) \/ OpenUpload(w) \/ FillUpload(w)
  \/ Leave(w) \/ LockCountAgain(w) \/ SubFromCount(w) \/ ResultOfChange(w) \/ End(w)

Next == \E w \in Workers : Begin(w) \/ Step(w)

Spec == Init /\ [][Next]_vars

\* Every thread that can run is scheduled; requests need not arrive.
FairSpec == Spec /\ \A w \in Workers : WF_vars(Step(w))

-----------------------------------------------------------------------------
(* Properties. *)

Writing(w) == pc[w] \in {"append", "append_ab", "append_wb", "line", "remove", "rename"}
Reading(w) == pc[w] \in {"read", "reading"}

\* Inside the critical section of the count of its kind.
Counting(w) == pc[w] \in {"get", "add", "first", "unlock", "sub", "result", "last"}

TypeOK ==
  /\ pc \in [Workers -> {"idle", "turnstile", "mutex", "get", "add", "first", "unlock",
       "rsc", "append", "append_ab", "append_wb", "line", "remove", "rename", "read",
       "reading", "u_seek", "u_open", "u_fill", "leave", "mutex2", "sub", "result",
       "last", "crashed"}]
  /\ task \in [Workers -> Tasks \cup {"none"}]
  /\ sem \in [Semaphores -> {0, 1}]
  /\ count \in [Kinds -> Nat] /\ local \in [Workers -> Int]
  /\ exists \in BOOLEAN /\ uploaded \in BOOLEAN
  /\ content \subseteq Messages /\ snap \in [Workers -> SUBSET Messages]
  /\ appended \subseteq Messages /\ overwritten \subseteq Messages
  /\ todo \in [Workers -> Seq(Tasks)]
  /\ \A w \in Workers : pc[w] \notin {"idle", "crashed"} => task[w] \in Tasks

\* A semaphore is never raised above one and two threads never share a count's
\* critical section, so the count a thread tests is the one in shared memory,
\* although it was read before the change (149) or after the semaphore of the
\* change was given back (121).
CountsFresh ==
  \A w \in Workers :
    /\ Counting(w) => \A v \in Workers \ {w} : Counting(v) => Kind(v) # Kind(w)
    /\ pc[w] \in {"first", "last"} => local[w] = count[Kind(w)]
    /\ pc[w] = "idle" /\ (\A v \in Workers : pc[v] = "idle") => count = [k \in Kinds |-> 0]

\* Readers and writers of the semaphores exclude each other, and writers each
\* other ("if another process try to read or write, synchronization will be
\* achieved", functions.h 140).
Exclusive ==
  \A v, w \in Workers :
    v # w /\ Writing(v) => ~Writing(w) /\ ~Reading(w)

\* What a reader has begun to read is what the file holds until it is done.
ReadersUndisturbed ==
  \A w \in Workers : pc[w] = "reading" => exists /\ snap[w] = content

\* A message whose write was reported stays in the file until another write
\* replaces its line: WriteToLine works on a copy and AppendToFile may create
\* the file, so either could undo a write in between.
NoWriteLost ==
  (\A w \in Workers : ~Writing(w) \/ pc[w] \in {"append", "append_ab", "line"}) =>
    appended \subseteq content \cup overwritten

\* The access a worker has begun and that has not taken effect.
Doing(w) ==
  IF pc[w] = "crashed" THEN "crashed"
  ELSE IF pc[w] \in {"idle", "leave", "mutex2", "sub", "result", "last"} THEN "none"
  ELSE task[w]

HasRead(w) == task[w] = "read" /\ Doing(w) = "none"

AtOnce == INSTANCE AtomicFile WITH
  Users <- Workers, store <- content,
  doing <- [w \in Workers |-> Doing(w)],
  got <- [w \in Workers |-> IF HasRead(w) THEN snap[w] ELSE {}],
  disturbed <- uploaded

\* Until an upload begins, the file behaves as if every append, every write to
\* a line and every read were one step: a line is replaced in the file as it is
\* when the copy takes its place, and a reader gets what the file holds in the
\* end, however many calls it took.
ActsAtomically == AtOnce!Spec

\* Every task of every worker ends: the semaphores are given back as often as
\* they are taken, in an order that cannot deadlock.
EveryTaskEnds == \A w \in Workers : pc[w] # "idle" ~> pc[w] \in {"idle", "crashed"}
=============================================================================
