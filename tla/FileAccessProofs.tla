-------------------------- MODULE FileAccessProofs --------------------------
(***************************************************************************)
(* Proofs about FileAccess, for any number of workers and any plans.  The  *)
(* inductive invariant says, for each semaphore, which threads it is held  *)
(* for: the mutex of a count by the one thread between its sem_wait and    *)
(* its sem_post, a gate by all the threads of the kind that went past it,  *)
(* readTry also by the reader in the turnstile and rsc also by the writer  *)
(* at the file.  A semaphore is 1 exactly when it is held for nobody.      *)
(***************************************************************************)
EXTENDS FileAccess, TLAPS, FiniteSetTheorems, SequenceTheorems

\* Where the threads are.
Places ==
  {"idle", "turnstile", "mutex", "get", "add", "first", "unlock", "rsc", "append",
   "append_ab", "append_wb", "line", "remove", "rename", "read", "reading", "u_seek",
   "u_open", "u_fill", "leave", "mutex2", "sub", "result", "last", "crashed"}

OfKind(w, k) == Kind(w) = k
Counted(w) == pc[w] \in {"first", "unlock", "rsc", "append", "append_ab", "append_wb",
                         "line", "remove", "rename", "read", "reading", "leave",
                         "mutex2", "sub"}
PastGate(w) == (Counted(w) /\ pc[w] # "first") \/ pc[w] \in {"result", "last"}
InTurnstile(w) == Kind(w) = "reader" /\ pc[w] \in {"mutex", "get", "add", "first", "unlock"}
AtFile(w) == Writing(w) \/ (Kind(w) = "writer" /\ pc[w] = "leave")

CountedOf(k) == {w \in Workers : Counted(w) /\ Kind(w) = k}
GateHeld(k) == \E w \in Workers : PastGate(w) /\ Kind(w) = k

\* What each semaphore and each count stands for.
CountsRight ==
  \A k \in Kinds : IsFiniteSet(CountedOf(k)) /\ count[k] = Cardinality(CountedOf(k))

MutexRight ==
  /\ \A v, w \in Workers : Counting(v) /\ Counting(w) /\ Kind(v) = Kind(w) => v = w
  /\ \A k \in Kinds :
       sem[Mutex(k)] = IF \E w \in Workers : Counting(w) /\ Kind(w) = k THEN 0 ELSE 1

LocalRight ==
  \A w \in Workers :
    /\ pc[w] = "add" => local[w] = count[Kind(w)] + 1
    /\ pc[w] \in {"first", "last"} => local[w] = count[Kind(w)]

ReadTryRight ==
  /\ \A v, w \in Workers : InTurnstile(v) /\ InTurnstile(w) => v = w
  /\ ~(GateHeld("writer") /\ \E w \in Workers : InTurnstile(w))
  /\ sem["readTry"] =
       IF GateHeld("writer") \/ \E w \in Workers : InTurnstile(w) THEN 0 ELSE 1

RscRight ==
  /\ \A v, w \in Workers : AtFile(v) /\ AtFile(w) => v = w
  /\ ~(GateHeld("reader") /\ \E w \in Workers : AtFile(w))
  /\ sem["rsc"] =
       IF GateHeld("reader") \/ \E w \in Workers : AtFile(w) THEN 0 ELSE 1

\* A thread is only where its task takes it.
PlacesRight ==
  \A w \in Workers :
    /\ pc[w] \in {"turnstile", "read", "reading"} => task[w] = "read"
    /\ pc[w] \in {"append", "append_ab", "append_wb"} => task[w] = "append"
    /\ pc[w] \in {"line", "remove", "rename"} => task[w] = "line"
    /\ pc[w] = "rsc" => task[w] \in {"append", "line"}
    /\ pc[w] \in {"u_seek", "u_open", "u_fill"} => task[w] = "upload"
    /\ pc[w] \in {"mutex", "get", "add", "first", "unlock", "leave", "mutex2", "sub",
                  "result", "last"} => task[w] \in {"append", "line", "read"}

\* Nothing moves any more once the server has crashed.
Crashed == \A w \in Workers : pc[w] = "crashed"

Protocol ==
  /\ CountsRight /\ MutexRight /\ LocalRight /\ ReadTryRight /\ RscRight
  /\ \A w \in Workers : pc[w] # "crashed"

LockInv == TypeOK /\ PlacesRight /\ (Crashed \/ Protocol)

\* What was reported is in the file, or in the copy that will replace it, or has
\* been replaced.
ReportsKept ==
  /\ appended \subseteq content \cup overwritten
  /\ ~exists /\ (\A w \in Workers : pc[w] # "rename") => appended \subseteq overwritten
  /\ \A w \in Workers :
       /\ pc[w] = "append_wb" => appended \subseteq overwritten
       /\ pc[w] \in {"remove", "rename"} =>
            appended \cup {Message(w)} \subseteq snap[w] \cup overwritten

\* The write a worker has been asked for and not done is in no file and no copy.
Done(w) == pc[w] \in {"idle", "leave", "mutex2", "sub", "result", "last"}
Unwritten(w, n) == n < Len(todo[w]) \/ (n = Len(todo[w]) /\ ~Done(w))
MessagesFresh ==
  \A v \in Workers, n \in Nat :
    Unwritten(v, n) =>
      /\ <<v, n>> \notin content
      /\ \A w \in Workers :
           pc[w] \in {"remove", "rename"} /\ <<v, n>> # Message(w) => <<v, n>> \notin snap[w]

\* Without uploads the file is what the threads at it have seen.
AsSeen(w) ==
  /\ pc[w] = "append_wb" => content = {}
  /\ pc[w] = "reading" => snap[w] = content
  /\ pc[w] \in {"remove", "rename"} =>
       \E l \in Lines : snap[w] = (content \ l) \cup {Message(w)}

Undisturbed ==
  /\ \A w \in Workers : task[w] # "upload"
  /\ ~exists /\ (\A w \in Workers : pc[w] # "rename") => content = {}
  /\ \A w \in Workers : AsSeen(w)

AtomicInv == Crashed \/ (MessagesFresh /\ (uploaded \/ Undisturbed))

\* What the steps below need of the types.
Typed ==
  /\ pc \in [Workers -> Places]
  /\ task \in [Workers -> Tasks \cup {"none"}]
  /\ sem \in [Semaphores -> {0, 1}] /\ count \in [Kinds -> Nat]
  /\ local \in [Workers -> Int]

\* The types without the values of the semaphores and of the counts.
LEMMA TypeOKTyped == ASSUME TypeOK PROVE Typed
BY DEF TypeOK, Typed, Places

-----------------------------------------------------------------------------
(* A step at the file or outside the protocol changes no semaphore and no   *)
(* count, and takes nobody into or out of a part of the protocol.           *)

Outside(w) ==
  \/ Begin(w) \/ CheckAppend(w) \/ AppendMessage(w)
  \/ CopyLines(w) \/ RemoveOld(w) \/ RenameTemp(w)
  \/ OpenRead(w) \/ CloseRead(w)
  \/ SeekUpload(w) \/ OpenUpload(w) \/ FillUpload(w)

Stays(v) ==
  /\ Counting(v)' <=> Counting(v)
  /\ Counted(v)' <=> Counted(v)
  /\ PastGate(v)' <=> PastGate(v)
  /\ InTurnstile(v)' <=> InTurnstile(v)
  /\ AtFile(v)' <=> AtFile(v)
  /\ Kind(v)' = Kind(v) \/ (~Counting(v) /\ ~Counted(v) /\ ~PastGate(v))
  /\ pc'[v] \in {"add", "first", "last"} => pc'[v] = pc[v]
  /\ pc'[v] # "crashed"

\* A step outside the protocol leaves the protocol as it is, unless the server crashes.
LEMMA OutsideStays ==
  ASSUME TypeOK, PlacesRight, Protocol, NEW w \in Workers, Outside(w)
  PROVE  UNCHANGED <<sem, count, local>> /\ (Crashed' \/ \A v \in Workers : Stays(v))
<1> USE DEF Stays, Counting, Counted, PastGate, InTurnstile, AtFile, Writing, Kind,
            TypeOK, PlacesRight, Protocol, Goto, asked
<1>1. CASE Begin(w)
  BY <1>1 DEF Begin, Tasks
<1>2. CASE CheckAppend(w) \/ AppendMessage(w)
  BY <1>2 DEF CheckAppend, AppendMessage, file
<1>3. CASE CopyLines(w)
  BY <1>3 DEF CopyLines, Crashed
<1>4. CASE RemoveOld(w) \/ RenameTemp(w)
  BY <1>4 DEF RemoveOld, RenameTemp
<1>5. CASE OpenRead(w) \/ CloseRead(w)
  BY <1>5 DEF OpenRead, CloseRead, file
<1>6. CASE SeekUpload(w) \/ OpenUpload(w) \/ FillUpload(w)
  BY <1>6 DEF SeekUpload, OpenUpload, FillUpload, file
<1>7. QED
  BY <1>1, <1>2, <1>3, <1>4, <1>5, <1>6 DEF Outside

\* A step that leaves every thread where it is in the protocol keeps the protocol.
LEMMA StaysKeeps ==
  ASSUME TypeOK, Protocol, UNCHANGED <<sem, count, local>>, \A v \in Workers : Stays(v)
  PROVE  Protocol'
<1>1. \A k \in Kinds : CountedOf(k)' = CountedOf(k)
  BY DEF Stays, CountedOf
<1>2. CountsRight'
  BY <1>1 DEF Protocol, CountsRight
<1>3. MutexRight'
  BY DEF Protocol, MutexRight, Stays
<1>4. LocalRight'
  BY DEF Protocol, LocalRight, Stays, Counting
<1>5. ReadTryRight'
  BY DEF Protocol, ReadTryRight, Stays, GateHeld
<1>6. RscRight'
  BY DEF Protocol, RscRight, Stays, GateHeld
<1>7. QED
  BY <1>2, <1>3, <1>4, <1>5, <1>6 DEF Protocol, Stays

-----------------------------------------------------------------------------
(* The steps of the protocol, one conjunct at a time.                       *)

\* The count says whether the thread at the test is the only one of its kind.
LEMMA CountOfOne ==
  ASSUME CountsRight, NEW k \in Kinds, NEW w \in CountedOf(k)
  PROVE  /\ count[k] = 1 => CountedOf(k) = {w}
         /\ count[k] # 1 => \E v \in CountedOf(k) : v # w
<1>1. count[k] = 1 <=> \E x : CountedOf(k) = {x}
  BY FS_Singleton DEF CountsRight
<1>2. QED
  BY <1>1

\* The count is zero when nobody is counted.
LEMMA CountOfNone ==
  ASSUME CountsRight, NEW k \in Kinds
  PROVE  count[k] = 0 <=> CountedOf(k) = {}
BY FS_EmptySet DEF CountsRight

\* The counts stay the numbers of the threads counted.
LEMMA CountsKept ==
  ASSUME TypeOK, PlacesRight, Protocol, NEW w \in Workers, Step(w), ~Outside(w)
  PROVE  CountsRight'
<1> USE TypeOKTyped DEF Typed, Goto, Counted, Kind, asked
<1> PICK k \in Kinds : k = Kind(w)
  BY DEF Kinds
<1>1. CASE AddToCount(w)
  <2>1. w \notin CountedOf(k) /\ count'[k] = count[k] + 1
    BY <1>1 DEF AddToCount, CountedOf, Kinds
  <2>2. CountedOf(k)' = CountedOf(k) \cup {w}
    BY <1>1 DEF AddToCount, CountedOf
  <2>3. \A j \in Kinds : j # k => CountedOf(j)' = CountedOf(j) /\ count'[j] = count[j]
    BY <1>1 DEF AddToCount, CountedOf
  <2>4. IsFiniteSet(CountedOf(k)) /\ count[k] = Cardinality(CountedOf(k))
    BY <2>1 DEF Protocol, CountsRight
  <2>5. IsFiniteSet(CountedOf(k)') /\ count'[k] = Cardinality(CountedOf(k)')
    BY <2>1, <2>2, <2>4, FS_AddElement
  <2>6. QED
    BY <2>3, <2>5 DEF Protocol, CountsRight
<1>2. CASE SubFromCount(w)
  <2>1. w \in CountedOf(k) /\ count'[k] = count[k] - 1
    BY <1>2 DEF SubFromCount, CountedOf, Kinds
  <2>2. CountedOf(k)' = CountedOf(k) \ {w}
    BY <1>2 DEF SubFromCount, CountedOf
  <2>3. \A j \in Kinds : j # k => CountedOf(j)' = CountedOf(j) /\ count'[j] = count[j]
    BY <1>2 DEF SubFromCount, CountedOf
  <2>4. IsFiniteSet(CountedOf(k)) /\ count[k] = Cardinality(CountedOf(k))
    BY <2>1 DEF Protocol, CountsRight
  <2>5. IsFiniteSet(CountedOf(k)') /\ count'[k] = Cardinality(CountedOf(k)')
    BY <2>1, <2>2, <2>4, FS_RemoveElement
  <2>6. QED
    BY <2>3, <2>5 DEF Protocol, CountsRight
<1>3. CASE ~AddToCount(w) /\ ~SubFromCount(w)
  <2>1. count' = count /\ task' = task /\ \A v \in Workers : Counted(v)' <=> Counted(v)
    BY <1>3 DEF Step, Outside, Turnstile, LockCount, GetFileWRCount, TakeGate, UnlockCount,
                TakeResource, Leave, LockCountAgain, ResultOfChange, End, Tasks, PlacesRight
  <2>2. \A j \in Kinds : CountedOf(j)' = CountedOf(j)
    BY <2>1 DEF CountedOf
  <2>3. QED
    BY <2>1, <2>2 DEF Protocol, CountsRight
<1>4. QED
  BY <1>1, <1>2, <1>3

\* The mutex of a count lets one thread of the kind at the count at a time.
LEMMA MutexKept ==
  ASSUME TypeOK, PlacesRight, Protocol, NEW w \in Workers, Step(w), ~Outside(w)
  PROVE  MutexRight'
<1> USE TypeOKTyped DEF Typed, Goto, Kind, Counting, Protocol, MutexRight, Kinds, Semaphores, Mutex, asked
<1>1. CASE Turnstile(w)
  BY <1>1 DEF Turnstile, Wait
<1>2. CASE LockCount(w)
  BY <1>2 DEF LockCount, Wait
<1>3. CASE LockCountAgain(w)
  BY <1>3 DEF LockCountAgain, Wait
<1>4. CASE GetFileWRCount(w)
  BY <1>4 DEF GetFileWRCount
<1>5. CASE AddToCount(w)
  BY <1>5 DEF AddToCount
<1>6. CASE TakeGate(w)
  BY <1>6 DEF TakeGate, Wait, Gate
<1>7. CASE UnlockCount(w)
  BY <1>7 DEF UnlockCount, Post, LeftByEntry
<1>8. CASE TakeResource(w)
  <2>1. pc[w] = "rsc" /\ pc'[w] \in {"append", "line"}
    BY <1>8 DEF TakeResource, PlacesRight
  <2>2. \A v \in Workers : Counting(v)' <=> Counting(v)
    BY <1>8, <2>1 DEF TakeResource
  <2>3. task' = task /\ \A k \in Kinds : sem'[Mutex(k)] = sem[Mutex(k)]
    BY <1>8 DEF TakeResource, Wait
  <2>4. QED
    BY <2>2, <2>3
<1>9. CASE Leave(w)
  BY <1>9 DEF Leave, Post
<1>10. CASE SubFromCount(w)
  BY <1>10 DEF SubFromCount
<1>11. CASE ResultOfChange(w)
  BY <1>11 DEF ResultOfChange
<1>12. CASE End(w)
  BY <1>12 DEF End, Post, LeftByExit, Gate
<1>13. QED
  BY <1>1, <1>2, <1>3, <1>4, <1>5, <1>6, <1>7, <1>8, <1>9, <1>10, <1>11, <1>12
  DEF Step, Outside

\* What a thread has read of a count stays true while it holds the mutex.
LEMMA LocalKept ==
  ASSUME TypeOK, PlacesRight, Protocol, NEW w \in Workers, Step(w), ~Outside(w)
  PROVE  LocalRight'
<1> USE TypeOKTyped DEF Typed, Goto, Kind, Counting, Protocol, MutexRight, LocalRight, Kinds, asked
<1>1. CASE GetFileWRCount(w)
  BY <1>1 DEF GetFileWRCount
<1>2. CASE AddToCount(w)
  BY <1>2 DEF AddToCount
<1>3. CASE SubFromCount(w)
  BY <1>3 DEF SubFromCount
<1>4. CASE ResultOfChange(w)
  BY <1>4 DEF ResultOfChange
<1>5. CASE Turnstile(w) \/ LockCount(w) \/ LockCountAgain(w)
  BY <1>5 DEF Turnstile, LockCount, LockCountAgain
<1>6. CASE TakeGate(w) \/ UnlockCount(w) \/ TakeResource(w)
  BY <1>6 DEF TakeGate, UnlockCount, TakeResource, PlacesRight
<1>7. CASE Leave(w) \/ End(w)
  BY <1>7 DEF Leave, End
<1>8. QED
  BY <1>1, <1>2, <1>3, <1>4, <1>5, <1>6, <1>7 DEF Step, Outside

\* A thread that tests the count for one takes the gate exactly when its kind
\* does not hold it.
LEMMA FirstTakesGate ==
  ASSUME Protocol, NEW w \in Workers, pc[w] = "first"
  PROVE  IsFirst(w) <=> ~GateHeld(Kind(w))
<1>1. PICK k \in Kinds : k = Kind(w)
  BY DEF Kind, Kinds
<1>2. w \in CountedOf(k) /\ Counting(w) /\ local[w] = count[k]
  BY <1>1 DEF CountedOf, Counted, Counting, Protocol, LocalRight
<1>3. \A v \in Workers : Counting(v) /\ Kind(v) = k => v = w
  BY <1>1, <1>2 DEF Protocol, MutexRight
<1>4. CASE IsFirst(w)
  <2>1. CountedOf(k) = {w}
    BY <1>2, <1>4, CountOfOne DEF IsFirst, Protocol
  <2>2. ASSUME NEW v \in Workers, PastGate(v), Kind(v) = k
        PROVE  FALSE
    <3>1. CASE Counted(v)
      BY <2>1, <2>2, <3>1 DEF CountedOf, PastGate
    <3>2. CASE ~Counted(v)
      BY <1>3, <2>2, <3>2 DEF PastGate, Counting
    <3>3. QED
      BY <3>1, <3>2
  <2>3. QED
    BY <1>1, <1>4, <2>2 DEF GateHeld
<1>5. CASE ~IsFirst(w)
  <2>1. PICK v \in CountedOf(k) : v # w
    BY <1>2, <1>5, CountOfOne DEF IsFirst, Protocol
  <2>2. v \in Workers /\ Kind(v) = k /\ Counted(v) /\ pc[v] # "first"
    BY <1>3, <2>1 DEF CountedOf, Counting
  <2>3. QED
    BY <1>1, <1>5, <2>2 DEF GateHeld, PastGate
<1>6. QED
  BY <1>4, <1>5

\* A thread that tests the count for zero opens the gate exactly when no other
\* thread of its kind is past it.
LEMMA LastOpensGate ==
  ASSUME Protocol, NEW w \in Workers, pc[w] = "last"
  PROVE  local[w] = 0 <=> \A v \in Workers : v # w /\ PastGate(v) => Kind(v) # Kind(w)
<1>1. PICK k \in Kinds : k = Kind(w)
  BY DEF Kind, Kinds
<1>2. w \notin CountedOf(k) /\ Counting(w) /\ local[w] = count[k]
  BY <1>1 DEF CountedOf, Counted, Counting, Protocol, LocalRight
<1>3. \A v \in Workers : Counting(v) /\ Kind(v) = k => v = w
  BY <1>1, <1>2 DEF Protocol, MutexRight
<1>4. local[w] = 0 <=> CountedOf(k) = {}
  BY <1>2, CountOfNone DEF Protocol
<1>5. ASSUME NEW v \in Workers, v # w, PastGate(v), Kind(v) = k
      PROVE  v \in CountedOf(k)
  BY <1>3, <1>5 DEF PastGate, CountedOf, Counting
<1>6. ASSUME NEW v \in CountedOf(k)
      PROVE  v \in Workers /\ v # w /\ PastGate(v) /\ Kind(v) = k
  BY <1>2, <1>3, <1>6 DEF PastGate, CountedOf, Counting
<1>7. QED
  BY <1>1, <1>4, <1>5, <1>6

\* readTry is held for the writers past it or for the reader in the turnstile.
LEMMA ReadTryKept ==
  ASSUME TypeOK, PlacesRight, Protocol, NEW w \in Workers, Step(w), ~Outside(w)
  PROVE  ReadTryRight'
<1> USE TypeOKTyped DEF Typed, Goto, Kind, Protocol, ReadTryRight, InTurnstile, GateHeld, PastGate, Counted,
            Semaphores, asked
<1>1. CASE Turnstile(w)
  BY <1>1 DEF Turnstile, Wait, PlacesRight
<1>2. CASE LockCount(w)
  BY <1>2 DEF LockCount, Wait, Mutex
<1>3. CASE LockCountAgain(w)
  BY <1>3 DEF LockCountAgain, Wait, Mutex
<1>4. CASE GetFileWRCount(w)
  BY <1>4 DEF GetFileWRCount
<1>5. CASE AddToCount(w)
  BY <1>5 DEF AddToCount
<1>6. CASE UnlockCount(w)
  BY <1>6 DEF UnlockCount, Post, LeftByEntry, Mutex
<1>7. CASE TakeResource(w)
  BY <1>7 DEF TakeResource, Wait, PlacesRight
<1>8. CASE Leave(w)
  BY <1>8 DEF Leave, Post
<1>9. CASE SubFromCount(w)
  BY <1>9 DEF SubFromCount
<1>10. CASE ResultOfChange(w)
  BY <1>10 DEF ResultOfChange
<1>11. CASE TakeGate(w)
  <2>1. IsFirst(w) <=> ~GateHeld(Kind(w))
    BY <1>11, FirstTakesGate DEF TakeGate
  <2>2. CASE Kind(w) = "writer" /\ IsFirst(w)
    BY <1>11, <2>1, <2>2 DEF TakeGate, Wait, Gate
  <2>3. CASE Kind(w) = "writer" /\ ~IsFirst(w)
    BY <1>11, <2>1, <2>3 DEF TakeGate
  <2>4. CASE Kind(w) = "reader"
    BY <1>11, <2>4 DEF TakeGate, Wait, Gate
  <2>5. QED
    BY <2>2, <2>3, <2>4
<1>12. CASE End(w)
  <2>1. local[w] = 0 <=> \A v \in Workers : v # w /\ PastGate(v) => Kind(v) # Kind(w)
    BY <1>12, LastOpensGate DEF End
  <2>2. CASE Kind(w) = "writer" /\ local[w] = 0
    BY <1>12, <2>1, <2>2 DEF End, Post, LeftByExit, Gate, Mutex
  <2>3. CASE Kind(w) = "writer" /\ local[w] # 0
    BY <1>12, <2>1, <2>3 DEF End, Post, LeftByExit, Mutex
  <2>4. CASE Kind(w) = "reader"
    BY <1>12, <2>4 DEF End, Post, LeftByExit, Gate, Mutex
  <2>5. QED
    BY <2>2, <2>3, <2>4
<1>13. QED
  BY <1>1, <1>2, <1>3, <1>4, <1>5, <1>6, <1>7, <1>8, <1>9, <1>10, <1>11, <1>12
  DEF Step, Outside

\* rsc is held for the readers or for the one writer at the file.
LEMMA RscKept ==
  ASSUME TypeOK, PlacesRight, Protocol, NEW w \in Workers, Step(w), ~Outside(w)
  PROVE  RscRight'
<1> USE TypeOKTyped DEF Typed, Goto, Kind, Protocol, RscRight, AtFile, Writing, GateHeld, PastGate, Counted,
            Semaphores, asked
<1>1. CASE Turnstile(w)
  BY <1>1 DEF Turnstile, Wait, PlacesRight
<1>2. CASE LockCount(w)
  BY <1>2 DEF LockCount, Wait, Mutex
<1>3. CASE LockCountAgain(w)
  BY <1>3 DEF LockCountAgain, Wait, Mutex
<1>4. CASE GetFileWRCount(w)
  BY <1>4 DEF GetFileWRCount
<1>5. CASE AddToCount(w)
  BY <1>5 DEF AddToCount
<1>6. CASE UnlockCount(w)
  BY <1>6 DEF UnlockCount, Post, LeftByEntry, Mutex
<1>7. CASE TakeResource(w)
  BY <1>7 DEF TakeResource, Wait, PlacesRight
<1>8. CASE Leave(w)
  BY <1>8 DEF Leave, Post
<1>9. CASE SubFromCount(w)
  BY <1>9 DEF SubFromCount
<1>10. CASE ResultOfChange(w)
  BY <1>10 DEF ResultOfChange
<1>11. CASE TakeGate(w)
  <2>1. IsFirst(w) <=> ~GateHeld(Kind(w))
    BY <1>11, FirstTakesGate DEF TakeGate
  <2>2. CASE Kind(w) = "reader" /\ IsFirst(w)
    BY <1>11, <2>1, <2>2 DEF TakeGate, Wait, Gate
  <2>3. CASE Kind(w) = "reader" /\ ~IsFirst(w)
    BY <1>11, <2>1, <2>3 DEF TakeGate
  <2>4. CASE Kind(w) = "writer"
    BY <1>11, <2>4 DEF TakeGate, Wait, Gate
  <2>5. QED
    BY <2>2, <2>3, <2>4
<1>12. CASE End(w)
  <2>1. local[w] = 0 <=> \A v \in Workers : v # w /\ PastGate(v) => Kind(v) # Kind(w)
    BY <1>12, LastOpensGate DEF End
  <2>2. CASE Kind(w) = "reader" /\ local[w] = 0
    BY <1>12, <2>1, <2>2 DEF End, Post, LeftByExit, Gate, Mutex
  <2>3. CASE Kind(w) = "reader" /\ local[w] # 0
    BY <1>12, <2>1, <2>3 DEF End, Post, LeftByExit, Mutex
  <2>4. CASE Kind(w) = "writer"
    BY <1>12, <2>4 DEF End, Post, LeftByExit, Gate, Mutex
  <2>5. QED
    BY <2>2, <2>3, <2>4
<1>13. QED
  BY <1>1, <1>2, <1>3, <1>4, <1>5, <1>6, <1>7, <1>8, <1>9, <1>10, <1>11, <1>12
  DEF Step, Outside

-----------------------------------------------------------------------------
(* The invariant of the protocol.                                           *)

\* A thread goes only where its task takes it, or crashes with all the others.
LEMMA PlacesKept ==
  ASSUME TypeOK, PlacesRight, NEW w \in Workers, Begin(w) \/ Step(w)
  PROVE  PlacesRight'
<1> USE DEF TypeOK, PlacesRight, Goto, asked
<1>1. CASE Begin(w)
  BY <1>1 DEF Begin, Tasks
<1>2. CASE Turnstile(w) \/ LockCount(w) \/ GetFileWRCount(w) \/ AddToCount(w) \/ TakeGate(w)
  BY <1>2 DEF Turnstile, LockCount, GetFileWRCount, AddToCount, TakeGate
<1>3. CASE UnlockCount(w) \/ TakeResource(w)
  BY <1>3 DEF UnlockCount, TakeResource, Kind
<1>4. CASE CheckAppend(w) \/ AppendMessage(w)
  BY <1>4 DEF CheckAppend, AppendMessage
<1>5. CASE CopyLines(w)
  BY <1>5 DEF CopyLines
<1>6. CASE RemoveOld(w) \/ RenameTemp(w) \/ OpenRead(w) \/ CloseRead(w)
  BY <1>6 DEF RemoveOld, RenameTemp, OpenRead, CloseRead
<1>7. CASE SeekUpload(w) \/ OpenUpload(w) \/ FillUpload(w)
  BY <1>7 DEF SeekUpload, OpenUpload, FillUpload
<1>8. CASE Leave(w) \/ LockCountAgain(w) \/ SubFromCount(w) \/ ResultOfChange(w) \/ End(w)
  BY <1>8 DEF Leave, LockCountAgain, SubFromCount, ResultOfChange, End
<1>9. QED
  BY <1>1, <1>2, <1>3, <1>4, <1>5, <1>6, <1>7, <1>8 DEF Step

\* The protocol holds after every step that does not crash the server.
LEMMA ProtocolKept ==
  ASSUME TypeOK, PlacesRight, Protocol, NEW w \in Workers, Begin(w) \/ Step(w)
  PROVE  Crashed' \/ Protocol'
<1>1. CASE Outside(w)
  BY <1>1, OutsideStays, StaysKeeps
<1>2. CASE ~Outside(w)
  <2>1. Step(w)
    BY <1>2 DEF Outside
  <2>2. \A v \in Workers : pc'[v] # "crashed"
    <3>1. \A v \in Workers : pc[v] # "crashed"
      BY DEF Protocol
    <3>2. \A a, b : Goto(w, a, b) /\ b # "crashed" => \A v \in Workers : pc'[v] # "crashed"
      BY <3>1 DEF Goto, TypeOK
    <3>3. CASE Turnstile(w) \/ LockCount(w) \/ GetFileWRCount(w) \/ AddToCount(w) \/ TakeGate(w)
      BY <3>2, <3>3 DEF Turnstile, LockCount, GetFileWRCount, AddToCount, TakeGate
    <3>4. CASE UnlockCount(w) \/ Leave(w) \/ LockCountAgain(w) \/ SubFromCount(w)
      BY <3>2, <3>4 DEF UnlockCount, Leave, LockCountAgain, SubFromCount
    <3>5. CASE ResultOfChange(w) \/ End(w)
      BY <3>2, <3>5 DEF ResultOfChange, End
    <3>6. CASE TakeResource(w)
      <4>1. task[w] # "crashed"
        BY <3>6 DEF TakeResource, PlacesRight, Goto
      <4>2. QED
        BY <3>2, <3>6, <4>1 DEF TakeResource
    <3>7. QED
      BY <1>2, <2>1, <3>3, <3>4, <3>5, <3>6 DEF Step, Outside
  <2>3. QED
    BY <1>2, <2>1, <2>2, CountsKept, MutexKept, LocalKept, ReadTryKept, RscKept DEF Protocol
<1>3. QED
  BY <1>1, <1>2

\* Whatever a step does, the variables keep their shapes.
Shapes ==
  /\ pc \in [Workers -> Places]
  /\ task \in [Workers -> Tasks \cup {"none"}]
  /\ sem \in [Semaphores -> Int] /\ count \in [Kinds -> Int]
  /\ local \in [Workers -> Int]
  /\ exists \in BOOLEAN /\ uploaded \in BOOLEAN
  /\ content \subseteq Messages /\ snap \in [Workers -> SUBSET Messages]
  /\ appended \subseteq Messages /\ overwritten \subseteq Messages
  /\ todo \in [Workers -> Seq(Tasks)]

\* A thread that goes on goes to one of the places.
LEMMA GotoPlace ==
  ASSUME pc \in [Workers -> Places], NEW w \in Workers, NEW a, NEW b \in Places, Goto(w, a, b)
  PROVE  pc' \in [Workers -> Places]
BY DEF Goto

\* The variables of the threads and of the file keep their shape, whatever the
\* semaphores hold.
LEMMA ShapesKept ==
  ASSUME TypeOK, PlacesRight, NEW w \in Workers, Begin(w) \/ Step(w)
  PROVE  Shapes'
<1>1. pc' \in [Workers -> Places]
  <2>1. pc \in [Workers -> Places]
    BY DEF TypeOK, Places
  <2>2. CASE \E b \in Places : Goto(w, pc[w], b)
    BY <2>1, <2>2, GotoPlace
  <2>3. CASE CopyLines(w)
    BY <2>1, <2>3, GotoPlace DEF CopyLines, Places
  <2>4. CASE Begin(w) \/ (Step(w) /\ ~CopyLines(w))
    <3>1. \E a, b \in Places : Goto(w, a, b)
      BY <2>4, ZenonT(30) DEF Begin, Step, Places, Kind, PlacesRight,
        Turnstile, LockCount, GetFileWRCount, AddToCount, TakeGate, UnlockCount,
        TakeResource, CheckAppend, AppendMessage, RemoveOld, RenameTemp, OpenRead,
        CloseRead, SeekUpload, OpenUpload, FillUpload, Leave, LockCountAgain,
        SubFromCount, ResultOfChange, End, Goto
    <3>2. QED
      BY <2>2, <3>1 DEF Goto
  <2>5. QED
    BY <2>3, <2>4
<1>2. task' \in [Workers -> Tasks \cup {"none"}] /\ todo' \in [Workers -> Seq(Tasks)]
      /\ uploaded' \in BOOLEAN
  <2>1. CASE Begin(w)
    BY <2>1 DEF Begin, TypeOK
  <2>2. CASE Step(w)
    <3>1. UNCHANGED <<todo, task, uploaded>>
      BY <2>2 DEF Step, Turnstile, LockCount, GetFileWRCount, AddToCount, TakeGate,
        UnlockCount, TakeResource, CheckAppend, AppendMessage, CopyLines, RemoveOld,
        RenameTemp, OpenRead, CloseRead, SeekUpload, OpenUpload, FillUpload, Leave,
        LockCountAgain, SubFromCount, ResultOfChange, End, asked
    <3>2. QED
      BY <3>1 DEF TypeOK
  <2>3. QED
    BY <2>1, <2>2
<1>3. sem' \in [Semaphores -> Int]
  <2>1. ASSUME NEW s \in Semaphores, Wait(s)
        PROVE  sem' \in [Semaphores -> Int]
    <3>1. sem \in [Semaphores -> {0, 1}]
      BY DEF TypeOK
    <3>2. sem \in [Semaphores -> Int] /\ sem[s] - 1 \in Int
      BY <3>1
    <3>3. QED
      BY <2>1, <3>2 DEF Wait
  <2>2. \A S : Post(S) => sem' \in [Semaphores -> Int]
    BY DEF Post, TypeOK
  <2>3. sem' = sem => sem' \in [Semaphores -> Int]
    BY DEF TypeOK
  <2>4. {Mutex(Kind(w)), Gate(Kind(w)), "readTry", "rsc"} \subseteq Semaphores
    BY DEF Mutex, Gate, Semaphores
  <2>5. (\E s \in Semaphores : Wait(s)) \/ (\E S : Post(S)) \/ sem' = sem
    BY <2>4 DEF Begin, Step, Turnstile, LockCount, GetFileWRCount, AddToCount, TakeGate,
      UnlockCount, TakeResource, CheckAppend, AppendMessage, CopyLines, RemoveOld,
      RenameTemp, OpenRead, CloseRead, SeekUpload, OpenUpload, FillUpload, Leave,
      LockCountAgain, SubFromCount, ResultOfChange, End
  <2>6. QED
    BY <2>1, <2>2, <2>3, <2>5
<1>4. count' \in [Kinds -> Int] /\ local' \in [Workers -> Int] /\ exists' \in BOOLEAN
  <2>1. Kind(w) \in Kinds
    BY DEF Kind, Kinds
  <2>2. CASE AddToCount(w) \/ SubFromCount(w)
    BY <2>1, <2>2 DEF AddToCount, SubFromCount, file, TypeOK
  <2>3. CASE GetFileWRCount(w)
    BY <2>1, <2>3 DEF GetFileWRCount, file, TypeOK
  <2>4. CASE ResultOfChange(w)
    BY <2>1, <2>4 DEF ResultOfChange, file, TypeOK
  <2>5. CASE ~AddToCount(w) /\ ~SubFromCount(w) /\ ~GetFileWRCount(w) /\ ~ResultOfChange(w)
    <3>1. UNCHANGED <<count, local>> /\ (exists' \in BOOLEAN \/ exists' = exists)
      BY <2>5 DEF Begin, Step, Turnstile, LockCount, TakeGate, UnlockCount,
        TakeResource, CheckAppend, AppendMessage, CopyLines, RemoveOld, RenameTemp,
        OpenRead, CloseRead, SeekUpload, OpenUpload, FillUpload, Leave, LockCountAgain,
        End, file
    <3>2. QED
      BY <3>1 DEF TypeOK
  <2>6. QED
    BY <2>2, <2>3, <2>4, <2>5
<1>5. content' \subseteq Messages /\ snap' \in [Workers -> SUBSET Messages]
      /\ appended' \subseteq Messages /\ overwritten' \subseteq Messages
  <2>1. Message(w) \in Messages
    BY LenProperties DEF Message, Messages, TypeOK
  <2>2. CASE AppendMessage(w)
    BY <2>1, <2>2 DEF AppendMessage, TypeOK
  <2>3. CASE CopyLines(w)
    <3>1. PICK l \in Lines :
            /\ snap' = [snap EXCEPT ![w] = (content \ l) \cup {Message(w)}]
            /\ overwritten' = overwritten \cup l
      BY <2>3 DEF CopyLines
    <3>2. (content \ l) \cup {Message(w)} \in SUBSET Messages /\ l \subseteq Messages
      BY <2>1, <3>1 DEF Lines, TypeOK
    <3>3. content' = content /\ appended' = appended
      BY <2>3 DEF CopyLines
    <3>4. QED
      BY <3>1, <3>2, <3>3 DEF TypeOK
  <2>4. CASE RenameTemp(w)
    BY <2>1, <2>4 DEF RenameTemp, TypeOK
  <2>5. CASE OpenRead(w)
    BY <2>5 DEF OpenRead, file, TypeOK
  <2>6. CASE OpenUpload(w) \/ FillUpload(w)
    BY <2>1, <2>6 DEF OpenUpload, FillUpload, TypeOK
  <2>7. CASE RemoveOld(w)
    BY <2>7 DEF RemoveOld, TypeOK
  <2>8. CASE Begin(w) \/ (Step(w) /\ ~Outside(w)) \/ CheckAppend(w) \/ CloseRead(w) \/ SeekUpload(w)
    <3>1. UNCHANGED <<content, snap, appended, overwritten>>
      BY <2>8 DEF Begin, Step, Outside, Turnstile, LockCount, GetFileWRCount, AddToCount,
        TakeGate, UnlockCount, TakeResource, CheckAppend, CloseRead, SeekUpload, Leave,
        LockCountAgain, SubFromCount, ResultOfChange, End, file
    <3>2. QED
      BY <3>1 DEF TypeOK
  <2>9. QED
    BY <2>2, <2>3, <2>4, <2>5, <2>6, <2>7, <2>8 DEF Step, Outside
<1>6. QED
  BY <1>1, <1>2, <1>3, <1>4, <1>5 DEF Shapes

\* The protocol makes the semaphores binary and the counts natural.
LEMMA ProtocolTypes ==
  Shapes /\ PlacesRight /\ Protocol => TypeOK
<1> SUFFICES ASSUME Shapes, PlacesRight, Protocol
             PROVE  TypeOK
  OBVIOUS
<1>1. \A s \in Semaphores : sem[s] \in {0, 1}
  BY DEF Semaphores, Protocol, MutexRight, Mutex, Kinds, ReadTryRight, RscRight
<1>2. \A k \in Kinds : count[k] \in Nat
  BY FS_CardinalityType DEF Protocol, CountsRight
<1>3. \A w \in Workers : pc[w] \notin {"idle", "crashed"} => task[w] \in Tasks
  BY DEF Shapes, Places, PlacesRight, Tasks
<1>4. QED
  BY <1>1, <1>2, <1>3 DEF Shapes, TypeOK, Places
\* A crash leaves every semaphore and count as it was.
LEMMA CrashTypes ==
  ASSUME TypeOK, PlacesRight, NEW w \in Workers, Begin(w) \/ Step(w), Crashed'
  PROVE  TypeOK'
<1>1. Shapes'
  BY ShapesKept
<1>2. CASE CopyLines(w)
  <2>1. UNCHANGED <<sem, count>>
    BY <1>2 DEF CopyLines
  <2>2. QED
    BY <1>1, <2>1 DEF Shapes, Places, TypeOK, Crashed
<1>3. CASE ~CopyLines(w)
  <2>1. pc'[w] # "crashed"
    BY <1>3 DEF TypeOK, PlacesRight, Goto, Begin, Step, Turnstile, LockCount, GetFileWRCount,
      AddToCount, TakeGate, UnlockCount, TakeResource, CheckAppend, AppendMessage, RemoveOld,
      RenameTemp, OpenRead, CloseRead, SeekUpload, OpenUpload, FillUpload, Leave,
      LockCountAgain, SubFromCount, ResultOfChange, End
  <2>2. QED
    BY <2>1 DEF Crashed
<1>4. QED
  BY <1>2, <1>3

\* The semaphores are up at the start.
LEMMA LockInvInit == Init => LockInv
<1> SUFFICES ASSUME Init
             PROVE  LockInv
  OBVIOUS
<1>1. pc = [w \in Workers |-> "idle"] /\ task = [w \in Workers |-> "none"]
  BY DEF Init
<1>2. TypeOK
  <2>1. todo \in [Workers -> Seq(Tasks)]
    BY PlansAssumption DEF Init
  <2>2. sem \in [Semaphores -> {0, 1}] /\ count \in [Kinds -> Nat]
    BY DEF Init
  <2>3. local \in [Workers -> Int]
    BY DEF Init
  <2>4. exists \in BOOLEAN
    BY DEF Init
  <2>5. uploaded \in BOOLEAN
    BY DEF Init
  <2>6. pc \in [Workers -> Places] /\ task \in [Workers -> Tasks \cup {"none"}]
    BY <1>1 DEF Places
  <2>7. \A w \in Workers : pc[w] = "idle"
    BY <1>1
  <2>8. content = {} /\ appended = {} /\ overwritten = {} /\ snap \in [Workers -> SUBSET Messages]
    BY DEF Init
  <2>9. QED
    BY <2>1, <2>2, <2>3, <2>4, <2>5, <2>6, <2>7, <2>8 DEF TypeOK, Places
<1>3. PlacesRight
  BY <1>1 DEF PlacesRight
<1>4. \A w \in Workers : ~Counted(w) /\ ~Counting(w) /\ ~PastGate(w) /\ ~InTurnstile(w) /\ ~AtFile(w)
  BY <1>1 DEF Counted, Counting, PastGate, InTurnstile, AtFile, Writing
<1>5. CountsRight
  <2>1. \A k \in Kinds : CountedOf(k) = {} /\ count[k] = 0
    BY <1>4 DEF CountedOf, Init
  <2>2. QED
    BY <2>1, FS_EmptySet DEF CountsRight
<1>6. MutexRight /\ ReadTryRight /\ RscRight
  BY <1>4 DEF Init, MutexRight, ReadTryRight, RscRight, GateHeld, Mutex, Semaphores
<1>7. LocalRight /\ \A w \in Workers : pc[w] # "crashed"
  BY <1>1 DEF LocalRight
<1>8. QED
  BY <1>2, <1>3, <1>5, <1>6, <1>7 DEF LockInv, Protocol

\* Every step keeps the invariant.
LEMMA LockInvKept == LockInv /\ [Next]_vars => LockInv'
<1> SUFFICES ASSUME LockInv, [Next]_vars
             PROVE  LockInv'
  OBVIOUS
<1>1. CASE UNCHANGED vars
  <2>1. TypeOK'
    BY <1>1 DEF vars, LockInv, TypeOK
  <2>2. PlacesRight' /\ (Crashed => Crashed')
    BY <1>1 DEF vars, LockInv, PlacesRight, Crashed
  <2>3. UNCHANGED <<sem, count, local>> /\ pc' = pc /\ task' = task
    BY <1>1 DEF vars
  <2>4. ASSUME Protocol
        PROVE  \A v \in Workers : Stays(v)
    <3> SUFFICES ASSUME NEW v \in Workers
                 PROVE  Stays(v)
      OBVIOUS
    <3>1. pc'[v] # "crashed"
      BY <2>3, <2>4 DEF Protocol
    <3>2. QED
      BY <2>3, <3>1 DEF Stays, Counting, Counted, PastGate, InTurnstile, AtFile, Writing, Kind
  <2>5. Protocol => Protocol'
    <3>1. TypeOK
      BY DEF LockInv
    <3>2. QED
      BY <2>3, <2>4, <3>1, StaysKeeps
  <2>6. QED
    BY <2>1, <2>2, <2>5 DEF LockInv
<1>2. ASSUME NEW w \in Workers, Begin(w) \/ Step(w)
      PROVE  LockInv'
  <2>1. TypeOK /\ PlacesRight /\ (Crashed \/ Protocol)
    BY DEF LockInv
  <2>2. ~Crashed
    BY <1>2, <2>1 DEF Crashed, Goto, Begin, Step, Turnstile, LockCount, GetFileWRCount,
      AddToCount, TakeGate, UnlockCount, TakeResource, CheckAppend, AppendMessage, CopyLines,
      RemoveOld, RenameTemp, OpenRead, CloseRead, SeekUpload, OpenUpload, FillUpload, Leave,
      LockCountAgain, SubFromCount, ResultOfChange, End
  <2>3. PlacesRight' /\ Shapes' /\ (Crashed' \/ Protocol')
    BY <1>2, <2>1, <2>2, PlacesKept, ShapesKept, ProtocolKept
  <2>4. TypeOK'
    <3>1. CASE Crashed'
      BY <1>2, <2>1, <3>1, CrashTypes
    <3>2. CASE Protocol'
      BY <2>3, <3>2, ProtocolTypes, PTL
    <3>3. QED
      BY <2>3, <3>1, <3>2
  <2>5. QED
    BY <2>3, <2>4 DEF LockInv
<1>3. QED
  BY <1>1, <1>2 DEF Next

\* The semaphores and counts of a file always stand for the threads in it.
THEOREM ProtocolHolds == Spec => []LockInv
BY LockInvInit, LockInvKept, PTL DEF Spec

\* Every variable of the shared file keeps its type; in particular no semaphore
\* is ever posted above one, although sem_post would allow it (functions.h 134).
THEOREM TypeCorrect == Spec => []TypeOK
<1>1. LockInv => TypeOK
  BY DEF LockInv
<1>2. QED
  BY <1>1, ProtocolHolds, PTL

\* The count a thread tests (functions.h 152, 271) is the one in shared memory,
\* although it was read outside the semaphore that guards it.
THEOREM CountsAreFresh == Spec => []CountsFresh
<1>1. LockInv => CountsFresh
  <2> SUFFICES ASSUME LockInv
               PROVE  CountsFresh
    OBVIOUS
  <2>1. CASE Crashed
    BY <2>1 DEF Crashed, CountsFresh, Counting
  <2>2. CASE Protocol
    <3>1. ASSUME NEW w \in Workers, \A v \in Workers : pc[v] = "idle"
          PROVE  count = [k \in Kinds |-> 0]
      <4>1. \A k \in Kinds : CountedOf(k) = {}
        BY <3>1 DEF CountedOf, Counted
      <4>2. \A k \in Kinds : count[k] = 0
        BY <2>2, <4>1, CountOfNone DEF Protocol
      <4>3. QED
        BY <4>2 DEF LockInv, TypeOK
    <3>2. QED
      BY <2>2, <3>1 DEF Protocol, MutexRight, LocalRight, CountsFresh
  <2>3. QED
    BY <2>1, <2>2 DEF LockInv
<1>2. QED
  BY <1>1, ProtocolHolds, PTL

\* Readers and writers exclude each other and writers each other
\* (functions.h 140), for any number of threads at the file.
THEOREM ExclusionHolds == Spec => []Exclusive
<1>1. LockInv => Exclusive
  <2> SUFFICES ASSUME LockInv, NEW v \in Workers, NEW w \in Workers, v # w, Writing(v)
               PROVE  ~Writing(w) /\ ~Reading(w)
    BY DEF Exclusive
  <2>1. Protocol
    BY DEF LockInv, Crashed, Writing
  <2>2. ~Writing(w)
    BY <2>1 DEF Protocol, RscRight, AtFile
  <2>3. Reading(w) => PastGate(w) /\ Kind(w) = "reader"
    BY DEF LockInv, PlacesRight, Reading, PastGate, Counted, Kind
  <2>4. ~Reading(w)
    BY <2>1, <2>3 DEF Protocol, RscRight, AtFile, GateHeld
  <2>5. QED
    BY <2>2, <2>4
<1>2. QED
  BY <1>1, ProtocolHolds, PTL
-----------------------------------------------------------------------------
(* What was reported to a client is not lost.                               *)

\* Only a writer at the end of its access reports, and it is alone.
LEMMA ReportsKeptStep ==
  ASSUME TypeOK, Exclusive, PlacesRight, ReportsKept, NEW w \in Workers, Begin(w) \/ Step(w)
  PROVE  ReportsKept'
<1> USE DEF TypeOK, Goto, ReportsKept
<1>1. CASE AppendMessage(w)
  <2>1. \A v \in Workers : v # w => pc'[v] \notin {"append_wb", "remove", "rename"}
    BY <1>1 DEF AppendMessage, Exclusive, Writing
  <2>2. pc'[w] = "leave"
    BY <1>1 DEF AppendMessage
  <2>3. exists' /\ appended' \subseteq content' \cup overwritten'
    BY <1>1 DEF AppendMessage
  <2>4. QED
    BY <2>1, <2>2, <2>3
<1>2. CASE RenameTemp(w)
  <2>1. \A v \in Workers : v # w => pc'[v] \notin {"append_wb", "remove", "rename"}
    BY <1>2 DEF RenameTemp, Exclusive, Writing
  <2>2. pc'[w] = "leave"
    BY <1>2 DEF RenameTemp
  <2>3. exists' /\ appended' \subseteq content' \cup overwritten'
    BY <1>2 DEF RenameTemp
  <2>4. QED
    BY <2>1, <2>2, <2>3
<1>3. CASE CopyLines(w)
  <2>1. PICK l \in Lines :
          /\ snap' = [snap EXCEPT ![w] = (content \ l) \cup {Message(w)}]
          /\ overwritten' = overwritten \cup l
    BY <1>3 DEF CopyLines
  <2>2. pc[w] = "line" /\ UNCHANGED <<exists, content, appended, todo>>
    BY <1>3 DEF CopyLines, asked
  <2>3. \A v \in Workers : pc[v] \notin {"append_wb", "remove", "rename"}
    BY <2>2, Exclusive DEF Exclusive, Writing
  <2>4. \A v \in Workers : pc'[v] \in {"remove", "rename"} => v = w
    BY <1>3, <2>3 DEF CopyLines
  <2>5. \A v \in Workers : pc'[v] # "append_wb"
    BY <1>3, <2>3 DEF CopyLines
  <2>6. appended \cup {Message(w)} \subseteq snap'[w] \cup overwritten'
    BY <2>1
  <2>7. Message(w)' = Message(w)
    BY <2>2 DEF Message
  <2>8. QED
    BY <2>1, <2>2, <2>3, <2>4, <2>5, <2>6, <2>7
<1>4. CASE CheckAppend(w)
  BY <1>4 DEF CheckAppend, Exclusive, Writing, file, asked, Message
<1>5. CASE RemoveOld(w)
  BY <1>5 DEF RemoveOld, asked, Message
<1>6. CASE OpenUpload(w)
  BY <1>6 DEF OpenUpload, asked, Message
<1>7. CASE FillUpload(w)
  BY <1>7 DEF FillUpload, asked, Message
<1>8. CASE OpenRead(w)
  BY <1>8 DEF OpenRead, PlacesRight, file, asked, Message
<1>9. CASE Begin(w)
  BY <1>9 DEF Begin, file, Message
<1>10. CASE (Step(w) /\ ~Outside(w)) \/ CloseRead(w) \/ SeekUpload(w)
  <2>1. UNCHANGED <<exists, content, snap, appended, overwritten, todo>>
    BY <1>10 DEF Step, Outside, Turnstile, LockCount, GetFileWRCount, AddToCount, TakeGate,
      UnlockCount, TakeResource, CloseRead, SeekUpload, Leave, LockCountAgain,
      SubFromCount, ResultOfChange, End, file, asked
  <2>2. \A v \in Workers : pc'[v] \in {"append_wb", "remove", "rename"} <=>
                           pc[v] \in {"append_wb", "remove", "rename"}
    BY <1>10 DEF Step, Outside, Turnstile, LockCount, GetFileWRCount, AddToCount, TakeGate,
      UnlockCount, TakeResource, CloseRead, SeekUpload, Leave, LockCountAgain,
      SubFromCount, ResultOfChange, End, PlacesRight
  <2>3. \A v \in Workers : pc'[v] = pc[v] \/ pc'[v] \notin {"append_wb", "remove", "rename"}
    BY <1>10, <2>2 DEF Step, Outside, Turnstile, LockCount, GetFileWRCount, AddToCount, TakeGate,
      UnlockCount, TakeResource, CloseRead, SeekUpload, Leave, LockCountAgain,
      SubFromCount, ResultOfChange, End, PlacesRight
  <2>4. QED
    BY <2>1, <2>2, <2>3 DEF Message
<1>11. QED
  BY <1>1, <1>2, <1>3, <1>4, <1>5, <1>6, <1>7, <1>8, <1>9, <1>10 DEF Step, Outside

\* A message whose write was reported is in the file until another write
\* replaces its line: neither the copy of WriteToLine nor the file AppendToFile
\* creates undoes a write (functions.h 158, 221).
THEOREM WritesAreKept == Spec => []NoWriteLost
<1>1. LockInv => TypeOK /\ PlacesRight
  BY DEF LockInv
<1>2. Init => ReportsKept
  BY DEF Init, ReportsKept
<1>3. TypeOK /\ PlacesRight /\ Exclusive /\ ReportsKept /\ [Next]_vars => ReportsKept'
  <2>1. UNCHANGED vars /\ ReportsKept => ReportsKept'
    BY DEF vars, ReportsKept, Message
  <2>2. QED
    BY <2>1, ReportsKeptStep DEF Next
<1>4. ReportsKept => NoWriteLost
  BY DEF ReportsKept, NoWriteLost
<1>5. QED
  BY <1>1, <1>2, <1>3, <1>4, ProtocolHolds, ExclusionHolds, PTL DEF Spec
-----------------------------------------------------------------------------
(* Without uploads the file behaves as if every access were one step.       *)

\* The steps that do not touch the file.
Elsewhere(w) == (Step(w) /\ ~Outside(w)) \/ CloseRead(w) \/ SeekUpload(w)

Key == {"append_ab", "append_wb", "remove", "rename", "reading"}

\* A thread at the entry or the exit of the protocol, or that closes a file it
\* read (functions.h 115-160, 226-300), leaves the file alone and changes what
\* nobody else is at.
LEMMA ElsewhereKeeps ==
  ASSUME TypeOK, PlacesRight, NEW w \in Workers, Elsewhere(w)
  PROVE  /\ UNCHANGED <<exists, content, snap, appended, overwritten, todo, task, uploaded>>
         /\ \A v \in Workers : pc'[v] \in Key => pc'[v] = pc[v]
         /\ \A v \in Workers : pc[v] = "rename" => pc'[v] = "rename"
         /\ \A v \in Workers : Done(v) => Done(v)'
<1>1. UNCHANGED <<exists, content, snap, appended, overwritten, todo, task, uploaded>>
  BY DEF Elsewhere, Step, Outside, Turnstile, LockCount, GetFileWRCount, AddToCount, TakeGate,
    UnlockCount, TakeResource, CloseRead, SeekUpload, Leave, LockCountAgain,
    SubFromCount, ResultOfChange, End, file, asked
<1>2. \A v \in Workers : v # w => pc'[v] = pc[v]
  BY DEF Elsewhere, Step, Outside, Turnstile, LockCount, GetFileWRCount, AddToCount, TakeGate,
    UnlockCount, TakeResource, CloseRead, SeekUpload, Leave, LockCountAgain,
    SubFromCount, ResultOfChange, End, Goto, TypeOK
<1>3. pc'[w] \notin Key /\ pc[w] # "rename"
  BY TypeOKTyped DEF Typed, Elsewhere, Step, Outside, Turnstile, LockCount, GetFileWRCount,
    AddToCount, TakeGate, UnlockCount, TakeResource, CloseRead, SeekUpload, Leave,
    LockCountAgain, SubFromCount, ResultOfChange, End, Goto, PlacesRight, Key
<1>4. Done(w) => Done(w)'
  BY TypeOKTyped DEF Typed, Elsewhere, Step, Outside, Turnstile, LockCount, GetFileWRCount,
    AddToCount, TakeGate, UnlockCount, TakeResource, CloseRead, SeekUpload, Leave,
    LockCountAgain, SubFromCount, ResultOfChange, End, Goto, Done
<1>5. QED
  BY <1>1, <1>2, <1>3, <1>4 DEF Done

\* A write that has not been done has not been done before either.
LEMMA UnwrittenBefore ==
  ASSUME TypeOK, PlacesRight, NEW w \in Workers, Begin(w) \/ Step(w), ~Crashed',
         NEW v \in Workers, NEW n \in Nat, Unwritten(v, n)'
  PROVE  Unwritten(v, n)
<1>1. CASE Begin(w)
  <2>1. CASE v = w
    <3>1. todo[w] \in Seq(Tasks) /\ todo[w] # <<>> /\ todo'[w] = Tail(todo[w])
      BY <1>1 DEF Begin, TypeOK
    <3>2. Len(todo'[w]) = Len(todo[w]) - 1 /\ Len(todo[w]) \in Nat
      BY <3>1, HeadTailProperties, LenProperties
    <3>3. QED
      BY <2>1, <3>2 DEF Unwritten
  <2>2. CASE v # w
    BY <1>1, <2>2 DEF Begin, TypeOK, Goto, Unwritten, Done
  <2>3. QED
    BY <2>1, <2>2
<1>2. CASE Elsewhere(w)
  BY <1>2, ElsewhereKeeps DEF Unwritten
<1>3. CASE Step(w) /\ ~Elsewhere(w) /\ ~Begin(w)
  <2>1. todo' = todo
    BY <1>3 DEF Step, Elsewhere, Outside, CheckAppend, AppendMessage, CopyLines, RemoveOld,
      RenameTemp, OpenRead, OpenUpload, FillUpload, asked
  <2>2. Done(v) => Done(v)'
    BY <1>3 DEF Step, Elsewhere, Outside, CheckAppend, AppendMessage, CopyLines, RemoveOld,
      RenameTemp, OpenRead, OpenUpload, FillUpload, Goto, TypeOK, Done, Crashed
  <2>3. QED
    BY <2>1, <2>2 DEF Unwritten
<1>4. QED
  BY <1>1, <1>2, <1>3

\* No file and no copy holds what is not written yet.
LEMMA FreshKept ==
  ASSUME TypeOK, PlacesRight, MessagesFresh, NEW w \in Workers, Begin(w) \/ Step(w), ~Crashed'
  PROVE  MessagesFresh'
<1> SUFFICES ASSUME NEW v \in Workers, NEW n \in Nat, Unwritten(v, n)'
             PROVE  /\ <<v, n>> \notin content'
                    /\ \A u \in Workers :
                         pc'[u] \in {"remove", "rename"} /\ <<v, n>> # Message(u)' =>
                           <<v, n>> \notin snap'[u]
  BY DEF MessagesFresh
<1>1. Unwritten(v, n)
  BY UnwrittenBefore
<1>2. <<v, n>> \notin content
  BY <1>1 DEF MessagesFresh
<1>3. ASSUME NEW u \in Workers, pc[u] \in {"remove", "rename"}, <<v, n>> # Message(u)
      PROVE  <<v, n>> \notin snap[u]
  BY <1>1, <1>3 DEF MessagesFresh
<1>4. CASE Begin(w)
  <2>1. UNCHANGED <<content, snap>> /\ \A u \in Workers : u # w => pc'[u] = pc[u] /\ todo'[u] = todo[u]
    BY <1>4 DEF Begin, Goto, TypeOK, file
  <2>2. pc'[w] \notin {"remove", "rename"}
    BY <1>4 DEF Begin, Goto, TypeOK
  <2>3. QED
    BY <1>2, <1>3, <2>1, <2>2 DEF Message
<1>5. CASE Elsewhere(w)
  BY <1>2, <1>3, <1>5, ElsewhereKeeps DEF Key, Message
<1>6. CASE CheckAppend(w) \/ OpenRead(w) \/ OpenUpload(w)
  <2>1. todo' = todo /\ content' \subseteq content
    BY <1>6 DEF CheckAppend, OpenRead, OpenUpload, asked, file
  <2>2. \A u \in Workers : pc'[u] \in {"remove", "rename"} => pc[u] = pc'[u] /\ snap'[u] = snap[u]
    BY <1>6 DEF CheckAppend, OpenRead, OpenUpload, Goto, TypeOK
  <2>3. QED
    BY <1>2, <1>3, <2>1, <2>2 DEF Message
<1>7. CASE AppendMessage(w) \/ FillUpload(w)
  <2>1. todo' = todo /\ snap' = snap /\ content' \subseteq content \cup {Message(w)}
    BY <1>7 DEF AppendMessage, FillUpload, asked
  <2>2. \A u \in Workers : pc'[u] \in {"remove", "rename"} => pc[u] = pc'[u]
    BY <1>7 DEF AppendMessage, FillUpload, Goto, TypeOK
  <2>3. Done(w)'
    BY <1>7 DEF AppendMessage, FillUpload, Goto, TypeOK, Done
  <2>4. <<v, n>> # Message(w)
    BY <2>1, <2>3, LenProperties DEF Unwritten, Message, TypeOK
  <2>5. QED
    BY <1>2, <1>3, <2>1, <2>2, <2>4 DEF Message
<1>8. CASE CopyLines(w)
  <2>1. PICK l \in Lines : snap' = [snap EXCEPT ![w] = (content \ l) \cup {Message(w)}]
    BY <1>8 DEF CopyLines
  <2>2. UNCHANGED <<todo, content>>
    BY <1>8 DEF CopyLines, asked
  <2>3. \A u \in Workers : u # w => pc'[u] = pc[u] /\ snap'[u] = snap[u]
    BY <1>8, <2>1 DEF CopyLines, Goto, TypeOK, Crashed
  <2>4. snap'[w] = (content \ l) \cup {Message(w)}
    BY <2>1 DEF TypeOK
  <2>5. QED
    BY <1>2, <1>3, <2>2, <2>3, <2>4 DEF Message
<1>9. CASE RemoveOld(w)
  BY <1>2, <1>3, <1>9 DEF RemoveOld, Goto, TypeOK, Message, asked
<1>10. CASE RenameTemp(w)
  <2>1. todo' = todo /\ snap' = snap /\ content' = snap[w] /\ pc[w] = "rename"
    BY <1>10 DEF RenameTemp, asked, Goto
  <2>2. \A u \in Workers : pc'[u] \in {"remove", "rename"} => pc[u] = pc'[u]
    BY <1>10 DEF RenameTemp, Goto, TypeOK
  <2>3. Done(w)'
    BY <1>10 DEF RenameTemp, Goto, TypeOK, Done
  <2>4. <<v, n>> # Message(w)
    BY <2>1, <2>3, LenProperties DEF Unwritten, Message, TypeOK
  <2>5. QED
    BY <1>2, <1>3, <2>1, <2>2, <2>4 DEF Message
<1>11. QED
  BY <1>4, <1>5, <1>6, <1>7, <1>8, <1>9, <1>10 DEF Step, Elsewhere, Outside
\* Only an upload disturbs what the threads at the file have seen.
LEMMA UndisturbedKept ==
  ASSUME TypeOK, PlacesRight, Exclusive, Undisturbed,
         NEW w \in Workers, Begin(w) \/ Step(w), ~Crashed', ~uploaded'
  PROVE  Undisturbed'
<1> USE DEF Lines
<1>1. CASE Begin(w)
  <2>1. UNCHANGED <<exists, content, snap>> /\ \A v \in Workers : v # w => pc'[v] = pc[v] /\ todo'[v] = todo[v]
    BY <1>1 DEF Begin, Goto, TypeOK, file
  <2>2. pc[w] = "idle" /\ pc'[w] \notin Key /\ task'[w] # "upload"
    BY <1>1 DEF Begin, Goto, TypeOK, Key
  <2>3. \A v \in Workers : task'[v] # "upload"
    BY <1>1, <2>2 DEF Begin, Undisturbed, TypeOK
  <2>4. AsSeen(w)'
    BY <2>2 DEF AsSeen, Key
  <2>5. \A v \in Workers : v # w => AsSeen(v)'
    <3> SUFFICES ASSUME NEW v \in Workers, v # w
                 PROVE  AsSeen(v)'
      OBVIOUS
    <3>1. pc'[v] = pc[v] /\ snap'[v] = snap[v] /\ Message(v)' = Message(v) /\ Lines' = Lines
      BY <2>1 DEF Message
    <3> HIDE DEF Lines
    <3>2. AsSeen(v)
      BY DEF Undisturbed
    <3>3. QED
      BY <2>1, <3>1, <3>2 DEF AsSeen
  <2>6. ~exists' /\ (\A v \in Workers : pc'[v] # "rename") => content' = {}
    BY <2>1, <2>2 DEF Undisturbed
  <2>7. QED
    BY <2>1, <2>3, <2>4, <2>5, <2>6 DEF Undisturbed
<1>2. CASE Elsewhere(w)
  BY <1>2, ElsewhereKeeps DEF Undisturbed, AsSeen, Key, Message
<1>3. CASE OpenUpload(w) \/ FillUpload(w)
  BY <1>3 DEF OpenUpload, FillUpload, Goto, PlacesRight, Undisturbed, AsSeen
<1>4. CASE CheckAppend(w)
  <2>1. UNCHANGED <<exists, content, snap, todo, task>> /\ pc[w] = "append"
    BY <1>4 DEF CheckAppend, asked, file, Goto
  <2>2. \A v \in Workers : v # w => pc'[v] = pc[v] /\ pc[v] # "rename"
    BY <1>4, <2>1 DEF CheckAppend, Goto, TypeOK, Exclusive, Writing
  <2>3. pc'[w] = "append_ab" \/ (pc'[w] = "append_wb" /\ ~exists)
    BY <1>4 DEF CheckAppend, Goto, TypeOK
  <2>4. QED
    BY <2>1, <2>2, <2>3 DEF Undisturbed, AsSeen, Message
<1>5. CASE AppendMessage(w)
  <2>1. UNCHANGED <<snap, todo, task>> /\ pc'[w] = "leave" /\ exists'
    BY <1>5 DEF AppendMessage, asked, Goto, TypeOK
  <2>2. \A v \in Workers : v # w => pc'[v] \notin Key
    BY <1>5 DEF AppendMessage, Goto, TypeOK, Exclusive, Writing, Reading, Key
  <2>3. QED
    BY <2>1, <2>2 DEF Undisturbed, AsSeen, Key
<1>6. CASE CopyLines(w)
  <2>1. PICK l \in Lines :
          /\ snap' = [snap EXCEPT ![w] = (content \ l) \cup {Message(w)}]
    BY <1>6 DEF CopyLines
  <2>2. UNCHANGED <<exists, content, todo, task>> /\ exists /\ pc'[w] = "remove"
    BY <1>6 DEF CopyLines, asked, Crashed, Goto, TypeOK
  <2>3. \A v \in Workers : v # w => pc'[v] \notin Key
    BY <1>6 DEF CopyLines, Goto, TypeOK, Exclusive, Writing, Reading, Key, Crashed
  <2>4. snap'[w] = (content \ l) \cup {Message(w)} /\ Message(w)' = Message(w)
    BY <2>1, <2>2 DEF TypeOK, Message
  <2>5. QED
    BY <2>1, <2>2, <2>3, <2>4 DEF Undisturbed, AsSeen, Key
<1>7. CASE RemoveOld(w)
  <2>1. UNCHANGED <<content, snap, todo, task>> /\ pc[w] = "remove" /\ pc'[w] = "rename"
    BY <1>7 DEF RemoveOld, asked, Goto, TypeOK
  <2>2. \A v \in Workers : v # w => pc'[v] \notin Key
    BY <1>7 DEF RemoveOld, Goto, TypeOK, Exclusive, Writing, Reading, Key
  <2>3. Message(w)' = Message(w)
    BY <2>1 DEF Message
  <2>4. QED
    BY <2>1, <2>2, <2>3 DEF Undisturbed, AsSeen, Key
<1>8. CASE RenameTemp(w)
  <2>1. UNCHANGED <<snap, todo, task>> /\ pc'[w] = "leave" /\ exists'
    BY <1>8 DEF RenameTemp, asked, Goto, TypeOK
  <2>2. \A v \in Workers : v # w => pc'[v] \notin Key
    BY <1>8 DEF RenameTemp, Goto, TypeOK, Exclusive, Writing, Reading, Key
  <2>3. QED
    BY <2>1, <2>2 DEF Undisturbed, AsSeen, Key
<1>9. CASE OpenRead(w)
  <2>1. UNCHANGED <<exists, content, todo, task>> /\ pc[w] = "read" /\ pc'[w] \in {"reading", "leave"}
    BY <1>9 DEF OpenRead, asked, file, Goto, TypeOK
  <2>2. \A v \in Workers : v # w => pc'[v] = pc[v] /\ snap'[v] = snap[v]
    BY <1>9 DEF OpenRead, Goto, TypeOK
  <2>3. snap'[w] = content
    BY <1>9 DEF OpenRead, TypeOK
  <2>4. AsSeen(w)'
    BY <2>1, <2>3 DEF AsSeen
  <2>5. \A v \in Workers : v # w => AsSeen(v)'
    <3> SUFFICES ASSUME NEW v \in Workers, v # w
                 PROVE  AsSeen(v)'
      OBVIOUS
    <3>1. pc'[v] = pc[v] /\ snap'[v] = snap[v] /\ Message(v)' = Message(v) /\ Lines' = Lines
      BY <2>1, <2>2 DEF Message
    <3> HIDE DEF Lines
    <3>2. AsSeen(v)
      BY DEF Undisturbed
    <3>3. QED
      BY <2>1, <3>1, <3>2 DEF AsSeen
  <2>6. ~exists' /\ (\A v \in Workers : pc'[v] # "rename") => content' = {}
    BY <2>1, <2>2 DEF Undisturbed
  <2>7. QED
    BY <2>1, <2>4, <2>5, <2>6 DEF Undisturbed
<1>10. QED
  BY <1>1, <1>2, <1>3, <1>4, <1>5, <1>6, <1>7, <1>8, <1>9 DEF Step, Elsewhere, Outside

\* The invariant of the refinement.
LEMMA AtomicInvHolds == Spec => []AtomicInv
<1>1. LockInv => TypeOK /\ PlacesRight
  BY DEF LockInv
<1>2. Init => AtomicInv
  <2> SUFFICES ASSUME Init
               PROVE  MessagesFresh /\ Undisturbed
    BY DEF AtomicInv
  <2>1. content = {} /\ \A w \in Workers : pc[w] = "idle" /\ task[w] = "none"
    BY DEF Init
  <2>2. QED
    BY <2>1 DEF MessagesFresh, Undisturbed, AsSeen
<1>3. TypeOK /\ PlacesRight /\ Exclusive /\ AtomicInv /\ [Next]_vars => AtomicInv'
  <2> SUFFICES ASSUME TypeOK, PlacesRight, Exclusive, AtomicInv, [Next]_vars
               PROVE  AtomicInv'
    OBVIOUS
  <2>1. CASE UNCHANGED vars
    BY <2>1 DEF vars, AtomicInv, Crashed, MessagesFresh, Unwritten, Done, Undisturbed, AsSeen, Lines, Message
  <2>2. ASSUME NEW w \in Workers, Begin(w) \/ Step(w)
        PROVE  AtomicInv'
    <3>1. ~Crashed
      BY <2>2 DEF Crashed, Goto, Begin, Step, Turnstile, LockCount, GetFileWRCount,
        AddToCount, TakeGate, UnlockCount, TakeResource, CheckAppend, AppendMessage, CopyLines,
        RemoveOld, RenameTemp, OpenRead, CloseRead, SeekUpload, OpenUpload, FillUpload, Leave,
        LockCountAgain, SubFromCount, ResultOfChange, End
    <3>2. uploaded => uploaded'
      BY <2>2 DEF Begin, Step, Turnstile, LockCount, GetFileWRCount,
        AddToCount, TakeGate, UnlockCount, TakeResource, CheckAppend, AppendMessage, CopyLines,
        RemoveOld, RenameTemp, OpenRead, CloseRead, SeekUpload, OpenUpload, FillUpload, Leave,
        LockCountAgain, SubFromCount, ResultOfChange, End, asked
    <3>3. MessagesFresh /\ (uploaded \/ Undisturbed)
      BY <3>1 DEF AtomicInv
    <3>4. CASE ~Crashed'
      BY <2>2, <3>2, <3>3, <3>4, FreshKept, UndisturbedKept DEF AtomicInv
    <3>5. QED
      BY <3>4 DEF AtomicInv
  <2>3. QED
    BY <2>1, <2>2 DEF Next
<1>4. QED
  BY <1>1, <1>2, <1>3, ProtocolHolds, ExclusionHolds, PTL DEF Spec
\* The abstract state.
Doings == [w \in Workers |-> Doing(w)]
Got(w) == IF HasRead(w) THEN snap[w] ELSE {}
Gots == [w \in Workers |-> Got(w)]

\* A step of one worker changes the abstract state of that worker only.
LEMMA AloneAt ==
  ASSUME TypeOK, NEW w \in Workers, Begin(w) \/ Step(w), ~Crashed'
  PROVE  /\ Doings' = [Doings EXCEPT ![w] = Doing(w)']
         /\ Gots' = [Gots EXCEPT ![w] = Got(w)']
<1>1. \A v \in Workers : v # w => pc'[v] = pc[v] /\ task'[v] = task[v]
  BY DEF TypeOK, Goto, Begin, Step, Turnstile, LockCount, GetFileWRCount,
    AddToCount, TakeGate, UnlockCount, TakeResource, CheckAppend, AppendMessage, CopyLines,
    RemoveOld, RenameTemp, OpenRead, CloseRead, SeekUpload, OpenUpload, FillUpload, Leave,
    LockCountAgain, SubFromCount, ResultOfChange, End, asked, Crashed
<1>2. \A v \in Workers : v # w => snap'[v] = snap[v]
  BY DEF TypeOK, Begin, Step, Turnstile, LockCount, GetFileWRCount,
    AddToCount, TakeGate, UnlockCount, TakeResource, CheckAppend, AppendMessage, CopyLines,
    RemoveOld, RenameTemp, OpenRead, CloseRead, SeekUpload, OpenUpload, FillUpload, Leave,
    LockCountAgain, SubFromCount, ResultOfChange, End, file
<1>3. \A v \in Workers : v # w => Doing(v)' = Doing(v) /\ Got(v)' = Got(v)
  BY <1>1, <1>2 DEF Doing, Got, HasRead
<1>4. QED
  BY <1>3 DEF Doings, Gots

\* No upload is undone: an access without one comes from a file without one.
LEMMA UploadedKept ==
  ASSUME TypeOK, PlacesRight, NEW w \in Workers, Begin(w) \/ Step(w), ~uploaded'
  PROVE  ~uploaded /\ uploaded' = uploaded
<1>1. ~uploaded
  BY DEF Begin, Step, Turnstile, LockCount, GetFileWRCount, AddToCount, TakeGate,
    UnlockCount, TakeResource, CheckAppend, AppendMessage, CopyLines, RemoveOld, RenameTemp,
    OpenRead, CloseRead, SeekUpload, OpenUpload, FillUpload, Leave, LockCountAgain,
    SubFromCount, ResultOfChange, End, asked
<1>2. uploaded \in BOOLEAN /\ uploaded' \in BOOLEAN
  BY ShapesKept DEF TypeOK, Shapes
<1>3. QED
  BY <1>1, <1>2

\* Steps at the entry, at the exit and between the calls of an access change
\* nothing a client can see.
LEMMA HiddenSteps ==
  ASSUME TypeOK, PlacesRight, NEW w \in Workers, ~Crashed', ~uploaded',
         \/ Elsewhere(w) /\ ~CloseRead(w) /\ ~SeekUpload(w)
         \/ CheckAppend(w) \/ CopyLines(w) \/ RemoveOld(w)
         \/ OpenRead(w) /\ exists
  PROVE  UNCHANGED AtOnce!file
<1>1. content' = content /\ task' = task
  BY DEF Elsewhere, Step, Outside, Turnstile, LockCount, GetFileWRCount, AddToCount, TakeGate,
    UnlockCount, TakeResource, Leave, LockCountAgain, SubFromCount, ResultOfChange, End,
    CheckAppend, CopyLines, RemoveOld, OpenRead, file, asked
<1>2. Begin(w) \/ Step(w)
  BY DEF Elsewhere, Step
<1>3. Doing(w)' = Doing(w)
  BY <1>1, TypeOKTyped DEF Typed, Doing, Goto, PlacesRight, Kind, Elsewhere, Step, Outside, Turnstile,
    LockCount, GetFileWRCount, AddToCount, TakeGate, UnlockCount, TakeResource, Leave,
    LockCountAgain, SubFromCount, ResultOfChange, End, CheckAppend, CopyLines, RemoveOld,
    OpenRead, Crashed
<1>4. Got(w)' = Got(w)
  <2>1. HasRead(w)' = HasRead(w)
    BY <1>1, <1>3 DEF HasRead
  <2>2. CASE Elsewhere(w)
    BY <2>1, <2>2, ElsewhereKeeps DEF Got
  <2>3. CASE CheckAppend(w) \/ RemoveOld(w)
    BY <2>1, <2>3 DEF CheckAppend, RemoveOld, Got
  <2>4. CASE CopyLines(w) \/ OpenRead(w)
    <3>1. ~HasRead(w)
      BY <2>4 DEF CopyLines, OpenRead, Goto, HasRead, Doing, PlacesRight
    <3>2. QED
      BY <2>1, <3>1 DEF Got
  <2>5. QED
    BY <2>2, <2>3, <2>4
<1>5. Doings' = Doings /\ Gots' = Gots
  BY <1>2, <1>3, <1>4, AloneAt DEF Doings, Gots
<1>6. QED
  BY <1>1, <1>2, <1>5, UploadedKept DEF AtOnce!file, Doings, Gots, Got

\* A task taken from the queue asks for an access.
LEMMA BeginAsks ==
  ASSUME TypeOK, PlacesRight, NEW w \in Workers, Begin(w), ~uploaded'
  PROVE  AtOnce!Ask(w)
<1>1. pc[w] = "idle" /\ content' = content
  BY DEF Begin, Goto, file
<1>2. PICK a \in {"append", "line", "read"} : task'[w] = a /\ Doing(w)' = a
  <2>1. Head(todo[w]) \in {"append", "line", "read"}
    <3>1. todo[w] \in Seq(Tasks) /\ todo[w] # <<>>
      BY DEF Begin, TypeOK
    <3>2. Head(todo[w]) \in Tasks
      BY <3>1, HeadTailProperties
    <3>3. Head(todo[w]) # "upload"
      BY DEF Begin
    <3>4. QED
      BY <3>2, <3>3 DEF Tasks
  <2>2. task'[w] = Head(todo[w]) /\ pc'[w] \in {"turnstile", "mutex"}
    BY <2>1 DEF Begin, Goto, TypeOK
  <2>3. QED
    BY <2>1, <2>2 DEF Doing
<1>3. Doing(w) = "none" /\ Got(w)' = {}
  BY <1>1, <1>2 DEF Doing, Got, HasRead
<1>4. ~Crashed'
  BY <1>2 DEF Crashed, Doing
<1>5. Doings' = [Doings EXCEPT ![w] = a] /\ Gots' = [Gots EXCEPT ![w] = {}]
  BY <1>2, <1>3, <1>4, AloneAt
<1>6. Doings[w] = "none"
  BY <1>3 DEF Doings
<1>7. QED
  BY <1>1, <1>5, <1>6 DEF AtOnce!Ask, Doings, Gots, Got

\* The access of w ends: the abstract user has been served, with nothing read.
LEMMA AccessEnds ==
  ASSUME TypeOK, NEW w \in Workers, Step(w), NEW a, a # "read", task[w] = a, task' = task,
         Doing(w) = a, Doing(w)' = "none"
  PROVE  AtOnce!Served(w, a) /\ Gots' = Gots
<1>1. ~Crashed'
  BY DEF Crashed, Doing
<1>2. Got(w)' = Got(w)
  BY DEF Got, HasRead
<1>3. QED
  BY <1>1, <1>2, AloneAt DEF AtOnce!Served, Doings, Gots

\* The write of AppendToFile is the append.
LEMMA AppendIsAppend ==
  ASSUME TypeOK, PlacesRight, MessagesFresh, Undisturbed, NEW w \in Workers, AppendMessage(w)
  PROVE  AtOnce!Append(w)
<1>1. pc[w] \in {"append_ab", "append_wb"} /\ pc'[w] = "leave" /\ task[w] = "append" /\ task' = task
  BY DEF AppendMessage, Goto, TypeOK, PlacesRight, asked
<1>2. AtOnce!Served(w, "append") /\ Gots' = Gots
  BY <1>1, AccessEnds DEF Doing, Step
<1>3. Message(w) \notin content
  BY <1>1, LenProperties DEF MessagesFresh, Unwritten, Done, Message, TypeOK
<1>4. content' = content \cup {Message(w)}
  BY <1>1 DEF AppendMessage, Undisturbed, AsSeen, Goto
<1>5. content \subseteq content' /\ content' \ content = {Message(w)}
  BY <1>3, <1>4
<1>6. QED
  BY <1>2, <1>5 DEF AtOnce!Append, AtOnce!OneOf, Gots, Got

\* The rename of WriteToLine is the write to the line: the copy differs from
\* the file as it is now in one line only.
LEMMA RenameIsWrite ==
  ASSUME TypeOK, PlacesRight, MessagesFresh, Undisturbed, NEW w \in Workers, RenameTemp(w)
  PROVE  AtOnce!WriteLine(w)
<1>1. pc[w] = "rename" /\ pc'[w] = "leave" /\ task[w] = "line" /\ task' = task
  BY DEF RenameTemp, Goto, TypeOK, PlacesRight, asked
<1>2. AtOnce!Served(w, "line") /\ Gots' = Gots
  BY <1>1, AccessEnds DEF Doing, Step
<1>3. Message(w) \notin content
  BY <1>1, LenProperties DEF MessagesFresh, Unwritten, Done, Message, TypeOK
<1>4. PICK l \in Lines :
        snap[w] = (content \ l) \cup {Message(w)}
  BY <1>1 DEF Undisturbed, AsSeen
<1>5. content' = (content \ l) \cup {Message(w)}
  BY <1>4 DEF RenameTemp
<1>6. content' \ content = {Message(w)} /\ content \ content' = l
  BY <1>3, <1>4, <1>5 DEF Lines
<1>7. content \subseteq content' \/ AtOnce!OneOf(content \ content')
  BY <1>4, <1>6 DEF Lines, AtOnce!OneOf
<1>8. QED
  BY <1>2, <1>6, <1>7 DEF AtOnce!WriteLine, AtOnce!OneOf, Gots, Got

\* The last call of a reader is the read: it has what the file holds now.
LEMMA CloseIsRead ==
  ASSUME TypeOK, PlacesRight, Undisturbed, NEW w \in Workers,
         CloseRead(w) \/ (OpenRead(w) /\ ~exists)
  PROVE  AtOnce!Read(w)
<1>1. /\ pc[w] \in {"read", "reading"} /\ pc'[w] = "leave"
      /\ task[w] = "read" /\ task' = task /\ content' = content
  BY DEF CloseRead, OpenRead, Goto, TypeOK, PlacesRight, asked, file
<1>2. snap'[w] = content
  BY DEF CloseRead, OpenRead, Goto, TypeOK, Undisturbed, AsSeen
<1>3. Doing(w) = "read" /\ Doing(w)' = "none" /\ Got(w)' = content
  BY <1>1, <1>2 DEF Doing, Got, HasRead
<1>4. ~Crashed'
  BY <1>1 DEF Crashed
<1>5. Doings' = [Doings EXCEPT ![w] = "none"] /\ Gots' = [Gots EXCEPT ![w] = content]
  BY <1>3, <1>4, AloneAt DEF Step
<1>6. Doings[w] = "read"
  BY <1>3 DEF Doings
<1>7. QED
  BY <1>1, <1>5, <1>6 DEF AtOnce!Read, AtOnce!Served, Doings, Gots, Got

\* A line of a missing file ends every access.
LEMMA CrashIsCrash ==
  ASSUME TypeOK, PlacesRight, ~Crashed, NEW w \in Workers, Begin(w) \/ Step(w), Crashed'
  PROVE  AtOnce!Crash(w)
<1>1. CopyLines(w)
  BY TypeOKTyped DEF Typed, PlacesRight, Crashed, Goto, Begin, Step, Turnstile, LockCount, GetFileWRCount,
    AddToCount, TakeGate, UnlockCount, TakeResource, CheckAppend, AppendMessage, RemoveOld,
    RenameTemp, OpenRead, CloseRead, SeekUpload, OpenUpload, FillUpload, Leave,
    LockCountAgain, SubFromCount, ResultOfChange, End
<1>2. pc[w] = "line" /\ task[w] = "line" /\ content' = content
  BY <1>1 DEF CopyLines, Goto, PlacesRight
<1>3. \A v \in Workers : Doing(v)' = "crashed" /\ Got(v)' = {}
  BY DEF Crashed, Doing, Got, HasRead
<1>4. Doings' = [v \in Workers |-> "crashed"] /\ Gots' = [v \in Workers |-> {}]
  BY <1>3 DEF Doings, Gots
<1>5. Doings[w] = "line"
  BY <1>2 DEF Doings, Doing
<1>6. QED
  BY <1>2, <1>4, <1>5 DEF AtOnce!Crash, Doings, Gots, Got

\* Every step of a worker is a step of the atomic file, or changes nothing of it.
LEMMA StepIsAtomic ==
  ASSUME TypeOK, PlacesRight, AtomicInv, NEW w \in Workers, Begin(w) \/ Step(w), ~uploaded'
  PROVE  (AtOnce!Next /\ uploaded' = uploaded) \/ UNCHANGED AtOnce!file
<1>1. ~uploaded /\ uploaded' = uploaded /\ ~Crashed
  <2>1. ~Crashed
    BY DEF Begin, Step, Turnstile, LockCount, GetFileWRCount, AddToCount, TakeGate,
      UnlockCount, TakeResource, CheckAppend, AppendMessage, CopyLines, RemoveOld, RenameTemp,
      OpenRead, CloseRead, SeekUpload, OpenUpload, FillUpload, Leave, LockCountAgain,
      SubFromCount, ResultOfChange, End, Crashed, Goto
  <2>2. QED
    BY <2>1, UploadedKept
<1>2. MessagesFresh /\ Undisturbed
  BY <1>1 DEF AtomicInv
<1>3. CASE Crashed'
  BY <1>1, <1>3, CrashIsCrash DEF AtOnce!Next, TypeOK
<1>4. CASE Begin(w)
  BY <1>1, <1>4, BeginAsks DEF AtOnce!Next, TypeOK
<1>5. CASE AppendMessage(w)
  BY <1>1, <1>2, <1>5, AppendIsAppend DEF AtOnce!Next, TypeOK
<1>6. CASE RenameTemp(w)
  BY <1>1, <1>2, <1>6, RenameIsWrite DEF AtOnce!Next, TypeOK
<1>7. CASE CloseRead(w) \/ (OpenRead(w) /\ ~exists)
  BY <1>1, <1>2, <1>7, CloseIsRead DEF AtOnce!Next, TypeOK
<1>8. CASE SeekUpload(w) \/ OpenUpload(w) \/ FillUpload(w)
  BY <1>2, <1>8 DEF SeekUpload, OpenUpload, FillUpload, Goto, PlacesRight, Undisturbed, AsSeen
<1>9. CASE /\ ~Crashed' /\ ~Begin(w) /\ ~AppendMessage(w) /\ ~RenameTemp(w) /\ ~CloseRead(w)
           /\ ~(OpenRead(w) /\ ~exists) /\ ~SeekUpload(w) /\ ~OpenUpload(w) /\ ~FillUpload(w)
  BY <1>1, <1>9, HiddenSteps DEF Step, Elsewhere, Outside
<1>10. QED
  BY <1>3, <1>4, <1>5, <1>6, <1>7, <1>8, <1>9

\* Until an upload begins, the file behaves as if every append, every write to
\* a line and every read were one step, for any number of clients: the readers
\* and writers of functions.h implement the atomic file.
THEOREM AccessesAreAtomic == Spec => ActsAtomically
<1>1. LockInv => TypeOK /\ PlacesRight
  BY DEF LockInv
<1>2. Init => AtOnce!Init
  <2> SUFFICES ASSUME Init
               PROVE  AtOnce!Init
    OBVIOUS
  <2>1. \A w \in Workers : Doing(w) = "none" /\ ~HasRead(w)
    BY DEF Init, Doing, HasRead
  <2>2. content = {} /\ uploaded = FALSE
    BY DEF Init
  <2>3. QED
    BY <2>1, <2>2 DEF AtOnce!Init
<1>3. TypeOK /\ PlacesRight /\ AtomicInv /\ [Next]_vars
        => [uploaded' \/ (AtOnce!Next /\ UNCHANGED uploaded)]_AtOnce!file
  <2> SUFFICES ASSUME TypeOK, PlacesRight, AtomicInv, [Next]_vars
               PROVE  uploaded' \/ (AtOnce!Next /\ uploaded' = uploaded) \/ UNCHANGED AtOnce!file
    OBVIOUS
  <2>1. CASE UNCHANGED vars
    BY <2>1 DEF vars, AtOnce!file, Doing, HasRead
  <2>2. QED
    BY <2>1, StepIsAtomic DEF Next
<1>4. QED
  BY <1>1, <1>2, <1>3, ProtocolHolds, AtomicInvHolds, PTL DEF Spec, ActsAtomically, AtOnce!Spec

=============================================================================
