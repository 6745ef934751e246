----------------------- MODULE ParallelCopyFileProofs -----------------------
(***************************************************************************)
(* What becomes of the files that pCp has seen: no thread works on a file  *)
(* of another one, and without an interrupt none is lost, every descriptor *)
(* belongs to one file, every copy is a beginning of its file, and the     *)
(* total that is printed is what the copies hold, for every tree, pool,    *)
(* buffer and limit.                                                       *)
(***************************************************************************)
EXTENDS ParallelCopyProofs, FiniteSetTheorems, WellFoundedInduction

HoldsBuffer == {"c_take", "c_sleep", "p_kill", "p_fill", "p_sleep"}
HoldsCount == {"c_store", "p_store", "p_fdSleep"}

\* Who is between a lock and an unlock holds the mutex.
MutexRight ==
  \A t \in Threads :
    /\ pc[t] \in HoldsBuffer <=> Mutex_m = t
    /\ pc[t] \in HoldsCount <=> Mutex_open_file = t

\* Mutex_m keeps the sections on the buffer apart: what a consumer finds there is
\* as it found it until it has taken it (myfunctions.h 83-100).
LEMMA MutexStep ==
  ASSUME PcOK, MutexRight, [Next]_vars
  PROVE  MutexRight'
  <1> USE ThreadAssumption DEF PcOK, MutexRight, HoldsBuffer, HoldsCount, Goto, GotoAndSignal, Broadcast,
         Threads,
      ConsumerPC, ProducerPC, AfterReturn, HandlerStep, Walking, NextEntry, fdCount, buf
  <1>1. ASSUME NEW c \in Consumers, EnterBuffer(c) PROVE MutexRight'
    BY <1>1 DEF EnterBuffer
  <1>2. ASSUME NEW c \in Consumers, SleepOnBuffer(c, "c_sleep", "c_wait") PROVE MutexRight'
    BY <1>2 DEF SleepOnBuffer
  <1>3. ASSUME NEW c \in Consumers, TakeFile(c) PROVE MutexRight'
    BY <1>3 DEF TakeFile
  <1>4. ASSUME NEW c \in Consumers, ReadChunk(c) PROVE MutexRight'
    BY <1>4 DEF ReadChunk
  <1>5. ASSUME NEW c \in Consumers, WriteChunk(c) PROVE MutexRight'
    BY <1>5 DEF WriteChunk
  <1>6. ASSUME NEW c \in Consumers, ReportFile(c) PROVE MutexRight'
    BY <1>6 DEF ReportFile
  <1>7. ASSUME NEW c \in Consumers, LoadCount(c, "c_count", "c_store") PROVE MutexRight'
    BY <1>7 DEF LoadCount
  <1>8. ASSUME NEW c \in Consumers, UncountFds(c) PROVE MutexRight'
    BY <1>8 DEF UncountFds
  <1>9. CASE OpenRoot
    BY <1>9 DEF OpenRoot
  <1>10. CASE LeaveWhenKilled
    BY <1>10 DEF LeaveWhenKilled
  <1>11. CASE SkipDots
    BY <1>11 DEF SkipDots
  <1>12. CASE VisitSubdir
    BY <1>12 DEF VisitSubdir
  <1>13. CASE VisitFifo
    BY <1>13 DEF VisitFifo
  <1>14. CASE VisitFile
    BY <1>14 DEF VisitFile
  <1>15. CASE CheckFdCount
    BY <1>15 DEF CheckFdCount
  <1>16. CASE SleepOnFdCount
    BY <1>16 DEF SleepOnFdCount
  <1>17. CASE CheckKill
    BY <1>17 DEF CheckKill
  <1>18. CASE OpenFiles
    BY <1>18 DEF OpenFiles
  <1>19. CASE OpenFails
    BY <1>19 DEF OpenFails
  <1>20. CASE LoadCount(Producer, "p_count", "p_store")
    BY <1>20 DEF LoadCount
  <1>21. CASE CountFds
    BY <1>21 DEF CountFds
  <1>22. CASE FindSlot
    BY <1>22 DEF FindSlot
  <1>23. CASE SleepOnBuffer(Producer, "p_sleep", "p_wait")
    BY <1>23 DEF SleepOnBuffer
  <1>24. CASE LastCheckKill
    BY <1>24 DEF LastCheckKill
  <1>25. CASE FillSlot
    BY <1>25 DEF FillSlot
  <1>26. CASE LeaveSubdir
    BY <1>26 DEF LeaveSubdir
  <1>27. CASE RaiseDone
    BY <1>27 DEF RaiseDone
  <1>28. CASE Interrupt
    BY <1>28 DEF Interrupt
  <1>29. CASE HandlerCloseSource
    BY <1>29 DEF HandlerCloseSource
  <1>30. CASE HandlerClearSlot
    BY <1>30 DEF HandlerClearSlot
  <1>31. CASE HandlerCloseDest
    BY <1>31 DEF HandlerCloseDest
  <1>32. CASE HandlerResetCount
    BY <1>32 DEF HandlerResetCount
  <1>33. CASE HandlerWake
    BY <1>33 DEF HandlerWake
  <1>34. CASE Join
    BY <1>34 DEF Join
  <1>35. ASSUME NEW t \in Threads, SpuriousWakeup(t) PROVE MutexRight'
    BY <1>35 DEF SpuriousWakeup
  <1>36. CASE Finished
    BY <1>36 DEF Finished, vars
  <1>37. CASE UNCHANGED vars
    BY <1>37 DEF vars
  <1> HIDE DEF PcOK, MutexRight, HoldsBuffer, HoldsCount, Goto, GotoAndSignal, Broadcast, Threads,
      ConsumerPC, ProducerPC, AfterReturn, HandlerStep, Walking, NextEntry, fdCount, buf
  <1> QED
    BY <1>1, <1>2, <1>3, <1>4, <1>5, <1>6, <1>7, <1>8, <1>9, <1>10, <1>11, <1>12, <1>13, <1>14, <1>15, <1>16,
       <1>17, <1>18, <1>19, <1>20, <1>21, <1>22, <1>23, <1>24, <1>25, <1>26, <1>27, <1>28, <1>29, <1>30, <1>31,
       <1>32, <1>33, <1>34, <1>35, <1>36, <1>37 DEF Next, Consume, Produce, Handle

-----------------------------------------------------------------------------
(* The files seen so far. *)

\* The next entry of the current directory has not been seen before.
LEMMA AdvanceSees ==
  ASSUME at \in [Dirs -> Nat], cwd \in Dirs, MoreEntries, Advance
  PROVE  /\ Seen' = Seen \cup ({Listing[cwd][at[cwd]]} \cap Files)
         /\ Listing[cwd][at[cwd]] \notin Seen
  <1> DEFINE e == Listing[cwd][at[cwd]]
  <1>1. \A d \in Dirs : \A i \in DOMAIN Listing[d] : i \in Nat
    BY TreeAssumption
  <1>2. \A d \in Dirs : at'[d] = IF d = cwd THEN at[d] + 1 ELSE at[d]
    BY DEF Advance
  <1>3. \A d \in Dirs : \A i \in DOMAIN Listing[d] :
          i < at'[d] <=> (i < at[d] \/ (d = cwd /\ i = at[d]))
    BY <1>1, <1>2
  <1>4. Seen' = Seen \cup ({e} \cap Files)
    <2>1. \A f \in Files : f \in Seen' <=> (f \in Seen \/ f = e)
      BY <1>3 DEF Seen, MoreEntries
    <2> QED
      BY <2>1 DEF Seen
  <1>5. e \notin Seen
    <2> SUFFICES ASSUME e \in Files, NEW d \in Dirs, NEW i \in DOMAIN Listing[d],
                        i < at[d], Listing[d][i] = e
                 PROVE  FALSE
      BY DEF Seen
    <2>1. d = cwd /\ i = at[cwd]
      BY ListingAssumption DEF MoreEntries
    <2> QED
      BY <1>1, <2>1
  <1> QED
    BY <1>4, <1>5

\* Only VisitFile brings a file into hands; it is a new one.
LEMMA SeenStep ==
  ASSUME WalkOK, PcOK, [Next]_vars
  PROVE  /\ Seen \subseteq Seen'
         /\ ~KillSignal /\ ~VisitFile => Seen' = Seen
         /\ VisitFile =>
              \E f \in Files :
                /\ f \notin Seen /\ Seen' = Seen \cup {f}
                /\ job' = [job EXCEPT ![Producer] = [NoJob EXCEPT !.file = f]]
  <1> DEFINE e == Listing[cwd][at[cwd]]
             Entry == Seen' = Seen \cup ({e} \cap Files) /\ e \notin Seen
             Visits == LeaveWhenKilled \/ SkipDots \/ VisitSubdir \/ VisitFifo \/ VisitFile
  <1>1. ASSUME Visits PROVE Entry
    <2>1. Walking /\ MoreEntries /\ Advance
      BY <1>1 DEF LeaveWhenKilled, SkipDots, VisitSubdir, VisitFifo, VisitFile, NextEntry
    <2>2. cwd \in Dirs /\ at \in [Dirs -> Nat]
      BY <2>1 DEF WalkOK, Walking
    <2> QED
      BY <2>1, <2>2, AdvanceSees
  <1>2. VisitFile => e \in Files /\ job' = [job EXCEPT ![Producer] = [NoJob EXCEPT !.file = e]]
    BY DEF VisitFile, NextEntry
  <1>3. SkipDots \/ VisitSubdir \/ VisitFifo => e \notin Files
    BY TreeAssumption DEF SkipDots, VisitSubdir, VisitFifo, NextEntry
  <1>4. LeaveWhenKilled => KillSignal
    BY DEF LeaveWhenKilled
  <1>5. ASSUME ~Visits PROVE Seen' = Seen
    <2>1. at' = at
      BY <1>5 DEF Next, Consume, Produce, Handle, HandlerStep, Finished, vars, fdCount, buf, walk,
         copy, main, EnterBuffer, SleepOnBuffer, TakeFile, ReadChunk, WriteChunk, ReportFile,
         LoadCount, UncountFds, OpenRoot, CheckFdCount, SleepOnFdCount, CheckKill, OpenFiles,
         OpenFails, CountFds, FindSlot, LastCheckKill, FillSlot, LeaveSubdir, RaiseDone, Interrupt,
         HandlerCloseSource, HandlerClearSlot, HandlerCloseDest, HandlerResetCount, HandlerWake,
         Join, SpuriousWakeup
    <2> QED
      BY <2>1 DEF Seen
  <1> HIDE DEF e
  <1> QED
    BY <1>1, <1>2, <1>3, <1>4, <1>5

-----------------------------------------------------------------------------
(* A file is in one hand or slot, even while the handler empties the slots. *)

\* A slot whose file is still to be taken: it is full, or a consumer has found
\* it full and the handler emptied it before the consumer took the file.
Claimed(i) ==
  \/ Buffer[i].src # -1
  \/ \E c \in Consumers : pc[c] = "c_take" /\ bufIndex[c] = i

\* The files in hands and slots have been seen, and are in one hand or slot.
HandsRight ==
  /\ \A t \in Threads : job[t].file # NoFile => job[t].file \in Seen
  /\ \A i \in Slots : Claimed(i) => Buffer[i].file \in Seen
  /\ \A s, t \in Threads : job[s].file = job[t].file => s = t \/ job[s].file = NoFile
  /\ \A i, j \in Slots : Claimed(i) /\ Claimed(j) /\ Buffer[i].file = Buffer[j].file => i = j
  /\ \A i \in Slots, t \in Threads : Claimed(i) => job[t].file # Buffer[i].file


\* A consumer is about to take a file only from the slot that it found full.
Takers ==
  \A c \in Consumers : pc'[c] = "c_take" =>
    \/ pc[c] = "c_take" /\ bufIndex'[c] = bufIndex[c]
    \/ /\ Mutex_m = NoThread /\ bufIndex'[c] \in Slots
       /\ Buffer[bufIndex'[c]].src # -1 /\ Buffer' = Buffer

\* A consumer comes to TakeFile from a look at the buffer under Mutex_m.
LEMMA TakersStep ==
  ASSUME PcOK, bufIndex \in [Threads -> Slots], [Next]_vars
  PROVE  Takers
  <1> USE ThreadAssumption DEF PcOK, Takers, Goto, GotoAndSignal, Broadcast, Threads, ConsumerPC, ProducerPC,
      AfterReturn, HandlerStep, Walking, NextEntry, fdCount, buf
  <1>1. ASSUME NEW c \in Consumers, EnterBuffer(c) PROVE Takers
    BY <1>1 DEF EnterBuffer, FindFullInBuffer, IsEmpty
  <1>2. ASSUME NEW c \in Consumers, SleepOnBuffer(c, "c_sleep", "c_wait") PROVE Takers
    BY <1>2 DEF SleepOnBuffer
  <1>3. ASSUME NEW c \in Consumers, TakeFile(c) PROVE Takers
    BY <1>3 DEF TakeFile
  <1>4. ASSUME NEW c \in Consumers, ReadChunk(c) PROVE Takers
    BY <1>4 DEF ReadChunk
  <1>5. ASSUME NEW c \in Consumers, WriteChunk(c) PROVE Takers
    BY <1>5 DEF WriteChunk
  <1>6. ASSUME NEW c \in Consumers, ReportFile(c) PROVE Takers
    BY <1>6 DEF ReportFile
  <1>7. ASSUME NEW c \in Consumers, LoadCount(c, "c_count", "c_store") PROVE Takers
    BY <1>7 DEF LoadCount
  <1>8. ASSUME NEW c \in Consumers, UncountFds(c) PROVE Takers
    BY <1>8 DEF UncountFds
  <1>9. CASE OpenRoot
    BY <1>9 DEF OpenRoot
  <1>10. CASE LeaveWhenKilled
    BY <1>10 DEF LeaveWhenKilled
  <1>11. CASE SkipDots
    BY <1>11 DEF SkipDots
  <1>12. CASE VisitSubdir
    BY <1>12 DEF VisitSubdir
  <1>13. CASE VisitFifo
    BY <1>13 DEF VisitFifo
  <1>14. CASE VisitFile
    BY <1>14 DEF VisitFile
  <1>15. CASE CheckFdCount
    BY <1>15 DEF CheckFdCount
  <1>16. CASE SleepOnFdCount
    BY <1>16 DEF SleepOnFdCount
  <1>17. CASE CheckKill
    BY <1>17 DEF CheckKill
  <1>18. CASE OpenFiles
    BY <1>18 DEF OpenFiles
  <1>19. CASE OpenFails
    BY <1>19 DEF OpenFails
  <1>20. CASE LoadCount(Producer, "p_count", "p_store")
    BY <1>20 DEF LoadCount
  <1>21. CASE CountFds
    BY <1>21 DEF CountFds
  <1>22. CASE FindSlot
    BY <1>22 DEF FindSlot
  <1>23. CASE SleepOnBuffer(Producer, "p_sleep", "p_wait")
    BY <1>23 DEF SleepOnBuffer
  <1>24. CASE LastCheckKill
    BY <1>24 DEF LastCheckKill
  <1>25. CASE FillSlot
    BY <1>25 DEF FillSlot
  <1>26. CASE LeaveSubdir
    BY <1>26 DEF LeaveSubdir
  <1>27. CASE RaiseDone
    BY <1>27 DEF RaiseDone
  <1>28. CASE Interrupt
    BY <1>28 DEF Interrupt
  <1>29. CASE HandlerCloseSource
    BY <1>29 DEF HandlerCloseSource
  <1>30. CASE HandlerClearSlot
    BY <1>30 DEF HandlerClearSlot
  <1>31. CASE HandlerCloseDest
    BY <1>31 DEF HandlerCloseDest
  <1>32. CASE HandlerResetCount
    BY <1>32 DEF HandlerResetCount
  <1>33. CASE HandlerWake
    BY <1>33 DEF HandlerWake
  <1>34. CASE Join
    BY <1>34 DEF Join
  <1>35. ASSUME NEW t \in Threads, SpuriousWakeup(t) PROVE Takers
    BY <1>35 DEF SpuriousWakeup
  <1>36. CASE Finished
    BY <1>36 DEF Finished, vars
  <1>37. CASE UNCHANGED vars
    BY <1>37 DEF vars
  <1> HIDE DEF PcOK, Takers, Goto, GotoAndSignal, Broadcast, Threads, ConsumerPC, ProducerPC,
      AfterReturn, HandlerStep, Walking, NextEntry, fdCount, buf
  <1> QED
    BY <1>1, <1>2, <1>3, <1>4, <1>5, <1>6, <1>7, <1>8, <1>9, <1>10, <1>11, <1>12, <1>13, <1>14, <1>15, <1>16,
       <1>17, <1>18, <1>19, <1>20, <1>21, <1>22, <1>23, <1>24, <1>25, <1>26, <1>27, <1>28, <1>29, <1>30, <1>31,
       <1>32, <1>33, <1>34, <1>35, <1>36, <1>37 DEF Next, Consume, Produce, Handle

\* Only these steps touch the buffer.
LEMMA BufferFrame ==
  ASSUME [Next]_vars
  PROVE  (\E c \in Consumers : TakeFile(c)) \/ FillSlot \/ HandlerClearSlot \/ Buffer' = Buffer
  BY DEF Next, Consume, Produce, Handle, HandlerStep, Finished, vars, fdCount, buf, EnterBuffer,
     SleepOnBuffer, ReadChunk, WriteChunk, ReportFile, LoadCount, UncountFds, OpenRoot,
     LeaveWhenKilled, SkipDots, VisitSubdir, VisitFifo, VisitFile, CheckFdCount, SleepOnFdCount,
     CheckKill, OpenFiles, OpenFails, CountFds, FindSlot, LastCheckKill, LeaveSubdir, RaiseDone,
     Interrupt, HandlerCloseSource, HandlerCloseDest, HandlerResetCount, HandlerWake, Join,
     SpuriousWakeup

\* TakeFile and the handler empty a slot and leave its file name.
Emptied ==
  \A i \in Slots :
    Buffer'[i].file = Buffer[i].file /\ (Buffer'[i].src # -1 => Buffer'[i] = Buffer[i])

\* Every step but FillSlot leaves the slots as they are or empties them.
LEMMA BufferStep ==
  ASSUME Buffer \in [Slots -> Jobs], [Next]_vars, ~FillSlot
  PROVE  Emptied
  <1>1. ASSUME NEW c \in Consumers, TakeFile(c) PROVE Emptied
    BY <1>1 DEF TakeFile, EmptySlot, Jobs, Emptied
  <1>2. CASE HandlerClearSlot
    BY <1>2 DEF HandlerClearSlot, Jobs, Emptied
  <1>3. CASE Buffer' = Buffer
    BY <1>3 DEF Emptied
  <1> QED
    BY <1>1, <1>2, <1>3, BufferFrame

\* A slot is claimed only by FillSlot, and released by TakeFile.
LEMMA ClaimStep ==
  ASSUME PcOK, JobOK, MutexRight, [Next]_vars, ~FillSlot
  PROVE  /\ \A i \in Slots : Claimed(i)' => Claimed(i) /\ Buffer'[i].file = Buffer[i].file
         /\ \A c \in Consumers, i \in Slots : TakeFile(c) /\ i = bufIndex[c] => ~Claimed(i)'
  <1>0. Buffer \in [Slots -> Jobs] /\ bufIndex \in [Threads -> Slots]
    BY DEF JobOK
  <1>1. Takers
    BY <1>0, TakersStep
  <1>2. Emptied
    BY <1>0, BufferStep
  <1> USE ThreadAssumption DEF PcOK, JobOK
  <1>3. ASSUME NEW c \in Consumers, NEW i \in Slots, TakeFile(c), i = bufIndex[c]
        PROVE  ~Claimed(i)'
    <2>1. /\ pc[c] = "c_take" /\ pc'[c] # "c_take" /\ bufIndex' = bufIndex
          /\ Buffer' = [Buffer EXCEPT ![bufIndex[c]].src = -1]
      BY <1>3 DEF TakeFile, EmptySlot, GotoAndSignal, Goto, Threads, ConsumerPC, ProducerPC
    <2>2. Mutex_m = c /\ c # NoThread /\ \A b \in Consumers \ {c} : pc[b] # "c_take"
      BY <2>1 DEF MutexRight, HoldsBuffer, Threads
    <2>3. \A b \in Consumers : pc'[b] # "c_take"
      BY <1>1, <2>1, <2>2 DEF Takers
    <2>4. Buffer'[i].src = -1
      BY <1>3, <2>1 DEF Jobs, Threads
    <2> QED
      BY <2>3, <2>4 DEF Claimed
  <1> HIDE DEF PcOK, JobOK
  <1>4. ASSUME NEW i \in Slots, Claimed(i)' PROVE Claimed(i) /\ Buffer'[i].file = Buffer[i].file
    <2>1. Buffer'[i].file = Buffer[i].file /\ (Buffer'[i].src # -1 => Buffer'[i] = Buffer[i])
      BY <1>2 DEF Emptied
    <2>2. CASE Buffer'[i].src # -1
      BY <2>1, <2>2 DEF Claimed
    <2>3. ASSUME NEW c \in Consumers, pc'[c] = "c_take", bufIndex'[c] = i PROVE Claimed(i)
      BY <1>1, <2>3 DEF Takers, Claimed
    <2> QED
      BY <1>4, <2>1, <2>2, <2>3 DEF Claimed
  <1> QED
    BY <1>3, <1>4

\* Files do not change hands when claims and jobs are only given up.
LEMMA HandsKept ==
  ASSUME HandsRight, Seen \subseteq Seen',
         \A i \in Slots : Claimed(i)' => Claimed(i) /\ Buffer'[i].file = Buffer[i].file,
         \A t \in Threads : job'[t].file \in {job[t].file, NoFile}, NoFile \notin Seen
  PROVE  HandsRight'
  BY DEF HandsRight

\* Only these steps change what the threads have.
LEMMA JobFrame ==
  ASSUME [Next]_vars
  PROVE  \/ \E c \in Consumers : TakeFile(c) \/ ReadChunk(c) \/ ReportFile(c)
         \/ VisitFile \/ CheckKill \/ OpenFiles \/ OpenFails \/ LastCheckKill \/ FillSlot
         \/ job' = job
  BY DEF Next, Consume, Produce, Handle, HandlerStep, Finished, vars, fdCount, buf, EnterBuffer,
     SleepOnBuffer, WriteChunk, LoadCount, UncountFds, OpenRoot, LeaveWhenKilled, SkipDots,
     VisitSubdir, VisitFifo, CheckFdCount, SleepOnFdCount, CountFds, FindSlot, LeaveSubdir,
     RaiseDone, Interrupt, HandlerCloseSource, HandlerClearSlot, HandlerCloseDest,
     HandlerResetCount, HandlerWake, Join, SpuriousWakeup

\* A thread gets another file from TakeFile and VisitFile only.
Released == \A t \in Threads : job'[t].file \in {job[t].file, NoFile}

\* Every other step leaves the file a thread has or drops it.
LEMMA JobReleased ==
  ASSUME job \in [Threads -> Jobs], [Next]_vars, ~VisitFile, \A c \in Consumers : ~TakeFile(c)
  PROVE  Released
  <1> USE DEF Released, NoJob, Threads
  <1>1. ASSUME NEW c \in Consumers, ReadChunk(c) PROVE Released
    BY <1>1 DEF ReadChunk
  <1>2. ASSUME NEW c \in Consumers, ReportFile(c) PROVE Released
    BY <1>2 DEF ReportFile
  <1>3. CASE CheckKill
    BY <1>3 DEF CheckKill
  <1>4. CASE OpenFiles
    BY <1>4 DEF OpenFiles
  <1>5. CASE OpenFails
    BY <1>5 DEF OpenFails
  <1>6. CASE LastCheckKill
    BY <1>6 DEF LastCheckKill
  <1>7. CASE FillSlot
    BY <1>7 DEF FillSlot
  <1>8. CASE job' = job
    BY <1>8
  <1> HIDE DEF Released
  <1> QED
    BY <1>1, <1>2, <1>3, <1>4, <1>5, <1>6, <1>7, <1>8, JobFrame

\* The steps move each file from hand to slot and from slot to hand.
LEMMA HandsStep ==
  ASSUME PcOK, JobOK, WalkOK, HasFile, MutexRight, HandsRight, [Next]_vars
  PROVE  HandsRight'
  <1>0. Buffer \in [Slots -> Jobs] /\ job \in [Threads -> Jobs] /\ bufIndex \in [Threads -> Slots]
    BY DEF JobOK
  <1>1. Seen \subseteq Seen' /\ NoFile \notin Seen
    BY SeenStep, TreeAssumption DEF Seen
  <1>2. ASSUME ~FillSlot, ~VisitFile, \A c \in Consumers : ~TakeFile(c) PROVE HandsRight'
    BY <1>0, <1>1, <1>2, ClaimStep, JobReleased, HandsKept DEF Released
  <1>3. CASE VisitFile
    <2>1. PICK f \in Files : /\ f \notin Seen /\ Seen' = Seen \cup {f}
                            /\ job' = [job EXCEPT ![Producer] = [NoJob EXCEPT !.file = f]]
      BY <1>3, SeenStep
    <2>2. job'[Producer].file = f /\ \A t \in Threads \ {Producer} : job'[t] = job[t]
      BY <1>0, <2>1 DEF NoJob, Threads
    <2>3. \A i \in Slots : Claimed(i)' => Claimed(i) /\ Buffer'[i].file = Buffer[i].file
      <3>1. ~FillSlot
        BY <1>3 DEF VisitFile, NextEntry, Walking, FillSlot
      <3> QED
        BY <3>1, ClaimStep
    <2> QED
      BY <1>1, <2>1, <2>2, <2>3 DEF HandsRight
  <1>4. ASSUME NEW c \in Consumers, TakeFile(c) PROVE HandsRight'
    <2>k. PICK k \in Slots : k = bufIndex[c]
      BY <1>0 DEF Threads
    <2>1. Claimed(k) /\ pc[c] = "c_take"
      BY <1>4, <2>k DEF TakeFile, Claimed
    <2>2. job'[c].file = Buffer[k].file /\ \A t \in Threads \ {c} : job'[t] = job[t]
      BY <1>0, <1>4, <2>k DEF TakeFile, Threads
    <2>3. ~FillSlot
      BY <1>4, <2>1, ThreadAssumption DEF FillSlot, MutexRight, HoldsBuffer, Threads
    <2>4. ~Claimed(k)' /\ \A i \in Slots : Claimed(i)' => Claimed(i) /\ Buffer'[i].file = Buffer[i].file
      BY <1>4, <2>k, <2>3, ClaimStep
    <2> QED
      BY <1>1, <2>1, <2>2, <2>4 DEF HandsRight
  <1>5. CASE FillSlot
    <2>k. PICK k \in Slots, f \in Files : k = bufIndex[Producer] /\ f = job[Producer].file
      BY <1>0, <1>5 DEF FillSlot, HasFile, ProducerPC, Threads
    <2>1. /\ Buffer' = [Buffer EXCEPT ![k] = job[Producer]]
          /\ job' = [job EXCEPT ![Producer] = NoJob] /\ pc[Producer] = "p_fill"
      BY <1>5, <2>k DEF FillSlot, Filled
    <2>2. /\ Buffer'[k].file = f /\ \A i \in Slots \ {k} : Buffer'[i] = Buffer[i]
          /\ job'[Producer].file = NoFile /\ \A t \in Threads \ {Producer} : job'[t] = job[t]
      BY <1>0, <2>k, <2>1 DEF NoJob, Threads
    <2>3. \A c \in Consumers : pc[c] # "c_take"
      BY <2>1, ThreadAssumption DEF MutexRight, HoldsBuffer, Threads
    <2>4. \A c \in Consumers : pc'[c] # "c_take"
      BY <1>0, <2>3, TakersStep, <2>1, ThreadAssumption DEF Takers, MutexRight, HoldsBuffer, Threads
    <2>5. \A i \in Slots \ {k} : Claimed(i)' => Claimed(i)
      BY <2>2, <2>4 DEF Claimed
    <2>6. f # NoFile /\ f \in Seen /\ Producer \in Threads
      BY <1>1, <2>k, TreeAssumption DEF HandsRight, Threads
    <2>7. /\ \A t \in Threads : job[t].file = f => t = Producer
          /\ \A i \in Slots : Claimed(i) => Buffer[i].file # f
      BY <2>k, <2>6 DEF HandsRight
    <2> QED
      BY <1>1, <2>2, <2>5, <2>6, <2>7 DEF HandsRight
  <1> QED
    BY <1>2, <1>3, <1>4, <1>5

\* Both hold in every reachable state.
LEMMA HandsHold == Spec => [](MutexRight /\ HandsRight)
  <1> DEFINE Inv == MutexRight /\ HandsRight
  <1>1. Init => Inv
    <2> SUFFICES ASSUME Init PROVE Inv
      OBVIOUS
    <2>1. MutexRight
      BY ThreadAssumption DEF Init, MutexRight, HoldsBuffer, HoldsCount, Threads
    <2>2. HandsRight
      BY DEF Init, HandsRight, Claimed, NoJob, Threads
    <2> QED
      BY <2>1, <2>2
  <1>2. TypeOK /\ Inv /\ [Next]_vars => Inv'
    BY MutexStep, HandsStep DEF TypeOK
  <1> QED
    BY <1>1, <1>2, TypeCorrect, PTL DEF Spec

\* However the handler interferes, a file is worked on by one thread at most
\* (the consumers' critical section, 83-100).
THEOREM FilesInOneHand == Spec => []NoFileTwice
  <1>1. MutexRight /\ HandsRight => NoFileTwice
    BY TreeAssumption DEF HandsRight, NoFileTwice, InSlot, Claimed
  <1> QED
    BY <1>1, HandsHold, PTL

-----------------------------------------------------------------------------
(* The consumers' way out. *)

\* The producer leaves when it is done, and nobody fills a slot after it.
QuitRight ==
  /\ QuitOnlyWhenDone
  /\ Done => pc[Producer] = "exit"

\* A consumer past its last look at the buffer has seen Done or KillSignal, and
\* neither is taken back (myfunctions.h 84-94).
LEMMA QuitStep ==
  ASSUME PcOK, QuitRight, Done \in BOOLEAN, KillSignal \in BOOLEAN, Buffer \in [Slots -> Jobs], [Next]_vars
  PROVE  QuitRight'
  <1> USE ThreadAssumption DEF PcOK, QuitRight, QuitOnlyWhenDone, IsEmpty, EmptySlot, Filled, MayQuit, Jobs,
         Goto, GotoAndSignal, Broadcast, Threads, ConsumerPC,
      ProducerPC, AfterReturn, HandlerStep, Walking, NextEntry, fdCount, buf, main
  <1>1. ASSUME NEW c \in Consumers, EnterBuffer(c) PROVE QuitRight'
    BY <1>1 DEF EnterBuffer
  <1>2. ASSUME NEW c \in Consumers, SleepOnBuffer(c, "c_sleep", "c_wait") PROVE QuitRight'
    BY <1>2 DEF SleepOnBuffer
  <1>3. ASSUME NEW c \in Consumers, TakeFile(c) PROVE QuitRight'
    BY <1>3 DEF TakeFile
  <1>4. ASSUME NEW c \in Consumers, ReadChunk(c) PROVE QuitRight'
    BY <1>4 DEF ReadChunk
  <1>5. ASSUME NEW c \in Consumers, WriteChunk(c) PROVE QuitRight'
    BY <1>5 DEF WriteChunk
  <1>6. ASSUME NEW c \in Consumers, ReportFile(c) PROVE QuitRight'
    BY <1>6 DEF ReportFile
  <1>7. ASSUME NEW c \in Consumers, LoadCount(c, "c_count", "c_store") PROVE QuitRight'
    BY <1>7 DEF LoadCount
  <1>8. ASSUME NEW c \in Consumers, UncountFds(c) PROVE QuitRight'
    BY <1>8 DEF UncountFds
  <1>9. CASE OpenRoot
    BY <1>9 DEF OpenRoot
  <1>10. CASE LeaveWhenKilled
    BY <1>10 DEF LeaveWhenKilled
  <1>11. CASE SkipDots
    BY <1>11 DEF SkipDots
  <1>12. CASE VisitSubdir
    BY <1>12 DEF VisitSubdir
  <1>13. CASE VisitFifo
    BY <1>13 DEF VisitFifo
  <1>14. CASE VisitFile
    BY <1>14 DEF VisitFile
  <1>15. CASE CheckFdCount
    BY <1>15 DEF CheckFdCount
  <1>16. CASE SleepOnFdCount
    BY <1>16 DEF SleepOnFdCount
  <1>17. CASE CheckKill
    BY <1>17 DEF CheckKill
  <1>18. CASE OpenFiles
    BY <1>18 DEF OpenFiles
  <1>19. CASE OpenFails
    BY <1>19 DEF OpenFails
  <1>20. CASE LoadCount(Producer, "p_count", "p_store")
    BY <1>20 DEF LoadCount
  <1>21. CASE CountFds
    BY <1>21 DEF CountFds
  <1>22. CASE FindSlot
    BY <1>22 DEF FindSlot
  <1>23. CASE SleepOnBuffer(Producer, "p_sleep", "p_wait")
    BY <1>23 DEF SleepOnBuffer
  <1>24. CASE LastCheckKill
    BY <1>24 DEF LastCheckKill
  <1>25. CASE FillSlot
    BY <1>25 DEF FillSlot
  <1>26. CASE LeaveSubdir
    BY <1>26 DEF LeaveSubdir
  <1>27. CASE RaiseDone
    BY <1>27 DEF RaiseDone
  <1>28. CASE Interrupt
    BY <1>28 DEF Interrupt
  <1>29. CASE HandlerCloseSource
    BY <1>29 DEF HandlerCloseSource
  <1>30. CASE HandlerClearSlot
    BY <1>30 DEF HandlerClearSlot
  <1>31. CASE HandlerCloseDest
    BY <1>31 DEF HandlerCloseDest
  <1>32. CASE HandlerResetCount
    BY <1>32 DEF HandlerResetCount
  <1>33. CASE HandlerWake
    BY <1>33 DEF HandlerWake
  <1>34. CASE Join
    BY <1>34 DEF Join
  <1>35. ASSUME NEW t \in Threads, SpuriousWakeup(t) PROVE QuitRight'
    BY <1>35 DEF SpuriousWakeup
  <1>36. CASE Finished
    BY <1>36 DEF Finished, vars
  <1>37. CASE UNCHANGED vars
    BY <1>37 DEF vars
  <1> HIDE DEF PcOK, QuitRight, QuitOnlyWhenDone, IsEmpty, EmptySlot, Filled, MayQuit, Jobs, Goto,
         GotoAndSignal, Broadcast, Threads, ConsumerPC,
      ProducerPC, AfterReturn, HandlerStep, Walking, NextEntry, fdCount, buf, main
  <1> QED
    BY <1>1, <1>2, <1>3, <1>4, <1>5, <1>6, <1>7, <1>8, <1>9, <1>10, <1>11, <1>12, <1>13, <1>14, <1>15, <1>16,
       <1>17, <1>18, <1>19, <1>20, <1>21, <1>22, <1>23, <1>24, <1>25, <1>26, <1>27, <1>28, <1>29, <1>30, <1>31,
       <1>32, <1>33, <1>34, <1>35, <1>36, <1>37 DEF Next, Consume, Produce, Handle

\* Without an interrupt a consumer leaves only when the producer is done and
\* the buffer is empty for good (startConsumerThread 84-93).
THEOREM NobodyQuitsEarly == Spec => []QuitOnlyWhenDone
  <1>1. Init => QuitRight
    BY ThreadAssumption DEF Init, QuitRight, QuitOnlyWhenDone, Threads
  <1>2. TypeOK /\ QuitRight /\ [Next]_vars => QuitRight'
    BY QuitStep DEF TypeOK, FlagsOK, JobOK
  <1>3. QuitRight => QuitOnlyWhenDone
    BY DEF QuitRight
  <1> QED
    BY <1>1, <1>2, <1>3, TypeCorrect, PTL DEF Spec

-----------------------------------------------------------------------------
(* Without an interrupt: who has a file, and which descriptors are open.   *)

\* The handler runs only after the interrupt.
IdleRight == ~KillSignal => hpc = "idle"

\* A step of a program that is not interrupted.
CalmNext ==
  \/ \E c \in Consumers : Consume(c)
  \/ Produce \/ Join
  \/ \E t \in Threads : SpuriousWakeup(t)
  \/ Finished \/ UNCHANGED vars

\* Before SIGINT the handler's thread idles: each step is one of the copier.
LEMMA CalmStep ==
  ASSUME IdleRight, [Next]_vars
  PROVE  IdleRight' /\ (~KillSignal' => ~KillSignal /\ CalmNext)
  <1>1. KillSignal' = KillSignal \/ KillSignal'
    BY DEF Next, Consume, Produce, Handle, HandlerStep, Finished, vars, fdCount, buf, walk, copy, main,
       EnterBuffer, SleepOnBuffer, TakeFile, ReadChunk, WriteChunk, ReportFile, LoadCount, UncountFds,
       OpenRoot, LeaveWhenKilled, SkipDots, VisitSubdir, VisitFifo, VisitFile, CheckFdCount,
       SleepOnFdCount, CheckKill, OpenFiles, OpenFails, CountFds, FindSlot, LastCheckKill, FillSlot,
       LeaveSubdir, RaiseDone, Interrupt, HandlerCloseSource, HandlerClearSlot, HandlerCloseDest,
       HandlerResetCount, HandlerWake, Join, SpuriousWakeup
  <1>2. Handle => hpc # "idle"
    BY DEF Handle, HandlerStep, HandlerCloseSource, HandlerClearSlot, HandlerCloseDest,
       HandlerResetCount, HandlerWake
  <1>3. Interrupt => KillSignal'
    BY DEF Interrupt
  <1>4. CalmNext => hpc' = hpc
    BY DEF CalmNext, Consume, Produce, Finished, vars, main,
       EnterBuffer, SleepOnBuffer, TakeFile, ReadChunk, WriteChunk, ReportFile, LoadCount, UncountFds,
       OpenRoot, LeaveWhenKilled, SkipDots, VisitSubdir, VisitFifo, VisitFile, CheckFdCount,
       SleepOnFdCount, CheckKill, OpenFiles, OpenFails, CountFds, FindSlot, LastCheckKill, FillSlot,
       LeaveSubdir, RaiseDone, Join, SpuriousWakeup
  <1> QED
    BY <1>1, <1>2, <1>3, <1>4 DEF IdleRight, Next, CalmNext

NoFilePCs == {"p_start", "p_next", "exit"}
UnopenedPCs == {"p_fdLock", "p_fdSleep", "p_fdWait", "p_check", "p_open"}
OpenedPCs == {"p_count", "p_store", "p_lock", "p_sleep", "p_wait", "p_kill", "p_fill"}

\* Who has a file, who has it open, and which slot is full.
PlaceRight ==
  /\ \A c \in Consumers :
       /\ pc[c] \in {"c_read", "c_write"} => job[c].src # -1 /\ job[c].file \in Files
       /\ pc[c] \notin {"c_read", "c_write"} => job[c] = NoJob
       /\ pc[c] = "c_take" => Buffer[bufIndex[c]].src # -1
  /\ pc[Producer] \in OpenedPCs => job[Producer].src # -1
  /\ pc[Producer] \in UnopenedPCs => job[Producer].src = -1
  /\ pc[Producer] \in NoFilePCs => job[Producer] = NoJob
  /\ pc[Producer] \in {"p_kill", "p_fill"} => Buffer[bufIndex[Producer]].src = -1
  /\ \A i \in Slots : Buffer[i].src # -1 => Buffer[i].file \in Files

\* Before SIGINT, where a thread is says what it has in hand: the slot or the
\* job is filled before the step that uses it.
LEMMA PlaceStep ==
  ASSUME PcOK, JobOK, HasFile, MutexRight, PlaceRight, ~KillSignal, CalmNext
  PROVE  PlaceRight'
  <1> USE ThreadAssumption, TreeAssumption DEF PcOK, MutexRight, HoldsBuffer, PlaceRight, JobOK, HasFile,
         IsEmpty, FindFullInBuffer, FindEmptyInBuffer, EmptySlot, Filled, NoJob, Goto, GotoAndSignal,
      Broadcast, Threads, ConsumerPC, ProducerPC, AfterReturn, Walking, NextEntry, fdCount, buf,
      NoFilePCs, UnopenedPCs, OpenedPCs
  <1>1. ASSUME NEW c \in Consumers, EnterBuffer(c) PROVE PlaceRight'
    BY <1>1 DEF EnterBuffer
  <1>2. ASSUME NEW c \in Consumers, SleepOnBuffer(c, "c_sleep", "c_wait") PROVE PlaceRight'
    BY <1>2 DEF SleepOnBuffer
  <1>3. ASSUME NEW c \in Consumers, TakeFile(c) PROVE PlaceRight'
    BY <1>3 DEF TakeFile
  <1>4. ASSUME NEW c \in Consumers, ReadChunk(c) PROVE PlaceRight'
    BY <1>4 DEF ReadChunk
  <1>5. ASSUME NEW c \in Consumers, WriteChunk(c) PROVE PlaceRight'
    BY <1>5 DEF WriteChunk
  <1>6. ASSUME NEW c \in Consumers, ReportFile(c) PROVE PlaceRight'
    BY <1>6 DEF ReportFile
  <1>7. ASSUME NEW c \in Consumers, LoadCount(c, "c_count", "c_store") PROVE PlaceRight'
    BY <1>7 DEF LoadCount
  <1>8. ASSUME NEW c \in Consumers, UncountFds(c) PROVE PlaceRight'
    BY <1>8, SMTT(30) DEF UncountFds
  <1>9. CASE OpenRoot
    BY <1>9 DEF OpenRoot
  <1>10. CASE LeaveWhenKilled
    BY <1>10 DEF LeaveWhenKilled
  <1>11. CASE SkipDots
    BY <1>11 DEF SkipDots
  <1>12. CASE VisitSubdir
    BY <1>12 DEF VisitSubdir
  <1>13. CASE VisitFifo
    BY <1>13 DEF VisitFifo
  <1>14. CASE VisitFile
    BY <1>14 DEF VisitFile
  <1>15. CASE CheckFdCount
    BY <1>15 DEF CheckFdCount
  <1>16. CASE SleepOnFdCount
    BY <1>16 DEF SleepOnFdCount
  <1>17. CASE CheckKill
    BY <1>17 DEF CheckKill
  <1>18. CASE OpenFiles
    <2>1. PICK s, d \in Fds :
            job' = [job EXCEPT ![Producer] = [file |-> job[Producer].file, src |-> s, dst |-> d]]
      BY <1>18 DEF OpenFiles
    <2>2. s # -1 /\ job'[Producer].src = s /\ \A c \in Consumers : job'[c] = job[c]
      BY <2>1, SizeAssumption DEF Fds
    <2>3. UNCHANGED <<Buffer, bufIndex>> /\ pc' = [pc EXCEPT ![Producer] = "p_count"]
      BY <1>18 DEF OpenFiles
    <2> QED
      BY <2>2, <2>3
  <1>19. CASE OpenFails
    BY <1>19 DEF OpenFails
  <1>20. CASE LoadCount(Producer, "p_count", "p_store")
    BY <1>20 DEF LoadCount
  <1>21. CASE CountFds
    BY <1>21 DEF CountFds
  <1>22. CASE FindSlot
    BY <1>22 DEF FindSlot
  <1>23. CASE SleepOnBuffer(Producer, "p_sleep", "p_wait")
    BY <1>23 DEF SleepOnBuffer
  <1>24. CASE LastCheckKill
    BY <1>24 DEF LastCheckKill
  <1>25. CASE FillSlot
    BY <1>25 DEF FillSlot
  <1>26. CASE LeaveSubdir
    BY <1>26 DEF LeaveSubdir
  <1>27. CASE RaiseDone
    BY <1>27 DEF RaiseDone
  <1>28. CASE Join
    BY <1>28 DEF Join
  <1>29. ASSUME NEW t \in Threads, SpuriousWakeup(t) PROVE PlaceRight'
    BY <1>29 DEF SpuriousWakeup
  <1>30. CASE Finished
    BY <1>30 DEF Finished, vars
  <1>31. CASE UNCHANGED vars
    BY <1>31 DEF vars
  <1> HIDE DEF PcOK, MutexRight, HoldsBuffer, PlaceRight, JobOK, HasFile, IsEmpty, FindFullInBuffer,
         FindEmptyInBuffer, EmptySlot, Filled, NoJob, Goto, GotoAndSignal,
      Broadcast, Threads, ConsumerPC, ProducerPC, AfterReturn, Walking, NextEntry, fdCount, buf,
      NoFilePCs, UnopenedPCs, OpenedPCs
  <1> QED
    BY <1>1, <1>2, <1>3, <1>4, <1>5, <1>6, <1>7, <1>8, <1>9, <1>10, <1>11, <1>12, <1>13, <1>14, <1>15, <1>16,
       <1>17, <1>18, <1>19, <1>20, <1>21, <1>22, <1>23, <1>24, <1>25, <1>26, <1>27, <1>28, <1>29, <1>30, <1>31
       DEF CalmNext, Consume, Produce

Owned(j) ==
  /\ j.src \in Fds /\ fdt[j.src].file = j.file /\ fdt[j.src].mode = "r"
  /\ j.dst \in Fds /\ fdt[j.dst].file = j.file /\ fdt[j.dst].mode = "w"

Used(j, fd) == j.src # -1 /\ fd \in {j.src, j.dst}

\* DescriptorsOwned, thread by thread and slot by slot.
OwnedRight ==
  /\ \A t \in Threads : job[t].src # -1 => Owned(job[t])
  /\ \A i \in Slots : Buffer[i].src # -1 => Owned(Buffer[i])
  /\ \A fd \in Fds : fdt[fd] # Closed =>
       (\E t \in Threads : Used(job[t], fd)) \/ (\E i \in Slots : Used(Buffer[i], fd))

\* Without an interrupt only these steps change a job, a slot or a descriptor.
LEMMA CalmFrame ==
  ASSUME CalmNext, ~KillSignal
  PROVE  \/ \E c \in Consumers : TakeFile(c) \/ ReadChunk(c) \/ ReportFile(c)
         \/ VisitFile \/ OpenFiles \/ OpenFails \/ FillSlot
         \/ UNCHANGED <<job, Buffer, fdt>>
  BY DEF CalmNext, Consume, Produce, Finished, vars, fdCount, buf, copy, EnterBuffer,
     SleepOnBuffer, WriteChunk, LoadCount, UncountFds, OpenRoot, LeaveWhenKilled, SkipDots,
     VisitSubdir, VisitFifo, CheckFdCount, SleepOnFdCount, CheckKill, CountFds, FindSlot,
     LastCheckKill, LeaveSubdir, RaiseDone, Join, SpuriousWakeup

\* What a file in somebody's hands has open is closed by nobody else.
LEMMA OwnedStep ==
  ASSUME PcOK, JobOK, FdsOK, HasFile, HandsRight, PlaceRight, OwnedRight, ~KillSignal, CalmNext
  PROVE  OwnedRight'
  <1>0. Buffer \in [Slots -> Jobs] /\ job \in [Threads -> Jobs] /\ bufIndex \in [Threads -> Slots]
        /\ fdt \in [Fds -> OpenFile]
    BY DEF JobOK, FdsOK
  <1> USE DEF OwnedRight, Owned, Used
  <1>1. ASSUME NEW c \in Consumers, TakeFile(c) PROVE OwnedRight'
    <2>1. PICK k \in Slots : k = bufIndex[c]
      BY <1>0 DEF Threads
    <2>2. Buffer[k].src # -1 /\ job[c].src = -1
      BY <1>1, <2>1 DEF PlaceRight, TakeFile, NoJob
    <2>3. /\ job'[c] = Buffer[k] /\ \A t \in Threads \ {c} : job'[t] = job[t]
          /\ Buffer'[k].src = -1 /\ \A i \in Slots \ {k} : Buffer'[i] = Buffer[i]
          /\ fdt' = fdt /\ c \in Threads
      BY <1>0, <1>1, <2>1 DEF TakeFile, EmptySlot, Threads, Jobs, copy
    <2> QED
      BY <2>2, <2>3
  <1>2. ASSUME NEW c \in Consumers, ReadChunk(c) PROVE OwnedRight'
    <2>1. PICK s \in Fds : s = job[c].src
      BY <1>2 DEF ReadChunk, Readable
    <2>2. /\ fdt'[s].file = fdt[s].file /\ fdt'[s].mode = fdt[s].mode
          /\ \A fd \in Fds \ {s} : fdt'[fd] = fdt[fd]
          /\ UNCHANGED <<job, Buffer>>
      BY <1>0, <1>2, <2>1 DEF ReadChunk, buf, OpenFile
    <2>3. fdt[s] # Closed
      BY <1>2, <2>1 DEF ReadChunk, Readable, Closed
    <2> QED
      BY <2>1, <2>2, <2>3
  <1>3. ASSUME NEW c \in Consumers, ReportFile(c) PROVE OwnedRight'
    <2>1. PICK s \in Fds, d \in Fds : s = job[c].src /\ d = job[c].dst
      BY <1>3 DEF ReportFile, PlaceRight, Threads
    <2>2. /\ job'[c].src = -1 /\ \A t \in Threads \ {c} : job'[t] = job[t]
          /\ Buffer' = Buffer /\ c \in Threads
          /\ \A fd \in Fds : fdt'[fd] = IF fd \in {s, d} THEN Closed ELSE fdt[fd]
      BY <1>0, <1>3, <2>1 DEF ReportFile, NoJob, Threads, buf, CloseBoth, CloseFds
    <2>3. fdt[s].file = job[c].file /\ fdt[d].file = job[c].file /\ job[c].file # NoFile
      BY <1>3, <2>1, TreeAssumption DEF ReportFile, PlaceRight, Threads
    <2>4. /\ \A t \in Threads \ {c} : job[t].file # job[c].file
          /\ \A i \in Slots : Buffer[i].src # -1 => Buffer[i].file # job[c].file
      BY <2>2, <2>3 DEF HandsRight, Claimed
    <2> QED
      BY <2>1, <2>2, <2>3, <2>4
  <1>4. CASE VisitFile
    <2>1. job[Producer].src = -1 /\ UNCHANGED <<Buffer, fdt>>
      BY <1>4 DEF VisitFile, NextEntry, Walking, PlaceRight, NoFilePCs, NoJob, buf, copy
    <2>2. job'[Producer].src = -1 /\ \A t \in Threads \ {Producer} : job'[t] = job[t]
      BY <1>0, <1>4 DEF VisitFile, NoJob, Threads
    <2> QED
      BY <2>1, <2>2
  <1>5. CASE OpenFiles
    <2>1. PICK f \in Files, s \in Fds, d \in Fds :
            /\ LowestFree(s, d)
            /\ job' = [job EXCEPT ![Producer] = [file |-> f, src |-> s, dst |-> d]]
            /\ fdt' = [fdt EXCEPT ![s] = [file |-> f, mode |-> "r", pos |-> 0],
                                  ![d] = [file |-> f, mode |-> "w", pos |-> 0]]
            /\ Buffer' = Buffer
      BY <1>5 DEF OpenFiles, HasFile, ProducerPC, buf
    <2>2. s # d /\ fdt[s] = Closed /\ fdt[d] = Closed
      <3>1. s # d
        BY <2>1, SizeAssumption DEF LowestFree, Fds
      <3> QED
        BY <2>1, <3>1 DEF LowestFree
    <2>3. /\ fdt'[s].file = f /\ fdt'[s].mode = "r" /\ fdt'[d].file = f /\ fdt'[d].mode = "w"
          /\ \A fd \in Fds \ {s, d} : fdt'[fd] = fdt[fd]
      BY <1>0, <2>1, <2>2
    <2>4. /\ job'[Producer].src = s /\ job'[Producer].dst = d /\ job'[Producer].file = f
          /\ s # -1 /\ job[Producer].src = -1
          /\ Producer \in Threads /\ \A t \in Threads \ {Producer} : job'[t] = job[t]
      BY <1>0, <1>5, <2>1, SizeAssumption DEF OpenFiles, PlaceRight, UnopenedPCs, Threads, Fds
    <2>5. Closed.mode = "none"
      BY DEF Closed
    <2>6. \A j : j.src # -1 /\ Owned(j) => Owned(j)'
      BY <2>2, <2>3, <2>5
    <2>7. \A t \in Threads : job'[t].src # -1 => Owned(job[t])'
      BY <2>3, <2>4, <2>6
    <2>8. \A i \in Slots : Buffer'[i].src # -1 => Owned(Buffer[i])'
      BY <2>1, <2>6
    <2>9. ASSUME NEW fd \in Fds, fdt'[fd] # Closed
          PROVE  (\E t \in Threads : Used(job[t], fd)') \/ (\E i \in Slots : Used(Buffer[i], fd)')
      <3>1. CASE fd \in {s, d}
        BY <2>4, <3>1
      <3>2. CASE fd \notin {s, d}
        BY <2>1, <2>3, <2>4, <2>9, <3>2
      <3> QED
        BY <3>1, <3>2
    <2> QED
      BY <2>7, <2>8, <2>9
  <1>6. CASE OpenFails
    <2>1. job[Producer].src = -1 /\ UNCHANGED <<Buffer, fdt>>
      BY <1>6 DEF OpenFails, PlaceRight, UnopenedPCs, buf, copy
    <2>2. job'[Producer].src = -1 /\ \A t \in Threads \ {Producer} : job'[t] = job[t]
      BY <1>0, <1>6 DEF OpenFails, NoJob, Threads
    <2> QED
      BY <2>1, <2>2
  <1>7. CASE FillSlot
    <2>1. PICK k \in Slots : k = bufIndex[Producer]
      BY <1>0 DEF Threads
    <2>2. job[Producer].src # -1 /\ Buffer[k].src = -1
      BY <1>7, <2>1 DEF PlaceRight, FillSlot, OpenedPCs
    <2>3. /\ Buffer'[k] = job[Producer] /\ \A i \in Slots \ {k} : Buffer'[i] = Buffer[i]
          /\ job'[Producer].src = -1 /\ \A t \in Threads \ {Producer} : job'[t] = job[t]
          /\ fdt' = fdt /\ Producer \in Threads
      BY <1>0, <1>7, <2>1 DEF FillSlot, Filled, NoJob, Threads, copy
    <2> QED
      BY <2>2, <2>3
  <1>8. CASE UNCHANGED <<job, Buffer, fdt>>
    BY <1>8
  <1> HIDE DEF OwnedRight
  <1> QED
    BY <1>1, <1>2, <1>3, <1>4, <1>5, <1>6, <1>7, <1>8, CalmFrame

\* Who has which file open, as long as nobody interrupts.
CalmRight == IdleRight /\ (~KillSignal => PlaceRight /\ OwnedRight)

\* What holds until SIGINT holds in every behaviour.
LEMMA CalmHolds == Spec => []CalmRight
  <1>1. Init => CalmRight
    <2> SUFFICES ASSUME Init PROVE CalmRight
      OBVIOUS
    <2>1. IdleRight
      BY DEF Init, IdleRight
    <2>2. PlaceRight
      BY ThreadAssumption DEF Init, PlaceRight, NoJob, Threads, OpenedPCs, UnopenedPCs
    <2>3. OwnedRight
      BY DEF Init, OwnedRight, NoJob, Threads
    <2> QED
      BY <2>1, <2>2, <2>3 DEF CalmRight
  <1>2. TypeOK /\ MutexRight /\ HandsRight /\ CalmRight /\ [Next]_vars => CalmRight'
    BY CalmStep, PlaceStep, OwnedStep DEF TypeOK, CalmRight
  <1> QED
    BY <1>1, <1>2, TypeCorrect, HandsHold, PTL DEF Spec

\* Without an interrupt no thread reads, writes or closes a descriptor of
\* another's file, and none leaks (TakeFile leaves a stale destFd, 97).
THEOREM OnlyOwnDescriptors == Spec => []DescriptorsOwned
  <1>1. TypeOK /\ CalmRight => DescriptorsOwned
    <2> SUFFICES ASSUME TypeOK, PlaceRight, OwnedRight, ~KillSignal PROVE DescriptorsOwned
      BY DEF CalmRight, DescriptorsOwned
    <2>1. \A j \in LiveJobs : Owned(j)
      BY DEF LiveJobs, OwnedRight
    <2>2. OpenFds = UNION {{j.src, j.dst} : j \in LiveJobs}
      <3>1. \A fd \in OpenFds : \E j \in LiveJobs : fd \in {j.src, j.dst}
        BY DEF OpenFds, LiveJobs, OwnedRight, Used
      <3>2. \A j \in LiveJobs : j.src \in OpenFds /\ j.dst \in OpenFds
        BY <2>1 DEF OpenFds, Owned, Closed
      <3> QED
        BY <3>1, <3>2
    <2> QED
      BY <2>1, <2>2 DEF DescriptorsOwned, Owned
  <1> QED
    BY <1>1, TypeCorrect, CalmHolds, PTL

-----------------------------------------------------------------------------
(* The counter of open files, without an interrupt.                        *)

\* A descriptor is opened.
LEMMA OneMore ==
  ASSUME NEW S, IsFiniteSet(S), NEW a, a \notin S
  PROVE  Cardinality(S \cup {a}) = Cardinality(S) + 1 /\ Cardinality(S) \in Nat
  BY FS_AddElement, FS_CardinalityType

\* A descriptor is closed.
LEMMA OneLess ==
  ASSUME NEW S, IsFiniteSet(S), NEW a \in S
  PROVE  Cardinality(S \ {a}) = Cardinality(S) - 1 /\ Cardinality(S) \in Nat
  BY FS_RemoveElement, FS_CardinalityType

\* The two descriptors of a file are opened.
LEMMA TwoMore ==
  ASSUME NEW S, IsFiniteSet(S), NEW a, NEW b, a \notin S, b \notin S, a # b
  PROVE  Cardinality(S \cup {a, b}) = Cardinality(S) + 2 /\ Cardinality(S) \in Nat
  <1>0. Cardinality(S) \in Nat
    BY FS_CardinalityType
  <1>1. IsFiniteSet(S \cup {a}) /\ Cardinality(S \cup {a}) = Cardinality(S) + 1
    BY FS_AddElement
  <1>2. Cardinality((S \cup {a}) \cup {b}) = Cardinality(S \cup {a}) + 1
    BY <1>1, FS_AddElement
  <1>3. (S \cup {a}) \cup {b} = S \cup {a, b}
    OBVIOUS
  <1> QED
    BY <1>0, <1>1, <1>2, <1>3

\* The two descriptors of a file are closed.
LEMMA TwoLess ==
  ASSUME NEW S, IsFiniteSet(S), NEW a \in S, NEW b \in S, a # b
  PROVE  Cardinality(S \ {a, b}) = Cardinality(S) - 2 /\ Cardinality(S) \in Nat
  <1>0. Cardinality(S) \in Nat
    BY FS_CardinalityType
  <1>1. IsFiniteSet(S \ {a}) /\ Cardinality(S \ {a}) = Cardinality(S) - 1
    BY FS_RemoveElement
  <1>2. Cardinality((S \ {a}) \ {b}) = Cardinality(S \ {a}) - 1
    BY <1>1, FS_RemoveElement
  <1>3. (S \ {a}) \ {b} = S \ {a, b}
    OBVIOUS
  <1> QED
    BY <1>0, <1>1, <1>2, <1>3

\* The consumers that have closed their files and not yet counted them down.
Returning == {c \in Consumers : pc[c] \in {"c_count", "c_store"}}
\* The files that the producer has opened and not yet counted.
Uncounted == IF pc[Producer] \in {"p_count", "p_store"} THEN 2 ELSE 0

\* What a thread has loaded is the counter.
TmpRight == \A t \in Threads : pc[t] \in {"c_store", "p_store"} => tmp[t] = OpenedFileCount

\* The counter is behind the open files by those just opened, and ahead by
\* those just closed.
CountRight ==
  /\ Cardinality(OpenFds) + 2 * Cardinality(Returning) = OpenedFileCount + Uncounted
  /\ TmpRight

\* What is counted is finite: it is bounded by the descriptors, the threads, the
\* files and the slots.
LEMMA AllFinite ==
  /\ IsFiniteSet(OpenFds) /\ IsFiniteSet(Returning) /\ IsFiniteSet(Seen)
  /\ IsFiniteSet({t \in Threads : job[t].file # NoFile})
  /\ IsFiniteSet({i \in Slots : ~IsEmpty(i)})
  <1>1. IsFiniteSet(Fds) /\ IsFiniteSet(Slots)
    BY FS_Interval, SizeAssumption DEF Fds, Slots
  <1>2. IsFiniteSet(Threads)
    BY FiniteAssumption, FS_AddElement DEF Threads
  <1> QED
    BY <1>1, <1>2, FiniteAssumption, FS_Subset DEF OpenFds, Returning, Seen

\* Only OpenFiles and ReportFile open and close.
LEMMA OpenFdsStep ==
  ASSUME PcOK, JobOK, FdsOK, HasFile, PlaceRight, OwnedRight, ~KillSignal, CalmNext
  PROVE  /\ OpenFiles => Cardinality(OpenFds') = Cardinality(OpenFds) + 2
         /\ \A c \in Consumers : ReportFile(c) => Cardinality(OpenFds') = Cardinality(OpenFds) - 2
         /\ ~OpenFiles /\ (\A c \in Consumers : ~ReportFile(c)) => OpenFds' = OpenFds
         /\ Cardinality(OpenFds) \in Nat
  <1>0. job \in [Threads -> Jobs] /\ fdt \in [Fds -> OpenFile]
    BY DEF JobOK, FdsOK
  <1>1. ASSUME OpenFiles PROVE Cardinality(OpenFds') = Cardinality(OpenFds) + 2
    <2>1. PICK f \in Files, s \in Fds, d \in Fds :
            /\ LowestFree(s, d)
            /\ fdt' = [fdt EXCEPT ![s] = [file |-> f, mode |-> "r", pos |-> 0],
                                  ![d] = [file |-> f, mode |-> "w", pos |-> 0]]
      BY <1>1 DEF OpenFiles, HasFile, ProducerPC
    <2>2. s # d
      BY <2>1, SizeAssumption DEF LowestFree, Fds
    <2>3. fdt[s] = Closed /\ fdt[d] = Closed
      BY <2>1 DEF LowestFree
    <2>4. /\ fdt'[s] # Closed /\ fdt'[d] # Closed
          /\ \A fd \in Fds \ {s, d} : fdt'[fd] = fdt[fd]
      BY <1>0, <2>1, <2>2 DEF Closed
    <2>5. OpenFds' = OpenFds \cup {s, d} /\ s \notin OpenFds /\ d \notin OpenFds
      BY <2>3, <2>4 DEF OpenFds
    <2> QED
      BY <2>2, <2>5, AllFinite, TwoMore
  <1>2. ASSUME NEW c \in Consumers, ReportFile(c)
        PROVE  Cardinality(OpenFds') = Cardinality(OpenFds) - 2
    <2>1. PICK s \in Fds, d \in Fds : s = job[c].src /\ d = job[c].dst
      BY <1>2 DEF ReportFile, PlaceRight, OwnedRight, Owned, Threads
    <2>2. s # d /\ fdt[s] # Closed /\ fdt[d] # Closed
      BY <1>2, <2>1 DEF ReportFile, PlaceRight, OwnedRight, Owned, Threads, Closed
    <2>3. \A fd \in Fds : fdt'[fd] = IF fd \in {s, d} THEN Closed ELSE fdt[fd]
      BY <1>0, <1>2, <2>1 DEF ReportFile, CloseBoth, CloseFds
    <2>4. OpenFds' = OpenFds \ {s, d} /\ s \in OpenFds /\ d \in OpenFds
      BY <2>2, <2>3 DEF OpenFds
    <2> QED
      BY <2>2, <2>4, AllFinite, TwoLess
  <1>3. ASSUME ~OpenFiles, \A c \in Consumers : ~ReportFile(c) PROVE OpenFds' = OpenFds
    <2>1. ASSUME NEW c \in Consumers, ReadChunk(c) PROVE OpenFds' = OpenFds
      <3>1. PICK s \in Fds : s = job[c].src
        BY <2>1 DEF ReadChunk, Readable
      <3>2. /\ fdt'[s].mode = fdt[s].mode /\ fdt[s].mode = "r"
            /\ \A fd \in Fds \ {s} : fdt'[fd] = fdt[fd]
        BY <1>0, <2>1, <3>1 DEF ReadChunk, Readable, OpenFile
      <3>3. Closed.mode = "none"
        BY DEF Closed
      <3> QED
        BY <3>2, <3>3 DEF OpenFds
    <2>2. CASE fdt' = fdt
      BY <2>2 DEF OpenFds
    <2> QED
      BY <1>3, <2>1, <2>2, CalmFrame DEF TakeFile, VisitFile, OpenFails, FillSlot, copy
  <1> QED
    BY <1>1, <1>2, <1>3, AllFinite, FS_CardinalityType

\* Nothing is opened, closed or counted.
Steady == Returning' = Returning /\ Uncounted' = Uncounted /\ OpenedFileCount' = OpenedFileCount

\* Only opening, closing and their bookkeeping concern the count of open files
\* (myfunctions.h 125-128, 226-265).
LEMMA CountFrame ==
  ASSUME PcOK, ~KillSignal, CalmNext
  PROVE  Steady \/ OpenFiles \/ CountFds \/ \E c \in Consumers : ReportFile(c) \/ UncountFds(c)
  <1> USE ThreadAssumption DEF PcOK, Steady, Returning, Uncounted, Goto, GotoAndSignal, Broadcast, Threads,
         ConsumerPC, ProducerPC, AfterReturn,
      Walking, NextEntry, fdCount
  <1>1. ASSUME NEW c \in Consumers, EnterBuffer(c) PROVE Steady
    BY <1>1 DEF EnterBuffer
  <1>2. ASSUME NEW c \in Consumers, SleepOnBuffer(c, "c_sleep", "c_wait") PROVE Steady
    BY <1>2 DEF SleepOnBuffer
  <1>3. ASSUME NEW c \in Consumers, TakeFile(c) PROVE Steady
    BY <1>3 DEF TakeFile
  <1>4. ASSUME NEW c \in Consumers, ReadChunk(c) PROVE Steady
    BY <1>4 DEF ReadChunk
  <1>5. ASSUME NEW c \in Consumers, WriteChunk(c) PROVE Steady
    BY <1>5 DEF WriteChunk
  <1>6. ASSUME NEW c \in Consumers, LoadCount(c, "c_count", "c_store") PROVE Steady
    BY <1>6 DEF LoadCount
  <1>7. CASE OpenRoot
    BY <1>7 DEF OpenRoot
  <1>8. CASE LeaveWhenKilled
    BY <1>8 DEF LeaveWhenKilled
  <1>9. CASE SkipDots
    BY <1>9 DEF SkipDots
  <1>10. CASE VisitSubdir
    BY <1>10 DEF VisitSubdir
  <1>11. CASE VisitFifo
    BY <1>11 DEF VisitFifo
  <1>12. CASE VisitFile
    BY <1>12 DEF VisitFile
  <1>13. CASE CheckFdCount
    BY <1>13 DEF CheckFdCount
  <1>14. CASE SleepOnFdCount
    BY <1>14 DEF SleepOnFdCount
  <1>15. CASE CheckKill
    BY <1>15 DEF CheckKill
  <1>16. CASE OpenFails
    BY <1>16 DEF OpenFails
  <1>17. CASE LoadCount(Producer, "p_count", "p_store")
    BY <1>17 DEF LoadCount
  <1>18. CASE FindSlot
    BY <1>18 DEF FindSlot
  <1>19. CASE SleepOnBuffer(Producer, "p_sleep", "p_wait")
    BY <1>19 DEF SleepOnBuffer
  <1>20. CASE LastCheckKill
    BY <1>20 DEF LastCheckKill
  <1>21. CASE FillSlot
    BY <1>21 DEF FillSlot
  <1>22. CASE LeaveSubdir
    BY <1>22 DEF LeaveSubdir
  <1>23. CASE RaiseDone
    BY <1>23 DEF RaiseDone
  <1>24. CASE Join
    BY <1>24 DEF Join
  <1>25. ASSUME NEW t \in Threads, SpuriousWakeup(t) PROVE Steady
    BY <1>25 DEF SpuriousWakeup
  <1>26. CASE Finished
    BY <1>26 DEF Finished, vars
  <1>27. CASE UNCHANGED vars
    BY <1>27 DEF vars
  <1> HIDE DEF PcOK, Steady, Returning, Uncounted, Goto, GotoAndSignal, Broadcast, Threads, ConsumerPC,
         ProducerPC, AfterReturn,
      Walking, NextEntry, fdCount
  <1> QED
    BY <1>1, <1>2, <1>3, <1>4, <1>5, <1>6, <1>7, <1>8, <1>9, <1>10, <1>11, <1>12, <1>13, <1>14, <1>15, <1>16,
       <1>17, <1>18, <1>19, <1>20, <1>21, <1>22, <1>23, <1>24, <1>25, <1>26, <1>27 DEF CalmNext, Consume,
           Produce

\* Under the mutex nobody else changes the counter.
LEMMA TmpStep ==
  ASSUME PcOK, MutexRight, CountOK, TmpRight, ~KillSignal, CalmNext
  PROVE  TmpRight'
  <1> USE ThreadAssumption DEF PcOK, MutexRight, HoldsCount, TmpRight, CountOK, Goto, GotoAndSignal, Broadcast,
         Threads, ConsumerPC, ProducerPC, AfterReturn,
      Walking, NextEntry, fdCount
  <1>1. ASSUME NEW c \in Consumers, EnterBuffer(c) PROVE TmpRight'
    BY <1>1 DEF EnterBuffer
  <1>2. ASSUME NEW c \in Consumers, SleepOnBuffer(c, "c_sleep", "c_wait") PROVE TmpRight'
    BY <1>2 DEF SleepOnBuffer
  <1>3. ASSUME NEW c \in Consumers, TakeFile(c) PROVE TmpRight'
    BY <1>3 DEF TakeFile
  <1>4. ASSUME NEW c \in Consumers, ReadChunk(c) PROVE TmpRight'
    BY <1>4 DEF ReadChunk
  <1>5. ASSUME NEW c \in Consumers, WriteChunk(c) PROVE TmpRight'
    BY <1>5 DEF WriteChunk
  <1>6. ASSUME NEW c \in Consumers, ReportFile(c) PROVE TmpRight'
    BY <1>6 DEF ReportFile
  <1>7. ASSUME NEW c \in Consumers, LoadCount(c, "c_count", "c_store") PROVE TmpRight'
    BY <1>7 DEF LoadCount
  <1>8. ASSUME NEW c \in Consumers, UncountFds(c) PROVE TmpRight'
    BY <1>8 DEF UncountFds
  <1>9. CASE OpenRoot
    BY <1>9 DEF OpenRoot
  <1>10. CASE LeaveWhenKilled
    BY <1>10 DEF LeaveWhenKilled
  <1>11. CASE SkipDots
    BY <1>11 DEF SkipDots
  <1>12. CASE VisitSubdir
    BY <1>12 DEF VisitSubdir
  <1>13. CASE VisitFifo
    BY <1>13 DEF VisitFifo
  <1>14. CASE VisitFile
    BY <1>14 DEF VisitFile
  <1>15. CASE CheckFdCount
    BY <1>15 DEF CheckFdCount
  <1>16. CASE SleepOnFdCount
    BY <1>16 DEF SleepOnFdCount
  <1>17. CASE CheckKill
    BY <1>17 DEF CheckKill
  <1>18. CASE OpenFiles
    BY <1>18 DEF OpenFiles
  <1>19. CASE OpenFails
    BY <1>19 DEF OpenFails
  <1>20. CASE LoadCount(Producer, "p_count", "p_store")
    BY <1>20 DEF LoadCount
  <1>21. CASE CountFds
    BY <1>21 DEF CountFds
  <1>22. CASE FindSlot
    BY <1>22 DEF FindSlot
  <1>23. CASE SleepOnBuffer(Producer, "p_sleep", "p_wait")
    BY <1>23 DEF SleepOnBuffer
  <1>24. CASE LastCheckKill
    BY <1>24 DEF LastCheckKill
  <1>25. CASE FillSlot
    BY <1>25 DEF FillSlot
  <1>26. CASE LeaveSubdir
    BY <1>26 DEF LeaveSubdir
  <1>27. CASE RaiseDone
    BY <1>27 DEF RaiseDone
  <1>28. CASE Join
    BY <1>28 DEF Join
  <1>29. ASSUME NEW t \in Threads, SpuriousWakeup(t) PROVE TmpRight'
    BY <1>29 DEF SpuriousWakeup
  <1>30. CASE Finished
    BY <1>30 DEF Finished, vars
  <1>31. CASE UNCHANGED vars
    BY <1>31 DEF vars
  <1> HIDE DEF PcOK, MutexRight, HoldsCount, TmpRight, CountOK, Goto, GotoAndSignal, Broadcast, Threads,
         ConsumerPC, ProducerPC, AfterReturn,
      Walking, NextEntry, fdCount
  <1> QED
    BY <1>1, <1>2, <1>3, <1>4, <1>5, <1>6, <1>7, <1>8, <1>9, <1>10, <1>11, <1>12, <1>13, <1>14, <1>15, <1>16,
       <1>17, <1>18, <1>19, <1>20, <1>21, <1>22, <1>23, <1>24, <1>25, <1>26, <1>27, <1>28, <1>29, <1>30, <1>31
       DEF CalmNext, Consume, Produce

\* Before SIGINT OpenedFileCount and the files that are open differ by
\* the threads that have opened or closed and not yet counted.
LEMMA CountRightStep ==
  ASSUME PcOK, JobOK, FdsOK, HasFile, CountOK, MutexRight, PlaceRight, OwnedRight, CountRight,
         ~KillSignal, CalmNext
  PROVE  CountRight'
  <1>1. /\ OpenFiles => Cardinality(OpenFds') = Cardinality(OpenFds) + 2
        /\ \A c \in Consumers : ReportFile(c) => Cardinality(OpenFds') = Cardinality(OpenFds) - 2
        /\ ~OpenFiles /\ (\A c \in Consumers : ~ReportFile(c)) => OpenFds' = OpenFds
    BY OpenFdsStep
  <1>2. TmpRight'
    BY TmpStep DEF CountRight
  <1>3. /\ Cardinality(OpenFds) \in Nat /\ Cardinality(Returning) \in Nat
        /\ OpenedFileCount \in Int /\ Uncounted \in Nat
        /\ Cardinality(OpenFds) + 2 * Cardinality(Returning) = OpenedFileCount + Uncounted
    BY AllFinite, FS_CardinalityType DEF CountRight, CountOK, Uncounted
  <1> SUFFICES Cardinality(OpenFds') + 2 * Cardinality(Returning') = OpenedFileCount' + Uncounted'
    BY <1>2 DEF CountRight
  <1> USE ThreadAssumption DEF PcOK, Threads, ConsumerPC, ProducerPC
  <1>4. ASSUME NEW c \in Consumers, ReportFile(c)
        PROVE  Cardinality(OpenFds') + 2 * Cardinality(Returning') = OpenedFileCount' + Uncounted'
    <2>1. pc[c] = "c_read" /\ pc' = [pc EXCEPT ![c] = "c_count"] /\ OpenedFileCount' = OpenedFileCount
      BY <1>4 DEF ReportFile, Goto, fdCount
    <2>2. Returning' = Returning \cup {c} /\ c \notin Returning /\ Uncounted' = Uncounted
      BY <2>1 DEF Returning, Uncounted
    <2>3. Cardinality(Returning') = Cardinality(Returning) + 1
      BY <2>2, OneMore, AllFinite
    <2> QED
      BY <1>1, <1>3, <1>4, <2>1, <2>2, <2>3
  <1>5. ASSUME NEW c \in Consumers, UncountFds(c)
        PROVE  Cardinality(OpenFds') + 2 * Cardinality(Returning') = OpenedFileCount' + Uncounted'
    <2>1. pc[c] = "c_store" /\ OpenedFileCount' = OpenedFileCount - 2
      BY <1>5 DEF UncountFds, CountRight, TmpRight
    <2>2. Returning' = Returning \ {c} /\ c \in Returning /\ Uncounted' = Uncounted
      BY <1>5, <2>1 DEF UncountFds, GotoAndSignal, Goto, Returning, Uncounted
    <2>3. Cardinality(Returning') = Cardinality(Returning) - 1
      BY <2>2, OneLess, AllFinite
    <2>4. OpenFds' = OpenFds
      BY <1>5, AllFinite DEF UncountFds, copy, OpenFds
    <2> QED
      BY <1>3, <2>1, <2>2, <2>3, <2>4
  <1>6. CASE OpenFiles
    <2>1. Returning' = Returning /\ Uncounted = 0 /\ Uncounted' = 2 /\ OpenedFileCount' = OpenedFileCount
      BY <1>6 DEF OpenFiles, Goto, Returning, Uncounted, fdCount
    <2> QED
      BY <1>1, <1>3, <1>6, <2>1
  <1>7. CASE CountFds
    <2>1. Returning' = Returning /\ Uncounted = 2 /\ Uncounted' = 0
      BY <1>7 DEF CountFds, Goto, Returning, Uncounted
    <2>2. OpenedFileCount' = OpenedFileCount + 2 /\ OpenFds' = OpenFds
      BY <1>7 DEF CountFds, CountRight, TmpRight, copy, OpenFds
    <2> QED
      BY <1>3, <2>1, <2>2
  <1>8. CASE Steady
    <2>1. ASSUME OpenFiles PROVE FALSE
      BY <1>8, <2>1 DEF Steady, OpenFiles, Goto, Uncounted
    <2>2. ASSUME NEW c \in Consumers, ReportFile(c) PROVE FALSE
      BY <1>8, <2>2 DEF Steady, ReportFile, Goto, Returning
    <2> QED
      BY <1>1, <1>3, <1>8, <2>1, <2>2 DEF Steady
  <1> HIDE DEF PcOK, Threads, ConsumerPC, ProducerPC
  <1> QED
    BY <1>4, <1>5, <1>6, <1>7, <1>8, CountFrame

\* Without an interrupt the copier never has more than MAX_OPEN_FILE_COUNT + 2
\* files open ("used to not exceed the fd limit", myglobals.h 18).
THEOREM OpenFilesAreBounded == Spec => []OpenFilesBounded
  <1> DEFINE Inv == CountInv /\ (~KillSignal => CountRight)
  <1>1. Init => Inv
    <2> SUFFICES ASSUME Init PROVE Inv
      OBVIOUS
    <2>1. CountInv
      BY ThreadAssumption, SizeAssumption DEF Init, CountInv, Threads
    <2>2. OpenFds = {} /\ Returning = {} /\ Uncounted = 0 /\ OpenedFileCount = 0 /\ TmpRight
      BY ThreadAssumption DEF Init, OpenFds, Returning, Uncounted, TmpRight, Threads
    <2> QED
      BY <2>1, <2>2, FS_EmptySet DEF CountRight
  <1>2. TypeOK /\ MutexRight /\ CalmRight /\ Inv /\ [Next]_vars => Inv'
    BY CountStep, CountRightStep, CalmStep DEF TypeOK, CalmRight
  <1>3. TypeOK /\ Inv => OpenFilesBounded
    <2> SUFFICES ASSUME TypeOK, CountInv, CountRight PROVE Cardinality(OpenFds) <= MaxOpen + 2
      BY DEF OpenFilesBounded
    <2>1. /\ Cardinality(OpenFds) \in Nat /\ Cardinality(Returning) \in Nat /\ OpenedFileCount \in Int
          /\ Cardinality(OpenFds) + 2 * Cardinality(Returning) = OpenedFileCount + Uncounted
      BY AllFinite, FS_CardinalityType DEF CountRight, TypeOK, CountOK
    <2>2. OpenedFileCount + Uncounted <= MaxOpen + 2
      <3>1. CASE pc[Producer] \in {"p_count", "p_store"}
        <4>1. OpenedFileCount <= MaxOpen
          BY <3>1 DEF CountInv, CountRight, TmpRight, Threads
        <4> QED
          BY <2>1, <3>1, <4>1, SizeAssumption DEF Uncounted
      <3>2. CASE pc[Producer] \notin {"p_count", "p_store"}
        BY <2>1, <3>2, SizeAssumption DEF CountInv, Uncounted
      <3> QED
        BY <3>1, <3>2
    <2>3. Uncounted \in Int /\ MaxOpen \in Int
      BY SizeAssumption DEF Uncounted
    <2> QED
      BY <2>1, <2>2, <2>3
  <1> QED
    BY <1>1, <1>2, <1>3, TypeCorrect, HandsHold, CalmHolds, PTL DEF Spec

-----------------------------------------------------------------------------
(* Every file is somewhere, without an interrupt.                          *)

Hands == {t \in Threads : job[t].file # NoFile}
FullSlots == {i \in Slots : ~IsEmpty(i)}

\* A step before SIGINT is a step of the program.
LEMMA CalmIsNext == CalmNext => [Next]_vars
  BY DEF CalmNext, Next

\* The two counters of files.
LEMMA StatFrame ==
  ASSUME StatOK, ~KillSignal, CalmNext
  PROVE  /\ stat.FilesSucceed \in Nat /\ stat.FilesFailed \in Nat
         /\ \A c \in Consumers : ReportFile(c) =>
              stat'.FilesSucceed = stat.FilesSucceed + 1 /\ stat'.FilesFailed = stat.FilesFailed
         /\ OpenFails =>
              stat'.FilesFailed = stat.FilesFailed + 1 /\ stat'.FilesSucceed = stat.FilesSucceed
         /\ ~OpenFails /\ (\A c \in Consumers : ~ReportFile(c)) =>
              stat'.FilesFailed = stat.FilesFailed /\ stat'.FilesSucceed = stat.FilesSucceed
  <1> USE DEF StatOK, Counters, Count, Counted
  <1>1. stat.FilesSucceed \in Nat /\ stat.FilesFailed \in Nat
    OBVIOUS
  <1>2. ASSUME NEW c \in Consumers, ReportFile(c)
        PROVE  stat'.FilesSucceed = stat.FilesSucceed + 1 /\ stat'.FilesFailed = stat.FilesFailed
    BY <1>2 DEF ReportFile
  <1>3. ASSUME OpenFails
        PROVE  stat'.FilesFailed = stat.FilesFailed + 1 /\ stat'.FilesSucceed = stat.FilesSucceed
    BY <1>3 DEF OpenFails
  <1>4. ASSUME VisitSubdir \/ VisitFifo
        PROVE  stat'.FilesFailed = stat.FilesFailed /\ stat'.FilesSucceed = stat.FilesSucceed
    BY <1>4 DEF VisitSubdir, VisitFifo
  <1> HIDE DEF StatOK, Counters, Count, Counted
  <1>5. ~OpenFails /\ (\A c \in Consumers : ~ReportFile(c)) => VisitSubdir \/ VisitFifo \/ stat' = stat
    BY DEF CalmNext, Consume, Produce, Finished, vars, EnterBuffer, SleepOnBuffer, TakeFile, ReadChunk,
       WriteChunk, LoadCount, UncountFds, OpenRoot, LeaveWhenKilled, SkipDots, VisitFile, CheckFdCount,
       SleepOnFdCount, CheckKill, OpenFiles, CountFds, FindSlot, LastCheckKill, FillSlot, LeaveSubdir,
       RaiseDone, Join, SpuriousWakeup
  <1> QED
    BY <1>1, <1>2, <1>3, <1>4, <1>5

\* A file is never dropped between the directory and the counters.
LEMMA AccountedStep ==
  ASSUME PcOK, JobOK, WalkOK, HasFile, StatOK, PlaceRight, EveryFileAccounted, ~KillSignal, CalmNext
  PROVE  EveryFileAccounted'
  <1>0. Buffer \in [Slots -> Jobs] /\ job \in [Threads -> Jobs] /\ bufIndex \in [Threads -> Slots]
    BY DEF JobOK
  <1>1. /\ ~VisitFile => Seen' = Seen
        /\ VisitFile => \E f \in Files :
             /\ f \notin Seen /\ Seen' = Seen \cup {f}
             /\ job' = [job EXCEPT ![Producer] = [NoJob EXCEPT !.file = f]]
    BY SeenStep, CalmIsNext
  <1>2. IsFiniteSet(Seen) /\ IsFiniteSet(Hands) /\ IsFiniteSet(FullSlots)
    BY AllFinite DEF Hands, FullSlots
  <1>3. /\ Cardinality(Seen) \in Nat /\ Cardinality(Hands) \in Nat /\ Cardinality(FullSlots) \in Nat
        /\ stat.FilesSucceed \in Nat /\ stat.FilesFailed \in Nat
        /\ Cardinality(Seen) = stat.FilesSucceed + stat.FilesFailed + Cardinality(Hands) + Cardinality(FullSlots)
    BY <1>2, FS_CardinalityType, StatFrame DEF EveryFileAccounted, Hands, FullSlots
  <1> DEFINE Goal == Cardinality(Seen') = stat'.FilesSucceed + stat'.FilesFailed
                       + Cardinality(Hands') + Cardinality(FullSlots')
  <1> SUFFICES Goal
    BY DEF EveryFileAccounted, Hands, FullSlots
  <1> HIDE DEF Goal
  <1>4. /\ \A c \in Consumers : ReportFile(c) => pc[c] = "c_read"
        /\ OpenFails => pc[Producer] = "p_open"
        /\ \A c \in Consumers : TakeFile(c) => pc[c] = "c_take"
        /\ VisitFile => pc[Producer] = "p_next"
        /\ FillSlot => pc[Producer] = "p_fill"
    BY DEF ReportFile, OpenFails, TakeFile, VisitFile, NextEntry, Walking, FillSlot
  <1>n. NoFile \notin Files /\ NoJob.file = NoFile
    BY TreeAssumption DEF NoJob
  <1>5. ASSUME NEW c \in Consumers, TakeFile(c) PROVE Goal
    <2>1. PICK k \in Slots : k = bufIndex[c]
      BY <1>0 DEF Threads
    <2>2. Buffer[k].src # -1 /\ Buffer[k].file \in Files /\ job[c] = NoJob
      BY <1>4, <1>5, <2>1 DEF PlaceRight
    <2>3. /\ job'[c] = Buffer[k] /\ \A t \in Threads \ {c} : job'[t] = job[t]
          /\ Buffer'[k].src = -1 /\ \A i \in Slots \ {k} : Buffer'[i] = Buffer[i]
          /\ c \in Threads
      BY <1>0, <1>5, <2>1 DEF TakeFile, EmptySlot, Threads, Jobs
    <2>4. Hands' = Hands \cup {c} /\ c \notin Hands
      BY <1>n, <2>2, <2>3 DEF Hands
    <2>5. FullSlots' = FullSlots \ {k} /\ k \in FullSlots
      BY <2>2, <2>3 DEF FullSlots, IsEmpty
    <2>6. /\ Cardinality(Hands') = Cardinality(Hands) + 1
          /\ Cardinality(FullSlots') = Cardinality(FullSlots) - 1
      BY <1>2, <2>4, <2>5, OneMore, OneLess
    <2>7. Seen' = Seen /\ stat' = stat
      BY <1>5, AllFinite DEF TakeFile, walk, Seen
    <2> QED
      BY <1>3, <2>6, <2>7 DEF Goal
  <1>6. ASSUME NEW c \in Consumers, ReportFile(c) PROVE Goal
    <2>1. job[c].file \in Files /\ c \in Threads
      BY <1>4, <1>6 DEF PlaceRight, Threads
    <2>2. job'[c] = NoJob /\ (\A t \in Threads \ {c} : job'[t] = job[t]) /\ Buffer' = Buffer
      BY <1>0, <1>6, <2>1 DEF ReportFile, buf
    <2>3. Hands' = Hands \ {c} /\ c \in Hands /\ FullSlots' = FullSlots
      BY <1>n, <2>1, <2>2 DEF Hands, FullSlots, IsEmpty
    <2>4. Cardinality(Hands') = Cardinality(Hands) - 1
      BY <1>2, <2>3, OneLess
    <2>5. Seen' = Seen
      BY <1>6 DEF ReportFile, walk, Seen
    <2> QED
      BY <1>3, <1>6, <2>3, <2>4, <2>5, StatFrame DEF Goal
  <1>7. CASE VisitFile
    <2>1. PICK f \in Files : /\ f \notin Seen /\ Seen' = Seen \cup {f}
                            /\ job' = [job EXCEPT ![Producer] = [NoJob EXCEPT !.file = f]]
      BY <1>1, <1>7
    <2>2. job[Producer] = NoJob /\ Buffer' = Buffer /\ stat' = stat /\ Producer \in Threads
      BY <1>4, <1>7 DEF VisitFile, PlaceRight, NoFilePCs, buf, Threads
    <2>3. job'[Producer].file = f /\ \A t \in Threads \ {Producer} : job'[t] = job[t]
      BY <1>0, <2>1, <2>2 DEF NoJob
    <2>4. Hands' = Hands \cup {Producer} /\ Producer \notin Hands /\ FullSlots' = FullSlots
      BY <1>n, <2>2, <2>3 DEF Hands, FullSlots, IsEmpty
    <2>5. Cardinality(Hands') = Cardinality(Hands) + 1 /\ Cardinality(Seen') = Cardinality(Seen) + 1
      BY <1>2, <2>1, <2>4, OneMore
    <2> QED
      BY <1>3, <2>2, <2>4, <2>5 DEF Goal
  <1>8. CASE OpenFails
    <2>1. job[Producer].file \in Files /\ Producer \in Threads
      BY <1>4, <1>8 DEF HasFile, ProducerPC, Threads
    <2>2. job'[Producer] = NoJob /\ (\A t \in Threads \ {Producer} : job'[t] = job[t]) /\ Buffer' = Buffer
      BY <1>0, <1>8, <2>1 DEF OpenFails, buf
    <2>3. Hands' = Hands \ {Producer} /\ Producer \in Hands /\ FullSlots' = FullSlots
      BY <1>n, <2>1, <2>2 DEF Hands, FullSlots, IsEmpty
    <2>4. Cardinality(Hands') = Cardinality(Hands) - 1
      BY <1>2, <2>3, OneLess
    <2>5. Seen' = Seen
      BY <1>8 DEF OpenFails, walk, Seen
    <2> QED
      BY <1>3, <1>8, <2>3, <2>4, <2>5, StatFrame DEF Goal
  <1>9. CASE FillSlot
    <2>1. PICK k \in Slots : k = bufIndex[Producer]
      BY <1>0 DEF Threads
    <2>2. job[Producer].src # -1 /\ Buffer[k].src = -1 /\ job[Producer].file \in Files
      BY <1>4, <1>9, <2>1 DEF PlaceRight, OpenedPCs, HasFile, ProducerPC
    <2>3. /\ Buffer'[k] = job[Producer] /\ \A i \in Slots \ {k} : Buffer'[i] = Buffer[i]
          /\ job'[Producer] = NoJob /\ \A t \in Threads \ {Producer} : job'[t] = job[t]
          /\ Producer \in Threads
      BY <1>0, <1>9, <2>1 DEF FillSlot, Filled, Threads
    <2>4. Hands' = Hands \ {Producer} /\ Producer \in Hands
      BY <1>n, <2>2, <2>3 DEF Hands
    <2>5. FullSlots' = FullSlots \cup {k} /\ k \notin FullSlots
      BY <2>2, <2>3 DEF FullSlots, IsEmpty
    <2>6. /\ Cardinality(Hands') = Cardinality(Hands) - 1
          /\ Cardinality(FullSlots') = Cardinality(FullSlots) + 1
      BY <1>2, <2>4, <2>5, OneMore, OneLess
    <2>7. Seen' = Seen /\ stat' = stat
      BY <1>9 DEF FillSlot, walk, Seen
    <2> QED
      BY <1>3, <2>6, <2>7 DEF Goal
  <1>10. ASSUME ~VisitFile, ~OpenFails, ~FillSlot, \A c \in Consumers : ~TakeFile(c) /\ ~ReportFile(c)
         PROVE  Goal
    <2>1. UNCHANGED <<stat.FilesSucceed, stat.FilesFailed>> /\ Seen' = Seen
      BY <1>1, <1>10, StatFrame
    <2>2. Buffer' = Buffer /\ \A t \in Threads : job'[t].file = job[t].file
      <3>1. ASSUME NEW c \in Consumers, ReadChunk(c) PROVE UNCHANGED <<Buffer, job>>
        BY <3>1 DEF ReadChunk, buf
      <3>2. ASSUME OpenFiles
            PROVE  Buffer' = Buffer /\ \A t \in Threads : job'[t].file = job[t].file
        BY <1>0, <3>2 DEF OpenFiles, buf
      <3>3. UNCHANGED <<Buffer, job>> \/ OpenFiles
        BY <1>10, <3>1, CalmFrame
      <3> QED
        BY <3>2, <3>3
    <2>3. Hands' = Hands /\ FullSlots' = FullSlots
      BY <2>2 DEF Hands, FullSlots, IsEmpty
    <2> QED
      BY <1>3, <2>1, <2>3 DEF Goal
  <1> QED
    BY <1>5, <1>6, <1>7, <1>8, <1>9, <1>10

\* Without an interrupt no file is lost or counted twice (main 129).
THEOREM NoFileLost == Spec => []EveryFileAccounted
  <1>1. Init => EveryFileAccounted
    <2> SUFFICES ASSUME Init PROVE EveryFileAccounted
      OBVIOUS
    <2>1. \A d \in Dirs : \A i \in DOMAIN Listing[d] : ~(i < at[d])
      BY TreeAssumption DEF Init
    <2>2. Seen = {}
      BY <2>1 DEF Seen
    <2>3. {t \in Threads : job[t].file # NoFile} = {} /\ {i \in Slots : ~IsEmpty(i)} = {}
      BY DEF Init, NoJob, IsEmpty
    <2>4. stat.FilesSucceed = 0 /\ stat.FilesFailed = 0
      BY DEF Init, Counters
    <2> QED
      BY <2>2, <2>3, <2>4, FS_EmptySet DEF EveryFileAccounted
  <1>2. TypeOK /\ CalmRight /\ EveryFileAccounted /\ [Next]_vars => EveryFileAccounted'
    BY AccountedStep, CalmStep DEF TypeOK, CalmRight, EveryFileAccounted
  <1> QED
    BY <1>1, <1>2, TypeCorrect, CalmHolds, PTL DEF Spec

-----------------------------------------------------------------------------
(* The copies, without an interrupt.                                       *)

\* The first n chunks of a file.
Part(f, n) == [k \in 1..n |-> <<f, k>>]

\* Nothing of a file is copied at first.
LEMMA NoPart == \A f : Part(f, 0) = <<>>
  BY DEF Part

\* Copying one more chunk.
LEMMA LongerPart ==
  ASSUME NEW f, NEW n \in Nat \ {0}
  PROVE  Append(Part(f, n - 1), <<f, n>>) = Part(f, n)
  <1>1. Len(Part(f, n - 1)) = n - 1 /\ DOMAIN Part(f, n - 1) = 1..(n - 1)
    BY DEF Part
  <1>2. Append(Part(f, n - 1), <<f, n>>)
          = [k \in 1..n |-> IF k = n THEN <<f, n>> ELSE Part(f, n - 1)[k]]
    BY <1>1
  <1> QED
    BY <1>2 DEF Part

\* A part of a file is a prefix of it, never other bytes.
LEMMA PartIsPrefix ==
  ASSUME NEW f \in Files, NEW n \in 0..Chunks[f]
  PROVE  Part(f, n) = SubSeq(Whole(f), 1, Len(Part(f, n)))
  <1>1. n \in Nat /\ Chunks[f] \in Nat /\ n <= Chunks[f]
    BY TreeAssumption
  <1>2. Len(Part(f, n)) = n
    BY <1>1 DEF Part
  <1>3. SubSeq(Whole(f), 1, n) = [k \in 1..n |-> Whole(f)[k]]
    BY <1>1 DEF Whole
  <1> QED
    BY <1>1, <1>2, <1>3 DEF Part, Whole

\* A consumer has written what it has read, up to the chunk it is about to write.
Copying(c) ==
  /\ pc[c] = "c_read" =>
       /\ fdt[job[c].src].pos \in 0..Chunks[job[c].file]
       /\ out[job[c].file] = Part(job[c].file, fdt[job[c].src].pos)
  /\ pc[c] = "c_write" =>
       /\ fdt[job[c].src].pos \in 1..Chunks[job[c].file]
       /\ out[job[c].file] = Part(job[c].file, fdt[job[c].src].pos - 1)
       /\ chunk[c] = <<job[c].file, fdt[job[c].src].pos>>

\* How far each copy is.
CopyPlaces ==
  /\ \A f \in Files \ Seen : out[f] = <<>>
  /\ job[Producer].file # NoFile => out[job[Producer].file] = <<>>
  /\ job[Producer].src # -1 => fdt[job[Producer].src].pos = 0
  /\ \A i \in Slots : Buffer[i].src # -1 => out[Buffer[i].file] = <<>> /\ fdt[Buffer[i].src].pos = 0
  /\ \A c \in Consumers : Copying(c)

\* A consumer gets to a file and away from it by its own steps only.
Copiers ==
  \A c \in Consumers :
    /\ pc'[c] \in {"c_read", "c_write"} => pc'[c] = pc[c] \/ TakeFile(c) \/ ReadChunk(c) \/ WriteChunk(c)
    /\ pc[c] \in {"c_read", "c_write"} => pc'[c] \in {"c_read", "c_write"} \/ ReportFile(c)

\* Which steps take a thread into the loop that copies, through it and out of it.
LEMMA CopiersStep ==
  ASSUME PcOK, ~KillSignal, CalmNext
  PROVE  Copiers
  <1> USE ThreadAssumption DEF PcOK, Copiers, Goto, GotoAndSignal, Broadcast, Threads, ConsumerPC, ProducerPC,
         AfterReturn,
      Walking, NextEntry
  <1>1. ASSUME NEW c \in Consumers, EnterBuffer(c) PROVE Copiers
    BY <1>1 DEF EnterBuffer
  <1>2. ASSUME NEW c \in Consumers, SleepOnBuffer(c, "c_sleep", "c_wait") PROVE Copiers
    BY <1>2 DEF SleepOnBuffer
  <1>3. ASSUME NEW c \in Consumers, TakeFile(c) PROVE Copiers
    BY <1>3 DEF TakeFile
  <1>4. ASSUME NEW c \in Consumers, ReadChunk(c) PROVE Copiers
    BY <1>4 DEF ReadChunk
  <1>5. ASSUME NEW c \in Consumers, WriteChunk(c) PROVE Copiers
    BY <1>5 DEF WriteChunk
  <1>6. ASSUME NEW c \in Consumers, ReportFile(c) PROVE Copiers
    BY <1>6 DEF ReportFile
  <1>7. ASSUME NEW c \in Consumers, LoadCount(c, "c_count", "c_store") PROVE Copiers
    BY <1>7 DEF LoadCount
  <1>8. ASSUME NEW c \in Consumers, UncountFds(c) PROVE Copiers
    BY <1>8 DEF UncountFds
  <1>9. CASE OpenRoot
    BY <1>9 DEF OpenRoot
  <1>10. CASE LeaveWhenKilled
    BY <1>10 DEF LeaveWhenKilled
  <1>11. CASE SkipDots
    BY <1>11 DEF SkipDots
  <1>12. CASE VisitSubdir
    BY <1>12 DEF VisitSubdir
  <1>13. CASE VisitFifo
    BY <1>13 DEF VisitFifo
  <1>14. CASE VisitFile
    BY <1>14 DEF VisitFile
  <1>15. CASE CheckFdCount
    BY <1>15 DEF CheckFdCount
  <1>16. CASE SleepOnFdCount
    BY <1>16 DEF SleepOnFdCount
  <1>17. CASE CheckKill
    BY <1>17 DEF CheckKill
  <1>18. CASE OpenFiles
    BY <1>18 DEF OpenFiles
  <1>19. CASE OpenFails
    BY <1>19 DEF OpenFails
  <1>20. CASE LoadCount(Producer, "p_count", "p_store")
    BY <1>20 DEF LoadCount
  <1>21. CASE CountFds
    BY <1>21 DEF CountFds
  <1>22. CASE FindSlot
    BY <1>22 DEF FindSlot
  <1>23. CASE SleepOnBuffer(Producer, "p_sleep", "p_wait")
    BY <1>23 DEF SleepOnBuffer
  <1>24. CASE LastCheckKill
    BY <1>24 DEF LastCheckKill
  <1>25. CASE FillSlot
    BY <1>25 DEF FillSlot
  <1>26. CASE LeaveSubdir
    BY <1>26 DEF LeaveSubdir
  <1>27. CASE RaiseDone
    BY <1>27 DEF RaiseDone
  <1>28. CASE Join
    BY <1>28 DEF Join
  <1>29. ASSUME NEW t \in Threads, SpuriousWakeup(t) PROVE Copiers
    BY <1>29 DEF SpuriousWakeup
  <1>30. CASE Finished
    BY <1>30 DEF Finished, vars
  <1>31. CASE UNCHANGED vars
    BY <1>31 DEF vars
  <1> HIDE DEF PcOK, Copiers, Goto, GotoAndSignal, Broadcast, Threads, ConsumerPC, ProducerPC, AfterReturn,
      Walking, NextEntry
  <1> QED
    BY <1>1, <1>2, <1>3, <1>4, <1>5, <1>6, <1>7, <1>8, <1>9, <1>10, <1>11, <1>12, <1>13, <1>14, <1>15, <1>16,
       <1>17, <1>18, <1>19, <1>20, <1>21, <1>22, <1>23, <1>24, <1>25, <1>26, <1>27, <1>28, <1>29, <1>30, <1>31
       DEF CalmNext, Consume, Produce

\* Only WriteChunk changes a copy, and only ReadChunk what a consumer has read.
LEMMA CopyFrame ==
  ASSUME CalmNext, ~KillSignal
  PROVE  /\ (\E c \in Consumers : WriteChunk(c)) \/ out' = out
         /\ (\E c \in Consumers : ReadChunk(c)) \/ chunk' = chunk
  <1>1. \A c \in Consumers : WriteChunk(c) => chunk' = chunk
    BY DEF WriteChunk
  <1>2. \A c \in Consumers : ReadChunk(c) => out' = out
    BY DEF ReadChunk
  <1>3. (\E c \in Consumers : WriteChunk(c) \/ ReadChunk(c)) \/ UNCHANGED <<out, chunk>>
    BY DEF CalmNext, Consume, Produce, Finished, vars, copy, EnterBuffer, SleepOnBuffer, TakeFile,
       ReportFile, LoadCount, UncountFds, OpenRoot, LeaveWhenKilled, SkipDots, VisitSubdir, VisitFifo,
       VisitFile, CheckFdCount, SleepOnFdCount, CheckKill, OpenFiles, OpenFails, CountFds, FindSlot,
       LastCheckKill, FillSlot, LeaveSubdir, RaiseDone, Join, SpuriousWakeup
  <1> QED
    BY <1>1, <1>2, <1>3

\* A consumer in the loop that copies keeps its place when nobody touches its
\* file.
LEMMA CopyingKept ==
  ASSUME NEW b, Copying(b),
         pc'[b] \in {"c_read", "c_write"} =>
           /\ pc'[b] = pc[b] /\ job'[b] = job[b] /\ chunk'[b] = chunk[b]
           /\ fdt'[job[b].src].pos = fdt[job[b].src].pos
           /\ out'[job[b].file] = out[job[b].file]
  PROVE  Copying(b)'
  BY DEF Copying

\* Nobody else has the file or the descriptors that a consumer works with.
LEMMA OwnFile ==
  ASSUME PcOK, HandsRight, PlaceRight, OwnedRight,
         NEW c \in Consumers, pc[c] \in {"c_read", "c_write"}
  PROVE  /\ job[c].file \in Files /\ job[c].file \in Seen /\ Owned(job[c])
         /\ \A t \in Threads \ {c} : job[t].file # job[c].file
         /\ \A t \in Threads \ {c} : job[t].src # -1 => job[t].src # job[c].src
         /\ \A i \in Slots : Buffer[i].src # -1 =>
              Buffer[i].file # job[c].file /\ Buffer[i].src # job[c].src
         /\ Producer \in Threads \ {c}
  <1>1. c \in Threads /\ job[c].file \in Files /\ job[c].file # NoFile /\ job[c].src # -1
        /\ Producer \in Threads \ {c}
    BY TreeAssumption, ThreadAssumption DEF PlaceRight, Threads
  <1>2. Owned(job[c]) /\ job[c].file \in Seen
    BY <1>1 DEF OwnedRight, HandsRight
  <1>3. \A t \in Threads \ {c} : job[t].file # job[c].file
    BY <1>1 DEF HandsRight
  <1>4. \A i \in Slots : Buffer[i].src # -1 => Buffer[i].file # job[c].file
    BY <1>1 DEF HandsRight, Claimed
  <1>5. \A t \in Threads \ {c} : job[t].src # -1 => job[t].src # job[c].src
    BY <1>2, <1>3 DEF OwnedRight, Owned
  <1>6. \A i \in Slots : Buffer[i].src # -1 => Buffer[i].src # job[c].src
    BY <1>2, <1>4 DEF OwnedRight, Owned
  <1> QED
    BY <1>1, <1>2, <1>3, <1>4, <1>5, <1>6

\* Every chunk is written to the copy of the file that it was read from.
LEMMA PlacesStep ==
  ASSUME PcOK, JobOK, WalkOK, FdsOK, CopyOK, HasFile, HandsRight, PlaceRight, OwnedRight,
         CopyPlaces, ~KillSignal, CalmNext
  PROVE  CopyPlaces'
  <1>0. Buffer \in [Slots -> Jobs] /\ job \in [Threads -> Jobs] /\ bufIndex \in [Threads -> Slots]
        /\ fdt \in [Fds -> OpenFile] /\ chunk \in [Consumers -> Chunk] /\ out \in [Files -> Seq(Chunk)]
        /\ pc \in [Threads -> ConsumerPC \cup ProducerPC]
    BY DEF JobOK, FdsOK, CopyOK, PcOK
  <1>s. /\ Seen \subseteq Seen' /\ (~VisitFile => Seen' = Seen)
        /\ VisitFile => \E f \in Files :
             /\ f \notin Seen /\ Seen' = Seen \cup {f}
             /\ job' = [job EXCEPT ![Producer] = [NoJob EXCEPT !.file = f]]
    BY SeenStep, CalmIsNext
  <1>t. Consumers \subseteq Threads \ {Producer} /\ Producer \in Threads
    BY ThreadAssumption DEF Threads
  <1>c. \A f \in Files : Chunks[f] \in Nat
    BY TreeAssumption
  <1>1. ASSUME NEW c \in Consumers, TakeFile(c) PROVE CopyPlaces'
    <2>1. PICK k \in Slots : k = bufIndex[c]
      BY <1>0 DEF Threads
    <2>2. pc[c] = "c_take" /\ Buffer[k].src # -1 /\ Buffer[k].file \in Files
      BY <1>1, <2>1 DEF PlaceRight, TakeFile
    <2>3. /\ job'[c] = Buffer[k] /\ \A t \in Threads \ {c} : job'[t] = job[t]
          /\ Buffer'[k].src = -1 /\ \A i \in Slots \ {k} : Buffer'[i] = Buffer[i]
          /\ UNCHANGED <<fdt, out, chunk>>
      BY <1>0, <1>1, <1>t, <2>1 DEF TakeFile, EmptySlot, Jobs, copy
    <2>4. /\ pc'[c] = "c_read"
          /\ \A b \in Consumers \ {c} : pc'[b] \in {"c_read", "c_write"} => pc'[b] = pc[b]
      BY <1>0, <1>1, <1>t DEF TakeFile, GotoAndSignal, Goto
    <2>5. Copying(c)'
      <3>1. fdt'[job'[c].src].pos = 0 /\ out'[job'[c].file] = Part(job'[c].file, 0)
        BY <2>2, <2>3, NoPart DEF CopyPlaces
      <3>2. 0 \in 0..Chunks[job'[c].file]
        BY <1>c, <2>2, <2>3
      <3> QED
        BY <2>4, <3>1, <3>2 DEF Copying
    <2>6. \A b \in Consumers \ {c} : Copying(b)'
      BY <1>t, <2>3, <2>4, CopyingKept DEF CopyPlaces
    <2> QED
      BY <1>s, <1>t, <2>3, <2>5, <2>6 DEF CopyPlaces
  <1>2. ASSUME NEW c \in Consumers, ReadChunk(c) PROVE CopyPlaces'
    <2>1. PICK s \in Fds, f \in Files : s = job[c].src /\ f = job[c].file
      BY <1>2 DEF ReadChunk, Readable, PlaceRight
    <2>2. pc[c] = "c_read" /\ fdt[s].file = f /\ fdt[s].pos \in Nat /\ fdt[s].pos < Chunks[f]
      BY <1>0, <1>2, <1>t, <2>1 DEF ReadChunk, Readable, PlaceRight, OwnedRight, Owned, OpenFile
    <2>3. /\ fdt'[s].pos = fdt[s].pos + 1 /\ \A fd \in Fds \ {s} : fdt'[fd] = fdt[fd]
          /\ chunk'[c] = <<f, fdt[s].pos + 1>> /\ \A b \in Consumers \ {c} : chunk'[b] = chunk[b]
          /\ UNCHANGED <<job, Buffer, out>>
      BY <1>0, <1>2, <2>1, <2>2 DEF ReadChunk, buf, OpenFile
    <2>4. pc'[c] = "c_write" /\ \A b \in Consumers \ {c} : pc'[b] = pc[b]
      BY <1>0, <1>2, <1>t DEF ReadChunk, Goto
    <2>5. /\ \A t \in Threads \ {c} : job[t].src # -1 => job[t].src # s /\ Owned(job[t])
          /\ \A i \in Slots : Buffer[i].src # -1 => Buffer[i].src # s /\ Owned(Buffer[i])
      BY <2>1, <2>2, OwnFile DEF OwnedRight
    <2>6. Copying(c)'
      <3>1. out[f] = Part(f, fdt[s].pos)
        BY <2>1, <2>2 DEF CopyPlaces, Copying
      <3>2. fdt'[s].pos \in 1..Chunks[f] /\ fdt'[s].pos - 1 = fdt[s].pos
        BY <1>c, <2>2, <2>3
      <3>3. out'[f] = Part(f, fdt'[s].pos - 1) /\ chunk'[c] = <<f, fdt'[s].pos>>
        BY <2>3, <3>1, <3>2
      <3>4. job'[c].src = s /\ job'[c].file = f
        BY <2>1, <2>3
      <3> QED
        BY <2>4, <3>2, <3>3, <3>4 DEF Copying
    <2>7. \A b \in Consumers \ {c} : Copying(b)'
      <3> SUFFICES ASSUME NEW b \in Consumers \ {c} PROVE Copying(b)'
        OBVIOUS
      <3>1. pc[b] \in {"c_read", "c_write"} => fdt'[job[b].src] = fdt[job[b].src]
        BY <1>t, <2>3, <2>5 DEF PlaceRight, Owned
      <3> QED
        BY <2>3, <2>4, <3>1, CopyingKept DEF CopyPlaces
    <2> QED
      BY <1>s, <1>t, <2>3, <2>5, <2>6, <2>7 DEF CopyPlaces, Owned
  <1>3. ASSUME NEW c \in Consumers, WriteChunk(c) PROVE CopyPlaces'
    <2>1. pc[c] = "c_write"
      BY <1>3 DEF WriteChunk
    <2>2. PICK f \in Files, s \in Fds, d \in Fds :
             /\ f = job[c].file /\ s = job[c].src /\ d = job[c].dst
             /\ fdt[d].file = f /\ fdt[d].mode = "w" /\ f \in Seen
             /\ \A t \in Threads \ {c} : job[t].file # f
             /\ \A i \in Slots : Buffer[i].src # -1 => Buffer[i].file # f
      BY <2>1, OwnFile DEF Owned
    <2>3. /\ fdt[s].pos \in 1..Chunks[f] /\ out[f] = Part(f, fdt[s].pos - 1)
          /\ chunk[c] = <<f, fdt[s].pos>>
      BY <2>1, <2>2 DEF CopyPlaces, Copying
    <2>4. out'[f] = Append(out[f], chunk[c]) /\ \A g \in Files \ {f} : out'[g] = out[g]
      BY <1>0, <1>3, <2>2 DEF WriteChunk
    <2>5. out'[f] = Part(f, fdt[s].pos)
      BY <1>c, <2>3, <2>4, LongerPart
    <2>6. UNCHANGED <<job, Buffer, fdt, chunk>>
      BY <1>3 DEF WriteChunk, buf
    <2>7. pc'[c] = "c_read" /\ \A b \in Consumers \ {c} : pc'[b] = pc[b]
      BY <1>0, <1>3, <1>t DEF WriteChunk, Goto
    <2>8. Copying(c)'
      BY <1>c, <2>2, <2>3, <2>5, <2>6, <2>7 DEF Copying
    <2>9. \A b \in Consumers \ {c} : Copying(b)'
      BY <1>t, <2>2, <2>4, <2>6, <2>7, CopyingKept DEF CopyPlaces, PlaceRight
    <2>10. \A t \in Threads : job[t].file \in Files \cup {NoFile}
      BY <1>0 DEF Jobs
    <2>11. \A i \in Slots : Buffer[i].src # -1 => Buffer[i].file \in Files
      BY DEF PlaceRight
    <2> QED
      BY <1>s, <1>t, <2>2, <2>4, <2>6, <2>8, <2>9, <2>10, <2>11 DEF CopyPlaces
  <1>4. ASSUME NEW c \in Consumers, ReportFile(c) PROVE CopyPlaces'
    <2>1. pc[c] = "c_read"
      BY <1>4 DEF ReportFile
    <2>2. PICK s \in Fds, d \in Fds : s = job[c].src /\ d = job[c].dst /\ Owned(job[c])
      BY <2>1, OwnFile DEF Owned
    <2>3. /\ job'[c].src = -1 /\ \A t \in Threads \ {c} : job'[t] = job[t]
          /\ \A fd \in Fds \ {s, d} : fdt'[fd] = fdt[fd]
          /\ UNCHANGED <<Buffer, out, chunk>>
      BY <1>0, <1>4, <1>t, <2>2 DEF ReportFile, NoJob, buf, CloseBoth, CloseFds
    <2>4. pc'[c] = "c_count" /\ \A b \in Consumers \ {c} : pc'[b] = pc[b]
      BY <1>0, <1>4, <1>t DEF ReportFile, Goto
    <2>5. /\ \A t \in Threads \ {c} : job[t].src # -1 => job[t].src \in Fds \ {s, d}
          /\ \A i \in Slots : Buffer[i].src # -1 => Buffer[i].src \in Fds \ {s, d}
      BY <2>1, <2>2, OwnFile DEF OwnedRight, Owned
    <2>6. Copying(c)'
      BY <2>4 DEF Copying
    <2>7. \A b \in Consumers \ {c} : Copying(b)'
      <3> SUFFICES ASSUME NEW b \in Consumers \ {c} PROVE Copying(b)'
        OBVIOUS
      <3>1. pc[b] \in {"c_read", "c_write"} => fdt'[job[b].src] = fdt[job[b].src]
        BY <1>t, <2>3, <2>5 DEF PlaceRight
      <3> QED
        BY <1>t, <2>3, <2>4, <3>1, CopyingKept DEF CopyPlaces
    <2> QED
      BY <1>s, <1>t, <2>3, <2>5, <2>6, <2>7 DEF CopyPlaces
  <1>5. CASE VisitFile
    <2>1. PICK f \in Files : /\ f \notin Seen /\ Seen' = Seen \cup {f}
                            /\ job' = [job EXCEPT ![Producer] = [NoJob EXCEPT !.file = f]]
      BY <1>5, <1>s
    <2>2. /\ job'[Producer].file = f /\ job'[Producer].src = -1
          /\ \A t \in Threads \ {Producer} : job'[t] = job[t]
      BY <1>0, <1>t, <2>1 DEF NoJob
    <2>3. UNCHANGED <<Buffer, fdt, out, chunk>>
      BY <1>5 DEF VisitFile, buf, copy
    <2>4. \A b \in Consumers : pc'[b] = pc[b]
      BY <1>0, <1>5, <1>t DEF VisitFile, Goto
    <2>5. \A b \in Consumers : Copying(b)'
      BY <1>t, <2>2, <2>3, <2>4, CopyingKept DEF CopyPlaces
    <2> QED
      BY <1>s, <1>t, <2>1, <2>2, <2>3, <2>5 DEF CopyPlaces
  <1>6. CASE OpenFiles
    <2>1. PICK f \in Files, s \in Fds, d \in Fds :
            /\ LowestFree(s, d) /\ f = job[Producer].file
            /\ job' = [job EXCEPT ![Producer] = [file |-> f, src |-> s, dst |-> d]]
            /\ fdt' = [fdt EXCEPT ![s] = [file |-> f, mode |-> "r", pos |-> 0],
                                  ![d] = [file |-> f, mode |-> "w", pos |-> 0]]
            /\ UNCHANGED <<Buffer, out, chunk>>
      BY <1>6 DEF OpenFiles, HasFile, ProducerPC, buf
    <2>2. fdt[s].mode = "none" /\ fdt[d].mode = "none"
      BY <2>1 DEF LowestFree, Closed
    <2>3. /\ fdt'[s].pos = 0 /\ \A fd \in Fds \ {s, d} : fdt'[fd] = fdt[fd]
          /\ job'[Producer].src = s /\ job'[Producer].file = f
          /\ \A t \in Threads \ {Producer} : job'[t] = job[t]
      BY <1>0, <1>t, <2>1
    <2>4. /\ \A t \in Threads : job[t].src # -1 => job[t].src \in Fds \ {s, d}
          /\ \A i \in Slots : Buffer[i].src # -1 => Buffer[i].src \in Fds \ {s, d}
      BY <2>2 DEF OwnedRight, Owned
    <2>5. \A b \in Consumers : pc'[b] = pc[b]
      BY <1>0, <1>6, <1>t DEF OpenFiles, Goto
    <2>6. \A b \in Consumers : Copying(b)'
      <3> SUFFICES ASSUME NEW b \in Consumers PROVE Copying(b)'
        OBVIOUS
      <3>1. pc[b] \in {"c_read", "c_write"} => fdt'[job[b].src] = fdt[job[b].src]
        BY <1>t, <2>3, <2>4 DEF PlaceRight
      <3> QED
        BY <1>t, <2>1, <2>3, <2>5, <3>1, CopyingKept DEF CopyPlaces
    <2>7. Buffer' = Buffer /\ out' = out
      BY <2>1
    <2>8. \A g \in Files \ Seen' : out'[g] = <<>>
      BY <1>s, <2>7 DEF CopyPlaces
    <2>9. job'[Producer].file # NoFile => out'[job'[Producer].file] = <<>>
      BY <2>1, <2>3, <2>7 DEF CopyPlaces
    <2>10. job'[Producer].src # -1 => fdt'[job'[Producer].src].pos = 0
      BY <2>3
    <2>11. \A i \in Slots : Buffer'[i].src # -1 => out'[Buffer'[i].file] = <<>> /\ fdt'[Buffer'[i].src].pos = 0
      BY <2>3, <2>4, <2>7 DEF CopyPlaces
    <2> QED
      BY <2>6, <2>8, <2>9, <2>10, <2>11 DEF CopyPlaces
  <1>7. CASE OpenFails
    <2>1. job'[Producer] = NoJob /\ \A t \in Threads \ {Producer} : job'[t] = job[t]
      BY <1>0, <1>7, <1>t DEF OpenFails
    <2>2. UNCHANGED <<Buffer, fdt, out, chunk>>
      BY <1>7 DEF OpenFails, buf, copy
    <2>3. \A b \in Consumers : pc'[b] = pc[b]
      BY <1>0, <1>7, <1>t DEF OpenFails, Goto
    <2>4. \A b \in Consumers : Copying(b)'
      BY <1>t, <2>1, <2>2, <2>3, CopyingKept DEF CopyPlaces
    <2> QED
      BY <1>s, <1>t, <2>1, <2>2, <2>4 DEF CopyPlaces, NoJob
  <1>8. CASE FillSlot
    <2>1. PICK k \in Slots : k = bufIndex[Producer]
      BY <1>0, <1>t
    <2>2. job[Producer].src # -1 /\ job[Producer].file \in Files
      BY <1>8, <2>1 DEF PlaceRight, FillSlot, OpenedPCs, HasFile, ProducerPC
    <2>3. /\ Buffer'[k] = job[Producer] /\ \A i \in Slots \ {k} : Buffer'[i] = Buffer[i]
          /\ job'[Producer] = NoJob /\ \A t \in Threads \ {Producer} : job'[t] = job[t]
          /\ UNCHANGED <<fdt, out, chunk>>
      BY <1>0, <1>8, <1>t, <2>1 DEF FillSlot, Filled, copy
    <2>4. \A b \in Consumers : pc'[b] \in {"c_read", "c_write"} => pc'[b] = pc[b]
      BY <1>0, <1>8, <1>t DEF FillSlot, GotoAndSignal, Goto
    <2>5. \A b \in Consumers : Copying(b)'
      BY <1>t, <2>3, <2>4, CopyingKept DEF CopyPlaces
    <2> QED
      BY <1>s, <1>t, <2>2, <2>3, <2>5, TreeAssumption DEF CopyPlaces, NoJob
  <1>9. ASSUME UNCHANGED <<job, Buffer, fdt>>,
               ~VisitFile, \A c \in Consumers : ~TakeFile(c) /\ ~ReadChunk(c) /\ ~WriteChunk(c)
        PROVE  CopyPlaces'
    <2>1. UNCHANGED <<out, chunk>>
      BY <1>9, CopyFrame
    <2>2. \A b \in Consumers : pc'[b] \in {"c_read", "c_write"} => pc'[b] = pc[b]
      BY <1>9, CopiersStep DEF Copiers
    <2>3. \A b \in Consumers : Copying(b)'
      BY <1>9, <2>1, <2>2, CopyingKept DEF CopyPlaces
    <2> QED
      BY <1>9, <1>s, <2>1, <2>3 DEF CopyPlaces
  <1> QED
    BY <1>1, <1>2, <1>3, <1>4, <1>5, <1>6, <1>7, <1>8, <1>9, CalmFrame

\* The files whose copies are complete and that nobody works on any more.
Free(f) == (\A t \in Threads : job[t].file # f) /\ ~InSlot(f)
Complete == {f \in Seen : out[f] = Whole(f) /\ Free(f)}

\* Nobody comes back to a file: what is complete stays so, and a file is
\* counted as copied when it is.
LEMMA CompleteStep ==
  ASSUME PcOK, JobOK, WalkOK, FdsOK, CopyOK, HasFile, HandsRight, PlaceRight, OwnedRight,
         CopyPlaces, ~KillSignal, CalmNext
  PROVE  /\ Complete \subseteq Complete'
         /\ \A c \in Consumers : ReportFile(c) => \E f \in Files \ Complete : f \in Complete'
  <1>0. Buffer \in [Slots -> Jobs] /\ job \in [Threads -> Jobs] /\ bufIndex \in [Threads -> Slots]
        /\ fdt \in [Fds -> OpenFile] /\ out \in [Files -> Seq(Chunk)]
    BY DEF JobOK, FdsOK, CopyOK
  <1>s. /\ Seen \subseteq Seen'
        /\ VisitFile => \E f \in Files :
             /\ f \notin Seen /\ Seen' = Seen \cup {f}
             /\ job' = [job EXCEPT ![Producer] = [NoJob EXCEPT !.file = f]]
    BY SeenStep, CalmIsNext
  <1>t. Consumers \subseteq Threads \ {Producer} /\ Producer \in Threads /\ NoFile \notin Files
        /\ NoJob.file = NoFile /\ NoJob.src = -1 /\ Seen \subseteq Files
    BY ThreadAssumption, TreeAssumption DEF Threads, NoJob, Seen
  <1>1. ASSUME NEW f \in Seen, Free(f) PROVE Free(f)'
    <2>1. ASSUME NEW c \in Consumers, TakeFile(c) PROVE Free(f)'
      <3>1. PICK k \in Slots : k = bufIndex[c]
        BY <1>0 DEF Threads
      <3>2. Buffer[k].src # -1
        BY <2>1, <3>1 DEF PlaceRight, TakeFile
      <3>3. /\ job'[c] = Buffer[k] /\ \A t \in Threads \ {c} : job'[t] = job[t]
            /\ Buffer'[k].src = -1 /\ \A i \in Slots \ {k} : Buffer'[i] = Buffer[i]
        BY <1>0, <2>1, <1>t, <3>1 DEF TakeFile, EmptySlot, Jobs
      <3> QED
        BY <1>1, <3>2, <3>3 DEF Free, InSlot
    <2>2. ASSUME NEW c \in Consumers, ReadChunk(c) PROVE Free(f)'
      BY <1>1, <2>2 DEF ReadChunk, Free, InSlot, buf
    <2>3. ASSUME NEW c \in Consumers, ReportFile(c) PROVE Free(f)'
      <3>1. job'[c] = NoJob /\ (\A t \in Threads \ {c} : job'[t] = job[t]) /\ Buffer' = Buffer
        BY <1>0, <2>3, <1>t DEF ReportFile, buf
      <3> QED
        BY <1>1, <1>t, <3>1 DEF Free, InSlot
    <2>4. CASE VisitFile
      <3>1. PICK g \in Files : /\ g \notin Seen
                              /\ job' = [job EXCEPT ![Producer] = [NoJob EXCEPT !.file = g]]
        BY <2>4, <1>s
      <3>2. job'[Producer].file = g /\ \A t \in Threads \ {Producer} : job'[t] = job[t]
        BY <1>0, <1>t, <3>1 DEF NoJob
      <3>3. Buffer' = Buffer
        BY <2>4 DEF VisitFile, buf
      <3> QED
        BY <1>1, <3>1, <3>2, <3>3 DEF Free, InSlot
    <2>5. CASE OpenFiles
      <3>1. \A t \in Threads : job'[t].file = job[t].file
        BY <1>0, <2>5 DEF OpenFiles
      <3>2. Buffer' = Buffer
        BY <2>5 DEF OpenFiles, buf
      <3> QED
        BY <1>1, <3>1, <3>2 DEF Free, InSlot
    <2>6. CASE OpenFails
      <3>1. job'[Producer] = NoJob /\ \A t \in Threads \ {Producer} : job'[t] = job[t]
        BY <1>0, <2>6, <1>t DEF OpenFails
      <3>2. Buffer' = Buffer
        BY <2>6 DEF OpenFails, buf
      <3> QED
        BY <1>1, <1>t, <3>1, <3>2 DEF Free, InSlot
    <2>7. CASE FillSlot
      <3>1. PICK k \in Slots : k = bufIndex[Producer]
        BY <1>0, <1>t
      <3>2. /\ Buffer'[k] = job[Producer] /\ \A i \in Slots \ {k} : Buffer'[i] = Buffer[i]
            /\ job'[Producer] = NoJob /\ \A t \in Threads \ {Producer} : job'[t] = job[t]
        BY <1>0, <2>7, <1>t, <3>1 DEF FillSlot, Filled
      <3> QED
        BY <1>1, <1>t, <3>2 DEF Free, InSlot
    <2>8. CASE UNCHANGED <<job, Buffer, fdt>>
      BY <1>1, <2>8 DEF Free, InSlot
    <2> QED
      BY <2>1, <2>2, <2>3, <2>4, <2>5, <2>6, <2>7, <2>8, CalmFrame
  <1>2. ASSUME NEW f \in Seen, Free(f) PROVE out'[f] = out[f]
    <2>1. ASSUME NEW c \in Consumers, WriteChunk(c) PROVE out'[f] = out[f]
      <3>1. pc[c] = "c_write"
        BY <2>1 DEF WriteChunk
      <3>2. PICK d \in Fds : d = job[c].dst /\ fdt[d].file = job[c].file
        BY <3>1, OwnFile DEF Owned
      <3>3. job[c].file # f
        BY <1>2, <1>t DEF Free
      <3> QED
        BY <1>0, <1>t, <2>1, <3>2, <3>3 DEF WriteChunk
    <2> QED
      BY <2>1, CopyFrame
  <1>3. Complete \subseteq Complete'
    BY <1>1, <1>2, <1>s DEF Complete
  <1>4. ASSUME NEW c \in Consumers, ReportFile(c)
        PROVE  \E f \in Files \ Complete : f \in Complete'
    <2>1. pc[c] = "c_read" /\ c \in Threads
      BY <1>4, <1>t DEF ReportFile
    <2>2. PICK f \in Files, s \in Fds :
             /\ f = job[c].file /\ s = job[c].src /\ f \in Seen
             /\ fdt[s].file = f /\ fdt[s].mode = "r"
             /\ \A t \in Threads \ {c} : job[t].file # f
             /\ \A i \in Slots : Buffer[i].src # -1 => Buffer[i].file # f
      BY <2>1, OwnFile DEF Owned
    <2>3. fdt[s].pos \in 0..Chunks[f] /\ out[f] = Part(f, fdt[s].pos)
      BY <2>1, <2>2 DEF CopyPlaces, Copying
    <2>4. ~(fdt[s].pos < Chunks[f])
      BY <1>4, <2>2 DEF ReportFile, Readable
    <2>5. fdt[s].pos = Chunks[f]
      BY <2>3, <2>4, TreeAssumption
    <2>6. out'[f] = Whole(f)
      BY <1>4, <2>3, <2>5 DEF ReportFile, Part, Whole
    <2>7. job'[c] = NoJob /\ (\A t \in Threads \ {c} : job'[t] = job[t]) /\ Buffer' = Buffer
      BY <1>0, <1>4, <1>t DEF ReportFile, buf
    <2>8. Free(f)'
      BY <1>t, <2>2, <2>7 DEF Free, InSlot
    <2>9. f \notin Complete
      BY <2>1, <2>2 DEF Complete, Free
    <2> QED
      BY <1>s, <2>2, <2>6, <2>8, <2>9 DEF Complete
  <1> QED
    BY <1>3, <1>4

\* Every copy is a beginning of its file, and enough copies are complete.
CopyRight ==
  /\ CopyPlaces
  /\ \A f \in Files : \E n \in 0..Chunks[f] : out[f] = Part(f, n)
  /\ stat.FilesSucceed <= Cardinality(Complete)

\* Each read and write of a consumer makes the copy of its own file one chunk
\* longer, and no other thread's does (myfunctions.h 96-115).
LEMMA CopyRightStep ==
  ASSUME TypeOK, HandsRight, PlaceRight, OwnedRight, CopyRight, ~KillSignal, CalmNext
  PROVE  CopyRight'
  <1> USE DEF TypeOK
  <1>1. CopyPlaces'
    BY PlacesStep DEF CopyRight
  <1>2. ASSUME NEW f \in Files PROVE \E n \in 0..Chunks[f] : out'[f] = Part(f, n)
    <2>1. ASSUME NEW c \in Consumers, WriteChunk(c), out'[f] # out[f]
          PROVE  \E n \in 0..Chunks[f] : out'[f] = Part(f, n)
      <3>1. pc[c] = "c_write" /\ pc'[c] = "c_read" /\ UNCHANGED <<job, fdt>>
        BY <2>1, ThreadAssumption DEF WriteChunk, Goto, PcOK, Threads
      <3>2. PICK d \in Fds : d = job[c].dst /\ fdt[d].file = job[c].file /\ job[c].file \in Files
        BY <3>1, OwnFile DEF Owned
      <3>3. f = job[c].file
        BY <2>1, <3>2 DEF WriteChunk, CopyOK
      <3>4. Copying(c)'
        BY <1>1 DEF CopyPlaces
      <3> QED
        BY <3>1, <3>3, <3>4 DEF Copying
    <2>2. CASE out'[f] = out[f]
      BY <2>2 DEF CopyRight
    <2> QED
      BY <2>1, <2>2, CopyFrame
  <1>3. stat'.FilesSucceed <= Cardinality(Complete')
    <2>1. Complete \subseteq Complete' /\ IsFiniteSet(Complete') /\ IsFiniteSet(Complete)
      <3>1. Seen' \subseteq Files /\ Complete' \subseteq Files /\ Complete \subseteq Complete'
        BY CompleteStep DEF Seen, Complete, CopyRight
      <3> QED
        BY <3>1, FiniteAssumption, FS_Subset
    <2>2. Cardinality(Complete) <= Cardinality(Complete')
          /\ Cardinality(Complete) \in Nat /\ Cardinality(Complete') \in Nat
          /\ stat.FilesSucceed \in Nat /\ stat.FilesSucceed <= Cardinality(Complete)
      BY <2>1, FS_Subset, FS_CardinalityType, StatFrame DEF CopyRight
    <2>3. ASSUME NEW c \in Consumers, ReportFile(c)
          PROVE  stat'.FilesSucceed <= Cardinality(Complete')
      <3>1. PICK f \in Files \ Complete : f \in Complete'
        BY <2>3, CompleteStep DEF CopyRight
      <3>2. Cardinality(Complete \cup {f}) = Cardinality(Complete) + 1 /\ IsFiniteSet(Complete \cup {f})
        BY <2>1, <3>1, OneMore, FS_AddElement
      <3>3. Cardinality(Complete \cup {f}) <= Cardinality(Complete')
        BY <2>1, <3>1, FS_Subset
      <3>4. stat'.FilesSucceed = stat.FilesSucceed + 1
        BY <2>3, StatFrame
      <3> QED
        BY <2>2, <3>2, <3>3, <3>4
    <2>4. CASE \A c \in Consumers : ~ReportFile(c)
      <3>1. stat'.FilesSucceed = stat.FilesSucceed
        BY <2>4, StatFrame
      <3> QED
        BY <2>2, <3>1
    <2> QED
      BY <2>3, <2>4
  <1> QED
    BY <1>1, <1>2, <1>3 DEF CopyRight

\* Nothing is copied at first.
LEMMA InitCopyRight ==
  ASSUME Init
  PROVE  CopyRight
  <1>1. CopyPlaces
    BY ThreadAssumption DEF Init, CopyPlaces, Copying, NoJob, Threads
  <1>2. \A f \in Files : 0 \in 0..Chunks[f] /\ out[f] = Part(f, 0)
    BY TreeAssumption, NoPart DEF Init
  <1>3. stat.FilesSucceed = 0
    BY DEF Init, Counters
  <1>4. IsFiniteSet(Complete)
    BY FiniteAssumption, FS_Subset DEF Complete, Seen
  <1>5. Cardinality(Complete) \in Nat
    BY <1>4, FS_CardinalityType
  <1> QED
    BY <1>1, <1>2, <1>3, <1>5 DEF CopyRight

\* Without an interrupt the copy of a file is always a beginning of that file,
\* and at least as many are complete as are counted as copied (118, 120).
THEOREM CopiesAreFaithful == Spec => []CopiesFaithful
  <1> DEFINE Inv == ~KillSignal => CopyRight
  <1>1. Init => Inv
    BY InitCopyRight
  <1>2. TypeOK /\ MutexRight /\ HandsRight /\ CalmRight /\ Inv /\ [Next]_vars => Inv'
    BY CopyRightStep, CalmStep DEF CalmRight
  <1>3. TypeOK /\ Inv => CopiesFaithful
    <2> SUFFICES ASSUME TypeOK, CopyRight
                 PROVE  /\ \A f \in Files : out[f] = SubSeq(Whole(f), 1, Len(out[f]))
                        /\ stat.FilesSucceed <= Cardinality({f \in Seen : out[f] = Whole(f)})
      BY DEF CopiesFaithful
    <2> DEFINE Wholes == {f \in Seen : out[f] = Whole(f)}
    <2>1. \A f \in Files : out[f] = SubSeq(Whole(f), 1, Len(out[f]))
      BY PartIsPrefix DEF CopyRight
    <2>2. Complete \subseteq Wholes /\ Wholes \subseteq Files
      BY DEF Complete, Seen
    <2>3. IsFiniteSet(Wholes) /\ IsFiniteSet(Complete)
      BY <2>2, FiniteAssumption, FS_Subset
    <2>4. Cardinality(Complete) <= Cardinality(Wholes)
          /\ Cardinality(Complete) \in Nat /\ Cardinality(Wholes) \in Nat
      BY <2>2, <2>3, FS_Subset, FS_CardinalityType
    <2>5. stat.FilesSucceed \in Nat /\ stat.FilesSucceed <= Cardinality(Complete)
      BY DEF TypeOK, StatOK, Counters, CopyRight
    <2> QED
      BY <2>1, <2>4, <2>5
  <1> QED
    BY <1>1, <1>2, <1>3, TypeCorrect, HandsHold, CalmHolds, PTL DEF Spec

-----------------------------------------------------------------------------
(* Sums over a finite set.                                                 *)

\* The element of s that SumFunction adds first, and its recursion over the
\* subsets of S.
One(s) == CHOOSE x \in s : TRUE
Adds(h, f, D) == h = [s \in D |-> IF s = {} THEN 0 ELSE f[One(s)] + h[s \ {One(s)}]]
Sums(f, S) == CHOOSE h : Adds(h, f, SUBSET S)
UpTo(S, n) == {s \in SUBSET S : Cardinality(s) <= n}

\* A set of natural numbers has a least element.
LEMMA LeastExists ==
  ASSUME NEW S, S \subseteq Nat, S # {}
  PROVE  \E x \in S : \A y \in S : x <= y
  <1> DEFINE L == {ss \in Nat \X Nat : ss[1] < ss[2]}
  <1>1. IsWellFoundedOn(L, Nat)
    BY NatLessThanWellFounded DEF OpToRel
  <1>2. \E x \in S : \A y \in S : ~(<<y, x>> \in L)
    <2> HIDE DEF L
    <2> QED  BY <1>1, WFMin
  <1>3. \A x, y \in S : ~(<<y, x>> \in L) => x <= y
    OBVIOUS
  <1> QED  BY <1>2, <1>3

\* The sum is what the recursion gives for the whole set.
LEMMA SumUnfolds == \A f, S : SumFunctionOnSet(f, S) = Sums(f, S)[S]
  BY DEF SumFunctionOnSet, FoldFunctionOnSet, MapThenFoldSet, Sums, Adds, One

\* What is left when one element is taken out.
LEMMA OneOut ==
  ASSUME NEW S, IsFiniteSet(S), NEW s \in SUBSET S, s # {}
  PROVE  /\ One(s) \in s /\ s \ {One(s)} \in SUBSET S
         /\ IsFiniteSet(s) /\ Cardinality(s) \in Nat /\ Cardinality(s \ {One(s)}) \in Nat
         /\ Cardinality(s \ {One(s)}) = Cardinality(s) - 1
  <1>1. One(s) \in s
    BY DEF One
  <1>2. IsFiniteSet(s) /\ Cardinality(s) \in Nat
    BY FS_Subset, FS_CardinalityType
  <1> QED
    BY <1>1, <1>2, FS_RemoveElement, FS_CardinalityType

\* The recursion defines a function: one for the sets of each size is extended
\* to the next size.
LEMMA AddsExists ==
  ASSUME NEW S, IsFiniteSet(S), NEW f
  PROVE  Adds(Sums(f, S), f, SUBSET S)
  <1> DEFINE Missing == {n \in Nat : ~\E h : Adds(h, f, UpTo(S, n))}
  <1>0. /\ \A s \in SUBSET S : IsFiniteSet(s) /\ Cardinality(s) \in Nat
        /\ \A s \in SUBSET S : Cardinality(s) <= Cardinality(S)
        /\ Cardinality(S) \in Nat /\ UpTo(S, Cardinality(S)) = SUBSET S
    BY FS_Subset, FS_CardinalityType DEF UpTo
  <1>1. Missing = {}
    <2> SUFFICES ASSUME Missing # {} PROVE FALSE
      OBVIOUS
    <2>1. PICK n \in Missing : \A k \in Missing : n <= k
      <3> HIDE DEF Missing
      <3>1. Missing \subseteq Nat
        BY DEF Missing
      <3> QED
        BY <3>1, LeastExists
    <2>2. n # 0
      <3> SUFFICES \E h : Adds(h, f, UpTo(S, 0))
        BY <2>1
      <3>1. UpTo(S, 0) = {{}}
        BY <1>0, FS_EmptySet DEF UpTo
      <3>2. Adds([s \in {{}} |-> 0], f, {{}})
        BY DEF Adds
      <3> QED
        BY <3>1, <3>2
    <2>3. n \in Nat /\ n - 1 \in Nat /\ n - 1 \notin Missing
      BY <2>1, <2>2
    <2>4. PICK h : Adds(h, f, UpTo(S, n - 1))
      BY <2>3
    <2> DEFINE g == [s \in UpTo(S, n) |-> IF s = {} THEN 0 ELSE f[One(s)] + h[s \ {One(s)}]]
    <2>5. ASSUME NEW s \in UpTo(S, n), s # {} PROVE g[s \ {One(s)}] = h[s \ {One(s)}]
      <3> DEFINE r == s \ {One(s)}
      <3>1. s \in SUBSET S /\ Cardinality(s) <= n
        BY DEF UpTo
      <3>2. r \in SUBSET S /\ Cardinality(r) \in Nat /\ Cardinality(r) <= n - 1
        BY <2>3, <2>5, <3>1, OneOut
      <3>3. r \in UpTo(S, n - 1) /\ r \in UpTo(S, n)
        BY <2>3, <3>2 DEF UpTo
      <3> HIDE DEF r
      <3>4. h[r] = IF r = {} THEN 0 ELSE f[One(r)] + h[r \ {One(r)}]
        BY <2>4, <3>3 DEF Adds
      <3>5. g[r] = IF r = {} THEN 0 ELSE f[One(r)] + h[r \ {One(r)}]
        BY <3>3
      <3>6. g[r] = h[r]
        BY <3>4, <3>5
      <3> QED
        BY <3>6 DEF r
    <2>6. Adds(g, f, UpTo(S, n))
      BY <2>5 DEF Adds
    <2> QED
      BY <2>1, <2>6
  <1>2. \E h : Adds(h, f, SUBSET S)
    <2>1. Cardinality(S) \in Nat /\ Cardinality(S) \notin Missing
      BY <1>0, <1>1
    <2>2. \E h : Adds(h, f, UpTo(S, Cardinality(S)))
      BY <2>1
    <2> QED
      BY <1>0, <2>2
  <1> QED
    BY <1>2 DEF Sums

\* What the recursion says of one set.
LEMMA SumsAt ==
  ASSUME NEW S, IsFiniteSet(S), NEW f
  PROVE  /\ Sums(f, S)[{}] = 0
         /\ \A s \in SUBSET S :
              s # {} => Sums(f, S)[s] = f[One(s)] + Sums(f, S)[s \ {One(s)}]
  <1>1. PICK h : h = Sums(f, S)
    OBVIOUS
  <1>2. h = [s \in SUBSET S |-> IF s = {} THEN 0 ELSE f[One(s)] + h[s \ {One(s)}]]
    <2>1. Adds(h, f, SUBSET S)
      BY <1>1, AddsExists
    <2> QED
      BY <2>1 DEF Adds
  <1>3. h[{}] = 0
    BY <1>2
  <1>4. \A s \in SUBSET S : s # {} => h[s] = f[One(s)] + h[s \ {One(s)}]
    BY <1>2
  <1> QED
    BY <1>1, <1>3, <1>4

\* A set of subsets of S, not empty, has a smallest one.
LEMMA SmallestSet ==
  ASSUME NEW S, IsFiniteSet(S), NEW B \in SUBSET SUBSET S, B # {}
  PROVE  \E s \in B : s # {} => s \ {One(s)} \notin B
  <1> DEFINE N == {Cardinality(s) : s \in B}
  <1>1. N \subseteq Nat /\ N # {}
    BY FS_Subset, FS_CardinalityType
  <1>2. PICK n \in N : \A k \in N : n <= k
    <2> HIDE DEF N
    <2> QED  BY <1>1, LeastExists
  <1>3. PICK s \in B : n = Cardinality(s)
    BY <1>2
  <1>4. ASSUME s # {}, s \ {One(s)} \in B PROVE FALSE
    <2>1. Cardinality(s \ {One(s)}) = Cardinality(s) - 1 /\ Cardinality(s) \in Nat
      BY <1>4, OneOut
    <2>2. n <= Cardinality(s \ {One(s)})
      BY <1>2, <1>4
    <2> QED
      BY <1>3, <2>1, <2>2
  <1> QED
    BY <1>3, <1>4

\* A sum of natural numbers is one, and a sum of zeros is zero.
LEMMA SumType ==
  ASSUME NEW S, IsFiniteSet(S), NEW f \in [S -> Nat]
  PROVE  /\ SumFunctionOnSet(f, S) \in Nat
         /\ (\A x \in S : f[x] = 0) => SumFunctionOnSet(f, S) = 0
  <1> DEFINE Wrong(s) == Sums(f, S)[s] \notin Nat \/ ((\A x \in S : f[x] = 0) /\ Sums(f, S)[s] # 0)
             B == {s \in SUBSET S : Wrong(s)}
  <1>1. B = {}
    <2> SUFFICES ASSUME B # {} PROVE FALSE
      OBVIOUS
    <2>1. PICK s \in B : s # {} => s \ {One(s)} \notin B
      <3> HIDE DEF B
      <3>1. B \in SUBSET SUBSET S
        BY DEF B
      <3> QED  BY <3>1, SmallestSet
    <2>2. s \in SUBSET S /\ Wrong(s)
      BY <2>1
    <2>3. s # {}
      <3> SUFFICES ~Wrong({})
        BY <2>2
      <3> QED
        BY SumsAt
    <2>4. f[One(s)] \in Nat /\ One(s) \in S /\ ~Wrong(s \ {One(s)})
      BY <2>1, <2>2, <2>3, OneOut
    <2>5. Sums(f, S)[s] = f[One(s)] + Sums(f, S)[s \ {One(s)}]
      BY <2>2, <2>3, SumsAt
    <2>6. ~Wrong(s)
      BY <2>4, <2>5
    <2> QED
      BY <2>2, <2>6
  <1>2. ~Wrong(S)
    BY <1>1
  <1> QED
    BY <1>2, SumUnfolds

\* When one term changes, the sum changes by as much.
LEMMA SumChange ==
  ASSUME NEW S, IsFiniteSet(S), NEW f \in [S -> Nat], NEW g \in [S -> Nat],
         NEW a \in S, \A x \in S \ {a} : g[x] = f[x]
  PROVE  SumFunctionOnSet(g, S) = SumFunctionOnSet(f, S) - f[a] + g[a]
  <1> DEFINE Right(s) == /\ Sums(f, S)[s] \in Nat /\ Sums(g, S)[s] \in Nat
                         /\ a \notin s => Sums(g, S)[s] = Sums(f, S)[s]
                         /\ a \in s => Sums(g, S)[s] = Sums(f, S)[s] - f[a] + g[a]
             B == {s \in SUBSET S : ~Right(s)}
  <1>1. B = {}
    <2> SUFFICES ASSUME B # {} PROVE FALSE
      OBVIOUS
    <2>1. PICK s \in B : s # {} => s \ {One(s)} \notin B
      <3> HIDE DEF B
      <3>1. B \in SUBSET SUBSET S
        BY DEF B
      <3> QED  BY <3>1, SmallestSet
    <2>2. s \in SUBSET S /\ ~Right(s)
      BY <2>1
    <2>3. s # {}
      <3> SUFFICES Right({})
        BY <2>2
      <3> QED
        BY SumsAt
    <2> DEFINE e == One(s)
               r == s \ {e}
    <2>4. e \in s /\ e \in S /\ r \in SUBSET S /\ Right(r)
      BY <2>1, <2>2, <2>3, OneOut
    <2>5. Sums(f, S)[s] = f[e] + Sums(f, S)[r] /\ Sums(g, S)[s] = g[e] + Sums(g, S)[r]
      BY <2>2, <2>3, SumsAt
    <2>6. f[e] \in Nat /\ g[e] \in Nat /\ f[a] \in Nat /\ g[a] \in Nat
      BY <2>4
    <2>7. /\ Sums(f, S)[r] \in Nat /\ Sums(g, S)[r] \in Nat
          /\ a \notin r => Sums(g, S)[r] = Sums(f, S)[r]
          /\ a \in r => Sums(g, S)[r] = Sums(f, S)[r] - f[a] + g[a]
      BY <2>4
    <2>8. CASE e = a
      <3>1. a \notin r /\ a \in s
        BY <2>4, <2>8
      <3>2. Right(s)
        BY <2>5, <2>6, <2>7, <2>8, <3>1
      <3> QED
        BY <2>2, <3>2
    <2>9. CASE e # a
      <3>1. (a \in r <=> a \in s) /\ g[e] = f[e]
        BY <2>4, <2>9
      <3>2. Right(s)
        BY <2>5, <2>6, <2>7, <3>1
      <3> QED
        BY <2>2, <3>2
    <2> QED
      BY <2>8, <2>9
  <1>2. Right(S)
    BY <1>1
  <1> QED
    BY <1>2, SumUnfolds

-----------------------------------------------------------------------------
(* The bytes that are counted, without an interrupt.                       *)

\* A consumer is in the loop that copies its file.
InLoop(c) == pc[c] \in {"c_read", "c_write"}
\* What the total has of each copy: nothing until the file is reported.
Credited == [f \in Files |-> IF \E c \in Consumers : InLoop(c) /\ job[c].file = f
                             THEN 0 ELSE Len(out[f])]

\* A consumer has counted the chunks it has read of its file, and the total is
\* that of the files reported; at the end nobody works.
SizesRight ==
  \A c \in Consumers : fileSize[c] = IF InLoop(c) THEN fdt[job[c].src].pos ELSE 0
BytesRight ==
  /\ SizesRight
  /\ stat.TotalByteCopied = SumFunctionOnSet(Credited, Files)
  /\ joined => \A t \in Threads : pc[t] = "exit"

\* A consumer neither gets to a file nor leaves it.
StaysAt(b) == (InLoop(b)' <=> InLoop(b)) /\ (InLoop(b) => job'[b] = job[b])

\* Consumers get to files and leave them one at a time.
LEMMA LoopStep ==
  ASSUME PcOK, JobOK, ~KillSignal, CalmNext
  PROVE  \/ \A b \in Consumers : StaysAt(b) /\ ~TakeFile(b) /\ ~ReportFile(b)
         \/ \E c \in Consumers : /\ TakeFile(c) \/ ReportFile(c)
                                /\ \A b \in Consumers \ {c} : StaysAt(b)
  <1>t. Consumers \subseteq Threads \ {Producer} /\ Producer \in Threads
    BY ThreadAssumption DEF Threads
  <1>0. job \in [Threads -> Jobs] /\ pc \in [Threads -> ConsumerPC \cup ProducerPC]
    BY DEF JobOK, PcOK
  <1>1. ASSUME NEW c \in Consumers, TakeFile(c) \/ ReportFile(c)
        PROVE  \A b \in Consumers \ {c} : StaysAt(b)
    <2>1. \A b \in Consumers \ {c} : job'[b] = job[b]
      BY <1>0, <1>1, <1>t DEF TakeFile, ReportFile
    <2>2. \A b \in Consumers \ {c} : InLoop(b)' <=> InLoop(b)
      BY <1>0, <1>1, <1>t DEF TakeFile, ReportFile, GotoAndSignal, Goto, InLoop
    <2> QED
      BY <2>1, <2>2 DEF StaysAt
  <1>2. ASSUME \A c \in Consumers : ~TakeFile(c) /\ ~ReportFile(c), NEW b \in Consumers
        PROVE  StaysAt(b)
    <2>1. InLoop(b)' <=> InLoop(b)
      BY <1>2, CopiersStep DEF Copiers, InLoop, ReadChunk, WriteChunk
    <2>2. job'[b] = job[b]
      <3>1. CASE \E c \in Consumers : ReadChunk(c)
        BY <3>1 DEF ReadChunk
      <3>2. CASE VisitFile \/ OpenFiles \/ OpenFails \/ FillSlot
        BY <1>0, <1>t, <3>2 DEF VisitFile, OpenFiles, OpenFails, FillSlot
      <3> QED
        BY <1>2, <3>1, <3>2, CalmFrame
    <2> QED
      BY <2>1, <2>2 DEF StaysAt
  <1> QED
    BY <1>1, <1>2

\* Only ReadChunk and ReportFile change what a consumer has counted of its file.
LEMMA BytesFrame ==
  ASSUME StatOK, CopyOK, ~KillSignal, CalmNext
  PROVE  /\ stat.TotalByteCopied \in Nat
         /\ \A c \in Consumers : ReportFile(c) =>
              /\ stat'.TotalByteCopied = stat.TotalByteCopied + fileSize[c]
              /\ fileSize' = [fileSize EXCEPT ![c] = 0]
         /\ \A c \in Consumers : ReadChunk(c) =>
              fileSize' = [fileSize EXCEPT ![c] = @ + 1]
         /\ (\A c \in Consumers : ~ReportFile(c)) => stat'.TotalByteCopied = stat.TotalByteCopied
         /\ (\A c \in Consumers : ~ReportFile(c) /\ ~ReadChunk(c)) => fileSize' = fileSize
  <1> USE DEF StatOK, Counters, Count, Counted
  <1>1. stat.TotalByteCopied \in Nat
    OBVIOUS
  <1>2. ASSUME NEW c \in Consumers, ReportFile(c)
        PROVE  /\ stat'.TotalByteCopied = stat.TotalByteCopied + fileSize[c]
               /\ fileSize' = [fileSize EXCEPT ![c] = 0]
    BY <1>2 DEF ReportFile
  <1>3. ASSUME NEW c \in Consumers, ReadChunk(c)
        PROVE  fileSize' = [fileSize EXCEPT ![c] = @ + 1]
    BY <1>3 DEF ReadChunk
  <1>4. ASSUME VisitSubdir \/ VisitFifo \/ OpenFails
        PROVE  stat'.TotalByteCopied = stat.TotalByteCopied
    BY <1>4 DEF VisitSubdir, VisitFifo, OpenFails
  <1> HIDE DEF StatOK, Counters, Count, Counted
  <1>5. (\A c \in Consumers : ~ReportFile(c)) => VisitSubdir \/ VisitFifo \/ OpenFails \/ stat' = stat
    BY DEF CalmNext, Consume, Produce, Finished, vars, EnterBuffer, SleepOnBuffer, TakeFile, ReadChunk,
       WriteChunk, LoadCount, UncountFds, OpenRoot, LeaveWhenKilled, SkipDots, VisitFile, CheckFdCount,
       SleepOnFdCount, CheckKill, OpenFiles, CountFds, FindSlot, LastCheckKill, FillSlot, LeaveSubdir,
       RaiseDone, Join, SpuriousWakeup
  <1>6. (\A c \in Consumers : ~ReportFile(c) /\ ~ReadChunk(c)) => fileSize' = fileSize
    BY DEF CalmNext, Consume, Produce, Finished, vars, copy, EnterBuffer, SleepOnBuffer, TakeFile,
       WriteChunk, LoadCount, UncountFds, OpenRoot, LeaveWhenKilled, SkipDots, VisitSubdir, VisitFifo,
       VisitFile, CheckFdCount, SleepOnFdCount, CheckKill, OpenFiles, OpenFails, CountFds, FindSlot,
       LastCheckKill, FillSlot, LeaveSubdir, RaiseDone, Join, SpuriousWakeup
  <1> QED
    BY <1>1, <1>2, <1>3, <1>4, <1>5, <1>6

\* The count of a consumer that keeps its file or has none stays right.
LEMMA SizeKept ==
  ASSUME NEW b \in Consumers, SizesRight, StaysAt(b), fileSize'[b] = fileSize[b],
         InLoop(b) => fdt'[job[b].src].pos = fdt[job[b].src].pos
  PROVE  fileSize'[b] = IF InLoop(b)' THEN fdt'[job'[b].src].pos ELSE 0
  BY DEF SizesRight, StaysAt

\* A consumer counts as many chunks as it reads of its file.
LEMMA SizesStep ==
  ASSUME PcOK, JobOK, WalkOK, FdsOK, CopyOK, StatOK, HasFile, HandsRight, PlaceRight, OwnedRight,
         CopyPlaces, SizesRight, ~KillSignal, CalmNext
  PROVE  SizesRight'
  <1>0. /\ Buffer \in [Slots -> Jobs] /\ job \in [Threads -> Jobs] /\ bufIndex \in [Threads -> Slots]
        /\ fdt \in [Fds -> OpenFile] /\ fileSize \in [Consumers -> Nat]
        /\ pc \in [Threads -> ConsumerPC \cup ProducerPC]
    BY DEF JobOK, FdsOK, CopyOK, PcOK
  <1>t. Consumers \subseteq Threads \ {Producer} /\ Producer \in Threads
    BY ThreadAssumption DEF Threads
  <1> DEFINE Sized(b) == fileSize'[b] = IF InLoop(b)' THEN fdt'[job'[b].src].pos ELSE 0
  <1> SUFFICES \A b \in Consumers : Sized(b)
    BY DEF SizesRight, InLoop
  <1>o. \A b \in Consumers : InLoop(b) => job[b].src \in Fds /\ fdt[job[b].src].mode = "r"
    BY OwnFile DEF InLoop, Owned
  <1>p. ASSUME NEW a \in Consumers, InLoop(a), NEW b \in Consumers \ {a}, InLoop(b)
        PROVE  job[b].src # job[a].src
    <2>1. b \in Threads \ {a} /\ job[b].src # -1
      BY <1>p, <1>t DEF PlaceRight, InLoop
    <2> QED
      BY <1>p, <2>1, OwnFile DEF InLoop
  <1>1. ASSUME NEW c \in Consumers, TakeFile(c) PROVE \A b \in Consumers : Sized(b)
    <2>1. PICK k \in Slots : k = bufIndex[c]
      BY <1>0, <1>t
    <2>2. pc[c] = "c_take" /\ Buffer[k].src # -1
      BY <1>1, <2>1 DEF PlaceRight, TakeFile
    <2>3. job'[c] = Buffer[k] /\ UNCHANGED <<fdt, fileSize>>
      BY <1>0, <1>1, <1>t, <2>1 DEF TakeFile, copy
    <2>4. fdt'[job'[c].src].pos = 0 /\ fileSize'[c] = 0
      BY <2>2, <2>3 DEF CopyPlaces, SizesRight, InLoop
    <2>5. \A b \in Consumers \ {c} : StaysAt(b)
      BY <1>0, <1>1, <1>t DEF TakeFile, GotoAndSignal, Goto, InLoop, StaysAt
    <2> QED
      BY <2>3, <2>4, <2>5, SizeKept
  <1>2. ASSUME NEW c \in Consumers, ReadChunk(c) PROVE \A b \in Consumers : Sized(b)
    <2>1. PICK s \in Fds : s = job[c].src
      BY <1>2 DEF ReadChunk, Readable
    <2>2. /\ InLoop(c) /\ InLoop(c)' /\ job' = job
          /\ fdt' = [fdt EXCEPT ![s].pos = @ + 1]
          /\ \A b \in Consumers \ {c} : InLoop(b)' <=> InLoop(b)
      BY <1>0, <1>2, <1>t, <2>1 DEF ReadChunk, Goto, InLoop
    <2>3. fdt'[s].pos = fdt[s].pos + 1 /\ \A fd \in Fds \ {s} : fdt'[fd] = fdt[fd]
      BY <1>0, <2>2 DEF OpenFile
    <2>4. fileSize' = [fileSize EXCEPT ![c] = @ + 1]
      BY <1>2, BytesFrame
    <2>5. Sized(c)
      BY <1>0, <2>1, <2>2, <2>3, <2>4 DEF SizesRight
    <2>6. ASSUME NEW b \in Consumers \ {c} PROVE Sized(b)
      <3>1. InLoop(b) => job[b].src \in Fds \ {s}
        BY <1>o, <1>p, <2>1, <2>2
      <3>2. StaysAt(b) /\ fileSize'[b] = fileSize[b]
        BY <1>0, <2>2, <2>4 DEF StaysAt
      <3> QED
        BY <2>3, <3>1, <3>2, SizeKept
    <2> QED
      BY <2>5, <2>6
  <1>3. ASSUME NEW c \in Consumers, ReportFile(c) PROVE \A b \in Consumers : Sized(b)
    <2>1. InLoop(c) /\ ~InLoop(c)'
      BY <1>0, <1>3, <1>t DEF ReportFile, Goto, InLoop
    <2>2. \A b \in Consumers \ {c} : StaysAt(b)
      BY <1>0, <1>3, <1>t DEF ReportFile, Goto, InLoop, StaysAt
    <2>3. fileSize' = [fileSize EXCEPT ![c] = 0]
      BY <1>3, BytesFrame
    <2>4. \A fd \in Fds \ {job[c].src, job[c].dst} : fdt'[fd] = fdt[fd]
      BY <1>3 DEF ReportFile, CloseBoth, CloseFds
    <2>5. ASSUME NEW b \in Consumers \ {c} PROVE Sized(b)
      <3>1. InLoop(b) => job[b].src \in Fds \ {job[c].src, job[c].dst}
        <4>1. Owned(job[c])
          BY <2>1, OwnFile DEF InLoop
        <4>2. fdt[job[c].dst].mode = "w"
          BY <4>1 DEF Owned
        <4>3. InLoop(b) => job[b].src # job[c].src
          BY <1>p, <2>1
        <4> QED
          BY <1>o, <4>2, <4>3
      <3>2. fileSize'[b] = fileSize[b]
        BY <1>0, <2>3
      <3> QED
        BY <2>2, <2>4, <3>1, <3>2, SizeKept
    <2>6. Sized(c)
      BY <1>0, <2>1, <2>3
    <2> QED
      BY <2>5, <2>6
  <1>4. ASSUME \A c \in Consumers : ~TakeFile(c) /\ ~ReadChunk(c) /\ ~ReportFile(c)
        PROVE  \A b \in Consumers : Sized(b)
    <2>1. \A b \in Consumers : StaysAt(b)
      BY <1>4, LoopStep
    <2>2. fileSize' = fileSize
      BY <1>4, BytesFrame
    <2>3. \A b \in Consumers : InLoop(b) => fdt'[job[b].src] = fdt[job[b].src]
      <3>1. CASE OpenFiles
        <4>1. PICK s \in Fds, d \in Fds :
                /\ LowestFree(s, d)
                /\ fdt' = [fdt EXCEPT ![s] = [file |-> job[Producer].file, mode |-> "r", pos |-> 0],
                                      ![d] = [file |-> job[Producer].file, mode |-> "w", pos |-> 0]]
          BY <3>1 DEF OpenFiles
        <4>2. fdt[s].mode = "none" /\ fdt[d].mode = "none"
          BY <4>1 DEF LowestFree, Closed
        <4>3. \A fd \in Fds \ {s, d} : fdt'[fd] = fdt[fd]
          BY <1>0, <4>1
        <4> QED
          BY <1>o, <4>2, <4>3
      <3>2. CASE VisitFile \/ OpenFails \/ FillSlot
        BY <3>2 DEF VisitFile, OpenFails, FillSlot, copy
      <3> QED
        BY <1>4, <3>1, <3>2, CalmFrame
    <2> QED
      BY <2>1, <2>2, <2>3, SizeKept
  <1> QED
    BY <1>1, <1>2, <1>3, <1>4

\* The total grows by the length of a copy when its file is reported, and what
\* is counted of the other copies stays.
LEMMA CreditStep ==
  ASSUME PcOK, JobOK, FdsOK, CopyOK, StatOK, HandsRight, PlaceRight, OwnedRight,
         CopyPlaces, BytesRight, ~KillSignal, CalmNext
  PROVE  stat'.TotalByteCopied = SumFunctionOnSet(Credited', Files)
  <1>0. /\ Buffer \in [Slots -> Jobs] /\ job \in [Threads -> Jobs] /\ bufIndex \in [Threads -> Slots]
        /\ out \in [Files -> Seq(Chunk)] /\ fdt \in [Fds -> OpenFile]
        /\ pc \in [Threads -> ConsumerPC \cup ProducerPC]
    BY DEF JobOK, FdsOK, CopyOK, PcOK
  <1>t. Consumers \subseteq Threads \ {Producer} /\ Producer \in Threads
    BY ThreadAssumption DEF Threads
  <1> DEFINE Works(f) == \E c \in Consumers : InLoop(c) /\ job[c].file = f
  <1>1. stat.TotalByteCopied = SumFunctionOnSet(Credited, Files)
    BY DEF BytesRight
  <1>2. ASSUME \A f \in Files : Credited'[f] = Credited[f] PROVE Credited' = Credited
    BY <1>2 DEF Credited
  <1>3. ASSUME NEW c \in Consumers, TakeFile(c) PROVE Credited' = Credited
    <2>1. PICK k \in Slots : k = bufIndex[c]
      BY <1>0, <1>t
    <2>2. pc[c] = "c_take" /\ Buffer[k].src # -1 /\ Buffer[k].file \in Files
      BY <1>3, <2>1 DEF PlaceRight, TakeFile
    <2>3. job'[c] = Buffer[k] /\ out' = out /\ out[Buffer[k].file] = <<>>
      BY <1>0, <1>3, <1>t, <2>1, <2>2 DEF TakeFile, copy, CopyPlaces
    <2>4. \A b \in Consumers \ {c} : StaysAt(b)
      BY <1>0, <1>3, <1>t DEF TakeFile, GotoAndSignal, Goto, InLoop, StaysAt
    <2>5. \A f \in Files \ {Buffer[k].file} : Works(f)' <=> Works(f)
      BY <2>2, <2>3, <2>4 DEF StaysAt, InLoop
    <2>6. Len(out[Buffer[k].file]) = 0 /\ Len(out'[Buffer[k].file]) = 0
      BY <2>3
    <2>7. \A f \in Files : Credited'[f] = Credited[f]
      BY <2>3, <2>5, <2>6 DEF Credited
    <2> QED
      BY <1>2, <2>7
  <1>4. ASSUME NEW c \in Consumers, ReportFile(c)
        PROVE  stat'.TotalByteCopied = SumFunctionOnSet(Credited', Files)
    <2>1. InLoop(c) /\ ~InLoop(c)' /\ pc[c] = "c_read" /\ out' = out
      BY <1>0, <1>4, <1>t DEF ReportFile, Goto, InLoop
    <2>2. \A b \in Consumers \ {c} : StaysAt(b)
      BY <1>0, <1>4, <1>t DEF ReportFile, Goto, InLoop, StaysAt
    <2>3. PICK g \in Files : g = job[c].file /\ \A b \in Consumers \ {c} : job[b].file # g
      BY <1>t, <2>1, OwnFile DEF InLoop
    <2>4. fileSize[c] = fdt[job[c].src].pos /\ out[g] = Part(g, fdt[job[c].src].pos)
          /\ fdt[job[c].src].pos \in Nat
      <3>1. fdt[job[c].src].pos \in 0..Chunks[g] /\ out[g] = Part(g, fdt[job[c].src].pos)
        BY <2>1, <2>3 DEF CopyPlaces, Copying
      <3>2. fileSize[c] = fdt[job[c].src].pos
        BY <2>1 DEF BytesRight, SizesRight
      <3> QED
        BY <3>1, <3>2, TreeAssumption
    <2>5. Len(out[g]) = fileSize[c] /\ fileSize[c] \in Nat
      BY <2>4 DEF Part
    <2>6. Works(g) /\ ~Works(g)'
      BY <2>1, <2>2, <2>3 DEF StaysAt
    <2>7. Credited[g] = 0 /\ Credited'[g] = fileSize[c]
      BY <2>1, <2>5, <2>6 DEF Credited
    <2>8. \A f \in Files \ {g} : Works(f)' <=> Works(f)
      BY <2>1, <2>2, <2>3 DEF StaysAt
    <2>9. \A f \in Files \ {g} : Credited'[f] = Credited[f]
      BY <2>1, <2>8 DEF Credited
    <2>10. Credited \in [Files -> Nat] /\ Credited' \in [Files -> Nat]
      <3>1. Credited \in [Files -> Nat]
        BY <1>0 DEF Credited
      <3>2. \A f \in Files : Credited'[f] \in Nat
        BY <2>5, <2>7, <2>9, <3>1
      <3> QED
        BY <3>1, <3>2 DEF Credited
    <2>11. SumFunctionOnSet(Credited', Files) = SumFunctionOnSet(Credited, Files) - Credited[g] + Credited'[g]
      <3> HIDE DEF Works
      <3>1. PICK u, v : u = Credited /\ v = Credited'
        OBVIOUS
      <3>2. SumFunctionOnSet(v, Files) = SumFunctionOnSet(u, Files) - u[g] + v[g]
        BY <2>9, <2>10, <3>1, SumChange, FiniteAssumption
      <3> QED
        BY <3>1, <3>2
    <2>12. stat'.TotalByteCopied = stat.TotalByteCopied + fileSize[c]
           /\ stat.TotalByteCopied \in Nat
      BY <1>4, BytesFrame
    <2> QED
      BY <1>1, <2>5, <2>7, <2>11, <2>12
  <1>5. ASSUME \A c \in Consumers : ~TakeFile(c) /\ ~ReportFile(c) PROVE Credited' = Credited
    <2>1. \A b \in Consumers : StaysAt(b)
      BY <1>5, LoopStep
    <2>2. \A f : Works(f)' <=> Works(f)
      BY <2>1 DEF StaysAt
    <2>3. ASSUME NEW c \in Consumers, WriteChunk(c), NEW f \in Files, ~Works(f)
          PROVE  out'[f] = out[f]
      <3>1. InLoop(c)
        BY <2>3 DEF WriteChunk, InLoop
      <3>2. PICK d \in Fds : d = job[c].dst /\ fdt[d].file = job[c].file
        BY <3>1, OwnFile DEF InLoop, Owned
      <3>3. job[c].file # f
        BY <2>3, <3>1
      <3> QED
        BY <1>0, <2>3, <3>2, <3>3 DEF WriteChunk
    <2>4. \A f \in Files : ~Works(f) => out'[f] = out[f]
      BY <2>3, CopyFrame
    <2>5. \A f \in Files : Credited'[f] = Credited[f]
      BY <2>2, <2>4 DEF Credited
    <2> QED
      BY <1>2, <2>5
  <1>6. (\A c \in Consumers : ~ReportFile(c)) => stat'.TotalByteCopied = stat.TotalByteCopied
    BY BytesFrame
  <1>7. ASSUME Credited' = Credited, \A c \in Consumers : ~ReportFile(c)
        PROVE  stat'.TotalByteCopied = SumFunctionOnSet(Credited', Files)
    BY <1>1, <1>6, <1>7
  <1>8. ASSUME NEW c \in Consumers, TakeFile(c) PROVE \A b \in Consumers : ~ReportFile(b)
    BY <1>0, <1>8, <1>t DEF TakeFile, ReportFile, GotoAndSignal, Goto
  <1> QED
    BY <1>3, <1>4, <1>5, <1>7, <1>8

\* Once main has joined the threads, all are gone.
LEMMA JoinedStep ==
  ASSUME PcOK, joined => \A t \in Threads : pc[t] = "exit", CalmNext
  PROVE  joined' => \A t \in Threads : pc'[t] = "exit"
  <1>t. Consumers \subseteq Threads /\ Producer \in Threads
    BY DEF Threads
  <1>1. CASE \A t \in Threads : pc[t] = "exit"
    <2>1. \A c \in Consumers : ~Consume(c)
      BY <1>1, <1>t DEF Consume, EnterBuffer, SleepOnBuffer, TakeFile, ReadChunk, WriteChunk, ReportFile,
         LoadCount, UncountFds
    <2>2. ~Produce
      BY <1>1, <1>t DEF Produce, OpenRoot, LeaveWhenKilled, SkipDots, VisitSubdir, VisitFifo, VisitFile,
         NextEntry, Walking, CheckFdCount, SleepOnFdCount, CheckKill, OpenFiles, OpenFails, LoadCount,
         CountFds, FindSlot, SleepOnBuffer, LastCheckKill, FillSlot, LeaveSubdir, RaiseDone
    <2>3. \A t \in Threads : ~SpuriousWakeup(t)
      BY <1>1 DEF SpuriousWakeup
    <2>4. pc' = pc
      BY <2>1, <2>2, <2>3 DEF CalmNext, Join, Finished, vars
    <2> QED
      BY <1>1, <2>4
  <1>2. CASE ~joined /\ ~\A t \in Threads : pc[t] = "exit"
    <2>1. ~Join /\ ~Finished
      BY <1>2 DEF Join, Finished
    <2>2. joined' = joined
      BY <2>1 DEF CalmNext, Consume, Produce, vars, main, EnterBuffer, SleepOnBuffer, TakeFile, ReadChunk,
         WriteChunk, ReportFile, LoadCount, UncountFds, OpenRoot, LeaveWhenKilled, SkipDots, VisitSubdir,
         VisitFifo, VisitFile, CheckFdCount, SleepOnFdCount, CheckKill, OpenFiles, OpenFails, CountFds,
         FindSlot, LastCheckKill, FillSlot, LeaveSubdir, RaiseDone, SpuriousWakeup
    <2> QED
      BY <1>2, <2>2
  <1> QED
    BY <1>1, <1>2

\* When the program ends without an interrupt, the total that main prints is
\* the length of all the copies together (118; main.c 132).
THEOREM TotalIsRight == Spec => []TotalsAddUp
  <1> DEFINE Inv == ~KillSignal => CopyRight /\ BytesRight
  <1>1. Init => Inv
    <2> SUFFICES ASSUME Init PROVE CopyRight /\ BytesRight
      OBVIOUS
    <2>1. CopyRight
      BY InitCopyRight
    <2>2. /\ \A c \in Consumers : pc[c] = "c_lock" /\ fileSize[c] = 0
          /\ \A f \in Files : out[f] = <<>>
          /\ stat.TotalByteCopied = 0 /\ ~joined
      BY ThreadAssumption DEF Init, Counters, Threads
    <2>3. Credited \in [Files -> Nat] /\ \A f \in Files : Credited[f] = 0
      BY <2>2 DEF Credited
    <2>4. SumFunctionOnSet(Credited, Files) = 0
      BY <2>3, SumType, FiniteAssumption
    <2> QED
      BY <2>1, <2>2, <2>4 DEF BytesRight, SizesRight, InLoop
  <1>2. TypeOK /\ MutexRight /\ HandsRight /\ CalmRight /\ Inv /\ [Next]_vars => Inv'
    <2> SUFFICES ASSUME TypeOK, HandsRight, CalmRight, Inv, ~KillSignal, CalmNext
                 PROVE  CopyRight' /\ BytesRight'
      BY CalmStep DEF CalmRight
    <2>1. PlaceRight /\ OwnedRight /\ CopyRight /\ BytesRight
      BY DEF CalmRight
    <2>2. CopyRight'
      BY <2>1, CopyRightStep
    <2>3. SizesRight'
      BY <2>1, SizesStep DEF TypeOK, CopyRight, BytesRight
    <2>4. stat'.TotalByteCopied = SumFunctionOnSet(Credited', Files)
      BY <2>1, CreditStep DEF TypeOK, CopyRight
    <2>5. joined' => \A t \in Threads : pc'[t] = "exit"
      BY <2>1, JoinedStep DEF TypeOK, BytesRight
    <2> QED
      BY <2>2, <2>3, <2>4, <2>5 DEF BytesRight
  <1>3. TypeOK /\ Inv => TotalsAddUp
    <2> SUFFICES ASSUME Inv, joined, ~KillSignal
                 PROVE  stat.TotalByteCopied = SumFunction([f \in Files |-> Len(out[f])])
      BY DEF TotalsAddUp
    <2>1. \A c \in Consumers : ~InLoop(c)
      BY DEF BytesRight, InLoop, Threads
    <2>2. Credited = [f \in Files |-> Len(out[f])]
      BY <2>1 DEF Credited
    <2>3. SumFunction(Credited) = SumFunctionOnSet(Credited, Files)
      BY DEF SumFunction, Credited
    <2>4. stat.TotalByteCopied = SumFunctionOnSet(Credited, Files)
      BY DEF BytesRight
    <2> QED
      BY <2>2, <2>3, <2>4
  <1> QED
    BY <1>1, <1>2, <1>3, TypeCorrect, HandsHold, CalmHolds, PTL DEF Spec
=============================================================================
