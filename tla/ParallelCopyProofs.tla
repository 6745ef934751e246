------------------------- MODULE ParallelCopyProofs -------------------------
(***************************************************************************)
(* What holds of pCp for every tree, pool, buffer and limit, with or       *)
(* without an interrupt.                                                   *)
(***************************************************************************)
EXTENDS ParallelCopy, TLAPS

ConsumerStep(c) ==
  \/ EnterBuffer(c) \/ SleepOnBuffer(c, "c_sleep", "c_wait") \/ TakeFile(c)
  \/ ReadChunk(c) \/ WriteChunk(c) \/ ReportFile(c)
  \/ LoadCount(c, "c_count", "c_store") \/ UncountFds(c)

USE ThreadAssumption, SizeAssumption, TreeAssumption

\* The walk stays in the tree: the parent of a directory below the root is a
\* directory (the return from a recursive call).
LEMMA ParentInTree ==
  ASSUME NEW d \in Dirs
  PROVE  Parent(d) \in Dirs \cup {NoDir} /\ (d # Root => Parent(d) \in Dirs)
  BY DEF Parent

\* The copier starts with the types it keeps.
LEMMA InitTypeOK == Init => TypeOK
  <1> SUFFICES ASSUME Init PROVE TypeOK
    OBVIOUS
  <1> USE DEF Init
  <1>1. /\ pc \in [Threads -> ConsumerPC \cup ProducerPC]
        /\ \A c \in Consumers : pc[c] \in ConsumerPC
        /\ pc[Producer] = "p_start"
    BY DEF Threads, ConsumerPC, ProducerPC
  <1>2. NoJob \in Jobs
    BY DEF NoJob, Jobs
  <1>3. Closed \in OpenFile /\ Closed.mode = "none"
    BY DEF Closed, OpenFile
  <1>4. <<NoFile, 0>> \in Chunk
    BY DEF Chunk
  <1>5. Buffer \in [Slots -> Jobs] /\ job \in [Threads -> Jobs]
    BY <1>2
  <1>6. /\ fdt \in [Fds -> OpenFile]
        /\ \A fd \in Fds : fdt[fd].mode # "none" => fdt[fd].file \in Files
    BY <1>3
  <1>7. chunk \in [Consumers -> Chunk] /\ out \in [Files -> Seq(Chunk)]
    BY <1>4
  <1>8. 1 \in Slots
    BY DEF Slots
  <1>9. stat \in [Counters -> Nat]
    OBVIOUS
  <1>10. /\ Mutex_m = NoThread /\ Mutex_open_file = NoThread
         /\ OpenedFileCount = 0 /\ tmp \in [Threads -> Int]
         /\ cwd \in Dirs
         /\ at \in [Dirs -> Nat]
    OBVIOUS
  <1>11. /\ bufIndex \in [Threads -> Slots]
         /\ fileSize \in [Consumers -> Nat]
         /\ hpc = "idle" /\ hslot \in Slots /\ spurious = 0
    BY <1>8
  <1>f. FlagsOK
    BY DEF FlagsOK
  <1> HIDE DEF Init
  <1>12. pc[Producer] \in ProducerPC /\ pc[Producer] # "exit"
         /\ ~(pc[Producer] \in ProducerPC \ {"p_start", "p_next", "exit"})
         /\ hpc \in HandlerPC
    BY <1>1, <1>11 DEF ProducerPC, HandlerPC
  <1> QED
    BY <1>1, <1>5, <1>6, <1>7, <1>9, <1>10, <1>11, <1>12, <1>f
    DEF TypeOK, PcOK, LockOK, CountOK, WalkOK, JobOK, HasFile, FdsOK, CopyOK, StatOK, HandlerOK

\* Every thread stays within its own labels.
LEMMA PcStep ==
  ASSUME PcOK, [Next]_vars
  PROVE  PcOK'
  <1> USE DEF PcOK, Goto, GotoAndSignal, Broadcast, Threads, ConsumerPC, ProducerPC,
      AfterReturn, HandlerStep
  <1>1. ASSUME NEW c \in Consumers, EnterBuffer(c) PROVE PcOK'
    BY <1>1 DEF EnterBuffer
  <1>2. ASSUME NEW c \in Consumers, SleepOnBuffer(c, "c_sleep", "c_wait") PROVE PcOK'
    BY <1>2 DEF SleepOnBuffer
  <1>3. ASSUME NEW c \in Consumers, TakeFile(c) PROVE PcOK'
    BY <1>3 DEF TakeFile
  <1>4. ASSUME NEW c \in Consumers, ReadChunk(c) PROVE PcOK'
    BY <1>4, SMTT(30) DEF ReadChunk
  <1>5. ASSUME NEW c \in Consumers, WriteChunk(c) PROVE PcOK'
    BY <1>5 DEF WriteChunk
  <1>6. ASSUME NEW c \in Consumers, ReportFile(c) PROVE PcOK'
    BY <1>6 DEF ReportFile
  <1>7. ASSUME NEW c \in Consumers, LoadCount(c, "c_count", "c_store") PROVE PcOK'
    BY <1>7 DEF LoadCount
  <1>8. ASSUME NEW c \in Consumers, UncountFds(c) PROVE PcOK'
    BY <1>8 DEF UncountFds
  <1>9. CASE OpenRoot
    BY <1>9 DEF OpenRoot
  <1>10. CASE LeaveWhenKilled
    BY <1>10 DEF LeaveWhenKilled
  <1>11. CASE SkipDots
    BY <1>11 DEF SkipDots
  <1>12. CASE VisitSubdir
    BY <1>12 DEF VisitSubdir
  <1>13. CASE VisitFifo
    BY <1>13 DEF VisitFifo
  <1>14. CASE VisitFile
    BY <1>14 DEF VisitFile
  <1>15. CASE CheckFdCount
    BY <1>15 DEF CheckFdCount
  <1>16. CASE SleepOnFdCount
    BY <1>16 DEF SleepOnFdCount
  <1>17. CASE CheckKill
    BY <1>17 DEF CheckKill
  <1>18. CASE OpenFiles
    BY <1>18 DEF OpenFiles
  <1>19. CASE OpenFails
    BY <1>19 DEF OpenFails
  <1>20. CASE LoadCount(Producer, "p_count", "p_store")
    BY <1>20 DEF LoadCount
  <1>21. CASE CountFds
    BY <1>21 DEF CountFds
  <1>22. CASE FindSlot
    BY <1>22 DEF FindSlot
  <1>23. CASE SleepOnBuffer(Producer, "p_sleep", "p_wait")
    BY <1>23 DEF SleepOnBuffer
  <1>24. CASE LastCheckKill
    BY <1>24 DEF LastCheckKill
  <1>25. CASE FillSlot
    BY <1>25 DEF FillSlot
  <1>26. CASE LeaveSubdir
    BY <1>26 DEF LeaveSubdir
  <1>27. CASE RaiseDone
    BY <1>27 DEF RaiseDone
  <1>28. CASE Interrupt
    BY <1>28 DEF Interrupt
  <1>29. CASE HandlerCloseSource
    BY <1>29 DEF HandlerCloseSource
  <1>30. CASE HandlerClearSlot
    BY <1>30 DEF HandlerClearSlot
  <1>31. CASE HandlerCloseDest
    BY <1>31 DEF HandlerCloseDest
  <1>32. CASE HandlerResetCount
    BY <1>32 DEF HandlerResetCount
  <1>33. CASE HandlerWake
    BY <1>33 DEF HandlerWake
  <1>34. CASE Join
    BY <1>34 DEF Join
  <1>35. ASSUME NEW t \in Threads, SpuriousWakeup(t) PROVE PcOK'
    BY <1>35 DEF SpuriousWakeup
  <1>36. CASE UNCHANGED vars
    BY <1>36 DEF vars
  <1>37. CASE Finished
    BY <1>37 DEF Finished, vars
  <1> HIDE DEF PcOK, Goto, GotoAndSignal, Broadcast, Threads, ConsumerPC, ProducerPC,
      AfterReturn, HandlerStep
  <1> QED
    BY <1>1, <1>2, <1>3, <1>4, <1>5, <1>6, <1>7, <1>8, <1>9, <1>10, <1>11, <1>12, <1>13, <1>14, <1>15, <1>16,
       <1>17, <1>18, <1>19, <1>20, <1>21, <1>22, <1>23, <1>24, <1>25, <1>26, <1>27, <1>28, <1>29, <1>30, <1>31,
       <1>32, <1>33, <1>34, <1>35, <1>36, <1>37
       DEF Next, Consume, Produce, Handle

\* The mutexes.
LEMMA LockStep ==
  ASSUME LockOK, [Next]_vars
  PROVE  LockOK'
  <1> USE DEF LockOK, Threads,
      fdCount, buf, walk, copy, main
  <1>1. ASSUME NEW c \in Consumers, EnterBuffer(c) PROVE LockOK'
    BY <1>1 DEF EnterBuffer
  <1>2. ASSUME NEW c \in Consumers, SleepOnBuffer(c, "c_sleep", "c_wait") PROVE LockOK'
    BY <1>2 DEF SleepOnBuffer
  <1>3. ASSUME NEW c \in Consumers, TakeFile(c) PROVE LockOK'
    BY <1>3 DEF TakeFile
  <1>4. ASSUME NEW c \in Consumers, LoadCount(c, "c_count", "c_store") PROVE LockOK'
    BY <1>4 DEF LoadCount
  <1>5. ASSUME NEW c \in Consumers, UncountFds(c) PROVE LockOK'
    BY <1>5 DEF UncountFds
  <1>6. CASE CheckFdCount
    BY <1>6 DEF CheckFdCount
  <1>7. CASE SleepOnFdCount
    BY <1>7 DEF SleepOnFdCount
  <1>8. CASE LoadCount(Producer, "p_count", "p_store")
    BY <1>8 DEF LoadCount
  <1>9. CASE CountFds
    BY <1>9 DEF CountFds
  <1>10. CASE FindSlot
    BY <1>10 DEF FindSlot
  <1>11. CASE SleepOnBuffer(Producer, "p_sleep", "p_wait")
    BY <1>11 DEF SleepOnBuffer
  <1>12. CASE LastCheckKill
    BY <1>12 DEF LastCheckKill
  <1>13. CASE FillSlot
    BY <1>13 DEF FillSlot
  <1>14. CASE UNCHANGED <<Mutex_m, Mutex_open_file>>
    BY <1>14
  <1> HIDE DEF LockOK, Threads
  <1> QED
    BY <1>1, <1>2, <1>3, <1>4, <1>5, <1>6, <1>7, <1>8, <1>9, <1>10, <1>11, <1>12, <1>13, <1>14
    DEF Next, Consume, Produce, Handle, HandlerStep, Finished, vars, fdCount, buf, walk, copy,
        main, ReadChunk, WriteChunk, ReportFile, OpenRoot, LeaveWhenKilled, SkipDots, VisitSubdir, VisitFifo,
        VisitFile, CheckKill, OpenFiles, OpenFails, LeaveSubdir, RaiseDone, Interrupt, HandlerCloseSource,
        HandlerClearSlot, HandlerCloseDest, HandlerResetCount, HandlerWake, Join, SpuriousWakeup


\* The flags.
LEMMA FlagsStep ==
  ASSUME FlagsOK, [Next]_vars
  PROVE  FlagsOK'
  <1> USE DEF FlagsOK,
      fdCount, buf, walk, copy, main
  <1>1. CASE RaiseDone
    BY <1>1 DEF RaiseDone
  <1>2. CASE Interrupt
    BY <1>2 DEF Interrupt, HandlerStep
  <1>3. CASE Join
    BY <1>3 DEF Join
  <1>4. CASE UNCHANGED <<Done, KillSignal, joined>>
    BY <1>4
  <1> HIDE DEF FlagsOK
  <1> QED
    BY <1>1, <1>2, <1>3, <1>4
    DEF Next, Consume, Produce, Handle, HandlerStep, Finished, vars, fdCount, buf, walk, copy,
        main, EnterBuffer, SleepOnBuffer, TakeFile, ReadChunk, WriteChunk, ReportFile, LoadCount, UncountFds,
        OpenRoot, LeaveWhenKilled, SkipDots, VisitSubdir, VisitFifo, VisitFile, CheckFdCount, SleepOnFdCount,
        CheckKill, OpenFiles, OpenFails, CountFds, FindSlot, LastCheckKill, FillSlot, LeaveSubdir,
        HandlerCloseSource, HandlerClearSlot, HandlerCloseDest, HandlerResetCount, HandlerWake, SpuriousWakeup


\* The buffer and the jobs.
LEMMA JobStep ==
  ASSUME JobOK, PcOK, HasFile, HandlerOK, [Next]_vars
  PROVE  JobOK'
  <1> USE DEF JobOK, HasFile, PcOK, HandlerOK, NoJob, Jobs, Threads, ProducerPC,
      fdCount, buf, walk, copy, main
  <1>1. ASSUME NEW c \in Consumers, TakeFile(c) PROVE JobOK'
    <2>1. Buffer[bufIndex[c]] \in Jobs
      OBVIOUS
    <2>2. [Buffer[bufIndex[c]] EXCEPT !.src = -1] \in Jobs
      BY <2>1
    <2>3. Buffer' \in [Slots -> Jobs]
      BY <1>1, <2>2 DEF TakeFile, EmptySlot
    <2> QED
      BY <1>1, <2>1, <2>3 DEF TakeFile
  <1>2. ASSUME NEW c \in Consumers, ReadChunk(c) PROVE JobOK'
    <2>1. CASE KillSignal
      <3>1. job' = [job EXCEPT ![c] = NoJob] /\ UNCHANGED <<Buffer, bufIndex>>
        BY <1>2, <2>1 DEF ReadChunk
      <3> QED
        BY <3>1
    <2>2. CASE ~KillSignal
      BY <1>2, <2>2 DEF ReadChunk
    <2> QED
      BY <2>1, <2>2
  <1>3. ASSUME NEW c \in Consumers, ReportFile(c) PROVE JobOK'
    BY <1>3 DEF ReportFile
  <1>4. ASSUME NEW c \in Consumers, EnterBuffer(c) PROVE JobOK'
    BY <1>4 DEF EnterBuffer
  <1>5. CASE VisitFile
    BY <1>5 DEF VisitFile
  <1>6. CASE CheckKill
    BY <1>6 DEF CheckKill
  <1>7. CASE OpenFiles
    BY <1>7 DEF OpenFiles
  <1>8. CASE OpenFails
    BY <1>8 DEF OpenFails
  <1>9. CASE FindSlot
    BY <1>9 DEF FindSlot
  <1>10. CASE LastCheckKill
    BY <1>10 DEF LastCheckKill
  <1>11. CASE FillSlot
    BY <1>11 DEF FillSlot, Filled
  <1>12. CASE HandlerClearSlot
    <2>1. Buffer[hslot] \in Jobs
      OBVIOUS
    <2>2. [Buffer[hslot] EXCEPT !.src = -1] \in Jobs
      <3> DEFINE j == Buffer[hslot]
      <3> HIDE DEF j
      <3>1. ASSUME j \in Jobs PROVE [j EXCEPT !.src = -1] \in Jobs
        BY <3>1, ZenonT(60)
      <3> QED
        BY <2>1, <3>1 DEF j
    <2> QED
      BY <1>12, <2>2 DEF HandlerClearSlot, HandlerStep
  <1>13. CASE UNCHANGED <<Buffer, job, bufIndex>>
    BY <1>13
  <1> HIDE DEF JobOK, HasFile, PcOK, HandlerOK, NoJob, Jobs, Threads, ProducerPC
  <1> QED
    BY <1>1, <1>2, <1>3, <1>4, <1>5, <1>6, <1>7, <1>8, <1>9, <1>10, <1>11, <1>12, <1>13
    DEF Next, Consume, Produce, Handle, HandlerStep, Finished, vars, fdCount, buf, walk, copy,
        main, SleepOnBuffer, WriteChunk, LoadCount, UncountFds, OpenRoot, LeaveWhenKilled, SkipDots,
        VisitSubdir, VisitFifo, CheckFdCount, SleepOnFdCount, CountFds, LeaveSubdir, RaiseDone, Interrupt,
        HandlerCloseSource, HandlerCloseDest, HandlerResetCount, HandlerWake, Join, SpuriousWakeup


\* The descriptor table.
LEMMA FdsStep ==
  ASSUME FdsOK, JobOK, HasFile, PcOK, [Next]_vars
  PROVE  FdsOK'
  <1> USE DEF FdsOK, HasFile, PcOK, ProducerPC, OpenFile, Closed, CloseFds, CloseBoth, Readable,
      fdCount, buf, walk, copy, main
  <1>1. ASSUME NEW c \in Consumers, ReadChunk(c) PROVE FdsOK'
    <2>1. CASE KillSignal
      BY <1>1, <2>1 DEF ReadChunk
    <2>2. CASE ~KillSignal
      <3> DEFINE fd == job[c].src
      <3>1. fd \in Fds /\ fdt[fd] \in OpenFile
        BY <1>1 DEF ReadChunk
      <3> HIDE DEF fd
      <3>2. [fdt[fd] EXCEPT !.pos = @ + 1] \in OpenFile
        <4>1. fdt[fd].pos + 1 \in Nat
          BY <3>1
        <4> QED
          BY <3>1, <4>1
      <3>3. fdt' = [fdt EXCEPT ![fd] = [fdt[fd] EXCEPT !.pos = @ + 1]]
        BY <1>1, <2>2, <3>1 DEF ReadChunk, fd
      <3> QED
        BY <3>1, <3>2, <3>3
    <2> QED
      BY <2>1, <2>2
  <1>2. ASSUME NEW c \in Consumers, ReportFile(c) PROVE FdsOK'
    BY <1>2 DEF ReportFile
  <1>3. CASE OpenFiles
    <2> DEFINE f == job[Producer].file
    <2>1. f \in Files
      BY <1>3 DEF OpenFiles
    <2>2. PICK s, d \in Fds :
            fdt' = [fdt EXCEPT ![s] = [file |-> f, mode |-> "r", pos |-> 0],
                               ![d] = [file |-> f, mode |-> "w", pos |-> 0]]
      BY <1>3 DEF OpenFiles
    <2>3. /\ [file |-> f, mode |-> "r", pos |-> 0] \in OpenFile
          /\ [file |-> f, mode |-> "w", pos |-> 0] \in OpenFile
      BY <2>1
    <2> QED
      BY <2>1, <2>2, <2>3
  <1>4. CASE LastCheckKill
    <2>1. CASE KillSignal
      BY <1>4, <2>1 DEF LastCheckKill
    <2>2. CASE ~KillSignal
      BY <1>4, <2>2 DEF LastCheckKill
    <2> QED
      BY <2>1, <2>2
  <1>5. CASE HandlerCloseSource
    BY <1>5 DEF HandlerCloseSource
  <1>6. CASE HandlerCloseDest
    BY <1>6 DEF HandlerCloseDest
  <1>7. CASE UNCHANGED fdt
    BY <1>7
  <1> HIDE DEF FdsOK, HasFile, PcOK, ProducerPC, OpenFile, Closed, CloseFds, CloseBoth, Readable
  <1> QED
    BY <1>1, <1>2, <1>3, <1>4, <1>5, <1>6, <1>7
    DEF Next, Consume, Produce, Handle, HandlerStep, Finished, vars, fdCount, buf, walk, copy,
        main, EnterBuffer, SleepOnBuffer, TakeFile, WriteChunk, LoadCount, UncountFds, OpenRoot,
        LeaveWhenKilled, SkipDots, VisitSubdir, VisitFifo, VisitFile, CheckFdCount, SleepOnFdCount, CheckKill,
        OpenFails, CountFds, FindSlot, FillSlot, LeaveSubdir, RaiseDone, Interrupt, HandlerClearSlot,
        HandlerResetCount, HandlerWake, Join, SpuriousWakeup


\* The chunks, the sizes and what was written.
LEMMA CopyStep ==
  ASSUME CopyOK, FdsOK, [Next]_vars
  PROVE  CopyOK'
  <1> USE DEF CopyOK, FdsOK, Chunk, OpenFile, Readable,
      fdCount, buf, walk, copy, main
  <1>1. ASSUME NEW c \in Consumers, ReadChunk(c) PROVE CopyOK'
    <2>1. CASE KillSignal
      BY <1>1, <2>1 DEF ReadChunk
    <2>2. CASE ~KillSignal
      <3> DEFINE of == fdt[job[c].src]
      <3>1. of \in OpenFile
        BY <1>1 DEF ReadChunk
      <3>2. <<of.file, of.pos + 1>> \in Chunk
        BY <3>1
      <3>3. /\ chunk' = [chunk EXCEPT ![c] = <<of.file, of.pos + 1>>]
            /\ fileSize' = [fileSize EXCEPT ![c] = @ + 1]
            /\ out' = out
        BY <1>1, <2>2 DEF ReadChunk
      <3> QED
        BY <3>2, <3>3
    <2> QED
      BY <2>1, <2>2
  <1>2. ASSUME NEW c \in Consumers, WriteChunk(c) PROVE CopyOK'
    <2>1. UNCHANGED <<chunk, fileSize>>
      BY <1>2 DEF WriteChunk
    <2>2. out' \in [Files -> Seq(Chunk)]
      <3> DEFINE fd == job[c].dst
      <3>1. CASE fd \in Fds /\ fdt[fd].mode = "w"
        <4>1. fdt[fd].file \in Files
          BY <3>1
        <4>2. Append(out[fdt[fd].file], chunk[c]) \in Seq(Chunk)
          BY <4>1
        <4>3. out' = [out EXCEPT ![fdt[fd].file] = Append(@, chunk[c])]
          BY <1>2, <3>1 DEF WriteChunk
        <4> QED
          BY <4>1, <4>2, <4>3
      <3>2. CASE ~(fd \in Fds /\ fdt[fd].mode = "w")
        BY <1>2, <3>2 DEF WriteChunk
      <3> QED
        BY <3>1, <3>2
    <2> QED
      BY <2>1, <2>2
  <1>3. ASSUME NEW c \in Consumers, ReportFile(c) PROVE CopyOK'
    BY <1>3 DEF ReportFile
  <1>4. CASE UNCHANGED <<chunk, fileSize, out>>
    BY <1>4
  <1> HIDE DEF CopyOK, FdsOK, Chunk, OpenFile, Readable
  <1> QED
    BY <1>1, <1>2, <1>3, <1>4
    DEF Next, Consume, Produce, Handle, HandlerStep, Finished, vars, fdCount, buf, walk, copy,
        main, EnterBuffer, SleepOnBuffer, TakeFile, LoadCount, UncountFds, OpenRoot, LeaveWhenKilled, SkipDots,
        VisitSubdir, VisitFifo, VisitFile, CheckFdCount, SleepOnFdCount, CheckKill, OpenFiles, OpenFails,
        CountFds, FindSlot, LastCheckKill, FillSlot, LeaveSubdir, RaiseDone, Interrupt, HandlerCloseSource,
        HandlerClearSlot, HandlerCloseDest, HandlerResetCount, HandlerWake, Join, SpuriousWakeup


\* The counters main prints.
LEMMA StatStep ==
  ASSUME StatOK, CopyOK, [Next]_vars
  PROVE  StatOK'
  <1> USE DEF StatOK, CopyOK, Counters, Count, Counted,
      fdCount, buf, walk, copy, main
  <1>1. ASSUME NEW c \in Consumers, ReportFile(c) PROVE StatOK'
    <2>1. stat' = [stat EXCEPT !["TotalByteCopied"] = @ + fileSize[c],
                              !["FilesSucceed"] = @ + 1]
      BY <1>1 DEF ReportFile
    <2>2. stat["TotalByteCopied"] + fileSize[c] \in Nat /\ stat["FilesSucceed"] + 1 \in Nat
      OBVIOUS
    <2> QED
      BY <2>1, <2>2
  <1>2. CASE VisitSubdir
    BY <1>2 DEF VisitSubdir
  <1>3. CASE VisitFifo
    BY <1>3 DEF VisitFifo
  <1>4. CASE OpenFails
    BY <1>4 DEF OpenFails
  <1>5. CASE UNCHANGED stat
    BY <1>5
  <1> HIDE DEF StatOK, CopyOK, Counters, Count, Counted
  <1> QED
    BY <1>1, <1>2, <1>3, <1>4, <1>5
    DEF Next, Consume, Produce, Handle, HandlerStep, Finished, vars, fdCount, buf, walk, copy,
        main, EnterBuffer, SleepOnBuffer, TakeFile, ReadChunk, WriteChunk, LoadCount, UncountFds, OpenRoot,
        LeaveWhenKilled, SkipDots, VisitFile, CheckFdCount, SleepOnFdCount, CheckKill, OpenFiles, CountFds,
        FindSlot, LastCheckKill, FillSlot, LeaveSubdir, RaiseDone, Interrupt, HandlerCloseSource,
        HandlerClearSlot, HandlerCloseDest, HandlerResetCount, HandlerWake, Join, SpuriousWakeup


\* The handler.
LEMMA HandlerStepOK ==
  ASSUME HandlerOK, [Next]_vars
  PROVE  HandlerOK'
  <1> USE DEF HandlerOK, HandlerPC, Slots, HandlerStep,
      fdCount, buf, walk, copy, main
  <1>1. CASE Interrupt
    BY <1>1 DEF Interrupt
  <1>2. CASE HandlerCloseSource
    BY <1>2 DEF HandlerCloseSource
  <1>3. CASE HandlerClearSlot
    BY <1>3 DEF HandlerClearSlot
  <1>4. CASE HandlerCloseDest
    BY <1>4 DEF HandlerCloseDest
  <1>5. CASE HandlerResetCount
    BY <1>5 DEF HandlerResetCount
  <1>6. CASE HandlerWake
    BY <1>6 DEF HandlerWake
  <1>7. ASSUME NEW t \in Threads, SpuriousWakeup(t) PROVE HandlerOK'
    BY <1>7 DEF SpuriousWakeup
  <1>8. CASE UNCHANGED <<hpc, hslot, spurious>>
    BY <1>8
  <1> HIDE DEF HandlerOK, HandlerPC, Slots, HandlerStep
  <1> QED
    BY <1>1, <1>2, <1>3, <1>4, <1>5, <1>6, <1>7, <1>8
    DEF Next, Consume, Produce, Handle, HandlerStep, Finished, vars, fdCount, buf, walk, copy,
        main, EnterBuffer, SleepOnBuffer, TakeFile, ReadChunk, WriteChunk, ReportFile, LoadCount, UncountFds,
        OpenRoot, LeaveWhenKilled, SkipDots, VisitSubdir, VisitFifo, VisitFile, CheckFdCount, SleepOnFdCount,
        CheckKill, OpenFiles, OpenFails, CountFds, FindSlot, LastCheckKill, FillSlot, LeaveSubdir, RaiseDone,
        Join


\* Nobody but the producer moves it, except to wake it up; its directory and
\* its file are its own.
LEMMA OthersWakeProducer ==
  ASSUME PcOK, JobOK, [Next]_vars, ~Produce
  PROVE  /\ UNCHANGED <<cwd, at>> /\ job'[Producer] = job[Producer]
         /\ \/ pc'[Producer] = pc[Producer]
            \/ pc[Producer] = "p_wait" /\ pc'[Producer] = "p_lock"
            \/ pc[Producer] = "p_fdWait" /\ pc'[Producer] = "p_fdLock"
  <1> USE DEF PcOK, JobOK, Threads, ConsumerPC, ProducerPC, Goto, GotoAndSignal, Broadcast,
      fdCount, buf, walk, copy, main, HandlerStep
  <1>1. ASSUME NEW c \in Consumers, Consume(c)
        PROVE  UNCHANGED <<cwd, at>> /\ job'[Producer] = job[Producer]
    BY <1>1 DEF Consume, EnterBuffer, SleepOnBuffer, TakeFile, ReadChunk, WriteChunk,
       ReportFile, LoadCount, UncountFds
  <1>2. ASSUME NEW c \in Consumers, Consume(c)
        PROVE  \/ pc'[Producer] = pc[Producer]
               \/ pc[Producer] = "p_wait" /\ pc'[Producer] = "p_lock"
               \/ pc[Producer] = "p_fdWait" /\ pc'[Producer] = "p_fdLock"
    <2>1. CASE pc' = [pc EXCEPT ![c] = pc'[c]]
      BY <1>2, <2>1, ThreadAssumption
    <2>2. CASE TakeFile(c)
      BY <1>2, <2>2, ThreadAssumption DEF TakeFile
    <2>3. CASE UncountFds(c)
      BY <1>2, <2>3, ThreadAssumption DEF UncountFds
    <2>4. QED
      BY <1>2, <2>1, <2>2, <2>3 DEF Consume, EnterBuffer, SleepOnBuffer, ReadChunk, WriteChunk,
         ReportFile, LoadCount
  <1>3. CASE Interrupt \/ Handle \/ Join
    BY <1>3 DEF Interrupt, Handle, HandlerCloseSource, HandlerClearSlot, HandlerCloseDest,
       HandlerResetCount, HandlerWake, Join
  <1>4. ASSUME NEW t \in Threads, SpuriousWakeup(t)
        PROVE  /\ UNCHANGED <<cwd, at>> /\ job'[Producer] = job[Producer]
               /\ \/ pc'[Producer] = pc[Producer]
                  \/ pc[Producer] = "p_wait" /\ pc'[Producer] = "p_lock"
                  \/ pc[Producer] = "p_fdWait" /\ pc'[Producer] = "p_fdLock"
    BY <1>4 DEF SpuriousWakeup
  <1>5. CASE UNCHANGED vars \/ Finished
    BY <1>5 DEF Finished, vars
  <1> QED
    BY <1>1, <1>2, <1>3, <1>4, <1>5 DEF Next

\* The walk.
LEMMA WalkStep ==
  ASSUME WalkOK, PcOK, JobOK, [Next]_vars
  PROVE  WalkOK'
  <1> USE DEF WalkOK, PcOK, Threads, ConsumerPC, ProducerPC, Goto, GotoAndSignal, Broadcast, walk,
      AfterReturn, Walking, NextEntry, Advance
  <1>1. CASE OpenRoot
    BY <1>1 DEF OpenRoot
  <1>2. CASE LeaveWhenKilled
    BY <1>2, ParentInTree DEF LeaveWhenKilled
  <1>3. CASE SkipDots
    BY <1>3 DEF SkipDots
  <1>4. CASE VisitSubdir
    BY <1>4 DEF VisitSubdir
  <1>5. CASE VisitFifo
    BY <1>5 DEF VisitFifo
  <1>6. CASE VisitFile
    BY <1>6 DEF VisitFile
  <1>7. CASE CheckFdCount
    BY <1>7 DEF CheckFdCount
  <1>8. CASE SleepOnFdCount
    BY <1>8 DEF SleepOnFdCount
  <1>9. CASE CheckKill
    BY <1>9, ParentInTree DEF CheckKill
  <1>10. CASE OpenFiles
    BY <1>10 DEF OpenFiles
  <1>11. CASE OpenFails
    BY <1>11 DEF OpenFails
  <1>12. CASE LoadCount(Producer, "p_count", "p_store")
    BY <1>12 DEF LoadCount
  <1>13. CASE CountFds
    BY <1>13 DEF CountFds
  <1>14. CASE FindSlot
    BY <1>14 DEF FindSlot
  <1>15. CASE SleepOnBuffer(Producer, "p_sleep", "p_wait")
    BY <1>15 DEF SleepOnBuffer
  <1>16. CASE LastCheckKill
    BY <1>16, ParentInTree DEF LastCheckKill
  <1>17. CASE FillSlot
    BY <1>17 DEF FillSlot
  <1>18. CASE LeaveSubdir
    BY <1>18, ParentInTree DEF LeaveSubdir
  <1>19. CASE RaiseDone
    BY <1>19 DEF RaiseDone
  <1>20. CASE ~Produce
    BY <1>20, OthersWakeProducer
  <1> HIDE DEF WalkOK, PcOK, Threads, ConsumerPC, ProducerPC, Goto, GotoAndSignal, Broadcast, walk,
      AfterReturn, Walking, NextEntry, Advance
  <1> QED
    BY <1>1, <1>2, <1>3, <1>4, <1>5, <1>6, <1>7, <1>8, <1>9, <1>10, <1>11, <1>12, <1>13, <1>14, <1>15, <1>16,
       <1>17, <1>18, <1>19, <1>20 DEF Produce

\* The file the producer works on.
LEMMA HasFileStep ==
  ASSUME HasFile, PcOK, JobOK, [Next]_vars
  PROVE  HasFile'
  <1> USE DEF HasFile, PcOK, JobOK, Threads, ConsumerPC, ProducerPC, Goto, GotoAndSignal, Broadcast,
      AfterReturn, Walking, NextEntry, NoJob, Jobs
  <1>1. CASE OpenRoot
    BY <1>1 DEF OpenRoot
  <1>2. CASE LeaveWhenKilled
    BY <1>2 DEF LeaveWhenKilled
  <1>3. CASE SkipDots
    BY <1>3 DEF SkipDots
  <1>4. CASE VisitSubdir
    BY <1>4 DEF VisitSubdir
  <1>5. CASE VisitFifo
    BY <1>5 DEF VisitFifo
  <1>6. CASE VisitFile
    BY <1>6 DEF VisitFile
  <1>7. CASE CheckFdCount
    BY <1>7 DEF CheckFdCount
  <1>8. CASE SleepOnFdCount
    BY <1>8 DEF SleepOnFdCount
  <1>9. CASE CheckKill
    BY <1>9 DEF CheckKill
  <1>10. CASE OpenFiles
    BY <1>10 DEF OpenFiles
  <1>11. CASE OpenFails
    BY <1>11 DEF OpenFails
  <1>12. CASE LoadCount(Producer, "p_count", "p_store")
    BY <1>12 DEF LoadCount
  <1>13. CASE CountFds
    BY <1>13 DEF CountFds
  <1>14. CASE FindSlot
    BY <1>14 DEF FindSlot
  <1>15. CASE SleepOnBuffer(Producer, "p_sleep", "p_wait")
    BY <1>15 DEF SleepOnBuffer
  <1>16. CASE LastCheckKill
    BY <1>16 DEF LastCheckKill
  <1>17. CASE FillSlot
    BY <1>17 DEF FillSlot
  <1>18. CASE LeaveSubdir
    BY <1>18 DEF LeaveSubdir
  <1>19. CASE RaiseDone
    BY <1>19 DEF RaiseDone
  <1>20. CASE ~Produce
    BY <1>20, OthersWakeProducer
  <1> HIDE DEF HasFile, PcOK, JobOK, Threads, ConsumerPC, ProducerPC, Goto, GotoAndSignal, Broadcast,
      AfterReturn, Walking, NextEntry, NoJob, Jobs
  <1> QED
    BY <1>1, <1>2, <1>3, <1>4, <1>5, <1>6, <1>7, <1>8, <1>9, <1>10, <1>11, <1>12, <1>13, <1>14, <1>15, <1>16,
       <1>17, <1>18, <1>19, <1>20 DEF Produce

\* The counter of open descriptors and the values loaded from it.
LEMMA CountTypeStep ==
  ASSUME CountOK, [Next]_vars
  PROVE  CountOK'
  <1> USE DEF CountOK, Threads, HandlerStep,
      fdCount, buf, walk, copy, main
  <1>1. ASSUME NEW c \in Consumers, LoadCount(c, "c_count", "c_store") PROVE CountOK'
    BY <1>1 DEF LoadCount
  <1>2. ASSUME NEW c \in Consumers, UncountFds(c) PROVE CountOK'
    BY <1>2 DEF UncountFds
  <1>3. CASE LoadCount(Producer, "p_count", "p_store")
    BY <1>3 DEF LoadCount
  <1>4. CASE CountFds
    BY <1>4 DEF CountFds
  <1>5. CASE HandlerResetCount
    BY <1>5 DEF HandlerResetCount
  <1>6. CASE UNCHANGED <<OpenedFileCount, tmp>>
    BY <1>6
  <1> HIDE DEF CountOK, Threads, HandlerStep
  <1> QED
    BY <1>1, <1>2, <1>3, <1>4, <1>5, <1>6
    DEF Next, Consume, Produce, Handle, HandlerStep, Finished, vars, fdCount, buf, walk, copy,
        main, EnterBuffer, SleepOnBuffer, TakeFile, ReadChunk, WriteChunk, ReportFile, OpenRoot,
        LeaveWhenKilled, SkipDots, VisitSubdir, VisitFifo, VisitFile, CheckFdCount, SleepOnFdCount, CheckKill,
        OpenFiles, OpenFails, FindSlot, LastCheckKill, FillSlot, LeaveSubdir, RaiseDone, Interrupt,
        HandlerCloseSource, HandlerClearSlot, HandlerCloseDest, HandlerWake, Join, SpuriousWakeup

\* Type correctness (startProducerThread, startConsumerThread, MySignalHandler).
THEOREM TypeCorrect == Spec => []TypeOK
  <1>1. TypeOK /\ [Next]_vars => TypeOK'
    <2> SUFFICES ASSUME TypeOK, [Next]_vars PROVE TypeOK'
      OBVIOUS
    <2> USE DEF TypeOK
    <2>1. PcOK'
      BY PcStep
    <2>2. LockOK' /\ FlagsOK' /\ HandlerOK'
      BY LockStep, FlagsStep, HandlerStepOK
    <2>3. JobOK' /\ FdsOK' /\ CopyOK' /\ StatOK'
      BY JobStep, FdsStep, CopyStep, StatStep
    <2>4. WalkOK' /\ HasFile'
      BY WalkStep, HasFileStep
    <2>5. CountOK'
      BY CountTypeStep
    <2> QED
      BY <2>1, <2>2, <2>3, <2>4, <2>5
  <1> QED
    BY InitTypeOK, <1>1, PTL DEF Spec

-----------------------------------------------------------------------------
\* The inductive invariant behind CountBounded: the bound holds at the labels
\* where the producer has passed its test, and for the values the threads have
\* loaded.  It needs no mutual exclusion and survives the handler's reset.
CountInv ==
  /\ OpenedFileCount <= MaxOpen + 2
  /\ pc[Producer] \in {"p_check", "p_open", "p_count"} => OpenedFileCount <= MaxOpen
  /\ pc[Producer] = "p_store" => tmp[Producer] <= MaxOpen
  /\ \A c \in Consumers : pc[c] = "c_store" => tmp[c] <= MaxOpen + 2


\* The producer tests OpenedFileCount before each file, and each change after the
\* test is by the producer itself, a consumer that lowers it or the handler that
\* resets it (myfunctions.h 125-128, 226-265, 336).
LEMMA CountStep ==
  ASSUME PcOK, CountOK, CountInv, [Next]_vars
  PROVE  CountOK' /\ CountInv'
  <1> USE DEF PcOK, CountOK, CountInv, Goto, GotoAndSignal, Broadcast, Threads, ConsumerPC, ProducerPC,
      AfterReturn, HandlerStep, fdCount, TooManyOpen
  <1>1. ASSUME NEW c \in Consumers, EnterBuffer(c) PROVE CountOK' /\ CountInv'
    BY <1>1, SMTT(30) DEF EnterBuffer
  <1>2. ASSUME NEW c \in Consumers, SleepOnBuffer(c, "c_sleep", "c_wait") PROVE CountOK' /\ CountInv'
    BY <1>2 DEF SleepOnBuffer
  <1>3. ASSUME NEW c \in Consumers, TakeFile(c) PROVE CountOK' /\ CountInv'
    BY <1>3 DEF TakeFile
  <1>4. ASSUME NEW c \in Consumers, ReadChunk(c) PROVE CountOK' /\ CountInv'
    BY <1>4 DEF ReadChunk
  <1>5. ASSUME NEW c \in Consumers, WriteChunk(c) PROVE CountOK' /\ CountInv'
    BY <1>5 DEF WriteChunk
  <1>6. ASSUME NEW c \in Consumers, ReportFile(c) PROVE CountOK' /\ CountInv'
    BY <1>6 DEF ReportFile
  <1>7. ASSUME NEW c \in Consumers, LoadCount(c, "c_count", "c_store") PROVE CountOK' /\ CountInv'
    BY <1>7 DEF LoadCount
  <1>8. ASSUME NEW c \in Consumers, UncountFds(c) PROVE CountOK' /\ CountInv'
    BY <1>8, SMTT(30) DEF UncountFds
  <1>9. CASE OpenRoot
    BY <1>9 DEF OpenRoot
  <1>10. CASE LeaveWhenKilled
    BY <1>10 DEF LeaveWhenKilled
  <1>11. CASE SkipDots
    BY <1>11 DEF SkipDots
  <1>12. CASE VisitSubdir
    BY <1>12 DEF VisitSubdir
  <1>13. CASE VisitFifo
    BY <1>13 DEF VisitFifo
  <1>14. CASE VisitFile
    BY <1>14 DEF VisitFile
  <1>15. CASE CheckFdCount
    BY <1>15 DEF CheckFdCount
  <1>16. CASE SleepOnFdCount
    BY <1>16 DEF SleepOnFdCount
  <1>17. CASE CheckKill
    BY <1>17 DEF CheckKill
  <1>18. CASE OpenFiles
    BY <1>18 DEF OpenFiles
  <1>19. CASE OpenFails
    BY <1>19 DEF OpenFails
  <1>20. CASE LoadCount(Producer, "p_count", "p_store")
    BY <1>20 DEF LoadCount
  <1>21. CASE CountFds
    BY <1>21 DEF CountFds
  <1>22. CASE FindSlot
    BY <1>22 DEF FindSlot
  <1>23. CASE SleepOnBuffer(Producer, "p_sleep", "p_wait")
    BY <1>23 DEF SleepOnBuffer
  <1>24. CASE LastCheckKill
    BY <1>24, SMTT(30) DEF LastCheckKill
  <1>25. CASE FillSlot
    BY <1>25 DEF FillSlot
  <1>26. CASE LeaveSubdir
    BY <1>26 DEF LeaveSubdir
  <1>27. CASE RaiseDone
    BY <1>27 DEF RaiseDone
  <1>28. CASE Interrupt
    BY <1>28 DEF Interrupt
  <1>29. CASE HandlerCloseSource
    BY <1>29 DEF HandlerCloseSource
  <1>30. CASE HandlerClearSlot
    BY <1>30 DEF HandlerClearSlot
  <1>31. CASE HandlerCloseDest
    BY <1>31 DEF HandlerCloseDest
  <1>32. CASE HandlerResetCount
    BY <1>32 DEF HandlerResetCount
  <1>33. CASE HandlerWake
    BY <1>33 DEF HandlerWake
  <1>34. CASE Join
    BY <1>34 DEF Join
  <1>35. ASSUME NEW t \in Threads, SpuriousWakeup(t) PROVE CountOK' /\ CountInv'
    BY <1>35 DEF SpuriousWakeup
  <1>36. CASE UNCHANGED vars
    BY <1>36 DEF vars
  <1>37. CASE Finished
    BY <1>37 DEF Finished, vars
  <1> HIDE DEF PcOK, CountOK, CountInv, Goto, GotoAndSignal, Broadcast, Threads, ConsumerPC, ProducerPC,
      AfterReturn, HandlerStep, fdCount, TooManyOpen
  <1> QED
    BY <1>1, <1>2, <1>3, <1>4, <1>5, <1>6, <1>7, <1>8, <1>9, <1>10, <1>11, <1>12, <1>13, <1>14, <1>15, <1>16,
       <1>17, <1>18, <1>19, <1>20, <1>21, <1>22, <1>23, <1>24, <1>25, <1>26, <1>27, <1>28, <1>29, <1>30, <1>31,
       <1>32, <1>33, <1>34, <1>35, <1>36, <1>37
       DEF Next, Consume, Produce, Handle

\* OpenedFileCount never exceeds MAX_OPEN_FILE_COUNT + 2, whatever the tree, the
\* pool and the moment of the interrupt (startProducerThread 226-264).
THEOREM CountIsBounded == Spec => []CountBounded
  <1>1. Init => CountInv
    BY DEF Init, CountInv, Threads
  <1>2. TypeOK /\ CountInv /\ [Next]_vars => CountInv'
    BY CountStep DEF TypeOK
  <1>3. CountInv => CountBounded
    BY DEF CountInv, CountBounded
  <1> QED
    BY <1>1, <1>2, <1>3, TypeCorrect, PTL DEF Spec
=============================================================================
