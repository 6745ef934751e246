------------------------- MODULE ShellWiringProofs -------------------------
(***************************************************************************)
(* The descriptors of the HW2 shell, for any number of processes, lines,   *)
(* failing calls and signals: what every descriptor is from the moment the *)
(* log is opened until a command runs, that a command therefore reads and  *)
(* writes what its line says, and how many descriptors a line leaves open. *)
(***************************************************************************)
EXTENDS ShellPipelineProofs, FiniteSetTheorems

-----------------------------------------------------------------------------
(* Types. *)

Command == [in : BOOLEAN, out : BOOLEAN, reads : BOOLEAN, writes : Nat]
Number  == Fds \cup {NoFd}
Kinds   == {"closed", "stdin", "stdout", "stderr", "log", "infile", "outfile"}
Files   == [kind : {"read", "write"}, pipe : Pipes] \cup [kind : Kinds, pipe : {0}]
Table   == [Fds -> Files]
Variables ==
  [line : Seq(Command), at : Nat, logFd : Number, readFd : Number, rd : Number, wr : Number,
   pid : Procs \cup {NoProc}, child : Procs \cup {NoProc}, hungry : BOOLEAN, left : Nat,
   made : Seq(Pipes)]

\* Where a process at a place is in its line.
AtCommand(place, l) ==
  /\ place \notin {"none", "zombie", "prompt", "log"} => l.at \in 1 .. Len(l.line)
  /\ place = "log" => l.line # <<>>

\* TypeOK with the types of all the variables, those of the line included.
Typed ==
  /\ fds \in [Procs -> Table]
  /\ pc \in [Procs -> Places]
  /\ local \in [Procs -> Variables]
  /\ parent \in [Procs -> Procs \cup {NoProc}]
  /\ content \in [Pipes -> 0 .. PipeSize]
  /\ lines \in Nat /\ faults \in Nat /\ signals \in Nat
  /\ \A p \in Procs : AtCommand(pc[p], local[p])

\* The constants as sets.
LEMMA SetsKnown ==
  /\ Fds \subseteq Nat /\ {0, 1, 2, 3, 4} \subseteq Fds /\ NoFd \notin Fds
  /\ IsFiniteSet(Fds) /\ Cardinality(Fds) = MaxFd
  /\ Pipes \subseteq Nat \ {0} /\ IsFiniteSet(Pipes)
  /\ Cardinality(Pipes) = MaxFd * Cardinality(Procs)
  /\ Lines \subseteq Seq(Command)
  <1>1. Fds \subseteq Nat /\ {0, 1, 2, 3, 4} \subseteq Fds /\ NoFd \notin Fds
    BY ShellPipelineAssumption DEF Fds, NoFd
  <1>2. IsFiniteSet(Fds) /\ Cardinality(Fds) = MaxFd
    BY ShellPipelineAssumption, FS_Interval DEF Fds
  <1>3. Cardinality(Procs) \in Nat
    BY ShellPipelineAssumption, FS_CardinalityType
  <1>4. MaxFd * Cardinality(Procs) \in Nat
    BY <1>3, ShellPipelineAssumption
  <1>5. Pipes \subseteq Nat \ {0}
    BY <1>4 DEF Pipes
  <1>6. IsFiniteSet(Pipes) /\ Cardinality(Pipes) = MaxFd * Cardinality(Procs)
    <2> DEFINE n == MaxFd * Cardinality(Procs)
    <2>1. n \in Nat
      BY <1>4
    <2> HIDE DEF n
    <2>2. IsFiniteSet(1 .. n) /\ Cardinality(1 .. n) = n
      BY <2>1, FS_Interval
    <2> QED  BY <2>2 DEF Pipes, n
  <1>7. Lines \subseteq Seq(Command)
    BY ShellPipelineAssumption DEF Command
  <1> QED  BY <1>1, <1>2, <1>5, <1>6, <1>7

\* Every open file that the code names is one, and a pipe has two.
LEMMA FilesKnown ==
  /\ \A k \in Kinds : File(k) \in Files
  /\ Closed \in Files /\ Terminal \in Files
  /\ \A n \in Pipes : ReadEnd(n) \in Files /\ WriteEnd(n) \in Files
  BY DEF Files, Kinds, File, Closed, Terminal, ReadEnd, WriteEnd

\* The lowest unused descriptor, when there is one.
LEMMA LowestKnown ==
  ASSUME NEW t \in Table
  PROVE  /\ Lowest(t) \in Number
         /\ Unused(t) = {} => Lowest(t) = NoFd
         /\ Unused(t) # {} => /\ Lowest(t) \in Fds /\ t[Lowest(t)] = Closed
                              /\ \A d \in Fds : t[d] = Closed => Lowest(t) <= d
  <1>1. CASE Unused(t) = {}
    BY <1>1 DEF Lowest, Number
  <1>2. CASE Unused(t) # {}
    <2>1. Unused(t) \subseteq Nat
      BY SetsKnown DEF Unused
    <2>2. \E d \in Unused(t) : \A e \in Unused(t) : d <= e
      BY <1>2, <2>1, LeastExists
    <2>3. Lowest(t) \in Unused(t) /\ \A e \in Unused(t) : Lowest(t) <= e
      BY <1>2, <2>2 DEF Lowest
    <2> QED  BY <1>2, <2>3 DEF Unused, Number
  <1> QED  BY <1>1, <1>2

\* What the calls do to a table.
LEMMA OpenedTable ==
  ASSUME NEW t \in Table, NEW f \in Files
  PROVE  Opened(t, f) \in Table
  BY LowestKnown DEF Opened, Table

\* close of a number, open or not.
LEMMA ShutTable ==
  ASSUME NEW t \in Table, NEW d
  PROVE  Shut(t, d) \in Table
  BY FilesKnown DEF Shut, Table

\* dup2 to any number.
LEMMA Dup2Table ==
  ASSUME NEW t \in Table, NEW d \in Fds, NEW e
  PROVE  Dup2(t, d, e) \in Table
  BY DEF Dup2, Table

\* The shell's own stdin put back.
LEMMA RestoredTable ==
  ASSUME NEW t \in Table
  PROVE  RestoreStdin(t) \in Table
  BY Dup2Table, SetsKnown DEF RestoreStdin, SavedIn

\* A redirection that does not fail.
LEMMA RedirectedTable ==
  ASSUME NEW t \in Table, NEW old \in Number, NEW new, CanRedirect(t, old, new)
  PROVE  Redirect(t, old, new) \in Table
  BY Dup2Table, ShutTable DEF Redirect, CanRedirect, IsOpen, Number

\* A process with an unused descriptor leaves a pipe that nobody holds.
LEMMA PipeIsFree ==
  ASSUME Typed, NEW p \in Procs, Unused(fds[p]) # {}
  PROVE  NewPipe \in Pipes \ Held
  <1> DEFINE X == Procs \X Fds
             f == [x \in X |-> fds[x[1]][x[2]].pipe]
  <1>1. IsFiniteSet(X) /\ Cardinality(X) = Cardinality(Procs) * MaxFd
    BY FS_Product, SetsKnown, ShellPipelineAssumption
  <1>2. PICK d \in Fds : fds[p][d] = Closed
    BY DEF Unused
  <1> DEFINE Y == X \ {<<p, d>>}
  <1>3. <<p, d>> \in X /\ f[<<p, d>>] = 0
    BY <1>2 DEF Closed, File
  <1>4. Cardinality(X) \in Nat /\ Cardinality(Procs) \in Nat
    BY <1>1, FS_CardinalityType, ShellPipelineAssumption
  <1>5. IsFiniteSet(Y) /\ Cardinality(Y) = Cardinality(X) - 1
    <2> HIDE DEF X
    <2> QED  BY <1>1, <1>3, FS_RemoveElement
  <1>6. \E n \in Pipes : n \notin Held
    <2> SUFFICES ASSUME Pipes \subseteq Held PROVE FALSE
      OBVIOUS
    <2> DEFINE Z == {x \in X : f[x] \in Pipes}
               g == [x \in Z |-> f[x]]
    <2>1. Z \in SUBSET Y
      BY <1>3, SetsKnown
    <2>2. IsFiniteSet(Z) /\ Cardinality(Z) <= Cardinality(Y)
      <3> HIDE DEF Y, Z
      <3> QED  BY <1>5, <2>1, FS_Subset
    <2>3. \A n \in Pipes : \E x \in Z : g[x] = n
      <3> TAKE n \in Pipes
      <3>1. PICK q \in Procs, e \in Fds : fds[q][e].pipe = n
        BY DEF Held
      <3>2. <<q, e>> \in Z /\ g[<<q, e>>] = n
        BY <3>1
      <3> QED  BY <3>2
    <2>4. g \in Surjection(Z, Pipes)
      <3>1. g \in [Z -> Pipes]
        OBVIOUS
      <3> HIDE DEF g, Z
      <3> QED  BY <2>3, <3>1 DEF Surjection
    <2>5. Cardinality(Pipes) <= Cardinality(Z)
      <3> HIDE DEF g, Z
      <3> QED  BY <2>2, <2>4, FS_Surjection
    <2>6. Cardinality(Z) \in Nat
      <3> HIDE DEF Z
      <3> QED  BY <2>2, FS_CardinalityType
    <2>7. Cardinality(Pipes) = Cardinality(X)
      <3> HIDE DEF X
      <3> QED  BY <1>1, <1>4, SetsKnown, ShellPipelineAssumption
    <2> HIDE DEF X, Y, Z
    <2> QED  BY <1>4, <1>5, <2>2, <2>5, <2>6, <2>7
  <1>7. \E n \in Pipes \ Held : \A m \in Pipes \ Held : n <= m
    <2>1. Pipes \ Held \subseteq Nat
      BY SetsKnown
    <2> QED  BY <1>6, <2>1, LeastExists
  <1> QED  BY <1>7 DEF NewPipe

-----------------------------------------------------------------------------
(* Steps as one of four forms: a process moves on, a process dies, fork, and *)
(* the end of waitpid.                                                       *)

\* p goes to a place, with the table t and the variables l.
Moves(p, place, t, l) ==
  /\ fds' = [fds EXCEPT ![p] = t]
  /\ local' = [local EXCEPT ![p] = l]
  /\ pc' = [pc EXCEPT ![p] = place]
  /\ parent' = parent

Counters == <<lines, faults, signals>>

\* What such a step leaves to be shown of the types.
LEMMA TypedAfterMove ==
  ASSUME Typed, NEW p \in Procs, NEW place \in Places, NEW t \in Table, NEW l \in Variables,
         Moves(p, place, t, l), AtCommand(place, l),
         content' \in [Pipes -> 0 .. PipeSize],
         lines' \in Nat, faults' \in Nat, signals' \in Nat
  PROVE  Typed'
  <1>1. fds' \in [Procs -> Table] /\ local' \in [Procs -> Variables] /\ pc' \in [Procs -> Places]
    BY DEF Typed, Moves
  <1>2. \A q \in Procs : AtCommand(pc'[q], local'[q])
    <2> TAKE q \in Procs
    <2>1. CASE q = p
      BY <2>1 DEF Typed, Moves
    <2>2. CASE q # p
      BY <2>2 DEF Typed, Moves
    <2> QED  BY <2>1, <2>2
  <1> QED  BY <1>1, <1>2 DEF Typed, Moves

\* A death, given the variables that the handler leaves.
LEMMA TypedAfterDeath ==
  ASSUME Typed, NEW p \in Procs, NEW vs \in [Procs -> Variables], Dies(p, vs),
         \A q \in Procs : AtCommand(pc[q], vs[q]),
         UNCHANGED content, lines' \in Nat, faults' \in Nat, signals' \in Nat
  PROVE  Typed'
  <1>1. Blank \in Variables
    BY DEF Blank, Variables, Number
  <1>2. AllClosed \in Table
    BY FilesKnown DEF AllClosed, Table
  <1>3. fds' \in [Procs -> Table] /\ local' \in [Procs -> Variables]
    BY <1>1, <1>2 DEF Typed, Dies
  <1>4. pc' \in [Procs -> Places] /\ parent' \in [Procs -> Procs \cup {NoProc}]
    BY DEF Typed, Dies, Places
  <1>5. \A q \in Procs : AtCommand(pc'[q], local'[q])
    <2> TAKE q \in Procs
    <2>1. CASE q = p
      BY <2>1 DEF Dies, AtCommand
    <2>2. CASE q # p
      <3>1. local'[q] = vs[q] /\ (pc'[q] = "none" \/ pc'[q] = pc[q])
        BY <2>2 DEF Dies
      <3> QED  BY <3>1 DEF AtCommand
    <2> QED  BY <2>1, <2>2
  <1> QED  BY <1>3, <1>4, <1>5 DEF Typed

\* Nothing has happened in the first state.
LEMMA TypedAtStart == Init => Typed
  <1> SUFFICES ASSUME Init PROVE Typed
    OBVIOUS
  <1>1. Blank \in Variables
    BY DEF Blank, Variables, Number
  <1>2. AllClosed \in Table
    BY FilesKnown DEF AllClosed, Table
  <1>3. FirstFds \in Table
    <2>1. File("stdout") \in Files /\ File("stderr") \in Files
      BY FilesKnown DEF Kinds
    <2> QED  BY <2>1, FilesKnown DEF FirstFds, Table
  <1>4. fds \in [Procs -> Table] /\ local \in [Procs -> Variables]
    BY <1>1, <1>2, <1>3 DEF Init
  <1>5. pc \in [Procs -> Places] /\ \A p \in Procs : AtCommand(pc[p], local[p])
    BY DEF Init, Places, AtCommand
  <1> QED  BY <1>4, <1>5, ShellPipelineAssumption DEF Init, Typed

\* The loop over the lines.

\* A line that is read replaces what was in the buffer.
LEMMA LineReadMoves ==
  ASSUME Typed, NEW p \in Procs, ReadLine(p) \/ EndOfInput(p)
  PROVE  \E line \in Seq(Command) \ {<<>>}, place \in {"prompt", "log"} :
           /\ pc[p] = "prompt" /\ lines' = lines + 1 /\ UNCHANGED <<content, faults, signals>>
           /\ [local[p] EXCEPT !.line = line] \in Variables
           /\ Moves(p, place, fds[p], [local[p] EXCEPT !.line = line])
  <1>0. local[p] \in Variables /\ local[p].line \in Seq(Command)
    BY DEF Typed, Variables
  <1>1. \A line \in Seq(Command) : [local[p] EXCEPT !.line = line] \in Variables
    BY <1>0 DEF Variables
  <1>2. /\ fds = [fds EXCEPT ![p] = fds[p]] /\ pc = [pc EXCEPT ![p] = pc[p]]
        /\ UNCHANGED <<fds, parent, content, faults, signals>> /\ lines' = lines + 1
        /\ pc[p] = "prompt"
    BY DEF Typed, ReadLine, EndOfInput
  <1>3. CASE ReadLine(p)
    <2>1. PICK l \in Lines :
            IF Len(l) > MaxCommands
            THEN local' = [local EXCEPT ![p].line = <<l[1]>>] /\ pc' = pc
            ELSE local' = [local EXCEPT ![p].line = l] /\ Goto(p, "log")
      BY <1>3 DEF ReadLine
    <2>2. l \in Seq(Command) \ {<<>>}
      BY SetsKnown, ShellPipelineAssumption
    <2>3. <<l[1]>> \in Seq(Command) \ {<<>>}
      BY <2>2
    <2>4. CASE Len(l) > MaxCommands
      <3>1. Moves(p, "prompt", fds[p], [local[p] EXCEPT !.line = <<l[1]>>])
        BY <1>2, <2>1, <2>4 DEF Moves
      <3> QED  BY <1>1, <1>2, <2>3, <3>1
    <2>5. CASE ~(Len(l) > MaxCommands)
      <3>1. Moves(p, "log", fds[p], [local[p] EXCEPT !.line = l])
        BY <1>2, <2>1, <2>5 DEF Moves, Goto
      <3> QED  BY <1>1, <1>2, <2>2, <3>1
    <2> QED  BY <2>4, <2>5
  <1>4. CASE EndOfInput(p)
    <2>1. <<local[p].line[1]>> \in Seq(Command) \ {<<>>}
      BY <1>0, <1>4 DEF EndOfInput
    <2>2. Moves(p, "log", fds[p], [local[p] EXCEPT !.line = <<local[p].line[1]>>])
      BY <1>2, <1>4 DEF EndOfInput, Moves, Goto
    <2> QED  BY <1>1, <1>2, <2>1, <2>2
  <1> QED  BY <1>3, <1>4

\* The variables when the log is opened.
WithLog(l, d) == [l EXCEPT !.logFd = d, !.readFd = 0, !.at = 1, !.made = <<>>]

\* The log is opened, or it cannot be.
LEMMA OpenLogMoves ==
  ASSUME Typed, NEW p \in Procs, OpenLog(p)
  PROVE  /\ pc[p] = "log" /\ UNCHANGED <<content, lines, signals>>
         /\ \E d \in Number, t \in Table :
              /\ \/ d = Lowest(fds[p]) /\ t = Opened(fds[p], File("log")) /\ faults' = faults
                 \/ d = NoFd /\ t = fds[p] /\ faults' = faults + 1
              /\ WithLog(local[p], d) \in Variables
              /\ Moves(p, "pipe", t, WithLog(local[p], d))
  <1>0. local[p] \in Variables /\ fds[p] \in Table /\ fds = [fds EXCEPT ![p] = fds[p]]
    BY DEF Typed
  <1>1. \A d \in Number : WithLog(local[p], d) \in Variables
    <2>1. 0 \in Number /\ <<>> \in Seq(Pipes)
      BY SetsKnown DEF Number
    <2> QED  BY <1>0, <2>1 DEF WithLog, Variables
  <1>2. pc[p] = "log" /\ Goto(p, "pipe") /\ UNCHANGED <<parent, content, lines, signals>>
    BY DEF OpenLog
  <1>3. CASE faults' = faults /\ SetFds(p, Opened(fds[p], File("log")))
             /\ local' = [local EXCEPT ![p].logFd = Lowest(fds[p]), ![p].readFd = 0,
                                       ![p].at = 1, ![p].made = <<>>]
    <2>1. Moves(p, "pipe", Opened(fds[p], File("log")), WithLog(local[p], Lowest(fds[p])))
      BY <1>0, <1>2, <1>3 DEF Moves, Goto, SetFds, WithLog, Typed
    <2>2. Lowest(fds[p]) \in Number /\ Opened(fds[p], File("log")) \in Table
      BY <1>0, LowestKnown, OpenedTable, FilesKnown DEF Kinds
    <2> QED  BY <1>1, <1>2, <1>3, <2>1, <2>2
  <1>4. CASE faults' = faults + 1 /\ UNCHANGED fds
             /\ local' = [local EXCEPT ![p].logFd = NoFd, ![p].readFd = 0,
                                       ![p].at = 1, ![p].made = <<>>]
    <2>1. Moves(p, "pipe", fds[p], WithLog(local[p], NoFd))
      BY <1>0, <1>2, <1>4 DEF Moves, Goto, WithLog, Typed
    <2>2. NoFd \in Number
      BY DEF Number
    <2> QED  BY <1>0, <1>1, <1>2, <1>4, <2>1, <2>2
  <1> QED  BY <1>3, <1>4 DEF OpenLog, Fault

\* The shell at the end of a line: it keeps its first command and child_pid.
Ended(l) == [Blank EXCEPT !.line = <<l.line[1]>>, !.child = l.child]

\* The end of a line.
LEMMA EndLineMoves ==
  ASSUME Typed, NEW p \in Procs, EndLine(p)
  PROVE  LET t == RestoreStdin(Shut(fds[p], local[p].logFd))
         IN /\ pc[p] = "end" /\ UNCHANGED <<content, lines, faults, signals>>
            /\ t \in Table /\ Ended(local[p]) \in Variables
            /\ Moves(p, "prompt", t, Ended(local[p]))
  <1>0. local[p] \in Variables /\ fds[p] \in Table
    BY DEF Typed
  <1>1. RestoreStdin(Shut(fds[p], local[p].logFd)) \in Table
    BY <1>0, ShutTable, RestoredTable
  <1>2. pc[p] = "end" /\ local[p].at \in 1 .. Len(local[p].line)
    BY DEF EndLine, Typed, AtCommand
  <1>3. <<local[p].line[1]>> \in Seq(Command) /\ local[p].child \in Procs \cup {NoProc}
    BY <1>0, <1>2 DEF Variables
  <1>4. Ended(local[p]) \in Variables
    <2>1. <<>> \in Seq(Pipes) /\ NoFd \in Number
      BY DEF Number
    <2> QED  BY <1>3, <2>1 DEF Ended, Blank, Variables
  <1>5. Moves(p, "prompt", RestoreStdin(Shut(fds[p], local[p].logFd)), Ended(local[p]))
    BY DEF EndLine, Moves, SetFds, Goto, Ended
  <1> QED  BY <1>1, <1>2, <1>4, <1>5 DEF EndLine

\* The loop over the commands.

\* A pipe has two descriptors, the lowest unused ones, and its number is that
\* of no pipe that somebody holds.
WithPipe(l, rd, wr, n) == [l EXCEPT !.rd = rd, !.wr = wr, !.made = Append(@, n)]

\* pipe(), which fails when there are no two unused descriptors.
LEMMA MakePipeMoves ==
  ASSUME Typed, NEW p \in Procs, MakePipe(p)
  PROVE  /\ pc[p] = "pipe" /\ UNCHANGED <<lines, faults, signals>>
         /\ content' \in [Pipes -> 0 .. PipeSize]
         /\ \/ Moves(p, "end", fds[p], local[p])
            \/ \E n \in Pipes, rd, wr \in Fds, t \in Table :
                 /\ rd = Lowest(fds[p]) /\ t = [fds[p] EXCEPT ![rd] = ReadEnd(n)]
                 /\ wr = Lowest(t) /\ fds[p][rd] = Closed /\ t[wr] = Closed
                 /\ [t EXCEPT ![wr] = WriteEnd(n)] \in Table
                 /\ WithPipe(local[p], rd, wr, n) \in Variables
                 /\ Moves(p, "fork", [t EXCEPT ![wr] = WriteEnd(n)],
                                     WithPipe(local[p], rd, wr, n))
  <1>0. local[p] \in Variables /\ fds[p] \in Table
    BY DEF Typed
  <1>1. pc[p] = "pipe" /\ UNCHANGED <<lines, faults, signals, parent>>
    BY DEF MakePipe
  <1>2. CASE Cardinality(Unused(fds[p])) < 2
    <2>1. Moves(p, "end", fds[p], local[p]) /\ content' = content
      BY <1>2 DEF MakePipe, Moves, Goto, Typed
    <2> QED  BY <1>1, <2>1 DEF Typed
  <1>3. CASE ~(Cardinality(Unused(fds[p])) < 2)
    <2> DEFINE n  == NewPipe
               rd == Lowest(fds[p])
               t  == Opened(fds[p], ReadEnd(n))
               wr == Lowest(t)
    <2>1. /\ SetFds(p, Opened(t, WriteEnd(n))) /\ Goto(p, "fork")
          /\ content' = [content EXCEPT ![n] = 0]
          /\ local' = [local EXCEPT ![p].rd = rd, ![p].wr = wr, ![p].made = Append(@, n)]
      BY <1>3 DEF MakePipe
    <2>2. IsFiniteSet(Unused(fds[p])) /\ Cardinality(Unused(fds[p])) \in Nat
      <3>1. Unused(fds[p]) \in SUBSET Fds
        BY DEF Unused
      <3> QED  BY <3>1, SetsKnown, FS_Subset, FS_CardinalityType
    <2>3. Unused(fds[p]) # {} /\ Unused(fds[p]) # {rd}
      <3> HIDE DEF rd
      <3> QED  BY <1>3, <2>2, FS_EmptySet, FS_Singleton
    <2>4. rd \in Fds /\ fds[p][rd] = Closed /\ rd # NoFd
      BY <1>0, <2>3, LowestKnown, SetsKnown
    <2>5. n \in Pipes
      BY <2>3, PipeIsFree
    <2>6. t = [fds[p] EXCEPT ![rd] = ReadEnd(n)]
      BY <2>4 DEF Opened
    <2>7. t \in Table
      <3>1. ReadEnd(n) \in Files
        BY <2>5, FilesKnown
      <3> HIDE DEF n
      <3> QED  BY <1>0, <3>1, OpenedTable
    <2>8. Unused(t) # {}
      <3> HIDE DEF rd, n
      <3>1. PICK d \in Unused(fds[p]) : d # rd
        BY <2>3
      <3>2. t[d] = Closed /\ d \in Fds
        BY <1>0, <2>6, <3>1 DEF Unused, Table
      <3> QED  BY <3>2 DEF Unused
    <2> HIDE DEF t, rd, n
    <2>9. wr \in Fds /\ t[wr] = Closed /\ wr # NoFd
      BY <2>7, <2>8, LowestKnown, SetsKnown
    <2>10. Opened(t, WriteEnd(n)) = [t EXCEPT ![wr] = WriteEnd(n)]
      BY <2>9 DEF Opened
    <2>11. [t EXCEPT ![wr] = WriteEnd(n)] \in Table
      <3>1. WriteEnd(n) \in Files
        BY <2>5, FilesKnown
      <3> QED  BY <2>7, <3>1, <2>10, OpenedTable
    <2> HIDE DEF wr
    <2>12. WithPipe(local[p], rd, wr, n) \in Variables
      <3>1. Append(local[p].made, n) \in Seq(Pipes)
        BY <1>0, <2>5 DEF Variables
      <3> QED  BY <1>0, <2>4, <2>9, <3>1 DEF WithPipe, Variables, Number
    <2>13. Moves(p, "fork", [t EXCEPT ![wr] = WriteEnd(n)], WithPipe(local[p], rd, wr, n))
      BY <1>1, <2>1, <2>10 DEF Moves, SetFds, Goto, WithPipe, Typed
    <2>14. content' \in [Pipes -> 0 .. PipeSize]
      BY <2>1, <2>5, ShellPipelineAssumption DEF Typed
    <2>15. rd = Lowest(fds[p]) /\ wr = Lowest(t)
      BY DEF rd, wr
    <2> QED  BY <1>1, <2>4, <2>5, <2>6, <2>7, <2>9, <2>11, <2>12, <2>13, <2>14, <2>15
  <1> QED  BY <1>2, <1>3

\* The descriptors a shell closes when a command is over.
After(l) == [l EXCEPT !.child = NoProc, !.readFd = l.rd,
                      !.at = IF l.at = Len(l.line) THEN @ ELSE @ + 1]

\* The next command, or the end of the line.
LEMMA AfterCommandMoves ==
  ASSUME Typed, NEW p \in Procs, AfterCommand(p)
  PROVE  LET t == Shut(Shut(fds[p], local[p].wr), local[p].readFd)
             place == IF local[p].at = Len(local[p].line) THEN "end" ELSE "pipe"
         IN /\ pc[p] = "reaped" /\ UNCHANGED <<content, lines, faults, signals>>
            /\ t \in Table /\ After(local[p]) \in Variables
            /\ AtCommand(place, After(local[p]))
            /\ Moves(p, place, t, After(local[p]))
  <1>0. local[p] \in Variables /\ fds[p] \in Table
    BY DEF Typed
  <1>1. Shut(Shut(fds[p], local[p].wr), local[p].readFd) \in Table
    BY <1>0, ShutTable
  <1>2. pc[p] = "reaped" /\ local[p].at \in 1 .. Len(local[p].line)
    BY DEF AfterCommand, Typed, AtCommand
  <1>3. After(local[p]) \in Variables
    <2> DEFINE next == IF local[p].at = Len(local[p].line) THEN local[p].at ELSE local[p].at + 1
    <2>1. next \in Nat /\ local[p].rd \in Number
      BY <1>0 DEF Variables
    <2>2. After(local[p]) = [local[p] EXCEPT !.child = NoProc, !.readFd = local[p].rd, !.at = next]
      BY DEF After
    <2> HIDE DEF next
    <2> QED  BY <1>0, <2>1, <2>2 DEF Variables
  <1>4. AtCommand(IF local[p].at = Len(local[p].line) THEN "end" ELSE "pipe", After(local[p]))
    <2>1. After(local[p]).line = local[p].line /\ Len(local[p].line) \in Nat
      BY <1>0 DEF After, Variables
    <2>2. After(local[p]).at = IF local[p].at = Len(local[p].line) THEN local[p].at
                               ELSE local[p].at + 1
      BY <1>0 DEF After, Variables
    <2> QED  BY <1>2, <2>1, <2>2 DEF AtCommand
  <1>5. Moves(p, IF local[p].at = Len(local[p].line) THEN "end" ELSE "pipe",
              Shut(Shut(fds[p], local[p].wr), local[p].readFd), After(local[p]))
    BY DEF AfterCommand, Moves, SetFds, Goto, After, ClosePipe, NoLongerChild, NextInput, IsLast, Typed
  <1> QED  BY <1>1, <1>2, <1>3, <1>4, <1>5 DEF AfterCommand

\* A step that leaves a process its table and its place in the line.

SameLine(l, m) ==
  /\ m.line = l.line /\ m.at = l.at /\ m.made = l.made
  /\ m.logFd = l.logFd /\ m.readFd = l.readFd /\ m.rd = l.rd /\ m.wr = l.wr

\* p goes from place to place and keeps its descriptors.
Keeps(p, place) ==
  \E l \in Variables : SameLine(local[p], l) /\ Moves(p, place, fds[p], l)

\* fork fails.
LEMMA ForkFailsKeeps ==
  ASSUME Typed, NEW p \in Procs, ForkFails(p)
  PROVE  /\ pc[p] = "fork" /\ Keeps(p, "end")
         /\ faults' = faults + 1 /\ UNCHANGED <<content, lines, signals>>
  <1>1. local[p] \in Variables /\ SameLine(local[p], local[p])
    BY DEF Typed, SameLine
  <1>2. Moves(p, "end", fds[p], local[p])
    BY DEF ForkFails, Moves, Goto, Typed
  <1> QED  BY <1>1, <1>2 DEF ForkFails, Keeps

\* The shell notes the pid that fork returned.
LEMMA NoteChildKeeps ==
  ASSUME Typed, NEW p \in Procs, NoteChild(p)
  PROVE  /\ pc[p] = "forked" /\ Keeps(p, "wait")
         /\ UNCHANGED <<content, lines, faults, signals>>
  <1> DEFINE l == [local[p] EXCEPT !.child = local[p].pid]
  <1>0. local[p] \in Variables
    BY DEF Typed
  <1>1. l \in Variables /\ SameLine(local[p], l)
    <2>1. l \in Variables
      BY <1>0 DEF Variables
    <2>2. SameLine(local[p], l)
      BY <1>0 DEF Variables, SameLine
    <2> QED  BY <2>1, <2>2
  <1>2. Moves(p, "wait", fds[p], l)
    BY DEF NoteChild, Moves, Goto, Typed
  <1> QED  BY <1>1, <1>2 DEF NoteChild, Keeps

\* exec succeeds, or the child goes on as a shell.
LEMMA ExecKeeps ==
  ASSUME Typed, NEW p \in Procs, Exec(p)
  PROVE  /\ pc[p] = "exec" /\ UNCHANGED <<content, lines, signals>>
         /\ \/ Keeps(p, "run") /\ faults' = faults
            \/ Keeps(p, "end") /\ faults' = faults + 1
  <1> DEFINE c == local[p].line[local[p].at]
             l == [local[p] EXCEPT !.hungry = c.reads, !.left = c.writes]
  <1>0. local[p] \in Variables /\ local[p].line \in Seq(Command)
    BY DEF Typed, Variables
  <1>1. local[p].at \in 1 .. Len(local[p].line)
    BY DEF Exec, Typed, AtCommand
  <1>2. c \in Command
    BY <1>0, <1>1
  <1>3. c.reads \in BOOLEAN /\ c.writes \in Nat
    <2> HIDE DEF c
    <2> QED  BY <1>2 DEF Command
  <1>4. l \in Variables /\ SameLine(local[p], l) /\ SameLine(local[p], local[p])
    <2> HIDE DEF c
    <2> QED  BY <1>0, <1>3 DEF Variables, SameLine
  <1>5. pc[p] = "exec" /\ UNCHANGED <<fds, parent, content, lines, signals>>
        /\ \/ /\ local' = [local EXCEPT ![p].hungry = c.reads, ![p].left = c.writes]
              /\ Goto(p, "run") /\ faults' = faults
           \/ faults' = faults + 1 /\ Goto(p, "end") /\ UNCHANGED local
    BY DEF Exec, Fault
  <1>6. \/ Moves(p, "run", fds[p], l) /\ faults' = faults
        \/ Moves(p, "end", fds[p], local[p]) /\ faults' = faults + 1
    BY <1>5 DEF Moves, Goto, Typed
  <1> HIDE DEF l, c
  <1> QED  BY <1>0, <1>4, <1>5, <1>6 DEF Keeps

\* A command that goes on, and a handler that finds no child.
LEMMA WorkKeeps ==
  ASSUME Typed, NEW p \in Procs,
         \/ Read(p) \/ ReadTerminal(p)
         \/ Write(p) /\ ~Dies(p, local)
         \/ Signal(p) /\ local' = [local EXCEPT ![p].child = NoProc] /\ UNCHANGED <<fds, pc, parent>>
  PROVE  Keeps(p, pc[p]) /\ content' \in [Pipes -> 0 .. PipeSize]
         /\ UNCHANGED <<lines, faults>> /\ signals' \in Nat
  <1>0. /\ local[p] \in Variables /\ fds = [fds EXCEPT ![p] = fds[p]]
        /\ pc = [pc EXCEPT ![p] = pc[p]] /\ local = [local EXCEPT ![p] = local[p]]
        /\ content \in [Pipes -> 0 .. PipeSize] /\ signals \in Nat
        /\ fds[p] \in Table /\ 0 \in Fds /\ 1 \in Fds
    BY SetsKnown DEF Typed
  <1>1. \A f \in Files : f.kind \in {"read", "write"} => f.pipe \in Pipes
    BY DEF Files, Kinds
  <1>2. fds[p][0] \in Files /\ fds[p][1] \in Files
    BY <1>0 DEF Table
  <1>3. ASSUME NEW l \in Variables, SameLine(local[p], l), local' = [local EXCEPT ![p] = l],
               UNCHANGED <<fds, pc, parent>>
        PROVE  Keeps(p, pc[p])
    BY <1>0, <1>3 DEF Keeps, Moves
  <1>4. SameLine(local[p], local[p])
    BY DEF SameLine
  <1>5. CASE Read(p)
    <2>1. UNCHANGED <<fds, pc, parent, lines, faults, signals>>
      BY <1>5 DEF Read
    <2>2. CASE Eats(p) /\ UNCHANGED content
      <3>1. [local[p] EXCEPT !.hungry = FALSE] \in Variables
            /\ SameLine(local[p], [local[p] EXCEPT !.hungry = FALSE])
        BY <1>0 DEF Variables, SameLine
      <3>2. local' = [local EXCEPT ![p] = [local[p] EXCEPT !.hungry = FALSE]]
        BY <2>2 DEF Eats
      <3> QED  BY <1>0, <1>3, <2>1, <2>2, <3>1, <3>2
    <2>3. CASE fds[p][0].kind = "read" /\ content[fds[p][0].pipe] > 0 /\ UNCHANGED local
               /\ content' = [content EXCEPT ![fds[p][0].pipe] = @ - 1]
      <3>1. fds[p][0].pipe \in Pipes
        BY <1>1, <1>2, <2>3
      <3>2. content' \in [Pipes -> 0 .. PipeSize]
        BY <1>0, <2>3, <3>1, ShellPipelineAssumption
      <3> QED  BY <1>0, <1>3, <1>4, <2>1, <2>3, <3>2
    <2> QED  BY <1>5, <2>2, <2>3 DEF Read
  <1>6. CASE ReadTerminal(p)
    <2>1. [local[p] EXCEPT !.hungry = FALSE] \in Variables
          /\ SameLine(local[p], [local[p] EXCEPT !.hungry = FALSE])
      BY <1>0 DEF Variables, SameLine
    <2>2. local' = [local EXCEPT ![p] = [local[p] EXCEPT !.hungry = FALSE]]
          /\ UNCHANGED <<fds, pc, parent, content, lines, faults, signals>>
      BY <1>6 DEF ReadTerminal, Eats
    <2> QED  BY <1>0, <1>3, <2>1, <2>2
  <1>7. CASE Write(p) /\ ~Dies(p, local)
    <2>1. /\ fds[p][1].kind = "write" => content[fds[p][1].pipe] < PipeSize
          /\ local' = [local EXCEPT ![p].left = @ - 1] /\ local[p].left > 0
          /\ content' = IF fds[p][1].kind = "write"
                        THEN [content EXCEPT ![fds[p][1].pipe] = @ + 1] ELSE content
          /\ UNCHANGED <<fds, pc, parent, lines, faults, signals>>
      BY <1>7 DEF Write
    <2>2. [local[p] EXCEPT !.left = @ - 1] \in Variables
          /\ SameLine(local[p], [local[p] EXCEPT !.left = @ - 1])
      <3>1. local[p].left - 1 \in Nat
        BY <1>0, <2>1 DEF Variables
      <3> QED  BY <1>0, <3>1 DEF Variables, SameLine
    <2>3. content' \in [Pipes -> 0 .. PipeSize]
      <3>1. CASE fds[p][1].kind = "write"
        <4>1. fds[p][1].pipe \in Pipes
          BY <1>1, <1>2, <3>1
        <4> QED  BY <1>0, <2>1, <3>1, <4>1, ShellPipelineAssumption
      <3> QED  BY <1>0, <2>1, <3>1
    <2> QED  BY <1>0, <1>3, <2>1, <2>2, <2>3
  <1>8. CASE Signal(p) /\ local' = [local EXCEPT ![p].child = NoProc] /\ UNCHANGED <<fds, pc, parent>>
    <2>1. /\ local' = [local EXCEPT ![p].child = NoProc] /\ signals' = signals + 1
          /\ UNCHANGED <<fds, pc, parent, content, lines, faults>>
      BY <1>8 DEF Signal
    <2>2. [local[p] EXCEPT !.child = NoProc] \in Variables
          /\ SameLine(local[p], [local[p] EXCEPT !.child = NoProc])
      BY <1>0 DEF Variables, SameLine
    <2>3. Keeps(p, pc[p])
      BY <1>3, <2>1, <2>2
    <2> QED  BY <1>0, <2>1, <2>3
  <1> QED  BY <1>5, <1>6, <1>7, <1>8

\* The child, up to the command.

\* The child closes the read end and the log; without a log it is a shell now.
LEMMA StartChildMoves ==
  ASSUME Typed, NEW p \in Procs, StartChild(p)
  PROVE  LET t == Shut(Shut(fds[p], local[p].rd), local[p].logFd)
             place == IF local[p].logFd = NoFd THEN "end" ELSE "redirect"
         IN /\ pc[p] = "child" /\ UNCHANGED <<content, lines, faults, signals>>
            /\ t \in Table /\ Moves(p, place, t, local[p])
  <1>1. fds[p] \in Table /\ local = [local EXCEPT ![p] = local[p]]
    BY DEF Typed
  <1>2. Shut(Shut(fds[p], local[p].rd), local[p].logFd) \in Table
    BY <1>1, ShutTable
  <1> QED  BY <1>1, <1>2 DEF StartChild, SetFds, Goto, Moves

\* The table of the child while it opens its files, and the two descriptors
\* that it makes 0 and 1 when all of them can be opened.
Readied(t, c)   == IF c.out /\ ~c.in THEN RestoreStdin(t) ELSE t
WithInput(t, c) == IF c.in THEN Opened(Readied(t, c), File("infile")) ELSE Readied(t, c)
WithFiles(t, c) == IF c.out THEN Opened(WithInput(t, c), File("outfile")) ELSE WithInput(t, c)
InFrom(t, l)    == IF l.line[l.at].in THEN Lowest(Readied(t, l.line[l.at])) ELSE l.readFd
OutTo(t, l)     == IF l.line[l.at].out THEN Lowest(WithInput(t, l.line[l.at]))
                   ELSE IF l.at = Len(l.line) THEN SavedOut ELSE l.wr
InDone(t, l)    == Redirect(WithFiles(t, l.line[l.at]), InFrom(t, l), 0)

\* Both redirections succeed, or the child is dead.
LEMMA RedirectChildMoves ==
  ASSUME Typed, NEW p \in Procs, RedirectChild(p)
  PROVE  LET t == fds[p]
             l == local[p]
             c == l.line[l.at]
         IN /\ pc[p] = "redirect" /\ UNCHANGED <<content, lines, faults, signals>>
            /\ \/ Dies(p, local)
               \/ /\ WithInput(t, c) \in Table /\ WithFiles(t, c) \in Table
                  /\ InFrom(t, l) \in Number /\ CanRedirect(WithFiles(t, c), InFrom(t, l), 0)
                  /\ OutTo(t, l) \in Number /\ CanRedirect(InDone(t, l), OutTo(t, l), 1)
                  /\ InDone(t, l) \in Table /\ Redirect(InDone(t, l), OutTo(t, l), 1) \in Table
                  /\ Moves(p, "exec", Redirect(InDone(t, l), OutTo(t, l), 1), l)
  <1> DEFINE l == local[p]
             c == l.line[l.at]
  <1>1. pc[p] = "redirect" /\ UNCHANGED <<content, lines, faults, signals>>
    BY DEF RedirectChild
  <1>2. l \in Variables /\ fds[p] \in Table /\ local = [local EXCEPT ![p] = l]
    BY DEF Typed
  <1>3. PICK found \in BOOLEAN :
       LET t0 == IF c.out /\ ~c.in THEN RestoreStdin(fds[p]) ELSE fds[p]
           t1 == IF c.in /\ found THEN Opened(t0, File("infile")) ELSE t0
           t2 == IF c.out /\ found THEN Opened(t1, File("outfile")) ELSE t1
           from == IF ~c.in THEN l.readFd ELSE IF found THEN Lowest(t0) ELSE NoFd
           to   == IF c.out THEN IF found THEN Lowest(t1) ELSE NoFd
                  ELSE IF IsLast(l) THEN SavedOut ELSE l.wr
           t3   == Redirect(t2, from, 0)
       IN IF CanRedirect(t2, from, 0) /\ CanRedirect(t3, to, 1)
          THEN /\ SetFds(p, Redirect(t3, to, 1))
               /\ Goto(p, "exec")
               /\ UNCHANGED <<local, parent>>
          ELSE Dies(p, local)
    BY DEF RedirectChild
  <1>4. Readied(fds[p], c) \in Table
    BY <1>2, RestoredTable DEF Readied
  <1>5. WithInput(fds[p], c) \in Table
    BY <1>4, OpenedTable, FilesKnown DEF WithInput, Kinds
  <1>6. WithFiles(fds[p], c) \in Table
    BY <1>5, OpenedTable, FilesKnown DEF WithFiles, Kinds
  <1>7. InFrom(fds[p], l) \in Number
    <2>1. Lowest(Readied(fds[p], c)) \in Number
      BY <1>4, LowestKnown
    <2>2. l.readFd \in Number
      BY <1>2 DEF Variables
    <2> QED  BY <2>1, <2>2 DEF InFrom
  <1>8. OutTo(fds[p], l) \in Number
    <2>1. Lowest(WithInput(fds[p], c)) \in Number
      BY <1>5, LowestKnown
    <2>2. l.wr \in Number /\ SavedOut \in Number
      BY <1>2, SetsKnown DEF Variables, Number, SavedOut
    <2> QED  BY <2>1, <2>2 DEF OutTo
  <1>9. \A t, d : ~CanRedirect(t, NoFd, 0) /\ ~CanRedirect(t, NoFd, 1)
    BY DEF CanRedirect, IsOpen, NoFd
  <1>10. ASSUME ~Dies(p, local)
         PROVE  /\ CanRedirect(WithFiles(fds[p], c), InFrom(fds[p], l), 0)
                /\ CanRedirect(InDone(fds[p], l), OutTo(fds[p], l), 1)
                /\ SetFds(p, Redirect(InDone(fds[p], l), OutTo(fds[p], l), 1))
                /\ Goto(p, "exec") /\ UNCHANGED <<local, parent>>
    <2>1. CASE ~found /\ c.in
      <3> HIDE DEF l, c
      <3> QED  BY <1>3, <1>9, <1>10, <2>1
    <2>2. CASE ~found /\ c.out
      <3> HIDE DEF l, c
      <3> QED  BY <1>3, <1>9, <1>10, <2>2
    <2>3. CASE found \/ (~c.in /\ ~c.out)
      <3> DEFINE t0 == IF c.out /\ ~c.in THEN RestoreStdin(fds[p]) ELSE fds[p]
                 t1 == IF c.in /\ found THEN Opened(t0, File("infile")) ELSE t0
                 t2 == IF c.out /\ found THEN Opened(t1, File("outfile")) ELSE t1
                 from == IF ~c.in THEN l.readFd ELSE IF found THEN Lowest(t0) ELSE NoFd
                 to   == IF c.out THEN IF found THEN Lowest(t1) ELSE NoFd
                         ELSE IF IsLast(l) THEN SavedOut ELSE l.wr
                 t3   == Redirect(t2, from, 0)
      <3>1. t0 = Readied(fds[p], c)
        BY DEF Readied
      <3>2. t1 = WithInput(fds[p], c)
        <4> HIDE DEF t0
        <4> QED  BY <2>3, <3>1 DEF WithInput
      <3>3. t2 = WithFiles(fds[p], c)
        <4> HIDE DEF t1
        <4> QED  BY <2>3, <3>2 DEF WithFiles
      <3>4. from = InFrom(fds[p], l)
        <4> HIDE DEF t0
        <4> QED  BY <2>3, <3>1 DEF InFrom
      <3>5. to = OutTo(fds[p], l)
        <4> HIDE DEF t1
        <4> QED  BY <2>3, <3>2 DEF OutTo, IsLast
      <3>6. t3 = InDone(fds[p], l)
        <4> HIDE DEF t2, from
        <4> QED  BY <3>3, <3>4 DEF InDone
      <3>7. IF CanRedirect(t2, from, 0) /\ CanRedirect(t3, to, 1)
            THEN /\ SetFds(p, Redirect(t3, to, 1))
                 /\ Goto(p, "exec")
                 /\ UNCHANGED <<local, parent>>
            ELSE Dies(p, local)
        BY <1>3
      <3> HIDE DEF t2, t3, from, to
      <3> QED  BY <1>10, <3>3, <3>4, <3>5, <3>6, <3>7
    <2> QED  BY <2>1, <2>2, <2>3
  <1> HIDE DEF l, c
  <1>11. CASE ~Dies(p, local)
    <2>1. InDone(fds[p], l) \in Table
      BY <1>6, <1>7, <1>10, <1>11, RedirectedTable DEF InDone, c
    <2>2. Redirect(InDone(fds[p], l), OutTo(fds[p], l), 1) \in Table
      BY <1>8, <1>10, <1>11, <2>1, RedirectedTable
    <2>3. Moves(p, "exec", Redirect(InDone(fds[p], l), OutTo(fds[p], l), 1), l)
      BY <1>2, <1>10, <1>11 DEF Moves, SetFds, Goto
    <2> QED  BY <1>1, <1>5, <1>6, <1>7, <1>8, <1>10, <1>11, <2>1, <2>2, <2>3 DEF l, c
  <1> QED  BY <1>1, <1>11

\* The other two forms, and deaths.

\* fork takes a process that is not in use, never the first shell.
LEMMA ForkCopies ==
  ASSUME Typed, NEW p \in Procs, Fork(p)
  PROVE  /\ pc[p] = "fork" /\ UNCHANGED <<content, lines, faults, signals>>
         /\ \E q \in Procs \ {p, Top} :
              /\ pc[q] = "none"
              /\ [local[p] EXCEPT !.pid = q] \in Variables
              /\ SameLine(local[p], [local[p] EXCEPT !.pid = q])
              /\ fds' = [fds EXCEPT ![q] = fds[p]]
              /\ local' = [local EXCEPT ![q] = local[p], ![p] = [local[p] EXCEPT !.pid = q]]
              /\ pc' = [pc EXCEPT ![p] = "forked", ![q] = "child"]
              /\ parent' = [parent EXCEPT ![q] = p]
  <1> DEFINE q == CHOOSE f \in Free : TRUE
  <1>1. q \in Procs /\ pc[q] = "none" /\ pc[p] = "fork" /\ q # p /\ q # Top
    BY DEF Fork, Free
  <1>2. /\ fds' = [fds EXCEPT ![q] = fds[p]]
        /\ local' = [local EXCEPT ![q] = local[p], ![p].pid = q]
        /\ pc' = [pc EXCEPT ![p] = "forked", ![q] = "child"]
        /\ parent' = [parent EXCEPT ![q] = p]
        /\ UNCHANGED <<content, lines, faults, signals>>
    BY DEF Fork
  <1> HIDE DEF q
  <1>3. local[p] \in Variables
    BY DEF Typed
  <1>4. local' = [local EXCEPT ![q] = local[p], ![p] = [local[p] EXCEPT !.pid = q]]
    BY <1>1, <1>2 DEF Typed
  <1>5. [local[p] EXCEPT !.pid = q] \in Variables
        /\ SameLine(local[p], [local[p] EXCEPT !.pid = q])
    BY <1>1, <1>3 DEF Variables, SameLine
  <1> QED  BY <1>1, <1>2, <1>4, <1>5

\* waitpid moves the shell on and forgets one process.
LEMMA WaitPidReaps ==
  ASSUME Typed, NEW p \in Procs, WaitPid(p)
  PROVE  /\ pc[p] = "wait" /\ UNCHANGED <<fds, local, content, lines, faults, signals>>
         /\ pc' \in [Procs -> Places] /\ parent' \in [Procs -> Procs \cup {NoProc}]
         /\ pc'[p] \in {"reaped", "none"}
         /\ \A q \in Procs \ {p} : pc'[q] \in {"none", pc[q]}
         /\ \A q \in Procs : parent'[q] \in {NoProc, parent[q]}
  <1> DEFINE c == local[p].pid
  <1>1. /\ pc' = [pc EXCEPT ![p] = "reaped", ![c] = "none"]
        /\ parent' = [parent EXCEPT ![c] = NoProc]
        /\ pc[p] = "wait" /\ UNCHANGED <<fds, local, content, lines, faults, signals>>
    BY DEF WaitPid
  <1> HIDE DEF c
  <1> QED  BY <1>1 DEF Typed, Places

\* Somebody dies, and nobody's place in a line changes but his.
SomebodyDies ==
  \E d \in Procs, vs \in [Procs -> Variables] :
    /\ Dies(d, vs) /\ \A q \in Procs : SameLine(local[q], vs[q])
    /\ UNCHANGED <<content, lines, faults>> /\ signals' \in Nat

\* Every death has this form.
LEMMA DeathsKnown ==
  ASSUME Typed, NEW p \in Procs,
         \/ Quit(p) \/ Finish(p)
         \/ Write(p) /\ Dies(p, local)
         \/ RedirectChild(p) /\ Dies(p, local)
         \/ Signal(p) /\ Dies(p, local)
         \/ Signal(p) /\ Alive(local[p].child)
                      /\ Dies(local[p].child, [local EXCEPT ![p].child = NoProc])
  PROVE  SomebodyDies
  <1>1. local \in [Procs -> Variables] /\ \A q \in Procs : SameLine(local[q], local[q])
    BY DEF Typed, SameLine
  <1>2. ASSUME Dies(p, local), UNCHANGED <<content, lines, faults>>, signals' \in Nat
        PROVE  SomebodyDies
    BY <1>1, <1>2 DEF SomebodyDies
  <1>3. CASE Quit(p)
    BY <1>2, <1>3 DEF Quit, Typed
  <1>4. CASE Finish(p)
    BY <1>2, <1>4 DEF Finish, Typed
  <1>5. CASE Write(p) /\ Dies(p, local)
    <2>1. content' = content
      <3>1. CASE fds[p][1].kind = "write" => Readers(fds[p][1].pipe) # {}
        <4>1. local'[p] = Blank /\ pc'[p] \in {"none", "zombie"}
          BY <1>1, <1>5 DEF Dies, Typed
        <4>2. pc[p] = "run" /\ \/ UNCHANGED pc
                               \/ UNCHANGED content
          BY <1>5 DEF Write
        <4> QED  BY <4>1, <4>2
      <3>2. CASE ~(fds[p][1].kind = "write" => Readers(fds[p][1].pipe) # {})
        BY <1>5, <3>2 DEF Write
      <3> QED  BY <3>1, <3>2
    <2> QED  BY <1>2, <1>5, <2>1 DEF Write, Typed
  <1>6. CASE RedirectChild(p) /\ Dies(p, local)
    BY <1>2, <1>6 DEF RedirectChild, Typed
  <1>7. CASE Signal(p) /\ Dies(p, local)
    <2>1. UNCHANGED <<content, lines, faults>> /\ signals' = signals + 1
      BY <1>7 DEF Signal
    <2> QED  BY <1>2, <1>7, <2>1 DEF Typed
  <1>8. CASE Signal(p) /\ Alive(local[p].child)
             /\ Dies(local[p].child, [local EXCEPT ![p].child = NoProc])
    <2> DEFINE vs == [local EXCEPT ![p].child = NoProc]
    <2>1. UNCHANGED <<content, lines, faults>> /\ signals' = signals + 1
      BY <1>8 DEF Signal
    <2>2. vs \in [Procs -> Variables]
      BY <1>1 DEF Variables
    <2>3. \A q \in Procs : SameLine(local[q], vs[q])
      BY <1>1 DEF Variables, SameLine
    <2>4. Dies(local[p].child, vs) /\ local[p].child \in Procs
      BY <1>8 DEF Alive
    <2> HIDE DEF vs
    <2> QED  BY <2>1, <2>2, <2>3, <2>4 DEF SomebodyDies, Typed
  <1> QED  BY <1>3, <1>4, <1>5, <1>6, <1>7, <1>8

\* A process goes on with its work, its table and its place in the line.
Works(p) ==
  /\ Keeps(p, pc[p]) /\ content' \in [Pipes -> 0 .. PipeSize]
  /\ UNCHANGED <<lines, faults>> /\ signals' \in Nat

\* Every step is one of these.
LEMMA StepsKnown ==
  ASSUME Typed, [Next]_vars
  PROVE  \/ UNCHANGED vars \/ SomebodyDies
         \/ \E p \in Procs :
              \/ ReadLine(p) \/ EndOfInput(p) \/ OpenLog(p) \/ EndLine(p)
              \/ MakePipe(p) \/ Fork(p) \/ ForkFails(p) \/ NoteChild(p) \/ WaitPid(p)
              \/ AfterCommand(p) \/ StartChild(p) \/ Exec(p) \/ Works(p)
              \/ RedirectChild(p) /\ ~Dies(p, local)
  <1>1. CASE UNCHANGED vars
    BY <1>1
  <1>2. ASSUME NEW p \in Procs, Step(p) \/ User(p)
        PROVE  \/ SomebodyDies
               \/ ReadLine(p) \/ EndOfInput(p) \/ OpenLog(p) \/ EndLine(p)
               \/ MakePipe(p) \/ Fork(p) \/ ForkFails(p) \/ NoteChild(p) \/ WaitPid(p)
               \/ AfterCommand(p) \/ StartChild(p) \/ Exec(p) \/ Works(p)
               \/ RedirectChild(p) /\ ~Dies(p, local)
    <2>1. CASE Signal(p)
      <3>1. \/ Dies(p, local)
            \/ Alive(local[p].child) /\ Dies(local[p].child, [local EXCEPT ![p].child = NoProc])
            \/ local' = [local EXCEPT ![p].child = NoProc] /\ UNCHANGED <<fds, pc, parent>>
        BY <2>1 DEF Signal
      <3> QED  BY <2>1, <3>1, DeathsKnown, WorkKeeps DEF Works
    <2>2. CASE Read(p) \/ ReadTerminal(p) \/ Write(p)
      BY <2>2, DeathsKnown, WorkKeeps DEF Works
    <2>3. CASE Quit(p) \/ Finish(p) \/ RedirectChild(p)
      BY <2>3, DeathsKnown
    <2> QED  BY <1>2, <2>1, <2>2, <2>3 DEF Step, User
  <1> QED  BY <1>1, <1>2 DEF Next

\* p moves within its line and keeps its descriptors.
LEMMA TypedAfterKeeping ==
  ASSUME Typed, NEW p \in Procs, NEW place \in Places, Keeps(p, place),
         pc[p] \notin {"none", "zombie", "prompt", "log"} \/ place = pc[p],
         place # "log" \/ place = pc[p],
         content' \in [Pipes -> 0 .. PipeSize],
         lines' \in Nat, faults' \in Nat, signals' \in Nat
  PROVE  Typed'
  <1>1. PICK l \in Variables : SameLine(local[p], l) /\ Moves(p, place, fds[p], l)
    BY DEF Keeps
  <1>2. AtCommand(pc[p], local[p]) /\ fds[p] \in Table
    BY DEF Typed
  <1>3. AtCommand(place, l)
    BY <1>1, <1>2 DEF AtCommand, SameLine
  <1> QED  BY <1>1, <1>2, <1>3, TypedAfterMove

\* The types, step by step.
LEMMA TypedKept == Typed /\ [Next]_vars => Typed'
  <1> SUFFICES ASSUME Typed, [Next]_vars PROVE Typed'
    OBVIOUS
  <1>0. /\ content \in [Pipes -> 0 .. PipeSize]
        /\ lines \in Nat /\ faults \in Nat /\ signals \in Nat
    BY DEF Typed
  <1>1. CASE UNCHANGED vars
    BY <1>1 DEF vars, Typed, AtCommand
  <1>2. CASE SomebodyDies
    <2>1. PICK d \in Procs, vs \in [Procs -> Variables] :
            /\ Dies(d, vs) /\ \A q \in Procs : SameLine(local[q], vs[q])
            /\ UNCHANGED <<content, lines, faults>> /\ signals' \in Nat
      BY <1>2 DEF SomebodyDies
    <2>2. \A q \in Procs : AtCommand(pc[q], vs[q])
      BY <2>1 DEF Typed, AtCommand, SameLine
    <2> QED  BY <1>0, <2>1, <2>2, TypedAfterDeath
  <1>3. ASSUME NEW p \in Procs,
               \/ ReadLine(p) \/ EndOfInput(p) \/ OpenLog(p) \/ EndLine(p)
               \/ MakePipe(p) \/ Fork(p) \/ ForkFails(p) \/ NoteChild(p) \/ WaitPid(p)
               \/ AfterCommand(p) \/ StartChild(p) \/ Exec(p) \/ Works(p)
               \/ RedirectChild(p) /\ ~Dies(p, local)
        PROVE  Typed'
    <2>0. /\ local[p] \in Variables /\ fds[p] \in Table /\ pc[p] \in Places
          /\ AtCommand(pc[p], local[p])
      BY DEF Typed
    <2>1. CASE ReadLine(p) \/ EndOfInput(p)
      <3>1. PICK line \in Seq(Command) \ {<<>>}, place \in {"prompt", "log"} :
              /\ lines' = lines + 1 /\ UNCHANGED <<content, faults, signals>>
              /\ [local[p] EXCEPT !.line = line] \in Variables
              /\ Moves(p, place, fds[p], [local[p] EXCEPT !.line = line])
        BY <2>1, LineReadMoves
      <3>2. AtCommand(place, [local[p] EXCEPT !.line = line])
        BY <2>0, <3>1 DEF AtCommand, Variables
      <3>3. place \in Places /\ lines' \in Nat
        BY <1>0, <3>1 DEF Places
      <3> QED  BY <1>0, <2>0, <3>1, <3>2, <3>3, TypedAfterMove
    <2>2. CASE OpenLog(p)
      <3>1. pc[p] = "log" /\ UNCHANGED <<content, lines, signals>>
        BY <2>2, OpenLogMoves
      <3>2. PICK d \in Number, t \in Table :
              /\ faults' \in {faults, faults + 1}
              /\ WithLog(local[p], d) \in Variables
              /\ Moves(p, "pipe", t, WithLog(local[p], d))
        BY <2>2, OpenLogMoves
      <3>3. AtCommand("pipe", WithLog(local[p], d))
        <4>1. WithLog(local[p], d).at = 1 /\ WithLog(local[p], d).line = local[p].line
          BY <2>0 DEF WithLog, Variables
        <4>2. local[p].line \in Seq(Command) /\ local[p].line # <<>>
          BY <2>0, <3>1 DEF AtCommand, Variables
        <4>3. Len(local[p].line) \in Nat \ {0}
          BY <4>2
        <4> QED  BY <4>1, <4>3 DEF AtCommand
      <3>4. "pipe" \in Places /\ faults' \in Nat
        BY <1>0, <3>2 DEF Places
      <3> QED  BY <1>0, <3>1, <3>2, <3>3, <3>4, TypedAfterMove
    <2>3. CASE EndLine(p)
      <3>1. AtCommand("prompt", Ended(local[p])) /\ "prompt" \in Places
        BY DEF AtCommand, Places
      <3> QED  BY <1>0, <2>3, <3>1, EndLineMoves, TypedAfterMove
    <2>4. CASE MakePipe(p)
      <3>0. pc[p] = "pipe" /\ UNCHANGED <<lines, faults, signals>>
            /\ content' \in [Pipes -> 0 .. PipeSize]
        BY <2>4, MakePipeMoves
      <3>1. CASE Moves(p, "end", fds[p], local[p])
        <4>1. AtCommand("end", local[p]) /\ "end" \in Places
          BY <2>0, <3>0 DEF AtCommand, Places
        <4> QED  BY <1>0, <2>0, <3>0, <3>1, <4>1, TypedAfterMove
      <3>2. CASE ~Moves(p, "end", fds[p], local[p])
        <4>1. PICK n \in Pipes, rd, wr \in Fds, t \in Table :
                /\ [t EXCEPT ![wr] = WriteEnd(n)] \in Table
                /\ WithPipe(local[p], rd, wr, n) \in Variables
                /\ Moves(p, "fork", [t EXCEPT ![wr] = WriteEnd(n)], WithPipe(local[p], rd, wr, n))
          BY <2>4, <3>2, MakePipeMoves
        <4>2. AtCommand("fork", WithPipe(local[p], rd, wr, n)) /\ "fork" \in Places
          BY <2>0, <3>0 DEF AtCommand, Places, WithPipe, Variables
        <4> QED  BY <1>0, <3>0, <4>1, <4>2, TypedAfterMove
      <3> QED  BY <3>1, <3>2
    <2>5. CASE Fork(p)
      <3>1. pc[p] = "fork" /\ UNCHANGED <<content, lines, faults, signals>>
        BY <2>5, ForkCopies
      <3>2. PICK q \in Procs \ {p, Top} :
              /\ [local[p] EXCEPT !.pid = q] \in Variables
              /\ SameLine(local[p], [local[p] EXCEPT !.pid = q])
              /\ fds' = [fds EXCEPT ![q] = fds[p]]
              /\ local' = [local EXCEPT ![q] = local[p], ![p] = [local[p] EXCEPT !.pid = q]]
              /\ pc' = [pc EXCEPT ![p] = "forked", ![q] = "child"]
              /\ parent' = [parent EXCEPT ![q] = p]
        BY <2>5, ForkCopies
      <3>3. fds' \in [Procs -> Table] /\ local' \in [Procs -> Variables]
        BY <2>0, <3>2 DEF Typed
      <3>4. pc' \in [Procs -> Places] /\ parent' \in [Procs -> Procs \cup {NoProc}]
        BY <3>2 DEF Typed, Places
      <3>5. AtCommand("child", local[p]) /\ AtCommand("forked", [local[p] EXCEPT !.pid = q])
        BY <2>0, <3>1, <3>2 DEF AtCommand, SameLine
      <3>6. \A r \in Procs : AtCommand(pc'[r], local'[r])
        <4> TAKE r \in Procs
        <4>1. CASE r \notin {p, q}
          <5>1. pc'[r] = pc[r] /\ local'[r] = local[r]
            BY <3>2, <4>1 DEF Typed
          <5> QED  BY <5>1 DEF Typed
        <4>2. CASE r = p
          <5>1. pc'[r] = "forked" /\ local'[r] = [local[p] EXCEPT !.pid = q]
            BY <3>2, <4>2 DEF Typed
          <5> QED  BY <3>5, <5>1
        <4>3. CASE r = q
          <5>1. pc'[r] = "child" /\ local'[r] = local[p]
            BY <3>2, <4>3 DEF Typed
          <5> QED  BY <3>5, <5>1
        <4> QED  BY <4>1, <4>2, <4>3
      <3> QED  BY <1>0, <3>1, <3>3, <3>4, <3>6 DEF Typed
    <2>6. CASE ForkFails(p)
      <3>1. "end" \in Places
        BY DEF Places
      <3> QED  BY <1>0, <2>6, <3>1, ForkFailsKeeps, TypedAfterKeeping
    <2>7. CASE NoteChild(p)
      <3>1. "wait" \in Places
        BY DEF Places
      <3> QED  BY <1>0, <2>7, <3>1, NoteChildKeeps, TypedAfterKeeping
    <2>8. CASE WaitPid(p)
      <3>1. /\ pc[p] = "wait" /\ UNCHANGED <<fds, local, content, lines, faults, signals>>
            /\ pc' \in [Procs -> Places] /\ parent' \in [Procs -> Procs \cup {NoProc}]
            /\ pc'[p] \in {"reaped", "none"}
            /\ \A q \in Procs \ {p} : pc'[q] \in {"none", pc[q]}
        BY <2>8, WaitPidReaps
      <3>2. \A q \in Procs : AtCommand(pc'[q], local[q])
        <4> TAKE q \in Procs
        <4>1. AtCommand(pc[q], local[q])
          BY DEF Typed
        <4>2. CASE q = p
          BY <3>1, <4>1, <4>2 DEF AtCommand
        <4>3. CASE q # p
          BY <3>1, <4>1, <4>3 DEF AtCommand
        <4> QED  BY <4>2, <4>3
      <3> QED  BY <3>1, <3>2 DEF Typed
    <2>9. CASE AfterCommand(p)
      <3>1. "end" \in Places /\ "pipe" \in Places
        BY DEF Places
      <3> QED  BY <1>0, <2>9, <3>1, AfterCommandMoves, TypedAfterMove
    <2>10. CASE StartChild(p)
      <3>1. \A place \in {"end", "redirect"} :
              place \in Places /\ (pc[p] = "child" => AtCommand(place, local[p]))
        BY <2>0 DEF AtCommand, Places
      <3>2. pc[p] = "child" /\ UNCHANGED <<content, lines, faults, signals>>
            /\ \E place \in {"end", "redirect"}, t \in Table : Moves(p, place, t, local[p])
        BY <2>10, StartChildMoves
      <3> QED  BY <1>0, <2>0, <3>1, <3>2, TypedAfterMove
    <2>11. CASE Exec(p)
      <3>1. "end" \in Places /\ "run" \in Places
        BY DEF Places
      <3> QED  BY <1>0, <2>11, <3>1, ExecKeeps, TypedAfterKeeping
    <2>12. CASE Works(p)
      BY <1>0, <2>0, <2>12, TypedAfterKeeping DEF Works
    <2>13. CASE RedirectChild(p) /\ ~Dies(p, local)
      <3>1. pc[p] = "redirect" /\ UNCHANGED <<content, lines, faults, signals>>
            /\ \E t \in Table : Moves(p, "exec", t, local[p])
        BY <2>13, RedirectChildMoves
      <3>2. AtCommand("exec", local[p]) /\ "exec" \in Places
        BY <2>0, <3>1 DEF AtCommand, Places
      <3> QED  BY <1>0, <2>0, <3>1, <3>2, TypedAfterMove
    <2> QED  BY <1>3, <2>1, <2>2, <2>3, <2>4, <2>5, <2>6, <2>7, <2>8, <2>9, <2>10, <2>11, <2>12, <2>13
  <1> QED  BY <1>1, <1>2, <1>3, StepsKnown

\* The types are what TypeOK asks.
LEMMA TypedImpliesTypeOK == Typed => TypeOK
  <1> SUFFICES ASSUME Typed PROVE TypeOK
    OBVIOUS
  <1>1. \A f \in Files : IsFile(f)
    BY DEF Files, Kinds, IsFile
  <1>2. \A p \in Procs : DOMAIN fds[p] = Fds /\ \A d \in Fds : IsFile(fds[p][d])
    BY <1>1 DEF Typed, Table
  <1>3. \A p \in Procs :
          /\ {local[p].logFd, local[p].readFd, local[p].rd, local[p].wr} \subseteq Fds \cup {NoFd}
          /\ {local[p].pid, local[p].child} \subseteq Procs \cup {NoProc}
          /\ InLine(p) => local[p].at \in 1 .. Len(local[p].line)
    BY DEF Typed, Variables, Number, InLine, AtCommand, Places
  <1> QED  BY <1>2, <1>3 DEF Typed, TypeOK

\* In every execution the variables of the shell have their types, a pipe that
\* nobody holds is there whenever pipe() has two descriptors for it, and within a
\* line every process is at one of the commands of the line (hw2.c:157).
THEOREM ShellTypeCorrect == Spec => []TypeOK
  BY TypedAtStart, TypedKept, TypedImpliesTypeOK, PTL DEF Spec

-----------------------------------------------------------------------------
(* What every descriptor is, from the log to the command.                   *)

\* The pipe a command reads from: 0 for every odd command, since the shell has
\* closed 0 when it makes the pipe of an even one (hw2.c:301-303).
Incoming(t, l) ==
  /\ l.readFd \in Fds
  /\ l.readFd = 0 <=> l.at % 2 = 1
  /\ t[l.readFd] = IF l.at = 1 THEN Terminal ELSE ReadEnd(l.made[l.at - 1])

\* The pipe a command writes to, and its other end, for the next one.
Outgoing(t, l) == l.wr \in Fds /\ t[l.wr] = WriteEnd(l.made[l.at])
NextEnd(t, l)  == /\ l.rd \in Fds /\ t[l.rd] = ReadEnd(l.made[l.at])
                  /\ l.rd = 0 <=> l.at % 2 = 0

Logged(t, l) == l.logFd = NoFd \/ (l.logFd \in Fds /\ t[l.logFd] = File("log"))

\* The ends of the pipes are where the shell, and the child before it has
\* redirected, remember them.
Holding == {"fork", "forked", "wait", "reaped", "child"}
Wires(place, t, l) ==
  /\ place = "log" => t[0] = Terminal
  /\ place \in Holding \cup {"pipe", "redirect"} => Incoming(t, l)
  /\ place \in {"pipe", "redirect"} /\ l.at % 2 = 0 => t[0] = Closed
  /\ place \in Holding \cup {"redirect"} => Outgoing(t, l) /\ Len(l.made) = l.at
  /\ place = "pipe" => Len(l.made) = l.at - 1
  /\ place \in Holding => NextEnd(t, l)
  /\ place \in Holding \cup {"pipe"} => Logged(t, l)

\* stdout and stderr are open, and not what a shell closes or moves.
Stdio(t, l) ==
  /\ t[1] # Closed /\ t[2] # Closed
  /\ 1 \notin {l.logFd, l.readFd, l.rd, l.wr} /\ 2 \notin {l.logFd, l.readFd, l.rd, l.wr}

\* What is at saved_stdout.  Only a child whose exec has failed has lost it, so
\* never the first shell or a child of it; then the log takes its place, and
\* when the log cannot be opened either the end of a pipe.
Saved(place, t, l, par, f) ==
  /\ t[SavedOut] \in {File("stdout"), File("log"), Closed} \/ t[SavedOut].kind = "read"
  /\ t[SavedOut] # File("stdout") =>
       place = "exec" \/ (f > 0 /\ (place \in {"child", "redirect"} => par # Top))
  /\ t[SavedOut].kind = "read" => f > 1
  /\ t[SavedOut] = File("log") =>
       l.logFd = SavedOut /\ place \notin {"prompt", "log", "redirect", "exec"}
  /\ l.logFd = SavedOut => t[SavedOut] # File("stdout")
  /\ t[SavedOut] = Closed /\ place = "pipe" => f > 1 /\ l.at % 2 = 1
  /\ place \in Holding => t[SavedOut] # Closed

\* What Wired says of a command.
Connected(t, l, par, f) ==
  /\ t[0] = IF LosesPipe(l) THEN Terminal ELSE InputOf(l)
  /\ \/ t[1] = OutputOf(l)
     \/ IsLast(l) /\ ~l.line[l.at].out /\ par # Top /\ f > 1 /\ t[1].kind = "read"

\* All of this for process p.
Sound(p, place, t, l, par, f) ==
  /\ Shelled(place) => Stdio(t, l) /\ Saved(place, t, l, par, f) /\ Wires(place, t, l)
  /\ place \in {"exec", "run"} => Connected(t, l, par, f)
  /\ p = Top => /\ place \notin {"child", "redirect", "exec", "run"}
                /\ Shelled(place) => t[SavedOut] = File("stdout")

Plumbed == \A p \in Procs : Sound(p, pc[p], fds[p], local[p], parent[p], faults)

\* A process that is no shell has nothing to lose, and none loses anything by
\* the death of its parent, by a call that fails elsewhere, or by what is none of
\* the descriptors of its line.
LEMMA SoundLasts ==
  ASSUME NEW p \in Procs, NEW place, NEW t, NEW l, NEW m, NEW par, NEW par2,
         NEW f \in Nat, NEW g \in Nat, Sound(p, place, t, l, par, f),
         SameLine(l, m), par2 \in {par, NoProc}, f <= g
  PROVE  Sound(p, place, t, m, par2, g)
  <1>1. par # Top => par2 # Top
    BY ShellPipelineAssumption
  <1>2. Stdio(t, l) => Stdio(t, m)
    BY DEF Stdio, SameLine
  <1>3. Wires(place, t, l) => Wires(place, t, m)
    BY DEF Wires, Incoming, Outgoing, NextEnd, Logged, SameLine
  <1>4. Saved(place, t, l, par, f) => Saved(place, t, m, par2, g)
    BY <1>1 DEF Saved, SameLine
  <1>5. Connected(t, l, par, f) => Connected(t, m, par2, g)
    BY <1>1 DEF Connected, LosesPipe, InputOf, OutputOf, IsLast, SameLine
  <1> QED  BY <1>2, <1>3, <1>4, <1>5 DEF Sound

\* Nothing is asked of a process that is not in use.
LEMMA SoundGone ==
  ASSUME NEW p, NEW place \in {"none", "zombie"}, NEW t, NEW l, NEW par, NEW f
  PROVE  Sound(p, place, t, l, par, f)
  BY DEF Sound, Shelled

\* When p moves on, only p has to be looked at.
LEMMA PlumbedAfterMove ==
  ASSUME Typed, Plumbed, NEW p \in Procs, NEW place, NEW t, NEW l,
         Moves(p, place, t, l), faults' \in Nat, faults <= faults',
         Sound(p, place, t, l, parent[p], faults')
  PROVE  Plumbed'
  <1> SUFFICES ASSUME NEW q \in Procs
               PROVE  Sound(q, pc'[q], fds'[q], local'[q], parent'[q], faults')
    BY DEF Plumbed
  <1>1. CASE q = p
    <2>1. pc'[q] = place /\ fds'[q] = t /\ local'[q] = l /\ parent'[q] = parent[p]
      BY <1>1 DEF Moves, Typed
    <2> QED  BY <1>1, <2>1
  <1>2. CASE q # p
    <2>1. pc'[q] = pc[q] /\ fds'[q] = fds[q] /\ local'[q] = local[q] /\ parent'[q] = parent[q]
      BY <1>2 DEF Moves, Typed
    <2>2. Sound(q, pc[q], fds[q], local[q], parent[q], faults) /\ SameLine(local[q], local[q])
      BY DEF Plumbed, SameLine
    <2>3. faults \in Nat
      BY DEF Typed
    <2> QED  BY <2>1, <2>2, <2>3, SoundLasts
  <1> QED  BY <1>1, <1>2

\* p keeps its descriptors; of two places of the same kind one needs what the
\* other has.
LEMMA PlumbedAfterKeeping ==
  ASSUME Typed, Plumbed, NEW p \in Procs, NEW place, Keeps(p, place),
         faults' \in Nat, faults <= faults',
         Sound(p, place, fds[p], local[p], parent[p], faults')
  PROVE  Plumbed'
  <1>1. PICK l \in Variables : SameLine(local[p], l) /\ Moves(p, place, fds[p], l)
    BY DEF Keeps
  <1>2. Sound(p, place, fds[p], l, parent[p], faults')
    BY <1>1, SoundLasts
  <1> QED  BY <1>1, <1>2, PlumbedAfterMove

\* Deaths change nothing for those who live.
LEMMA PlumbedAfterDeath ==
  ASSUME Typed, Plumbed, SomebodyDies
  PROVE  Plumbed'
  <1>1. PICK d \in Procs, vs \in [Procs -> Variables] :
          /\ Dies(d, vs) /\ \A q \in Procs : SameLine(local[q], vs[q])
          /\ faults' = faults
    BY DEF SomebodyDies
  <1> SUFFICES ASSUME NEW q \in Procs
               PROVE  Sound(q, pc'[q], fds'[q], local'[q], parent'[q], faults')
    BY DEF Plumbed
  <1>2. pc'[q] \in {"none", "zombie"}
        \/ (q # d /\ pc'[q] = pc[q])
    BY <1>1 DEF Dies
  <1>3. CASE pc'[q] \in {"none", "zombie"}
    BY <1>3, SoundGone
  <1>4. CASE q # d /\ pc'[q] = pc[q]
    <2>1. fds'[q] = fds[q] /\ local'[q] = vs[q] /\ parent'[q] \in {parent[q], NoProc}
      BY <1>1, <1>4 DEF Dies, Typed
    <2>2. Sound(q, pc[q], fds[q], local[q], parent[q], faults) /\ faults \in Nat
      BY DEF Plumbed, Typed
    <2>3. Sound(q, pc[q], fds[q], vs[q], parent'[q], faults)
      BY <1>1, <2>1, <2>2, SoundLasts
    <2> QED  BY <1>1, <1>4, <2>1, <2>3
  <1> QED  BY <1>2, <1>3, <1>4

\* The first shell has copied its stdin and stdout.
LEMMA PlumbedAtStart == Init => Plumbed
  <1> SUFFICES ASSUME Init PROVE Plumbed
    OBVIOUS
  <1>1. \A p \in Procs \ {Top} : Sound(p, pc[p], fds[p], local[p], parent[p], faults)
    BY SoundGone DEF Init
  <1>2. FirstFds[1] = File("stdout") /\ FirstFds[2] = File("stderr")
        /\ FirstFds[SavedOut] = File("stdout")
    BY SetsKnown DEF FirstFds, SavedIn, SavedOut
  <1>3. pc[Top] = "prompt" /\ fds[Top] = FirstFds /\ local[Top] = Blank
    BY ShellPipelineAssumption DEF Init
  <1>4. Stdio(FirstFds, Blank)
    BY <1>2 DEF Stdio, Blank, NoFd, File, Closed
  <1>5. Saved("prompt", FirstFds, Blank, parent[Top], faults)
    BY <1>2 DEF Saved, Blank, NoFd, File, Closed, Holding, SavedOut
  <1>6. Wires("prompt", FirstFds, Blank)
    BY DEF Wires, Holding
  <1>7. Sound(Top, pc[Top], fds[Top], local[Top], parent[Top], faults)
    BY <1>2, <1>3, <1>4, <1>5, <1>6 DEF Sound
  <1> QED  BY <1>1, <1>7 DEF Plumbed

\* A line is read: the descriptors stay, and 0 is the terminal.
LEMMA PlumbedAfterLine ==
  ASSUME Typed, Reserved, Plumbed, NEW p \in Procs, ReadLine(p) \/ EndOfInput(p)
  PROVE  Plumbed'
  <1>1. PICK line \in Seq(Command) \ {<<>>}, place \in {"prompt", "log"} :
          /\ pc[p] = "prompt" /\ faults' = faults
          /\ [local[p] EXCEPT !.line = line] \in Variables
          /\ Moves(p, place, fds[p], [local[p] EXCEPT !.line = line])
    BY LineReadMoves
  <1> DEFINE l == [local[p] EXCEPT !.line = line]
  <1>2. /\ l.logFd = local[p].logFd /\ l.readFd = local[p].readFd
        /\ l.rd = local[p].rd /\ l.wr = local[p].wr
    BY DEF Typed, Variables
  <1>3. Sound(p, "prompt", fds[p], local[p], parent[p], faults) /\ fds[p][0] = Terminal
    BY <1>1 DEF Plumbed, Reserved
  <1> HIDE DEF l
  <1>4. Stdio(fds[p], l) /\ Saved(place, fds[p], l, parent[p], faults) /\ Wires(place, fds[p], l)
    BY <1>1, <1>2, <1>3 DEF Sound, Shelled, Stdio, Saved, Wires, Holding
  <1>5. Sound(p, place, fds[p], l, parent[p], faults)
    BY <1>1, <1>3, <1>4 DEF Sound, Shelled
  <1> QED  BY <1>1, <1>5, PlumbedAfterMove DEF l, Typed

\* When 0 to 3 are open and 4 is not, the lowest unused descriptor is 4.
LEMMA FourIsNext ==
  ASSUME NEW t \in Table, t[0] # Closed, t[1] # Closed, t[2] # Closed, t[3] # Closed
  PROVE  /\ t[4] = Closed => Lowest(t) = 4
         /\ Lowest(t) \notin {0, 1, 2, 3}
  <1>1. CASE Unused(t) = {}
    BY <1>1, LowestKnown, SetsKnown DEF Unused, NoFd
  <1>2. CASE Unused(t) # {}
    <2>1. Lowest(t) \in Nat /\ t[Lowest(t)] = Closed
      BY <1>2, LowestKnown, SetsKnown
    <2>2. t[4] = Closed => Lowest(t) <= 4
      BY <1>2, LowestKnown, SetsKnown
    <2> QED  BY <2>1, <2>2
  <1> QED  BY <1>1, <1>2

\* The log is the only thing that takes the place of stdout while it is open;
\* one that cannot be opened leaves it to the pipe.
LEMMA PlumbedAfterLog ==
  ASSUME Typed, Reserved, Plumbed, NEW p \in Procs, OpenLog(p)
  PROVE  Plumbed'
  <1>1. pc[p] = "log"
    BY OpenLogMoves
  <1>2. PICK d \in Number, t \in Table :
          /\ \/ d = Lowest(fds[p]) /\ t = Opened(fds[p], File("log")) /\ faults' = faults
             \/ d = NoFd /\ t = fds[p] /\ faults' = faults + 1
          /\ Moves(p, "pipe", t, WithLog(local[p], d))
    BY OpenLogMoves
  <1> DEFINE l == WithLog(local[p], d)
  <1>3. /\ l.logFd = d /\ l.readFd = 0 /\ l.at = 1 /\ l.made = <<>>
        /\ l.rd = local[p].rd /\ l.wr = local[p].wr
    BY DEF WithLog, Typed, Variables
  <1>4. /\ Sound(p, "log", fds[p], local[p], parent[p], faults)
        /\ fds[p] \in Table /\ faults \in Nat /\ Saves(fds[p])
    BY <1>1 DEF Plumbed, Typed, Reserved, Shelled
  <1>5. /\ Stdio(fds[p], local[p]) /\ Saved("log", fds[p], local[p], parent[p], faults)
        /\ fds[p][0] = Terminal
    BY <1>4 DEF Sound, Shelled, Wires
  <1>6. Terminal # Closed
    BY DEF Terminal, Closed, File
  <1>7. /\ fds[p][4] = Closed => Lowest(fds[p]) = 4
        /\ Lowest(fds[p]) \notin {0, 1, 2, 3}
    BY <1>4, <1>5, <1>6, FourIsNext DEF Stdio, Saves, SavedIn
  <1>8. /\ t[0] = Terminal /\ t[1] = fds[p][1] /\ t[2] = fds[p][2]
        /\ \/ d # 4 /\ t[4] = fds[p][4]
           \/ d = 4 /\ t[4] = File("log") /\ fds[p][4] = Closed
        /\ d \notin {0, 1, 2}
        /\ d = NoFd \/ (d \in Fds /\ t[d] = File("log"))
        /\ t[4] = Closed => faults' = faults + 1
    <2>1. CASE d = NoFd /\ t = fds[p] /\ faults' = faults + 1
      BY <1>5, <2>1 DEF NoFd
    <2>2. CASE d = Lowest(fds[p]) /\ t = Opened(fds[p], File("log")) /\ faults' = faults
      <3>1. CASE Unused(fds[p]) = {}
        <4>1. d = NoFd /\ t = fds[p]
          BY <1>4, <2>2, <3>1, LowestKnown DEF Opened
        <4>2. fds[p][4] # Closed
          BY <3>1, SetsKnown DEF Unused
        <4> QED  BY <1>5, <4>1, <4>2 DEF NoFd
      <3>2. CASE Unused(fds[p]) # {}
        <4>1. d \in Fds /\ fds[p][d] = Closed /\ d \notin {0, 1, 2, 3} /\ d # NoFd
          BY <1>4, <1>7, <2>2, <3>2, LowestKnown, SetsKnown
        <4>2. t = [fds[p] EXCEPT ![d] = File("log")]
          BY <2>2, <4>1 DEF Opened
        <4>3. \A e \in Fds : t[e] = IF e = d THEN File("log") ELSE fds[p][e]
          BY <1>4, <4>2 DEF Table
        <4>4. File("log") # Closed
          BY DEF File, Closed
        <4> QED  BY <1>5, <1>7, <2>2, <4>1, <4>3, <4>4, SetsKnown
      <3> QED  BY <3>1, <3>2
    <2> QED  BY <1>2, <2>1, <2>2
  <1>9. faults' \in Nat /\ faults <= faults'
    BY <1>2, <1>4
  <1> HIDE DEF l
  <1>10. Stdio(t, l)
    BY <1>3, <1>5, <1>8 DEF Stdio
  <1>11. Saved("pipe", t, l, parent[p], faults')
    <2>1. 1 % 2 = 1
      OBVIOUS
    <2>2. File("log") # File("stdout") /\ File("log") # Closed /\ File("log").kind # "read"
          /\ Closed # File("stdout")
      BY DEF File, Closed
    <2> QED  BY <1>3, <1>4, <1>5, <1>8, <1>9, <2>1, <2>2 DEF Saved, Holding, SavedOut
  <1>12. Wires("pipe", t, l)
    <2>1. Incoming(t, l)
      BY <1>3, <1>8, SetsKnown DEF Incoming
    <2>2. l.at % 2 # 0 /\ Len(l.made) = l.at - 1
      BY <1>3
    <2>3. Logged(t, l)
      BY <1>3, <1>8 DEF Logged
    <2> QED  BY <2>1, <2>2, <2>3 DEF Wires, Holding
  <1>13. p = Top => t[SavedOut] = File("stdout")
    <2>1. p = Top => fds[p][4] = File("stdout")
      BY <1>4 DEF Sound, Shelled, SavedOut
    <2>2. File("stdout") # Closed
      BY DEF File, Closed
    <2> QED  BY <1>8, <2>1, <2>2 DEF SavedOut
  <1>14. Sound(p, "pipe", t, l, parent[p], faults')
    BY <1>10, <1>11, <1>12, <1>13 DEF Sound
  <1> QED  BY <1>2, <1>9, <1>14, PlumbedAfterMove DEF l

\* At the end of a line the log is closed, and with it what was in the place of
\* stdout.
LEMMA PlumbedAfterEnd ==
  ASSUME Typed, Reserved, Plumbed, NEW p \in Procs, EndLine(p)
  PROVE  Plumbed'
  <1> DEFINE t == RestoreStdin(Shut(fds[p], local[p].logFd))
             l == Ended(local[p])
  <1>1. pc[p] = "end" /\ faults' = faults /\ Moves(p, "prompt", t, l)
    BY EndLineMoves
  <1>2. l.logFd = NoFd /\ l.readFd = NoFd /\ l.rd = NoFd /\ l.wr = NoFd
    BY DEF Ended, Blank
  <1>3. /\ Sound(p, "end", fds[p], local[p], parent[p], faults)
        /\ fds[p] \in Table /\ faults \in Nat
    BY <1>1 DEF Plumbed, Typed
  <1>4. Stdio(fds[p], local[p]) /\ Saved("end", fds[p], local[p], parent[p], faults)
    BY <1>3 DEF Sound, Shelled
  <1>5. \A e \in Fds \ {0} : t[e] = IF e = local[p].logFd THEN Closed ELSE fds[p][e]
    <2>1. \A e \in Fds : Shut(fds[p], local[p].logFd)[e]
                         = IF e = local[p].logFd THEN Closed ELSE fds[p][e]
      BY <1>3, SetsKnown DEF Shut, Table
    <2>2. DOMAIN Shut(fds[p], local[p].logFd) = Fds
      BY <1>3 DEF Shut, Table
    <2> QED  BY <2>1, <2>2 DEF RestoreStdin, Dup2
  <1> HIDE DEF t, l
  <1>6. t[1] = fds[p][1] /\ t[2] = fds[p][2]
        /\ t[4] = IF local[p].logFd = 4 THEN Closed ELSE fds[p][4]
    BY <1>4, <1>5, SetsKnown DEF Stdio
  <1>7. Stdio(t, l)
    BY <1>2, <1>4, <1>6 DEF Stdio, NoFd
  <1>8. Saved("prompt", t, l, parent[p], faults)
    <2>1. Closed.kind # "read" /\ Closed # File("log") /\ Closed # File("stdout")
      BY DEF File, Closed
    <2>2. CASE local[p].logFd = 4
      BY <1>2, <1>4, <1>6, <2>1, <2>2 DEF Saved, Holding, SavedOut, NoFd
    <2>3. CASE local[p].logFd # 4
      BY <1>2, <1>4, <1>6, <2>3 DEF Saved, Holding, SavedOut, NoFd
    <2> QED  BY <2>2, <2>3
  <1>9. Wires("prompt", t, l)
    BY DEF Wires, Holding
  <1>10. p = Top => t[SavedOut] = File("stdout")
    BY <1>3, <1>4, <1>6 DEF Sound, Shelled, Saved, SavedOut
  <1>11. Sound(p, "prompt", t, l, parent[p], faults)
    BY <1>7, <1>8, <1>9, <1>10 DEF Sound
  <1> QED  BY <1>1, <1>3, <1>11, PlumbedAfterMove

\* A new pipe: its read end is 0 for an even command, and saved_stdout when that
\* has been free; the write end is neither.
LEMMA PlumbedAfterPipe ==
  ASSUME Typed, Reserved, Plumbed, NEW p \in Procs, MakePipe(p)
  PROVE  Plumbed'
  <1>1. pc[p] = "pipe" /\ faults' = faults
    BY MakePipeMoves
  <1>2. /\ Sound(p, "pipe", fds[p], local[p], parent[p], faults)
        /\ fds[p] \in Table /\ local[p] \in Variables /\ faults \in Nat /\ Saves(fds[p])
    BY <1>1 DEF Plumbed, Typed, Reserved, Shelled
  <1>3. /\ Stdio(fds[p], local[p]) /\ Saved("pipe", fds[p], local[p], parent[p], faults)
        /\ Wires("pipe", fds[p], local[p])
    BY <1>2 DEF Sound, Shelled
  <1>4. CASE Moves(p, "end", fds[p], local[p])
    <2>1. Saved("end", fds[p], local[p], parent[p], faults) /\ Wires("end", fds[p], local[p])
      BY <1>3 DEF Saved, Wires, Holding
    <2>2. Sound(p, "end", fds[p], local[p], parent[p], faults)
      BY <1>2, <1>3, <2>1 DEF Sound, Shelled
    <2> QED  BY <1>1, <1>2, <1>4, <2>2, PlumbedAfterMove
  <1>5. CASE ~Moves(p, "end", fds[p], local[p])
    <2>1. PICK n \in Pipes, rd, wr \in Fds, t \in Table :
             /\ rd = Lowest(fds[p]) /\ t = [fds[p] EXCEPT ![rd] = ReadEnd(n)]
             /\ wr = Lowest(t) /\ fds[p][rd] = Closed /\ t[wr] = Closed
             /\ [t EXCEPT ![wr] = WriteEnd(n)] \in Table
             /\ WithPipe(local[p], rd, wr, n) \in Variables
             /\ Moves(p, "fork", [t EXCEPT ![wr] = WriteEnd(n)], WithPipe(local[p], rd, wr, n))
      BY <1>5, MakePipeMoves
    <2> DEFINE u == [t EXCEPT ![wr] = WriteEnd(n)]
               k == local[p]
               l == WithPipe(k, rd, wr, n)
    <2>2. /\ l.rd = rd /\ l.wr = wr /\ l.made = Append(k.made, n)
          /\ l.logFd = k.logFd /\ l.readFd = k.readFd /\ l.at = k.at
      BY <1>2 DEF WithPipe, Variables
    <2>3. \A e \in Fds : u[e] = IF e = wr THEN WriteEnd(n)
                               ELSE IF e = rd THEN ReadEnd(n) ELSE fds[p][e]
      BY <1>2, <2>1 DEF Table
    <2>4. rd # wr /\ fds[p][wr] = Closed /\ fds[p][rd] = Closed
      <3>1. ReadEnd(n) # Closed
        BY DEF ReadEnd, Closed, File
      <3> QED  BY <1>2, <2>1, <3>1 DEF Table
    <2>5. /\ Len(k.made) = k.at - 1 /\ k.at \in Nat /\ k.made \in Seq(Pipes)
          /\ Len(l.made) = k.at /\ l.made[k.at] = n
          /\ k.at # 1 => l.made[k.at - 1] = k.made[k.at - 1]
      <3>1. Len(k.made) = k.at - 1 /\ k.at \in Nat /\ k.made \in Seq(Pipes)
        BY <1>2, <1>3 DEF Wires, Variables
      <3>2. Len(Append(k.made, n)) = k.at /\ Append(k.made, n)[k.at] = n
        BY <3>1
      <3>3. k.at # 1 => Append(k.made, n)[k.at - 1] = k.made[k.at - 1]
        BY <3>1
      <3> QED  BY <2>2, <3>1, <3>2, <3>3
    <2>6. Incoming(fds[p], k) /\ (k.at % 2 = 0 => fds[p][0] = Closed) /\ Logged(fds[p], k)
      BY <1>3 DEF Wires, Holding
    <2>7. fds[p][k.readFd] # Closed
      BY <2>6 DEF Incoming, Terminal, ReadEnd, Closed, File
    <2>8. k.at % 2 = 0 \/ k.at % 2 = 1
      BY <2>5
    <2>9. rd = 0 <=> k.at % 2 = 0
      <3>1. CASE k.at % 2 = 0
        <4>1. fds[p][0] = Closed /\ 0 \in Fds /\ rd \in Nat
          BY <2>6, <3>1, SetsKnown
        <4>2. Unused(fds[p]) # {}
          BY <4>1 DEF Unused
        <4>3. rd <= 0
          BY <1>2, <2>1, <4>1, <4>2, LowestKnown
        <4> QED  BY <3>1, <4>1, <4>3
      <3>2. CASE k.at % 2 = 1
        <4>1. fds[p][0] # Closed
          BY <2>6, <2>7, <3>2 DEF Incoming
        <4> QED  BY <2>4, <3>2, <4>1
      <3> QED  BY <2>8, <3>1, <3>2
    <2>10. k.readFd \notin {rd, wr}
      BY <2>4, <2>7
    <2>11. {rd, wr} \cap {1, 2, 3} = {}
      <3>1. fds[p][3] # Closed
        BY <1>2 DEF Saves, SavedIn, Terminal, File, Closed
      <3> QED  BY <1>3, <2>4, <3>1 DEF Stdio
    <2>12. fds[p][4] = Closed => rd = 4 /\ faults > 1
      <3> SUFFICES ASSUME fds[p][4] = Closed PROVE rd = 4 /\ faults > 1
        OBVIOUS
      <3>1. faults > 1 /\ k.at % 2 = 1
        BY <1>3 DEF Saved, SavedOut
      <3>2. fds[p][0] # Closed
        BY <2>6, <2>7, <3>1 DEF Incoming
      <3>3. fds[p][3] # Closed
        BY <1>2 DEF Saves, SavedIn, Terminal, File, Closed
      <3> QED  BY <1>2, <1>3, <2>1, <3>1, <3>2, <3>3, FourIsNext DEF Stdio
    <2>13. /\ u[1] = fds[p][1] /\ u[2] = fds[p][2] /\ u[k.readFd] = fds[p][k.readFd]
           /\ u[rd] = ReadEnd(n) /\ u[wr] = WriteEnd(n)
           /\ u[4] = fds[p][4] \/ (rd = 4 /\ fds[p][4] = Closed /\ u[4] = ReadEnd(n))
           /\ u[4] # Closed
      <3>1. wr # 4
        BY <2>4, <2>12
      <3>2. ReadEnd(n) # Closed
        BY DEF ReadEnd, Closed, File
      <3>3. k.readFd \in Fds
        BY <2>6 DEF Incoming
      <3> QED  BY <2>3, <2>4, <2>10, <2>11, <2>12, <3>1, <3>2, <3>3, SetsKnown
    <2>14. k.logFd \notin {rd, wr} /\ Logged(u, l)
      <3>1. NoFd \notin Fds /\ File("log") # Closed
        BY SetsKnown DEF File, Closed
      <3> QED  BY <2>1, <2>2, <2>3, <2>4, <2>6, <3>1 DEF Logged
    <2> HIDE DEF u, l
    <2>15. Stdio(u, l)
      BY <1>3, <2>2, <2>11, <2>13 DEF Stdio
    <2>16. Saved("fork", u, l, parent[p], faults)
      <3>1. ReadEnd(n).kind = "read" /\ ReadEnd(n) # File("log") /\ ReadEnd(n) # File("stdout")
            /\ Closed # File("stdout")
        BY DEF ReadEnd, File, Closed
      <3>2. CASE u[4] = fds[p][4]
        BY <1>3, <2>2, <2>13, <3>2 DEF Saved, Holding, SavedOut
      <3>3. CASE rd = 4 /\ fds[p][4] = Closed /\ u[4] = ReadEnd(n)
        BY <1>2, <1>3, <2>2, <2>12, <2>13, <3>1, <3>3 DEF Saved, Holding, SavedOut
      <3> QED  BY <2>13, <3>2, <3>3
    <2>17. Wires("fork", u, l)
      <3>1. Incoming(u, l)
        BY <2>2, <2>5, <2>6, <2>13 DEF Incoming
      <3>2. Outgoing(u, l) /\ Len(l.made) = l.at
        BY <2>1, <2>2, <2>5, <2>13 DEF Outgoing
      <3>3. NextEnd(u, l)
        BY <2>1, <2>2, <2>5, <2>9, <2>13 DEF NextEnd
      <3> QED  BY <2>14, <3>1, <3>2, <3>3 DEF Wires, Holding
    <2>18. p = Top => u[SavedOut] = File("stdout")
      <3>1. p = Top => fds[p][4] = File("stdout")
        BY <1>2 DEF Sound, Shelled, SavedOut
      <3>2. File("stdout") # Closed
        BY DEF File, Closed
      <3> QED  BY <2>13, <3>1, <3>2 DEF SavedOut
    <2>19. Sound(p, "fork", u, l, parent[p], faults)
      BY <2>15, <2>16, <2>17, <2>18 DEF Sound
    <2> QED  BY <1>1, <1>2, <2>1, <2>19, PlumbedAfterMove DEF u, l
  <1> QED  BY <1>4, <1>5

\* The child is a copy; when the first shell forks, stdout is still saved.
LEMMA PlumbedAfterFork ==
  ASSUME Typed, Plumbed, NEW p \in Procs, Fork(p)
  PROVE  Plumbed'
  <1>1. pc[p] = "fork" /\ faults' = faults /\ faults \in Nat
    BY ForkCopies DEF Typed
  <1>2. PICK q \in Procs \ {p, Top} :
          /\ SameLine(local[p], [local[p] EXCEPT !.pid = q])
          /\ fds' = [fds EXCEPT ![q] = fds[p]]
          /\ local' = [local EXCEPT ![q] = local[p], ![p] = [local[p] EXCEPT !.pid = q]]
          /\ pc' = [pc EXCEPT ![p] = "forked", ![q] = "child"]
          /\ parent' = [parent EXCEPT ![q] = p]
    BY ForkCopies
  <1>3. Sound(p, "fork", fds[p], local[p], parent[p], faults)
    BY <1>1 DEF Plumbed
  <1>4. /\ Stdio(fds[p], local[p]) /\ Saved("fork", fds[p], local[p], parent[p], faults)
        /\ Wires("fork", fds[p], local[p])
        /\ p = Top => fds[p][SavedOut] = File("stdout")
    BY <1>3 DEF Sound, Shelled
  <1>5. \A place \in {"forked", "child"} : Wires(place, fds[p], local[p])
    BY <1>4 DEF Wires, Holding
  <1>6. /\ Saved("forked", fds[p], local[p], parent[p], faults)
        /\ Saved("child", fds[p], local[p], p, faults)
    BY <1>4 DEF Saved, Holding
  <1>7. Sound(p, "forked", fds[p], local[p], parent[p], faults)
    BY <1>4, <1>5, <1>6 DEF Sound
  <1>8. Sound(q, "child", fds[p], local[p], p, faults)
    BY <1>4, <1>5, <1>6 DEF Sound
  <1>9. Sound(p, "forked", fds[p], [local[p] EXCEPT !.pid = q], parent[p], faults)
    BY <1>1, <1>2, <1>7, SoundLasts
  <1> SUFFICES ASSUME NEW r \in Procs
               PROVE  Sound(r, pc'[r], fds'[r], local'[r], parent'[r], faults')
    BY DEF Plumbed
  <1>10. CASE r = p
    <2>1. pc'[r] = "forked" /\ fds'[r] = fds[p] /\ parent'[r] = parent[p]
          /\ local'[r] = [local[p] EXCEPT !.pid = q]
      BY <1>2, <1>10 DEF Typed
    <2> QED  BY <1>1, <1>9, <1>10, <2>1
  <1>11. CASE r = q
    <2>1. pc'[r] = "child" /\ fds'[r] = fds[p] /\ parent'[r] = p /\ local'[r] = local[p]
      BY <1>2, <1>11 DEF Typed
    <2> QED  BY <1>1, <1>8, <1>11, <2>1
  <1>12. CASE r \notin {p, q}
    <2>1. pc'[r] = pc[r] /\ fds'[r] = fds[r] /\ parent'[r] = parent[r] /\ local'[r] = local[r]
      BY <1>2, <1>12 DEF Typed
    <2> QED  BY <1>1, <2>1 DEF Plumbed
  <1> QED  BY <1>10, <1>11, <1>12

\* The two ends the shell closes are those of this command; the next command
\* reads from the other end of its pipe.
LEMMA PlumbedAfterCommand ==
  ASSUME Typed, Plumbed, NEW p \in Procs, AfterCommand(p)
  PROVE  Plumbed'
  <1> DEFINE k == local[p]
             place == IF k.at = Len(k.line) THEN "end" ELSE "pipe"
             t == Shut(Shut(fds[p], k.wr), k.readFd)
             l == After(k)
  <1>1. pc[p] = "reaped" /\ faults' = faults /\ Moves(p, place, t, l)
    BY AfterCommandMoves
  <1>2. /\ Sound(p, "reaped", fds[p], k, parent[p], faults)
        /\ fds[p] \in Table /\ k \in Variables /\ faults \in Nat
        /\ k.at \in Nat \ {0} /\ Len(k.line) \in Nat
    <2>1. /\ Sound(p, "reaped", fds[p], k, parent[p], faults)
          /\ fds[p] \in Table /\ k \in Variables /\ faults \in Nat
      BY <1>1 DEF Plumbed, Typed
    <2>2. k.at \in 1 .. Len(k.line)
      BY <1>1 DEF Typed, AtCommand
    <2>3. Len(k.line) \in Nat
      BY <2>1 DEF Variables
    <2> QED  BY <2>1, <2>2, <2>3
  <1>3. /\ Stdio(fds[p], k) /\ Saved("reaped", fds[p], k, parent[p], faults)
        /\ Wires("reaped", fds[p], k)
    BY <1>2 DEF Sound, Shelled
  <1>4. /\ l.readFd = k.rd /\ l.logFd = k.logFd /\ l.rd = k.rd /\ l.wr = k.wr
        /\ l.made = k.made /\ l.at = IF k.at = Len(k.line) THEN k.at ELSE k.at + 1
    BY <1>2 DEF After, Variables
  <1>5. /\ Incoming(fds[p], k) /\ Outgoing(fds[p], k) /\ NextEnd(fds[p], k)
        /\ Logged(fds[p], k) /\ Len(k.made) = k.at
    BY <1>3 DEF Wires, Holding
  <1>6. \A e \in Fds : t[e] = IF e \in {k.wr, k.readFd} THEN Closed ELSE fds[p][e]
    <2>1. k.wr \in Fds /\ k.readFd \in Fds /\ k.wr # NoFd /\ k.readFd # NoFd
      BY <1>5, SetsKnown DEF Incoming, Outgoing
    <2> QED  BY <1>2, <2>1 DEF Shut, Table
  <1>7. k.at % 2 = 0 \/ k.at % 2 = 1
    BY <1>2
  <1>8. k.rd \notin {k.wr, k.readFd} /\ k.logFd \notin {k.wr, k.readFd}
    <2>1. k.rd # k.readFd
      BY <1>5, <1>7 DEF Incoming, NextEnd
    <2>2. k.rd # k.wr
      BY <1>5 DEF NextEnd, Outgoing, ReadEnd, WriteEnd
    <2>3. k.logFd # k.wr /\ k.logFd # k.readFd
      BY <1>5, SetsKnown DEF Logged, Outgoing, Incoming, ReadEnd, WriteEnd, Terminal, File
    <2> QED  BY <2>1, <2>2, <2>3
  <1>9. /\ t[1] = fds[p][1] /\ t[2] = fds[p][2] /\ t[k.rd] = fds[p][k.rd] /\ Logged(t, l)
        /\ t[4] = fds[p][4] \/ (t[4] = Closed /\ fds[p][4].kind = "read" /\ k.at % 2 = 0)
    <2>1. k.wr # 4
      BY <1>3, <1>5 DEF Saved, Outgoing, WriteEnd, File, Closed, SavedOut
    <2>2. k.readFd = 4 => fds[p][4].kind = "read" /\ k.at % 2 = 0
      BY <1>3, <1>5, <1>7 DEF Saved, Incoming, ReadEnd, File, Closed, SavedOut, Terminal
    <2>3. k.rd \in Fds
      BY <1>5 DEF NextEnd
    <2>4. Logged(t, l)
      BY <1>4, <1>5, <1>6, <1>8 DEF Logged
    <2> QED  BY <1>3, <1>6, <1>8, <2>1, <2>2, <2>3, <2>4, SetsKnown DEF Stdio
  <1>10. place \in {"end", "pipe"} /\ (place = "pipe" => l.at = k.at + 1)
    BY <1>4
  <1>11. k.at % 2 = 0 => (k.at + 1) % 2 = 1
    BY <1>2
  <1>12. k.at % 2 = 1 => (k.at + 1) % 2 = 0
    BY <1>2
  <1>13. place = "pipe" => Wires("pipe", t, l)
    <2> SUFFICES ASSUME place = "pipe" PROVE Wires("pipe", t, l)
      OBVIOUS
    <2>1. l.at = k.at + 1 /\ l.at # 1 /\ l.at - 1 = k.at
      BY <1>2, <1>10
    <2>2. Incoming(t, l)
      <3>1. l.readFd = 0 <=> l.at % 2 = 1
        BY <1>4, <1>5, <1>7, <1>11, <1>12, <2>1 DEF NextEnd
      <3>2. t[l.readFd] = ReadEnd(l.made[l.at - 1])
        BY <1>4, <1>5, <1>9, <2>1 DEF NextEnd
      <3> QED  BY <1>4, <1>5, <2>1, <3>1, <3>2 DEF Incoming, NextEnd
    <2>3. l.at % 2 = 0 => t[0] = Closed
      BY <1>5, <1>6, <1>7, <1>11, <2>1, SetsKnown DEF Incoming
    <2>4. Len(l.made) = l.at - 1
      BY <1>4, <1>5, <2>1
    <2> QED  BY <1>9, <2>2, <2>3, <2>4 DEF Wires, Holding
  <1> HIDE DEF t, l
  <1>14. Stdio(t, l)
    BY <1>3, <1>4, <1>9 DEF Stdio
  <1>15. Saved(place, t, l, parent[p], faults)
    <2>1. Closed # File("stdout") /\ Closed # File("log") /\ Closed.kind # "read"
      BY DEF File, Closed
    <2>2. CASE t[4] = fds[p][4]
      BY <1>3, <1>4, <1>10, <2>2 DEF Saved, Holding, SavedOut
    <2>3. CASE t[4] = Closed /\ fds[p][4].kind = "read" /\ k.at % 2 = 0
      <3>1. faults > 1 /\ fds[p][4] # File("log") /\ fds[p][4] # File("stdout")
        BY <1>3, <2>3 DEF Saved, SavedOut, File
      <3>2. place = "pipe" => l.at % 2 = 1
        BY <1>10, <1>11, <2>3
      <3> QED  BY <1>2, <1>10, <2>1, <2>3, <3>1, <3>2 DEF Saved, Holding, SavedOut
    <2> QED  BY <1>9, <2>2, <2>3
  <1>16. p = Top => t[SavedOut] = File("stdout")
    <2>1. p = Top => fds[p][4] = File("stdout")
      BY <1>2 DEF Sound, Shelled, SavedOut
    <2> QED  BY <1>9, <2>1 DEF SavedOut, File
  <1>17. Wires(place, t, l)
    BY <1>10, <1>13 DEF Wires, Holding
  <1>18. Sound(p, place, t, l, parent[p], faults)
    BY <1>10, <1>14, <1>15, <1>16, <1>17 DEF Sound
  <1> QED  BY <1>1, <1>2, <1>18, PlumbedAfterMove

\* The child closes the read end and the log and keeps what its line needs.
LEMMA PlumbedAfterStart ==
  ASSUME Typed, Plumbed, NEW p \in Procs, StartChild(p)
  PROVE  Plumbed'
  <1> DEFINE k == local[p]
             place == IF k.logFd = NoFd THEN "end" ELSE "redirect"
             t == Shut(Shut(fds[p], k.rd), k.logFd)
  <1>1. pc[p] = "child" /\ faults' = faults /\ Moves(p, place, t, k)
    BY StartChildMoves
  <1>2. /\ Sound(p, "child", fds[p], k, parent[p], faults)
        /\ fds[p] \in Table /\ k \in Variables /\ faults \in Nat
    BY <1>1 DEF Plumbed, Typed
  <1>3. /\ Stdio(fds[p], k) /\ Saved("child", fds[p], k, parent[p], faults)
        /\ Wires("child", fds[p], k) /\ p # Top
    BY <1>2 DEF Sound, Shelled
  <1>4. /\ Incoming(fds[p], k) /\ Outgoing(fds[p], k) /\ NextEnd(fds[p], k)
        /\ Logged(fds[p], k) /\ Len(k.made) = k.at
    BY <1>3 DEF Wires, Holding
  <1>5. \A e \in Fds : t[e] = IF e \in {k.rd, k.logFd} THEN Closed ELSE fds[p][e]
    <2>1. k.rd \in Fds /\ k.rd # NoFd /\ NoFd \notin Fds
      BY <1>4, SetsKnown DEF NextEnd
    <2> QED  BY <1>2, <1>4, <2>1 DEF Shut, Table, Logged
  <1>6. k.at % 2 = 0 \/ k.at % 2 = 1
    BY <1>2 DEF Variables
  <1>7. k.readFd \notin {k.rd, k.logFd} /\ k.wr \notin {k.rd, k.logFd}
    <2>1. k.readFd # k.rd
      BY <1>4, <1>6 DEF Incoming, NextEnd
    <2>2. k.wr # k.rd
      BY <1>4 DEF NextEnd, Outgoing, ReadEnd, WriteEnd
    <2>3. k.logFd # k.wr /\ k.logFd # k.readFd
      BY <1>4, SetsKnown DEF Logged, Outgoing, Incoming, ReadEnd, WriteEnd, Terminal, File
    <2> QED  BY <2>1, <2>2, <2>3
  <1>8. /\ t[1] = fds[p][1] /\ t[2] = fds[p][2]
        /\ t[k.readFd] = fds[p][k.readFd] /\ t[k.wr] = fds[p][k.wr]
        /\ \/ t[4] = fds[p][4] /\ k.logFd # 4
           \/ t[4] = Closed /\ fds[p][4] # File("stdout")
    <2>1. k.rd = 4 => fds[p][4] # File("stdout")
      BY <1>4 DEF NextEnd, ReadEnd, File
    <2>2. k.logFd = 4 => fds[p][4] # File("stdout")
      BY <1>3 DEF Saved, SavedOut
    <2> QED  BY <1>3, <1>4, <1>5, <1>7, <2>1, <2>2, SetsKnown DEF Stdio, Incoming, Outgoing
  <1>9. place \in {"end", "redirect"}
    OBVIOUS
  <1>10. place = "redirect" => Wires("redirect", t, k)
    <2>1. Incoming(t, k) /\ Outgoing(t, k)
      BY <1>4, <1>8 DEF Incoming, Outgoing
    <2>2. k.at % 2 = 0 => t[0] = Closed
      BY <1>4, <1>5 DEF NextEnd
    <2> QED  BY <1>4, <2>1, <2>2 DEF Wires, Holding
  <1> HIDE DEF t, place
  <1>11. Stdio(t, k)
    BY <1>3, <1>8 DEF Stdio
  <1>12. Saved(place, t, k, parent[p], faults)
    <2>1. Closed # File("stdout") /\ Closed # File("log") /\ Closed.kind # "read"
      BY DEF File, Closed
    <2>2. CASE t[4] = fds[p][4] /\ k.logFd # 4
      BY <1>3, <1>9, <2>2 DEF Saved, Holding, SavedOut
    <2>3. CASE t[4] = Closed /\ fds[p][4] # File("stdout")
      BY <1>3, <1>9, <2>1, <2>3 DEF Saved, Holding, SavedOut
    <2> QED  BY <1>8, <2>2, <2>3
  <1>13. Wires(place, t, k)
    BY <1>9, <1>10 DEF Wires, Holding
  <1>14. Sound(p, place, t, k, parent[p], faults)
    BY <1>3, <1>9, <1>11, <1>12, <1>13 DEF Sound
  <1> QED  BY <1>1, <1>2, <1>14, PlumbedAfterMove

-----------------------------------------------------------------------------
(* The two redirections of the child.                                        *)

\* open uses the lowest unused descriptor.
LEMMA OpenedAt ==
  ASSUME NEW t \in Table, NEW f \in Files, Lowest(t) # NoFd
  PROVE  /\ Lowest(t) \in Fds /\ t[Lowest(t)] = Closed
         /\ Lowest(t) = 0 \/ t[0] # Closed
         /\ \A e \in Fds : Opened(t, f)[e] = IF e = Lowest(t) THEN f ELSE t[e]
  <1>1. Unused(t) # {}
    BY LowestKnown
  <1>2. Lowest(t) \in Fds /\ t[Lowest(t)] = Closed
        /\ (t[0] = Closed => Lowest(t) <= 0)
    BY <1>1, LowestKnown, SetsKnown
  <1>3. Lowest(t) \in Nat
    BY <1>2, SetsKnown
  <1> QED  BY <1>2, <1>3 DEF Opened, Table

\* A redirection that succeeds.
LEMMA RedirectedAt ==
  ASSUME NEW t \in Table, NEW old \in Number, NEW new \in Fds, CanRedirect(t, old, new)
  PROVE  \A e \in Fds : Redirect(t, old, new)[e] = IF old = new THEN t[e]
                                                   ELSE IF e = old THEN Closed
                                                   ELSE IF e = new THEN t[old] ELSE t[e]
  <1>1. CASE old = new
    BY <1>1 DEF Redirect
  <1>2. CASE old # new
    <2>1. old \in Fds /\ old # NoFd
      BY <1>2 DEF CanRedirect, IsOpen, Number
    <2> QED  BY <1>2, <2>1 DEF Redirect, Shut, Dup2, Table
  <1> QED  BY <1>1, <1>2

\* A child before it redirects: its standard files are open, it holds the pipes
\* before and after it, and one of them is at 0 or 0 is closed.
Ready(t, l) ==
  /\ t \in Table /\ l \in Variables /\ Saves(t) /\ Stdio(t, l)
  /\ Incoming(t, l) /\ Outgoing(t, l)
  /\ l.at % 2 = 0 => t[0] = Closed

\* The end it writes to is no standard descriptor and not what it reads from.
LEMMA WriteEndApart ==
  ASSUME NEW t, NEW l, Ready(t, l)
  PROVE  l.wr \notin {0, 1, 2, 3, l.readFd} /\ t[l.wr] # Closed /\ t[l.readFd] # Closed
  <1>1. t[l.readFd] # Closed
    BY DEF Ready, Incoming, Terminal, ReadEnd, Closed, File
  <1>2. t[l.wr] # Closed /\ l.wr # l.readFd /\ l.wr # 3
    BY DEF Ready, Incoming, Outgoing, Saves, SavedIn, Terminal, ReadEnd, WriteEnd, Closed, File
  <1>3. l.at % 2 = 0 \/ l.at % 2 = 1
    BY DEF Ready, Variables
  <1>4. l.wr # 0
    BY <1>2, <1>3 DEF Ready, Incoming
  <1> QED  BY <1>1, <1>2, <1>4 DEF Ready, Stdio

\* What the first redirection leaves: 0 is what the command reads, an output
\* file is open at a descriptor that was unused, and all else is as before or
\* closed.
InputRight(t, l, c, d) ==
  /\ d[0] = IF LosesPipe(l) THEN Terminal ELSE InputOf(l)
  /\ \A e \in Fds \ {0} : d[e] \in {t[e], Closed} \/ (c.out /\ e = OutTo(t, l))
  /\ \A e \in {1, 2, 3} : d[e] = t[e]
  /\ c.out => OutTo(t, l) \in Fds \ {0, 1, 2, 3} /\ d[OutTo(t, l)] = File("outfile")
              /\ t[OutTo(t, l)] = Closed
  /\ ~c.out => d[l.wr] = t[l.wr]

\* A command with an input file.
LEMMA InputFromFile ==
  ASSUME NEW t, NEW l, NEW c, Ready(t, l), c = l.line[l.at], c.in,
         WithInput(t, c) \in Table, WithFiles(t, c) \in Table, InFrom(t, l) \in Number,
         CanRedirect(WithFiles(t, c), InFrom(t, l), 0), c.out => OutTo(t, l) # NoFd
  PROVE  InputRight(t, l, c, InDone(t, l))
  <1> DEFINE a == WithInput(t, c)
             b == WithFiles(t, c)
             from == InFrom(t, l)
             to == OutTo(t, l)
             d == InDone(t, l)
  <1>1. t \in Table /\ l \in Variables /\ t[1] # Closed /\ t[2] # Closed /\ t[3] # Closed
    BY DEF Ready, Stdio, Saves, SavedIn, Terminal, Closed, File
  <1>2. from = Lowest(t) /\ a = Opened(t, File("infile"))
    BY DEF InFrom, Readied, WithInput
  <1>3. from # NoFd
    <2>1. NoFd # 0
      BY DEF NoFd
    <2> QED  BY <2>1 DEF CanRedirect, IsOpen
  <1>4. File("infile") \in Files /\ File("outfile") \in Files
        /\ File("infile") # Closed /\ File("outfile") # Closed
    BY FilesKnown DEF Kinds, File, Closed
  <1>5. /\ from \in Fds /\ t[from] = Closed /\ (from = 0 \/ t[0] # Closed)
        /\ \A e \in Fds : a[e] = IF e = from THEN File("infile") ELSE t[e]
    BY <1>1, <1>2, <1>3, <1>4, OpenedAt
  <1>6. from \notin {1, 2, 3, l.wr}
    BY <1>1, <1>5, WriteEndApart
  <1>7. a[0] # Closed /\ a[1] # Closed /\ a[2] # Closed /\ a[3] # Closed
    BY <1>1, <1>4, <1>5, <1>6, SetsKnown
  <1>8. c.out => /\ to = Lowest(a) /\ to \in Fds /\ a[to] = Closed
                 /\ \A e \in Fds : b[e] = IF e = to THEN File("outfile") ELSE a[e]
    <2> SUFFICES ASSUME c.out
                 PROVE  /\ to = Lowest(a) /\ to \in Fds /\ a[to] = Closed
                        /\ \A e \in Fds : b[e] = IF e = to THEN File("outfile") ELSE a[e]
      OBVIOUS
    <2>1. to = Lowest(a) /\ b = Opened(a, File("outfile"))
      BY DEF OutTo, WithFiles
    <2> HIDE DEF a, b, to
    <2> QED  BY <1>4, <2>1, OpenedAt DEF a, to
  <1>9. ~c.out => b = a
    BY DEF WithFiles
  <1>10. \A e \in Fds : d[e] = IF from = 0 THEN b[e] ELSE IF e = from THEN Closed
                              ELSE IF e = 0 THEN b[from] ELSE b[e]
    BY SetsKnown, RedirectedAt DEF InDone
  <1> HIDE DEF a, b, from, to, d
  <1>11. c.out => to \notin {0, 1, 2, 3, from} /\ t[to] = Closed
    BY <1>4, <1>5, <1>7, <1>8
  <1>12. b[from] = File("infile") /\ d[0] = File("infile")
    BY <1>5, <1>8, <1>9, <1>10, <1>11, SetsKnown
  <1>13. \A e \in Fds \ {0} : d[e] \in {t[e], Closed} \/ (c.out /\ e = to)
    BY <1>5, <1>8, <1>9, <1>10
  <1>14. \A e \in {1, 2, 3} : d[e] = t[e]
    BY <1>5, <1>6, <1>8, <1>9, <1>10, <1>11, SetsKnown
  <1>15. c.out => to \in Fds /\ d[to] = File("outfile")
    BY <1>8, <1>10, <1>11
  <1>16. ~c.out => d[l.wr] = t[l.wr]
    BY <1>5, <1>6, <1>9, <1>10, WriteEndApart DEF Ready, Outgoing
  <1>17. InputOf(l) = File("infile") /\ ~LosesPipe(l)
    BY DEF InputOf, LosesPipe
  <1> QED  BY <1>11, <1>12, <1>13, <1>14, <1>15, <1>16, <1>17 DEF InputRight, to, d

\* A command that reads from its pipe, or the first from the terminal.
LEMMA InputFromPipe ==
  ASSUME NEW t, NEW l, NEW c, Ready(t, l), c = l.line[l.at], ~c.in,
         WithInput(t, c) \in Table, WithFiles(t, c) \in Table, InFrom(t, l) \in Number,
         CanRedirect(WithFiles(t, c), InFrom(t, l), 0), c.out => OutTo(t, l) # NoFd
  PROVE  InputRight(t, l, c, InDone(t, l))
  <1> DEFINE a == WithInput(t, c)
             b == WithFiles(t, c)
             to == OutTo(t, l)
             d == InDone(t, l)
  <1>1. /\ t \in Table /\ l \in Variables /\ t[1] # Closed /\ t[2] # Closed /\ t[3] = Terminal
        /\ l.readFd \in Fds /\ l.readFd \notin {1, 2}
    BY DEF Ready, Stdio, Saves, SavedIn, Incoming
  <1>2. Terminal # Closed /\ File("outfile") \in Files /\ File("outfile") # Closed
    BY FilesKnown DEF Kinds, Terminal, File, Closed
  <1>3. a = Readied(t, c) /\ InFrom(t, l) = l.readFd
    BY DEF WithInput, InFrom
  <1>4. \A e \in Fds : a[e] = IF c.out /\ e = 0 THEN Terminal ELSE t[e]
    <2>1. IsOpen(t, SavedIn)
      BY <1>1, <1>2 DEF IsOpen, SavedIn, NoFd
    <2>2. c.out => a = [t EXCEPT ![0] = Terminal]
      BY <1>1, <1>3, <2>1 DEF Readied, RestoreStdin, Dup2, SavedIn
    <2>3. ~c.out => a = t
      BY <1>3 DEF Readied
    <2> HIDE DEF a
    <2> QED  BY <1>1, <2>2, <2>3 DEF Table
  <1>5. c.out => /\ to = Lowest(a) /\ to \in Fds /\ a[to] = Closed
                 /\ \A e \in Fds : b[e] = IF e = to THEN File("outfile") ELSE a[e]
    <2> SUFFICES ASSUME c.out
                 PROVE  /\ to = Lowest(a) /\ to \in Fds /\ a[to] = Closed
                        /\ \A e \in Fds : b[e] = IF e = to THEN File("outfile") ELSE a[e]
      OBVIOUS
    <2>1. to = Lowest(a) /\ b = Opened(a, File("outfile"))
      BY DEF OutTo, WithFiles
    <2> HIDE DEF a, b, to
    <2> QED  BY <1>2, <2>1, OpenedAt DEF a, to
  <1>6. ~c.out => b = a
    BY DEF WithFiles
  <1>7. \A e \in Fds : d[e] = IF l.readFd = 0 THEN b[e] ELSE IF e = l.readFd THEN Closed
                             ELSE IF e = 0 THEN b[l.readFd] ELSE b[e]
    BY <1>3, SetsKnown, RedirectedAt DEF InDone
  <1> HIDE DEF a, b, to, d
  <1>8. c.out => a[0] # Closed /\ a[1] # Closed /\ a[2] # Closed /\ a[3] # Closed
                 /\ a[l.readFd] # Closed
    <2>1. t[l.readFd] # Closed
      BY WriteEndApart
    <2> QED  BY <1>1, <1>2, <1>4, <2>1, SetsKnown
  <1>9. c.out => to \notin {0, 1, 2, 3, l.readFd} /\ t[to] = Closed
    BY <1>4, <1>5, <1>8
  <1>10. l.readFd # 3
    <2>1. l.at # 1 => ReadEnd(l.made[l.at - 1]) # Terminal
      BY DEF ReadEnd, Terminal, File
    <2>2. l.at = 1 => l.readFd = 0
      <3>1. 1 % 2 = 1
        OBVIOUS
      <3> QED  BY <3>1 DEF Ready, Incoming
    <2> QED  BY <1>1, <2>1, <2>2 DEF Ready, Incoming
  <1>11. \A e \in Fds \ {0} : d[e] \in {t[e], Closed} \/ (c.out /\ e = to)
    BY <1>4, <1>5, <1>6, <1>7
  <1>12. \A e \in {1, 2, 3} : d[e] = t[e]
    BY <1>1, <1>4, <1>5, <1>6, <1>7, <1>9, <1>10, SetsKnown
  <1>13. c.out => to \in Fds /\ d[to] = File("outfile")
    BY <1>5, <1>7, <1>9
  <1>14. ~c.out => d[l.wr] = t[l.wr]
    BY <1>4, <1>6, <1>7, WriteEndApart DEF Ready, Outgoing
  <1>15. d[0] = IF LosesPipe(l) THEN Terminal ELSE InputOf(l)
    <2>1. InputOf(l) = t[l.readFd]
      BY DEF InputOf, Ready, Incoming
    <2>2. LosesPipe(l) <=> c.out /\ l.at > 1 /\ l.readFd = 0
      BY DEF LosesPipe, Ready, Incoming
    <2>3. CASE l.readFd # 0
      <3>1. d[0] = b[l.readFd] /\ b[l.readFd] = t[l.readFd]
        BY <1>1, <1>4, <1>5, <1>6, <1>7, <1>9, <2>3, SetsKnown
      <3> QED  BY <2>1, <2>2, <2>3, <3>1
    <2>4. CASE l.readFd = 0
      <3>1. d[0] = IF c.out THEN Terminal ELSE t[0]
        BY <1>4, <1>5, <1>6, <1>7, <1>9, <2>4, SetsKnown
      <3>2. c.out /\ ~(l.at > 1) => t[0] = Terminal
        <4>1. l.at % 2 = 1 /\ l.at \in Nat
          BY <2>4 DEF Ready, Incoming, Variables
        <4>2. ~(l.at > 1) => l.at = 1
          BY <4>1
        <4> QED  BY <2>4, <4>2 DEF Ready, Incoming
      <3> QED  BY <2>1, <2>2, <2>4, <3>1, <3>2
    <2> QED  BY <2>3, <2>4
  <1> QED  BY <1>9, <1>11, <1>12, <1>13, <1>14, <1>15 DEF InputRight, to, d

\* The child that has redirected both runs its command with what its line says;
\* the last command of a line writes to what is at saved_stdout.
LEMMA PlumbedAfterRedirect ==
  ASSUME Typed, Reserved, Plumbed, NEW p \in Procs, RedirectChild(p), ~Dies(p, local)
  PROVE  Plumbed'
  <1> DEFINE t == fds[p]
             l == local[p]
             c == l.line[l.at]
             to == OutTo(t, l)
             d == InDone(t, l)
             e == Redirect(d, to, 1)
  <1>1. /\ pc[p] = "redirect" /\ faults' = faults
        /\ WithInput(t, c) \in Table /\ WithFiles(t, c) \in Table
        /\ InFrom(t, l) \in Number /\ CanRedirect(WithFiles(t, c), InFrom(t, l), 0)
        /\ to \in Number /\ CanRedirect(d, to, 1) /\ d \in Table
        /\ Moves(p, "exec", e, l)
    BY RedirectChildMoves
  <1>2. /\ Sound(p, "redirect", t, l, parent[p], faults)
        /\ t \in Table /\ l \in Variables /\ faults \in Nat /\ Saves(t)
    BY <1>1 DEF Plumbed, Typed, Reserved, Shelled
  <1>3. /\ Stdio(t, l) /\ Saved("redirect", t, l, parent[p], faults)
        /\ Wires("redirect", t, l) /\ p # Top
    BY <1>2 DEF Sound, Shelled
  <1>4. Ready(t, l)
    BY <1>2, <1>3 DEF Ready, Wires, Holding
  <1>5. to # NoFd
    <2>1. NoFd # 1
      BY DEF NoFd
    <2> QED  BY <1>1, <2>1 DEF CanRedirect, IsOpen
  <1>6. InputRight(t, l, c, d)
    <2> HIDE DEF t, l, c, to, d
    <2>1. CASE c.in
      BY <1>1, <1>4, <1>5, <2>1, InputFromFile DEF c, to, d
    <2>2. CASE ~c.in
      BY <1>1, <1>4, <1>5, <2>2, InputFromPipe DEF c, to, d
    <2> QED  BY <2>1, <2>2
  <1>7. to = IF c.out THEN OutTo(t, l) ELSE IF l.at = Len(l.line) THEN SavedOut ELSE l.wr
    BY DEF OutTo
  <1> HIDE DEF t, c, to, d, e, l
  <1>8. to \notin {0, 1, 2, 3} /\ to \in Fds /\ d[to] # Closed
    <2>1. to \in Fds
      BY <1>1, <1>5 DEF Number
    <2>2. to \notin {0, 1, 2, 3}
      BY <1>4, <1>6, <1>7, WriteEndApart DEF InputRight, SavedOut
    <2> QED  BY <1>1, <2>1, <2>2 DEF CanRedirect, IsOpen
  <1>9. \A f \in Fds : e[f] = IF f = to THEN Closed ELSE IF f = 1 THEN d[to] ELSE d[f]
    BY <1>1, <1>8, RedirectedAt, SetsKnown DEF e
  <1>10. e[0] = d[0] /\ e[1] = d[to] /\ e[2] = t[2]
    BY <1>6, <1>8, <1>9, SetsKnown DEF InputRight
  <1>11. e[4] = t[4] \/ e[4] = Closed
    <2>1. CASE to = 4
      BY <1>9, <2>1, SetsKnown
    <2>2. CASE to # 4
      BY <1>6, <1>9, <2>2, SetsKnown DEF InputRight, to
    <2> QED  BY <2>1, <2>2
  <1>12. \/ e[1] = OutputOf(l)
         \/ IsLast(l) /\ ~c.out /\ parent[p] # Top /\ faults > 1 /\ e[1].kind = "read"
    <2>1. CASE c.out
      BY <1>6, <1>10, <2>1 DEF InputRight, OutputOf, to, c
    <2>2. CASE ~c.out /\ l.at # Len(l.line)
      BY <1>4, <1>6, <1>7, <1>10, <2>2 DEF InputRight, OutputOf, IsLast, c, Ready, Outgoing
    <2>3. CASE ~c.out /\ l.at = Len(l.line)
      <3>1. to = 4 /\ d[4] = t[4] /\ t[4] # Closed
        BY <1>6, <1>7, <1>8, <2>3, SetsKnown DEF InputRight, SavedOut
      <3>2. t[4] = File("stdout") \/ (t[4].kind = "read" /\ faults > 1 /\ parent[p] # Top)
        BY <1>3, <3>1 DEF Saved, SavedOut
      <3> QED  BY <1>10, <2>3, <3>1, <3>2 DEF OutputOf, IsLast, c
    <2> QED  BY <2>1, <2>2, <2>3
  <1>13. Connected(e, l, parent[p], faults)
    BY <1>6, <1>10, <1>12 DEF Connected, InputRight, c
  <1>14. Stdio(e, l)
    BY <1>3, <1>8, <1>10 DEF Stdio
  <1>15. Saved("exec", e, l, parent[p], faults)
    <2>1. Closed # File("stdout") /\ Closed # File("log") /\ Closed.kind # "read"
      BY DEF File, Closed
    <2> QED  BY <1>3, <1>11, <2>1 DEF Saved, Holding, SavedOut
  <1>16. Wires("exec", e, l)
    BY DEF Wires, Holding
  <1>17. Sound(p, "exec", e, l, parent[p], faults)
    BY <1>3, <1>13, <1>14, <1>15, <1>16 DEF Sound
  <1> QED  BY <1>1, <1>2, <1>17, PlumbedAfterMove

\* Every step keeps the descriptors in their places.
LEMMA PlumbedKept == Typed /\ Reserved /\ Plumbed /\ [Next]_vars => Plumbed'
  <1> SUFFICES ASSUME Typed, Reserved, Plumbed, [Next]_vars PROVE Plumbed'
    OBVIOUS
  <1>0. faults \in Nat
    BY DEF Typed
  <1>1. CASE UNCHANGED vars
    BY <1>1 DEF vars, Plumbed
  <1>2. CASE SomebodyDies
    BY <1>2, PlumbedAfterDeath
  <1>3. ASSUME NEW p \in Procs,
               \/ ReadLine(p) \/ EndOfInput(p) \/ OpenLog(p) \/ EndLine(p)
               \/ MakePipe(p) \/ Fork(p) \/ ForkFails(p) \/ NoteChild(p) \/ WaitPid(p)
               \/ AfterCommand(p) \/ StartChild(p) \/ Exec(p) \/ Works(p)
               \/ RedirectChild(p) /\ ~Dies(p, local)
        PROVE  Plumbed'
    <2>0. Sound(p, pc[p], fds[p], local[p], parent[p], faults)
      BY DEF Plumbed
    <2>1. CASE ReadLine(p) \/ EndOfInput(p)
      BY <2>1, PlumbedAfterLine
    <2>2. CASE OpenLog(p)
      BY <2>2, PlumbedAfterLog
    <2>3. CASE EndLine(p)
      BY <2>3, PlumbedAfterEnd
    <2>4. CASE MakePipe(p)
      BY <2>4, PlumbedAfterPipe
    <2>5. CASE Fork(p)
      BY <2>5, PlumbedAfterFork
    <2>6. CASE ForkFails(p)
      <3>1. pc[p] = "fork" /\ Keeps(p, "end") /\ faults' = faults + 1
        BY <2>6, ForkFailsKeeps
      <3>2. Sound(p, "end", fds[p], local[p], parent[p], faults + 1)
        <4>1. Saved("end", fds[p], local[p], parent[p], faults + 1)
          BY <1>0, <2>0, <3>1 DEF Sound, Shelled, Saved, Holding
        <4> QED  BY <2>0, <3>1, <4>1 DEF Sound, Shelled, Wires, Holding
      <3> QED  BY <1>0, <3>1, <3>2, PlumbedAfterKeeping
    <2>7. CASE NoteChild(p)
      <3>1. pc[p] = "forked" /\ Keeps(p, "wait") /\ faults' = faults
        BY <2>7, NoteChildKeeps
      <3>2. Sound(p, "wait", fds[p], local[p], parent[p], faults)
        <4>1. Saved("wait", fds[p], local[p], parent[p], faults)
          BY <2>0, <3>1 DEF Sound, Shelled, Saved, Holding
        <4> QED  BY <2>0, <3>1, <4>1 DEF Sound, Shelled, Wires, Holding
      <3> QED  BY <1>0, <3>1, <3>2, PlumbedAfterKeeping
    <2>8. CASE WaitPid(p)
      <3>1. /\ pc[p] = "wait" /\ UNCHANGED <<fds, local, faults>>
            /\ pc'[p] \in {"reaped", "none"}
            /\ \A q \in Procs \ {p} : pc'[q] \in {"none", pc[q]}
            /\ \A q \in Procs : parent'[q] \in {NoProc, parent[q]}
        BY <2>8, WaitPidReaps
      <3>2. Sound(p, "reaped", fds[p], local[p], parent[p], faults)
        <4>1. Saved("reaped", fds[p], local[p], parent[p], faults)
          BY <2>0, <3>1 DEF Sound, Shelled, Saved, Holding
        <4> QED  BY <2>0, <3>1, <4>1 DEF Sound, Shelled, Wires, Holding
      <3> SUFFICES ASSUME NEW q \in Procs
                   PROVE  Sound(q, pc'[q], fds'[q], local'[q], parent'[q], faults')
        BY DEF Plumbed
      <3>3. SameLine(local[q], local[q]) /\ Sound(q, pc[q], fds[q], local[q], parent[q], faults)
        BY DEF SameLine, Plumbed
      <3>4. CASE pc'[q] = "none"
        BY <3>4, SoundGone
      <3>5. CASE q = p /\ pc'[q] = "reaped"
        BY <1>0, <3>1, <3>2, <3>3, <3>5, SoundLasts
      <3>6. CASE q # p /\ pc'[q] = pc[q]
        BY <1>0, <3>1, <3>3, <3>6, SoundLasts
      <3> QED  BY <3>1, <3>4, <3>5, <3>6
    <2>9. CASE AfterCommand(p)
      BY <2>9, PlumbedAfterCommand
    <2>10. CASE StartChild(p)
      BY <2>10, PlumbedAfterStart
    <2>11. CASE Exec(p)
      <3>1. /\ pc[p] = "exec"
            /\ \/ Keeps(p, "run") /\ faults' = faults
               \/ Keeps(p, "end") /\ faults' = faults + 1
        BY <2>11, ExecKeeps
      <3>2. Sound(p, "run", fds[p], local[p], parent[p], faults)
        BY <2>0, <3>1 DEF Sound, Shelled
      <3>3. Sound(p, "end", fds[p], local[p], parent[p], faults + 1)
        <4>1. Saved("end", fds[p], local[p], parent[p], faults + 1)
          BY <1>0, <2>0, <3>1 DEF Sound, Shelled, Saved, Holding
        <4>2. Wires("end", fds[p], local[p]) /\ Stdio(fds[p], local[p]) /\ p # Top
          BY <2>0, <3>1 DEF Sound, Shelled, Wires, Holding
        <4> QED  BY <4>1, <4>2 DEF Sound
      <3> QED  BY <1>0, <3>1, <3>2, <3>3, PlumbedAfterKeeping
    <2>12. CASE Works(p)
      <3>1. Keeps(p, pc[p]) /\ faults' = faults
        BY <2>12 DEF Works
      <3> QED  BY <1>0, <2>0, <3>1, PlumbedAfterKeeping
    <2>13. CASE RedirectChild(p) /\ ~Dies(p, local)
      BY <2>13, PlumbedAfterRedirect
    <2> QED  BY <1>3, <2>1, <2>2, <2>3, <2>4, <2>5, <2>6, <2>7, <2>8, <2>9, <2>10, <2>11, <2>12, <2>13
  <1> QED  BY <1>1, <1>2, <1>3, StepsKnown

\* In every execution a command reads and writes the files and the pipes that
\* its line says (hw2.c:289), whatever failed before and whoever was killed; the
\* two exceptions are those that Wired names.
THEOREM CommandsWired == Spec => []Wired
  <1>1. Plumbed => Wired
    BY DEF Plumbed, Sound, Connected, Wired, LosesOutput
  <1> QED
    BY TypedAtStart, TypedKept, ReservedAtStart, ReservedKept, PlumbedAtStart, PlumbedKept, <1>1,
       PTL DEF Spec

-----------------------------------------------------------------------------
(* How many descriptors the first shell has open.                            *)

\* The open descriptors of a table, but for 0, which is closed and opened again
\* in every line.
Opens(t) == {d \in Fds \ {0} : t[d] # Closed}
Spent(t) == Cardinality(Opens(t))

\* What a line may have used besides its pipes: 1 to 4, one descriptor for every
\* line before it, one for every call that has failed, and its log.
Base(l, n, f) == 3 + n + f + (IF l.logFd = NoFd THEN 0 ELSE 1)

\* The count at every place.  Of the two read ends one is at 0, so a command that
\* runs costs two descriptors and leaves at most one; and while nothing has failed
\* the only write end is the one the shell remembers.
Tallied(place, t, l, n, f) ==
  /\ l.logFd # 0
  /\ place = "prompt" => Spent(t) <= 4 + n + f
  /\ place = "log" => Spent(t) <= 3 + n + f
  /\ place = "pipe" => Spent(t) <= Base(l, n, f) + (IF l.readFd = 0 THEN 0 ELSE 1)
  /\ place \in Holding => Spent(t) <= Base(l, n, f) + 2
  /\ place = "end" => Spent(t) <= Base(l, n, f) + 1 /\ Logged(t, l)
  /\ f = 0 /\ place \notin {"none", "zombie"} =>
       \A d \in Fds : t[d].kind = "write" => place \in Holding /\ d = l.wr

Counted == Tallied(pc[Top], fds[Top], local[Top], lines, faults)

\* Counting: one more, one less, and no more.
LEMMA SpentType ==
  ASSUME NEW t
  PROVE  IsFiniteSet(Opens(t)) /\ Spent(t) \in Nat
  <1>1. Opens(t) \in SUBSET Fds
    BY DEF Opens
  <1> QED  BY <1>1, SetsKnown, FS_Subset, FS_CardinalityType DEF Spent

\* At most one descriptor more is open.
LEMMA OneOpened ==
  ASSUME NEW t, NEW u, NEW x, \A d \in Fds \ {0, x} : u[d] # Closed => t[d] # Closed
  PROVE  Spent(u) <= Spent(t) + 1
  <1>1. Opens(u) \in SUBSET (Opens(t) \cup {x})
    BY DEF Opens
  <1>2. IsFiniteSet(Opens(t) \cup {x}) /\ Cardinality(Opens(t) \cup {x}) <= Spent(t) + 1
    BY SpentType, FS_AddElement DEF Spent
  <1>3. Cardinality(Opens(t) \cup {x}) \in Nat
    BY <1>2, FS_CardinalityType
  <1>4. Spent(u) <= Cardinality(Opens(t) \cup {x})
    BY <1>1, <1>2, FS_Subset DEF Spent
  <1> QED  BY <1>2, <1>3, <1>4, SpentType

\* No more descriptors are open.
LEMMA NoneOpened ==
  ASSUME NEW t, NEW u, \A d \in Fds \ {0} : u[d] # Closed => t[d] # Closed
  PROVE  Spent(u) <= Spent(t)
  <1>1. Opens(u) \in SUBSET Opens(t)
    BY DEF Opens
  <1> QED  BY <1>1, SpentType, FS_Subset DEF Spent

\* One that was open is closed.
LEMMA OneClosed ==
  ASSUME NEW t, NEW u, NEW x \in Fds \ {0}, t[x] # Closed, u[x] = Closed,
         \A d \in Fds \ {0} : u[d] # Closed => t[d] # Closed
  PROVE  Spent(u) <= Spent(t) - 1
  <1>1. Opens(u) \in SUBSET (Opens(t) \ {x}) /\ x \in Opens(t)
    BY DEF Opens
  <1>2. IsFiniteSet(Opens(t) \ {x}) /\ Cardinality(Opens(t) \ {x}) = Spent(t) - 1
    BY <1>1, SpentType, FS_RemoveElement DEF Spent
  <1> QED  BY <1>1, <1>2, FS_Subset DEF Spent

\* What a line may have used, with and without a log.
LEMMA BaseKnown ==
  ASSUME NEW l, NEW n \in Nat, NEW f \in Nat
  PROVE  /\ Base(l, n, f) \in Nat
         /\ l.logFd = NoFd => Base(l, n, f) = 3 + n + f
         /\ l.logFd # NoFd => Base(l, n, f) = 4 + n + f
         /\ Base(l, n, f + 1) = Base(l, n, f) + 1
  BY DEF Base

\* The count allows for what other processes do.
LEMMA TallyLasts ==
  ASSUME NEW place, NEW t, NEW l, NEW m, NEW n \in Nat, NEW n2 \in Nat, NEW f \in Nat, NEW g \in Nat,
         Tallied(place, t, l, n, f), SameLine(l, m), n <= n2, f <= g
  PROVE  Tallied(place, t, m, n2, g)
  <1>1. Spent(t) \in Nat /\ m.logFd = l.logFd /\ m.readFd = l.readFd /\ m.wr = l.wr
    BY SpentType DEF SameLine
  <1>2. Base(l, n, f) \in Nat /\ Base(m, n2, g) \in Nat /\ Base(l, n, f) <= Base(m, n2, g)
    BY <1>1 DEF Base
  <1>3. Logged(t, l) => Logged(t, m)
    BY <1>1 DEF Logged
  <1>4. g = 0 => f = 0
    OBVIOUS
  <1>5. (IF l.readFd = 0 THEN 0 ELSE 1) \in Nat
    OBVIOUS
  <1> QED  BY <1>1, <1>2, <1>3, <1>4, <1>5 DEF Tallied

\* A shell that is gone counts nothing.
LEMMA TallyGone ==
  ASSUME NEW place \in {"none", "zombie"}, NEW t, NEW l, NEW n, NEW f, l.logFd # 0
  PROVE  Tallied(place, t, l, n, f)
  BY DEF Tallied, Holding

\* The first shell starts with the terminal twice, stdout twice and stderr.
LEMMA CountedAtStart == Init => Counted
  <1> SUFFICES ASSUME Init PROVE Counted
    OBVIOUS
  <1>1. pc[Top] = "prompt" /\ fds[Top] = FirstFds /\ local[Top] = Blank /\ lines = 0 /\ faults = 0
    BY ShellPipelineAssumption DEF Init
  <1>2. Opens(FirstFds) \in SUBSET (1 .. 4)
    BY SetsKnown DEF Opens, FirstFds, SavedIn, SavedOut
  <1>3. IsFiniteSet(1 .. 4) /\ Cardinality(1 .. 4) = 4
    <2>1. 1 \in Int /\ 4 \in Int
      OBVIOUS
    <2>2. IsFiniteSet(1 .. 4) /\ Cardinality(1 .. 4) = IF 1 > 4 THEN 0 ELSE 4 - 1 + 1
      BY <2>1, FS_Interval, Zenon
    <2>3. (IF 1 > 4 THEN 0 ELSE 4 - 1 + 1) = 4
      OBVIOUS
    <2> QED  BY <2>2, <2>3
  <1>4. Spent(FirstFds) <= 4
    BY <1>2, <1>3, FS_Subset DEF Spent
  <1>5. Blank.logFd # 0
    BY DEF Blank, NoFd
  <1>6. \A d \in Fds : FirstFds[d].kind # "write"
    BY DEF FirstFds, Terminal, File, Closed
  <1>7. Spent(FirstFds) <= 4 + lines + faults
    BY <1>1, <1>4
  <1>8. Tallied("prompt", FirstFds, Blank, lines, faults)
    BY <1>5, <1>6, <1>7 DEF Tallied, Holding
  <1> QED  BY <1>1, <1>8 DEF Counted

\* The steps of the other processes leave the first shell as it is.
Passes ==
  /\ fds'[Top] = fds[Top] /\ SameLine(local[Top], local'[Top]) /\ pc'[Top] = pc[Top]
  /\ lines' \in Nat /\ lines <= lines' /\ faults' \in Nat /\ faults <= faults'

\* A step of another process.
LEMMA OthersPass ==
  ASSUME Typed, NEW p \in Procs \ {Top},
         \/ ReadLine(p) \/ EndOfInput(p) \/ OpenLog(p) \/ EndLine(p)
         \/ MakePipe(p) \/ Fork(p) \/ ForkFails(p) \/ NoteChild(p)
         \/ AfterCommand(p) \/ StartChild(p) \/ Exec(p) \/ Works(p)
         \/ RedirectChild(p) /\ ~Dies(p, local)
  PROVE  Passes
  <1>0. Top \in Procs /\ lines \in Nat /\ faults \in Nat /\ SameLine(local[Top], local[Top])
    BY ShellPipelineAssumption DEF Typed, SameLine
  <1>1. ASSUME NEW place, NEW t, NEW l, Moves(p, place, t, l),
               lines' \in {lines, lines + 1}, faults' \in {faults, faults + 1}
        PROVE  Passes
    BY <1>0, <1>1 DEF Moves, Typed, Passes
  <1>2. CASE ReadLine(p) \/ EndOfInput(p)
    BY <1>1, <1>2, LineReadMoves
  <1>3. CASE OpenLog(p)
    BY <1>1, <1>3, OpenLogMoves
  <1>4. CASE EndLine(p)
    BY <1>1, <1>4, EndLineMoves
  <1>5. CASE MakePipe(p)
    <2>1. lines' = lines /\ faults' = faults /\ \E place, t, l : Moves(p, place, t, l)
      BY <1>5, MakePipeMoves
    <2> QED  BY <1>1, <2>1
  <1>6. CASE Fork(p)
    <2>1. lines' = lines /\ faults' = faults
      BY <1>6, ForkCopies
    <2>2. PICK q \in Procs \ {p, Top} :
            /\ fds' = [fds EXCEPT ![q] = fds[p]]
            /\ local' = [local EXCEPT ![q] = local[p], ![p] = [local[p] EXCEPT !.pid = q]]
            /\ pc' = [pc EXCEPT ![p] = "forked", ![q] = "child"]
      BY <1>6, ForkCopies
    <2>3. fds'[Top] = fds[Top] /\ local'[Top] = local[Top] /\ pc'[Top] = pc[Top]
      BY <1>0, <2>2 DEF Typed
    <2> QED  BY <1>0, <2>1, <2>3 DEF Passes
  <1>7. CASE ForkFails(p)
    BY <1>1, <1>7, ForkFailsKeeps DEF Keeps
  <1>8. CASE NoteChild(p)
    BY <1>1, <1>8, NoteChildKeeps DEF Keeps
  <1>9. CASE AfterCommand(p)
    BY <1>1, <1>9, AfterCommandMoves
  <1>10. CASE StartChild(p)
    BY <1>1, <1>10, StartChildMoves
  <1>11. CASE Exec(p)
    BY <1>1, <1>11, ExecKeeps DEF Keeps
  <1>12. CASE Works(p)
    BY <1>1, <1>12 DEF Works, Keeps
  <1>13. CASE RedirectChild(p) /\ ~Dies(p, local)
    BY <1>1, <1>13, RedirectChildMoves
  <1> QED  BY <1>2, <1>3, <1>4, <1>5, <1>6, <1>7, <1>8, <1>9, <1>10, <1>11, <1>12, <1>13

\* A step of the first shell.
LEMMA CountedAfterMove ==
  ASSUME Typed, NEW place, NEW t, NEW l, Moves(Top, place, t, l),
         Tallied(place, t, l, lines', faults')
  PROVE  Counted'
  <1>1. pc'[Top] = place /\ fds'[Top] = t /\ local'[Top] = l
    BY ShellPipelineAssumption DEF Moves, Typed
  <1> QED  BY <1>1 DEF Counted

\* A line allows for one more; a line that is refused does, too.
LEMMA CountedAfterLine ==
  ASSUME Typed, Counted, ReadLine(Top) \/ EndOfInput(Top)
  PROVE  Counted'
  <1>0. Top \in Procs
    BY ShellPipelineAssumption
  <1>1. PICK line \in Seq(Command) \ {<<>>}, place \in {"prompt", "log"} :
          /\ pc[Top] = "prompt" /\ faults' = faults /\ lines' = lines + 1
          /\ Moves(Top, place, fds[Top], [local[Top] EXCEPT !.line = line])
    BY <1>0, LineReadMoves
  <1> DEFINE l == [local[Top] EXCEPT !.line = line]
  <1>2. l.logFd = local[Top].logFd
    BY <1>0 DEF Typed, Variables
  <1> HIDE DEF l
  <1>3. /\ local[Top].logFd # 0 /\ Spent(fds[Top]) <= 4 + lines + faults
        /\ faults = 0 => \A d \in Fds : fds[Top][d].kind # "write"
    BY <1>1 DEF Counted, Tallied, Holding
  <1>4. lines \in Nat /\ faults \in Nat /\ Spent(fds[Top]) \in Nat
    BY SpentType DEF Typed
  <1>5. Spent(fds[Top]) <= 4 + (lines + 1) + faults /\ Spent(fds[Top]) <= 3 + (lines + 1) + faults
    BY <1>3, <1>4
  <1>6. Tallied(place, fds[Top], l, lines + 1, faults)
    BY <1>1, <1>2, <1>3, <1>5 DEF Tallied, Holding
  <1> QED  BY <1>1, <1>6, CountedAfterMove DEF l

\* The log takes one, or the call that opens it fails.
LEMMA CountedAfterLog ==
  ASSUME Typed, Reserved, Plumbed, Counted, OpenLog(Top)
  PROVE  Counted'
  <1>0. Top \in Procs
    BY ShellPipelineAssumption
  <1>1. pc[Top] = "log" /\ lines' = lines
    BY <1>0, OpenLogMoves
  <1>2. PICK d \in Number, t \in Table :
          /\ \/ d = Lowest(fds[Top]) /\ t = Opened(fds[Top], File("log")) /\ faults' = faults
             \/ d = NoFd /\ t = fds[Top] /\ faults' = faults + 1
          /\ Moves(Top, "pipe", t, WithLog(local[Top], d))
    BY <1>0, OpenLogMoves
  <1> DEFINE l == WithLog(local[Top], d)
  <1>3. l.logFd = d /\ l.readFd = 0
    BY <1>0 DEF WithLog, Typed, Variables
  <1> HIDE DEF l
  <1>4. /\ Sound(Top, "log", fds[Top], local[Top], parent[Top], faults)
        /\ fds[Top] \in Table /\ Saves(fds[Top]) /\ lines \in Nat /\ faults \in Nat
    BY <1>0, <1>1 DEF Plumbed, Typed, Reserved, Shelled
  <1>5. Stdio(fds[Top], local[Top]) /\ fds[Top][0] = Terminal /\ Terminal # Closed
    BY <1>4 DEF Sound, Shelled, Wires, Terminal, Closed, File
  <1>6. Lowest(fds[Top]) # 0 /\ NoFd # 0
    BY <1>4, <1>5, FourIsNext DEF Stdio, Saves, SavedIn, NoFd
  <1>7. /\ Spent(fds[Top]) <= 3 + lines + faults
        /\ faults = 0 => \A e \in Fds : fds[Top][e].kind # "write"
    BY <1>1 DEF Counted, Tallied, Holding
  <1>8. /\ Spent(t) <= Spent(fds[Top]) + (IF d = NoFd THEN 0 ELSE 1)
        /\ faults = 0 => \A e \in Fds : t[e].kind # "write"
    <2>1. CASE t = fds[Top]
      BY <1>7, <2>1, SpentType
    <2>2. CASE d = Lowest(fds[Top]) /\ d # NoFd /\ t = Opened(fds[Top], File("log"))
      <3>1. \A e \in Fds : t[e] = IF e = d THEN File("log") ELSE fds[Top][e]
        BY <1>4, <2>2, FilesKnown, OpenedAt DEF Kinds
      <3>2. Spent(t) <= Spent(fds[Top]) + 1
        BY <3>1, OneOpened
      <3> QED  BY <1>7, <2>2, <3>1, <3>2 DEF File
    <2>3. CASE Lowest(fds[Top]) = NoFd /\ t = Opened(fds[Top], File("log"))
      BY <2>1, <2>3 DEF Opened
    <2> QED  BY <1>2, <2>1, <2>2, <2>3
  <1>9. faults' \in Nat /\ faults <= faults' /\ (d = NoFd \/ faults' = faults \/ faults' = faults + 1)
    BY <1>2, <1>4
  <1>10. Spent(t) <= Base(l, lines, faults')
    BY <1>3, <1>4, <1>7, <1>8, <1>9, SpentType DEF Base
  <1>11. l.logFd # 0 /\ (faults' = 0 => faults = 0)
    BY <1>2, <1>3, <1>4, <1>6, <1>9
  <1>12. Tallied("pipe", t, l, lines, faults')
    <2>1. Base(l, lines, faults') \in Nat
      BY <1>4, <1>9, BaseKnown
    <2>2. Spent(t) <= Base(l, lines, faults') + (IF l.readFd = 0 THEN 0 ELSE 1)
      BY <1>3, <1>10, <2>1, SpentType
    <2> QED  BY <1>8, <1>11, <2>2, Zenon DEF Tallied, Holding
  <1> QED  BY <1>1, <1>2, <1>12, CountedAfterMove DEF l

\* The log is closed, and what is left besides it is the line's own.
LEMMA CountedAfterEnd ==
  ASSUME Typed, Reserved, Counted, EndLine(Top)
  PROVE  Counted'
  <1>0. Top \in Procs
    BY ShellPipelineAssumption
  <1> DEFINE old == fds[Top]
             l   == local[Top]
             u   == Shut(old, l.logFd)
             t   == RestoreStdin(u)
  <1>1. /\ pc[Top] = "end" /\ lines' = lines /\ faults' = faults
        /\ Moves(Top, "prompt", t, Ended(l))
    BY <1>0, EndLineMoves
  <1>2. /\ l.logFd # 0 /\ Spent(old) <= Base(l, lines, faults) + 1 /\ Logged(old, l)
        /\ faults = 0 => \A e \in Fds : old[e].kind # "write"
    BY <1>1 DEF Counted, Tallied, Holding
  <1>3. old \in Table /\ u \in Table /\ old[3] = Terminal /\ lines \in Nat /\ faults \in Nat
    BY <1>0, <1>1, ShutTable DEF Typed, Reserved, Shelled, Saves, SavedIn
  <1>4. Ended(l).logFd = NoFd /\ NoFd # 0
    BY DEF Ended, Blank, NoFd
  <1> HIDE DEF old, l
  <1>5. \A e \in Fds : u[e] = IF l.logFd # NoFd /\ e = l.logFd THEN Closed ELSE old[e]
    BY <1>3 DEF Shut, Table
  <1> HIDE DEF u
  <1>6. /\ \A e \in Fds \ {0} : t[e] = u[e]
        /\ t[0] \in {u[0], u[3]}
    BY <1>3, SetsKnown DEF RestoreStdin, Dup2, Table, SavedIn
  <1> HIDE DEF t
  <1>7. faults = 0 => \A e \in Fds : t[e].kind # "write"
    <2>1. \A e \in Fds : u[e] \in {Closed, old[e]}
      BY <1>5
    <2>2. \A e \in Fds : t[e] \in {u[e], u[3]}
      BY <1>6
    <2>3. 3 \in Fds /\ Closed.kind # "write"
      BY SetsKnown DEF Closed, File
    <2> QED  BY <1>2, <2>1, <2>2, <2>3
  <1>8. Spent(t) <= 4 + lines + faults
    <2>1. CASE l.logFd = NoFd
      <3>1. Spent(t) <= Spent(old)
        BY <1>5, <1>6, <2>1, NoneOpened
      <3>2. Spent(old) \in Nat /\ Spent(t) \in Nat /\ Base(l, lines, faults) = 3 + lines + faults
        BY <1>3, <2>1, SpentType, BaseKnown
      <3> QED  BY <1>2, <1>3, <3>1, <3>2
    <2>2. CASE l.logFd # NoFd
      <3>1. l.logFd \in Fds \ {0} /\ old[l.logFd] # Closed
        BY <1>2, <2>2 DEF Logged, File, Closed
      <3>2. t[l.logFd] = Closed /\ \A e \in Fds \ {0} : t[e] # Closed => old[e] # Closed
        BY <1>5, <1>6, <2>2, <3>1
      <3>3. Spent(t) <= Spent(old) - 1
        BY <3>1, <3>2, OneClosed
      <3>4. Spent(old) \in Nat /\ Spent(t) \in Nat /\ Base(l, lines, faults) = 4 + lines + faults
        BY <1>3, <2>2, SpentType, BaseKnown
      <3> QED  BY <1>2, <1>3, <3>3, <3>4
    <2> QED  BY <2>1, <2>2
  <1>9. Tallied("prompt", t, Ended(l), lines, faults)
    BY <1>4, <1>7, <1>8, Zenon DEF Tallied, Holding
  <1> QED  BY <1>1, <1>9, CountedAfterMove DEF t, u, old, l

\* A pipe takes two, or one and descriptor 0, which the command before has left.
LEMMA CountedAfterPipe ==
  ASSUME Typed, Plumbed, Counted, MakePipe(Top)
  PROVE  Counted'
  <1>0. Top \in Procs
    BY ShellPipelineAssumption
  <1>1. pc[Top] = "pipe" /\ lines' = lines /\ faults' = faults
    BY <1>0, MakePipeMoves
  <1> DEFINE old == fds[Top]
             l   == local[Top]
  <1>2. /\ l.logFd # 0 /\ Spent(old) <= Base(l, lines, faults) + (IF l.readFd = 0 THEN 0 ELSE 1)
        /\ faults = 0 => \A e \in Fds : old[e].kind # "write"
    BY <1>1 DEF Counted, Tallied, Holding
  <1>3. /\ Incoming(old, l) /\ Logged(old, l)
        /\ l.at % 2 = 0 => old[0] = Closed
        /\ old \in Table /\ l \in Variables /\ lines \in Nat /\ faults \in Nat
    BY <1>0, <1>1 DEF Plumbed, Sound, Shelled, Wires, Typed
  <1>4. Base(l, lines, faults) \in Nat /\ Spent(old) \in Nat
    BY <1>3, BaseKnown, SpentType
  <1> HIDE DEF old, l
  <1>5. CASE Moves(Top, "end", old, l)
    <2>1. Spent(old) <= Base(l, lines, faults) + 1
      BY <1>2, <1>4
    <2>2. Tallied("end", old, l, lines, faults)
      BY <1>2, <1>3, <2>1, Zenon DEF Tallied, Holding
    <2> QED  BY <1>1, <1>5, <2>2, CountedAfterMove
  <1>6. CASE \E n \in Pipes, rd, wr \in Fds, t \in Table :
               /\ rd = Lowest(old) /\ t = [old EXCEPT ![rd] = ReadEnd(n)]
               /\ wr = Lowest(t) /\ old[rd] = Closed /\ t[wr] = Closed
               /\ [t EXCEPT ![wr] = WriteEnd(n)] \in Table
               /\ Moves(Top, "fork", [t EXCEPT ![wr] = WriteEnd(n)], WithPipe(l, rd, wr, n))
    <2>1. PICK n \in Pipes, rd \in Fds, wr \in Fds, t \in Table :
               /\ rd = Lowest(old) /\ t = [old EXCEPT ![rd] = ReadEnd(n)]
               /\ wr = Lowest(t) /\ old[rd] = Closed /\ t[wr] = Closed
               /\ Moves(Top, "fork", [t EXCEPT ![wr] = WriteEnd(n)], WithPipe(l, rd, wr, n))
      BY <1>6
    <2> DEFINE u == [t EXCEPT ![wr] = WriteEnd(n)]
               m == WithPipe(l, rd, wr, n)
    <2>2. m.logFd = l.logFd /\ m.wr = wr
      BY <1>3 DEF WithPipe, Variables
    <2>3. \A e \in Fds : t[e] = IF e = rd THEN ReadEnd(n) ELSE old[e]
      BY <1>3, <2>1 DEF Table
    <2>4. \A e \in Fds : u[e] = IF e = wr THEN WriteEnd(n) ELSE t[e]
      BY DEF Table
    <2> HIDE DEF u, m
    <2>5. Spent(u) <= Spent(t) + 1
      BY <2>4, OneOpened
    <2>6. Spent(t) <= Spent(old) + 1
      BY <2>3, OneOpened
    <2>7. Spent(u) <= Base(l, lines, faults) + 2
      <3>1. CASE l.readFd = 0
        BY <1>2, <1>4, <2>5, <2>6, <3>1, SpentType
      <3>2. CASE l.readFd # 0
        <4>1. l.at \in Nat /\ l.at % 2 # 1
          BY <1>3, <3>2 DEF Incoming, Variables
        <4>2. old[0] = Closed
          BY <1>3, <4>1
        <4>3. rd = 0
          BY <1>3, <2>1, <4>2, SetsKnown, LowestKnown DEF Unused
        <4>4. Spent(t) <= Spent(old)
          BY <2>3, <4>3, NoneOpened
        <4> QED  BY <1>2, <1>4, <2>5, <3>2, <4>4, SpentType
      <3> QED  BY <3>1, <3>2
    <2>8. faults = 0 => \A e \in Fds : u[e].kind = "write" => e = wr
      BY <1>2, <2>3, <2>4 DEF ReadEnd
    <2>9. Base(m, lines, faults) = Base(l, lines, faults)
      BY <2>2 DEF Base
    <2>10. Tallied("fork", u, m, lines, faults)
      BY <1>2, <2>2, <2>7, <2>8, <2>9, Zenon DEF Tallied, Holding
    <2> QED  BY <1>1, <2>1, <2>10, CountedAfterMove DEF u, m
  <1> QED  BY <1>0, <1>5, <1>6, MakePipeMoves DEF old, l

\* The write end is closed, and the read end the command had, unless it was 0.
LEMMA CountedAfterCommand ==
  ASSUME Typed, Plumbed, Counted, AfterCommand(Top)
  PROVE  Counted'
  <1>0. Top \in Procs
    BY ShellPipelineAssumption
  <1> DEFINE old   == fds[Top]
             l     == local[Top]
             u     == Shut(old, l.wr)
             t     == Shut(u, l.readFd)
             m     == After(l)
             place == IF l.at = Len(l.line) THEN "end" ELSE "pipe"
  <1>1. /\ pc[Top] = "reaped" /\ lines' = lines /\ faults' = faults
        /\ Moves(Top, place, t, m)
    BY <1>0, AfterCommandMoves
  <1>2. /\ l.logFd # 0 /\ Spent(old) <= Base(l, lines, faults) + 2
        /\ faults = 0 => \A e \in Fds : old[e].kind = "write" => e = l.wr
    BY <1>1 DEF Counted, Tallied, Holding
  <1>3. /\ Incoming(old, l) /\ Outgoing(old, l) /\ NextEnd(old, l) /\ Logged(old, l)
        /\ old \in Table /\ u \in Table /\ l \in Variables /\ lines \in Nat /\ faults \in Nat
    BY <1>0, <1>1, ShutTable DEF Plumbed, Sound, Shelled, Wires, Holding, Typed
  <1>4. Base(l, lines, faults) \in Nat /\ Spent(old) \in Nat
    BY <1>3, BaseKnown, SpentType
  <1>5. m.logFd = l.logFd /\ m.readFd = l.rd
    BY <1>3 DEF After, Variables
  <1> HIDE DEF old, l, m
  <1>6. \A e \in Fds : u[e] = IF e = l.wr THEN Closed ELSE old[e]
    BY <1>3 DEF Shut, Table, Outgoing, NoFd, Fds
  <1> HIDE DEF u
  <1>7. \A e \in Fds : t[e] = IF e = l.readFd THEN Closed ELSE u[e]
    BY <1>3 DEF Shut, Table, Incoming, NoFd, Fds
  <1> HIDE DEF t
  <1>8. /\ old[l.wr].kind = "write" /\ old[l.wr] # Closed
        /\ old[l.readFd] # Closed /\ old[l.readFd].kind # "write"
        /\ old[l.rd].kind = "read"
    BY <1>3 DEF Incoming, Outgoing, NextEnd, ReadEnd, WriteEnd, Terminal, Closed, File
  <1>9. l.wr # 0
    <2>1. l.at \in Nat
      BY <1>3 DEF Variables
    <2>2. l.readFd = 0 \/ l.rd = 0
      BY <1>3, <2>1 DEF Incoming, NextEnd
    <2> QED  BY <1>8, <2>2
  <1>10. l.wr \in Fds \ {0} /\ l.readFd \in Fds /\ l.readFd # l.wr
    BY <1>3, <1>8, <1>9 DEF Incoming, Outgoing
  <1>11. Spent(u) <= Spent(old) - 1
    BY <1>6, <1>8, <1>10, OneClosed
  <1>12. Spent(t) <= Base(l, lines, faults) + (IF l.rd = 0 THEN 0 ELSE 1)
    <2>0. l.at \in Nat
      BY <1>3 DEF Variables
    <2>1. CASE l.readFd = 0
      <3>1. l.rd # 0
        BY <1>3, <2>0, <2>1 DEF Incoming, NextEnd
      <3>2. Spent(t) <= Spent(u)
        BY <1>7, NoneOpened
      <3>3. Spent(u) \in Nat /\ Spent(t) \in Nat
        BY SpentType
      <3> QED  BY <1>2, <1>4, <1>11, <3>1, <3>2, <3>3
    <2>2. CASE l.readFd # 0
      <3>1. Spent(t) <= Spent(u) - 1
        <4>1. u[l.readFd] # Closed /\ t[l.readFd] = Closed /\ l.readFd \in Fds \ {0}
          BY <1>6, <1>7, <1>8, <1>10, <2>2
        <4> QED  BY <1>7, <4>1, OneClosed
      <3>2. Spent(u) \in Nat /\ Spent(t) \in Nat
        BY SpentType
      <3> QED  BY <1>2, <1>4, <1>11, <2>2, <3>1, <3>2
    <2> QED  BY <2>1, <2>2
  <1>13. faults = 0 => \A e \in Fds : t[e].kind # "write"
    BY <1>2, <1>6, <1>7 DEF Closed, File
  <1>14. l.logFd \in Fds => t[l.logFd] = old[l.logFd] \/ l.logFd \in {l.wr, l.readFd}
    BY <1>6, <1>7
  <1>15. Logged(t, m)
    BY <1>2, <1>3, <1>5, <1>8, <1>14 DEF Logged, Incoming, File, ReadEnd, Terminal
  <1>16. Base(m, lines, faults) = Base(l, lines, faults)
    BY <1>5 DEF Base
  <1>17. Spent(t) <= Base(l, lines, faults) + 1
    BY <1>4, <1>12, SpentType
  <1>18. Tallied(place, t, m, lines, faults)
    <2>1. place \in {"end", "pipe"}
      OBVIOUS
    <2> HIDE DEF place
    <2> QED  BY <1>2, <1>5, <1>12, <1>13, <1>15, <1>16, <1>17, <2>1, Zenon DEF Tallied, Holding
  <1> QED  BY <1>1, <1>18, CountedAfterMove DEF t, u, old, l, m

\* A place of the first shell with the same count, in the same line.
LEMMA CountedAfterKeeping ==
  ASSUME Typed, NEW place, Keeps(Top, place), lines' = lines, faults' \in Nat,
         Tallied(place, fds[Top], local[Top], lines, faults')
  PROVE  Counted'
  <1>1. PICK l \in Variables : SameLine(local[Top], l) /\ Moves(Top, place, fds[Top], l)
    BY DEF Keeps
  <1>2. Tallied(place, fds[Top], l, lines, faults') /\ lines \in Nat
    BY <1>1, TallyLasts DEF Typed
  <1> QED  BY <1>1, <1>2, CountedAfterMove

\* A shell that dies has nothing open, and the death of another process leaves
\* it as it is.
LEMMA CountedAfterDeath ==
  ASSUME Typed, Counted, SomebodyDies
  PROVE  Counted'
  <1>0. Top \in Procs /\ lines \in Nat /\ faults \in Nat
    BY ShellPipelineAssumption DEF Typed
  <1>1. PICK d \in Procs, vs \in [Procs -> Variables] :
          /\ Dies(d, vs) /\ \A q \in Procs : SameLine(local[q], vs[q])
          /\ lines' = lines /\ faults' = faults
    BY DEF SomebodyDies
  <1>2. Tallied(pc[Top], fds[Top], vs[Top], lines, faults)
    BY <1>0, <1>1, TallyLasts DEF Counted
  <1>3. vs[Top].logFd # 0 /\ Blank.logFd # 0
    BY <1>2 DEF Tallied, Blank, NoFd
  <1>4. local'[Top] \in {vs[Top], Blank}
    BY <1>0, <1>1 DEF Dies
  <1>5. pc'[Top] \in {"none", "zombie"} \/ (Top # d /\ pc'[Top] = pc[Top])
    BY <1>0, <1>1 DEF Dies
  <1>6. CASE pc'[Top] \in {"none", "zombie"}
    <2>1. local'[Top].logFd # 0
      BY <1>3, <1>4
    <2> QED  BY <1>6, <2>1, TallyGone DEF Counted
  <1>7. CASE Top # d /\ pc'[Top] = pc[Top]
    <2>1. fds'[Top] = fds[Top] /\ local'[Top] = vs[Top]
      BY <1>0, <1>1, <1>7 DEF Dies, Typed
    <2> QED  BY <1>1, <1>2, <1>7, <2>1 DEF Counted
  <1> QED  BY <1>5, <1>6, <1>7

\* The end of waitpid, of the first shell or of another.
LEMMA CountedAfterWait ==
  ASSUME Typed, Counted, NEW p \in Procs, WaitPid(p)
  PROVE  Counted'
  <1>0. Top \in Procs
    BY ShellPipelineAssumption
  <1>1. /\ pc[p] = "wait" /\ UNCHANGED <<fds, local, lines, faults>>
        /\ pc'[p] \in {"reaped", "none"}
        /\ \A q \in Procs \ {p} : pc'[q] \in {"none", pc[q]}
    BY WaitPidReaps
  <1>2. local[Top].logFd # 0
    BY DEF Counted, Tallied
  <1>3. CASE pc'[Top] = "none"
    BY <1>1, <1>2, <1>3, TallyGone DEF Counted
  <1>4. CASE p = Top /\ pc'[Top] = "reaped"
    <2>1. Tallied("reaped", fds[Top], local[Top], lines, faults)
      BY <1>1, <1>4, Zenon DEF Counted, Tallied, Holding
    <2> QED  BY <1>1, <1>4, <2>1 DEF Counted
  <1>5. CASE p # Top /\ pc'[Top] = pc[Top]
    BY <1>1, <1>5 DEF Counted
  <1> QED  BY <1>0, <1>1, <1>3, <1>4, <1>5

\* A fork that fails leaves a descriptor more, and is one call more that failed.
LEMMA CountedAfterForkFails ==
  ASSUME Typed, Plumbed, Counted, ForkFails(Top)
  PROVE  Counted'
  <1>0. Top \in Procs /\ lines \in Nat /\ faults \in Nat
    BY ShellPipelineAssumption DEF Typed
  <1>1. pc[Top] = "fork" /\ Keeps(Top, "end") /\ faults' = faults + 1 /\ lines' = lines
    BY <1>0, ForkFailsKeeps
  <1> DEFINE t == fds[Top]
             l == local[Top]
  <1>2. l.logFd # 0 /\ Spent(t) <= Base(l, lines, faults) + 2
    BY <1>1 DEF Counted, Tallied, Holding
  <1>3. Logged(t, l)
    BY <1>0, <1>1 DEF Plumbed, Sound, Shelled, Wires, Holding
  <1> HIDE DEF t, l
  <1>4. Base(l, lines, faults + 1) = Base(l, lines, faults) + 1
    BY <1>0, BaseKnown
  <1>5. Spent(t) <= Base(l, lines, faults + 1) + 1
    <2>1. Spent(t) \in Nat /\ Base(l, lines, faults) \in Nat
      BY <1>0, BaseKnown, SpentType
    <2> QED  BY <1>2, <1>4, <2>1
  <1>6. faults + 1 # 0 /\ faults + 1 \in Nat
    BY <1>0
  <1>7. Tallied("end", t, l, lines, faults + 1)
    BY <1>2, <1>3, <1>5, <1>6, Zenon DEF Tallied, Holding
  <1> QED  BY <1>1, <1>6, <1>7, CountedAfterKeeping DEF t, l

\* Every step keeps the count.
LEMMA CountedKept == Typed /\ Reserved /\ Plumbed /\ Counted /\ [Next]_vars => Counted'
  <1> SUFFICES ASSUME Typed, Reserved, Plumbed, Counted, [Next]_vars PROVE Counted'
    OBVIOUS
  <1>0. Top \in Procs /\ lines \in Nat /\ faults \in Nat
    BY ShellPipelineAssumption DEF Typed
  <1>1. CASE UNCHANGED vars
    BY <1>1 DEF vars, Counted
  <1>2. CASE SomebodyDies
    BY <1>2, CountedAfterDeath
  <1>3. ASSUME NEW p \in Procs, p # Top,
               \/ ReadLine(p) \/ EndOfInput(p) \/ OpenLog(p) \/ EndLine(p)
               \/ MakePipe(p) \/ Fork(p) \/ ForkFails(p) \/ NoteChild(p)
               \/ AfterCommand(p) \/ StartChild(p) \/ Exec(p) \/ Works(p)
               \/ RedirectChild(p) /\ ~Dies(p, local)
        PROVE  Counted'
    <2>1. Passes
      BY <1>3, OthersPass
    <2>2. Tallied(pc[Top], fds[Top], local'[Top], lines', faults')
      BY <1>0, <2>1, TallyLasts DEF Passes, Counted
    <2> QED  BY <2>1, <2>2 DEF Passes, Counted
  <1>4. ASSUME NEW p \in Procs, WaitPid(p) PROVE Counted'
    BY <1>4, CountedAfterWait
  <1>5. pc[Top] \notin {"child", "redirect", "exec", "run"}
    BY <1>0 DEF Plumbed, Sound
  <1>6. CASE ReadLine(Top) \/ EndOfInput(Top)
    BY <1>6, CountedAfterLine
  <1>7. CASE OpenLog(Top)
    BY <1>7, CountedAfterLog
  <1>8. CASE EndLine(Top)
    BY <1>8, CountedAfterEnd
  <1>9. CASE MakePipe(Top)
    BY <1>9, CountedAfterPipe
  <1>10. CASE Fork(Top)
    <2>1. /\ pc[Top] = "fork" /\ lines' = lines /\ faults' = faults
          /\ \E q \in Procs \ {Top} :
               /\ SameLine(local[Top], [local[Top] EXCEPT !.pid = q])
               /\ fds' = [fds EXCEPT ![q] = fds[Top]]
               /\ local' = [local EXCEPT ![q] = local[Top], ![Top] = [local[Top] EXCEPT !.pid = q]]
               /\ pc' = [pc EXCEPT ![Top] = "forked", ![q] = "child"]
      BY <1>0, <1>10, ForkCopies
    <2>2. fds'[Top] = fds[Top] /\ SameLine(local[Top], local'[Top]) /\ pc'[Top] = "forked"
      BY <1>0, <2>1 DEF Typed
    <2>3. Tallied("forked", fds[Top], local[Top], lines, faults)
      BY <2>1, Zenon DEF Counted, Tallied, Holding
    <2>4. Tallied("forked", fds[Top], local'[Top], lines, faults)
      BY <1>0, <2>2, <2>3, TallyLasts
    <2> QED  BY <2>1, <2>2, <2>4 DEF Counted
  <1>11. CASE ForkFails(Top)
    BY <1>11, CountedAfterForkFails
  <1>12. CASE NoteChild(Top)
    <2>1. pc[Top] = "forked" /\ Keeps(Top, "wait") /\ lines' = lines /\ faults' = faults
      BY <1>0, <1>12, NoteChildKeeps
    <2>2. Tallied("wait", fds[Top], local[Top], lines, faults)
      BY <2>1, Zenon DEF Counted, Tallied, Holding
    <2> QED  BY <1>0, <2>1, <2>2, CountedAfterKeeping
  <1>13. CASE AfterCommand(Top)
    BY <1>13, CountedAfterCommand
  <1>14. CASE Works(Top)
    <2>1. Keeps(Top, pc[Top]) /\ lines' = lines /\ faults' = faults
      BY <1>14 DEF Works
    <2> QED  BY <1>0, <2>1, CountedAfterKeeping DEF Counted
  <1>15. ~StartChild(Top) /\ ~RedirectChild(Top) /\ ~Exec(Top)
    BY <1>5 DEF StartChild, RedirectChild, Exec
  <1>16. ASSUME NEW p \in Procs,
               \/ ReadLine(p) \/ EndOfInput(p) \/ OpenLog(p) \/ EndLine(p)
               \/ MakePipe(p) \/ Fork(p) \/ ForkFails(p) \/ NoteChild(p) \/ WaitPid(p)
               \/ AfterCommand(p) \/ StartChild(p) \/ Exec(p) \/ Works(p)
               \/ RedirectChild(p) /\ ~Dies(p, local)
        PROVE  Counted'
    <2>1. CASE p = Top
      BY <1>4, <1>6, <1>7, <1>8, <1>9, <1>10, <1>11, <1>12, <1>13, <1>14, <1>15, <1>16, <2>1
    <2>2. CASE p # Top
      BY <1>3, <1>4, <1>16, <2>2
    <2> QED  BY <2>1, <2>2
  <1> QED  BY <1>1, <1>2, <1>16, StepsKnown

\* In every execution the first shell that prompts has at most the five
\* descriptors it started with, one for every line and one for every call that
\* failed, and while none failed no write end of a pipe (hw2.c:299-303).
THEOREM LeaksAreBounded == Spec => []LeaksBounded
  <1>1. Typed /\ Counted => LeaksBounded
    <2> SUFFICES ASSUME Typed, Counted, pc[Top] = "prompt"
                 PROVE  /\ Cardinality(Fds \ Unused(fds[Top])) <= 5 + lines + faults
                        /\ faults = 0 => \A d \in Fds : fds[Top][d].kind # "write"
      BY DEF LeaksBounded
    <2> DEFINE t == fds[Top]
               O == Opens(t) \cup {0}
    <2>1. /\ Spent(t) <= 4 + lines + faults
          /\ faults = 0 => \A d \in Fds : t[d].kind # "write"
      BY DEF Counted, Tallied, Holding
    <2>2. Fds \ Unused(t) \in SUBSET O
      BY DEF Unused, Opens
    <2>3. IsFiniteSet(O) /\ Cardinality(O) = Spent(t) + 1
      <3>1. IsFiniteSet(Opens(t)) /\ 0 \notin Opens(t)
        BY SpentType DEF Opens
      <3> QED  BY <3>1, FS_AddElement DEF Spent
    <2> HIDE DEF t, O
    <2>4. IsFiniteSet(Fds \ Unused(t)) /\ Cardinality(Fds \ Unused(t)) <= Cardinality(O)
      BY <2>2, <2>3, FS_Subset
    <2>5. Cardinality(Fds \ Unused(t)) \in Nat /\ Spent(t) \in Nat /\ lines \in Nat /\ faults \in Nat
      BY <2>4, FS_CardinalityType, SpentType DEF Typed
    <2>6. Cardinality(Fds \ Unused(t)) <= 5 + lines + faults
      BY <2>1, <2>3, <2>4, <2>5
    <2> QED  BY <2>1, <2>6 DEF t
  <1> QED
    BY TypedAtStart, TypedKept, ReservedAtStart, ReservedKept, PlumbedAtStart, PlumbedKept,
       CountedAtStart, CountedKept, <1>1, PTL DEF Spec

=============================================================================
