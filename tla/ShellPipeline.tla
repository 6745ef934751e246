--------------------------- MODULE ShellPipeline ---------------------------
(***************************************************************************)
(* The shell of HW2.  It runs the commands of a line one after the other:  *)
(* for each it makes a pipe, forks, waits until the command is over, and   *)
(* only then starts the command that reads from that pipe.  Which file a   *)
(* command reads and writes follows from the numbers of the descriptors,   *)
(* which follow from what was closed before, here and in the child.        *)
(*                                                                         *)
(* A child in which a call fails leaves the loop over the commands and     *)
(* goes on as a second shell, inside the first, which waits for it.  A     *)
(* signal may be delivered to any process at any step.                     *)
(***************************************************************************)
EXTENDS Integers, FiniteSets, Sequences

CONSTANTS
  Procs, Top, NoProc,  \* the process ids, that of the first shell, and -1
  MaxFd,               \* descriptors of a process
  PipeSize,            \* what a pipe holds
  MaxCommands,         \* 20: commands in a line
  Lines,               \* the lines users type, sequences of commands
  MaxLines, MaxFaults, MaxSignals  \* bounds on lines, failing calls, signals

ASSUME ShellPipelineAssumption ==
  /\ Top \in Procs /\ NoProc \notin Procs /\ IsFiniteSet(Procs)
  /\ MaxFd \in Nat /\ MaxFd > 5
  /\ PipeSize \in Nat /\ MaxCommands \in Nat
  /\ MaxLines \in Nat /\ MaxFaults \in Nat /\ MaxSignals \in Nat
  \* A command may have "<" and ">", reads its input or ignores it, and
  \* writes some output.
  /\ \A l \in Lines : l \in Seq([in : BOOLEAN, out : BOOLEAN, reads : BOOLEAN, writes : Nat])
                      /\ l # <<>>

NoFd == -1
SavedIn  == 3   \* saved_stdin
SavedOut == 4   \* saved_stdout
Fds   == 0 .. MaxFd - 1
Pipes == 1 .. MaxFd * Cardinality(Procs)   \* enough: a pipe nobody holds is reused

VARIABLES
  fds,      \* the open files of each process by their descriptors
  pc,       \* where each process is
  local,    \* the variables of each process
  parent,   \* who forked a process, if that one still lives
  content,  \* how much each pipe holds
  lines, faults, signals  \* how many there have been

vars == <<fds, pc, local, parent, content, lines, faults, signals>>

-----------------------------------------------------------------------------
(* Open files and tables of descriptors. *)

File(kind) == [kind |-> kind, pipe |-> 0]
Closed     == File("closed")
ReadEnd(n)  == [kind |-> "read", pipe |-> n]
WriteEnd(n) == [kind |-> "write", pipe |-> n]
Terminal   == File("stdin")
IsFile(f) == IF f.kind \in {"read", "write"} THEN f.pipe \in Pipes
             ELSE f.kind \in {"closed", "stdin", "stdout", "stderr", "log", "infile", "outfile"}

Unused(t) == {d \in Fds : t[d] = Closed}
Lowest(t) == IF Unused(t) = {} THEN NoFd
             ELSE CHOOSE d \in Unused(t) : \A e \in Unused(t) : d <= e
Opened(t, f)  == IF Lowest(t) = NoFd THEN t ELSE [t EXCEPT ![Lowest(t)] = f]
IsOpen(t, d)  == d # NoFd /\ t[d] # Closed
Shut(t, d)    == IF d = NoFd THEN t ELSE [t EXCEPT ![d] = Closed]
Dup2(t, d, e) == [t EXCEPT ![e] = t[d]]

\* When both numbers are the same redirect() does nothing and returns no
\* value; what the build leaves in the register is the descriptor, not -1.
CanRedirect(t, old, new) == old = new \/ IsOpen(t, old)
Redirect(t, old, new) == IF old = new THEN t ELSE Shut(Dup2(t, old, new), old)

RestoreNothing(t) == t
RestoreStdin(t)   == IF IsOpen(t, SavedIn) THEN Dup2(t, SavedIn, 0) ELSE t

Holds(p, f) == \E d \in Fds : fds[p][d] = f
Readers(n)  == {p \in Procs : Holds(p, ReadEnd(n))}
Writers(n)  == {p \in Procs : Holds(p, WriteEnd(n))}
Held    == {fds[p][d].pipe : p \in Procs, d \in Fds}
NewPipe == CHOOSE n \in Pipes \ Held : \A m \in Pipes \ Held : n <= m

-----------------------------------------------------------------------------
(* Processes. *)

\* line: what fgets left in commandLine; at: the command of the loop; pid and
\* child: the local pid and the global child_pid; rd, wr: fd[2]; hungry and
\* left: what a running command has to read and to write; made: the pipes of
\* the line (history).
Blank == [line |-> <<>>, at |-> 0, logFd |-> NoFd, readFd |-> NoFd, rd |-> NoFd, wr |-> NoFd,
          pid |-> NoProc, child |-> NoProc, hungry |-> FALSE, left |-> 0, made |-> <<>>]

AllClosed == [d \in Fds |-> Closed]
FirstFds == [d \in Fds |-> CASE d \in {0, SavedIn}  -> Terminal
                             [] d \in {1, SavedOut} -> File("stdout")
                             [] d = 2               -> File("stderr")
                             [] OTHER               -> Closed]

Init ==
  /\ fds = [p \in Procs |-> IF p = Top THEN FirstFds ELSE AllClosed]
  /\ pc = [p \in Procs |-> IF p = Top THEN "prompt" ELSE "none"]
  /\ local = [p \in Procs |-> Blank]
  /\ parent = [p \in Procs |-> NoProc]
  /\ content = [n \in Pipes |-> 0]
  /\ lines = 0 /\ faults = 0 /\ signals = 0

Free == {p \in Procs \ {Top} : pc[p] = "none"}
Alive(p) == p \in Procs /\ pc[p] \notin {"none", "zombie"}

Goto(p, place) == pc' = [pc EXCEPT ![p] = place]
Fault == faults < MaxFaults /\ faults' = faults + 1

\* p dies, the variables of the others being vs: it stays a zombie for its
\* parent, and its own children have no parent any more.
Dies(p, vs) ==
  /\ fds' = [fds EXCEPT ![p] = AllClosed]
  /\ pc' = [q \in Procs |-> CASE q = p -> IF parent[p] = NoProc THEN "none" ELSE "zombie"
                              [] q # p /\ parent[q] = p /\ pc[q] = "zombie" -> "none"
                              [] OTHER -> pc[q]]
  /\ parent' = [q \in Procs |-> IF parent[q] = p THEN NoProc ELSE parent[q]]
  /\ local' = [vs EXCEPT ![p] = Blank]

\* p changes its table to t.
SetFds(p, t) == fds' = [fds EXCEPT ![p] = t]

-----------------------------------------------------------------------------
(* The loop over the lines. *)

\* A line with too many commands is refused; what stays in the buffer is its
\* first command, as strtok has cut it there.
ReadLine(p) ==
  /\ pc[p] = "prompt" /\ lines < MaxLines
  /\ lines' = lines + 1
  /\ \E l \in Lines :
       IF Len(l) > MaxCommands
       THEN /\ local' = [local EXCEPT ![p].line = <<l[1]>>]
            /\ pc' = pc
       ELSE /\ local' = [local EXCEPT ![p].line = l]
            /\ Goto(p, "log")
  /\ UNCHANGED <<fds, parent, content, faults, signals>>

\* fgets at the end of the input leaves the buffer as it was, and nobody looks
\* at its result: the first command of the last line runs again.
EndOfInput(p) ==
  /\ pc[p] = "prompt" /\ lines < MaxLines
  /\ local[p].line # <<>>
  /\ lines' = lines + 1
  /\ local' = [local EXCEPT ![p].line = <<local[p].line[1]>>]
  /\ Goto(p, "log")
  /\ UNCHANGED <<fds, parent, content, faults, signals>>

Quit(p) ==
  /\ pc[p] = "prompt"
  /\ Dies(p, local)
  /\ UNCHANGED <<content, lines, faults, signals>>

OpenLog(p) ==
  /\ pc[p] = "log"
  /\ \/ /\ SetFds(p, Opened(fds[p], File("log")))
        /\ local' = [local EXCEPT ![p].logFd = Lowest(fds[p]), ![p].readFd = 0,
                                  ![p].at = 1, ![p].made = <<>>]
        /\ UNCHANGED faults
     \/ /\ Fault
        /\ local' = [local EXCEPT ![p].logFd = NoFd, ![p].readFd = 0,
                                  ![p].at = 1, ![p].made = <<>>]
        /\ UNCHANGED fds
  /\ Goto(p, "pipe")
  /\ UNCHANGED <<parent, content, lines, signals>>

\* After the last command or a break: the log is closed, and stdin restored.
EndLine(p) ==
  /\ pc[p] = "end"
  /\ SetFds(p, RestoreStdin(Shut(fds[p], local[p].logFd)))
  /\ local' = [local EXCEPT ![p] = [Blank EXCEPT !.line = <<local[p].line[1]>>,
                                                 !.child = local[p].child]]
  /\ Goto(p, "prompt")
  /\ UNCHANGED <<parent, content, lines, faults, signals>>

-----------------------------------------------------------------------------
(* The loop over the commands. *)

MakePipe(p) ==
  /\ pc[p] = "pipe"
  /\ IF Cardinality(Unused(fds[p])) < 2
     THEN Goto(p, "end") /\ UNCHANGED <<fds, local, content>>
     ELSE LET n  == NewPipe
              rd == Lowest(fds[p])
              t  == Opened(fds[p], ReadEnd(n))
          IN /\ SetFds(p, Opened(t, WriteEnd(n)))
             /\ content' = [content EXCEPT ![n] = 0]
             /\ local' = [local EXCEPT ![p].rd = rd, ![p].wr = Lowest(t),
                                       ![p].made = Append(@, n)]
             /\ Goto(p, "fork")
  /\ UNCHANGED <<parent, lines, faults, signals>>

Fork(p) ==
  /\ pc[p] = "fork"
  /\ Free # {}
  /\ LET q == CHOOSE q \in Free : TRUE   \* which of them makes no difference
     IN /\ fds' = [fds EXCEPT ![q] = fds[p]]
        /\ local' = [local EXCEPT ![q] = local[p], ![p].pid = q]
        /\ pc' = [pc EXCEPT ![p] = "forked", ![q] = "child"]
        /\ parent' = [parent EXCEPT ![q] = p]
  /\ UNCHANGED <<content, lines, faults, signals>>

\* Both ends of the new pipe, and that of the last one, stay open.
ForkFails(p) ==
  /\ pc[p] = "fork"
  /\ Free = {} \/ faults < MaxFaults
  /\ faults' = faults + 1
  /\ Goto(p, "end")
  /\ UNCHANGED <<fds, local, parent, content, lines, signals>>

NoteChild(p) ==
  /\ pc[p] = "forked"
  /\ local' = [local EXCEPT ![p].child = local[p].pid]
  /\ Goto(p, "wait")
  /\ UNCHANGED <<fds, parent, content, lines, faults, signals>>

WaitPid(p) ==
  /\ pc[p] = "wait"
  /\ LET q == local[p].pid
     IN /\ pc[q] = "zombie"
        /\ pc' = [pc EXCEPT ![p] = "reaped", ![q] = "none"]
        /\ parent' = [parent EXCEPT ![q] = NoProc]
  /\ UNCHANGED <<fds, local, content, lines, faults, signals>>

\* close(fd[1]) and close(read_fd) are of open descriptors and succeed.
ClosePipeWriting(t, l) == Shut(t, l.wr)
ClosePipeReading(t, l) == Shut(t, l.readFd)
ClosePipe(t, l)        == Shut(Shut(t, l.wr), l.readFd)
StillChild(c)    == c
NoLongerChild(c) == NoProc
NextInputKept(l) == l.readFd
NextInput(l)     == l.rd
IsLastLate(l)    == l.at > Len(l.line)
IsLast(l)        == l.at = Len(l.line)

AfterCommand(p) ==
  /\ pc[p] = "reaped"
  /\ SetFds(p, ClosePipe(fds[p], local[p]))
  /\ local' = [local EXCEPT ![p].child = NoLongerChild(@), ![p].readFd = NextInput(local[p]),
                            ![p].at = IF IsLast(local[p]) THEN @ ELSE @ + 1]
  /\ Goto(p, IF IsLast(local[p]) THEN "end" ELSE "pipe")
  /\ UNCHANGED <<parent, content, lines, faults, signals>>

-----------------------------------------------------------------------------
(* The child, up to the command. *)

\* It closes the read end and, once it has written its line there, the log.
\* A log that could not be opened cannot be closed: the child is a shell now.
StartChild(q) ==
  /\ pc[q] = "child"
  /\ SetFds(q, Shut(Shut(fds[q], local[q].rd), local[q].logFd))
  /\ Goto(q, IF local[q].logFd = NoFd THEN "end" ELSE "redirect")
  /\ UNCHANGED <<local, parent, content, lines, faults, signals>>

\* Its files; found says whether those that are named can be opened.  The
\* child dies when it cannot redirect.
RedirectChild(q) ==
  /\ pc[q] = "redirect"
  /\ \E found \in BOOLEAN :
       LET l  == local[q]
           c  == l.line[l.at]
           t0 == IF c.out /\ ~c.in THEN RestoreStdin(fds[q]) ELSE fds[q]
           t1 == IF c.in /\ found THEN Opened(t0, File("infile")) ELSE t0
           t2 == IF c.out /\ found THEN Opened(t1, File("outfile")) ELSE t1
           from == IF ~c.in THEN l.readFd ELSE IF found THEN Lowest(t0) ELSE NoFd
           to   == IF c.out THEN IF found THEN Lowest(t1) ELSE NoFd
                  ELSE IF IsLast(l) THEN SavedOut ELSE l.wr
           t3   == Redirect(t2, from, 0)
       IN IF CanRedirect(t2, from, 0) /\ CanRedirect(t3, to, 1)
          THEN /\ SetFds(q, Redirect(t3, to, 1))
               /\ Goto(q, "exec")
               /\ UNCHANGED <<local, parent>>
          ELSE Dies(q, local)
  /\ UNCHANGED <<content, lines, faults, signals>>

Exec(q) ==
  /\ pc[q] = "exec"
  /\ LET c == local[q].line[local[q].at]
     IN \/ /\ local' = [local EXCEPT ![q].hungry = c.reads, ![q].left = c.writes]
           /\ Goto(q, "run")
           /\ UNCHANGED faults
        \/ Fault /\ Goto(q, "end") /\ UNCHANGED local
  /\ UNCHANGED <<fds, parent, content, lines, signals>>

-----------------------------------------------------------------------------
(* The command, a program of its own: it reads its input to the end and      *)
(* writes its output, in any order.                                          *)

Eats(q) == local' = [local EXCEPT ![q].hungry = FALSE]

Read(q) ==
  /\ pc[q] = "run" /\ local[q].hungry
  /\ LET f == fds[q][0]
     IN \/ f.kind = "infile" /\ Eats(q) /\ UNCHANGED content
        \/ /\ f.kind = "read" /\ content[f.pipe] > 0
           /\ content' = [content EXCEPT ![f.pipe] = @ - 1]
           /\ UNCHANGED local
        \/ /\ f.kind = "read" /\ content[f.pipe] = 0 /\ Writers(f.pipe) = {}
           /\ Eats(q) /\ UNCHANGED content
  /\ UNCHANGED <<fds, pc, parent, lines, faults, signals>>

\* The user ends what a command reads from the terminal, or does not.
ReadTerminal(q) ==
  /\ pc[q] = "run" /\ local[q].hungry
  /\ fds[q][0] = Terminal
  /\ Eats(q)
  /\ UNCHANGED <<fds, pc, parent, content, lines, faults, signals>>

Write(q) ==
  /\ pc[q] = "run" /\ local[q].left > 0
  /\ LET f == fds[q][1]
     IN \/ /\ f.kind = "write" => Readers(f.pipe) # {} /\ content[f.pipe] < PipeSize
           /\ local' = [local EXCEPT ![q].left = @ - 1]
           /\ content' = IF f.kind = "write" THEN [content EXCEPT ![f.pipe] = @ + 1] ELSE content
           /\ UNCHANGED <<fds, pc, parent>>
        \/ f.kind = "write" /\ Readers(f.pipe) = {} /\ Dies(q, local) /\ UNCHANGED content   \* SIGPIPE
  /\ UNCHANGED <<lines, faults, signals>>

Finish(q) ==
  /\ pc[q] = "run" /\ ~local[q].hungry /\ local[q].left = 0
  /\ Dies(q, local)
  /\ UNCHANGED <<content, lines, faults, signals>>

-----------------------------------------------------------------------------
(* SIGINT, SIGTERM, SIGQUIT or SIGHUP: the handlers do the same.  A command  *)
(* has no handler and dies.                                                  *)

Signal(p) ==
  /\ Alive(p) /\ signals < MaxSignals
  /\ signals' = signals + 1
  /\ LET c  == local[p].child
         vs == [local EXCEPT ![p].child = NoProc]
     IN \/ pc[p] = "run" /\ Dies(p, local)
        \/ pc[p] # "run" /\ Alive(c) /\ Dies(c, vs)
        \/ /\ pc[p] # "run" /\ ~Alive(c)
           /\ local' = vs
           /\ UNCHANGED <<fds, pc, parent>>
  /\ UNCHANGED <<content, lines, faults>>

-----------------------------------------------------------------------------
Step(p) ==
  \/ OpenLog(p) \/ EndLine(p)
  \/ MakePipe(p) \/ Fork(p) \/ ForkFails(p) \/ NoteChild(p) \/ WaitPid(p) \/ AfterCommand(p)
  \/ StartChild(p) \/ RedirectChild(p) \/ Exec(p)
  \/ Read(p) \/ Write(p) \/ Finish(p)

User(p) == ReadLine(p) \/ EndOfInput(p) \/ Quit(p) \/ ReadTerminal(p) \/ Signal(p)

Next == \E p \in Procs : Step(p) \/ User(p)

Spec == Init /\ [][Next]_vars

\* Every process goes on when it can; users need not type anything.
FairSpec == Spec /\ \A p \in Procs : WF_vars(Step(p))

-----------------------------------------------------------------------------
(* Properties. *)

Places == {"none", "zombie", "prompt", "log", "end", "pipe", "fork", "forked", "wait", "reaped",
           "child", "redirect", "exec", "run"}
InLine(p) == pc[p] \in Places \ {"none", "zombie", "prompt", "log"}

\* The state has its types, and within a line a process is at one of its
\* commands.
TypeOK ==
  /\ \A p \in Procs : DOMAIN fds[p] = Fds /\ \A d \in Fds : IsFile(fds[p][d])
  /\ pc \in [Procs -> Places]
  /\ parent \in [Procs -> Procs \cup {NoProc}]
  /\ content \in [Pipes -> 0 .. PipeSize]
  /\ \A p \in Procs :
       /\ {local[p].logFd, local[p].readFd, local[p].rd, local[p].wr} \subseteq Fds \cup {NoFd}
       /\ {local[p].pid, local[p].child} \subseteq Procs \cup {NoProc}
       /\ InLine(p) => local[p].at \in 1 .. Len(local[p].line)

\* A shell that prompts, the first one or one inside it, reads the terminal
\* (hw2.c:128), whatever the pipelines before did to descriptor 0.
StdinRestored == \A p \in Procs : pc[p] = "prompt" => fds[p][0] = Terminal

\* Where a command has to find its input and output: in the files named, in
\* the pipes before and after it, at the ends of the line at the terminal.
InputOf(l)  == IF l.line[l.at].in THEN File("infile")
               ELSE IF l.at = 1 THEN Terminal ELSE ReadEnd(l.made[l.at - 1])
OutputOf(l) == IF l.line[l.at].out THEN File("outfile")
               ELSE IF IsLast(l) THEN File("stdout") ELSE WriteEnd(l.made[l.at])

\* The third, fifth... command of a line has descriptor 0 as the end of the
\* pipe it reads from, and with ">" (hw2.c:283) puts the terminal in its place.
LosesPipe(l) == LET c == l.line[l.at] IN c.out /\ ~c.in /\ l.at > 1 /\ l.at % 2 = 1

\* A shell inside the shell that was to be the last command of its line has
\* no saved_stdout (hw2.c:289).  When its log cannot be opened either, the end
\* of a pipe gets that number and stays there for the lines after.
LosesOutput(q) == /\ IsLast(local[q]) /\ ~local[q].line[local[q].at].out
                  /\ parent[q] # Top /\ faults > 1

\* A command that runs reads and writes exactly these files (hw2.c:289).  Only
\* in the case of LosesPipe it reads the terminal instead of its pipe, and
\* only in that of LosesOutput may its output go where nobody finds it.
Wired ==
  \A q \in Procs : pc[q] = "run" =>
    /\ fds[q][0] = IF LosesPipe(local[q]) THEN Terminal ELSE InputOf(local[q])
    /\ \/ fds[q][1] = OutputOf(local[q])
       \/ LosesOutput(q) /\ fds[q][1].kind = "read"

\* A line leaves one descriptor open, the read end of its last pipe, and a
\* fork that fails one more: while nothing failed no write end is left, so a
\* later reader sees the end of its input (hw2.c:299-303).
LeaksBounded ==
  pc[Top] = "prompt" =>
    /\ Cardinality(Fds \ Unused(fds[Top])) <= 5 + lines + faults
    /\ faults = 0 => \A d \in Fds : fds[Top][d].kind # "write"

\* Whoever gets a signal kills its own child: child_pid names a process that
\* was reaped only between the return of waitpid and the next line
\* (hw2.c:296-298).
KillsOwnChild ==
  \A p \in Procs : local[p].child # NoProc /\ pc[p] # "reaped" => parent[local[p].child] = p

\* What may hold up a line for ever: a command that writes more than a pipe
\* holds, as its reader is not started before it ends, or somebody who waits
\* for the user.
Overflows(l) == \E k \in 1 .. Len(l) - 1 : ~l[k].out /\ l[k].writes > PipeSize
WaitsForUser == \E q \in Procs \ {Top} : \/ pc[q] = "prompt"
                                         \/ pc[q] = "run" /\ local[q].hungry /\ fds[q][0] = Terminal

\* Nothing else does: when no shell runs a line that overflows a pipe, every
\* line ends and the first shell prompts again.
LineEnds ==
  pc[Top] \notin {"none", "prompt"} /\ (\A p \in Procs : ~Overflows(local[p].line))
    ~> pc[Top] \in {"none", "prompt"} \/ WaitsForUser
=============================================================================
