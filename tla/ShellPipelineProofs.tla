------------------------ MODULE ShellPipelineProofs ------------------------
(***************************************************************************)
(* Two properties of the HW2 shell for any number of processes, lines,     *)
(* descriptors, failing calls and signals, and however deep shells run     *)
(* inside shells: a handler kills nobody but the child of its shell, and a *)
(* shell that prompts reads the terminal.                                  *)
(***************************************************************************)
EXTENDS ShellPipeline, TLAPS, WellFoundedInduction

\* What the proof needs of the types: every process has a place, a parent and
\* the variables pid and child.
Shape ==
  /\ DOMAIN pc = Procs /\ DOMAIN parent = Procs /\ DOMAIN local = Procs
  /\ \A p \in Procs : {"pid", "child"} \subseteq DOMAIN local[p]

\* A process that has a parent exists, if only as a zombie: its id is not
\* given to another.
ParentKnown == \A p \in Procs : parent[p] # NoProc => pc[p] # "none"

\* Between fork and waitpid the local pid names a child of the shell.
PidIsChild ==
  \A p \in Procs : pc[p] \in {"forked", "wait"} =>
    local[p].pid \in Procs /\ parent[local[p].pid] = p

\* child_pid is set only while the shell waits and just after, and is then pid
\* unless the handler has reset it.
ChildNoted ==
  \A p \in Procs :
    /\ local[p].child # NoProc => pc[p] \in {"wait", "reaped"}
    /\ pc[p] = "wait" => local[p].child \in {NoProc, local[p].pid}

Lineage == Shape /\ ParentKnown /\ PidIsChild /\ ChildNoted

\* The invariant holds of the first shell, which has no child yet.
LEMMA LineageAtStart == Init => Lineage
  BY DEF Init, Lineage, Shape, ParentKnown, PidIsChild, ChildNoted, Blank

\* Whoever dies leaves the others their children, and its own children no
\* parent.  The dead process may have been waiting itself.
LEMMA LineageAfterDeath ==
  ASSUME Lineage, NEW p \in Procs, Dies(p, local)
  PROVE  Lineage'
  <1>1. Shape'
    BY DEF Lineage, Shape, Dies, Blank
  <1>2. ParentKnown'
    BY DEF Lineage, Shape, ParentKnown, Dies
  <1>3. PidIsChild'
    <2> SUFFICES ASSUME NEW q \in Procs, pc'[q] \in {"forked", "wait"}
                 PROVE  local'[q].pid \in Procs /\ parent'[local'[q].pid] = q
      BY DEF PidIsChild
    <2>1. q # p /\ pc[q] = pc'[q]
      BY DEF Lineage, Shape, Dies
    <2>2. local'[q] = local[q]
      BY <2>1 DEF Lineage, Shape, Dies
    <2> QED  BY <2>1, <2>2 DEF Lineage, PidIsChild, Dies
  <1>4. ChildNoted'
    <2> SUFFICES ASSUME NEW q \in Procs
                 PROVE  /\ local'[q].child # NoProc => pc'[q] \in {"wait", "reaped"}
                        /\ pc'[q] = "wait" => local'[q].child \in {NoProc, local'[q].pid}
      BY DEF ChildNoted
    <2>1. CASE q = p
      BY <2>1 DEF Lineage, Shape, Dies, Blank
    <2>2. CASE q # p
      <3>1. local'[q] = local[q]
        BY <2>2 DEF Lineage, Shape, Dies
      <3>2. pc[q] \in {"wait", "reaped"} => pc'[q] = pc[q]
        BY <2>2 DEF Lineage, Shape, Dies
      <3>3. pc'[q] = "wait" => pc[q] = "wait"
        BY <2>2 DEF Lineage, Shape, Dies
      <3> QED  BY <3>1, <3>2, <3>3 DEF Lineage, ChildNoted
    <2> QED  BY <2>1, <2>2
  <1> QED  BY <1>1, <1>2, <1>3, <1>4 DEF Lineage

\* The same when a handler has killed it and reset child_pid.
LEMMA LineageAfterKill ==
  ASSUME Lineage, NEW k \in Procs, NEW p \in Procs,
         Dies(p, [local EXCEPT ![k].child = NoProc])
  PROVE  Lineage'
  <1>0. \A q \in Procs \ {p} :
          /\ local'[q].pid = local[q].pid
          /\ local'[q].child \in {NoProc, local[q].child}
          /\ {"pid", "child"} \subseteq DOMAIN local'[q]
    BY DEF Lineage, Shape, Dies
  <1>1. Shape'
    <2>1. DOMAIN pc' = Procs /\ DOMAIN parent' = Procs /\ DOMAIN local' = Procs
      BY DEF Lineage, Shape, Dies
    <2>2. {"pid", "child"} \subseteq DOMAIN local'[p]
      BY DEF Lineage, Shape, Dies, Blank
    <2> QED  BY <1>0, <2>1, <2>2 DEF Shape
  <1>2. ParentKnown'
    BY DEF Lineage, Shape, ParentKnown, Dies
  <1>3. PidIsChild'
    <2> SUFFICES ASSUME NEW q \in Procs, pc'[q] \in {"forked", "wait"}
                 PROVE  local'[q].pid \in Procs /\ parent'[local'[q].pid] = q
      BY DEF PidIsChild
    <2>1. q # p /\ pc[q] = pc'[q]
      BY DEF Lineage, Shape, Dies
    <2> QED  BY <1>0, <2>1 DEF Lineage, PidIsChild, Dies
  <1>4. ChildNoted'
    <2> SUFFICES ASSUME NEW q \in Procs
                 PROVE  /\ local'[q].child # NoProc => pc'[q] \in {"wait", "reaped"}
                        /\ pc'[q] = "wait" => local'[q].child \in {NoProc, local'[q].pid}
      BY DEF ChildNoted
    <2>1. CASE q = p
      BY <2>1 DEF Lineage, Shape, Dies, Blank
    <2>2. CASE q # p
      <3>1. pc[q] \in {"wait", "reaped"} => pc'[q] = pc[q]
        BY <2>2 DEF Lineage, Shape, Dies
      <3>2. pc'[q] = "wait" => pc[q] = "wait"
        BY <2>2 DEF Lineage, Shape, Dies
      <3> QED  BY <1>0, <2>2, <3>1, <3>2 DEF Lineage, ChildNoted
    <2> QED  BY <2>1, <2>2
  <1> QED  BY <1>1, <1>2, <1>3, <1>4 DEF Lineage

\* Most steps keep every parent, and move one process, which has no child_pid
\* set then, to another place than those between fork and the end of waitpid.
LEMMA LineageAfterMove ==
  ASSUME Lineage, NEW p \in Procs, NEW place,
         place \notin {"none", "forked", "wait", "reaped"},
         Goto(p, place), UNCHANGED parent, DOMAIN local' = Procs,
         \A q \in Procs : /\ {"pid", "child"} \subseteq DOMAIN local'[q]
                          /\ local'[q].pid = local[q].pid \/ q = p
                          /\ local'[q].child = IF q = p THEN NoProc ELSE local[q].child
  PROVE  Lineage'
  <1>1. /\ pc'[p] = place /\ DOMAIN pc' = Procs
        /\ \A q \in Procs \ {p} : pc'[q] = pc[q]
    BY DEF Lineage, Shape, Goto
  <1> QED  BY <1>1 DEF Lineage, Shape, ParentKnown, PidIsChild, ChildNoted

\* What a step that leaves processes, parents and variables alone keeps.
LEMMA LineageUntouched ==
  ASSUME Lineage, UNCHANGED <<pc, local, parent>>
  PROVE  Lineage'
  BY DEF Lineage, Shape, ParentKnown, PidIsChild, ChildNoted

\* A step that only changes what a running command has to do.
LEMMA LineageAfterWork ==
  ASSUME Lineage, UNCHANGED <<pc, parent>>, DOMAIN local' = Procs,
         \A q \in Procs : /\ {"pid", "child"} \subseteq DOMAIN local'[q]
                          /\ local'[q].pid = local[q].pid
                          /\ local'[q].child \in {NoProc, local[q].child}
  PROVE  Lineage'
  BY DEF Lineage, Shape, ParentKnown, PidIsChild, ChildNoted

-----------------------------------------------------------------------------
\* The steps that make and end the relation of parent and child.

\* fork gives the shell one more child.
LEMMA LineageAfterFork ==
  ASSUME Lineage, NEW p \in Procs, Fork(p)
  PROVE  Lineage'
  <1> DEFINE q == CHOOSE f \in Free : TRUE
  <1>1. q \in Procs /\ pc[q] = "none" /\ pc[p] = "fork" /\ q # p
    BY DEF Fork, Free
  <1>2. local[p].child = NoProc
    BY <1>1 DEF Lineage, ChildNoted
  <1>3. parent[q] = NoProc
    BY <1>1 DEF Lineage, ParentKnown
  <1>4. /\ parent' = [parent EXCEPT ![q] = p]
        /\ pc' = [pc EXCEPT ![p] = "forked", ![q] = "child"]
        /\ local' = [local EXCEPT ![q] = local[p], ![p].pid = q]
    BY DEF Fork
  <1> HIDE DEF q
  <1>5. /\ \A r \in Procs \ {p, q} : local'[r] = local[r] /\ pc'[r] = pc[r] /\ parent'[r] = parent[r]
        /\ local'[q] = local[p] /\ pc'[q] = "child" /\ parent'[q] = p
        /\ local'[p].pid = q /\ local'[p].child = NoProc /\ pc'[p] = "forked"
        /\ parent'[p] = parent[p] /\ {"pid", "child"} \subseteq DOMAIN local'[p]
        /\ DOMAIN pc' = Procs /\ DOMAIN parent' = Procs /\ DOMAIN local' = Procs
    BY <1>1, <1>2, <1>4 DEF Lineage, Shape
  <1>6. Shape'
    BY <1>1, <1>5 DEF Lineage, Shape
  <1>7. ParentKnown'
    BY <1>1, <1>5 DEF Lineage, ParentKnown
  <1>8. PidIsChild'
    <2> SUFFICES ASSUME NEW r \in Procs, pc'[r] \in {"forked", "wait"}
                 PROVE  local'[r].pid \in Procs /\ parent'[local'[r].pid] = r
      BY DEF PidIsChild
    <2>1. CASE r = p
      BY <2>1, <1>1, <1>5
    <2>2. CASE r # p
      <3>1. r # q /\ local'[r] = local[r] /\ pc'[r] = pc[r]
        BY <2>2, <1>5
      <3>2. local[r].pid \in Procs /\ parent[local[r].pid] = r
        BY <3>1 DEF Lineage, PidIsChild
      <3>3. local[r].pid # q
        BY <3>2, <1>3, ShellPipelineAssumption
      <3> QED  BY <3>1, <3>2, <3>3, <1>5
    <2> QED  BY <2>1, <2>2
  <1>9. ChildNoted'
    BY <1>1, <1>2, <1>5 DEF Lineage, ChildNoted
  <1> QED  BY <1>6, <1>7, <1>8, <1>9 DEF Lineage

\* The shell notes the pid that fork returned.
LEMMA LineageAfterNote ==
  ASSUME Lineage, NEW p \in Procs, NoteChild(p)
  PROVE  Lineage'
  <1>1. /\ \A r \in Procs \ {p} : local'[r] = local[r] /\ pc'[r] = pc[r]
        /\ local'[p].pid = local[p].pid /\ local'[p].child = local[p].pid
        /\ pc'[p] = "wait" /\ pc[p] = "forked" /\ parent' = parent
        /\ {"pid", "child"} \subseteq DOMAIN local'[p]
        /\ DOMAIN pc' = Procs /\ DOMAIN local' = Procs
    BY DEF Lineage, Shape, NoteChild, Goto
  <1> QED  BY <1>1 DEF Lineage, Shape, ParentKnown, PidIsChild, ChildNoted

\* waitpid removes the child it returns.
LEMMA LineageAfterWait ==
  ASSUME Lineage, NEW p \in Procs, WaitPid(p)
  PROVE  Lineage'
  <1> DEFINE q == local[p].pid
  <1>1. pc[p] = "wait" /\ pc[q] = "zombie" /\ UNCHANGED local
    BY DEF WaitPid
  <1>2. q \in Procs /\ parent[q] = p /\ q # p
    BY <1>1 DEF Lineage, PidIsChild
  <1>3. /\ \A r \in Procs \ {p, q} : pc'[r] = pc[r] /\ parent'[r] = parent[r]
        /\ pc'[p] = "reaped" /\ parent'[p] = parent[p]
        /\ pc'[q] = "none" /\ parent'[q] = NoProc
        /\ DOMAIN pc' = Procs /\ DOMAIN parent' = Procs
    BY <1>2 DEF WaitPid, Lineage, Shape
  <1>4. Shape' /\ ParentKnown'
    BY <1>1, <1>2, <1>3 DEF Lineage, Shape, ParentKnown
  <1>5. PidIsChild'
    <2> SUFFICES ASSUME NEW r \in Procs, pc'[r] \in {"forked", "wait"}
                 PROVE  local[r].pid \in Procs /\ parent'[local[r].pid] = r
      BY <1>1 DEF PidIsChild
    <2>1. r \notin {p, q} /\ pc[r] = pc'[r]
      BY <1>3
    <2>2. local[r].pid \in Procs /\ parent[local[r].pid] = r
      BY <2>1 DEF Lineage, PidIsChild
    <2> QED  BY <2>1, <2>2, <1>2, <1>3
  <1>6. ChildNoted'
    BY <1>1, <1>2, <1>3 DEF Lineage, ChildNoted
  <1> QED  BY <1>4, <1>5, <1>6 DEF Lineage

-----------------------------------------------------------------------------
\* Every step keeps the invariant.
LEMMA LineageKept == Lineage /\ [Next]_vars => Lineage'
  <1> SUFFICES ASSUME Lineage, [Next]_vars PROVE Lineage'
    OBVIOUS
  <1>1. CASE UNCHANGED vars
    BY <1>1, LineageUntouched DEF vars
  <1>2. ASSUME NEW p \in Procs, Step(p) \/ User(p) PROVE Lineage'
    <2> USE <1>2
    <2>0. {"pid", "child"} \subseteq DOMAIN local[p] /\ DOMAIN local = Procs
      BY DEF Lineage, Shape
    <2>1. CASE ReadLine(p)
      <3> PICK l \in Lines :
            IF Len(l) > MaxCommands
            THEN local' = [local EXCEPT ![p].line = <<l[1]>>] /\ pc' = pc
            ELSE local' = [local EXCEPT ![p].line = l] /\ Goto(p, "log")
        BY <2>1 DEF ReadLine
      <3>1. CASE Len(l) > MaxCommands
        BY <2>0, <2>1, <3>1, LineageAfterWork DEF ReadLine, Lineage, Shape
      <3>2. CASE ~(Len(l) > MaxCommands)
        <4>1. local[p].child = NoProc
          BY <2>1 DEF ReadLine, Lineage, ChildNoted
        <4> QED  BY <2>0, <2>1, <3>2, <4>1, LineageAfterMove DEF ReadLine, Lineage, Shape
      <3> QED  BY <3>1, <3>2
    <2>2. CASE EndOfInput(p)
      <3>1. local[p].child = NoProc
        BY <2>2 DEF EndOfInput, Lineage, ChildNoted
      <3> QED  BY <2>0, <2>2, <3>1, LineageAfterMove DEF EndOfInput, Lineage, Shape
    <2>3. CASE Quit(p)
      BY <2>3, LineageAfterDeath DEF Quit
    <2>4. CASE OpenLog(p)
      <3>1. local[p].child = NoProc
        BY <2>4 DEF OpenLog, Lineage, ChildNoted
      <3>2. \E d : local' = [local EXCEPT ![p].logFd = d, ![p].readFd = 0,
                                          ![p].at = 1, ![p].made = <<>>]
        BY <2>4 DEF OpenLog
      <3> QED  BY <2>0, <2>4, <3>1, <3>2, LineageAfterMove DEF OpenLog, Lineage, Shape
    <2>5. CASE EndLine(p)
      <3>1. local[p].child = NoProc
        BY <2>5 DEF EndLine, Lineage, ChildNoted
      <3>2. /\ DOMAIN local' = Procs
            /\ \A q \in Procs \ {p} : local'[q] = local[q]
            /\ local'[p].child = NoProc /\ {"pid", "child"} \subseteq DOMAIN local'[p]
        BY <2>0, <2>5, <3>1 DEF EndLine, Blank
      <3> QED  BY <2>5, <3>1, <3>2, LineageAfterMove DEF EndLine, Lineage, Shape
    <2>6. CASE MakePipe(p)
      <3>1. local[p].child = NoProc
        BY <2>6 DEF MakePipe, Lineage, ChildNoted
      <3>2. CASE Cardinality(Unused(fds[p])) < 2
        BY <2>0, <2>6, <3>1, <3>2, LineageAfterMove DEF MakePipe, Lineage, Shape
      <3>3. CASE ~(Cardinality(Unused(fds[p])) < 2)
        <4>1. Goto(p, "fork") /\ UNCHANGED parent
          BY <2>6, <3>3 DEF MakePipe
        <4>2. /\ DOMAIN local' = Procs
              /\ \A q \in Procs \ {p} : local'[q] = local[q]
              /\ local'[p].child = NoProc /\ {"pid", "child"} \subseteq DOMAIN local'[p]
          BY <2>0, <2>6, <3>1, <3>3 DEF MakePipe
        <4> QED  BY <3>1, <4>1, <4>2, LineageAfterMove DEF Lineage, Shape
      <3> QED  BY <3>2, <3>3
    <2>7. CASE Fork(p)
      BY <2>7, LineageAfterFork
    <2>8. CASE ForkFails(p)
      <3>1. local[p].child = NoProc
        BY <2>8 DEF ForkFails, Lineage, ChildNoted
      <3> QED  BY <2>0, <2>8, <3>1, LineageAfterMove DEF ForkFails, Lineage, Shape
    <2>9. CASE NoteChild(p)
      BY <2>9, LineageAfterNote
    <2>10. CASE WaitPid(p)
      BY <2>10, LineageAfterWait
    <2>11. CASE AfterCommand(p)
      <3>1. /\ DOMAIN local' = Procs
            /\ \A q \in Procs \ {p} : local'[q] = local[q]
            /\ local'[p].child = NoProc /\ {"pid", "child"} \subseteq DOMAIN local'[p]
        BY <2>0, <2>11 DEF AfterCommand, NoLongerChild
      <3>2. \E place \in {"end", "pipe"} : Goto(p, place)
        BY <2>11 DEF AfterCommand
      <3> QED  BY <2>11, <3>1, <3>2, LineageAfterMove DEF AfterCommand, Lineage, Shape
    <2>12. CASE StartChild(p)
      <3>1. local[p].child = NoProc
        BY <2>12 DEF StartChild, Lineage, ChildNoted
      <3>2. \E place \in {"end", "redirect"} : Goto(p, place)
        BY <2>12 DEF StartChild
      <3> QED  BY <2>0, <2>12, <3>1, <3>2, LineageAfterMove DEF StartChild, Lineage, Shape
    <2>13. CASE RedirectChild(p)
      <3>1. Dies(p, local) \/ (Goto(p, "exec") /\ UNCHANGED <<local, parent>>)
        BY <2>13 DEF RedirectChild
      <3>2. local[p].child = NoProc
        BY <2>13 DEF RedirectChild, Lineage, ChildNoted
      <3> QED  BY <2>0, <3>1, <3>2, LineageAfterDeath, LineageAfterMove DEF Lineage, Shape
    <2>14. CASE Exec(p)
      <3>1. local[p].child = NoProc
        BY <2>14 DEF Exec, Lineage, ChildNoted
      <3>2. /\ DOMAIN local' = Procs
            /\ \A q \in Procs \ {p} : local'[q] = local[q]
            /\ local'[p].child = NoProc /\ {"pid", "child"} \subseteq DOMAIN local'[p]
        BY <2>0, <2>14, <3>1 DEF Exec
      <3>3. UNCHANGED parent /\ \E place \in {"end", "run"} : Goto(p, place)
        BY <2>14 DEF Exec
      <3> QED  BY <3>2, <3>3, LineageAfterMove DEF Lineage, Shape
    <2>15. CASE Read(p)
      BY <2>0, <2>15, LineageAfterWork DEF Read, Eats, Lineage, Shape
    <2>16. CASE ReadTerminal(p)
      BY <2>0, <2>16, LineageAfterWork DEF ReadTerminal, Eats, Lineage, Shape
    <2>17. CASE Write(p)
      <3>1. \/ Dies(p, local)
            \/ local' = [local EXCEPT ![p].left = @ - 1] /\ UNCHANGED <<pc, parent>>
        BY <2>17 DEF Write
      <3> QED  BY <2>0, <3>1, LineageAfterDeath, LineageAfterWork DEF Lineage, Shape
    <2>18. CASE Finish(p)
      BY <2>18, LineageAfterDeath DEF Finish
    <2>19. CASE Signal(p)
      <3> DEFINE vs == [local EXCEPT ![p].child = NoProc]
      <3>1. \/ Dies(p, local)
            \/ Alive(local[p].child) /\ Dies(local[p].child, vs)
            \/ local' = vs /\ UNCHANGED <<pc, parent>>
        BY <2>19 DEF Signal
      <3>2. CASE Dies(p, local)
        BY <3>2, LineageAfterDeath
      <3>3. CASE Alive(local[p].child) /\ Dies(local[p].child, vs)
        BY <3>3, LineageAfterKill DEF Alive
      <3>4. CASE local' = vs /\ UNCHANGED <<pc, parent>>
        BY <2>0, <3>4, LineageAfterWork DEF Lineage, Shape
      <3> QED  BY <3>1, <3>2, <3>3, <3>4
    <2> QED
      BY <2>1, <2>2, <2>3, <2>4, <2>5, <2>6, <2>7, <2>8, <2>9, <2>10, <2>11, <2>12, <2>13,
         <2>14, <2>15, <2>16, <2>17, <2>18, <2>19 DEF Step, User
  <1> QED  BY <1>1, <1>2 DEF Next

\* In every execution of the shell a handler that finds child_pid set kills a
\* child of its own shell, except between the return of waitpid and the line
\* after it (hw2.c:296-298).
THEOREM HandlersKillOwnChild == Spec => []KillsOwnChild
  <1>1. Lineage => KillsOwnChild
    BY DEF Lineage, PidIsChild, ChildNoted, KillsOwnChild
  <1> QED  BY LineageAtStart, LineageKept, <1>1, PTL DEF Spec

-----------------------------------------------------------------------------
(* The terminal that a shell keeps at saved_stdin.                           *)

\* A set of natural numbers has a least element.
LEMMA LeastExists ==
  ASSUME NEW S, S \subseteq Nat, S # {}
  PROVE  \E x \in S : \A y \in S : x <= y
  <1> DEFINE R == {ss \in Nat \X Nat : ss[1] < ss[2]}
  <1>1. IsWellFoundedOn(R, Nat)
    BY NatLessThanWellFounded DEF OpToRel
  <1>2. \E x \in S : \A y \in S : ~(<<y, x>> \in R)
    <2> HIDE DEF R
    <2> QED  BY <1>1, WFMin
  <1>3. \A x, y \in S : ~(<<y, x>> \in R) => x <= y
    OBVIOUS
  <1> QED  BY <1>2, <1>3

\* A table whose saved_stdin is the terminal.
Saves(t) == DOMAIN t = Fds /\ t[SavedIn] = Terminal

\* The lowest free descriptor is not one that is open.
LEMMA LowestIsFree ==
  ASSUME NEW t, Saves(t)
  PROVE  Lowest(t) # SavedIn
  <1>1. CASE Unused(t) = {}
    BY <1>1 DEF Lowest, NoFd, SavedIn
  <1>2. CASE Unused(t) # {}
    <2>1. Unused(t) \subseteq Nat
      BY ShellPipelineAssumption DEF Unused, Fds
    <2>2. \E d \in Unused(t) : \A e \in Unused(t) : d <= e
      BY <1>2, <2>1, LeastExists
    <2>3. Lowest(t) \in Unused(t)
      BY <1>2, <2>2 DEF Lowest
    <2> QED  BY <2>3 DEF Unused, Saves, Terminal, File, Closed
  <1> QED  BY <1>1, <1>2

\* Opening a file, closing or moving another descriptor, and restoring stdin
\* leave saved_stdin as it is.
LEMMA SavesOpened ==
  ASSUME NEW t, Saves(t), NEW f
  PROVE  Saves(Opened(t, f))
  BY LowestIsFree DEF Saves, Opened

\* Nothing is saved when the saved descriptors are closed.
LEMMA SavesShut ==
  ASSUME NEW t, Saves(t), NEW d, d # SavedIn
  PROVE  Saves(Shut(t, d))
  BY DEF Saves, Shut

\* dup2 of the saved descriptors restores the shell's own.
LEMMA SavesRestored ==
  ASSUME NEW t, Saves(t)
  PROVE  Saves(RestoreStdin(t)) /\ RestoreStdin(t)[0] = Terminal
  <1>1. 0 \in Fds /\ SavedIn # 0
    BY ShellPipelineAssumption DEF Fds, SavedIn
  <1>2. IsOpen(t, SavedIn)
    BY DEF Saves, IsOpen, SavedIn, NoFd, Terminal, File, Closed
  <1> QED  BY <1>1, <1>2 DEF Saves, RestoreStdin, Dup2

\* A redirection changes a descriptor that was saved before.
LEMMA SavesRedirected ==
  ASSUME NEW t, Saves(t), NEW old, old # SavedIn, NEW new, new # SavedIn
  PROVE  Saves(Redirect(t, old, new))
  <1>1. Saves(Dup2(t, old, new))
    BY DEF Saves, Dup2
  <1> QED  BY <1>1, SavesShut DEF Redirect

\* The descriptors a shell remembers, and later closes or moves.
Remembers(l) == /\ {"logFd", "readFd", "rd", "wr"} \subseteq DOMAIN l
                /\ SavedIn \notin {l.logFd, l.readFd, l.rd, l.wr}

Shelled(place) == place \notin {"none", "zombie", "run"}

\* Every process that is a shell, or may be one again, keeps the terminal at
\* saved_stdin and remembers other descriptors; one that prompts has stdin.
Reserved ==
  /\ DOMAIN pc = Procs /\ DOMAIN local = Procs /\ DOMAIN fds = Procs
  /\ \A p \in Procs : /\ Remembers(local[p])
                      /\ Shelled(pc[p]) => Saves(fds[p])
                      /\ pc[p] = "prompt" => fds[p][0] = Terminal

\* A step of p that changes the table and variables of nobody else.
OnlyOf(p) ==
  /\ DOMAIN local' = Procs /\ DOMAIN fds' = Procs
  /\ \A q \in Procs \ {p} : local'[q] = local[q] /\ fds'[q] = fds[q]

\* The first shell has copied the terminal to saved_stdin.
LEMMA ReservedAtStart == Init => Reserved
  <1> SUFFICES ASSUME Init PROVE Reserved
    OBVIOUS
  <1>1. Remembers(Blank)
    BY DEF Remembers, Blank, NoFd, SavedIn
  <1>2. Saves(FirstFds) /\ FirstFds[0] = Terminal
    <2>1. 0 \in Fds /\ SavedIn \in Fds
      BY ShellPipelineAssumption DEF Fds, SavedIn
    <2>2. DOMAIN FirstFds = Fds /\ FirstFds[0] = Terminal /\ FirstFds[SavedIn] = Terminal
      BY <2>1 DEF FirstFds, SavedIn, SavedOut
    <2> QED  BY <2>2 DEF Saves
  <1> QED  BY <1>1, <1>2 DEF Init, Reserved, Shelled

\* One process moves on, with another table and other variables.
LEMMA ReservedAfterMove ==
  ASSUME Reserved, NEW p \in Procs, NEW place, Goto(p, place),
         OnlyOf(p), Remembers(local'[p]),
         Shelled(place) => Saves(fds'[p]), place = "prompt" => fds'[p][0] = Terminal
  PROVE  Reserved'
  <1>1. /\ pc'[p] = place /\ DOMAIN pc' = Procs
        /\ \A q \in Procs \ {p} : pc'[q] = pc[q]
    BY DEF Reserved, Goto
  <1> QED  BY <1>1 DEF Reserved, OnlyOf

\* Whoever dies is no shell, and the tables of the others stay.
LEMMA ReservedAfterDeath ==
  ASSUME Reserved, NEW p \in Procs, NEW vs, Dies(p, vs), DOMAIN vs = Procs,
         \A q \in Procs : Remembers(vs[q])
  PROVE  Reserved'
  <1>1. Remembers(Blank)
    BY DEF Remembers, Blank, NoFd, SavedIn
  <1>2. /\ DOMAIN pc' = Procs /\ DOMAIN local' = Procs /\ DOMAIN fds' = Procs
        /\ \A q \in Procs : Remembers(local'[q])
    BY <1>1 DEF Dies, Reserved
  <1>3. pc'[p] \in {"none", "zombie"}
    BY DEF Dies
  <1>4. \A q \in Procs \ {p} : fds'[q] = fds[q] /\ (pc'[q] = "none" \/ pc'[q] = pc[q])
    BY DEF Dies, Reserved
  <1> QED  BY <1>2, <1>3, <1>4 DEF Reserved, Shelled

\* A step that gives no process another place or table.
LEMMA ReservedAfterWork ==
  ASSUME Reserved, UNCHANGED <<pc, fds>>, DOMAIN local' = Procs,
         \A q \in Procs : Remembers(local'[q])
  PROVE  Reserved'
  BY DEF Reserved

\* The child moves its files to 0 and 1 and nothing else.
LEMMA ReservedAfterRedirect ==
  ASSUME Reserved, NEW q \in Procs, RedirectChild(q)
  PROVE  Reserved'
  <1>1. CASE Dies(q, local)
    BY <1>1, ReservedAfterDeath DEF Reserved
  <1>2. CASE ~Dies(q, local)
    <2>0. PICK found \in BOOLEAN :
       LET l  == local[q]
           c  == l.line[l.at]
           t0 == IF c.out /\ ~c.in THEN RestoreStdin(fds[q]) ELSE fds[q]
           t1 == IF c.in /\ found THEN Opened(t0, File("infile")) ELSE t0
           t2 == IF c.out /\ found THEN Opened(t1, File("outfile")) ELSE t1
           from == IF ~c.in THEN l.readFd ELSE IF found THEN Lowest(t0) ELSE NoFd
           to   == IF c.out THEN IF found THEN Lowest(t1) ELSE NoFd
                  ELSE IF IsLast(l) THEN SavedOut ELSE l.wr
           t3   == Redirect(t2, from, 0)
       IN IF CanRedirect(t2, from, 0) /\ CanRedirect(t3, to, 1)
          THEN /\ SetFds(q, Redirect(t3, to, 1))
               /\ Goto(q, "exec")
               /\ UNCHANGED <<local, parent>>
          ELSE Dies(q, local)
      BY DEF RedirectChild
    <2> DEFINE l  == local[q]
               c  == l.line[l.at]
               t0 == IF c.out /\ ~c.in THEN RestoreStdin(fds[q]) ELSE fds[q]
               t1 == IF c.in /\ found THEN Opened(t0, File("infile")) ELSE t0
               t2 == IF c.out /\ found THEN Opened(t1, File("outfile")) ELSE t1
               from == IF ~c.in THEN l.readFd ELSE IF found THEN Lowest(t0) ELSE NoFd
               to   == IF c.out THEN IF found THEN Lowest(t1) ELSE NoFd
                       ELSE IF IsLast(l) THEN SavedOut ELSE l.wr
               t3   == Redirect(t2, from, 0)
    <2>1. Saves(fds[q]) /\ Remembers(l)
      BY DEF RedirectChild, Reserved, Shelled
    <2>2. Saves(t0)
      BY <2>1, SavesRestored
    <2>3. Saves(t1)
      <3> HIDE DEF t0
      <3> QED  BY <2>2, SavesOpened
    <2>4. Saves(t2)
      <3> HIDE DEF t1
      <3> QED  BY <2>3, SavesOpened
    <2>5. from # SavedIn
      <3>1. l.readFd # SavedIn /\ NoFd # SavedIn
        <4> HIDE DEF l
        <4> QED  BY <2>1 DEF Remembers, NoFd, SavedIn
      <3>2. Lowest(t0) # SavedIn
        <4> HIDE DEF t0
        <4> QED  BY <2>2, LowestIsFree
      <3> HIDE DEF t0, l, c
      <3> QED  BY <3>1, <3>2
    <2>6. to # SavedIn
      <3>1. l.wr # SavedIn /\ NoFd # SavedIn /\ SavedOut # SavedIn
        <4> HIDE DEF l
        <4> QED  BY <2>1 DEF Remembers, NoFd, SavedIn, SavedOut
      <3>2. Lowest(t1) # SavedIn
        <4> HIDE DEF t1
        <4> QED  BY <2>3, LowestIsFree
      <3> HIDE DEF t1, l, c
      <3> QED  BY <3>1, <3>2
    <2>7. Saves(t3)
      <3> HIDE DEF t2, from, l, c
      <3> QED  BY <2>4, <2>5, SavesRedirected DEF SavedIn
    <2>8. Saves(Redirect(t3, to, 1))
      <3> HIDE DEF t3, to, l, c
      <3> QED  BY <2>6, <2>7, SavesRedirected DEF SavedIn
    <2>9. SetFds(q, Redirect(t3, to, 1)) /\ Goto(q, "exec") /\ local' = local
      BY <1>2, <2>0
    <2> HIDE DEF t3, to
    <2>10. OnlyOf(q) /\ fds'[q] = Redirect(t3, to, 1)
      BY <2>9 DEF Reserved, SetFds, OnlyOf
    <2> QED  BY <2>1, <2>8, <2>9, <2>10, ReservedAfterMove
  <1> QED  BY <1>1, <1>2

\* The child is a copy of its shell, table and variables.
LEMMA ReservedAfterFork ==
  ASSUME Reserved, NEW p \in Procs, Fork(p)
  PROVE  Reserved'
  <1> DEFINE q == CHOOSE f \in Free : TRUE
  <1>1. q \in Procs /\ pc[q] = "none" /\ pc[p] = "fork" /\ q # p
    BY DEF Fork, Free
  <1>2. /\ pc' = [pc EXCEPT ![p] = "forked", ![q] = "child"]
        /\ local' = [local EXCEPT ![q] = local[p], ![p].pid = q]
        /\ fds' = [fds EXCEPT ![q] = fds[p]]
    BY DEF Fork
  <1> HIDE DEF q
  <1>3. Remembers(local[p]) /\ Saves(fds[p])
    BY <1>1 DEF Reserved, Shelled
  <1>4. /\ \A r \in Procs \ {p, q} : local'[r] = local[r] /\ pc'[r] = pc[r]
        /\ \A r \in Procs \ {q} : fds'[r] = fds[r]
        /\ local'[q] = local[p] /\ pc'[q] = "child" /\ fds'[q] = fds[p]
        /\ local'[p] = [local[p] EXCEPT !.pid = q] /\ pc'[p] = "forked"
        /\ DOMAIN pc' = Procs /\ DOMAIN local' = Procs /\ DOMAIN fds' = Procs
    BY <1>1, <1>2 DEF Reserved
  <1>5. Remembers(local'[p])
    BY <1>3, <1>4 DEF Remembers
  <1> QED  BY <1>1, <1>3, <1>4, <1>5 DEF Reserved

\* The two descriptors of a new pipe were free before.
LEMMA ReservedAfterPipe ==
  ASSUME Reserved, NEW p \in Procs, MakePipe(p)
  PROVE  Reserved'
  <1>1. Remembers(local[p]) /\ Saves(fds[p])
    BY DEF MakePipe, Reserved, Shelled
  <1>2. CASE Cardinality(Unused(fds[p])) < 2
    <2>1. Goto(p, "end") /\ UNCHANGED <<fds, local>>
      BY <1>2 DEF MakePipe
    <2>2. OnlyOf(p)
      BY <2>1 DEF Reserved, OnlyOf
    <2> QED  BY <1>1, <2>1, <2>2, ReservedAfterMove
  <1>3. CASE ~(Cardinality(Unused(fds[p])) < 2)
    <2> DEFINE n == NewPipe
               t == Opened(fds[p], ReadEnd(n))
    <2>1. /\ SetFds(p, Opened(t, WriteEnd(n))) /\ Goto(p, "fork")
          /\ local' = [local EXCEPT ![p].rd = Lowest(fds[p]), ![p].wr = Lowest(t),
                                    ![p].made = Append(@, n)]
      BY <1>3 DEF MakePipe
    <2>2. Saves(t)
      BY <1>1, SavesOpened
    <2> HIDE DEF t, n
    <2>3. Saves(Opened(t, WriteEnd(n))) /\ Lowest(t) # SavedIn /\ Lowest(fds[p]) # SavedIn
      BY <1>1, <2>2, SavesOpened, LowestIsFree
    <2>4. OnlyOf(p) /\ fds'[p] = Opened(t, WriteEnd(n))
      BY <2>1 DEF Reserved, OnlyOf, SetFds
    <2>5. Remembers(local'[p])
      BY <1>1, <2>1, <2>3 DEF Reserved, Remembers
    <2> QED  BY <2>1, <2>3, <2>4, <2>5, ReservedAfterMove
  <1> QED  BY <1>2, <1>3

-----------------------------------------------------------------------------
\* Every step keeps the terminal at saved_stdin.
LEMMA ReservedKept == Reserved /\ [Next]_vars => Reserved'
  <1> SUFFICES ASSUME Reserved, [Next]_vars PROVE Reserved'
    OBVIOUS
  <1>1. CASE UNCHANGED vars
    BY <1>1, ReservedAfterWork DEF vars, Reserved
  <1>2. ASSUME NEW p \in Procs, Step(p) \/ User(p) PROVE Reserved'
    <2> USE <1>2
    <2>0. /\ Remembers(local[p]) /\ DOMAIN local = Procs /\ DOMAIN fds = Procs
          /\ Shelled(pc[p]) => Saves(fds[p])
      BY DEF Reserved
    <2>1. CASE ReadLine(p)
      <3> PICK l \in Lines :
            IF Len(l) > MaxCommands
            THEN local' = [local EXCEPT ![p].line = <<l[1]>>] /\ pc' = pc
            ELSE local' = [local EXCEPT ![p].line = l] /\ Goto(p, "log")
        BY <2>1 DEF ReadLine
      <3>1. fds' = fds /\ pc[p] = "prompt"
        BY <2>1 DEF ReadLine
      <3>2. OnlyOf(p) /\ Remembers(local'[p])
        BY <2>0, <3>1 DEF Remembers, OnlyOf
      <3>3. CASE Len(l) > MaxCommands
        BY <3>1, <3>2, <3>3, ReservedAfterWork DEF Reserved, OnlyOf
      <3>4. CASE ~(Len(l) > MaxCommands)
        BY <2>0, <3>1, <3>2, <3>4, ReservedAfterMove DEF Shelled
      <3> QED  BY <3>3, <3>4
    <2>2. CASE EndOfInput(p)
      <3>1. fds' = fds /\ pc[p] = "prompt" /\ Goto(p, "log")
        BY <2>2 DEF EndOfInput
      <3>2. OnlyOf(p) /\ Remembers(local'[p])
        BY <2>0, <2>2 DEF EndOfInput, Remembers, OnlyOf
      <3> QED  BY <2>0, <3>1, <3>2, ReservedAfterMove DEF Shelled
    <2>3. CASE Quit(p)
      BY <2>3, ReservedAfterDeath DEF Quit, Reserved
    <2>4. CASE OpenLog(p)
      <3>1. Saves(fds[p]) /\ Goto(p, "pipe")
        BY <2>0, <2>4 DEF OpenLog, Shelled
      <3>2. PICK d : /\ local' = [local EXCEPT ![p].logFd = d, ![p].readFd = 0,
                                               ![p].at = 1, ![p].made = <<>>]
                     /\ \/ fds' = fds /\ d = NoFd
                        \/ SetFds(p, Opened(fds[p], File("log"))) /\ d = Lowest(fds[p])
        BY <2>4 DEF OpenLog
      <3>3. d # SavedIn
        BY <3>1, <3>2, LowestIsFree DEF NoFd, SavedIn
      <3>4. OnlyOf(p) /\ Remembers(local'[p])
        BY <2>0, <3>2, <3>3 DEF Remembers, OnlyOf, SetFds, SavedIn
      <3>5. Saves(fds'[p])
        BY <2>0, <3>1, <3>2, SavesOpened DEF SetFds
      <3> QED  BY <3>1, <3>4, <3>5, ReservedAfterMove
    <2>5. CASE EndLine(p)
      <3> DEFINE t == Shut(fds[p], local[p].logFd)
      <3>1. Goto(p, "prompt") /\ fds'[p] = RestoreStdin(t) /\ Saves(fds[p])
        BY <2>0, <2>5 DEF EndLine, SetFds, Shelled
      <3>2. Saves(t)
        BY <2>0, <3>1, SavesShut DEF Remembers, OnlyOf
      <3> HIDE DEF t
      <3>3. Saves(RestoreStdin(t)) /\ RestoreStdin(t)[0] = Terminal
        BY <3>2, SavesRestored
      <3>4. OnlyOf(p) /\ Remembers(local'[p])
        BY <2>0, <2>5 DEF EndLine, SetFds, Blank, Remembers, OnlyOf, NoFd, SavedIn
      <3> QED  BY <3>1, <3>3, <3>4, ReservedAfterMove
    <2>6. CASE MakePipe(p)
      BY <2>6, ReservedAfterPipe
    <2>7. CASE Fork(p)
      BY <2>7, ReservedAfterFork
    <2>8. CASE ForkFails(p)
      <3>1. UNCHANGED <<fds, local>> /\ Goto(p, "end") /\ pc[p] = "fork"
        BY <2>8 DEF ForkFails
      <3>2. OnlyOf(p)
        BY <2>0, <3>1 DEF OnlyOf
      <3> QED  BY <2>0, <3>1, <3>2, ReservedAfterMove DEF Shelled
    <2>9. CASE NoteChild(p)
      <3>1. fds' = fds /\ pc[p] = "forked" /\ Goto(p, "wait")
        BY <2>9 DEF NoteChild
      <3>2. OnlyOf(p) /\ Remembers(local'[p])
        BY <2>0, <2>9 DEF NoteChild, Remembers, OnlyOf
      <3> QED  BY <2>0, <3>1, <3>2, ReservedAfterMove DEF Shelled
    <2>10. CASE WaitPid(p)
      <3>1. UNCHANGED <<fds, local>> /\ pc[p] = "wait"
        BY <2>10 DEF WaitPid
      <3>2. /\ DOMAIN pc' = Procs
            /\ \A q \in Procs : pc'[q] \in {"reaped", "none", pc[q]}
            /\ \A q \in Procs : pc'[q] = "reaped" => pc[q] \in {"reaped", "wait"}
        BY <2>10 DEF WaitPid, Reserved
      <3> QED  BY <3>1, <3>2 DEF Reserved, Shelled
    <2>11. CASE AfterCommand(p)
      <3> DEFINE t == Shut(fds[p], local[p].wr)
      <3>1. /\ fds'[p] = Shut(t, local[p].readFd) /\ Saves(fds[p])
            /\ \E place \in {"end", "pipe"} : Goto(p, place)
        BY <2>0, <2>11 DEF AfterCommand, ClosePipe, SetFds, Shelled
      <3>2. Saves(t)
        BY <2>0, <3>1, SavesShut DEF Remembers, OnlyOf
      <3> HIDE DEF t
      <3>3. Saves(Shut(t, local[p].readFd))
        BY <2>0, <3>2, SavesShut DEF Remembers, OnlyOf
      <3>4. OnlyOf(p) /\ Remembers(local'[p])
        BY <2>0, <2>11 DEF AfterCommand, SetFds, NextInput, Remembers, OnlyOf
      <3> QED  BY <3>1, <3>3, <3>4, ReservedAfterMove
    <2>12. CASE StartChild(p)
      <3> DEFINE t == Shut(fds[p], local[p].rd)
      <3>1. /\ fds'[p] = Shut(t, local[p].logFd) /\ Saves(fds[p])
            /\ \E place \in {"end", "redirect"} : Goto(p, place)
            /\ OnlyOf(p) /\ local' = local
        BY <2>0, <2>12 DEF StartChild, SetFds, Shelled, OnlyOf
      <3>2. Saves(t)
        BY <2>0, <3>1, SavesShut DEF Remembers, OnlyOf
      <3> HIDE DEF t
      <3>3. Saves(Shut(t, local[p].logFd))
        BY <2>0, <3>2, SavesShut DEF Remembers, OnlyOf
      <3> QED  BY <2>0, <3>1, <3>3, ReservedAfterMove
    <2>13. CASE RedirectChild(p)
      BY <2>13, ReservedAfterRedirect
    <2>14. CASE Exec(p)
      <3>1. fds' = fds /\ pc[p] = "exec" /\ \E place \in {"end", "run"} : Goto(p, place)
        BY <2>14 DEF Exec
      <3>2. OnlyOf(p) /\ Remembers(local'[p])
        BY <2>0, <2>14 DEF Exec, Remembers, OnlyOf
      <3> QED  BY <2>0, <3>1, <3>2, ReservedAfterMove DEF Shelled
    <2>15. CASE Read(p)
      <3>1. OnlyOf(p) /\ Remembers(local'[p])
        BY <2>0, <2>15 DEF Read, Eats, Remembers, OnlyOf
      <3> QED  BY <2>15, <3>1, ReservedAfterWork DEF Read, Reserved, OnlyOf
    <2>16. CASE ReadTerminal(p)
      <3>1. OnlyOf(p) /\ Remembers(local'[p])
        BY <2>0, <2>16 DEF ReadTerminal, Eats, Remembers, OnlyOf
      <3> QED  BY <2>16, <3>1, ReservedAfterWork DEF ReadTerminal, Reserved, OnlyOf
    <2>17. CASE Write(p)
      <3>1. \/ Dies(p, local)
            \/ local' = [local EXCEPT ![p].left = @ - 1] /\ UNCHANGED <<fds, pc, parent>>
        BY <2>17 DEF Write
      <3>2. CASE Dies(p, local)
        BY <3>2, ReservedAfterDeath DEF Reserved
      <3>3. CASE local' = [local EXCEPT ![p].left = @ - 1] /\ UNCHANGED <<fds, pc, parent>>
        <4>1. OnlyOf(p) /\ Remembers(local'[p])
          BY <2>0, <3>3 DEF Remembers, OnlyOf
        <4> QED  BY <3>3, <4>1, ReservedAfterWork DEF Reserved, OnlyOf
      <3> QED  BY <3>1, <3>2, <3>3
    <2>18. CASE Finish(p)
      BY <2>18, ReservedAfterDeath DEF Finish, Reserved
    <2>19. CASE Signal(p)
      <3> DEFINE vs == [local EXCEPT ![p].child = NoProc]
      <3>1. \/ Dies(p, local)
            \/ Alive(local[p].child) /\ Dies(local[p].child, vs)
            \/ local' = vs /\ UNCHANGED <<fds, pc, parent>>
        BY <2>19 DEF Signal
      <3>2. /\ DOMAIN vs = Procs /\ \A q \in Procs \ {p} : vs[q] = local[q]
            /\ Remembers(vs[p])
        BY <2>0 DEF Remembers, OnlyOf
      <3>3. \A q \in Procs : Remembers(vs[q])
        BY <3>2 DEF Reserved
      <3> HIDE DEF vs
      <3>4. CASE Dies(p, local)
        BY <3>4, ReservedAfterDeath DEF Reserved
      <3>5. CASE Alive(local[p].child) /\ Dies(local[p].child, vs)
        BY <3>2, <3>3, <3>5, ReservedAfterDeath DEF Alive
      <3>6. CASE local' = vs /\ UNCHANGED <<fds, pc, parent>>
        BY <3>2, <3>3, <3>6, ReservedAfterWork
      <3> QED  BY <3>1, <3>4, <3>5, <3>6
    <2> QED
      BY <2>1, <2>2, <2>3, <2>4, <2>5, <2>6, <2>7, <2>8, <2>9, <2>10, <2>11, <2>12, <2>13,
         <2>14, <2>15, <2>16, <2>17, <2>18, <2>19 DEF Step, User
  <1> QED  BY <1>1, <1>2 DEF Next

\* In every execution, whatever fails and whoever gets signals, a shell that
\* prompts, the first one or one inside it, reads the terminal (hw2.c:128).
THEOREM ShellsReadTerminal == Spec => []StdinRestored
  <1>1. Reserved => StdinRestored
    BY DEF Reserved, StdinRestored
  <1> QED  BY ReservedAtStart, ReservedKept, <1>1, PTL DEF Spec

=============================================================================
