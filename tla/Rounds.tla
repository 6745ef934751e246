------------------------------- MODULE Rounds -------------------------------
(***************************************************************************)
(* What the threads of BibakBOXServer promise each other: a client is      *)
(* synchronised alone, and the clients that have been go through rounds of *)
(* three phases together.  SyncServer implements this with a gate, three   *)
(* counters and a condition variable; FileSync rests on it.                *)
(***************************************************************************)
EXTENDS Integers

CONSTANT Threads

VARIABLES
  at,   \* what each thread does: out, alone, gate, work or done
  turn  \* the phase that the working threads are in or on their way to

rounds == <<at, turn>>

RoundsTypeOK == at \in [Threads -> {"out", "alone", "gate", "work", "done"}] /\ turn \in 1..3

Init == at = [t \in Threads |-> "out"] /\ turn = 1

Move(t, from, to) == at[t] = from /\ at' = [at EXCEPT ![t] = to]

Joined == {t \in Threads : at[t] \notin {"out", "alone"}}

\* A client is let in between rounds, one at a time.
BeginAlone(t) ==
  /\ Move(t, "out", "alone")
  /\ \A u \in Threads \ {t} : at[u] \in {"out", "gate"}
  /\ UNCHANGED turn

EndAlone(t) == Move(t, "alone", "gate") /\ UNCHANGED turn

\* A thread joins the first phase of the round while nobody is alone.
Enter(t) ==
  /\ turn = 1 /\ Move(t, "gate", "work")
  /\ \A u \in Threads : at[u] # "alone"
  /\ UNCHANGED turn

Finish(t) == Move(t, "work", "done") /\ UNCHANGED turn

\* All the members have finished the phase: they go on together.
Turn ==
  /\ Joined # {} /\ \A t \in Joined : at[t] = "done"
  /\ at' = [t \in Threads |-> IF t \notin Joined THEN at[t]
                              ELSE IF turn = 3 THEN "gate" ELSE "work"]
  /\ turn' = IF turn = 3 THEN 1 ELSE turn + 1

Next == Turn \/ \E t \in Threads : BeginAlone(t) \/ EndAlone(t) \/ Enter(t) \/ Finish(t)

Spec == Init /\ [][Next]_rounds
=============================================================================
