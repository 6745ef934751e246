----------------------------- MODULE SyncServer -----------------------------
(***************************************************************************)
(* How the threads of BibakBOXServer (FINAL) take turns.  Each connected   *)
(* client has a thread of the pool.  The thread first synchronises its     *)
(* client alone (SyncAtConnection) and then, with the threads of all the   *)
(* other clients, runs synchronisation rounds for ever: each round has     *)
(* three phases, and every phase ends at a barrier.                        *)
(*                                                                         *)
(* A lock that one step takes and gives back is not a variable: only the   *)
(* steps in which a lock stays held are named (see "Locks").               *)
(***************************************************************************)
EXTENDS Integers, FiniteSets

CONSTANTS
  Threads,     \* the threads of the pool (POOL_SIZE of them)
  MaxSpurious  \* bound on the spurious wakeups at the barriers

ASSUME PoolAssumption == IsFiniteSet(Threads) /\ MaxSpurious \in Nat

POOL_SIZE == Cardinality(Threads)

\* The phases of a round: the threads build listUpdated, then take files from
\* their clients, then send files to their clients.
Phases == 1..3

VARIABLES
  pc, phase,            \* where each thread is, and in which phase of a round
  main,                 \* where the accepting thread is
  reg,                  \* what a thread read of ConnectionRequests to change it, or 0
  mainReg,              \* the same, of the accepting thread
  queue,                \* length of the queue of accepted clients
  ConnectionRequests, ConnectedClientNum, ReadyToSyncCount,
  ConnectionSync, SyncStarted,
  count,                \* SyncCheckCount, SyncClientCount and SyncDoneCount
  spurious              \* how many spurious wakeups there were

requests == <<main, mainReg, queue, ConnectionRequests, ConnectedClientNum>>
gate == <<ReadyToSyncCount, ConnectionSync, SyncStarted>>
vars == <<pc, phase, reg, requests, gate, count, spurious>>

Init ==
  /\ pc = [t \in Threads |-> "fetch"] /\ phase = [t \in Threads |-> 1]
  /\ main = "accept"
  /\ reg = [t \in Threads |-> 0] /\ mainReg = 0
  /\ queue = 0
  /\ ConnectionRequests = 0 /\ ConnectedClientNum = 0 /\ ReadyToSyncCount = 0
  /\ ConnectionSync = FALSE /\ SyncStarted = FALSE
  /\ count = [k \in Phases |-> 0]
  /\ spurious = 0

Goto(t, from, to) == pc[t] = from /\ pc' = [pc EXCEPT ![t] = to]

-----------------------------------------------------------------------------
(* Locks and condition variables. *)

Held(where) == \E t \in Threads : pc[t] \in where

ConnFdFree        == main # "inc"                        \* Mutex_connFd
SyncOrConnectFree == ~Held({"connecting", "dec"})        \* Mutex_sync_or_connect
SyncThreadsFree   == ~Held({"clean", "reset"})           \* Mutex_sync_threads
FileUpdatedFree   == ~Held({"serving", "relock"})        \* Mutex_fileUpdated

\* pthread_cond_broadcast(&Cond_sync_or_connect), on the locations q: who is
\* woken tests its condition again.
BroadcastGate(q) ==
  [t \in Threads |-> CASE q[t] = "connect_wait" -> "connect"
                       [] q[t] = "gate_wait" -> "gate"
                       [] OTHER -> q[t]]

\* pthread_cond_broadcast(&Cond_sync_threads), which the barriers share.
BroadcastBarrier(q) == [t \in Threads |-> IF q[t] = "wait" THEN "woken" ELSE q[t]]

-----------------------------------------------------------------------------
(* The accepting thread.  ConnectionRequests is raised under Mutex_connFd   *)
(* and lowered under another lock: each change is a read and a write.       *)

\* A full server turns the client away, which changes nothing.
Accept ==
  /\ main = "accept" /\ main' = "inc"
  /\ ConnectedClientNum < POOL_SIZE
  /\ queue' = queue + 1
  /\ mainReg' = ConnectionRequests
  /\ UNCHANGED <<pc, phase, reg, ConnectionRequests, ConnectedClientNum, gate, count, spurious>>

CountRequest ==
  /\ main = "inc" /\ main' = "signal"
  /\ ConnectionRequests' = mainReg + 1 /\ mainReg' = 0
  /\ ConnectedClientNum' = ConnectedClientNum + 1
  /\ UNCHANGED <<pc, phase, reg, queue, gate, count, spurious>>

SignalFdReady ==
  /\ main = "signal" /\ main' = "accept"
  /\ IF Held({"fd_wait"}) THEN \E t \in Threads : Goto(t, "fd_wait", "fetch")
                          ELSE UNCHANGED pc
  /\ UNCHANGED <<phase, reg, mainReg, queue, ConnectionRequests, ConnectedClientNum,
                 gate, count, spurious>>

-----------------------------------------------------------------------------
(* SyncAtConnection. *)

\* Variant: the client is looked at and left in the queue.
FetchClientKept(t) ==
  /\ ConnFdFree
  /\ Goto(t, "fetch", IF queue = 0 THEN "fd_wait" ELSE "connect")
  /\ UNCHANGED <<phase, reg, requests, gate, count, spurious>>

FetchClient(t) ==
  /\ ConnFdFree
  /\ IF queue = 0 THEN Goto(t, "fetch", "fd_wait") /\ UNCHANGED queue
                  ELSE Goto(t, "fetch", "connect") /\ queue' = queue - 1
  /\ UNCHANGED <<phase, reg, main, mainReg, ConnectionRequests, ConnectedClientNum,
                 gate, count, spurious>>

\* Variant: a connection does not wait for the end of a round.
MayConnectInRound == ~ConnectionSync

MayConnect == ~ConnectionSync /\ ~SyncStarted

\* The files are then exchanged with Mutex_sync_or_connect held.
Connect(t) ==
  /\ SyncOrConnectFree
  /\ IF MayConnect
     THEN Goto(t, "connect", "connecting") /\ ConnectionSync' = TRUE
     ELSE Goto(t, "connect", "connect_wait") /\ UNCHANGED ConnectionSync
  /\ UNCHANGED <<phase, reg, requests, ReadyToSyncCount, SyncStarted, count, spurious>>

EndConnection(t) ==
  /\ Goto(t, "connecting", "dec")
  /\ ConnectionSync' = FALSE
  /\ reg' = [reg EXCEPT ![t] = ConnectionRequests]
  /\ UNCHANGED <<phase, requests, ReadyToSyncCount, SyncStarted, count, spurious>>

UncountRequest(t) ==
  /\ Goto(t, "dec", "tell")
  /\ ConnectionRequests' = reg[t] - 1 /\ reg' = [reg EXCEPT ![t] = 0]
  /\ ReadyToSyncCount' = ReadyToSyncCount + 1
  /\ UNCHANGED <<phase, main, mainReg, queue, ConnectedClientNum,
                 ConnectionSync, SyncStarted, count, spurious>>

TellConnected(t) ==
  /\ pc[t] = "tell"
  /\ pc' = BroadcastGate([pc EXCEPT ![t] = "gate"])
  /\ UNCHANGED <<phase, reg, requests, gate, count, spurious>>

-----------------------------------------------------------------------------
(* A round. *)

MayStart == ~ConnectionSync /\ ConnectionRequests <= 0

\* A thread that may not start wakes the others before it waits.
StartRound(t) ==
  /\ pc[t] = "gate" /\ SyncOrConnectFree
  /\ IF MayStart
     THEN /\ pc' = [pc EXCEPT ![t] = "work"] /\ phase' = [phase EXCEPT ![t] = 1]
          /\ SyncStarted' = TRUE
     ELSE /\ pc' = [BroadcastGate(pc) EXCEPT ![t] = "gate_wait"]
          /\ UNCHANGED <<phase, SyncStarted>>
  /\ UNCHANGED <<reg, requests, ReadyToSyncCount, ConnectionSync, count, spurious>>

\* UpdateExistingFiles and UpdateInexistingFiles, then UpdateServer, which
\* take Mutex_fileUpdated for each file.
Work(t) ==
  /\ FileUpdatedFree /\ phase[t] < 3
  /\ Goto(t, "work", "arrive")
  /\ UNCHANGED <<phase, reg, requests, gate, count, spurious>>

\* UpdateClient, with Mutex_fileUpdated held.
ServeClient(t) ==
  /\ FileUpdatedFree /\ phase[t] = 3
  /\ Goto(t, "work", "serving")
  /\ UNCHANGED <<phase, reg, requests, gate, count, spurious>>

\* A file of the list that is gone makes UpdateClient lock Mutex_fileUpdated
\* again, which blocks the thread for good (recursive.h 480).
EndServe(t) ==
  /\ Goto(t, "serving", "arrive") \/ Goto(t, "serving", "relock")
  /\ UNCHANGED <<phase, reg, requests, gate, count, spurious>>

\* Past the barrier of its phase: to the next one, or to the next round.
Proceed(t) ==
  IF phase[t] < 3 THEN /\ pc' = [pc EXCEPT ![t] = "work"]
                       /\ phase' = [phase EXCEPT ![t] = @ + 1]
                  ELSE pc' = [pc EXCEPT ![t] = "gate"] /\ UNCHANGED phase

\* Variant: a barrier forgets to start over.
ResetForgotten(c, k) == c

Reset(c, k) == [c EXCEPT ![k] = 0]

\* What a thread does at a barrier that counts c arrivals: the one that finds
\* it complete resets it and wakes the others, and after the third phase it
\* first cleans the lists.
Pass(t, c) ==
  IF c # ReadyToSyncCount
  THEN Proceed(t) /\ count' = [count EXCEPT ![phase[t]] = c]
  ELSE IF phase[t] = 3
  THEN pc' = [pc EXCEPT ![t] = "clean"] /\ count' = [count EXCEPT ![3] = c] /\ UNCHANGED phase
  ELSE /\ count' = Reset(count, phase[t])
       /\ pc' = BroadcastBarrier([pc EXCEPT ![t] = "work"])
       /\ phase' = [phase EXCEPT ![t] = @ + 1]

\* Variant: the last but one does not wait.
IncompleteLax(c) == c < ReadyToSyncCount - 1

Incomplete(c) == c < ReadyToSyncCount

Arrive(t) ==
  /\ pc[t] = "arrive" /\ SyncThreadsFree
  /\ LET c == count[phase[t]] + 1 IN
     IF Incomplete(c) THEN /\ pc' = [pc EXCEPT ![t] = "wait"]
                           /\ count' = [count EXCEPT ![phase[t]] = c]
                           /\ UNCHANGED phase
                      ELSE Pass(t, c)
  /\ UNCHANGED <<reg, requests, gate, spurious>>

\* The wait is an if, not a loop: who is woken does not test again.
Leave(t) ==
  /\ pc[t] = "woken" /\ SyncThreadsFree
  /\ Pass(t, count[phase[t]])
  /\ UNCHANGED <<reg, requests, gate, spurious>>

SpuriousWakeup(t) ==
  /\ Goto(t, "wait", "woken")
  /\ spurious < MaxSpurious /\ spurious' = spurious + 1
  /\ UNCHANGED <<phase, reg, requests, gate, count>>

\* The lists are cleaned by one thread, with Mutex_sync_threads held.
CleanLists(t) ==
  /\ pc[t] = "clean" /\ FileUpdatedFree
  /\ count' = Reset(count, 3)
  /\ pc' = BroadcastBarrier([pc EXCEPT ![t] = "reset"])
  /\ UNCHANGED <<phase, reg, requests, gate, spurious>>

\* Variant: the round is not ended.
EndedNever == SyncStarted

Ended == FALSE

EndRound(t) ==
  /\ pc[t] = "reset" /\ SyncOrConnectFree
  /\ SyncStarted' = Ended
  /\ pc' = BroadcastGate([pc EXCEPT ![t] = "gate"])
  /\ UNCHANGED <<phase, reg, requests, ReadyToSyncCount, ConnectionSync, count, spurious>>

-----------------------------------------------------------------------------
Step(t) ==
  \/ FetchClient(t) \/ Connect(t) \/ EndConnection(t) \/ UncountRequest(t) \/ TellConnected(t)
  \/ StartRound(t) \/ Work(t) \/ ServeClient(t) \/ EndServe(t)
  \/ Arrive(t) \/ Leave(t) \/ CleanLists(t) \/ EndRound(t)

Main == CountRequest \/ SignalFdReady

Next == Accept \/ Main \/ \E t \in Threads : Step(t) \/ SpuriousWakeup(t)

Spec == Init /\ [][Next]_vars

\* Every thread that can run is scheduled; clients need not come.
FairSpec == Spec /\ WF_vars(Main) /\ \A t \in Threads : WF_vars(Step(t))

-----------------------------------------------------------------------------
(* Properties. *)

\* The threads whose client has been synchronised alone: the members of the rounds.
Members == {t \in Threads :
  pc[t] \in {"tell", "gate", "gate_wait", "work", "serving", "relock", "arrive", "wait",
             "woken", "clean", "reset"}}

\* The members that have passed the gate and not left the last barrier.
InRound == {t \in Members : pc[t] \notin {"tell", "gate", "gate_wait"}}

\* The members that still touch listUpdated or the served directory in phase k.
Busy(k) == {t \in Members : pc[t] \in {"work", "serving", "relock"} /\ phase[t] = k}

Waiting(k) == {t \in Members : pc[t] = "wait" /\ phase[t] = k}

TypeOK ==
  /\ pc \in [Threads -> {"fetch", "fd_wait", "connect", "connect_wait", "connecting", "dec",
       "tell", "gate", "gate_wait", "work", "serving", "relock", "arrive", "wait", "woken",
       "clean", "reset"}]
  /\ phase \in [Threads -> Phases]
  /\ main \in {"accept", "inc", "signal"}
  /\ reg \in [Threads -> Int] /\ mainReg \in Int /\ ConnectionRequests \in Int
  /\ queue \in 0..POOL_SIZE
  /\ ConnectedClientNum \in 0..POOL_SIZE /\ ReadyToSyncCount \in 0..POOL_SIZE
  /\ ConnectionSync \in BOOLEAN /\ SyncStarted \in BOOLEAN
  /\ count \in [Phases -> 0..POOL_SIZE]
  /\ spurious \in 0..MaxSpurious

\* Every accepted client is in the queue or has a thread, and the number of
\* members of a round, which the barriers wait for, is the number of clients
\* that have been let in: a client is never counted twice or forgotten.
ClientsCounted ==
  /\ ReadyToSyncCount = Cardinality(Members)
  /\ ConnectedClientNum + (IF main = "inc" THEN 1 ELSE 0) =
       queue + Cardinality({t \in Threads : pc[t] \notin {"fetch", "fd_wait"}})

\* While a client is synchronised alone nobody is in a phase of a round, so
\* SyncAtConnection may change both lists without their mutexes (svfunctions.h
\* 45-46, 72, 101), "if a client is connecting, synchronization should be
\* stopped" (globals.h 23).  Without a spurious wakeup.
ConnectAlone ==
  spurious = 0 =>
    \A t \in Threads : pc[t] = "connecting" =>
      \A u \in InRound : pc[u] = "woken" /\ phase[u] = 3

\* Without a spurious wakeup the phases of a round never overlap: nobody takes
\* files from a client while another thread still builds the list or already
\* sends files ("wait all threads to finish updating list", svfunctions.h 146).
PhasesSeparate ==
  spurious = 0 =>
    \A k \in Phases : Busy(k) # {} => \A j \in Phases \ {k} : Busy(j) = {}

\* Without a spurious wakeup the lists are cleaned when all the other members
\* wait at the third barrier, and the counts are the numbers of the waiting.
CleanedAlone ==
  spurious = 0 =>
    \A t \in Threads : pc[t] = "clean" =>
      /\ Waiting(3) = Members \ {t}
      /\ count[3] = Cardinality(Members) /\ count[1] = 0 /\ count[2] = 0

\* No client joins or leaves the barriers in the middle of a round.
MembersFixedInRound == [][SyncStarted => Members' = Members]_vars

\* A round ends, unless a connection is requested meanwhile (see RoundsEndAnyway),
\* a served file vanishes or a wakeup is spurious.
RoundsEnd ==
  SyncStarted ~>
    ~SyncStarted \/ ConnectionRequests # 0 \/ Held({"relock"}) \/ spurious # 0

\* "make the server available to synchronize newly connected clients"
\* (svfunctions.h 231): a round ends also when a client asks to connect during
\* it.  Not so: a thread that passed the gate before the request waits at the
\* first barrier for one that the request keeps at the gate, and the thread of
\* the new client waits for the end of the round.
RoundsEndAnyway == SyncStarted ~> ~SyncStarted \/ Held({"relock"}) \/ spurious # 0

-----------------------------------------------------------------------------
(* The threads implement the rounds of module Rounds.  A thread that waits  *)
(* for a barrier, or to clean up, is done with the phase; one that has been *)
(* woken is in the next.                                                    *)

RoundPlace(t) ==
  CASE pc[t] \in {"connecting", "dec"} -> "alone"
    [] pc[t] \in {"arrive", "wait", "clean"} -> "done"
    [] pc[t] \in {"work", "serving", "relock"} -> "work"
    [] pc[t] = "woken" -> IF phase[t] = 3 THEN "gate" ELSE "work"
    [] pc[t] \in {"tell", "gate", "gate_wait", "reset"} -> "gate"
    [] OTHER -> "out"

RoundTurn ==
  IF \E t \in Threads : RoundPlace(t) = "done" \/ pc[t] \in {"work", "serving", "relock"}
  THEN (CHOOSE k \in Phases : \E t \in Threads :
          phase[t] = k /\ (RoundPlace(t) = "done" \/ pc[t] \in {"work", "serving", "relock"}))
  ELSE IF \E t \in Threads : pc[t] = "woken" /\ phase[t] # 3
  THEN (CHOOSE k \in Phases : \E t \in Threads : pc[t] = "woken" /\ phase[t] = k) + 1
  ELSE 1

TheRounds == INSTANCE Rounds WITH at <- [t \in Threads |-> RoundPlace(t)], turn <- RoundTurn

\* Up to the first spurious wakeup, which an if around the wait does not
\* survive, every step is a step of the rounds or changes nothing of them:
\* nobody is let in during a round, enters one late or passes a barrier early.
KeepsRounds ==
  TheRounds!Init /\ [][TheRounds!Next \/ spurious' # 0]_(TheRounds!rounds)
=============================================================================
