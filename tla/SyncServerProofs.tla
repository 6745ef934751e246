-------------------------- MODULE SyncServerProofs --------------------------
(***************************************************************************)
(* What holds of the threads of BibakBOXServer for every size of the pool  *)
(* and any number of spurious wakeups: the accounting of the clients, the  *)
(* membership of the rounds, and that the server implements Rounds.        *)
(***************************************************************************)
EXTENDS SyncServer, FiniteSetTheorems, TLAPS

USE PoolAssumption

PCs == {"fetch", "fd_wait", "connect", "connect_wait", "connecting", "dec",
        "tell", "gate", "gate_wait", "work", "serving", "relock", "arrive", "wait", "woken",
        "clean", "reset"}

\* The types that the accounting rests on.
Types ==
  /\ pc \in [Threads -> PCs] /\ phase \in [Threads -> Phases]
  /\ main \in {"accept", "inc", "signal"}
  /\ queue \in Nat /\ ConnectedClientNum \in Nat /\ ReadyToSyncCount \in Nat
  /\ ConnectionSync \in BOOLEAN /\ SyncStarted \in BOOLEAN

\* The threads that have a client.
Served == {t \in Threads : pc[t] \notin {"fetch", "fd_wait"}}

\* No thread is alone with its client, or between that and being counted, while
\* a round is under way: the gate and the connection exclude each other.
GateClosed == SyncStarted => ~Held({"connecting", "dec"})

-----------------------------------------------------------------------------
(* What wakes threads moves nobody in or out of the sets counted. *)

\* The broadcast of the gate moves its sleepers, and nobody else.
LEMMA BroadcastGateType ==
  ASSUME NEW q \in [Threads -> PCs]
  PROVE  /\ BroadcastGate(q) \in [Threads -> PCs]
         /\ \A t \in Threads :
              /\ q[t] = "connect_wait" => BroadcastGate(q)[t] = "connect"
              /\ q[t] = "gate_wait" => BroadcastGate(q)[t] = "gate"
              /\ q[t] \notin {"connect_wait", "gate_wait"} => BroadcastGate(q)[t] = q[t]
  BY DEF BroadcastGate, PCs

\* The broadcast of a barrier moves its sleepers, and nobody else.
LEMMA BroadcastBarrierType ==
  ASSUME NEW q \in [Threads -> PCs]
  PROVE  /\ BroadcastBarrier(q) \in [Threads -> PCs]
         /\ \A t \in Threads :
              /\ q[t] = "wait" => BroadcastBarrier(q)[t] = "woken"
              /\ q[t] # "wait" => BroadcastBarrier(q)[t] = q[t]
  BY DEF BroadcastBarrier, PCs

\* Steps of a round, which concern members only.
RoundStep(t) ==
  \/ StartRound(t) \/ Work(t) \/ ServeClient(t) \/ EndServe(t)
  \/ Arrive(t) \/ Leave(t) \/ SpuriousWakeup(t) \/ CleanLists(t) \/ EndRound(t)
  \/ TellConnected(t)

MemberPCs == {"tell", "gate", "gate_wait", "work", "serving", "relock", "arrive", "wait",
              "woken", "clean", "reset"}

\* A step of a round moves members among the places of members, and moves
\* others from waiting for the gate to testing it at most.
LEMMA RoundMoves ==
  ASSUME Types, NEW t \in Threads, RoundStep(t)
  PROVE  /\ pc' \in [Threads -> PCs] /\ phase' \in [Threads -> Phases]
         /\ \A u \in Threads :
              \/ pc'[u] = pc[u]
              \/ pc[u] \in MemberPCs /\ pc'[u] \in MemberPCs
              \/ pc[u] = "connect_wait" /\ pc'[u] = "connect"
  <1> USE DEF Types, Goto, MemberPCs, Phases
  <1> DEFINE Goal ==
        /\ pc' \in [Threads -> PCs] /\ phase' \in [Threads -> Phases]
        /\ \A u \in Threads :
              \/ pc'[u] = pc[u]
              \/ pc[u] \in MemberPCs /\ pc'[u] \in MemberPCs
              \/ pc[u] = "connect_wait" /\ pc'[u] = "connect"
  <1>a. \A to \in PCs : [pc EXCEPT ![t] = to] \in [Threads -> PCs]
    BY DEF PCs
  <1>1. CASE StartRound(t)
    <2>1. BroadcastGate(pc) \in [Threads -> PCs]
      BY BroadcastGateType
    <2>2. CASE MayStart
      BY <1>1, <2>2, <1>a DEF StartRound, PCs
    <2>3. CASE ~MayStart
      <3>1. pc' = [BroadcastGate(pc) EXCEPT ![t] = "gate_wait"] /\ phase' = phase /\ pc[t] = "gate"
        BY <1>1, <2>3 DEF StartRound
      <3>2. \A u \in Threads \ {t} : pc'[u] = BroadcastGate(pc)[u]
        BY <2>1, <3>1
      <3>3. pc'[t] = "gate_wait" /\ pc' \in [Threads -> PCs]
        BY <2>1, <3>1 DEF PCs
      <3> QED
        BY <3>1, <3>2, <3>3, BroadcastGateType
    <2> QED
      BY <2>2, <2>3
  <1>2. CASE Work(t)
    BY <1>2 DEF Work, PCs
  <1>3. CASE ServeClient(t)
    BY <1>3 DEF ServeClient, PCs
  <1>4. CASE EndServe(t)
    BY <1>4 DEF EndServe, PCs
  <1>5. ASSUME pc[t] \in {"arrive", "woken"}, NEW c, Pass(t, c) PROVE Goal
    <2>1. CASE c # ReadyToSyncCount
      BY <1>5, <2>1 DEF Pass, Proceed, PCs
    <2>2. CASE c = ReadyToSyncCount /\ phase[t] = 3
      BY <1>5, <2>2 DEF Pass, PCs
    <2>3. CASE c = ReadyToSyncCount /\ phase[t] # 3
      <3> DEFINE q == [pc EXCEPT ![t] = "work"]
      <3>1. q \in [Threads -> PCs] /\ q[t] = "work" /\ \A u \in Threads \ {t} : q[u] = pc[u]
        BY <1>a DEF PCs
      <3>2. pc' = BroadcastBarrier(q) /\ phase' = [phase EXCEPT ![t] = @ + 1]
        BY <1>5, <2>3 DEF Pass
      <3>3. phase[t] \in 1..2
        BY <2>3
      <3>4. phase' \in [Threads -> Phases]
        BY <3>2, <3>3
      <3> HIDE DEF q
      <3> QED
        BY <1>5, <3>1, <3>2, <3>4, BroadcastBarrierType
    <2> QED
      BY <2>1, <2>2, <2>3
  <1>6. CASE Arrive(t)
    <2>1. CASE Incomplete(count[phase[t]] + 1)
      BY <1>6, <2>1 DEF Arrive, PCs
    <2>2. CASE ~Incomplete(count[phase[t]] + 1)
      BY <1>6, <2>2, <1>5 DEF Arrive
    <2> QED
      BY <2>1, <2>2
  <1>7. CASE Leave(t)
    BY <1>7, <1>5 DEF Leave
  <1>8. CASE SpuriousWakeup(t)
    BY <1>8 DEF SpuriousWakeup, PCs
  <1>9. CASE CleanLists(t)
    <2> DEFINE q == [pc EXCEPT ![t] = "reset"]
    <2>1. q \in [Threads -> PCs] /\ q[t] = "reset" /\ \A u \in Threads \ {t} : q[u] = pc[u]
      BY <1>a DEF PCs
    <2>2. pc' = BroadcastBarrier(q) /\ phase' = phase /\ pc[t] = "clean"
      BY <1>9 DEF CleanLists
    <2> HIDE DEF q
    <2> QED
      BY <2>1, <2>2, BroadcastBarrierType
  <1>10. CASE EndRound(t) \/ TellConnected(t)
    <2> DEFINE q == [pc EXCEPT ![t] = "gate"]
    <2>1. q \in [Threads -> PCs] /\ q[t] = "gate" /\ \A u \in Threads \ {t} : q[u] = pc[u]
      BY <1>a DEF PCs
    <2>2. pc' = BroadcastGate(q) /\ phase' = phase /\ pc[t] \in {"reset", "tell"}
      BY <1>10 DEF EndRound, TellConnected
    <2> HIDE DEF q
    <2> QED
      BY <2>1, <2>2, BroadcastGateType
  <1> QED
    BY <1>1, <1>2, <1>3, <1>4, <1>6, <1>7, <1>8, <1>9, <1>10 DEF RoundStep

-----------------------------------------------------------------------------
(* What one step does to the counters, and to the threads they count. *)

RoundFrame ==
  UNCHANGED <<main, mainReg, queue, ConnectionRequests, ConnectedClientNum,
              ReadyToSyncCount, ConnectionSync>>

\* A round leaves the accounting alone.
LEMMA RoundFrames ==
  ASSUME NEW t \in Threads, RoundStep(t)
  PROVE  /\ RoundFrame
         /\ SyncStarted' # SyncStarted =>
              (StartRound(t) /\ MayStart /\ SyncOrConnectFree) \/ SyncStarted' = FALSE
  BY DEF RoundStep, RoundFrame, StartRound, Work, ServeClient, EndServe, Arrive, Leave,
         SpuriousWakeup, CleanLists, EndRound, TellConnected, requests, gate, Ended

\* The steps, with those of a round as one kind.
LEMMA NextSteps ==
  ASSUME Next
  PROVE  \/ Accept \/ CountRequest \/ SignalFdReady
         \/ \E t \in Threads : \/ FetchClient(t) \/ Connect(t) \/ EndConnection(t)
                               \/ UncountRequest(t) \/ RoundStep(t)
  BY DEF Next, Main, Step, RoundStep

\* The server starts with nobody connected and no round under way.
LEMMA TypesInit == Init => Types /\ GateClosed
  <1> SUFFICES ASSUME Init PROVE Types /\ GateClosed
    OBVIOUS
  <1>1. pc \in [Threads -> PCs] /\ phase \in [Threads -> Phases]
    BY DEF Init, PCs, Phases
  <1>2. SyncStarted = FALSE /\ ConnectionSync = FALSE /\ main = "accept"
        /\ queue = 0 /\ ConnectedClientNum = 0 /\ ReadyToSyncCount = 0
    BY DEF Init
  <1> QED
    BY <1>1, <1>2 DEF Types, GateClosed

\* Every handler keeps the types.
LEMMA TypesStep ==
  ASSUME Types, [Next]_vars
  PROVE  Types'
  <1> USE DEF Types, Goto
  <1>1. CASE Accept
    BY <1>1 DEF Accept, gate
  <1>2. CASE CountRequest
    BY <1>2 DEF CountRequest, gate
  <1>3. CASE SignalFdReady
    <2>1. pc' \in [Threads -> PCs]
      BY <1>3 DEF SignalFdReady, PCs
    <2> QED
      BY <1>3, <2>1 DEF SignalFdReady, gate
  <1>4. ASSUME NEW t \in Threads, FetchClient(t) PROVE Types'
    <2>1. pc' \in [Threads -> PCs]
      BY <1>4 DEF FetchClient, PCs
    <2>2. queue' \in Nat
      BY <1>4 DEF FetchClient
    <2> QED
      BY <1>4, <2>1, <2>2 DEF FetchClient, gate
  <1>5. ASSUME NEW t \in Threads, Connect(t) PROVE Types'
    <2>1. pc' \in [Threads -> PCs]
      BY <1>5 DEF Connect, PCs
    <2>2. ConnectionSync' \in BOOLEAN
      BY <1>5 DEF Connect
    <2> QED
      BY <1>5, <2>1, <2>2 DEF Connect, requests
  <1>6. ASSUME NEW t \in Threads, EndConnection(t) PROVE Types'
    BY <1>6 DEF EndConnection, requests, PCs
  <1>7. ASSUME NEW t \in Threads, UncountRequest(t) PROVE Types'
    BY <1>7 DEF UncountRequest, PCs
  <1>8. ASSUME NEW t \in Threads, RoundStep(t) PROVE Types'
    <2>1. pc' \in [Threads -> PCs] /\ phase' \in [Threads -> Phases]
      BY <1>8, RoundMoves
    <2>2. RoundFrame
      BY <1>8, RoundFrames
    <2>3. SyncStarted' \in BOOLEAN
      BY <1>8 DEF RoundStep, StartRound, Work, ServeClient, EndServe, Arrive, Leave,
         SpuriousWakeup, CleanLists, EndRound, TellConnected, requests, gate, Ended
    <2> QED
      BY <2>1, <2>2, <2>3 DEF RoundFrame
  <1>9. CASE UNCHANGED vars
    BY <1>9 DEF vars, requests, gate
  <1> QED
    BY <1>1, <1>2, <1>3, <1>4, <1>5, <1>6, <1>7, <1>8, <1>9, NextSteps

-----------------------------------------------------------------------------
(* The gate. *)

\* Nobody connects while a round runs, and none starts while somebody connects.
LEMMA GateStep ==
  ASSUME Types, GateClosed, [Next]_vars
  PROVE  GateClosed'
  <1> USE DEF Types, Goto, GateClosed, Held
  <1>1. CASE Accept \/ CountRequest
    BY <1>1 DEF Accept, CountRequest, gate
  <1>3. CASE SignalFdReady
    BY <1>3 DEF SignalFdReady, gate
  <1>4. ASSUME NEW t \in Threads, FetchClient(t) PROVE GateClosed'
    BY <1>4 DEF FetchClient, gate
  <1>5. ASSUME NEW t \in Threads, Connect(t) PROVE GateClosed'
    BY <1>5 DEF Connect, MayConnect, requests
  <1>6. ASSUME NEW t \in Threads, EndConnection(t) PROVE GateClosed'
    BY <1>6 DEF EndConnection, requests
  <1>7. ASSUME NEW t \in Threads, UncountRequest(t) PROVE GateClosed'
    BY <1>7 DEF UncountRequest
  <1>8. ASSUME NEW t \in Threads, RoundStep(t) PROVE GateClosed'
    <2>1. \A u \in Threads : pc'[u] \in {"connecting", "dec"} => pc[u] \in {"connecting", "dec"}
      BY <1>8, RoundMoves DEF MemberPCs
    <2>2. SyncStarted' => SyncStarted \/ ~Held({"connecting", "dec"})
      BY <1>8, RoundFrames DEF SyncOrConnectFree
    <2> QED
      BY <2>1, <2>2
  <1>9. CASE UNCHANGED vars
    BY <1>9 DEF vars, gate
  <1> QED
    BY <1>1, <1>3, <1>4, <1>5, <1>6, <1>7, <1>8, <1>9, NextSteps

\* The types and the gate hold in every behaviour.
LEMMA GateInvariant == Spec => [](Types /\ GateClosed)
  <1>1. Types /\ GateClosed /\ [Next]_vars => (Types /\ GateClosed)'
    BY TypesStep, GateStep
  <1> QED
    BY <1>1, TypesInit, PTL DEF Spec

-----------------------------------------------------------------------------
(* The members. *)

\* Only the thread that lets its client in adds a member, itself.
LEMMA MembersStep ==
  ASSUME Types, [Next]_vars
  PROVE  \/ Members' = Members /\ ReadyToSyncCount' = ReadyToSyncCount
         \/ \E t \in Threads :
              /\ pc[t] = "dec" /\ t \notin Members
              /\ Members' = Members \cup {t} /\ ReadyToSyncCount' = ReadyToSyncCount + 1
  <1> USE DEF Types, Goto
  <1> DEFINE Same == Members' = Members /\ ReadyToSyncCount' = ReadyToSyncCount
  <1>a. Members = {t \in Threads : pc[t] \in MemberPCs}
    BY DEF Members, MemberPCs
  <1>b. Members' = {t \in Threads : pc'[t] \in MemberPCs}
    BY DEF Members, MemberPCs
  <1>1. CASE Accept \/ CountRequest
    BY <1>1, <1>a, <1>b DEF Accept, CountRequest, gate
  <1>3. CASE SignalFdReady
    <2>1. \A u \in Threads : pc'[u] \in MemberPCs <=> pc[u] \in MemberPCs
      BY <1>3 DEF SignalFdReady, MemberPCs
    <2> QED
      BY <1>3, <2>1, <1>a, <1>b DEF SignalFdReady, gate
  <1>4. ASSUME NEW t \in Threads, FetchClient(t) PROVE Same
    <2>1. \A u \in Threads : pc'[u] \in MemberPCs <=> pc[u] \in MemberPCs
      BY <1>4 DEF FetchClient, MemberPCs
    <2> QED
      BY <1>4, <2>1, <1>a, <1>b DEF FetchClient, gate
  <1>5. ASSUME NEW t \in Threads, Connect(t) \/ EndConnection(t) PROVE Same
    <2>1. \A u \in Threads : pc'[u] \in MemberPCs <=> pc[u] \in MemberPCs
      BY <1>5 DEF Connect, EndConnection, MemberPCs
    <2> QED
      BY <1>5, <2>1, <1>a, <1>b DEF Connect, EndConnection, gate
  <1>7. ASSUME NEW t \in Threads, UncountRequest(t)
        PROVE  /\ pc[t] = "dec" /\ t \notin Members
               /\ Members' = Members \cup {t} /\ ReadyToSyncCount' = ReadyToSyncCount + 1
    <2>1. pc[t] = "dec" /\ pc' = [pc EXCEPT ![t] = "tell"]
          /\ ReadyToSyncCount' = ReadyToSyncCount + 1
      BY <1>7 DEF UncountRequest
    <2>2. \A u \in Threads : pc'[u] \in MemberPCs <=> pc[u] \in MemberPCs \/ u = t
      BY <2>1 DEF MemberPCs
    <2>3. t \notin Members
      BY <2>1, <1>a DEF MemberPCs
    <2>4. Members' = Members \cup {t}
      BY <2>2, <1>a, <1>b
    <2> QED
      BY <2>1, <2>3, <2>4
  <1>8. ASSUME NEW t \in Threads, RoundStep(t) PROVE Same
    <2>1. \A u \in Threads : pc'[u] \in MemberPCs <=> pc[u] \in MemberPCs
      BY <1>8, RoundMoves DEF MemberPCs
    <2>2. ReadyToSyncCount' = ReadyToSyncCount
      BY <1>8, RoundFrames DEF RoundFrame
    <2> QED
      BY <2>1, <2>2, <1>a, <1>b
  <1>9. CASE UNCHANGED vars
    BY <1>9, <1>a, <1>b DEF vars, gate
  <1> QED
    BY <1>1, <1>3, <1>4, <1>5, <1>7, <1>8, <1>9, NextSteps

\* MembersFixedInRound: no thread joins or leaves the barriers while a round is
\* under way (svfunctions.h 108, 137, 149), for every size of the pool.
THEOREM MembersAreFixed == Spec => MembersFixedInRound
  <1>1. Types /\ GateClosed /\ [Next]_vars => [SyncStarted => Members' = Members]_vars
    BY MembersStep DEF GateClosed, Held
  <1> QED
    BY <1>1, GateInvariant, PTL DEF Spec, MembersFixedInRound

-----------------------------------------------------------------------------
(* The clients. *)

Accepted == ConnectedClientNum + (IF main = "inc" THEN 1 ELSE 0)

\* A thread becomes one that serves by fetching a client, and stays one.
LEMMA ServedStep ==
  ASSUME Types, [Next]_vars
  PROVE  \/ Served' = Served /\ Accepted' - queue' = Accepted - queue
         \/ \E t \in Threads :
              /\ t \notin Served /\ Served' = Served \cup {t}
              /\ Accepted' = Accepted /\ queue' = queue - 1
  <1> USE DEF Types, Goto
  <1> DEFINE Same == Served' = Served /\ Accepted' - queue' = Accepted - queue
  <1> DEFINE Idle == {"fetch", "fd_wait"}
  <1>b. Served = {t \in Threads : pc[t] \notin Idle} /\ Served' = {t \in Threads : pc'[t] \notin Idle}
    BY DEF Served
  <1>1. CASE Accept \/ CountRequest
    <2>1. pc' = pc
      BY <1>1 DEF Accept, CountRequest
    <2>2. Accepted' - queue' = Accepted - queue
      BY <1>1 DEF Accept, CountRequest, Accepted
    <2> QED
      BY <2>1, <2>2, <1>b
  <1>3. CASE SignalFdReady
    <2>1. \A u \in Threads : pc'[u] \in Idle <=> pc[u] \in Idle
      BY <1>3 DEF SignalFdReady
    <2>2. Accepted' = Accepted /\ queue' = queue
      BY <1>3 DEF SignalFdReady, Accepted
    <2> QED
      BY <2>1, <2>2, <1>b
  <1>4. ASSUME NEW t \in Threads, FetchClient(t)
        PROVE  \/ Same
               \/ /\ t \notin Served /\ Served' = Served \cup {t}
                  /\ Accepted' = Accepted /\ queue' = queue - 1
    <2>1. Accepted' = Accepted
      BY <1>4 DEF FetchClient, Accepted
    <2>2. CASE queue = 0
      <3>1. \A u \in Threads : pc'[u] \in Idle <=> pc[u] \in Idle
        BY <1>4, <2>2 DEF FetchClient
      <3> QED
        BY <1>4, <2>1, <2>2, <3>1, <1>b DEF FetchClient
    <2>3. CASE queue # 0
      <3>1. \A u \in Threads : pc'[u] \notin Idle <=> pc[u] \notin Idle \/ u = t
        BY <1>4, <2>3 DEF FetchClient
      <3>2. t \notin Served /\ queue' = queue - 1
        BY <1>4, <2>3, <1>b DEF FetchClient
      <3>3. Served' = Served \cup {t}
        BY <3>1, <1>b
      <3> QED
        BY <2>1, <3>2, <3>3
    <2> QED
      BY <2>2, <2>3
  <1>5. ASSUME NEW t \in Threads, Connect(t) \/ EndConnection(t) \/ UncountRequest(t) PROVE Same
    <2>1. \A u \in Threads : pc'[u] \in Idle <=> pc[u] \in Idle
      BY <1>5 DEF Connect, EndConnection, UncountRequest
    <2>2. Accepted' = Accepted /\ queue' = queue
      BY <1>5 DEF Connect, EndConnection, UncountRequest, Accepted, requests
    <2> QED
      BY <2>1, <2>2, <1>b
  <1>8. ASSUME NEW t \in Threads, RoundStep(t) PROVE Same
    <2>1. \A u \in Threads : pc'[u] \in Idle <=> pc[u] \in Idle
      BY <1>8, RoundMoves DEF MemberPCs
    <2>2. Accepted' = Accepted /\ queue' = queue
      BY <1>8, RoundFrames DEF RoundFrame, Accepted
    <2> QED
      BY <2>1, <2>2, <1>b
  <1>9. CASE UNCHANGED vars
    <2>1. pc' = pc /\ Accepted' = Accepted /\ queue' = queue
      BY <1>9 DEF vars, requests, Accepted
    <2> QED
      BY <2>1, <1>b
  <1> QED
    BY <1>1, <1>3, <1>4, <1>5, <1>8, <1>9, NextSteps

\* ClientsCounted, in these terms.
Accounting == ReadyToSyncCount = Cardinality(Members) /\ Accepted = queue + Cardinality(Served)

\* There are POOL_SIZE threads at most to count.
LEMMA SetsFinite ==
  /\ IsFiniteSet(Members) /\ Cardinality(Members) \in Nat
  /\ IsFiniteSet(Served) /\ Cardinality(Served) \in Nat
  <1>1. Members \subseteq Threads /\ Served \subseteq Threads
    BY DEF Members, Served
  <1> QED
    BY <1>1, FS_Subset, FS_CardinalityType

\* Nobody is counted at the start.
LEMMA AccountingInit == Init => Accounting
  <1> SUFFICES ASSUME Init PROVE Accounting
    OBVIOUS
  <1>1. Members = {} /\ Served = {}
    BY DEF Init, Members, Served
  <1>2. Cardinality({}) = 0
    BY FS_EmptySet
  <1>3. ReadyToSyncCount = 0 /\ Accepted = 0 /\ queue = 0
    BY DEF Init, Accepted
  <1> QED
    BY <1>1, <1>2, <1>3 DEF Accounting

\* Each increment of a counter comes with the thread or the client it counts.
LEMMA AccountingStep ==
  ASSUME Types, Accounting, [Next]_vars
  PROVE  Accounting'
  <1>1. ReadyToSyncCount' = Cardinality(Members')
    <2>1. CASE Members' = Members /\ ReadyToSyncCount' = ReadyToSyncCount
      BY <2>1 DEF Accounting
    <2>2. ASSUME NEW t \in Threads, t \notin Members, Members' = Members \cup {t},
                 ReadyToSyncCount' = ReadyToSyncCount + 1
          PROVE  ReadyToSyncCount' = Cardinality(Members')
      <3>1. Cardinality(Members \cup {t}) = Cardinality(Members) + 1
        BY <2>2, SetsFinite, FS_AddElement
      <3> QED
        BY <2>2, <3>1 DEF Accounting
    <2> QED
      BY <2>1, <2>2, MembersStep
  <1>2. Accepted' = queue' + Cardinality(Served')
    <2>a. Accepted \in Nat /\ queue \in Nat /\ Accepted' \in Nat /\ queue' \in Nat
      BY TypesStep DEF Types, Accepted
    <2>b. Accepted = queue + Cardinality(Served)
      BY DEF Accounting
    <2>1. CASE Served' = Served /\ Accepted' - queue' = Accepted - queue
      BY <2>1, <2>a, <2>b, SetsFinite
    <2>2. ASSUME NEW t \in Threads, t \notin Served, Served' = Served \cup {t},
                 Accepted' = Accepted, queue' = queue - 1
          PROVE  Accepted' = queue' + Cardinality(Served')
      <3>1. Cardinality(Served \cup {t}) = Cardinality(Served) + 1
        BY <2>2, SetsFinite, FS_AddElement
      <3> QED
        BY <2>2, <2>a, <2>b, <3>1, SetsFinite
    <2> QED
      BY <2>1, <2>2, ServedStep
  <1> QED
    BY <1>1, <1>2 DEF Accounting

\* ClientsCounted: the size of the barriers is the number of the members, and
\* every accepted client is in the queue or has a thread, whatever the pool and
\* the moments at which clients come (server.c 107-112, svfunctions.h 26, 108).
THEOREM ClientsAreCounted == Spec => []ClientsCounted
  <1>1. Types /\ Accounting /\ [Next]_vars => Accounting'
    BY AccountingStep
  <1>2. Accounting => ClientsCounted
    BY DEF Accounting, ClientsCounted, Accepted, Served
  <1> QED
    BY <1>1, <1>2, AccountingInit, GateInvariant, PTL DEF Spec

-----------------------------------------------------------------------------
(* The barriers.  While no wakeup is spurious, all the members are on their *)
(* way to the same barrier, its count is the number of those that have      *)
(* arrived, and the counts of the others are zero.                          *)

Inside == {"work", "serving", "relock", "arrive"}
Outside == {"tell", "gate", "gate_wait"}

\* The barrier a member is on its way to: who is woken has passed its barrier.
Zone(t) ==
  IF pc[t] \in Inside \cup {"wait", "clean"} THEN phase[t]
  ELSE IF pc[t] \in {"woken", "reset"} /\ phase[t] # 3 THEN phase[t] + 1
  ELSE 1

Arrived == {t \in Threads : pc[t] \in {"wait", "clean"}}

Barrier(K) ==
  /\ \A t \in Threads : pc[t] \in MemberPCs => Zone(t) = K
  /\ count = [k \in Phases |-> IF k = K THEN Cardinality(Arrived) ELSE 0]
  /\ ~SyncStarted =>
       \A t \in Threads : pc[t] \in MemberPCs => pc[t] \in Outside \/ (pc[t] = "woken" /\ phase[t] = 3)
  /\ \A t \in Threads : pc[t] = "clean" =>
       phase[t] = 3 /\ \A u \in Threads \ {t} : pc[u] \in MemberPCs => pc[u] = "wait"
  /\ \A t \in Threads : pc[t] = "reset" =>
       phase[t] = 3 /\ \A u \in Threads \ {t} : pc[u] \in MemberPCs => pc[u] = "woken" /\ phase[u] = 3

BarrierInv == spurious = 0 => \E K \in Phases : Barrier(K)

\* A step that changes no count, no phase and not the round, and moves threads
\* only among the outsiders, within a phase, or at the gate.
LEMMA QuietStep ==
  ASSUME Types, NEW K \in Phases, Barrier(K), pc' \in [Threads -> PCs],
         count' = count, phase' = phase, SyncStarted' = SyncStarted,
         \A u \in Threads :
           \/ pc'[u] = pc[u]
           \/ pc[u] \notin MemberPCs /\ pc'[u] \notin MemberPCs
           \/ pc[u] \in Outside /\ pc'[u] \in Outside
           \/ pc[u] \in Inside /\ pc'[u] \in Inside
  PROVE  Barrier(K)'
  <1> USE DEF Types, MemberPCs, Inside, Outside
  <1>1. Arrived' = Arrived
    BY DEF Arrived
  <1>2. \A t \in Threads : pc'[t] \in MemberPCs => Zone(t)' = Zone(t) /\ pc[t] \in MemberPCs
    BY DEF Zone
  <1>3. \A t \in Threads : pc'[t] \in MemberPCs => Zone(t)' = K
    BY <1>2 DEF Barrier
  <1>4. count' = [k \in Phases |-> IF k = K THEN Cardinality(Arrived') ELSE 0]
    BY <1>1 DEF Barrier
  <1>5. ~SyncStarted' =>
          \A t \in Threads : pc'[t] \in MemberPCs => pc'[t] \in Outside \/ (pc'[t] = "woken" /\ phase'[t] = 3)
    BY DEF Barrier
  <1>6. \A t \in Threads : pc'[t] = "clean" =>
          phase'[t] = 3 /\ \A u \in Threads \ {t} : pc'[u] \in MemberPCs => pc'[u] = "wait"
    BY DEF Barrier
  <1>7. \A t \in Threads : pc'[t] = "reset" =>
          phase'[t] = 3 /\ \A u \in Threads \ {t} : pc'[u] \in MemberPCs => pc'[u] = "woken" /\ phase'[u] = 3
    BY DEF Barrier
  <1> QED
    BY <1>3, <1>4, <1>5, <1>6, <1>7 DEF Barrier

\* Who arrives is counted, and is the last one exactly if all the others wait.
LEMMA LastArrival ==
  ASSUME Types, Accounting, NEW K \in Phases, Barrier(K), NEW t \in Threads, pc[t] = "arrive"
  PROVE  /\ phase[t] = K /\ count[K] = Cardinality(Arrived)
         /\ Cardinality(Arrived \cup {t}) = count[K] + 1
         /\ count[K] + 1 <= ReadyToSyncCount
         /\ count[K] + 1 = ReadyToSyncCount =>
              \A u \in Threads \ {t} : pc[u] \in MemberPCs => pc[u] \in {"wait", "clean"}
  <1> USE DEF MemberPCs, Inside, Outside
  <1>1. phase[t] = K /\ count[K] = Cardinality(Arrived)
    BY DEF Barrier, Zone
  <1>2. Members = {u \in Threads : pc[u] \in MemberPCs}
    BY DEF Members
  <1>3. Arrived \subseteq Members /\ t \in Members /\ t \notin Arrived
    BY <1>2 DEF Arrived
  <1>4. IsFiniteSet(Arrived) /\ Cardinality(Arrived) \in Nat
    BY <1>3, SetsFinite, FS_Subset, FS_CardinalityType
  <1>5. Cardinality(Arrived \cup {t}) = Cardinality(Arrived) + 1
    BY <1>3, <1>4, FS_AddElement
  <1>6. Arrived \cup {t} \subseteq Members
    BY <1>3
  <1>7. /\ Cardinality(Arrived \cup {t}) <= Cardinality(Members)
        /\ Cardinality(Arrived \cup {t}) = Cardinality(Members) => Arrived \cup {t} = Members
    BY <1>6, SetsFinite, FS_Subset
  <1>8. ReadyToSyncCount = Cardinality(Members)
    BY DEF Accounting
  <1>9. Arrived \cup {t} = Members =>
          \A u \in Threads \ {t} : pc[u] \in MemberPCs => pc[u] \in {"wait", "clean"}
    BY <1>2 DEF Arrived
  <1> QED
    BY <1>1, <1>5, <1>7, <1>8, <1>9

\* A thread arrives and waits.
LEMMA WaitStep ==
  ASSUME Types, Accounting, NEW K \in Phases, Barrier(K), NEW t \in Threads, Arrive(t),
         Incomplete(count[phase[t]] + 1)
  PROVE  Barrier(K)'
  <1> USE DEF Types, MemberPCs, Inside, Outside
  <1>1. /\ pc[t] = "arrive" /\ SyncThreadsFree /\ pc' = [pc EXCEPT ![t] = "wait"]
        /\ count' = [count EXCEPT ![phase[t]] = count[phase[t]] + 1]
        /\ phase' = phase /\ SyncStarted' = SyncStarted
    BY DEF Arrive, gate
  <1>2. phase[t] = K /\ Cardinality(Arrived \cup {t}) = count[K] + 1
    BY <1>1, LastArrival
  <1>3. Arrived' = Arrived \cup {t}
    BY <1>1 DEF Arrived
  <1>4. count' = [k \in Phases |-> IF k = K THEN Cardinality(Arrived') ELSE 0]
    BY <1>1, <1>2, <1>3 DEF Barrier
  <1>5. \A u \in Threads : pc'[u] \in MemberPCs => Zone(u)' = K
    BY <1>1, <1>2 DEF Barrier, Zone
  <1>6. \A u \in Threads : pc'[u] \notin {"clean", "reset"}
    BY <1>1 DEF SyncThreadsFree, Held
  <1>7. SyncStarted'
    BY <1>1 DEF Barrier
  <1> QED
    BY <1>4, <1>5, <1>6, <1>7 DEF Barrier

\* The last one arrives at the first or second barrier and opens it.
LEMMA OpenStep ==
  ASSUME Types, Accounting, NEW K \in Phases, Barrier(K), NEW t \in Threads, Arrive(t),
         ~Incomplete(count[phase[t]] + 1), K # 3
  PROVE  /\ Barrier(K + 1)'
         /\ \A u \in Threads : pc[u] \in MemberPCs =>
              /\ pc[u] \in {"arrive", "wait"}
              /\ pc'[u] = "work" \/ (pc'[u] = "woken" /\ phase'[u] = K)
         /\ \A u \in Threads : pc[u] \notin MemberPCs => pc'[u] = pc[u]
  <1> USE DEF Types, MemberPCs, Inside, Outside, Phases
  <1>1. pc[t] = "arrive" /\ SyncThreadsFree /\ SyncStarted' = SyncStarted
        /\ Pass(t, count[phase[t]] + 1)
    BY DEF Arrive, gate
  <1>2. phase[t] = K /\ count[K] = Cardinality(Arrived) /\ count[K] + 1 <= ReadyToSyncCount
    BY <1>1, LastArrival
  <1>n. count[K] \in Nat
    <2>1. Arrived \subseteq Threads
      BY DEF Arrived
    <2> QED
      BY <1>2, <2>1, FS_Subset, FS_CardinalityType
  <1>3. count[K] + 1 = ReadyToSyncCount
    BY <1>2, <1>n DEF Incomplete
  <1>4. \A u \in Threads \ {t} : pc[u] \in MemberPCs => pc[u] = "wait"
    BY <1>1, <1>3, LastArrival DEF SyncThreadsFree, Held
  <1> DEFINE q == [pc EXCEPT ![t] = "work"]
  <1>5. count' = Reset(count, K) /\ pc' = BroadcastBarrier(q) /\ phase' = [phase EXCEPT ![t] = @ + 1]
    BY <1>1, <1>2, <1>3 DEF Pass
  <1>6. q \in [Threads -> PCs] /\ q[t] = "work" /\ \A u \in Threads \ {t} : q[u] = pc[u]
    BY DEF PCs
  <1> HIDE DEF q
  <1>7. /\ pc'[t] = "work" /\ phase'[t] = K + 1
        /\ \A u \in Threads \ {t} : pc'[u] \in MemberPCs => pc'[u] = "woken" /\ phase'[u] = K
    <2>1. pc'[t] = "work" /\ \A u \in Threads \ {t} : pc[u] = "wait" => pc'[u] = "woken"
      BY <1>5, <1>6, BroadcastBarrierType
    <2>2. \A u \in Threads \ {t} : pc[u] # "wait" => pc'[u] = pc[u]
      BY <1>5, <1>6, BroadcastBarrierType
    <2>3. \A u \in Threads \ {t} : pc[u] = "wait" => phase[u] = K
      BY DEF Barrier, Zone
    <2> QED
      BY <1>2, <1>4, <1>5, <2>1, <2>2, <2>3
  <1>8. Arrived' = {}
    BY <1>7 DEF Arrived
  <1>9. count' = [k \in Phases |-> 0]
    BY <1>5 DEF Reset, Barrier
  <1>10. count' = [k \in Phases |-> IF k = K + 1 THEN Cardinality(Arrived') ELSE 0]
    BY <1>8, <1>9, FS_EmptySet
  <1>11. \A u \in Threads : pc'[u] \in MemberPCs => Zone(u)' = K + 1
    BY <1>7 DEF Zone
  <1>12. SyncStarted'
    BY <1>1 DEF Barrier
  <1>13. \A u \in Threads : pc'[u] \notin {"clean", "reset"}
    BY <1>7
  <1>14. Barrier(K + 1)'
    BY <1>10, <1>11, <1>12, <1>13 DEF Barrier
  <1>15. \A u \in Threads \ {t} : pc[u] # "wait" => pc'[u] = pc[u]
    BY <1>5, <1>6, BroadcastBarrierType
  <1>16. \A u \in Threads \ {t} : pc[u] = "wait" => pc'[u] = "woken"
    BY <1>5, <1>6, BroadcastBarrierType
  <1> QED
    BY <1>1, <1>4, <1>7, <1>14, <1>15, <1>16

\* The last one arrives at the third barrier and goes to clean the lists.
LEMMA CleanerStep ==
  ASSUME Types, Accounting, NEW K \in Phases, Barrier(K), NEW t \in Threads, Arrive(t),
         ~Incomplete(count[phase[t]] + 1), K = 3
  PROVE  Barrier(K)' /\ pc' = [pc EXCEPT ![t] = "clean"] /\ phase' = phase
  <1> USE DEF Types, MemberPCs, Inside, Outside, Phases
  <1>1. pc[t] = "arrive" /\ SyncThreadsFree /\ SyncStarted' = SyncStarted
        /\ Pass(t, count[phase[t]] + 1)
    BY DEF Arrive, gate
  <1>2. /\ phase[t] = K /\ count[K] = Cardinality(Arrived) /\ count[K] + 1 <= ReadyToSyncCount
        /\ Cardinality(Arrived \cup {t}) = count[K] + 1
    BY <1>1, LastArrival
  <1>n. count[K] \in Nat
    <2>1. Arrived \subseteq Threads
      BY DEF Arrived
    <2> QED
      BY <1>2, <2>1, FS_Subset, FS_CardinalityType
  <1>3. count[K] + 1 = ReadyToSyncCount
    BY <1>2, <1>n DEF Incomplete
  <1>4. \A u \in Threads \ {t} : pc[u] \in MemberPCs => pc[u] = "wait"
    BY <1>1, <1>3, LastArrival DEF SyncThreadsFree, Held
  <1>5. /\ pc' = [pc EXCEPT ![t] = "clean"] /\ phase' = phase
        /\ count' = [count EXCEPT ![3] = count[K] + 1]
    BY <1>1, <1>2, <1>3 DEF Pass
  <1>6. Arrived' = Arrived \cup {t}
    BY <1>5 DEF Arrived
  <1>7. count' = [k \in Phases |-> IF k = K THEN Cardinality(Arrived') ELSE 0]
    <2>1. count' = [count EXCEPT ![K] = Cardinality(Arrived')] /\ K \in Phases
      BY <1>2, <1>5, <1>6
    <2> QED
      BY <2>1 DEF Barrier
  <1>8. \A u \in Threads : pc'[u] \in MemberPCs => Zone(u)' = K
    BY <1>2, <1>5 DEF Barrier, Zone
  <1>9. SyncStarted'
    BY <1>1 DEF Barrier
  <1>10. pc'[t] = "clean" /\ phase'[t] = 3 /\ \A u \in Threads \ {t} : pc'[u] = pc[u]
    BY <1>2, <1>5
  <1>11. \A u \in Threads : pc'[u] = "clean" => u = t
    BY <1>1, <1>10 DEF SyncThreadsFree, Held
  <1>12. \A u \in Threads : pc'[u] # "reset"
    BY <1>1, <1>10 DEF SyncThreadsFree, Held
  <1>13. Barrier(K)'
    BY <1>4, <1>7, <1>8, <1>9, <1>10, <1>11, <1>12 DEF Barrier
  <1> QED
    BY <1>5, <1>13

\* A woken thread leaves a barrier that has been reset.
LEMMA LeaveStep ==
  ASSUME Types, Accounting, NEW K \in Phases, Barrier(K), NEW t \in Threads, Leave(t)
  PROVE  /\ Barrier(K)'
         /\ \/ phase[t] # 3 /\ pc' = [pc EXCEPT ![t] = "work"] /\ phase' = [phase EXCEPT ![t] = @ + 1]
            \/ phase[t] = 3 /\ pc' = [pc EXCEPT ![t] = "gate"] /\ phase' = phase
  <1> USE DEF Types, MemberPCs, Inside, Outside, Phases
  <1>1. pc[t] = "woken" /\ SyncThreadsFree /\ SyncStarted' = SyncStarted /\ Pass(t, count[phase[t]])
    BY DEF Leave, gate
  <1>2. K = (IF phase[t] = 3 THEN 1 ELSE phase[t] + 1) /\ phase[t] \in Phases
    BY <1>1 DEF Barrier, Zone
  <1>3. phase[t] # K /\ count[phase[t]] = 0
    BY <1>2 DEF Barrier
  <1>4. ReadyToSyncCount # 0
    <2>1. t \in Members
      BY <1>1 DEF Members
    <2> QED
      BY <2>1, SetsFinite, FS_EmptySet DEF Accounting
  <1>5. Proceed(t) /\ count' = [count EXCEPT ![phase[t]] = 0]
    BY <1>1, <1>3, <1>4 DEF Pass
  <1>6. count' = count
    BY <1>3, <1>5 DEF Barrier
  <1>7. \/ phase[t] < 3 /\ pc' = [pc EXCEPT ![t] = "work"] /\ phase' = [phase EXCEPT ![t] = @ + 1]
        \/ phase[t] = 3 /\ pc' = [pc EXCEPT ![t] = "gate"] /\ phase' = phase
    BY <1>2, <1>5 DEF Proceed
  <1>8. Arrived' = Arrived
    BY <1>1, <1>7 DEF Arrived
  <1>9. count' = [k \in Phases |-> IF k = K THEN Cardinality(Arrived') ELSE 0]
    BY <1>6, <1>8 DEF Barrier
  <1>10. \A u \in Threads : pc'[u] \in MemberPCs => Zone(u)' = K
    <2>1. Zone(t)' = K
      BY <1>2, <1>7 DEF Zone
    <2>2. \A u \in Threads \ {t} : pc'[u] = pc[u] /\ phase'[u] = phase[u]
      BY <1>7
    <2> QED
      BY <2>1, <2>2 DEF Barrier, Zone
  <1>11. ~SyncStarted' =>
          \A u \in Threads : pc'[u] \in MemberPCs => pc'[u] \in Outside \/ (pc'[u] = "woken" /\ phase'[u] = 3)
    BY <1>1, <1>7 DEF Barrier
  <1>12. \A u \in Threads : pc'[u] \notin {"clean", "reset"}
    BY <1>1, <1>7 DEF SyncThreadsFree, Held
  <1>13. Barrier(K)'
    BY <1>9, <1>10, <1>11, <1>12 DEF Barrier
  <1> QED
    BY <1>7, <1>13

\* The cleaner resets the third barrier and wakes all the others.
LEMMA CleanStep ==
  ASSUME Types, NEW K \in Phases, Barrier(K), NEW t \in Threads, CleanLists(t)
  PROVE  /\ K = 3 /\ Barrier(1)'
         /\ \A u \in Threads : pc[u] \in MemberPCs =>
              /\ pc[u] \in {"clean", "wait"}
              /\ pc'[u] = "reset" \/ (pc'[u] = "woken" /\ phase'[u] = 3)
         /\ \A u \in Threads : pc[u] \notin MemberPCs => pc'[u] = pc[u]
  <1> USE DEF Types, MemberPCs, Inside, Outside, Phases
  <1> DEFINE q == [pc EXCEPT ![t] = "reset"]
  <1>1. /\ pc[t] = "clean" /\ count' = Reset(count, 3) /\ pc' = BroadcastBarrier(q)
        /\ phase' = phase /\ SyncStarted' = SyncStarted
    BY DEF CleanLists, gate
  <1>2. K = 3 /\ phase[t] = 3 /\ \A u \in Threads \ {t} : pc[u] \in MemberPCs => pc[u] = "wait"
    BY <1>1 DEF Barrier, Zone
  <1>3. q \in [Threads -> PCs] /\ q[t] = "reset" /\ \A u \in Threads \ {t} : q[u] = pc[u]
    BY DEF PCs
  <1> HIDE DEF q
  <1>4. /\ pc'[t] = "reset" /\ \A u \in Threads \ {t} : pc[u] = "wait" => pc'[u] = "woken"
        /\ \A u \in Threads \ {t} : pc[u] # "wait" => pc'[u] = pc[u]
    BY <1>1, <1>3, BroadcastBarrierType
  <1>5. \A u \in Threads \ {t} : pc[u] = "wait" => phase[u] = 3
    BY <1>2 DEF Barrier, Zone
  <1>6. \A u \in Threads \ {t} : pc'[u] \in MemberPCs => pc'[u] = "woken" /\ phase'[u] = 3
    BY <1>1, <1>2, <1>4, <1>5
  <1>7. Arrived' = {}
    BY <1>4, <1>6 DEF Arrived
  <1>8. count' = [k \in Phases |-> 0]
    BY <1>1, <1>2 DEF Reset, Barrier
  <1>9. count' = [k \in Phases |-> IF k = 1 THEN Cardinality(Arrived') ELSE 0]
    BY <1>7, <1>8, FS_EmptySet
  <1>10. \A u \in Threads : pc'[u] \in MemberPCs => Zone(u)' = 1
    BY <1>1, <1>2, <1>4, <1>6 DEF Zone
  <1>11. SyncStarted'
    BY <1>1 DEF Barrier
  <1>12. \A u \in Threads : pc'[u] = "reset" =>
          phase'[u] = 3 /\ \A v \in Threads \ {u} : pc'[v] \in MemberPCs => pc'[v] = "woken" /\ phase'[v] = 3
    BY <1>1, <1>2, <1>4, <1>6
  <1>13. \A u \in Threads : pc'[u] # "clean"
    BY <1>4, <1>6
  <1>14. Barrier(1)'
    BY <1>9, <1>10, <1>11, <1>12, <1>13 DEF Barrier
  <1> QED
    BY <1>1, <1>2, <1>4, <1>5, <1>14

\* The cleaner ends the round.
LEMMA EndRoundStep ==
  ASSUME Types, NEW K \in Phases, Barrier(K), NEW t \in Threads, EndRound(t)
  PROVE  Barrier(K)'
  <1> USE DEF Types, MemberPCs, Inside, Outside, Phases
  <1> DEFINE q == [pc EXCEPT ![t] = "gate"]
  <1>1. pc[t] = "reset" /\ count' = count /\ pc' = BroadcastGate(q) /\ phase' = phase
    BY DEF EndRound
  <1>2. K = 1 /\ phase[t] = 3
        /\ \A u \in Threads \ {t} : pc[u] \in MemberPCs => pc[u] = "woken" /\ phase[u] = 3
    BY <1>1 DEF Barrier, Zone
  <1>3. q \in [Threads -> PCs] /\ q[t] = "gate" /\ \A u \in Threads \ {t} : q[u] = pc[u]
    BY DEF PCs
  <1> HIDE DEF q
  <1>4. /\ pc'[t] = "gate"
        /\ \A u \in Threads \ {t} : pc[u] \in MemberPCs => pc'[u] = pc[u]
        /\ \A u \in Threads \ {t} : pc[u] \notin MemberPCs => pc'[u] \notin MemberPCs
    BY <1>1, <1>2, <1>3, BroadcastGateType
  <1>5. \A u \in Threads \ {t} : pc'[u] \in MemberPCs => pc'[u] = "woken" /\ phase'[u] = 3
    BY <1>1, <1>2, <1>4
  <1>6. Arrived' = {} /\ Arrived = {}
    BY <1>1, <1>2, <1>4, <1>5 DEF Arrived
  <1>7. count' = [k \in Phases |-> IF k = K THEN Cardinality(Arrived') ELSE 0]
    BY <1>1, <1>6 DEF Barrier
  <1>8. \A u \in Threads : pc'[u] \in MemberPCs => Zone(u)' = K
    BY <1>2, <1>4, <1>5 DEF Zone
  <1>9. \A u \in Threads : pc'[u] \notin {"clean", "reset"}
    BY <1>4, <1>5
  <1> QED
    BY <1>4, <1>5, <1>7, <1>8, <1>9 DEF Barrier

\* A member tests the gate.
LEMMA StartStep ==
  ASSUME Types, NEW K \in Phases, Barrier(K), NEW t \in Threads, StartRound(t)
  PROVE  Barrier(K)'
  <1> USE DEF Types, MemberPCs, Inside, Outside, Phases
  <1>1. pc[t] = "gate" /\ count' = count
    BY DEF StartRound
  <1>2. K = 1
    BY <1>1 DEF Barrier, Zone
  <1>3. \A u \in Threads : pc[u] \notin {"clean", "reset"}
    BY <1>1 DEF Barrier
  <1>4. CASE MayStart
    <2>1. /\ pc' = [pc EXCEPT ![t] = "work"] /\ phase' = [phase EXCEPT ![t] = 1]
          /\ SyncStarted' = TRUE
      BY <1>4 DEF StartRound
    <2>2. Arrived' = Arrived
      BY <1>1, <2>1 DEF Arrived
    <2>3. count' = [k \in Phases |-> IF k = K THEN Cardinality(Arrived') ELSE 0]
      BY <1>1, <2>2 DEF Barrier
    <2>4. \A u \in Threads : pc'[u] \in MemberPCs => Zone(u)' = K
      <3>1. Zone(t)' = K
        BY <1>2, <2>1 DEF Zone
      <3>2. \A u \in Threads \ {t} : pc'[u] = pc[u] /\ phase'[u] = phase[u]
        BY <2>1
      <3> QED
        BY <3>1, <3>2 DEF Barrier, Zone
    <2>5. \A u \in Threads : pc'[u] \notin {"clean", "reset"}
      BY <1>3, <2>1
    <2> QED
      BY <2>1, <2>3, <2>4, <2>5 DEF Barrier
  <1>5. CASE ~MayStart
    <2>1. /\ pc' = [BroadcastGate(pc) EXCEPT ![t] = "gate_wait"]
          /\ phase' = phase /\ SyncStarted' = SyncStarted
      BY <1>5 DEF StartRound
    <2>2. BroadcastGate(pc) \in [Threads -> PCs]
      BY BroadcastGateType
    <2>3. pc' \in [Threads -> PCs] /\ pc'[t] = "gate_wait"
          /\ \A u \in Threads \ {t} : pc'[u] = BroadcastGate(pc)[u]
      BY <2>1, <2>2 DEF PCs
    <2>4. \A u \in Threads :
            \/ pc'[u] = pc[u]
            \/ pc[u] \notin MemberPCs /\ pc'[u] \notin MemberPCs
            \/ pc[u] \in Outside /\ pc'[u] \in Outside
      BY <1>1, <2>3, BroadcastGateType
    <2> QED
      BY <1>1, <2>1, <2>3, <2>4, QuietStep
  <1> QED
    BY <1>4, <1>5

\* A thread that has let its client in becomes a member when no round is under way.
LEMMA JoinStep ==
  ASSUME Types, GateClosed, NEW K \in Phases, Barrier(K), NEW t \in Threads, UncountRequest(t)
  PROVE  Barrier(1)'
  <1> USE DEF Types, MemberPCs, Inside, Outside, Phases
  <1>1. /\ pc[t] = "dec" /\ pc' = [pc EXCEPT ![t] = "tell"]
        /\ count' = count /\ phase' = phase
    BY DEF UncountRequest, Goto
  <1>2. ~SyncStarted /\ ~SyncStarted'
    BY <1>1 DEF GateClosed, Held, UncountRequest
  <1>3. \A u \in Threads : pc[u] \in MemberPCs => pc[u] \in Outside \/ (pc[u] = "woken" /\ phase[u] = 3)
    BY <1>2 DEF Barrier
  <1>4. \A u \in Threads : pc'[u] \in MemberPCs => pc'[u] \in Outside \/ (pc'[u] = "woken" /\ phase'[u] = 3)
    BY <1>1, <1>3
  <1>5. Arrived = {} /\ Arrived' = {}
    BY <1>3, <1>4 DEF Arrived
  <1>6. count' = [k \in Phases |-> 0]
    BY <1>1, <1>5, FS_EmptySet DEF Barrier
  <1>7. count' = [k \in Phases |-> IF k = 1 THEN Cardinality(Arrived') ELSE 0]
    BY <1>5, <1>6, FS_EmptySet
  <1>8. \A u \in Threads : pc'[u] \in MemberPCs => Zone(u)' = 1
    BY <1>4 DEF Zone
  <1>9. \A u \in Threads : pc'[u] \notin {"clean", "reset"}
    BY <1>4
  <1> QED
    BY <1>4, <1>7, <1>8, <1>9 DEF Barrier

\* The steps of clients and of phases, which the barriers do not see.
LEMMA ClientSteps ==
  ASSUME Types, NEW K \in Phases, Barrier(K),
         \/ Accept \/ CountRequest \/ SignalFdReady \/ UNCHANGED vars
         \/ \E t \in Threads :
              \/ FetchClient(t) \/ Connect(t) \/ EndConnection(t) \/ TellConnected(t)
              \/ Work(t) \/ ServeClient(t) \/ EndServe(t)
  PROVE  Barrier(K)'
  <1> USE DEF Types, MemberPCs, Inside, Outside, Goto
  <1> DEFINE Frame == count' = count /\ phase' = phase /\ SyncStarted' = SyncStarted
  <1> DEFINE Quiet ==
        /\ pc' \in [Threads -> PCs]
        /\ \A u \in Threads :
             \/ pc'[u] = pc[u]
             \/ pc[u] \notin MemberPCs /\ pc'[u] \notin MemberPCs
             \/ pc[u] \in Outside /\ pc'[u] \in Outside
             \/ pc[u] \in Inside /\ pc'[u] \in Inside
  <1>1. Frame
    BY DEF Accept, CountRequest, SignalFdReady, FetchClient, Connect, EndConnection,
           TellConnected, Work, ServeClient, EndServe, gate, requests, vars
  <1>2. CASE Accept \/ CountRequest \/ UNCHANGED vars
    BY <1>1, <1>2, QuietStep DEF Accept, CountRequest, vars
  <1>3. CASE SignalFdReady
    <2>1. Quiet
      BY <1>3 DEF SignalFdReady, PCs
    <2> QED
      BY <1>1, <2>1, QuietStep
  <1>4. ASSUME NEW t \in Threads, FetchClient(t) \/ Connect(t) \/ EndConnection(t)
        PROVE  Barrier(K)'
    <2>1. Quiet
      BY <1>4 DEF FetchClient, Connect, EndConnection, PCs
    <2> QED
      BY <1>1, <2>1, QuietStep
  <1>5. ASSUME NEW t \in Threads, Work(t) \/ ServeClient(t) \/ EndServe(t)
        PROVE  Barrier(K)'
    <2>1. Quiet
      BY <1>5 DEF Work, ServeClient, EndServe, PCs
    <2> QED
      BY <1>1, <2>1, QuietStep
  <1>6. ASSUME NEW t \in Threads, TellConnected(t) PROVE Barrier(K)'
    <2> DEFINE q == [pc EXCEPT ![t] = "gate"]
    <2>1. q \in [Threads -> PCs] /\ q[t] = "gate" /\ \A u \in Threads \ {t} : q[u] = pc[u]
      BY DEF PCs
    <2>2. pc' = BroadcastGate(q) /\ pc[t] = "tell"
      BY <1>6 DEF TellConnected
    <2> HIDE DEF q
    <2>3. Quiet
      BY <2>1, <2>2, BroadcastGateType
    <2> QED
      BY <1>1, <2>3, QuietStep
  <1> QED
    BY <1>2, <1>3, <1>4, <1>5, <1>6

-----------------------------------------------------------------------------
(* The invariant of the barriers, and what it gives. *)

BarrierInd == spurious \in Nat /\ BarrierInv

\* The first phase is the one to come, and nobody has arrived.
LEMMA BarrierInit == Init => BarrierInd
  <1> SUFFICES ASSUME Init PROVE BarrierInd
    OBVIOUS
  <1>1. \A t \in Threads : pc[t] = "fetch"
    BY DEF Init
  <1>2. Arrived = {}
    BY <1>1 DEF Arrived
  <1>3. count = [k \in Phases |-> IF k = 1 THEN Cardinality(Arrived) ELSE 0]
    BY <1>2, FS_EmptySet DEF Init
  <1>4. Barrier(1) /\ 1 \in Phases
    BY <1>1, <1>3 DEF Barrier, MemberPCs, Phases
  <1> QED
    BY <1>4 DEF BarrierInd, BarrierInv, Init

\* Without a spurious wakeup no thread gets ahead of a barrier or misses it.
LEMMA BarrierStep ==
  ASSUME Types, GateClosed, Accounting, BarrierInd, [Next]_vars
  PROVE  BarrierInd'
  <1>1. \/ spurious' = spurious
        \/ spurious' = spurious + 1 /\ \E t \in Threads : SpuriousWakeup(t)
    BY DEF Next, Main, Step, Accept, CountRequest, SignalFdReady, FetchClient, Connect,
           EndConnection, UncountRequest, TellConnected, StartRound, Work, ServeClient,
           EndServe, Arrive, Leave, SpuriousWakeup, CleanLists, EndRound, vars
  <1>2. spurious' \in Nat /\ (spurious' = 0 => spurious = 0 /\ \A t \in Threads : ~SpuriousWakeup(t))
    BY <1>1 DEF BarrierInd, SpuriousWakeup
  <1>3. SUFFICES ASSUME spurious = 0, \A t \in Threads : ~SpuriousWakeup(t)
                 PROVE  \E L \in Phases : Barrier(L)'
    BY <1>2 DEF BarrierInd, BarrierInv
  <1>4. PICK K \in Phases : Barrier(K)
    BY <1>3 DEF BarrierInd, BarrierInv
  <1>5. 1 \in Phases /\ (K # 3 => K + 1 \in Phases)
    BY DEF Phases
  <1>6. CASE \/ Accept \/ CountRequest \/ SignalFdReady \/ UNCHANGED vars
             \/ \E t \in Threads :
                  \/ FetchClient(t) \/ Connect(t) \/ EndConnection(t) \/ TellConnected(t)
                  \/ Work(t) \/ ServeClient(t) \/ EndServe(t)
    BY <1>4, <1>6, ClientSteps
  <1>7. ASSUME NEW t \in Threads, UncountRequest(t) \/ CleanLists(t)
        PROVE  \E L \in Phases : Barrier(L)'
    BY <1>4, <1>5, <1>7, JoinStep, CleanStep
  <1>8. ASSUME NEW t \in Threads, StartRound(t) \/ Leave(t) \/ EndRound(t)
        PROVE  \E L \in Phases : Barrier(L)'
    BY <1>4, <1>8, StartStep, LeaveStep, EndRoundStep
  <1>9. ASSUME NEW t \in Threads, Arrive(t) PROVE \E L \in Phases : Barrier(L)'
    <2>1. CASE Incomplete(count[phase[t]] + 1)
      BY <1>4, <1>9, <2>1, WaitStep
    <2>2. CASE ~Incomplete(count[phase[t]] + 1) /\ K # 3
      BY <1>4, <1>5, <1>9, <2>2, OpenStep
    <2>3. CASE ~Incomplete(count[phase[t]] + 1) /\ K = 3
      BY <1>4, <1>9, <2>3, CleanerStep
    <2> QED
      BY <2>1, <2>2, <2>3
  <1> QED
    BY <1>3, <1>6, <1>7, <1>8, <1>9 DEF Next, Main, Step

\* The four parts of the invariant hold together.
LEMMA BarrierInvariant == Spec => [](Types /\ GateClosed /\ Accounting /\ BarrierInd)
  <1>1. Types /\ GateClosed /\ Accounting /\ BarrierInd /\ [Next]_vars
          => (Types /\ GateClosed /\ Accounting /\ BarrierInd)'
    BY TypesStep, GateStep, AccountingStep, BarrierStep
  <1>2. Init => Types /\ GateClosed /\ Accounting /\ BarrierInd
    BY TypesInit, AccountingInit, BarrierInit
  <1> QED
    BY <1>1, <1>2, PTL DEF Spec

\* ConnectAlone: a client is synchronised alone (svfunctions.h 45-46, 72, 101),
\* for every size of the pool.
THEOREM ClientsConnectAlone == Spec => []ConnectAlone
  <1>1. Types /\ GateClosed /\ BarrierInd => ConnectAlone
    BY DEF GateClosed, Held, BarrierInd, BarrierInv, Barrier, ConnectAlone, InRound, Members,
           MemberPCs, Outside
  <1> QED
    BY <1>1, BarrierInvariant, PTL

\* PhasesSeparate: the phases of a round do not overlap (svfunctions.h 146-215).
THEOREM PhasesAreSeparate == Spec => []PhasesSeparate
  <1>1. BarrierInd => PhasesSeparate
    <2> SUFFICES ASSUME BarrierInd, spurious = 0, NEW k \in Phases, NEW j \in Phases \ {k},
                        NEW t \in Busy(k), NEW u \in Busy(j)
                 PROVE  FALSE
      BY DEF PhasesSeparate
    <2>1. PICK K \in Phases : Barrier(K)
      BY DEF BarrierInd, BarrierInv
    <2>2. Zone(t) = k /\ Zone(u) = j /\ pc[t] \in MemberPCs /\ pc[u] \in MemberPCs
          /\ t \in Threads /\ u \in Threads
      BY DEF Busy, Members, Zone, Inside, MemberPCs
    <2>3. Zone(t) = K /\ Zone(u) = K
      BY <2>1, <2>2 DEF Barrier
    <2> QED
      BY <2>2, <2>3
  <1> QED
    BY <1>1, BarrierInvariant, PTL

\* CleanedAlone: the lists are cleaned while all the others wait at the third
\* barrier, and no count of an earlier round is left over (svfunctions.h 196-229).
THEOREM ListsCleanedAlone == Spec => []CleanedAlone
  <1>1. Types /\ BarrierInd => CleanedAlone
    <2> SUFFICES ASSUME Types, BarrierInd, spurious = 0, NEW t \in Threads, pc[t] = "clean"
                 PROVE  /\ Waiting(3) = Members \ {t}
                        /\ count[3] = Cardinality(Members) /\ count[1] = 0 /\ count[2] = 0
      BY DEF CleanedAlone
    <2>1. PICK K \in Phases : Barrier(K)
      BY DEF BarrierInd, BarrierInv
    <2>2. K = 3 /\ \A u \in Threads \ {t} : pc[u] \in MemberPCs => pc[u] = "wait" /\ phase[u] = 3
      BY <2>1 DEF Barrier, Zone, Inside, MemberPCs
    <2>3. Members = {u \in Threads : pc[u] \in MemberPCs}
      BY DEF Members, MemberPCs
    <2>4. Waiting(3) = Members \ {t}
      BY <2>2, <2>3 DEF Waiting, MemberPCs
    <2>5. Arrived = Members
      BY <2>2, <2>3 DEF Arrived, MemberPCs
    <2>6. count = [k \in Phases |-> IF k = 3 THEN Cardinality(Members) ELSE 0]
      BY <2>1, <2>2, <2>5 DEF Barrier
    <2> QED
      BY <2>4, <2>6 DEF Phases
  <1> QED
    BY <1>1, BarrierInvariant, PTL

-----------------------------------------------------------------------------
(* The type invariant.  The counters of the clients fit the pool because    *)
(* main accepts nobody when it is full; the counts of the barriers fit it,  *)
(* spurious wakeups or not, because the last to arrive resets them, with    *)
(* Mutex_sync_threads held all the while.                                   *)

Registers ==
  /\ reg \in [Threads -> Int] /\ mainReg \in Int /\ ConnectionRequests \in Int
  /\ spurious \in 0..MaxSpurious

PoolBound == Accepted <= POOL_SIZE

CountBound ==
  /\ count \in [Phases -> Nat]
  /\ \A k \in Phases :
       \/ count[k] = 0
       \/ count[k] < ReadyToSyncCount
       \/ count[k] = count[3] /\ count[3] <= ReadyToSyncCount /\ Held({"clean"}) /\ k = 3

\* The bounds hold at the start.
LEMMA BoundsInit == Init => Registers /\ PoolBound /\ CountBound
  <1> SUFFICES ASSUME Init PROVE Registers /\ PoolBound /\ CountBound
    OBVIOUS
  <1>1. Registers
    BY DEF Init, Registers
  <1>2. PoolBound
    BY FS_CardinalityType DEF Init, PoolBound, Accepted, POOL_SIZE
  <1>3. CountBound
    BY DEF Init, CountBound
  <1> QED
    BY <1>1, <1>2, <1>3

\* The values that threads have read are numbers, and spurious wakeups are bounded.
LEMMA RegistersStep ==
  ASSUME Types, Registers, [Next]_vars
  PROVE  Registers'
  <1> USE DEF Registers
  <1>1. CASE Accept \/ CountRequest \/ SignalFdReady \/ UNCHANGED vars
    BY <1>1 DEF Types, Accept, CountRequest, SignalFdReady, vars, requests
  <1>2. ASSUME NEW t \in Threads, FetchClient(t) \/ Connect(t) PROVE Registers'
    BY <1>2 DEF FetchClient, Connect, requests
  <1>3. ASSUME NEW t \in Threads, EndConnection(t) PROVE Registers'
    BY <1>3 DEF EndConnection, requests
  <1>4. ASSUME NEW t \in Threads, UncountRequest(t) PROVE Registers'
    BY <1>4 DEF UncountRequest
  <1>5. ASSUME NEW t \in Threads, RoundStep(t) PROVE Registers'
    <2>1. CASE SpuriousWakeup(t)
      BY <1>5, <2>1 DEF SpuriousWakeup, requests
    <2>2. CASE ~SpuriousWakeup(t)
      BY <1>5, <2>2 DEF RoundStep, StartRound, Work, ServeClient, EndServe, Arrive, Leave,
         CleanLists, EndRound, TellConnected, requests
    <2> QED
      BY <2>1, <2>2
  <1> QED
    BY <1>1, <1>2, <1>3, <1>4, <1>5, NextSteps

\* A thread serves one client.
LEMMA PoolStep ==
  ASSUME Types, PoolBound, [Next]_vars
  PROVE  PoolBound'
  <1> USE DEF PoolBound, Accepted, Types
  <1>0. POOL_SIZE \in Nat
    BY FS_CardinalityType DEF POOL_SIZE
  <1>1. CASE Accept
    BY <1>0, <1>1 DEF Accept
  <1>2. CASE CountRequest
    BY <1>2 DEF CountRequest
  <1>3. CASE SignalFdReady
    BY <1>3 DEF SignalFdReady
  <1>4. CASE UNCHANGED vars
    BY <1>4 DEF vars, requests
  <1>5. ASSUME NEW t \in Threads,
               FetchClient(t) \/ Connect(t) \/ EndConnection(t) \/ UncountRequest(t)
        PROVE  PoolBound'
    BY <1>5 DEF FetchClient, Connect, EndConnection, UncountRequest, requests
  <1>6. ASSUME NEW t \in Threads, RoundStep(t) PROVE PoolBound'
    BY <1>6, RoundFrames DEF RoundFrame
  <1> QED
    BY <1>1, <1>2, <1>3, <1>4, <1>5, <1>6, NextSteps

\* What is done at a barrier keeps its count below the number of the members.
LEMMA PassBound ==
  ASSUME Types, CountBound, NEW t \in Threads, pc[t] # "clean", NEW c \in Nat,
         c <= ReadyToSyncCount, Pass(t, c), ReadyToSyncCount' = ReadyToSyncCount,
         SyncThreadsFree
  PROVE  CountBound'
  <1> USE DEF Types, CountBound, Phases, Held
  <1>1. \A k \in Phases : count[k] = 0 \/ count[k] < ReadyToSyncCount
    BY DEF SyncThreadsFree
  <1>2. CASE c # ReadyToSyncCount
    BY <1>1, <1>2 DEF Pass
  <1>3. CASE c = ReadyToSyncCount /\ phase[t] = 3
    <2>1. pc'[t] = "clean" /\ count' = [count EXCEPT ![3] = c]
      BY <1>3 DEF Pass, PCs
    <2>2. \A k \in Phases : count'[k] = IF k = 3 THEN c ELSE count[k]
      BY <2>1
    <2> QED
      BY <1>1, <1>3, <2>1, <2>2
  <1>4. CASE c = ReadyToSyncCount /\ phase[t] # 3
    BY <1>1, <1>4 DEF Pass, Reset
  <1> QED
    BY <1>2, <1>3, <1>4

\* An arrival counts a member once in a phase.
LEMMA CountBoundStep ==
  ASSUME Types, Accounting, CountBound, [Next]_vars
  PROVE  CountBound'
  <1> USE DEF Types, Goto
  <1>0. Types' /\ ReadyToSyncCount' >= ReadyToSyncCount
    BY TypesStep, MembersStep
  <1>a. ASSUME count' = count, \A t \in Threads : pc[t] = "clean" => pc'[t] = "clean"
        PROVE  CountBound'
    <2>1. Held({"clean"}) => Held({"clean"})'
      BY <1>a DEF Held
    <2> QED
      BY <1>0, <1>a, <2>1 DEF CountBound
  <1>1. CASE Accept \/ CountRequest \/ SignalFdReady \/ UNCHANGED vars
    BY <1>1, <1>a DEF Accept, CountRequest, SignalFdReady, vars
  <1>2. ASSUME NEW t \in Threads,
               \/ FetchClient(t) \/ Connect(t) \/ EndConnection(t) \/ UncountRequest(t)
               \/ Work(t) \/ ServeClient(t) \/ EndServe(t) \/ SpuriousWakeup(t)
        PROVE  CountBound'
    BY <1>2, <1>a DEF FetchClient, Connect, EndConnection, UncountRequest, Work, ServeClient,
       EndServe, SpuriousWakeup
  <1>3. ASSUME NEW t \in Threads, StartRound(t) PROVE CountBound'
    <2>1. pc[t] = "gate" /\ count' = count
      BY <1>3 DEF StartRound
    <2>2. CASE MayStart
      BY <1>3, <1>a, <2>1, <2>2 DEF StartRound
    <2>3. CASE ~MayStart
      <3>1. pc' = [BroadcastGate(pc) EXCEPT ![t] = "gate_wait"]
        BY <1>3, <2>3 DEF StartRound
      <3>2. BroadcastGate(pc) \in [Threads -> PCs]
        BY BroadcastGateType
      <3>3. \A u \in Threads \ {t} : pc'[u] = BroadcastGate(pc)[u]
        BY <3>1, <3>2
      <3> QED
        BY <1>a, <2>1, <3>3, BroadcastGateType
    <2> QED
      BY <2>2, <2>3
  <1>4. ASSUME NEW t \in Threads, EndRound(t) \/ TellConnected(t) PROVE CountBound'
    <2> DEFINE q == [pc EXCEPT ![t] = "gate"]
    <2>1. q \in [Threads -> PCs] /\ \A u \in Threads \ {t} : q[u] = pc[u]
      BY DEF PCs
    <2>2. pc' = BroadcastGate(q) /\ count' = count /\ pc[t] # "clean"
      BY <1>4 DEF EndRound, TellConnected
    <2> HIDE DEF q
    <2> QED
      BY <1>a, <2>1, <2>2, BroadcastGateType
  <1>5. ASSUME NEW t \in Threads, CleanLists(t) PROVE CountBound'
    <2>1. /\ count' = [count EXCEPT ![3] = 0] /\ ReadyToSyncCount' = ReadyToSyncCount
      BY <1>5 DEF CleanLists, Reset, gate
    <2> QED
      BY <2>1 DEF CountBound, Phases
  <1>6. ASSUME NEW t \in Threads, pc[t] \in {"arrive", "woken"}
        PROVE  ReadyToSyncCount # 0
    <2>1. t \in Members
      BY <1>6 DEF Members
    <2> QED
      BY <2>1, SetsFinite, FS_EmptySet DEF Accounting
  <1>7. ASSUME NEW t \in Threads, Arrive(t) PROVE CountBound'
    <2>1. /\ pc[t] = "arrive" /\ SyncThreadsFree /\ ReadyToSyncCount' = ReadyToSyncCount
          /\ phase[t] \in Phases
      BY <1>7 DEF Arrive, gate
    <2>2. count[phase[t]] \in Nat /\ count[phase[t]] + 1 <= ReadyToSyncCount
      BY <1>6, <2>1 DEF CountBound, SyncThreadsFree, Held
    <2>3. CASE Incomplete(count[phase[t]] + 1)
      <3>1. count' = [count EXCEPT ![phase[t]] = count[phase[t]] + 1]
        BY <1>7, <2>3 DEF Arrive
      <3>2. count[phase[t]] + 1 < ReadyToSyncCount
        BY <2>3 DEF Incomplete
      <3>3. \A k \in Phases : count[k] = 0 \/ count[k] < ReadyToSyncCount
        BY <2>1 DEF CountBound, SyncThreadsFree, Held
      <3> QED
        BY <2>1, <2>2, <3>1, <3>2, <3>3 DEF CountBound
    <2>4. CASE ~Incomplete(count[phase[t]] + 1)
      <3>1. Pass(t, count[phase[t]] + 1)
        BY <1>7, <2>4 DEF Arrive
      <3> QED
        BY <2>1, <2>2, <3>1, PassBound
    <2> QED
      BY <2>3, <2>4
  <1>8. ASSUME NEW t \in Threads, Leave(t) PROVE CountBound'
    <2>1. /\ pc[t] = "woken" /\ SyncThreadsFree /\ ReadyToSyncCount' = ReadyToSyncCount
          /\ phase[t] \in Phases /\ Pass(t, count[phase[t]])
      BY <1>8 DEF Leave, gate
    <2>2. count[phase[t]] \in Nat /\ count[phase[t]] <= ReadyToSyncCount
      BY <2>1 DEF CountBound, SyncThreadsFree, Held
    <2> QED
      BY <2>1, <2>2, PassBound
  <1> QED
    BY <1>1, <1>2, <1>3, <1>4, <1>5, <1>7, <1>8 DEF Next, Main, Step

\* TypeOK: the counters of the clients (server.c 107-112) and the counts of the
\* barriers (svfunctions.h 152-236) never exceed the size of the pool.
THEOREM TypeCorrect == Spec => []TypeOK
  <1> DEFINE Inv == Types /\ GateClosed /\ Accounting /\ BarrierInd
             Bounds == Registers /\ PoolBound /\ CountBound
  <1>1. Inv /\ Bounds => TypeOK
    <2> SUFFICES ASSUME Types, Accounting, Bounds PROVE TypeOK
      OBVIOUS
    <2>1. POOL_SIZE \in Nat /\ Cardinality(Members) <= POOL_SIZE
      BY FS_Subset, FS_CardinalityType DEF POOL_SIZE, Members
    <2>2. ReadyToSyncCount \in 0..POOL_SIZE
      BY <2>1 DEF Types, Accounting
    <2>3. queue \in 0..POOL_SIZE /\ ConnectedClientNum \in 0..POOL_SIZE
      BY <2>1, SetsFinite DEF Types, Accounting, PoolBound, Accepted
    <2>4. count \in [Phases -> 0..POOL_SIZE]
      BY <2>1, <2>2 DEF CountBound
    <2> QED
      BY <2>2, <2>3, <2>4 DEF TypeOK, Types, PCs, Registers
  <1>2. Inv /\ Bounds /\ [Next]_vars => Bounds'
    BY RegistersStep, PoolStep, CountBoundStep
  <1>3. Init => Bounds
    BY BoundsInit
  <1>4. Spec => []Inv
    BY BarrierInvariant
  <1> HIDE DEF Inv, Bounds
  <1> QED
    BY <1>1, <1>2, <1>3, <1>4, PTL DEF Spec

-----------------------------------------------------------------------------
(* The threads implement the rounds of module Rounds: the gate, the three    *)
(* counters and the condition variable let a client in alone and keep the    *)
(* phases in step.  The turn of the rounds is the barrier K that all the     *)
(* members are on their way to (BarrierInvariant), so each step is found by  *)
(* following K and the place of every thread through it.                     *)

\* What a place of the rounds says of the locations.
LEMMA Placed ==
  ASSUME NEW t \in Threads, pc[t] \in PCs
  PROVE  /\ RoundPlace(t) \in {"out", "alone", "gate", "work", "done"}
         /\ pc[t] \in MemberPCs <=> RoundPlace(t) \notin {"out", "alone"}
         /\ pc[t] \in {"connecting", "dec"} <=> RoundPlace(t) = "alone"
  BY DEF RoundPlace, PCs, MemberPCs

\* The members that are in a phase, or have passed its barrier.
Going(t) == \/ RoundPlace(t) = "done" \/ pc[t] \in {"work", "serving", "relock"}

\* The turn is the barrier of the members, and the first if there are none.
LEMMA TurnIs ==
  ASSUME Types, NEW K \in Phases, Barrier(K)
  PROVE  /\ (\E t \in Threads : pc[t] \in MemberPCs) => RoundTurn = K
         /\ (\A t \in Threads : pc[t] \notin MemberPCs) => RoundTurn = 1
  <1> USE DEF Types
  <1>1. \A t \in Threads : Going(t) => phase[t] = K /\ pc[t] \in MemberPCs
    BY DEF Going, RoundPlace, Barrier, Zone, Inside, MemberPCs, PCs
  <1>2. \A t \in Threads : pc[t] = "woken" /\ phase[t] # 3 => phase[t] = K - 1
    BY DEF Barrier, Zone, Inside, MemberPCs, Phases
  <1>3. CASE \E t \in Threads : Going(t)
    <2> DEFINE P(k) == \E t \in Threads : phase[t] = k /\ Going(t)
    <2>1. \A k \in Phases : P(k) <=> k = K
      BY <1>1, <1>3
    <2>2. RoundTurn = CHOOSE k \in Phases : P(k)
      BY <1>3 DEF RoundTurn, Going
    <2> HIDE DEF P
    <2>3. (CHOOSE k \in Phases : P(k)) = K
      BY <2>1
    <2> QED
      BY <1>1, <1>3, <2>2, <2>3
  <1>4. CASE (\A t \in Threads : ~Going(t)) /\ \E t \in Threads : pc[t] = "woken" /\ phase[t] # 3
    <2> DEFINE P(k) == \E t \in Threads : pc[t] = "woken" /\ phase[t] = k
    <2>1. \A t \in Threads : pc[t] = "woken" => phase[t] = K - 1
      BY <1>2, <1>4 DEF Barrier, Zone, Inside, MemberPCs, Phases
    <2>2. \A k \in Phases : P(k) <=> k = K - 1
      BY <1>4, <2>1
    <2>3. RoundTurn = (CHOOSE k \in Phases : P(k)) + 1
      BY <1>4 DEF RoundTurn, Going
    <2>4. K - 1 \in Phases
      BY <1>4, <2>1
    <2> HIDE DEF P
    <2>5. (CHOOSE k \in Phases : P(k)) = K - 1
      BY <2>2, <2>4
    <2>6. RoundTurn = (K - 1) + 1
      BY <2>3, <2>5
    <2> QED
      BY <1>4, <2>6 DEF Phases, MemberPCs
  <1>5. CASE (\A t \in Threads : ~Going(t)) /\ \A t \in Threads : pc[t] = "woken" => phase[t] = 3
    <2>1. RoundTurn = 1
      BY <1>5 DEF RoundTurn, Going
    <2>2. \A t \in Threads : pc[t] \in MemberPCs => Zone(t) = 1
      BY <1>5 DEF Going, RoundPlace, Zone, Barrier, MemberPCs, Inside
    <2> QED
      BY <2>1, <2>2 DEF Barrier
  <1> QED
    BY <1>3, <1>4, <1>5

\* The same, to be used of the next state too.
TurnRight(K) ==
  /\ (\E t \in Threads : pc[t] \in MemberPCs) => RoundTurn = K
  /\ (\A t \in Threads : pc[t] \notin MemberPCs) => RoundTurn = 1

\* The turn is right before a step and after it.
LEMMA TurnsRight ==
  ASSUME NEW K \in Phases
  PROVE  /\ Types /\ Barrier(K) => TurnRight(K)
         /\ (Types /\ Barrier(K) => TurnRight(K))'
  <1>1. Types /\ Barrier(K) => TurnRight(K)
    BY TurnIs DEF TurnRight
  <1> QED
    BY <1>1, PTL

\* One thread changes its place.
LEMMA OneMoves ==
  ASSUME NEW t \in Threads, NEW from, NEW to, RoundPlace(t) = from, RoundPlace(t)' = to,
         \A u \in Threads \ {t} : RoundPlace(u)' = RoundPlace(u)
  PROVE  TheRounds!Move(t, from, to)
  BY DEF TheRounds!Move

\* No thread changes its place, and the barrier is the same.
LEMMA Stutters ==
  ASSUME Types, Types', NEW K \in Phases, Barrier(K), Barrier(K)',
         \A u \in Threads : RoundPlace(u)' = RoundPlace(u)
  PROVE  UNCHANGED TheRounds!rounds
  <1>1. \A u \in Threads : pc[u] \in MemberPCs <=> pc'[u] \in MemberPCs
    <2>1. \A u \in Threads : pc[u] \in PCs /\ pc'[u] \in PCs
      BY DEF Types
    <2> QED
      BY <2>1 DEF RoundPlace, PCs, MemberPCs
  <1>2. RoundTurn' = RoundTurn
    BY <1>1, TurnsRight DEF TurnRight
  <1>3. [t \in Threads |-> RoundPlace(t)]' = [t \in Threads |-> RoundPlace(t)]
    OBVIOUS
  <1> QED
    BY <1>2, <1>3 DEF TheRounds!rounds

\* One thread changes its place on the way to the same barrier.
LEMMA MovesOn ==
  ASSUME Types, Types', NEW K \in Phases, Barrier(K), Barrier(K)', NEW t \in Threads,
         NEW from, NEW to, RoundPlace(t) = from, RoundPlace(t)' = to,
         \A u \in Threads \ {t} : RoundPlace(u)' = RoundPlace(u),
         from \in {"out", "alone"} <=> to \in {"out", "alone"}
  PROVE  TheRounds!Move(t, from, to) /\ RoundTurn' = RoundTurn
  <1>1. \A u \in Threads : pc[u] \in MemberPCs <=> pc'[u] \in MemberPCs
    <2>1. \A u \in Threads : pc[u] \in PCs /\ pc'[u] \in PCs
      BY DEF Types
    <2> QED
      BY <2>1 DEF RoundPlace, PCs, MemberPCs
  <1>2. RoundTurn' = RoundTurn
    BY <1>1, TurnsRight DEF TurnRight
  <1> QED
    BY <1>2, OneMoves

-----------------------------------------------------------------------------
(* The steps of the server, as steps of the rounds.                         *)

Implemented == TheRounds!Next \/ UNCHANGED TheRounds!rounds

\* Accepting, fetching, the waits at the gate and the end of a connection
\* change nothing of the rounds; a client is let in when nobody is in a phase.
LEMMA ClientsImplement ==
  ASSUME Types, Types', NEW K \in Phases, Barrier(K), Barrier(K)',
         \/ Accept \/ CountRequest \/ SignalFdReady \/ UNCHANGED vars
         \/ \E t \in Threads :
              FetchClient(t) \/ Connect(t) \/ EndConnection(t) \/ TellConnected(t)
  PROVE  Implemented
  <1> USE DEF Types, Goto, Implemented
  <1> DEFINE Same == \A u \in Threads : RoundPlace(u)' = RoundPlace(u)
  <1>1. CASE Accept \/ CountRequest \/ UNCHANGED vars
    <2>1. Same
      BY <1>1 DEF Accept, CountRequest, vars, RoundPlace
    <2> QED
      BY <2>1, Stutters
  <1>2. CASE SignalFdReady
    <2>1. Same
      BY <1>2 DEF SignalFdReady, RoundPlace
    <2> QED
      BY <2>1, Stutters
  <1>3. ASSUME NEW t \in Threads, FetchClient(t) \/ EndConnection(t) PROVE Implemented
    <2>1. Same
      BY <1>3 DEF FetchClient, EndConnection, RoundPlace
    <2> QED
      BY <2>1, Stutters
  <1>4. ASSUME NEW t \in Threads, Connect(t), ~MayConnect PROVE Implemented
    <2>1. Same
      BY <1>4 DEF Connect, RoundPlace
    <2> QED
      BY <2>1, Stutters
  <1>5. ASSUME NEW t \in Threads, Connect(t), MayConnect PROVE Implemented
    <2>1. /\ pc[t] = "connect" /\ pc' = [pc EXCEPT ![t] = "connecting"] /\ phase' = phase
          /\ ~SyncStarted /\ SyncOrConnectFree
      BY <1>5 DEF Connect, MayConnect
    <2>2. /\ RoundPlace(t) = "out" /\ RoundPlace(t)' = "alone"
          /\ \A u \in Threads \ {t} : RoundPlace(u)' = RoundPlace(u)
      BY <2>1 DEF RoundPlace
    <2>3. TheRounds!Move(t, "out", "alone") /\ RoundTurn' = RoundTurn
      BY <2>2, MovesOn
    <2>4. \A u \in Threads : pc[u] \in MemberPCs => RoundPlace(u) = "gate"
      BY <2>1 DEF Barrier, Outside, RoundPlace
    <2>5. \A u \in Threads : RoundPlace(u) # "alone"
      BY <2>1 DEF SyncOrConnectFree, Held, RoundPlace
    <2>6. \A u \in Threads \ {t} : RoundPlace(u) \in {"out", "gate"}
      BY <2>4, <2>5, Placed
    <2>7. TheRounds!BeginAlone(t)
      BY <2>3, <2>6 DEF TheRounds!BeginAlone
    <2> QED
      BY <2>7 DEF TheRounds!Next
  <1>6. ASSUME NEW t \in Threads, TellConnected(t) PROVE Implemented
    <2> DEFINE q == [pc EXCEPT ![t] = "gate"]
    <2>1. q \in [Threads -> PCs] /\ q[t] = "gate" /\ \A u \in Threads \ {t} : q[u] = pc[u]
      BY DEF PCs
    <2>2. pc' = BroadcastGate(q) /\ pc[t] = "tell" /\ phase' = phase
      BY <1>6 DEF TellConnected
    <2> HIDE DEF q
    <2>3. Same
      BY <2>1, <2>2, BroadcastGateType DEF RoundPlace
    <2> QED
      BY <2>3, Stutters
  <1> QED
    BY <1>1, <1>2, <1>3, <1>4, <1>5, <1>6

\* A thread whose client is in becomes a member between two rounds.
LEMMA JoinImplements ==
  ASSUME Types, Types', GateClosed, NEW K \in Phases, Barrier(K), Barrier(1)',
         NEW t \in Threads, UncountRequest(t)
  PROVE  Implemented
  <1> USE DEF Types, Goto
  <1>1. pc[t] = "dec" /\ pc' = [pc EXCEPT ![t] = "tell"] /\ phase' = phase
    BY DEF UncountRequest
  <1>2. ~SyncStarted
    BY <1>1 DEF GateClosed, Held
  <1>3. \A u \in Threads : pc[u] \in MemberPCs => Zone(u) = 1
    BY <1>2 DEF Barrier, Zone, Inside, Outside
  <1>4. (\E u \in Threads : pc[u] \in MemberPCs) => K = 1
    BY <1>3 DEF Barrier
  <1>5. RoundTurn = 1
    BY <1>4, TurnsRight DEF TurnRight
  <1>6. pc'[t] \in MemberPCs /\ 1 \in Phases
    BY <1>1 DEF MemberPCs, Phases
  <1>7. RoundTurn' = 1
    BY <1>6, TurnsRight DEF TurnRight
  <1>8. /\ RoundPlace(t) = "alone" /\ RoundPlace(t)' = "gate"
        /\ \A u \in Threads \ {t} : RoundPlace(u)' = RoundPlace(u)
    BY <1>1 DEF RoundPlace
  <1>9. TheRounds!EndAlone(t)
    BY <1>5, <1>7, <1>8, OneMoves DEF TheRounds!EndAlone
  <1> QED
    BY <1>9 DEF TheRounds!Next, Implemented

\* A member passes the gate before the first phase, while nobody is alone, or
\* goes to wait there.
LEMMA StartImplements ==
  ASSUME Types, Types', NEW K \in Phases, Barrier(K), Barrier(K)',
         NEW t \in Threads, StartRound(t)
  PROVE  Implemented
  <1> USE DEF Types, Implemented
  <1>1. pc[t] = "gate" /\ SyncOrConnectFree
    BY DEF StartRound
  <1>2. CASE MayStart
    <2>1. pc' = [pc EXCEPT ![t] = "work"] /\ phase' = [phase EXCEPT ![t] = 1]
      BY <1>2 DEF StartRound
    <2>2. /\ RoundPlace(t) = "gate" /\ RoundPlace(t)' = "work"
          /\ \A u \in Threads \ {t} : RoundPlace(u)' = RoundPlace(u)
      BY <1>1, <2>1 DEF RoundPlace
    <2>3. TheRounds!Move(t, "gate", "work") /\ RoundTurn' = RoundTurn
      BY <2>2, MovesOn
    <2>4. K = 1
      BY <1>1 DEF Barrier, Zone, Inside, MemberPCs
    <2>5. RoundTurn = 1
      BY <1>1, <2>4, TurnsRight DEF TurnRight, MemberPCs
    <2>6. \A u \in Threads : RoundPlace(u) # "alone"
      BY <1>1 DEF SyncOrConnectFree, Held, RoundPlace
    <2>7. TheRounds!Enter(t)
      BY <2>3, <2>5, <2>6 DEF TheRounds!Enter
    <2> QED
      BY <2>7 DEF TheRounds!Next
  <1>3. CASE ~MayStart
    <2>1. pc' = [BroadcastGate(pc) EXCEPT ![t] = "gate_wait"] /\ phase' = phase
      BY <1>3 DEF StartRound
    <2>2. BroadcastGate(pc) \in [Threads -> PCs]
      BY BroadcastGateType
    <2>3. pc'[t] = "gate_wait" /\ \A u \in Threads \ {t} : pc'[u] = BroadcastGate(pc)[u]
      BY <2>1, <2>2
    <2>4. \A u \in Threads : RoundPlace(u)' = RoundPlace(u)
      BY <1>1, <2>1, <2>3, BroadcastGateType DEF RoundPlace
    <2> QED
      BY <2>4, Stutters
  <1> QED
    BY <1>2, <1>3

\* A thread that has done its part of a phase goes to the barrier.
LEMMA WorkImplements ==
  ASSUME Types, Types', NEW K \in Phases, Barrier(K), Barrier(K)',
         NEW t \in Threads, Work(t) \/ ServeClient(t) \/ EndServe(t)
  PROVE  Implemented
  <1> USE DEF Types, Goto, Implemented
  <1>0. pc[t] \in {"work", "serving"} /\ phase' = phase /\ \A u \in Threads \ {t} : pc'[u] = pc[u]
    BY DEF Work, ServeClient, EndServe
  <1>1. pc'[t] \in {"arrive", "serving", "relock"}
    BY DEF Work, ServeClient, EndServe
  <1>2. \A u \in Threads \ {t} : RoundPlace(u)' = RoundPlace(u)
    BY <1>0 DEF RoundPlace
  <1>3. CASE pc'[t] = "arrive"
    <2>1. RoundPlace(t) = "work" /\ RoundPlace(t)' = "done"
      BY <1>0, <1>3 DEF RoundPlace
    <2>2. TheRounds!Finish(t)
      BY <1>2, <2>1, MovesOn DEF TheRounds!Finish
    <2> QED
      BY <2>2 DEF TheRounds!Next
  <1>4. CASE pc'[t] # "arrive"
    <2>1. RoundPlace(t) = "work" /\ RoundPlace(t)' = "work"
      BY <1>0, <1>1, <1>4 DEF RoundPlace
    <2> QED
      BY <1>2, <2>1, Stutters
  <1> QED
    BY <1>3, <1>4

\* All the members have done the phase and all are on their way to the next.
LEMMA TurnTurns ==
  ASSUME Types, Types', NEW K \in Phases, Barrier(K),
         NEW L \in Phases, Barrier(L)', L = (IF K = 3 THEN 1 ELSE K + 1),
         NEW t \in Threads, pc[t] \in MemberPCs,
         \A u \in Threads : pc[u] \in MemberPCs =>
           /\ RoundPlace(u) = "done"
           /\ RoundPlace(u)' = (IF K = 3 THEN "gate" ELSE "work"),
         \A u \in Threads : pc[u] \notin MemberPCs => pc'[u] = pc[u]
  PROVE  Implemented
  <1>1. \A u \in Threads : pc[u] \in PCs /\ pc'[u] \in PCs
    BY DEF Types
  <1>2. \A u \in Threads : pc[u] \notin MemberPCs =>
          RoundPlace(u) \in {"out", "alone"} /\ RoundPlace(u)' = RoundPlace(u)
    BY <1>1 DEF RoundPlace, PCs, MemberPCs
  <1>3. RoundTurn = K
    BY TurnsRight DEF TurnRight
  <1>4. pc'[t] \in MemberPCs
    BY <1>1 DEF RoundPlace, PCs, MemberPCs
  <1>5. RoundTurn' = L
    BY <1>4, TurnsRight DEF TurnRight
  <1> DEFINE Gone == {u \in Threads : pc[u] \in MemberPCs}
  <1>6. TheRounds!Joined = Gone
    BY <1>2 DEF TheRounds!Joined
  <1>7. TheRounds!Joined # {} /\ \A u \in TheRounds!Joined : [v \in Threads |-> RoundPlace(v)][u] = "done"
    BY <1>6
  <1>8. [u \in Threads |-> RoundPlace(u)]' =
          [u \in Threads |-> IF u \notin Gone THEN [v \in Threads |-> RoundPlace(v)][u]
                             ELSE IF K = 3 THEN "gate" ELSE "work"]
    BY <1>2
  <1> HIDE DEF Gone
  <1>9. TheRounds!Turn
    BY <1>3, <1>5, <1>6, <1>7, <1>8 DEF TheRounds!Turn
  <1> QED
    BY <1>9 DEF TheRounds!Next, Implemented

\* A thread at a barrier waits, or goes to clean the lists, or opens it for all.
LEMMA ArriveImplements ==
  ASSUME Types, Types', Accounting, NEW K \in Phases, Barrier(K), NEW t \in Threads, Arrive(t)
  PROVE  Implemented
  <1> USE DEF Types
  <1>1. pc[t] = "arrive"
    BY DEF Arrive
  <1>2. CASE Incomplete(count[phase[t]] + 1)
    <2>1. Barrier(K)'
      BY <1>2, WaitStep
    <2>2. pc' = [pc EXCEPT ![t] = "wait"] /\ phase' = phase
      BY <1>2 DEF Arrive
    <2>3. \A u \in Threads : RoundPlace(u)' = RoundPlace(u)
      BY <1>1, <2>2 DEF RoundPlace
    <2> QED
      BY <2>1, <2>3, Stutters DEF Implemented
  <1>3. CASE ~Incomplete(count[phase[t]] + 1) /\ K = 3
    <2>1. Barrier(K)' /\ pc' = [pc EXCEPT ![t] = "clean"] /\ phase' = phase
      BY <1>3, CleanerStep
    <2>2. \A u \in Threads : RoundPlace(u)' = RoundPlace(u)
      BY <1>1, <2>1 DEF RoundPlace
    <2> QED
      BY <2>1, <2>2, Stutters DEF Implemented
  <1>4. CASE ~Incomplete(count[phase[t]] + 1) /\ K # 3
    <2>1. /\ Barrier(K + 1)'
          /\ \A u \in Threads : pc[u] \in MemberPCs =>
               /\ pc[u] \in {"arrive", "wait"}
               /\ pc'[u] = "work" \/ (pc'[u] = "woken" /\ phase'[u] = K)
          /\ \A u \in Threads : pc[u] \notin MemberPCs => pc'[u] = pc[u]
      BY <1>4, OpenStep
    <2>2. \A u \in Threads : pc[u] \in MemberPCs =>
            RoundPlace(u) = "done" /\ RoundPlace(u)' = "work"
      BY <1>4, <2>1 DEF RoundPlace
    <2>3. K + 1 \in Phases /\ pc[t] \in MemberPCs
      BY <1>1, <1>4 DEF Phases, MemberPCs
    <2> QED
      BY <1>4, <2>1, <2>2, <2>3, TurnTurns
  <1> QED
    BY <1>2, <1>3, <1>4

\* The cleaner opens the third barrier: the round is over for all its members.
LEMMA CleanImplements ==
  ASSUME Types, Types', NEW K \in Phases, Barrier(K), NEW t \in Threads, CleanLists(t)
  PROVE  Implemented
  <1>1. pc[t] \in MemberPCs /\ 1 \in Phases
    BY DEF CleanLists, MemberPCs, Phases
  <1>2. /\ K = 3 /\ Barrier(1)'
        /\ \A u \in Threads : pc[u] \in MemberPCs =>
             /\ pc[u] \in {"clean", "wait"}
             /\ pc'[u] = "reset" \/ (pc'[u] = "woken" /\ phase'[u] = 3)
        /\ \A u \in Threads : pc[u] \notin MemberPCs => pc'[u] = pc[u]
    BY CleanStep
  <1>3. \A u \in Threads : pc[u] \in MemberPCs =>
          RoundPlace(u) = "done" /\ RoundPlace(u)' = "gate"
    BY <1>2 DEF RoundPlace
  <1> QED
    BY <1>1, <1>2, <1>3, TurnTurns

\* Leaving a barrier that has been opened, and ending the round, change nothing.
LEMMA LeaveImplements ==
  ASSUME Types, Types', Accounting, NEW K \in Phases, Barrier(K), NEW t \in Threads,
         Leave(t) \/ EndRound(t)
  PROVE  Implemented
  <1> USE DEF Types
  <1>1. Barrier(K)'
    BY LeaveStep, EndRoundStep
  <1>2. CASE Leave(t)
    <2>1. \/ phase[t] # 3 /\ pc' = [pc EXCEPT ![t] = "work"] /\ phase' = [phase EXCEPT ![t] = @ + 1]
          \/ phase[t] = 3 /\ pc' = [pc EXCEPT ![t] = "gate"] /\ phase' = phase
      BY <1>2, LeaveStep
    <2>2. pc[t] = "woken"
      BY <1>2 DEF Leave
    <2>3. \A u \in Threads : RoundPlace(u)' = RoundPlace(u)
      BY <2>1, <2>2 DEF RoundPlace
    <2> QED
      BY <1>1, <2>3, Stutters DEF Implemented
  <1>3. CASE EndRound(t)
    <2> DEFINE q == [pc EXCEPT ![t] = "gate"]
    <2>1. q \in [Threads -> PCs] /\ q[t] = "gate" /\ \A u \in Threads \ {t} : q[u] = pc[u]
      BY DEF PCs
    <2>2. pc' = BroadcastGate(q) /\ pc[t] = "reset" /\ phase' = phase
      BY <1>3 DEF EndRound
    <2> HIDE DEF q
    <2>3. \A u \in Threads : RoundPlace(u)' = RoundPlace(u)
      BY <2>1, <2>2, BroadcastGateType DEF RoundPlace
    <2> QED
      BY <1>1, <2>3, Stutters DEF Implemented
  <1> QED
    BY <1>2, <1>3

-----------------------------------------------------------------------------

\* The server starts with nobody in a round and the first phase to come.
LEMMA RoundsInit == Init => TheRounds!Init
  <1> SUFFICES ASSUME Init PROVE TheRounds!Init
    OBVIOUS
  <1>1. \A t \in Threads : pc[t] = "fetch"
    BY DEF Init
  <1>2. \A t \in Threads : RoundPlace(t) = "out"
    BY <1>1 DEF RoundPlace
  <1>3. RoundTurn = 1
    BY <1>1, <1>2 DEF RoundTurn
  <1> QED
    BY <1>2, <1>3 DEF TheRounds!Init

\* Until a wakeup is spurious, a step of the server is a step of the rounds.
LEMMA StepImplements ==
  ASSUME Types, Types', GateClosed, Accounting, BarrierInd, BarrierInd', [Next]_vars
  PROVE  Implemented \/ spurious' # 0
  <1>1. \/ spurious' = spurious
        \/ spurious' = spurious + 1 /\ \E t \in Threads : SpuriousWakeup(t)
    BY DEF Next, Main, Step, Accept, CountRequest, SignalFdReady, FetchClient, Connect,
           EndConnection, UncountRequest, TellConnected, StartRound, Work, ServeClient,
           EndServe, Arrive, Leave, SpuriousWakeup, CleanLists, EndRound, vars
  <1>2. SUFFICES ASSUME spurious = 0, \A t \in Threads : ~SpuriousWakeup(t)
                 PROVE  Implemented
    BY <1>1 DEF BarrierInd, SpuriousWakeup
  <1>3. PICK K \in Phases : Barrier(K)
    BY <1>2 DEF BarrierInd, BarrierInv
  <1>4. CASE \/ Accept \/ CountRequest \/ SignalFdReady \/ UNCHANGED vars
             \/ \E t \in Threads :
                  FetchClient(t) \/ Connect(t) \/ EndConnection(t) \/ TellConnected(t)
    <2>1. Barrier(K)'
      BY <1>3, <1>4, ClientSteps
    <2> QED
      BY <1>3, <1>4, <2>1, ClientsImplement
  <1>5. ASSUME NEW t \in Threads, UncountRequest(t) PROVE Implemented
    BY <1>3, <1>5, JoinStep, JoinImplements
  <1>6. ASSUME NEW t \in Threads, StartRound(t) PROVE Implemented
    BY <1>3, <1>6, StartStep, StartImplements
  <1>7. ASSUME NEW t \in Threads, Work(t) \/ ServeClient(t) \/ EndServe(t) PROVE Implemented
    <2>1. Barrier(K)'
      BY <1>3, <1>7, ClientSteps
    <2> QED
      BY <1>3, <1>7, <2>1, WorkImplements
  <1>8. ASSUME NEW t \in Threads, Arrive(t) PROVE Implemented
    BY <1>3, <1>8, ArriveImplements
  <1>9. ASSUME NEW t \in Threads, CleanLists(t) PROVE Implemented
    BY <1>3, <1>9, CleanImplements
  <1>10. ASSUME NEW t \in Threads, Leave(t) \/ EndRound(t) PROVE Implemented
    BY <1>3, <1>10, LeaveImplements
  <1> QED
    BY <1>2, <1>4, <1>5, <1>6, <1>7, <1>8, <1>9, <1>10 DEF Next, Main, Step

\* KeepsRounds: the server implements the rounds up to the first spurious
\* wakeup (svfunctions.h 21-109 and 130-236): one client at a time is let in
\* and only between rounds, a member enters only the first phase, and all go
\* from a phase to the next together, for every size of the pool.
THEOREM ServerKeepsRounds == Spec => KeepsRounds
  <1> DEFINE Inv == Types /\ GateClosed /\ Accounting /\ BarrierInd
  <1>1. Inv /\ Inv' /\ [Next]_vars => [TheRounds!Next \/ spurious' # 0]_(TheRounds!rounds)
    BY StepImplements DEF Implemented
  <1>2. Spec => []Inv
    BY BarrierInvariant
  <1> HIDE DEF Inv
  <1> QED
    BY <1>1, <1>2, RoundsInit, PTL DEF Spec, KeepsRounds
=============================================================================
