-------------------------- MODULE BiboServerProofs --------------------------
(***************************************************************************)
(* Theorems about BiboServer, for every set of clients and of workers,     *)
(* every MAX_CLIENT, and SIGINT at any place of main.                      *)
(*                                                                         *)
(* The invariants follow what a client has sent through the queues: a      *)
(* request for admission is in the server's FIFO, in main's hands, in the  *)
(* queue of waiting clients or in the hands of the worker that lets the    *)
(* client in, and a task in the FIFO, in main's hands, in the task queue   *)
(* or with a worker; each is in one place at most.                         *)
(***************************************************************************)
EXTENDS BiboServer, TLAPS, FiniteSetTheorems, SequenceTheorems, WellFoundedInduction

-----------------------------------------------------------------------------
(* Queues: what is in them, and whether it is there once. *)

Has(q, V)  == \E i \in DOMAIN q : q[i] \in V
Once(q, V) == \A i, j \in DOMAIN q : q[i] \in V /\ q[j] \in V => i = j

\* EnqueueTask, EnqueuePid and the writes to the server's FIFO: the new last
\* entry is the only change.
LEMMA Appended ==
  ASSUME NEW S, NEW q \in Seq(S), NEW r \in S, NEW V
  PROVE  /\ Append(q, r) \in Seq(S)
         /\ Has(Append(q, r), V) <=> Has(q, V) \/ r \in V
         /\ Once(q, V) /\ ~(Has(q, V) /\ r \in V) => Once(Append(q, r), V)
  <1> DEFINE p == Append(q, r)
  <1>1. /\ p \in Seq(S) /\ DOMAIN p = 1..(Len(q) + 1) /\ DOMAIN q = 1..Len(q) /\ Len(q) \in Nat
        /\ p[Len(q) + 1] = r /\ \A i \in 1..Len(q) : p[i] = q[i]
    OBVIOUS
  <1> HIDE DEF p
  <1>2. Has(p, V) <=> Has(q, V) \/ r \in V
    BY <1>1 DEF Has
  <1>3. Once(q, V) /\ ~(Has(q, V) /\ r \in V) => Once(p, V)
    BY <1>1 DEF Has, Once
  <1> QED
    BY <1>1, <1>2, <1>3 DEF p

\* DequeueTask, DequeuePid and a read from the FIFO: the first entry is taken,
\* and what was there once is not left behind it.
LEMMA Taken ==
  ASSUME NEW S, NEW q \in Seq(S), q # <<>>, NEW V
  PROVE  /\ Tail(q) \in Seq(S) /\ Head(q) \in S
         /\ Has(q, V) <=> Has(Tail(q), V) \/ Head(q) \in V
         /\ Once(q, V) => Once(Tail(q), V) /\ ~(Has(Tail(q), V) /\ Head(q) \in V)
  <1> DEFINE p == Tail(q)
  <1>1. /\ p \in Seq(S) /\ Head(q) \in S /\ Head(q) = q[1]
        /\ DOMAIN q = 1..Len(q) /\ Len(q) \in Nat \ {0}
        /\ DOMAIN p = 1..(Len(q) - 1) /\ \A i \in 1..(Len(q) - 1) : p[i] = q[i + 1]
    OBVIOUS
  <1> HIDE DEF p
  <1>2. Has(q, V) <=> Has(p, V) \/ Head(q) \in V
    <2>1. ASSUME Has(q, V) PROVE Has(p, V) \/ Head(q) \in V
      <3>1. PICK i \in DOMAIN q : q[i] \in V
        BY <2>1 DEF Has
      <3>2. CASE i = 1
        BY <3>1, <3>2, <1>1
      <3>3. CASE i # 1
        <4>1. i - 1 \in DOMAIN p /\ p[i - 1] = q[i]
          BY <3>3, <1>1
        <4> QED
          BY <4>1, <3>1 DEF Has
      <3> QED
        BY <3>2, <3>3
    <2>2. ASSUME Has(p, V) PROVE Has(q, V)
      <3>1. PICK i \in DOMAIN p : p[i] \in V
        BY <2>2 DEF Has
      <3>2. i + 1 \in DOMAIN q /\ q[i + 1] = p[i]
        BY <3>1, <1>1
      <3> QED
        BY <3>1, <3>2 DEF Has
    <2>3. ASSUME Head(q) \in V PROVE Has(q, V)
      <3>1. 1 \in DOMAIN q /\ q[1] \in V
        BY <2>3, <1>1
      <3> QED
        BY <3>1 DEF Has
    <2> QED
      BY <2>1, <2>2, <2>3
  <1>3. Once(q, V) => Once(p, V) /\ ~(Has(p, V) /\ Head(q) \in V)
    <2> SUFFICES ASSUME Once(q, V) PROVE Once(p, V) /\ ~(Has(p, V) /\ Head(q) \in V)
      OBVIOUS
    <2>1. \A i \in DOMAIN p : i + 1 \in DOMAIN q /\ p[i] = q[i + 1] /\ i + 1 # 1
      BY <1>1
    <2>2. Once(p, V)
      <3> SUFFICES ASSUME NEW i \in DOMAIN p, NEW j \in DOMAIN p, p[i] \in V, p[j] \in V PROVE i = j
        BY DEF Once
      <3>1. i + 1 = j + 1
        BY <2>1 DEF Once
      <3> QED
        BY <3>1, <1>1
    <2>3. ~(Has(p, V) /\ Head(q) \in V)
      BY <2>1, <1>1 DEF Has, Once
    <2> QED
      BY <2>2, <2>3
  <1> QED
    BY <1>1, <1>2, <1>3 DEF p

\* A search from the front ends at the first match.
LEMMA LeastIndex ==
  ASSUME NEW S, S \subseteq Nat, S # {}
  PROVE  \E x \in S : \A y \in S : x <= y
  <1> DEFINE R == {ss \in Nat \X Nat : ss[1] < ss[2]}
  <1>1. IsWellFoundedOn(R, Nat)
    BY NatLessThanWellFounded DEF OpToRel
  <1>2. \E x \in S : \A y \in S : ~(<<y, x>> \in R)
    <2> HIDE DEF R
    <2> QED
      BY <1>1, WFMin
  <1>3. \A x, y \in S : ~(<<y, x>> \in R) => x <= y
    OBVIOUS
  <1> QED
    BY <1>2, <1>3

\* RemoveFromPidQueue: the entry is taken out and nothing is added.
LEMMA Removed ==
  ASSUME NEW S, NEW q \in Seq(S), NEW c, NEW V
  PROVE  /\ RemoveFirst(q, c) \in Seq(S)
         /\ Has(RemoveFirst(q, c), V) => Has(q, V)
         /\ Once(q, V) => Once(RemoveFirst(q, c), V)
  <1>1. CASE ~\E i \in 1..Len(q) : q[i] = c
    BY <1>1 DEF RemoveFirst
  <1>2. CASE \E i \in 1..Len(q) : q[i] = c
    <2> DEFINE k == Min({i \in 1..Len(q) : q[i] = c})
               n == Len(q)
               front == SubSeq(q, 1, k - 1)
               back == SubSeq(q, k + 1, n)
               p == front \o back
               At(i) == IF i < k THEN i ELSE i + 1
    <2>1. RemoveFirst(q, c) = p
      BY <1>2 DEF RemoveFirst, RemoveAt, SelectInSeq
    <2>2. k \in 1..n
      <3>1. {i \in 1..n : q[i] = c} \subseteq Nat /\ {i \in 1..n : q[i] = c} # {}
        BY <1>2
      <3>2. \E m \in {i \in 1..n : q[i] = c} : \A i \in {i \in 1..n : q[i] = c} : m <= i
        BY <3>1, LeastIndex
      <3> QED
        BY <3>2 DEF Min
    <2>3. DOMAIN q = 1..n /\ n \in Nat
      OBVIOUS
    <2> HIDE DEF k
    <2>4. front \in Seq(S) /\ Len(front) = k - 1 /\ \A i \in 1..(k - 1) : front[i] = q[i]
      BY <2>2, <2>3
    <2>5. back \in Seq(S) /\ Len(back) = n - k /\ \A i \in 1..(n - k) : back[i] = q[k + i]
      <3>1. k + 1 \in Int /\ n - (k + 1) + 1 = n - k /\ \A i \in 1..(n - k) : (k + 1) + i - 1 = k + i
        BY <2>2, <2>3
      <3>2. \A i \in (k + 1)..n : i \in DOMAIN q
        BY <2>2, <2>3
      <3> HIDE DEF n
      <3>3. back \in Seq(S) /\ Len(back) = IF k + 1 <= n THEN n - (k + 1) + 1 ELSE 0
        BY <3>1, <3>2, <2>3, SubSeqProperties
      <3>4. \A i \in 1..(n - (k + 1) + 1) : back[i] = q[(k + 1) + i - 1]
        BY <3>1, <3>2, <2>3, SubSeqProperties
      <3> QED
        BY <3>1, <3>3, <3>4, <2>2, <2>3
    <2> HIDE DEF n, front, back
    <2>6. /\ p \in Seq(S) /\ Len(p) = Len(front) + Len(back)
          /\ \A i \in 1..Len(front) + Len(back) :
               p[i] = IF i <= Len(front) THEN front[i] ELSE back[i - Len(front)]
      BY <2>4, <2>5, ConcatProperties
    <2>7. DOMAIN p = 1..Len(p)
      BY <2>6
    <2> HIDE DEF p
    <2>8. ASSUME NEW i \in DOMAIN p
          PROVE  /\ i \in Int /\ At(i) \in DOMAIN q
                 /\ p[i] = q[At(i)]
      <3>1. i \in 1..(n - 1)
        BY <2>2, <2>3, <2>4, <2>5, <2>6, <2>7
      <3>2. p[i] = IF i <= k - 1 THEN front[i] ELSE back[i - (k - 1)]
        BY <2>4, <2>6, <2>7
      <3>3. CASE i < k
        BY <3>1, <3>2, <3>3, <2>2, <2>3, <2>4
      <3>4. CASE ~(i < k)
        <4>1. i - (k - 1) \in 1..(n - k) /\ k + (i - (k - 1)) = i + 1
          BY <3>1, <3>4, <2>2, <2>3
        <4>2. p[i] = q[i + 1]
          BY <3>1, <3>2, <3>4, <4>1, <2>2, <2>5
        <4> QED
          BY <3>1, <3>4, <4>2, <2>2, <2>3
      <3> QED
        BY <3>3, <3>4
    <2>9. \A i, j \in DOMAIN p : At(i) = At(j) => i = j
      BY <2>2, <2>3, <2>8
    <2> HIDE DEF At
    <2>10. Has(p, V) => Has(q, V)
      BY <2>8 DEF Has
    <2>11. Once(q, V) => Once(p, V)
      BY <2>8, <2>9 DEF Once
    <2> QED
      BY <2>1, <2>6, <2>10, <2>11
  <1> QED
    BY <1>1, <1>2

-----------------------------------------------------------------------------
(* Types.                                                                   *)

\* The parts of TypeOK: what the clients have, the queues and tables of the
\* server, where its threads are, and what they have in hand.
EnvOK ==
  /\ client \in [Clients -> {"out", "opening", "waiting", "in", "busy", "leaving", "gone"}]
  /\ hasFifo \in [Clients -> BOOLEAN]
  /\ asked \in [Clients -> Nat] /\ told \in [Clients -> Nat]
QueuesOK ==
  /\ serverFifo \in Seq(Requests(Kinds)) /\ tasks \in Seq(Requests({"task", "quit"}))
  /\ pids \in Seq(Clients) /\ slots \in [Slots -> Clients \cup {NoClient}]
  /\ numClients \in Int /\ killThreads \in BOOLEAN /\ lockHeld \in BOOLEAN
PcOK ==
  /\ pc \in [Procs -> MainPlaces \cup WorkerPlaces]
  /\ pc[Main] \in MainPlaces /\ \A w \in Workers : pc[w] \in WorkerPlaces
HandsOK ==
  /\ job \in [Procs -> Request \cup Handover] /\ job[Main] \in Request
  /\ reg \in [Procs -> Int]

\* What a thread has in hand where it is: main a request of a client, for a
\* place only where it lets clients in; a worker a task, or a quit from there on.
MainHolds(place, r) ==
  /\ place \in {"check", "tell", "num", "num_inc", "find", "store", "pid_put", "refuse", "open_try",
                "open_tell", "tell_try", "enqueue", "append"} => r.c \in Clients
  /\ place = "check" => r.kind \in {"connect", "try"}
  /\ place = "tell" => r.kind = "connect"
  /\ place \in {"enqueue", "append"} => r.kind \in {"task", "quit"}
WorkerHolds(place, r) ==
  /\ place \in {"open", "execute", "receive", "lookup", "dec", "dec_write", "clear", "pid_front",
                "pid_take", "pid_remove"} => r.c \in Clients
  /\ place = "open" => r.kind \in {"task", "quit"}
  /\ place \in {"execute", "receive"} => r.kind = "task"
  /\ place \in {"lookup", "dec", "dec_write", "clear", "pid_front", "pid_take", "pid_remove",
                "tell", "num", "num_inc", "find", "store", "unlink"} => r.kind = "quit"
JobRight ==
  /\ MainHolds(pc[Main], job[Main])
  /\ \A w \in Workers : WorkerHolds(pc[w], job[w])

Typed == EnvOK /\ QueuesOK /\ PcOK /\ HandsOK /\ JobRight

\* What is read from a queue is of its type, and so is what it leaves.
LEMMA HeadsTyped ==
  ASSUME QueuesOK
  PROVE  /\ serverFifo # <<>> => /\ Tail(serverFifo) \in Seq(Requests(Kinds))
                                 /\ Head(serverFifo) \in Requests(Kinds)
         /\ tasks # <<>> => /\ Tail(tasks) \in Seq(Requests({"task", "quit"}))
                            /\ Head(tasks) \in Requests({"task", "quit"})
         /\ pids # <<>> => Tail(pids) \in Seq(Clients) /\ Head(pids) \in Clients
  BY Taken DEF QueuesOK

\* FindInClientArray returns the index of a slot, or none.
LEMMA FoundTyped ==
  ASSUME NEW c
  PROVE  FindInClientArray(c) \in Int
  <1>1. CASE \E i \in Slots : slots[i] = c
    <2>1. {i \in Slots : slots[i] = c} \subseteq Nat /\ {i \in Slots : slots[i] = c} # {}
      BY <1>1 DEF Slots
    <2>2. \E i \in Slots : slots[i] = c /\ \A j \in Slots : slots[j] = c => i <= j
      BY <2>1, LeastIndex
    <2>3. \E i \in Slots : slots[i] = c /\ \A j \in 1..(i - 1) : slots[j] # c
      BY <2>2, BiboAssumption DEF Slots
    <2> QED
      BY <1>1, <2>3 DEF FindInClientArray, Slots
  <1>2. CASE ~\E i \in Slots : slots[i] = c
    BY <1>2 DEF FindInClientArray, NoIndex
  <1> QED
    BY <1>1, <1>2

\* A response of the server makes of a client what the types allow.
LEMMA AnswerTyped ==
  ASSUME EnvOK, NEW c \in Clients
  PROVE  /\ [client EXCEPT ![c] = Answered(@)]
              \in [Clients -> {"out", "opening", "waiting", "in", "busy", "leaving", "gone"}]
         /\ [told EXCEPT ![c] = @ + 1] \in [Clients -> Nat]
  BY DEF EnvOK, Answered

\* A step that answers a client at most keeps the variables of the clients typed.
LEMMA AnswerKeeps ==
  ASSUME EnvOK, NEW c, client' = client \/ Answer(c), UNCHANGED <<hasFifo, asked, told>>
  PROVE  EnvOK'
  BY DEF EnvOK, Answer, Answered

\* A client that is ended, and its FIFO removed, keeps the variables typed.
LEMMA KillKeeps ==
  ASSUME EnvOK, NEW c, UNCHANGED <<asked, told>>,
         client' = client \/ client' = [client EXCEPT ![c] = "gone"],
         hasFifo' = hasFifo \/ hasFifo' = [hasFifo EXCEPT ![c] = FALSE]
  PROVE  EnvOK'
  <1>1. client' \in [Clients -> {"out", "opening", "waiting", "in", "busy", "leaving", "gone"}]
    BY DEF EnvOK
  <1>2. hasFifo' \in [Clients -> BOOLEAN]
    BY DEF EnvOK
  <1> QED
    BY <1>1, <1>2 DEF EnvOK

\* A write to the server's FIFO (client.c): at most this request is added, and
\* it is, unless main reads no more.
LEMMA Sent ==
  ASSUME NEW c \in Clients, NEW kind \in Kinds, serverFifo \in Seq(Requests(Kinds)),
         Send(c, kind)
  PROVE  /\ serverFifo' \in Seq(Requests(Kinds))
         /\ \A V : /\ Has(serverFifo', V) => Has(serverFifo, V) \/ [c |-> c, kind |-> kind] \in V
                   /\ ~Killing => (Has(serverFifo', V) <=> Has(serverFifo, V) \/ [c |-> c, kind |-> kind] \in V)
                   /\ Once(serverFifo, V) /\ ~(Has(serverFifo, V) /\ [c |-> c, kind |-> kind] \in V)
                        => Once(serverFifo', V)
  <1> DEFINE r == [c |-> c, kind |-> kind]
  <1>1. r \in Requests(Kinds)
    BY DEF Requests
  <1>2. CASE Killing
    BY <1>2 DEF Send, Has, Once
  <1>3. CASE ~Killing
    <2>1. serverFifo' = Append(serverFifo, r)
      BY <1>3 DEF Send
    <2> HIDE DEF r
    <2>2. serverFifo' \in Seq(Requests(Kinds))
      BY <1>1, <2>1, Appended
    <2>3. \A V : /\ Has(serverFifo', V) <=> Has(serverFifo, V) \/ r \in V
                 /\ Once(serverFifo, V) /\ ~(Has(serverFifo, V) /\ r \in V) => Once(serverFifo', V)
      BY <1>1, <2>1, Appended
    <2> QED
      BY <2>2, <2>3 DEF r
  <1> QED
    BY <1>2, <1>3

\* A thread that goes on to a place of its own kind is where the types allow.
LEMMA MovesTo ==
  ASSUME PcOK, NEW p \in Procs, NEW from, NEW to, Goto(p, from, to),
         p = Main => to \in MainPlaces, p # Main => to \in WorkerPlaces
  PROVE  PcOK'
  BY BiboAssumption DEF PcOK, Goto, Procs

\* Main, or a worker, has in hand what it should where it goes on, and the
\* other threads stay.
LEMMA MainMoves ==
  ASSUME JobRight, MainHolds(pc'[Main], job'[Main]),
         \A p \in Procs \ {Main} : pc'[p] = pc[p] /\ job'[p] = job[p]
  PROVE  JobRight'
  BY BiboAssumption DEF JobRight, Procs

\* The same for a worker.
LEMMA WorkerMoves ==
  ASSUME JobRight, NEW w \in Workers, WorkerHolds(pc'[w], job'[w]),
         \A p \in Procs \ {w} : pc'[p] = pc[p] /\ job'[p] = job[p]
  PROVE  JobRight'
  BY BiboAssumption DEF JobRight, Procs

\* Every step of a client, of main and of a worker keeps the types and what
\* the threads have in hand.
LEMMA TypedStep ==
  ASSUME Typed, [Next]_vars
  PROVE  Typed'
  <1> USE BiboAssumption DEF Typed, EnvOK, QueuesOK, PcOK, HandsOK, JobRight, MainHolds, WorkerHolds,
         MainPlaces, WorkerPlaces, AdmitPlaces, Procs,
      Request, Handover, Requests, Kinds, env, adm, stop, server
  <1>1. ASSUME NEW c \in Clients, ClientConnects(c) PROVE Typed'
    <2>1. EnvOK'
      BY <1>1 DEF ClientConnects, Become, Send
    <2>2. QueuesOK'
      BY <1>1, Sent DEF ClientConnects, Become
    <2>3. PcOK'
      BY <1>1 DEF ClientConnects, Become, Send
    <2>4. HandsOK'
      BY <1>1 DEF ClientConnects, Become, Send
    <2>5. JobRight'
      BY <1>1 DEF ClientConnects, Become, Send
    <2> QED
      BY <2>1, <2>2, <2>3, <2>4, <2>5
  <1>2. ASSUME NEW c \in Clients, ClientAsks(c) PROVE Typed'
    <2>1. EnvOK'
      BY <1>2, SMTT(30) DEF ClientAsks, Become, Send
    <2>2. QueuesOK'
      BY <1>2, Sent DEF ClientAsks, Become
    <2>3. PcOK'
      BY <1>2 DEF ClientAsks, Become, Send
    <2>4. HandsOK'
      BY <1>2 DEF ClientAsks, Become, Send
    <2>5. JobRight'
      BY <1>2 DEF ClientAsks, Become, Send
    <2> QED
      BY <2>1, <2>2, <2>3, <2>4, <2>5
  <1>3. ASSUME NEW c \in Clients, ClientQuits(c) PROVE Typed'
    <2>1. EnvOK'
      BY <1>3 DEF ClientQuits, Become, Send
    <2>2. QueuesOK'
      BY <1>3, Sent DEF ClientQuits, Become
    <2>3. PcOK'
      BY <1>3 DEF ClientQuits, Become, Send
    <2>4. HandsOK'
      BY <1>3 DEF ClientQuits, Become, Send
    <2>5. JobRight'
      BY <1>3 DEF ClientQuits, Become, Send
    <2> QED
      BY <2>1, <2>2, <2>3, <2>4, <2>5
  <1>4. ASSUME NEW c \in Clients, ClientKillsServer(c) PROVE Typed'
    <2>1. EnvOK'
      BY <1>4 DEF ClientKillsServer, Become, Send
    <2>2. QueuesOK'
      BY <1>4, Sent DEF ClientKillsServer, Become
    <2>3. PcOK'
      BY <1>4 DEF ClientKillsServer, Become, Send
    <2>4. HandsOK'
      BY <1>4 DEF ClientKillsServer, Become, Send
    <2>5. JobRight'
      BY <1>4 DEF ClientKillsServer, Become, Send
    <2> QED
      BY <2>1, <2>2, <2>3, <2>4, <2>5
  <1>5. CASE MainRead
    <2>1. EnvOK'
      BY <1>5 DEF MainRead, Goto, SetReg, Dispatch
    <2>2. QueuesOK'
      BY <1>5 DEF MainRead, Goto, SetReg, Dispatch
    <2>3. PcOK'
      BY <1>5, MovesTo DEF MainRead, Dispatch
    <2>4. HandsOK'
      <3>1. Head(serverFifo) \in Request
        BY <1>5, HeadsTyped DEF MainRead
      <3> QED
        <4>1. job' = [job EXCEPT ![Main] = Head(serverFifo)]
          BY <1>5 DEF MainRead
        <4>2. job' \in [Procs -> Request \cup Handover] /\ job'[Main] \in Request
          BY <3>1, <4>1
        <4>3. reg' \in [Procs -> Int]
          BY <1>5 DEF MainRead, SetReg
        <4> QED
          BY <4>2, <4>3
    <2>5. JobRight'
      <3>1. \A p \in Procs \ {Main} : pc'[p] = pc[p] /\ job'[p] = job[p]
        BY <1>5 DEF MainRead, Goto
      <3>2. MainHolds(pc'[Main], job'[Main])
        <4> DEFINE r == Head(serverFifo)
        <4>1. r.c \in Clients /\ r.kind \in Kinds
          BY <1>5, HeadsTyped DEF MainRead
        <4>2. pc'[Main] = Dispatch(r.kind) /\ job'[Main] = r
          BY <1>5 DEF MainRead, Goto
        <4> HIDE DEF r
        <4> QED
          BY <4>1, <4>2 DEF Dispatch
      <3> QED
        BY <3>1, <3>2, MainMoves
    <2> QED
      BY <2>1, <2>2, <2>3, <2>4, <2>5
  <1>6. CASE CheckRoom
    BY <1>6, SMTT(30) DEF CheckRoom, Goto, Opened
  <1>7. CASE EnqueuePid
    BY <1>7 DEF EnqueuePid, Goto
  <1>8. CASE OpenTry
    <2>1. EnvOK'
      BY <1>8 DEF OpenTry, Goto, Opened
    <2>2. QueuesOK'
      BY <1>8 DEF OpenTry, Goto, Opened
    <2>3. PcOK'
      BY <1>8, MovesTo DEF OpenTry
    <2>4. HandsOK'
      BY <1>8 DEF OpenTry, Goto, Opened
    <2>5. JobRight'
      BY <1>8 DEF OpenTry, Goto, Opened
    <2> QED
      BY <2>1, <2>2, <2>3, <2>4, <2>5
  <1>9. CASE AnswerTry
    <2>1. EnvOK'
      <3>1. CASE Goto(Main, "refuse", "read")
        BY <1>9, <3>1 DEF AnswerTry, Goto
      <3>2. CASE Goto(Main, "tell_try", "read")
        <4> DEFINE c == job[Main].c
        <4>1. c \in Clients /\ UNCHANGED <<hasFifo, asked>>
          BY <1>9, <3>2 DEF AnswerTry, Goto
        <4>2. client' = [client EXCEPT ![c] = Answered(@)] /\ told' = [told EXCEPT ![c] = @ + 1]
          BY <1>9, <3>2 DEF AnswerTry, Goto, Answer
        <4> HIDE DEF c
        <4> QED
          BY <4>1, <4>2, AnswerTyped
      <3> QED
        BY <1>9, <3>1, <3>2 DEF AnswerTry
    <2>2. QueuesOK'
      BY <1>9 DEF AnswerTry, Goto, Answer, Answered
    <2>3. PcOK'
      BY <1>9, MovesTo DEF AnswerTry
    <2>4. HandsOK'
      BY <1>9 DEF AnswerTry, Goto, Answer, Answered
    <2>5. JobRight'
      BY <1>9 DEF AnswerTry, Goto, Answer, Answered
    <2> QED
      BY <2>1, <2>2, <2>3, <2>4, <2>5
  <1>10. CASE LockQueue
    BY <1>10 DEF LockQueue, Goto
  <1>11. CASE EnqueueTask
    BY <1>11, SMTT(30) DEF EnqueueTask, Goto
  <1>12. CASE SignalTask
    <2>1. EnvOK'
      BY <1>12 DEF SignalTask, WokenBySignal
    <2>2. QueuesOK'
      BY <1>12 DEF SignalTask, WokenBySignal
    <2>3. PcOK'
      <3>1. CASE pc' = [pc EXCEPT ![Main] = "read"]
        BY <3>1
      <3>2. ASSUME NEW v \in Workers, pc' = [pc EXCEPT ![v] = "woken", ![Main] = "read"] PROVE PcOK'
        <4>1. pc' \in [Procs -> MainPlaces \cup WorkerPlaces] /\ pc'[Main] = "read"
          BY <3>2
        <4>2. \A w \in Workers : pc'[w] \in {"woken", pc[w]}
          BY <3>2
        <4> QED
          BY <4>1, <4>2
      <3> QED
        BY <1>12, <3>1, <3>2 DEF SignalTask
    <2>4. HandsOK'
      BY <1>12 DEF SignalTask, WokenBySignal
    <2>5. JobRight'
      <3>1. CASE pc' = [pc EXCEPT ![Main] = "read"]
        BY <1>12, <3>1 DEF SignalTask
      <3>2. ASSUME NEW v \in Workers, pc' = [pc EXCEPT ![v] = "woken", ![Main] = "read"] PROVE JobRight'
        BY <1>12, <3>2 DEF SignalTask
      <3> QED
        BY <1>12, <3>1, <3>2 DEF SignalTask
    <2> QED
      BY <2>1, <2>2, <2>3, <2>4, <2>5
  <1>13. CASE KillSlot
    <2>1. EnvOK'
      BY <1>13 DEF KillSlot, Goto, SetReg, Slots
    <2>2. QueuesOK'
      BY <1>13 DEF KillSlot, Goto, SetReg, Slots
    <2>3. PcOK'
      BY <1>13, MovesTo DEF KillSlot
    <2>4. HandsOK'
      <3>1. CASE UNCHANGED job
        BY <1>13, <3>1 DEF KillSlot, SetReg
      <3>2. CASE ~UNCHANGED job
        <4> DEFINE r == [job[Main] EXCEPT !.c = slots[reg[Main]]]
        <4>1. r \in Request
          BY <1>13, <3>2 DEF KillSlot
        <4>2. job' = [job EXCEPT ![Main] = r]
          BY <1>13, <3>2 DEF KillSlot
        <4>3. reg' \in [Procs -> Int]
          BY <1>13 DEF KillSlot, SetReg
        <4> HIDE DEF r
        <4>4. job' \in [Procs -> Request \cup Handover] /\ job'[Main] \in Request
          BY <4>1, <4>2
        <4> QED
          BY <4>3, <4>4
      <3> QED
        BY <3>1, <3>2
    <2>5. JobRight'
      <3>1. pc'[Main] \in {"kill", "kill_fifo", "kill_pids"} /\ \A w \in Workers : pc'[w] = pc[w]
        BY <1>13 DEF KillSlot, Goto
      <3>2. \A w \in Workers : job'[w] = job[w]
        BY <1>13 DEF KillSlot
      <3> QED
        BY <3>1, <3>2
    <2> QED
      BY <2>1, <2>2, <2>3, <2>4, <2>5
  <1>14. CASE KillFifo
    <2>1. EnvOK'
      BY <1>14, KillKeeps DEF KillFifo
    <2>2. QueuesOK' /\ PcOK' /\ HandsOK' /\ JobRight'
      BY <1>14 DEF KillFifo, Goto
    <2> QED
      BY <2>1, <2>2
  <1>15. CASE KillWaiting
    <2>1. EnvOK'
      <3>1. PICK c : /\ client' = client \/ client' = [client EXCEPT ![c] = "gone"]
                     /\ hasFifo' = hasFifo \/ hasFifo' = [hasFifo EXCEPT ![c] = FALSE]
        BY <1>15 DEF KillWaiting
      <3>2. UNCHANGED <<asked, told>>
        BY <1>15 DEF KillWaiting
      <3> QED
        BY <3>1, <3>2, KillKeeps
    <2>2. QueuesOK'
      BY <1>15, HeadsTyped DEF KillWaiting
    <2>3. PcOK'
      BY <1>15, MovesTo DEF KillWaiting
    <2>4. HandsOK'
      BY <1>15 DEF KillWaiting, Goto
    <2>5. JobRight'
      BY <1>15 DEF KillWaiting, Goto
    <2> QED
      BY <2>1, <2>2, <2>3, <2>4, <2>5
  <1>16. CASE KillThreads
    BY <1>16 DEF KillThreads, Goto
  <1>17. CASE BroadcastKill
    BY <1>17, SMTT(30) DEF BroadcastKill, Woken
  <1>18. CASE Join
    BY <1>18 DEF Join, Goto
  <1>19. CASE Corrupt
    BY <1>19 DEF Corrupt, Corrupted
  <1>20. CASE Interrupt
    BY <1>20 DEF Interrupt, SetReg, NoJob
  <1>21. ASSUME NEW p \in Procs, Tell(p) PROVE Typed'
    <2>1. EnvOK'
      <3>1. CASE UNCHANGED <<client, told>>
        BY <1>21, <3>1 DEF Tell
      <3>2. CASE ~UNCHANGED <<client, told>>
        <4> DEFINE c == job[p].c
        <4>1. c \in Clients /\ UNCHANGED <<hasFifo, asked>>
          BY <1>21, <3>2 DEF Tell
        <4>2. client' = [client EXCEPT ![c] = Answered(@)] /\ told' = [told EXCEPT ![c] = @ + 1]
          BY <1>21, <3>2 DEF Tell, Answer
        <4> HIDE DEF c
        <4> QED
          BY <4>1, <4>2, AnswerTyped
      <3> QED
        BY <3>1, <3>2
    <2>2. QueuesOK'
      BY <1>21 DEF Tell, Goto, Answer, Answered
    <2>3. PcOK'
      BY <1>21, MovesTo DEF Tell
    <2>4. HandsOK'
      BY <1>21 DEF Tell, Goto, Answer, Answered
    <2>5. JobRight'
      BY <1>21, SMTT(30) DEF Tell, Goto, Answer, Answered
    <2> QED
      BY <2>1, <2>2, <2>3, <2>4, <2>5
  <1>22. ASSUME NEW p \in Procs, ReadNumClients(p) PROVE Typed'
    BY <1>22 DEF ReadNumClients, Goto, SetReg
  <1>23. ASSUME NEW p \in Procs, CountClient(p) PROVE Typed'
    BY <1>23, SMTT(30) DEF CountClient, AddNumClients, Goto
  <1>24. ASSUME NEW p \in Procs, FindFree(p) PROVE Typed'
    <2>1. EnvOK'
      BY <1>24 DEF FindFree, Goto, SetReg, FindInClientArray, NoIndex, Slots
    <2>2. QueuesOK'
      BY <1>24 DEF FindFree, Goto, SetReg, FindInClientArray, NoIndex, Slots
    <2>3. PcOK'
      BY <1>24 DEF FindFree, Goto, SetReg, FindInClientArray, NoIndex, Slots
    <2>4. HandsOK'
      <3>1. FindInClientArray(NoClient) \in Int
        BY FoundTyped
      <3> QED
        BY <1>24, <3>1 DEF FindFree, SetReg
    <2>5. JobRight'
      BY <1>24 DEF FindFree, Goto, SetReg, FindInClientArray, NoIndex, Slots
    <2> QED
      BY <2>1, <2>2, <2>3, <2>4, <2>5
  <1>25. ASSUME NEW p \in Procs, Store(p) PROVE Typed'
    <2>1. EnvOK'
      BY <1>25 DEF Store, Goto, SetReg, Corrupted
    <2>2. QueuesOK'
      BY <1>25 DEF Store, Goto, SetReg, Corrupted
    <2>3. PcOK'
      <3>1. CASE pc' = Corrupted
        BY <3>1 DEF Corrupted
      <3>2. CASE pc' # Corrupted
        BY <1>25, <3>2, MovesTo DEF Store
      <3> QED
        BY <3>1, <3>2
    <2>4. HandsOK'
      BY <1>25 DEF Store, Goto, SetReg, Corrupted
    <2>5. JobRight'
      BY <1>25 DEF Store, Goto, SetReg, Corrupted
    <2> QED
      BY <2>1, <2>2, <2>3, <2>4, <2>5
  <1>26. ASSUME NEW w \in Workers, TestKill(w) PROVE Typed'
    BY <1>26, SMTT(30) DEF TestKill, Goto
  <1>27. ASSUME NEW w \in Workers, TakeTask(w) PROVE Typed'
    <2>1. EnvOK'
      BY <1>27 DEF TakeTask, Goto, DequeueTask
    <2>2. QueuesOK'
      <3>1. CASE tasks = <<>>
        BY <1>27, <3>1 DEF TakeTask
      <3>2. CASE tasks # <<>>
        BY <1>27, <3>2, HeadsTyped DEF TakeTask, DequeueTask
      <3> QED
        BY <3>1, <3>2
    <2>3. PcOK'
      BY <1>27, MovesTo DEF TakeTask
    <2>4. HandsOK'
      <3>1. CASE tasks = <<>>
        BY <1>27, <3>1 DEF TakeTask
      <3>2. CASE tasks # <<>>
        <4>1. Head(tasks) \in Request
          BY <3>2, HeadsTyped
        <4>2. job' = [job EXCEPT ![w] = Head(tasks)] /\ UNCHANGED reg
          BY <1>27, <3>2 DEF TakeTask
        <4> QED
          BY <4>1, <4>2
      <3> QED
        BY <3>1, <3>2
    <2>5. JobRight'
      <3>1. \A p \in Procs \ {w} : pc'[p] = pc[p] /\ job'[p] = job[p]
        BY <1>27 DEF TakeTask, Goto
      <3>2. WorkerHolds(pc'[w], job'[w])
        <4>1. CASE tasks = <<>>
          BY <1>27, <4>1 DEF TakeTask, Goto
        <4>2. CASE tasks # <<>>
          <5> DEFINE r == Head(tasks)
          <5>1. r.c \in Clients /\ r.kind \in {"task", "quit"}
            BY <4>2, HeadsTyped
          <5>2. pc'[w] = "open" /\ job'[w] = r
            BY <1>27, <4>2 DEF TakeTask, Goto
          <5> HIDE DEF r
          <5> QED
            BY <5>1, <5>2
        <4> QED
          BY <4>1, <4>2
      <3> QED
        BY <3>1, <3>2, WorkerMoves
    <2> QED
      BY <2>1, <2>2, <2>3, <2>4, <2>5
  <1>28. ASSUME NEW w \in Workers, WorkerExits(w) PROVE Typed'
    BY <1>28, SMTT(30) DEF WorkerExits, Farewell, Woken
  <1>29. ASSUME NEW w \in Workers, OpenClient(w) PROVE Typed'
    <2>1. EnvOK'
      BY <1>29 DEF OpenClient, Goto
    <2>2. QueuesOK'
      BY <1>29 DEF OpenClient, Goto
    <2>3. PcOK'
      BY <1>29, MovesTo DEF OpenClient
    <2>4. HandsOK'
      BY <1>29 DEF OpenClient, Goto
    <2>5. JobRight'
      <3>1. \A p \in Procs \ {w} : pc'[p] = pc[p] /\ job'[p] = job[p]
        BY <1>29 DEF OpenClient, Goto
      <3>2. WorkerHolds(pc'[w], job'[w])
        BY <1>29 DEF OpenClient, Goto
      <3> QED
        BY <3>1, <3>2, WorkerMoves
    <2> QED
      BY <2>1, <2>2, <2>3, <2>4, <2>5
  <1>30. ASSUME NEW w \in Workers, Execute(w) PROVE Typed'
    BY <1>30, SMTT(30) DEF Execute, Goto, Finish, NoJob, Answer, Answered
  <1>31. ASSUME NEW w \in Workers, StartUpload(w) PROVE Typed'
    <2>1. EnvOK'
      <3>1. (client' = client \/ Answer(job[w].c)) /\ UNCHANGED <<hasFifo, asked, told>>
        BY <1>31 DEF StartUpload
      <3> QED
        BY <3>1, AnswerKeeps
    <2>2. QueuesOK'
      BY <1>31 DEF StartUpload, Goto, Answer, Answered
    <2>3. PcOK'
      BY <1>31 DEF StartUpload, Goto, Answer, Answered
    <2>4. HandsOK'
      BY <1>31 DEF StartUpload, Goto, Answer, Answered
    <2>5. JobRight'
      <3>1. \A p \in Procs \ {w} : pc'[p] = pc[p] /\ job'[p] = job[p]
        BY <1>31 DEF StartUpload, Goto
      <3>2. WorkerHolds(pc'[w], job'[w])
        BY <1>31 DEF StartUpload, Goto
      <3> QED
        BY <3>1, <3>2, WorkerMoves
    <2> QED
      BY <2>1, <2>2, <2>3, <2>4, <2>5
  <1>32. ASSUME NEW w \in Workers, Receive(w) PROVE Typed'
    <2>1. EnvOK'
      <3>1. (client' = client \/ Answer(job[w].c)) /\ UNCHANGED <<hasFifo, asked, told>>
        BY <1>32 DEF Receive
      <3> QED
        BY <3>1, AnswerKeeps
    <2>2. QueuesOK'
      BY <1>32 DEF Receive, Goto, Finish, NoJob, Answer, Answered
    <2>3. PcOK'
      BY <1>32, MovesTo DEF Receive
    <2>4. HandsOK'
      <3>1. CASE UNCHANGED job
        BY <1>32, <3>1 DEF Receive
      <3>2. CASE Finish(w)
        BY <1>32, <3>2 DEF Receive, Finish, NoJob
      <3> QED
        BY <1>32, <3>1, <3>2 DEF Receive
    <2>5. JobRight'
      <3>1. \A p \in Procs \ {w} : pc'[p] = pc[p] /\ job'[p] = job[p]
        BY <1>32 DEF Receive, Goto, Finish
      <3>2. WorkerHolds(pc'[w], job'[w])
        BY <1>32 DEF Receive, Goto
      <3> QED
        BY <3>1, <3>2, WorkerMoves
    <2> QED
      BY <2>1, <2>2, <2>3, <2>4, <2>5
  <1>33. ASSUME NEW w \in Workers, Lookup(w) PROVE Typed'
    <2>1. EnvOK'
      BY <1>33 DEF Lookup, Goto, SetReg, Answer, Answered, FindInClientArray, NoIndex, Slots
    <2>2. QueuesOK'
      BY <1>33 DEF Lookup, Goto, SetReg, Answer, Answered, FindInClientArray, NoIndex, Slots
    <2>3. PcOK'
      BY <1>33 DEF Lookup, Goto, SetReg, Answer, Answered, FindInClientArray, NoIndex, Slots
    <2>4. HandsOK'
      <3>1. FindInClientArray(job[w].c) \in Int
        BY FoundTyped
      <3> QED
        BY <1>33, <3>1 DEF Lookup, SetReg
    <2>5. JobRight'
      BY <1>33, SMTT(30) DEF Lookup, Goto, SetReg, Answer, Answered, FindInClientArray, NoIndex, Slots
    <2> QED
      BY <2>1, <2>2, <2>3, <2>4, <2>5
  <1>34. ASSUME NEW w \in Workers, RemoveFromPidQueue(w) PROVE Typed'
    <2>1. EnvOK'
      BY <1>34 DEF RemoveFromPidQueue, Goto
    <2>2. QueuesOK'
      BY <1>34, Removed DEF RemoveFromPidQueue
    <2>3. PcOK'
      BY <1>34 DEF RemoveFromPidQueue, Goto
    <2>4. HandsOK'
      BY <1>34 DEF RemoveFromPidQueue, Goto
    <2>5. JobRight'
      BY <1>34 DEF RemoveFromPidQueue, Goto
    <2> QED
      BY <2>1, <2>2, <2>3, <2>4, <2>5
  <1>35. ASSUME NEW w \in Workers, ReadForQuit(w) PROVE Typed'
    BY <1>35 DEF ReadForQuit, Goto, SetReg
  <1>36. ASSUME NEW w \in Workers, UncountClient(w) PROVE Typed'
    BY <1>36 DEF UncountClient, AddNumClients, Goto
  <1>37. ASSUME NEW w \in Workers, ClearSlot(w) PROVE Typed'
    BY <1>37 DEF ClearSlot, Goto
  <1>38. ASSUME NEW w \in Workers, LookForWaiting(w) PROVE Typed'
    BY <1>38 DEF LookForWaiting, Goto
  <1>39. ASSUME NEW w \in Workers, DequeuePid(w) PROVE Typed'
    BY <1>39 DEF DequeuePid, Goto, Dequeued
  <1>40. ASSUME NEW w \in Workers, Unlink(w) PROVE Typed'
    <2>1. EnvOK'
      BY <1>40 DEF Unlink, Goto, Finish, NoJob, SetReg
    <2>2. QueuesOK'
      BY <1>40 DEF Unlink, Goto, Finish, NoJob, SetReg
    <2>3. PcOK'
      BY <1>40 DEF Unlink, Goto, Finish, NoJob, SetReg
    <2>4. HandsOK'
      BY <1>40 DEF Unlink, Goto, Finish, NoJob, SetReg
    <2>5. JobRight'
      BY <1>40 DEF Unlink, Goto, Finish, NoJob, SetReg
    <2> QED
      BY <2>1, <2>2, <2>3, <2>4, <2>5
  <1>41. CASE UNCHANGED vars
    BY <1>41 DEF vars, env, adm, stop
  <1> HIDE DEF EnvOK, QueuesOK, PcOK, HandsOK, JobRight
  <1> QED
    BY <1>1, <1>2, <1>3, <1>4, <1>5, <1>6, <1>7, <1>8, <1>9, <1>10, <1>11,
       <1>12, <1>13, <1>14, <1>15, <1>16, <1>17, <1>18, <1>19, <1>20, <1>21, <1>22,
       <1>23, <1>24, <1>25, <1>26, <1>27, <1>28, <1>29, <1>30, <1>31, <1>32, <1>33,
       <1>34, <1>35, <1>36, <1>37, <1>38, <1>39, <1>40, <1>41
    DEF Next, Client, MainStep, Admit, WorkerStep, Procs

\* At the start nothing is on its way.
LEMMA TypedInit ==
  ASSUME Init
  PROVE  Typed
  <1> USE BiboAssumption DEF Init
  <1>1. EnvOK
    BY DEF EnvOK
  <1>2. QueuesOK
    <2>1. serverFifo \in Seq(Requests(Kinds)) /\ tasks \in Seq(Requests({"task", "quit"})) /\ pids \in Seq(Clients)
      OBVIOUS
    <2>2. slots \in [Slots -> Clients \cup {NoClient}]
      OBVIOUS
    <2>3. numClients \in Int /\ killThreads \in BOOLEAN /\ lockHeld \in BOOLEAN
      <3>1. numClients = 0 /\ killThreads = FALSE /\ lockHeld = FALSE
        BY Zenon
      <3> HIDE DEF Init
      <3>2. numClients \in Int
        BY <3>1
      <3>3. killThreads \in BOOLEAN /\ lockHeld \in BOOLEAN
        BY <3>1, Zenon
      <3> QED
        BY <3>2, <3>3
    <2> HIDE DEF Init
    <2> QED
      BY <2>1, <2>2, <2>3 DEF QueuesOK
  <1>3. PcOK
    BY DEF PcOK, Procs, MainPlaces, WorkerPlaces
  <1>4. HandsOK
    BY DEF HandsOK, NoJob, Request, Procs
  <1>5. JobRight
    BY DEF JobRight, MainHolds, WorkerHolds, Procs
  <1> QED
    BY <1>1, <1>2, <1>3, <1>4, <1>5 DEF Typed

\* The state of the server keeps its types: requests and tasks are those of
\* clients, only tasks and quits are queued for the workers, and every thread
\* stays within its own program, whatever main and the workers do to the table
\* and the queue without a lock (server.c 98-141, 246-266, 413-516).
THEOREM TypeCorrect == Spec => []TypeOK
  <1>1. Init => Typed
    BY TypedInit
  <1>2. Typed /\ [Next]_vars => Typed'
    BY TypedStep
  <1>3. Typed => TypeOK
    BY DEF Typed, EnvOK, QueuesOK, PcOK, HandsOK, TypeOK
  <1> QED
    BY <1>1, <1>2, <1>3, PTL DEF Spec

-----------------------------------------------------------------------------
(* Who lets a client in.                                                    *)

\* Nothing is in a queue that was emptied.
LEMMA Emptied ==
  ASSUME NEW V
  PROVE  ~Has(<<>>, V) /\ Once(<<>>, V)
  BY DEF Has, Once

Of(c, kinds) == [c : {c}, kind : kinds]
Conn == {"connect", "try"}

\* The places of a request for admission: written, in main's hands, in the
\* queue of waiting clients, and with the worker that took it from there.
Asks(c)  == Has(serverFifo, Of(c, Conn))
AtDoor(c) ==
  /\ job[Main].c = c
  /\ \/ pc[Main] \in {"check", "tell", "pid_put", "refuse", "open_try", "open_tell", "tell_try"}
     \/ pc[Main] \in {"num", "num_inc", "find", "store"} /\ job[Main].kind = "try"
Waits(c) == Has(pids, {c})
IsLetIn(c, w) == job[w].c = c /\ pc[w] = "tell"

\* A client that was told it is connected asks no more, and the request of one
\* that was not is in one place at most.
OneClaim(c) ==
  /\ told[c] \in {0, 1}
  /\ Once(serverFifo, Of(c, Conn)) /\ Once(pids, {c})
  /\ \A v, w \in Workers : IsLetIn(c, v) /\ IsLetIn(c, w) => v = w
  /\ Asks(c) => ~AtDoor(c) /\ ~Waits(c) /\ told[c] = 0
  /\ AtDoor(c) => ~Waits(c) /\ told[c] = 0
  /\ Waits(c) => told[c] = 0
  /\ \A w \in Workers : IsLetIn(c, w) => ~Asks(c) /\ ~AtDoor(c) /\ ~Waits(c) /\ told[c] = 0
  /\ client[c] = "out" => /\ ~Asks(c) /\ ~AtDoor(c) /\ ~Waits(c) /\ told[c] = 0
                          /\ \A w \in Workers : ~IsLetIn(c, w)

\* A step that moves no request on and tells no client.
LEMMA ClaimKept ==
  ASSUME NEW d \in Clients, OneClaim(d), told'[d] = told[d],
         client'[d] = "out" => client[d] = "out",
         Asks(d)' => Asks(d), Once(serverFifo, Of(d, Conn)) => Once(serverFifo', Of(d, Conn)),
         Waits(d)' => Waits(d), Once(pids, {d}) => Once(pids', {d}),
         AtDoor(d)' => AtDoor(d), \A w \in Workers : IsLetIn(d, w)' => IsLetIn(d, w)
  PROVE  OneClaim(d)'
  <1> USE DEF OneClaim
  <1>1. \A v, w \in Workers : IsLetIn(d, v)' /\ IsLetIn(d, w)' => v = w
    OBVIOUS
  <1> QED
    BY <1>1

\* Every step leaves the request of a client in one place: the queues pass it
\* on and do not copy it, and only the thread that has it tells the client.
LEMMA ClaimStep ==
  ASSUME Typed, NEW d \in Clients, OneClaim(d), [Next]_vars
  PROVE  OneClaim(d)'
  <1> USE BiboAssumption DEF Asks, AtDoor, Waits, IsLetIn, Procs, env, adm, stop, server
  <1>0. /\ DOMAIN pc = Procs /\ DOMAIN job = Procs /\ DOMAIN client = Clients /\ DOMAIN told = Clients
        /\ job[Main] \in Request
    BY DEF Typed, PcOK, HandsOK, EnvOK

  <1>1. ASSUME NEW c \in Clients, ClientConnects(c) PROVE OneClaim(d)'
    <2> DEFINE V == Of(d, Conn)
    <2>1. PICK k \in Conn : Send(c, k)
      BY <1>1 DEF ClientConnects, Conn
    <2>2. [c |-> c, kind |-> k] \in V <=> c = d
      BY DEF Of
    <2>3. /\ Has(serverFifo', V) => Has(serverFifo, V) \/ c = d
          /\ Once(serverFifo, V) /\ ~(Has(serverFifo, V) /\ c = d) => Once(serverFifo', V)
      BY <2>1, <2>2, Sent DEF QueuesOK, Typed, Kinds, Conn
    <2> HIDE DEF V
    <2>4. client[c] = "out" /\ client' = [client EXCEPT ![c] = "opening"]
      BY <1>1 DEF ClientConnects, Become
    <2>5. UNCHANGED <<told, pids, pc, job>>
      BY <1>1 DEF ClientConnects, server, adm
    <2> QED
      BY <1>0, <2>3, <2>4, <2>5 DEF V, OneClaim
  <1>2. ASSUME NEW c \in Clients, ClientAsks(c) PROVE OneClaim(d)'
    <2> DEFINE V == Of(d, Conn)
    <2>1. /\ Has(serverFifo', V) => Has(serverFifo, V)
          /\ Once(serverFifo, V) => Once(serverFifo', V)
      <3>1. \A k \in Kinds \ Conn : [c |-> c, kind |-> k] \notin V
        BY DEF Of
      <3> QED
        BY <1>2, <3>1, Sent DEF ClientAsks, QueuesOK, Typed, Kinds, Conn
    <2> HIDE DEF V
    <2> QED
      BY <1>2, <1>0, <2>1, ClaimKept DEF ClientAsks, Become, V
  <1>3. ASSUME NEW c \in Clients, ClientQuits(c) PROVE OneClaim(d)'
    <2> DEFINE V == Of(d, Conn)
    <2>1. /\ Has(serverFifo', V) => Has(serverFifo, V)
          /\ Once(serverFifo, V) => Once(serverFifo', V)
      <3>1. \A k \in Kinds \ Conn : [c |-> c, kind |-> k] \notin V
        BY DEF Of
      <3> QED
        BY <1>3, <3>1, Sent DEF ClientQuits, QueuesOK, Typed, Kinds, Conn
    <2> HIDE DEF V
    <2> QED
      BY <1>3, <1>0, <2>1, ClaimKept DEF ClientQuits, Become, V
  <1>4. ASSUME NEW c \in Clients, ClientKillsServer(c) PROVE OneClaim(d)'
    <2> DEFINE V == Of(d, Conn)
    <2>1. /\ Has(serverFifo', V) => Has(serverFifo, V)
          /\ Once(serverFifo, V) => Once(serverFifo', V)
      <3>1. \A k \in Kinds \ Conn : [c |-> c, kind |-> k] \notin V
        BY DEF Of
      <3> QED
        BY <1>4, <3>1, Sent DEF ClientKillsServer, QueuesOK, Typed, Kinds, Conn
    <2> HIDE DEF V
    <2> QED
      BY <1>4, <1>0, <2>1, ClaimKept DEF ClientKillsServer, Become, V
  <1>5. CASE MainRead
    <2> DEFINE V == Of(d, Conn)
               r == Head(serverFifo)
    <2>1. r \in Requests(Kinds)
      BY <1>5, HeadsTyped DEF MainRead, Typed
    <2>2. r \in V <=> r.c = d /\ r.kind \in Conn
      BY <2>1 DEF Of, Requests
    <2>3. /\ Has(serverFifo', V) => Has(serverFifo, V)
          /\ r \in V => Has(serverFifo, V)
          /\ Once(serverFifo, V) => Once(serverFifo', V) /\ ~(Has(serverFifo', V) /\ r \in V)
      BY <1>5, Taken, Emptied DEF MainRead, QueuesOK, Typed
    <2>4. /\ job' = [job EXCEPT ![Main] = r] /\ pc' = [pc EXCEPT ![Main] = Dispatch(r.kind)]
          /\ UNCHANGED <<client, told, pids>>
      BY <1>5 DEF MainRead, Goto
    <2> HIDE DEF V, r
    <2> QED
      BY <1>0, <2>2, <2>3, <2>4 DEF V, Dispatch, Conn, OneClaim
  <1>6. CASE CheckRoom
    BY <1>6, <1>0, ClaimKept DEF CheckRoom, Goto, Opened
  <1>7. CASE EnqueuePid
    <2>1. job[Main].c \in Clients
      BY <1>7 DEF EnqueuePid, Goto, JobRight, MainHolds, WorkerHolds, Typed
    <2>2. /\ Has(pids', {d}) <=> Has(pids, {d}) \/ job[Main].c = d
          /\ Once(pids, {d}) /\ ~(Has(pids, {d}) /\ job[Main].c = d) => Once(pids', {d})
      BY <1>7, <2>1, Appended DEF EnqueuePid, QueuesOK, Typed
    <2> QED
      BY <1>7, <1>0, <2>2 DEF EnqueuePid, Goto, OneClaim
  <1>8. CASE OpenTry
    BY <1>8, <1>0, ClaimKept DEF OpenTry, Goto, Opened
  <1>9. CASE AnswerTry
    <2> DEFINE c == job[Main].c
    <2>1. UNCHANGED <<serverFifo, pids, job>> /\ pc'[Main] = "read" /\ \A w \in Workers : pc'[w] = pc[w]
      BY <1>9, <1>0 DEF AnswerTry, Goto
    <2>2. /\ ~AtDoor(d)' /\ (Asks(d)' <=> Asks(d)) /\ (Waits(d)' <=> Waits(d))
          /\ \A w \in Workers : IsLetIn(d, w)' <=> IsLetIn(d, w)
      BY <2>1
    <2>3. c \in Clients /\ AtDoor(c)
      BY <1>9 DEF AnswerTry, Goto, JobRight, MainHolds, WorkerHolds, Typed
    <2>4. CASE c = d /\ told' # told
      <3>1. told'[d] = told[d] + 1
        BY <1>9, <1>0, <2>4 DEF AnswerTry
      <3>2. told[d] = 0 /\ ~Asks(d) /\ ~Waits(d) /\ \A w \in Workers : ~IsLetIn(d, w)
        BY <2>3, <2>4 DEF OneClaim
      <3>3. client[d] # "out" /\ client'[d] # "out"
        BY <1>9, <1>0, <2>3, <2>4 DEF AnswerTry, Answer, Answered, OneClaim
      <3> HIDE DEF AtDoor, Asks, Waits, IsLetIn
      <3> QED
        BY <2>1, <2>2, <3>1, <3>2, <3>3 DEF OneClaim
    <2>5. CASE ~(c = d /\ told' # told)
      <3>1. told'[d] = told[d]
        BY <1>9, <1>0, <2>5 DEF AnswerTry
      <3>2. client'[d] = "out" => client[d] = "out"
        BY <1>9, <1>0 DEF AnswerTry, Answer, Answered
      <3> HIDE DEF AtDoor, Asks, Waits, IsLetIn
      <3> QED
        BY <2>1, <2>2, <3>1, <3>2, ClaimKept
    <2> QED
      BY <2>4, <2>5
  <1>10. CASE LockQueue
    BY <1>10, <1>0, ClaimKept DEF LockQueue, Goto
  <1>11. CASE EnqueueTask
    BY <1>11, <1>0, ClaimKept DEF EnqueueTask, Goto
  <1>12. CASE SignalTask
    BY <1>12, <1>0, ClaimKept DEF SignalTask, WokenBySignal
  <1>13. CASE KillSlot
    <2>1. UNCHANGED <<told, serverFifo, pids>> /\ (client'[d] = "out" => client[d] = "out")
      BY <1>13, <1>0 DEF KillSlot, Goto
    <2>2. ~AtDoor(d)' /\ \A w \in Workers : IsLetIn(d, w)' => IsLetIn(d, w)
      BY <1>13, <1>0 DEF KillSlot, Goto
    <2> QED
      BY <2>1, <2>2, ClaimKept
  <1>14. CASE KillFifo
    BY <1>14, <1>0, ClaimKept DEF KillFifo, Goto
  <1>15. CASE KillWaiting
    <2>1. /\ Has(pids', {d}) => Has(pids, {d})
          /\ Once(pids, {d}) => Once(pids', {d})
      <3>1. CASE pids = <<>>
        BY <1>15, <3>1 DEF KillWaiting
      <3>2. CASE pids # <<>>
        <4>1. pids' = Tail(pids) /\ pids \in Seq(Clients)
          BY <1>15, <3>2 DEF KillWaiting, QueuesOK, Typed
        <4> QED
          BY <3>2, <4>1, Taken
      <3> QED
        BY <3>1, <3>2
    <2>2. client'[d] = "out" => client[d] = "out"
      BY <1>15, <1>0, HeadsTyped DEF KillWaiting, Typed
    <2> QED
      BY <1>15, <1>0, <2>1, <2>2, ClaimKept DEF KillWaiting, Goto
  <1>16. CASE KillThreads
    BY <1>16, <1>0, ClaimKept DEF KillThreads, Goto
  <1>17. CASE BroadcastKill
    BY <1>17, <1>0, ClaimKept DEF BroadcastKill, Woken
  <1>18. CASE Join
    BY <1>18, <1>0, ClaimKept DEF Join, Goto
  <1>19. CASE Corrupt
    BY <1>19, <1>0, ClaimKept DEF Corrupt, Corrupted
  <1>20. CASE Interrupt
    <2>1. ~Has(serverFifo', Of(d, Conn)) /\ Once(serverFifo', Of(d, Conn))
      BY <1>20, Emptied DEF Interrupt
    <2> QED
      BY <1>20, <1>0, <2>1, ClaimKept DEF Interrupt, NoJob
  <1>21. ASSUME NEW p \in Procs, Tell(p) PROVE OneClaim(d)'
    <2> DEFINE c == job[p].c
    <2>1. UNCHANGED <<serverFifo, pids, job>> /\ pc'[p] \in {"num", "stuck"} /\ \A q \in Procs \ {p} : pc'[q] = pc[q]
      BY <1>21, <1>0 DEF Tell, Goto
    <2>2. /\ AtDoor(d)' => AtDoor(d)
          /\ \A w \in Workers : IsLetIn(d, w)' => IsLetIn(d, w) /\ w # p
          /\ (Asks(d)' <=> Asks(d)) /\ (Waits(d)' <=> Waits(d))
      <3>1. p = Main => job[Main].kind # "try"
        BY <1>21 DEF Tell, Goto, Typed, JobRight, MainHolds, WorkerHolds
      <3> QED
        BY <2>1, <3>1
    <2>3. /\ p = Main => AtDoor(c) /\ (c = d => ~AtDoor(d)')
          /\ p \in Workers => IsLetIn(c, p)
      <3>1. pc[p] = "tell" /\ (p = Main => job[Main].kind # "try")
        BY <1>21 DEF Tell, Goto, Typed, JobRight, MainHolds, WorkerHolds
      <3> QED
        BY <2>1, <3>1
    <2>4. CASE c = d /\ told' # told
      <3>1. told'[d] = told[d] + 1
        BY <1>21, <1>0, <2>4 DEF Tell
      <3>2. told[d] = 0 /\ ~Asks(d) /\ ~Waits(d)
        BY <2>3, <2>4 DEF OneClaim
      <3>3. ~AtDoor(d)' /\ \A w \in Workers : ~IsLetIn(d, w)'
        <4> HIDE DEF AtDoor, IsLetIn
        <4> QED
          BY <2>2, <2>3, <2>4 DEF OneClaim
      <3>4. client[d] # "out" /\ client'[d] # "out"
        <4>1. client[d] # "out"
          BY <2>3, <2>4 DEF OneClaim
        <4> QED
          BY <1>21, <1>0, <4>1 DEF Tell, Answer, Answered
      <3> HIDE DEF AtDoor, Asks, Waits, IsLetIn
      <3> QED
        BY <2>1, <2>2, <3>1, <3>2, <3>3, <3>4 DEF OneClaim
    <2>5. CASE ~(c = d /\ told' # told)
      <3>1. told'[d] = told[d]
        BY <1>21, <1>0, <2>5 DEF Tell
      <3>2. client'[d] = "out" => client[d] = "out"
        BY <1>21, <1>0 DEF Tell, Answer, Answered
      <3> HIDE DEF AtDoor, Asks, Waits, IsLetIn
      <3> QED
        BY <2>1, <2>2, <3>1, <3>2, ClaimKept
    <2> QED
      BY <2>4, <2>5
  <1>22. ASSUME NEW p \in Procs, ReadNumClients(p) PROVE OneClaim(d)'
    BY <1>22, <1>0, ClaimKept DEF ReadNumClients, Goto, SetReg
  <1>23. ASSUME NEW p \in Procs, CountClient(p) PROVE OneClaim(d)'
    BY <1>23, <1>0, ClaimKept DEF CountClient, AddNumClients, Goto
  <1>24. ASSUME NEW p \in Procs, FindFree(p) PROVE OneClaim(d)'
    BY <1>24, <1>0, ClaimKept DEF FindFree, Goto, SetReg, FindInClientArray, NoIndex, Slots
  <1>25. ASSUME NEW p \in Procs, Store(p) PROVE OneClaim(d)'
    BY <1>25, <1>0, ClaimKept DEF Store, Goto, SetReg, Corrupted
  <1>26. ASSUME NEW w \in Workers, TestKill(w) PROVE OneClaim(d)'
    BY <1>26, <1>0, ClaimKept DEF TestKill, Goto
  <1>27. ASSUME NEW w \in Workers, TakeTask(w) PROVE OneClaim(d)'
    BY <1>27, <1>0, ClaimKept DEF TakeTask, Goto, DequeueTask
  <1>28. ASSUME NEW w \in Workers, WorkerExits(w) PROVE OneClaim(d)'
    BY <1>28, <1>0, ClaimKept DEF WorkerExits, Farewell, Woken
  <1>29. ASSUME NEW w \in Workers, OpenClient(w) PROVE OneClaim(d)'
    BY <1>29, <1>0, ClaimKept DEF OpenClient, Goto
  <1>30. ASSUME NEW w \in Workers, Execute(w) PROVE OneClaim(d)'
    BY <1>30, <1>0, ClaimKept DEF Execute, Goto, Finish, NoJob, Answer, Answered
  <1>31. ASSUME NEW w \in Workers, StartUpload(w) PROVE OneClaim(d)'
    BY <1>31, <1>0, ClaimKept DEF StartUpload, Goto, Answer, Answered
  <1>32. ASSUME NEW w \in Workers, Receive(w) PROVE OneClaim(d)'
    BY <1>32, <1>0, ClaimKept DEF Receive, Goto, Finish, NoJob, Answer, Answered
  <1>33. ASSUME NEW w \in Workers, Lookup(w) PROVE OneClaim(d)'
    BY <1>33, <1>0, ClaimKept DEF Lookup, Goto, SetReg, Answer, Answered, FindInClientArray, NoIndex, Slots
  <1>34. ASSUME NEW w \in Workers, RemoveFromPidQueue(w) PROVE OneClaim(d)'
    <2>1. /\ Has(pids', {d}) => Has(pids, {d})
          /\ Once(pids, {d}) => Once(pids', {d})
      BY <1>34, Removed DEF RemoveFromPidQueue, QueuesOK, Typed
    <2> QED
      BY <1>34, <1>0, <2>1, ClaimKept DEF RemoveFromPidQueue, Goto
  <1>35. ASSUME NEW w \in Workers, ReadForQuit(w) PROVE OneClaim(d)'
    BY <1>35, <1>0, ClaimKept DEF ReadForQuit, Goto, SetReg
  <1>36. ASSUME NEW w \in Workers, UncountClient(w) PROVE OneClaim(d)'
    BY <1>36, <1>0, ClaimKept DEF UncountClient, AddNumClients, Goto
  <1>37. ASSUME NEW w \in Workers, ClearSlot(w) PROVE OneClaim(d)'
    BY <1>37, <1>0, ClaimKept DEF ClearSlot, Goto
  <1>38. ASSUME NEW w \in Workers, LookForWaiting(w) PROVE OneClaim(d)'
    BY <1>38, <1>0, ClaimKept DEF LookForWaiting, Goto
  <1>39. ASSUME NEW w \in Workers, DequeuePid(w) PROVE OneClaim(d)'
    <2> DEFINE h == Head(pids)
    <2>1. CASE pids = <<>>
      BY <1>39, <1>0, <2>1, ClaimKept DEF DequeuePid, Dequeued, Goto
    <2>2. CASE pids # <<>>
      <3>1. /\ Has(pids, {d}) <=> Has(pids', {d}) \/ h = d
            /\ Once(pids, {d}) => Once(pids', {d}) /\ ~(Has(pids', {d}) /\ h = d)
        BY <1>39, <2>2, Taken DEF DequeuePid, Dequeued, QueuesOK, Typed
      <3>2. /\ job'[w].c = h /\ \A v \in Procs \ {w} : job'[v] = job[v]
            /\ pc'[w] = "tell" /\ \A v \in Procs \ {w} : pc'[v] = pc[v]
            /\ UNCHANGED <<client, told, serverFifo>>
        BY <1>39, <1>0, <2>2 DEF DequeuePid, Goto
      <3>3. (Asks(d)' <=> Asks(d)) /\ (AtDoor(d)' <=> AtDoor(d)) /\ (Waits(d) <=> Waits(d)' \/ h = d)
        BY <1>0, <3>1, <3>2
      <3>4. \A v \in Workers : IsLetIn(d, v)' <=> IF v = w THEN h = d ELSE IsLetIn(d, v)
        BY <1>0, <3>2
      <3>5. Once(serverFifo', Of(d, Conn)) <=> Once(serverFifo, Of(d, Conn))
        BY <3>2
      <3> HIDE DEF h, Asks, AtDoor, Waits, IsLetIn
      <3> QED
        <4>1. \A u, v \in Workers : IsLetIn(d, u)' /\ IsLetIn(d, v)' => u = v
          BY <3>3, <3>4 DEF OneClaim
        <4>2. Waits(d)' => /\ ~Asks(d)' /\ ~AtDoor(d)' /\ told'[d] = 0
                           /\ \A v \in Workers : ~IsLetIn(d, v)'
          BY <3>1, <3>2, <3>3, <3>4 DEF OneClaim, Waits
        <4>3. h = d => ~Asks(d)' /\ ~AtDoor(d)' /\ ~Waits(d)' /\ told'[d] = 0
          BY <3>1, <3>2, <3>3 DEF OneClaim, Waits
        <4>4. client'[d] = "out" => ~Waits(d)' /\ h # d
          BY <3>2, <3>3 DEF OneClaim
        <4> QED
          BY <3>1, <3>2, <3>3, <3>4, <3>5, <4>1, <4>2, <4>3, <4>4 DEF OneClaim
    <2> QED
      BY <2>1, <2>2
  <1>40. ASSUME NEW w \in Workers, Unlink(w) PROVE OneClaim(d)'
    BY <1>40, <1>0, ClaimKept DEF Unlink, Goto, Finish, NoJob, SetReg
  <1>41. CASE UNCHANGED vars
    BY <1>41, <1>0, ClaimKept DEF vars, env, adm, stop
  <1> HIDE DEF OneClaim, Typed
  <1> QED
    BY <1>1, <1>2, <1>3, <1>4, <1>5, <1>6, <1>7, <1>8, <1>9, <1>10, <1>11,
       <1>12, <1>13, <1>14, <1>15, <1>16, <1>17, <1>18, <1>19, <1>20, <1>21, <1>22,
       <1>23, <1>24, <1>25, <1>26, <1>27, <1>28, <1>29, <1>30, <1>31, <1>32, <1>33,
       <1>34, <1>35, <1>36, <1>37, <1>38, <1>39, <1>40, <1>41
    DEF Next, Client, MainStep, Admit, WorkerStep, Procs

\* Nobody has asked at the start.
LEMMA ClaimInit ==
  ASSUME Init, NEW d \in Clients
  PROVE  OneClaim(d)
  <1>1. told[d] = 0 /\ serverFifo = <<>> /\ pids = <<>> /\ \A p \in Procs : job[p].c = NoClient
    BY DEF Init, NoJob
  <1>2. ~Asks(d) /\ ~Waits(d) /\ Once(serverFifo, Of(d, Conn)) /\ Once(pids, {d})
    BY <1>1, Emptied DEF Asks, Waits
  <1>3. ~AtDoor(d) /\ \A w \in Workers : ~IsLetIn(d, w)
    BY <1>1, BiboAssumption DEF AtDoor, IsLetIn, Procs
  <1> QED
    BY <1>1, <1>2, <1>3 DEF OneClaim

ClaimRight == \A d \in Clients : OneClaim(d)

\* No client is told twice that it is connected, whoever lets it in, and none
\* waits twice or after it was told: main hands a request on when it queues the
\* client, and the worker that ends another client takes it from the queue
\* before it tells it (server.c 101-138, 421-459).
THEOREM ClientsAreToldOnce == Spec => []ToldOnce
  <1>1. Init => ClaimRight
    BY ClaimInit DEF ClaimRight
  <1>2. Typed /\ ClaimRight /\ [Next]_vars => ClaimRight'
    BY ClaimStep DEF ClaimRight
  <1>3. ClaimRight => ToldOnce
    <2> SUFFICES ASSUME NEW c \in Clients, OneClaim(c)
                 PROVE  /\ told[c] <= 1
                        /\ Cardinality({i \in DOMAIN pids : pids[i] = c}) <= 1 - told[c]
      BY DEF ClaimRight, ToldOnce
    <2> DEFINE I == {i \in DOMAIN pids : pids[i] = c}
    <2>1. told[c] \in {0, 1}
      BY DEF OneClaim
    <2>2. CASE Waits(c)
      <3>1. PICK i \in DOMAIN pids : pids[i] = c
        BY <2>2 DEF Waits, Has
      <3>2. I = {i}
        BY <3>1 DEF OneClaim, Once
      <3>3. Cardinality(I) = 1
        BY <3>2, FS_Singleton
      <3> HIDE DEF I
      <3>4. Cardinality(I) <= 1 - told[c] /\ told[c] <= 1
        BY <3>3, <2>2 DEF OneClaim
      <3> QED
        BY <3>4 DEF I
    <2>3. CASE ~Waits(c)
      <3>1. I = {}
        BY <2>3 DEF Waits, Has
      <3>2. Cardinality(I) = 0
        BY <3>1, FS_EmptySet
      <3> HIDE DEF I
      <3>3. Cardinality(I) <= 1 - told[c] /\ told[c] <= 1
        BY <3>2, <2>1
      <3> QED
        BY <3>3 DEF I
    <2> QED
      BY <2>2, <2>3
  <1>4. Init => Typed
    BY TypedInit
  <1>5. Typed /\ [Next]_vars => Typed'
    BY TypedStep
  <1> QED
    BY <1>1, <1>2, <1>3, <1>4, <1>5, PTL DEF Spec

-----------------------------------------------------------------------------
(* The way of a task.                                                       *)

\* Until main ends the server, or the queue of waiting clients is corrupt.
Serving == pc[Main] # "corrupt" /\ ~Killing

\* The places of a task: written, queued, and with a thread.
Ordered(c) == Has(serverFifo, Of(c, {"task"}))
Queued(c)  == Has(tasks, Of(c, {"task"}))
OrderedOnce(c) == Once(serverFifo, Of(c, {"task"}))
QueuedOnce(c)  == Once(tasks, Of(c, {"task"}))
Handles(c, p) ==
  /\ job[p].c = c /\ job[p].kind = "task"
  /\ p = Main => pc[p] \in {"enqueue", "append"}
  /\ pc[p] \in {"enqueue", "append", "open", "execute", "receive", "stuck"}

\* A client asks to be let in, and a client leaves, if only its quit is not yet
\* looked up.
Admitted(c) == Asks(c) \/ AtDoor(c) \/ Waits(c) \/ \E w \in Workers : IsLetIn(c, w)
Leaving(c) ==
  \/ Has(serverFifo, Of(c, {"quit"})) \/ Has(tasks, Of(c, {"quit"}))
  \/ \E p \in Procs : job[p].c = c /\ job[p].kind = "quit" /\ pc[p] \in {"enqueue", "append", "open", "lookup"}

\* A task is in one place, the one a client awaits is somewhere, and what is on
\* the way of a client says where the client is: an answer meets the request it
\* was meant for.
OneTask(c) ==
  /\ OrderedOnce(c) /\ QueuedOnce(c)
  /\ \A p, q \in Procs : Handles(c, p) /\ Handles(c, q) => p = q
  /\ Ordered(c) => ~Queued(c) /\ \A p \in Procs : ~Handles(c, p)
  /\ Queued(c) => \A p \in Procs : ~Handles(c, p)
  /\ client[c] = "busy" => Ordered(c) \/ Queued(c) \/ \E p \in Procs : Handles(c, p)
  /\ Ordered(c) \/ Queued(c) => client[c] \in {"busy", "leaving", "gone"}
  /\ \A p \in Procs : Handles(c, p) => client[c] \in {"busy", "leaving", "gone"}
  /\ Admitted(c) => client[c] \in {"opening", "waiting", "leaving", "gone"}
  /\ Leaving(c) => client[c] \in {"leaving", "gone"}

\* A step that leaves the task of a client where it is, while the client stays
\* as it is, ends, or has its FIFO opened.
LEMMA TaskKept ==
  ASSUME NEW d \in Clients, OneTask(d),
         \/ client'[d] = client[d] \/ client'[d] \in {"leaving", "gone"}
         \/ client[d] = "opening" /\ client'[d] = "waiting",
         Ordered(d)' <=> Ordered(d), OrderedOnce(d) => OrderedOnce(d)',
         Queued(d)' <=> Queued(d), QueuedOnce(d) => QueuedOnce(d)',
         \A p \in Procs : Handles(d, p)' <=> Handles(d, p),
         Admitted(d)' => Admitted(d),
         Leaving(d)' => Leaving(d) \/ client'[d] \in {"leaving", "gone"}
  PROVE  OneTask(d)'
  BY DEF OneTask

\* A signal takes a worker that waits out of its wait, and no other.
LEMMA Signalled ==
  ASSUME DOMAIN pc = Procs, SignalTask
  PROVE  \A w \in Workers : pc'[w] = pc[w] \/ (pc[w] = "wait" /\ pc'[w] = "woken")
  <1> SUFFICES ASSUME NEW w \in Workers
               PROVE  pc'[w] = pc[w] \/ (pc[w] = "wait" /\ pc'[w] = "woken")
    OBVIOUS
  <1>1. w # Main /\ w \in DOMAIN pc
    BY BiboAssumption DEF Procs
  <1>2. CASE pc' = [pc EXCEPT ![Main] = "read"]
    BY <1>1, <1>2
  <1>3. ASSUME NEW v \in Workers, pc[v] = "wait", pc' = [pc EXCEPT ![v] = "woken", ![Main] = "read"]
        PROVE  pc'[w] = pc[w] \/ (pc[w] = "wait" /\ pc'[w] = "woken")
    BY <1>1, <1>3
  <1> QED
    BY <1>2, <1>3 DEF SignalTask, WokenBySignal

\* The server serves until it is ended, and never again after that.
LEMMA ServedBefore ==
  ASSUME Typed, [Next]_vars, Serving'
  PROVE  Serving

  <1> USE BiboAssumption DEF Serving, Killing, Procs, server, env, adm, stop
  <1>0. DOMAIN pc = Procs
    BY DEF Typed, PcOK
  <1>1. ASSUME NEW c \in Clients, ClientConnects(c) PROVE Serving
    BY <1>1, <1>0 DEF ClientConnects, Become, Send
  <1>2. ASSUME NEW c \in Clients, ClientAsks(c) PROVE Serving
    BY <1>2, <1>0 DEF ClientAsks, Become, Send
  <1>3. ASSUME NEW c \in Clients, ClientQuits(c) PROVE Serving
    BY <1>3, <1>0 DEF ClientQuits, Become, Send
  <1>4. ASSUME NEW c \in Clients, ClientKillsServer(c) PROVE Serving
    BY <1>4, <1>0 DEF ClientKillsServer, Become, Send
  <1>5. CASE MainRead
    BY <1>5, <1>0 DEF MainRead, Goto, SetReg, Dispatch
  <1>6. CASE CheckRoom
    BY <1>6, <1>0 DEF CheckRoom, Goto, Opened
  <1>7. CASE EnqueuePid
    BY <1>7, <1>0 DEF EnqueuePid, Goto
  <1>8. CASE OpenTry
    BY <1>8, <1>0 DEF OpenTry, Goto, Opened
  <1>9. CASE AnswerTry
    BY <1>9, <1>0 DEF AnswerTry, Goto, Answer, Answered
  <1>10. CASE LockQueue
    BY <1>10, <1>0 DEF LockQueue, Goto
  <1>11. CASE EnqueueTask
    BY <1>11, <1>0 DEF EnqueueTask, Goto
  <1>12. CASE SignalTask
    BY <1>12, <1>0 DEF SignalTask, WokenBySignal
  <1>13. CASE KillSlot
    BY <1>13, <1>0 DEF KillSlot, Goto, SetReg, Slots
  <1>14. CASE KillFifo
    BY <1>14, <1>0 DEF KillFifo, Goto
  <1>15. CASE KillWaiting
    BY <1>15, <1>0 DEF KillWaiting, Goto
  <1>16. CASE KillThreads
    BY <1>16, <1>0 DEF KillThreads, Goto
  <1>17. CASE BroadcastKill
    BY <1>17, <1>0 DEF BroadcastKill, Woken
  <1>18. CASE Join
    BY <1>18, <1>0 DEF Join, Goto
  <1>19. CASE Corrupt
    BY <1>19, <1>0 DEF Corrupt, Corrupted
  <1>20. CASE Interrupt
    BY <1>20, <1>0 DEF Interrupt, SetReg, NoJob
  <1>21. ASSUME NEW p \in Procs, Tell(p) PROVE Serving
    BY <1>21, <1>0 DEF Tell, Goto, Answer, Answered
  <1>22. ASSUME NEW p \in Procs, ReadNumClients(p) PROVE Serving
    BY <1>22, <1>0 DEF ReadNumClients, Goto, SetReg
  <1>23. ASSUME NEW p \in Procs, CountClient(p) PROVE Serving
    BY <1>23, <1>0 DEF CountClient, AddNumClients, Goto
  <1>24. ASSUME NEW p \in Procs, FindFree(p) PROVE Serving
    BY <1>24, <1>0 DEF FindFree, Goto, SetReg, FindInClientArray, NoIndex, Slots
  <1>25. ASSUME NEW p \in Procs, Store(p) PROVE Serving
    BY <1>25, <1>0 DEF Store, Goto, SetReg, Corrupted
  <1>26. ASSUME NEW w \in Workers, TestKill(w) PROVE Serving
    BY <1>26, <1>0 DEF TestKill, Goto
  <1>27. ASSUME NEW w \in Workers, TakeTask(w) PROVE Serving
    BY <1>27, <1>0 DEF TakeTask, Goto, DequeueTask
  <1>28. ASSUME NEW w \in Workers, WorkerExits(w) PROVE Serving
    BY <1>28, <1>0 DEF WorkerExits, Farewell, Woken
  <1>29. ASSUME NEW w \in Workers, OpenClient(w) PROVE Serving
    BY <1>29, <1>0 DEF OpenClient, Goto
  <1>30. ASSUME NEW w \in Workers, Execute(w) PROVE Serving
    BY <1>30, <1>0 DEF Execute, Goto, Finish, NoJob, Answer, Answered
  <1>31. ASSUME NEW w \in Workers, StartUpload(w) PROVE Serving
    BY <1>31, <1>0 DEF StartUpload, Goto, Answer, Answered
  <1>32. ASSUME NEW w \in Workers, Receive(w) PROVE Serving
    BY <1>32, <1>0 DEF Receive, Goto, Finish, NoJob, Answer, Answered
  <1>33. ASSUME NEW w \in Workers, Lookup(w) PROVE Serving
    BY <1>33, <1>0 DEF Lookup, Goto, SetReg, Answer, Answered, FindInClientArray, NoIndex, Slots
  <1>34. ASSUME NEW w \in Workers, RemoveFromPidQueue(w) PROVE Serving
    BY <1>34, <1>0 DEF RemoveFromPidQueue, Goto
  <1>35. ASSUME NEW w \in Workers, ReadForQuit(w) PROVE Serving
    BY <1>35, <1>0 DEF ReadForQuit, Goto, SetReg
  <1>36. ASSUME NEW w \in Workers, UncountClient(w) PROVE Serving
    BY <1>36, <1>0 DEF UncountClient, AddNumClients, Goto
  <1>37. ASSUME NEW w \in Workers, ClearSlot(w) PROVE Serving
    BY <1>37, <1>0 DEF ClearSlot, Goto
  <1>38. ASSUME NEW w \in Workers, LookForWaiting(w) PROVE Serving
    BY <1>38, <1>0 DEF LookForWaiting, Goto
  <1>39. ASSUME NEW w \in Workers, DequeuePid(w) PROVE Serving
    BY <1>39, <1>0 DEF DequeuePid, Goto, Dequeued
  <1>40. ASSUME NEW w \in Workers, Unlink(w) PROVE Serving
    BY <1>40, <1>0 DEF Unlink, Goto, Finish, NoJob, SetReg
  <1>41. CASE UNCHANGED vars
    BY <1>41, <1>0 DEF vars, env, adm, stop
  <1> HIDE DEF Serving
  <1> QED
    BY <1>1, <1>2, <1>3, <1>4, <1>5, <1>6, <1>7, <1>8, <1>9, <1>10, <1>11,
       <1>12, <1>13, <1>14, <1>15, <1>16, <1>17, <1>18, <1>19, <1>20, <1>21, <1>22,
       <1>23, <1>24, <1>25, <1>26, <1>27, <1>28, <1>29, <1>30, <1>31, <1>32, <1>33,
       <1>34, <1>35, <1>36, <1>37, <1>38, <1>39, <1>40, <1>41
    DEF Next, Client, MainStep, Admit, WorkerStep, Procs

\* While the server serves, every step hands the task of a client on, or ends
\* it together with the wait of the client.
LEMMA TaskStep ==
  ASSUME Typed, Serving, Serving', NEW d \in Clients, OneClaim(d), OneClaim(d)', OneTask(d), [Next]_vars
  PROVE  OneTask(d)'
  <1> USE BiboAssumption DEF Asks, AtDoor, Waits, IsLetIn, Ordered, Queued, OrderedOnce, QueuedOnce,
      Handles, Admitted, Leaving, Procs, env, adm, stop, server
  <1>0. /\ DOMAIN pc = Procs /\ DOMAIN job = Procs /\ DOMAIN client = Clients /\ DOMAIN told = Clients
        /\ job[Main] \in Request
    BY DEF Typed, PcOK, HandsOK, EnvOK
  <1>a. Serving /\ Serving'
    OBVIOUS
  <1>b. OneClaim(d) /\ OneClaim(d)'
    OBVIOUS
  <1>1. ASSUME NEW c \in Clients, ClientConnects(c) PROVE OneTask(d)'
    <2>1. PICK k \in Conn : Send(c, k)
      BY <1>1 DEF ClientConnects, Conn
    <2> DEFINE r == [c |-> c, kind |-> k]
    <2>2. /\ \A x : r \notin Of(x, {"task"}) /\ r \notin Of(x, {"quit"})
          /\ c # d => r \notin Of(d, Conn)
      BY DEF Of, Conn
    <2>3. \A V : r \notin V => (Has(serverFifo', V) <=> Has(serverFifo, V)) /\ (Once(serverFifo, V) => Once(serverFifo', V))
      BY <2>1, <1>a, Sent DEF Typed, QueuesOK, Kinds, Conn, Serving
    <2> HIDE DEF r
    <2>4. /\ UNCHANGED <<tasks, pids, pc, job>> /\ client[c] = "out"
          /\ client' = [client EXCEPT ![c] = "opening"]
      BY <1>1 DEF ClientConnects, Become
    <2>5. CASE c = d
      BY <1>0, <2>2, <2>3, <2>4, <2>5 DEF OneTask
    <2>6. CASE c # d
      BY <1>0, <2>2, <2>3, <2>4, <2>6, TaskKept
    <2> QED
      BY <2>5, <2>6
  <1>2. ASSUME NEW c \in Clients, ClientAsks(c) PROVE OneTask(d)'
    <2> DEFINE r == [c |-> c, kind |-> "task"]
    <2>1. /\ r \in Of(c, {"task"}) /\ \A x : r \notin Of(x, Conn) /\ r \notin Of(x, {"quit"})
          /\ c # d => r \notin Of(d, {"task"})
      BY DEF Of, Conn
    <2>2. \A V : /\ Has(serverFifo', V) <=> Has(serverFifo, V) \/ r \in V
                 /\ Once(serverFifo, V) /\ ~(Has(serverFifo, V) /\ r \in V) => Once(serverFifo', V)
      BY <1>2, <1>a, Sent DEF ClientAsks, Typed, QueuesOK, Kinds, Serving
    <2> HIDE DEF r
    <2>3. /\ UNCHANGED <<tasks, pids, pc, job>> /\ client[c] = "in"
          /\ client' = [client EXCEPT ![c] = "busy"]
      BY <1>2 DEF ClientAsks, Become
    <2>4. CASE c = d
      BY <1>0, <2>1, <2>2, <2>3, <2>4 DEF OneTask
    <2>5. CASE c # d
      BY <1>0, <2>1, <2>2, <2>3, <2>5, TaskKept
    <2> QED
      BY <2>4, <2>5
  <1>3. ASSUME NEW c \in Clients, ClientQuits(c) PROVE OneTask(d)'
    <2> DEFINE r == [c |-> c, kind |-> "quit"]
    <2>1. /\ \A x : r \notin Of(x, Conn) /\ r \notin Of(x, {"task"})
          /\ c # d => r \notin Of(d, {"quit"})
      BY DEF Of, Conn
    <2>2. \A V : r \notin V => (Has(serverFifo', V) <=> Has(serverFifo, V)) /\ (Once(serverFifo, V) => Once(serverFifo', V))
      BY <1>3, <1>a, Sent DEF ClientQuits, Typed, QueuesOK, Kinds, Serving
    <2> HIDE DEF r
    <2>3. /\ UNCHANGED <<tasks, pids, pc, job>>
          /\ \E s \in {"leaving", "gone"} : client' = [client EXCEPT ![c] = s]
      BY <1>3 DEF ClientQuits, Become
    <2> QED
      BY <1>0, <2>1, <2>2, <2>3, TaskKept
  <1>4. ASSUME NEW c \in Clients, ClientKillsServer(c) PROVE OneTask(d)'
    <2> DEFINE r == [c |-> c, kind |-> "kill"]
    <2>1. /\ \A x : r \notin Of(x, Conn) /\ r \notin Of(x, {"task"}) /\ r \notin Of(x, {"quit"})
      BY DEF Of, Conn
    <2>2. \A V : r \notin V => (Has(serverFifo', V) <=> Has(serverFifo, V)) /\ (Once(serverFifo, V) => Once(serverFifo', V))
      BY <1>4, <1>a, Sent DEF ClientKillsServer, Typed, QueuesOK, Kinds, Serving
    <2> HIDE DEF r
    <2>3. /\ UNCHANGED <<tasks, pids, pc, job>>
          /\ \E s \in {"leaving", "gone"} : client' = [client EXCEPT ![c] = s]
      BY <1>4 DEF ClientKillsServer, Become
    <2> QED
      BY <1>0, <2>1, <2>2, <2>3, TaskKept
  <1>5. CASE MainRead
    <2> DEFINE r == Head(serverFifo)
    <2>1. r \in Requests(Kinds) /\ serverFifo \in Seq(Requests(Kinds))
      BY <1>5, HeadsTyped DEF MainRead, Typed, QueuesOK
    <2>2. /\ job' = [job EXCEPT ![Main] = r] /\ pc' = [pc EXCEPT ![Main] = Dispatch(r.kind)]
          /\ pc[Main] = "read" /\ UNCHANGED <<client, told, pids, tasks>> /\ serverFifo # <<>>
      BY <1>5 DEF MainRead, Goto
    <2>3. r.kind # "kill" /\ serverFifo' = Tail(serverFifo)
      <3>1. r.kind # "kill"
        BY <1>0, <1>a, <2>2 DEF Dispatch, Serving, Killing
      <3> QED
        BY <1>5, <3>1 DEF MainRead
    <2>4. \A V : /\ Has(serverFifo, V) <=> Has(serverFifo', V) \/ r \in V
                 /\ Once(serverFifo, V) => Once(serverFifo', V) /\ ~(Has(serverFifo', V) /\ r \in V)
      BY <2>1, <2>2, <2>3, Taken
    <2>5. \A k : r \in Of(d, k) <=> r.c = d /\ r.kind \in k
      BY <2>1 DEF Of, Requests
    <2> HIDE DEF r
    <2>6. /\ Handles(d, Main)' <=> r \in Of(d, {"task"})
          /\ ~Handles(d, Main) /\ \A w \in Workers : Handles(d, w)' <=> Handles(d, w)
      BY <1>0, <2>2, <2>5 DEF Dispatch
    <2>7. /\ Admitted(d)' => Admitted(d)
          /\ Leaving(d)' => Leaving(d)
      BY <1>0, <2>2, <2>4, <2>5 DEF Dispatch, Conn
    <2> HIDE DEF Handles, Admitted, Leaving
    <2> QED
      BY <2>2, <2>4, <2>6, <2>7 DEF OneTask
  <1>6. CASE CheckRoom
    <2>1. /\ UNCHANGED <<pids, serverFifo, tasks, job>> /\ pc[Main] \in {"check"}
          /\ \A w \in Workers : pc'[w] = pc[w]
      BY <1>6, <1>0 DEF CheckRoom, Goto
    <2>2. client'[d] = client[d] \/ (client[d] = "opening" /\ client'[d] = "waiting")
      BY <1>6, <1>0 DEF CheckRoom, Opened
    <2>3. pc'[Main] \notin {"enqueue", "append", "open", "lookup"}
      BY <1>6, <1>0 DEF CheckRoom, Goto
    <2>4. /\ \A q \in Procs : Handles(d, q)' <=> Handles(d, q)
          /\ Admitted(d)' => Admitted(d)
          /\ Leaving(d)' => Leaving(d)
      BY <1>0, <2>1, <2>3
    <2> HIDE DEF Handles, Admitted, Leaving
    <2> QED
      BY <2>1, <2>2, <2>4, TaskKept
  <1>7. CASE EnqueuePid
    <2>1. job[Main].c \in Clients
      BY <1>7 DEF EnqueuePid, Goto, Typed, JobRight, MainHolds
    <2>2. Has(pids', {d}) <=> Has(pids, {d}) \/ job[Main].c = d
      BY <1>7, <2>1, Appended DEF EnqueuePid, Typed, QueuesOK
    <2> QED
      BY <1>7, <1>0, <2>2, TaskKept DEF EnqueuePid, Goto
  <1>8. CASE OpenTry
    <2>1. /\ UNCHANGED <<pids, serverFifo, tasks, job>> /\ pc[Main] \in {"open_try", "open_tell"}
          /\ \A w \in Workers : pc'[w] = pc[w]
      BY <1>8, <1>0 DEF OpenTry, Goto
    <2>2. client'[d] = client[d] \/ (client[d] = "opening" /\ client'[d] = "waiting")
      BY <1>8, <1>0 DEF OpenTry, Opened
    <2>3. pc'[Main] \notin {"enqueue", "append", "open", "lookup"}
      BY <1>8, <1>0 DEF OpenTry, Goto
    <2>4. /\ \A q \in Procs : Handles(d, q)' <=> Handles(d, q)
          /\ Admitted(d)' => Admitted(d)
          /\ Leaving(d)' => Leaving(d)
      BY <1>0, <2>1, <2>3
    <2> HIDE DEF Handles, Admitted, Leaving
    <2> QED
      BY <2>1, <2>2, <2>4, TaskKept
  <1>9. CASE AnswerTry
    <2> DEFINE c == job[Main].c
    <2>1. /\ UNCHANGED <<pids, serverFifo, tasks, job>> /\ pc[Main] \in {"refuse", "tell_try"} /\ pc'[Main] = "read"
          /\ \A w \in Workers : pc'[w] = pc[w]
      BY <1>9, <1>0 DEF AnswerTry, Goto
    <2>2. /\ \A q \in Procs : Handles(d, q)' <=> Handles(d, q)
          /\ Admitted(d)' => Admitted(d)
          /\ Leaving(d)' => Leaving(d)
      BY <1>0, <2>1
    <2>3. CASE c # d
      <3>1. client'[d] = client[d]
        BY <1>9, <1>0, <2>3 DEF AnswerTry, Answer
      <3> HIDE DEF Handles, Admitted, Leaving
      <3> QED
        BY <2>1, <2>2, <3>1, TaskKept
    <2>4. CASE c = d
      <3>1. CASE client' = [client EXCEPT ![c] = "gone"]
        <4>1. client'[d] = "gone"
          BY <1>0, <2>4, <3>1
        <4> HIDE DEF Handles, Admitted, Leaving
        <4> QED
          BY <2>1, <2>2, <4>1, TaskKept
      <3>2. CASE Answer(c) /\ told' = [told EXCEPT ![c] = @ + 1]
        <4>1. Admitted(d)
          BY <2>1, <2>4
        <4>2. client[d] \in {"opening", "waiting", "leaving", "gone"}
          <5> HIDE DEF Admitted
          <5> QED
            BY <4>1 DEF OneTask
        <4>3. client'[d] = IF client[d] = "waiting" THEN "in" ELSE IF client[d] = "leaving" THEN "gone" ELSE client[d]
          BY <1>0, <2>4, <3>2, <4>2 DEF Answer, Answered
        <4>4. told'[d] = 1
          <5>1. told'[d] = told[d] + 1 /\ told[d] \in {0, 1} /\ told'[d] \in {0, 1}
            BY <1>0, <1>b, <2>4, <3>2 DEF OneClaim
          <5> QED
            BY <5>1
        <4>5. ~Admitted(d)'
          BY <1>b, <4>4 DEF OneClaim
        <4> HIDE DEF Handles, Admitted, Leaving
        <4> QED
          BY <2>1, <2>2, <4>2, <4>3, <4>5 DEF OneTask
      <3> QED
        BY <1>9, <3>1, <3>2 DEF AnswerTry
    <2> QED
      BY <2>3, <2>4
  <1>10. CASE LockQueue
    BY <1>10, <1>0, TaskKept DEF LockQueue, Goto
  <1>11. CASE EnqueueTask
    <2> DEFINE r == job[Main]
    <2>1. r.c \in Clients /\ r.kind \in {"task", "quit"}
      BY <1>11 DEF EnqueueTask, Goto, Typed, JobRight, MainHolds
    <2>2. r = [c |-> r.c, kind |-> r.kind]
      BY <1>0 DEF Request
    <2>3. r \in Requests({"task", "quit"})
      BY <2>1, <2>2 DEF Requests
    <2>4. /\ tasks' = Append(tasks, r) /\ tasks \in Seq(Requests({"task", "quit"}))
          /\ pc' = [pc EXCEPT ![Main] = "signal"] /\ pc[Main] = "append"
          /\ UNCHANGED <<client, told, pids, serverFifo, job>>
      BY <1>11 DEF EnqueueTask, Goto, Typed, QueuesOK
    <2>5. \A V : /\ Has(tasks', V) <=> Has(tasks, V) \/ r \in V
                 /\ Once(tasks, V) /\ ~(Has(tasks, V) /\ r \in V) => Once(tasks', V)
      BY <2>3, <2>4, Appended
    <2>6. \A k : r \in Of(d, k) <=> r.c = d /\ r.kind \in k
      BY <2>3 DEF Of, Requests
    <2>7. /\ Handles(d, Main) <=> r \in Of(d, {"task"})
          /\ ~Handles(d, Main)' /\ \A w \in Workers : Handles(d, w)' <=> Handles(d, w)
      BY <1>0, <2>4, <2>6
    <2>8. /\ Admitted(d)' => Admitted(d)
          /\ Leaving(d)' => Leaving(d)
      BY <1>0, <2>4, <2>5, <2>6
    <2> HIDE DEF Handles, Admitted, Leaving, r
    <2> QED
      BY <2>4, <2>5, <2>7, <2>8 DEF OneTask
  <1>12. CASE SignalTask
    <2>1. /\ UNCHANGED <<client, serverFifo, tasks, pids, job>>
          /\ pc[Main] = "signal" /\ pc'[Main] = "read"
      BY <1>12, <1>0 DEF SignalTask
    <2>2. \A w \in Workers : pc'[w] = pc[w] \/ (pc[w] = "wait" /\ pc'[w] = "woken")
      BY <1>12, <1>0, Signalled
    <2> QED
      BY <1>0, <2>1, <2>2, TaskKept
  <1>13. CASE KillSlot
    BY <1>13, <1>a, <1>0 DEF KillSlot, Goto, Serving, Killing
  <1>14. CASE KillFifo
    BY <1>14, <1>a, <1>0 DEF KillFifo, Goto, Serving, Killing
  <1>15. CASE KillWaiting
    BY <1>15, <1>a, <1>0 DEF KillWaiting, Goto, Serving, Killing
  <1>16. CASE KillThreads
    BY <1>16, <1>a, <1>0 DEF KillThreads, Goto, Serving, Killing
  <1>17. CASE BroadcastKill
    BY <1>17, <1>a, <1>0 DEF BroadcastKill, Woken, Serving, Killing
  <1>18. CASE Join
    BY <1>18, <1>a, <1>0 DEF Join, Goto, Serving, Killing
  <1>19. CASE Corrupt
    BY <1>19, <1>a, <1>0 DEF Corrupt, Corrupted, Serving
  <1>20. CASE Interrupt
    BY <1>20, <1>a, <1>0 DEF Interrupt, Serving, Killing
  <1>21. ASSUME NEW p \in Procs, Tell(p) PROVE OneTask(d)'
    <2> DEFINE c == job[p].c
    <2>1. /\ UNCHANGED <<pids, serverFifo, tasks, job>> /\ pc[p] = "tell" /\ pc'[p] \in {"num", "stuck"}
          /\ \A q \in Procs \ {p} : pc'[q] = pc[q]
      BY <1>21, <1>0 DEF Tell, Goto
    <2>2. job[p].kind # "task" /\ (p = Main => job[p].kind # "try")
      BY <1>21 DEF Tell, Goto, Typed, JobRight, MainHolds, WorkerHolds
    <2>3. /\ \A q \in Procs : Handles(d, q)' <=> Handles(d, q)
          /\ Admitted(d)' => Admitted(d)
          /\ Leaving(d)' => Leaving(d)
      BY <1>0, <2>1, <2>2
    <2>4. CASE UNCHANGED client
      <3> HIDE DEF Handles, Admitted, Leaving
      <3> QED
        BY <2>1, <2>3, <2>4, TaskKept
    <2>5. CASE ~UNCHANGED client
      <3>0. c \in Clients \cup {NoClient}
        BY DEF Typed, HandsOK, Request, Handover
      <3>1. /\ c \in Clients /\ client' = [client EXCEPT ![c] = Answered(@)]
            /\ told' = [told EXCEPT ![c] = @ + 1]
        BY <1>21, <3>0, <2>5 DEF Tell, Answer
      <3>2. CASE c # d
        <4>1. client'[d] = client[d]
          BY <3>1, <3>2, <1>0
        <4> HIDE DEF Handles, Admitted, Leaving
        <4> QED
          BY <2>1, <2>3, <4>1, TaskKept
      <3>3. CASE c = d
        <4>1. Admitted(d)
          BY <2>1, <2>2, <3>3
        <4>2. client[d] \in {"opening", "waiting", "leaving", "gone"}
          <5> HIDE DEF Admitted
          <5> QED
            BY <4>1 DEF OneTask
        <4>3. client'[d] = IF client[d] = "waiting" THEN "in" ELSE IF client[d] = "leaving" THEN "gone" ELSE client[d]
          BY <1>0, <3>1, <3>3, <4>2 DEF Answered
        <4>4. told'[d] = 1
          <5>1. told'[d] = told[d] + 1 /\ told[d] \in {0, 1} /\ told'[d] \in {0, 1}
            BY <1>0, <1>b, <3>1, <3>3 DEF OneClaim
          <5> QED
            BY <5>1
        <4>5. ~Admitted(d)'
          BY <1>b, <4>4 DEF OneClaim
        <4> HIDE DEF Handles, Admitted, Leaving
        <4> QED
          BY <2>1, <2>3, <4>2, <4>3, <4>5 DEF OneTask
      <3> QED
        BY <3>2, <3>3
    <2> QED
      BY <2>4, <2>5
  <1>22. ASSUME NEW p \in Procs, ReadNumClients(p) PROVE OneTask(d)'
    BY <1>22, <1>0, TaskKept DEF ReadNumClients, Goto, SetReg
  <1>23. ASSUME NEW p \in Procs, CountClient(p) PROVE OneTask(d)'
    BY <1>23, <1>0, TaskKept DEF CountClient, AddNumClients, Goto
  <1>24. ASSUME NEW p \in Procs, FindFree(p) PROVE OneTask(d)'
    BY <1>24, <1>0, TaskKept DEF FindFree, Goto, SetReg, FindInClientArray, NoIndex, Slots
  <1>25. ASSUME NEW p \in Procs, Store(p) PROVE OneTask(d)'
    <2>1. UNCHANGED <<client, pids, serverFifo, tasks, job>> /\ pc[p] = "store"
      BY <1>25 DEF Store, Goto
    <2>2. pc' # Corrupted
      BY <1>a, BiboAssumption DEF Corrupted, Serving
    <2>3. /\ pc'[p] \in {"unlink", "open_tell", "read"}
          /\ pc'[p] = "open_tell" => p = Main /\ job[p].kind = "try"
          /\ \A q \in Procs \ {p} : pc'[q] = pc[q]
      BY <1>25, <1>0, <2>2 DEF Store, Goto
    <2>4. p # Main => job[p].kind = "quit"
      BY <1>25 DEF Store, Goto, Typed, JobRight, MainHolds, WorkerHolds
    <2>5. /\ \A q \in Procs : Handles(d, q)' <=> Handles(d, q)
          /\ Admitted(d)' => Admitted(d)
          /\ Leaving(d)' => Leaving(d)
      BY <1>0, <2>1, <2>3, <2>4
    <2> HIDE DEF Handles, Admitted, Leaving
    <2> QED
      BY <2>1, <2>5, TaskKept
  <1>26. ASSUME NEW w \in Workers, TestKill(w) PROVE OneTask(d)'
    BY <1>26, <1>0, TaskKept DEF TestKill, Goto
  <1>27. ASSUME NEW w \in Workers, TakeTask(w) PROVE OneTask(d)'
    <2> DEFINE r == Head(tasks)
    <2>1. CASE tasks = <<>>
      BY <1>27, <1>0, <2>1, TaskKept DEF TakeTask, Goto
    <2>2. CASE tasks # <<>>
      <3>1. r \in Requests({"task", "quit"}) /\ tasks \in Seq(Requests({"task", "quit"}))
        BY <2>2, HeadsTyped DEF Typed, QueuesOK
      <3>2. /\ job' = [job EXCEPT ![w] = r] /\ pc' = [pc EXCEPT ![w] = "open"] /\ pc[w] = "test"
            /\ tasks' = Tail(tasks) /\ UNCHANGED <<client, told, pids, serverFifo>>
        BY <1>27, <2>2 DEF TakeTask, DequeueTask, Goto
      <3>3. \A V : /\ Has(tasks, V) <=> Has(tasks', V) \/ r \in V
                   /\ Once(tasks, V) => Once(tasks', V) /\ ~(Has(tasks', V) /\ r \in V)
        BY <2>2, <3>1, <3>2, Taken
      <3>4. \A k : r \in Of(d, k) <=> r.c = d /\ r.kind \in k
        BY <3>1 DEF Of, Requests
      <3> HIDE DEF r
      <3>5. /\ Handles(d, w)' <=> r \in Of(d, {"task"})
            /\ ~Handles(d, w) /\ \A p \in Procs \ {w} : Handles(d, p)' <=> Handles(d, p)
        BY <1>0, <3>2, <3>4
      <3>6. /\ Admitted(d)' => Admitted(d)
            /\ Leaving(d)' => Leaving(d)
        BY <1>0, <3>2, <3>3, <3>4
      <3> HIDE DEF Handles, Admitted, Leaving
      <3> QED
        BY <3>2, <3>3, <3>5, <3>6 DEF OneTask
    <2> QED
      BY <2>1, <2>2
  <1>28. ASSUME NEW w \in Workers, WorkerExits(w) PROVE OneTask(d)'
    BY <1>28, <1>0, TaskKept DEF WorkerExits, Farewell, Woken
  <1>29. ASSUME NEW w \in Workers, OpenClient(w) PROVE OneTask(d)'
    <2>1. /\ UNCHANGED <<client, pids, serverFifo, tasks, job>> /\ pc[w] = "open"
          /\ pc'[w] \in {"stuck", "execute", "lookup"}
          /\ pc'[w] = "lookup" => job[w].kind = "quit"
          /\ pc'[w] = "execute" => job[w].kind # "quit"
          /\ \A p \in Procs \ {w} : pc'[p] = pc[p]
      BY <1>29, <1>0 DEF OpenClient, Goto
    <2>2. /\ \A q \in Procs : Handles(d, q)' <=> Handles(d, q)
          /\ Admitted(d)' => Admitted(d)
          /\ Leaving(d)' => Leaving(d)
      BY <1>0, <2>1
    <2> HIDE DEF Handles, Admitted, Leaving
    <2> QED
      BY <2>1, <2>2, TaskKept
  <1>30. ASSUME NEW w \in Workers, Execute(w) PROVE OneTask(d)'
    <2> DEFINE c == job[w].c
    <2>1. /\ c \in Clients /\ job[w].kind = "task" /\ Handles(c, w)
      BY <1>30 DEF Execute, Goto, Typed, JobRight, WorkerHolds
    <2>2. /\ UNCHANGED <<told, pids, serverFifo, tasks>> /\ client' = [client EXCEPT ![c] = Answered(@)]
          /\ job' = [job EXCEPT ![w] = NoJob] /\ pc' = [pc EXCEPT ![w] = "top"]
      BY <1>30 DEF Execute, Goto, Finish, Answer
    <2> HIDE DEF c
    <2>3. /\ ~Handles(d, w)' /\ \A p \in Procs \ {w} : Handles(d, p)' <=> Handles(d, p)
          /\ Admitted(d)' => Admitted(d)
          /\ Leaving(d)' => Leaving(d)
      BY <1>0, <2>2 DEF NoJob
    <2>4. CASE c = d
      <3>1. /\ ~Ordered(d)' /\ ~Queued(d)' /\ \A p \in Procs : ~Handles(d, p)'
            /\ client[d] \in {"busy", "leaving", "gone"} /\ OrderedOnce(d)' /\ QueuedOnce(d)'
        <4> HIDE DEF Handles
        <4> QED
          BY <2>1, <2>2, <2>3, <2>4 DEF OneTask
      <3>2. client'[d] = IF client[d] = "busy" THEN "in" ELSE "gone"
        BY <1>0, <2>2, <2>4, <3>1 DEF Answered
      <3> HIDE DEF Handles, Admitted, Leaving, Ordered, Queued, OrderedOnce, QueuedOnce
      <3> QED
        BY <2>3, <3>1, <3>2 DEF OneTask
    <2>5. CASE c # d
      <3>1. ~Handles(d, w) /\ client'[d] = client[d]
        BY <1>0, <2>2, <2>5 DEF c
      <3> HIDE DEF Handles, Admitted, Leaving
      <3> QED
        BY <2>2, <2>3, <3>1, TaskKept
    <2> QED
      BY <2>4, <2>5
  <1>31. ASSUME NEW w \in Workers, StartUpload(w) PROVE OneTask(d)'
    <2> DEFINE c == job[w].c
    <2>1. /\ UNCHANGED <<pids, serverFifo, tasks, job>> /\ pc[w] = "execute" /\ pc'[w] = "receive"
          /\ \A p \in Procs \ {w} : pc'[p] = pc[p]
      BY <1>31, <1>0 DEF StartUpload, Goto
    <2>2. client'[d] = client[d] \/ client'[d] = "gone"
      BY <1>31, <1>0 DEF StartUpload, Answer, Answered
    <2>3. /\ \A q \in Procs : Handles(d, q)' <=> Handles(d, q)
          /\ Admitted(d)' => Admitted(d)
          /\ Leaving(d)' => Leaving(d)
      BY <1>0, <2>1
    <2> HIDE DEF Handles, Admitted, Leaving
    <2> QED
      BY <2>1, <2>2, <2>3, TaskKept
  <1>32. ASSUME NEW w \in Workers, Receive(w) PROVE OneTask(d)'
    <2> DEFINE c == job[w].c
    <2>6. CASE Goto(w, "receive", "stuck")
      BY <1>32, <1>0, <2>6, TaskKept DEF Receive, Goto
    <2>7. CASE ~Goto(w, "receive", "stuck")
      <3>1. /\ c \in Clients /\ job[w].kind = "task" /\ Handles(c, w)
        BY <1>32 DEF Receive, Goto, Typed, JobRight, WorkerHolds
      <3>2. /\ UNCHANGED <<told, pids, serverFifo, tasks>> /\ client' = [client EXCEPT ![c] = Answered(@)]
            /\ job' = [job EXCEPT ![w] = NoJob] /\ pc' = [pc EXCEPT ![w] = "top"]
        BY <1>32, <2>7 DEF Receive, Goto, Finish, Answer
      <3> HIDE DEF c
      <3>3. /\ ~Handles(d, w)' /\ \A p \in Procs \ {w} : Handles(d, p)' <=> Handles(d, p)
            /\ Admitted(d)' => Admitted(d)
            /\ Leaving(d)' => Leaving(d)
        BY <1>0, <3>2 DEF NoJob
      <3>4. CASE c = d
        <4>1. /\ ~Ordered(d)' /\ ~Queued(d)' /\ \A p \in Procs : ~Handles(d, p)'
              /\ client[d] \in {"busy", "leaving", "gone"} /\ OrderedOnce(d)' /\ QueuedOnce(d)'
          <5> HIDE DEF Handles
          <5> QED
            BY <3>1, <3>2, <3>3, <3>4 DEF OneTask
        <4>2. client'[d] = IF client[d] = "busy" THEN "in" ELSE "gone"
          BY <1>0, <3>2, <3>4, <4>1 DEF Answered
        <4> HIDE DEF Handles, Admitted, Leaving, Ordered, Queued, OrderedOnce, QueuedOnce
        <4> QED
          BY <3>3, <4>1, <4>2 DEF OneTask
      <3>5. CASE c # d
        <4>1. ~Handles(d, w) /\ client'[d] = client[d]
          BY <1>0, <3>2, <3>5 DEF c
        <4> HIDE DEF Handles, Admitted, Leaving
        <4> QED
          BY <3>2, <3>3, <4>1, TaskKept
      <3> QED
        BY <3>4, <3>5
    <2> QED
      BY <2>6, <2>7
  <1>33. ASSUME NEW w \in Workers, Lookup(w) PROVE OneTask(d)'
    <2> DEFINE c == job[w].c
    <2>1. c \in Clients /\ job[w].kind = "quit" /\ pc[w] = "lookup" /\ pc'[w] \in {"pid_remove", "dec"}
      BY <1>33, <1>0 DEF Lookup, Goto, Typed, JobRight, WorkerHolds
    <2>2. /\ UNCHANGED <<pids, serverFifo, tasks, job>> /\ client' = [client EXCEPT ![c] = Answered(@)]
          /\ \A p \in Procs \ {w} : pc'[p] = pc[p]
      BY <1>33, <1>0 DEF Lookup, Goto, Answer
    <2>3. /\ \A q \in Procs : Handles(d, q)' <=> Handles(d, q)
          /\ Admitted(d)' => Admitted(d)
          /\ Leaving(d)' => Leaving(d)
      BY <1>0, <2>1, <2>2
    <2>4. client'[d] = client[d] \/ client'[d] = "gone"
      <3>1. c = d => Leaving(d)
        BY <2>1
      <3> HIDE DEF Leaving
      <3>2. c = d => client[d] \in {"leaving", "gone"}
        BY <3>1 DEF OneTask
      <3> QED
        BY <1>0, <2>2, <3>2 DEF Answered
    <2> HIDE DEF Handles, Admitted, Leaving
    <2> QED
      BY <2>2, <2>3, <2>4, TaskKept
  <1>34. ASSUME NEW w \in Workers, RemoveFromPidQueue(w) PROVE OneTask(d)'
    <2>1. Has(pids', {d}) => Has(pids, {d})
      BY <1>34, Removed DEF RemoveFromPidQueue, Typed, QueuesOK
    <2> QED
      BY <1>34, <1>0, <2>1, TaskKept DEF RemoveFromPidQueue, Goto
  <1>35. ASSUME NEW w \in Workers, ReadForQuit(w) PROVE OneTask(d)'
    BY <1>35, <1>0, TaskKept DEF ReadForQuit, Goto, SetReg
  <1>36. ASSUME NEW w \in Workers, UncountClient(w) PROVE OneTask(d)'
    BY <1>36, <1>0, TaskKept DEF UncountClient, AddNumClients, Goto
  <1>37. ASSUME NEW w \in Workers, ClearSlot(w) PROVE OneTask(d)'
    BY <1>37, <1>0, TaskKept DEF ClearSlot, Goto
  <1>38. ASSUME NEW w \in Workers, LookForWaiting(w) PROVE OneTask(d)'
    BY <1>38, <1>0, TaskKept DEF LookForWaiting, Goto
  <1>39. ASSUME NEW w \in Workers, DequeuePid(w) PROVE OneTask(d)'
    <2>1. job[w].kind = "quit"
      BY <1>39 DEF DequeuePid, Goto, Typed, JobRight, WorkerHolds
    <2>2. job'[w].c = d => Has(pids, {d})
      <3>1. CASE pids = <<>>
        BY <1>39, <1>0, <3>1 DEF DequeuePid
      <3>2. CASE pids # <<>>
        <4>1. job'[w].c = Head(pids)
          BY <1>39, <1>0, <3>2 DEF DequeuePid
        <4>2. Has(pids, {d}) <=> Has(Tail(pids), {d}) \/ Head(pids) \in {d}
          BY <3>2, Taken DEF Typed, QueuesOK
        <4> QED
          BY <4>1, <4>2
      <3> QED
        BY <3>1, <3>2
    <2>3. Has(pids', {d}) => Has(pids, {d})
      BY <1>39, Taken DEF DequeuePid, Dequeued, Typed, QueuesOK
    <2>4. /\ UNCHANGED <<client, serverFifo, tasks>> /\ job'[w].kind = "quit" /\ pc'[w] = "tell"
          /\ \A p \in Procs \ {w} : job'[p] = job[p] /\ pc'[p] = pc[p]
      BY <1>39, <1>0 DEF DequeuePid, Goto
    <2>5. /\ \A q \in Procs : Handles(d, q)' <=> Handles(d, q)
          /\ Admitted(d)' => Admitted(d)
          /\ Leaving(d)' => Leaving(d)
      BY <1>0, <2>1, <2>2, <2>3, <2>4
    <2> HIDE DEF Handles, Admitted, Leaving
    <2> QED
      BY <2>4, <2>5, TaskKept
  <1>40. ASSUME NEW w \in Workers, Unlink(w) PROVE OneTask(d)'
    BY <1>40, <1>0, TaskKept DEF Unlink, Goto, Finish, NoJob, SetReg
  <1>41. CASE UNCHANGED vars
    BY <1>41, <1>0, TaskKept DEF vars, env, adm, stop
  <1> HIDE DEF OneTask, Typed
  <1> QED
    BY <1>1, <1>2, <1>3, <1>4, <1>5, <1>6, <1>7, <1>8, <1>9, <1>10, <1>11,
       <1>12, <1>13, <1>14, <1>15, <1>16, <1>17, <1>18, <1>19, <1>20, <1>21, <1>22,
       <1>23, <1>24, <1>25, <1>26, <1>27, <1>28, <1>29, <1>30, <1>31, <1>32, <1>33,
       <1>34, <1>35, <1>36, <1>37, <1>38, <1>39, <1>40, <1>41
    DEF Next, Client, MainStep, Admit, WorkerStep, Procs

\* Nobody has asked for a task at the start.
LEMMA TaskInit ==
  ASSUME Init, NEW d \in Clients
  PROVE  OneTask(d)
  <1>1. /\ serverFifo = <<>> /\ tasks = <<>> /\ pids = <<>> /\ client[d] = "out"
        /\ \A p \in Procs : job[p] = NoJob
    BY DEF Init
  <1>2. \A V : ~Has(<<>>, V) /\ Once(<<>>, V)
    BY Emptied
  <1>3. /\ ~Ordered(d) /\ ~Queued(d) /\ OrderedOnce(d) /\ QueuedOnce(d)
        /\ \A p \in Procs : ~Handles(d, p)
    BY <1>1, <1>2 DEF Ordered, Queued, OrderedOnce, QueuedOnce, Handles, NoJob
  <1>4. ~Admitted(d) /\ ~Leaving(d)
    <2>1. \A p \in Procs : job[p].c # d
      BY <1>1, BiboAssumption DEF NoJob
    <2> QED
      BY <1>1, <1>2, <2>1 DEF Admitted, Leaving, Asks, AtDoor, Waits, IsLetIn, Procs
  <1> QED
    BY <1>1, <1>3, <1>4 DEF OneTask

TaskRight == Serving => \A d \in Clients : OneTask(d)

\* The index sets that Pending counts, for a task.
LEMMA PendingIsOne ==
  ASSUME Typed, NEW c \in Clients, OneTask(c)
  PROVE  /\ Pending(c, "task") <= 1
         /\ client[c] = "busy" => Pending(c, "task") = 1
  <1> DEFINE I == {i \in DOMAIN serverFifo : serverFifo[i].c = c /\ serverFifo[i].kind = "task"}
             J == {i \in DOMAIN tasks : tasks[i].c = c /\ tasks[i].kind = "task"}
             P == {p \in Procs : job[p].c = c /\ job[p].kind = "task"
                      /\ (p = Main => pc[p] \in {"enqueue", "append"})
                      /\ ("task" = "task" => pc[p] \in {"enqueue", "append", "open", "execute", "receive", "stuck"})}
  <1>1. Pending(c, "task") = Cardinality(I) + Cardinality(J) + Cardinality(P)
    BY DEF Pending
  <1>2. /\ \A i \in DOMAIN serverFifo : serverFifo[i] \in Of(c, {"task"}) <=> i \in I
        /\ \A i \in DOMAIN tasks : tasks[i] \in Of(c, {"task"}) <=> i \in J
        /\ \A p \in Procs : Handles(c, p) <=> p \in P
    <2>1. ASSUME NEW i \in DOMAIN serverFifo PROVE serverFifo[i] \in Of(c, {"task"}) <=> i \in I
      <3>1. serverFifo[i] \in Requests(Kinds)
        BY DEF Typed, QueuesOK
      <3> QED
        BY <3>1 DEF Of, Requests
    <2>2. ASSUME NEW i \in DOMAIN tasks PROVE tasks[i] \in Of(c, {"task"}) <=> i \in J
      <3>1. tasks[i] \in Requests({"task", "quit"})
        BY DEF Typed, QueuesOK
      <3> QED
        BY <3>1 DEF Of, Requests
    <2>3. \A p \in Procs : Handles(c, p) <=> p \in P
      BY DEF Handles
    <2> QED
      BY <2>1, <2>2, <2>3
  <1>3. I \subseteq DOMAIN serverFifo /\ J \subseteq DOMAIN tasks /\ P \subseteq Procs
    OBVIOUS
  <1> HIDE DEF I, J, P
  <1>4. /\ Ordered(c) <=> I # {}
        /\ Queued(c) <=> J # {}
    BY <1>2, <1>3 DEF Ordered, Queued, Has
  <1>5. /\ \A i, j \in I : i = j
        /\ \A i, j \in J : i = j
        /\ \A p, q \in P : p = q
    BY <1>2, <1>3 DEF OneTask, OrderedOnce, QueuedOnce, Once
  <1>6. \A S : (\A x, y \in S : x = y) => Cardinality(S) = IF S = {} THEN 0 ELSE 1
    <2> SUFFICES ASSUME NEW S, \A x, y \in S : x = y PROVE Cardinality(S) = IF S = {} THEN 0 ELSE 1
      OBVIOUS
    <2>1. CASE S = {}
      BY <2>1, FS_EmptySet
    <2>2. CASE S # {}
      <3>1. PICK x \in S : TRUE
        BY <2>2
      <3>2. S = {x}
        BY <3>1
      <3> QED
        BY <3>2, FS_Singleton
    <2> QED
      BY <2>1, <2>2
  <1>7. /\ Cardinality(I) = IF I = {} THEN 0 ELSE 1
        /\ Cardinality(J) = IF J = {} THEN 0 ELSE 1
        /\ Cardinality(P) = IF P = {} THEN 0 ELSE 1
    BY <1>5, <1>6
  <1>8. /\ I # {} => J = {} /\ P = {}
        /\ J # {} => P = {}
        /\ client[c] = "busy" => I # {} \/ J # {} \/ P # {}
    BY <1>2, <1>3, <1>4 DEF OneTask
  <1> QED
    BY <1>1, <1>7, <1>8

\* Until the server is killed, or its memory corrupt, a task whose answer a
\* client awaits is on its way exactly once: the workers neither drop one nor
\* execute one twice, whatever the two queues and the threads hold of the
\* others (server.c 246-266, 505-510; client.c 239-331).
THEOREM TasksAreOnTheirWay == Spec => []TaskOnItsWay
  <1>1. Init => TaskRight
    BY TaskInit DEF TaskRight
  <1>2. Typed /\ ClaimRight /\ ClaimRight' /\ TaskRight /\ [Next]_vars => TaskRight'
    <2> SUFFICES ASSUME Typed, ClaimRight, ClaimRight', TaskRight, [Next]_vars, Serving', NEW d \in Clients
                 PROVE  OneTask(d)'
      BY DEF TaskRight
    <2>1. Serving
      BY ServedBefore
    <2>2. OneClaim(d) /\ OneClaim(d)' /\ OneTask(d)
      BY <2>1 DEF ClaimRight, TaskRight
    <2> QED
      BY <2>1, <2>2, TaskStep
  <1>3. Typed /\ TaskRight => TaskOnItsWay
    BY PendingIsOne DEF TaskRight, TaskOnItsWay, Serving
  <1>4. Init => Typed /\ ClaimRight
    BY TypedInit, ClaimInit DEF ClaimRight
  <1>5. Typed /\ ClaimRight /\ [Next]_vars => Typed' /\ ClaimRight'
    BY TypedStep, ClaimStep DEF ClaimRight
  <1> QED
    BY <1>1, <1>2, <1>3, <1>4, <1>5, PTL DEF Spec
=============================================================================
