------------------------------ MODULE FileSync ------------------------------
(***************************************************************************)
(* What BibakBOX (FINAL) does to the files.  The server and every client   *)
(* have a directory, and users change them at any time.  A client that     *)
(* connects exchanges files with the server alone; then, round after       *)
(* round, each thread of the server compares the server's directory with   *)
(* its client's and enters in the shared listUpdated who has the version   *)
(* to keep (phase 1), fetches what its client has to give (phase 2), and   *)
(* sends the result to its client (phase 3); the last thread cleans up.    *)
(*                                                                         *)
(* The threads take turns as in module Rounds, which SyncServer            *)
(* implements.  A thread and its client wait for each other at every       *)
(* message and are one process; a step handles one entry of a directory or *)
(* of a list, and users act between any two of them.                       *)
(***************************************************************************)
EXTENDS Integers, FiniteSets

CONSTANTS
  Clients, Server, NoClient,
  Paths, Dirs,   \* the names that may exist, and which of them are directories
  Above,         \* the directories that a path is in
  Starts,        \* the directories at the start
  MaxEdits       \* bound on what the users do

Replicas == Clients \cup {Server}

\* A file is its modification time and its contents; 0 is the time of none.
Absent    == [m |-> 0, v |-> 0]
Directory == [m |-> 2, v |-> 0]

ASSUME FileSyncAssumption ==
  /\ Server \notin Clients /\ NoClient \notin Replicas
  /\ Dirs \subseteq Paths /\ Above \in [Paths -> SUBSET Dirs]
  /\ \A p \in Paths : p \notin Above[p] /\ \A a \in Above[p] : Above[a] \subseteq Above[p]
  /\ IsFiniteSet(Paths) /\ MaxEdits \in Nat
  \* What is there at the start is in a directory that is there.
  /\ \A s \in Starts : /\ s \in [Replicas -> [Paths -> [m : Nat, v : Nat]]]
                       /\ \A r \in Replicas : \A p \in Paths :
                            /\ IF s[r][p].m = 0 THEN s[r][p] = Absent
                               ELSE \A a \in Above[p] : s[r][a].m # 0
                            /\ p \in Dirs => s[r][p] \in {Absent, Directory}

Sent == NoClient             \* an ownerId that is negated belongs to nobody
Forever == 100               \* __LONG_MAX__, the time of what is deleted

VARIABLES
  at, turn,       \* of the threads, see Rounds
  dir,            \* the directory of each replica
  list,           \* listUpdated: its entries by their place in the tree
  lastSync,       \* listLastSync of the server and of the clients
  listing,        \* listCurrentReg of a client, with its marks
  todo,           \* what the thread of a client has not gone through yet
  serving,        \* who holds Mutex_fileUpdated to send the result
  broken,         \* a process crashed, or a thread waits for itself
  now, edits,     \* the time, and how often users changed something
  calm,           \* how many rounds have ended since the last change or connection
  due,            \* what has to become of a path, as far as it is certain
  asked           \* what users have deleted

lists == <<list, lastSync, listing, todo, serving>>
history == <<now, edits, calm, due, asked>>
vars  == <<at, turn, dir, lists, broken, history>>

R == INSTANCE Rounds WITH Threads <- Clients

-----------------------------------------------------------------------------
(* Directories. *)

Has(r, p) == dir[r][p].m # 0
Names(r)  == {p \in Paths : Has(r, p)}

Below(p) == {q \in Paths : p = q \/ p \in Above[q]}
Top(p)   == IF Above[p] = {} THEN p ELSE CHOOSE a \in Above[p] : Above[a] = {}

\* fopen(p, "wb") and mkdir need the directory that p is in.
HasPlace(r, p) == Above[p] \subseteq Names(r)

Write(r, p, f) == dir' = [dir EXCEPT ![r][p] = f]

\* CreateDirectory makes all the directories of the path.
CreateDirectory(r, p) ==
  dir' = [dir EXCEPT ![r] = [q \in Paths |->
            IF q \in Above[p] \cup {p} /\ ~Has(r, q) THEN Directory ELSE dir[r][q]]]

Without(d, S) == [q \in Paths |-> IF q \in S THEN Absent ELSE d[q]]

RemoveDirectory(r, p) == dir' = [dir EXCEPT ![r] = Without(@, Below(p))]

-----------------------------------------------------------------------------
(* Lists. *)

Entry(p, owner, m, deleted) == [owner |-> owner, m |-> m, deleted |-> deleted, path |-> p]

\* AppendFile leaves an entry that is there alone, and makes the missing
\* directories of a new one without setting their owner.
AppendFile(l, p, owner, m, garbage) ==
  IF p \in DOMAIN l THEN l
  ELSE [q \in DOMAIN l \cup Above[p] \cup {p} |->
          CASE q \in DOMAIN l -> l[q]
            [] q = p -> Entry(p, owner, m, FALSE)
            [] OTHER -> Entry(q, garbage, 0, FALSE)]

Append(p, owner, m) ==
  \E garbage \in IF Above[p] \subseteq DOMAIN list THEN {Server} ELSE Replicas :
    list' = AppendFile(list, p, owner, m, garbage)

\* Variant: a deletion is not heard when the file is in the list.
MarkDeletedNew(p) ==
  list' = IF p \in DOMAIN list THEN list
          ELSE [AppendFile(list, p, Server, Forever, Server) EXCEPT ![p].deleted = TRUE]

\* A deletion wins over whoever has the file, for good.
MarkDeleted(p) ==
  list' = [AppendFile(list, p, Server, Forever, Server) EXCEPT
             ![p].deleted = TRUE, ![p].m = Forever]

Remembered(r, p) == lastSync' = [lastSync EXCEPT ![r] = @ \cup Above[p] \cup {p}]

\* ListFiles, at the start of each round of the client.
ListFiles(c) ==
  listing' = [listing EXCEPT ![c] = [p \in Paths |-> IF Has(c, p) THEN "new" ELSE "none"]]

Mark(c, p) == listing' = [listing EXCEPT ![c][p] = "seen"]

Unmarked(c) == {p \in Paths : listing[c][p] = "new"}

\* The trees are gone through from the top.
First(S) == {p \in S : Above[p] \cap S = {}}

Visits(c, p) == p \in First(todo[c]) /\ todo' = [todo EXCEPT ![c] = @ \ {p}]

Break == broken' = TRUE /\ UNCHANGED <<dir, list, lastSync, listing, serving>>

-----------------------------------------------------------------------------
Init ==
  /\ at = [c \in Clients |-> "out"] /\ turn = 1
  /\ dir \in Starts
  /\ list = <<>>
  /\ lastSync = [r \in Replicas |-> {}]
  /\ listing = [c \in Clients |-> [p \in Paths |-> "none"]]
  /\ todo = [c \in Clients |-> {}]
  /\ serving = NoClient /\ broken = FALSE
  /\ now = 4 /\ edits = 0 /\ calm = 0
  /\ due = dir[Server] /\ asked = {}

-----------------------------------------------------------------------------
(* Connection. *)

Unknown == [m |-> -1, v |-> 0]

\* Two whole rounds have passed since anybody changed anything or connected.
Settled == calm >= 3

Latest(f, g) == IF f.m > g.m THEN f ELSE g

\* The server forgets what it had at the last synchronisation.
Connect(c) ==
  /\ R!BeginAlone(c)
  /\ lastSync' = [lastSync EXCEPT ![Server] = {}]
  /\ ListFiles(c)
  /\ todo' = [todo EXCEPT ![c] = Names(Server)]
  /\ calm' = 0
  /\ due' = [p \in Paths |->
       IF Settled \/ R!Joined = {} THEN Latest(dir[c][p], dir[Server][p]) ELSE Unknown]
  /\ UNCHANGED <<dir, list, serving, broken, now, edits, asked>>

ExchangeDirectory(c, p) ==
  /\ Append(p, Server, 0) /\ Remembered(c, p)
  /\ IF listing[c][p] = "none" THEN CreateDirectory(c, p) /\ UNCHANGED listing
                               ELSE Mark(c, p) /\ UNCHANGED dir
  /\ UNCHANGED <<serving, broken>>

\* The client sends its version, or the end of a file that it has no more.
ClientSends(c, p) ==
  /\ Mark(c, p)
  /\ IF Has(c, p)
     THEN Write(Server, p, dir[c][p]) /\ Append(p, c, dir[c][p].m) /\ Remembered(c, p)
     ELSE Write(Server, p, Absent) /\ UNCHANGED <<list, lastSync>>
  /\ UNCHANGED <<serving, broken>>

ClientReceives(c, p) ==
  IF HasPlace(c, p)
  THEN /\ Write(c, p, dir[Server][p])
       /\ Append(p, Server, dir[Server][p].m) /\ Remembered(c, p)
       /\ IF listing[c][p] = "none" THEN UNCHANGED listing ELSE Mark(c, p)
       /\ UNCHANGED <<serving, broken>>
  ELSE Break

IsNewer(c, p) == dir[c][p].m > dir[Server][p].m

\* A file that vanished leaves the time of another in the buffer of stat.
Exchange(c, p) ==
  /\ at[c] = "alone" /\ Visits(c, p)
  /\ IF ~Has(Server, p) THEN UNCHANGED <<dir, list, lastSync, listing, serving, broken>>
     ELSE IF p \in Dirs THEN ExchangeDirectory(c, p)
     ELSE IF listing[c][p] = "none" THEN ClientReceives(c, p)
     ELSE \/ (IsNewer(c, p) \/ ~Has(c, p)) /\ ClientSends(c, p)
          \/ (~IsNewer(c, p) \/ ~Has(c, p)) /\ ClientReceives(c, p)
  /\ UNCHANGED <<at, turn, history>>

\* What only the client has; the name of a directory is cut at its first slash
\* when it is entered in the list.
Upload(c, p) ==
  /\ at[c] = "alone" /\ todo[c] = {} /\ p \in First(Unmarked(c))
  /\ IF p \in Dirs
     THEN /\ CreateDirectory(Server, p) /\ Append(Top(p), Server, 0)
          /\ Remembered(c, p) /\ Mark(c, p) /\ UNCHANGED <<serving, broken>>
     ELSE IF HasPlace(Server, p) THEN ClientSends(c, p)
     ELSE Break
  /\ UNCHANGED <<at, turn, todo, history>>

EndConnection(c) ==
  /\ todo[c] = {} /\ Unmarked(c) = {}
  /\ R!EndAlone(c) /\ ListFiles(c)
  /\ UNCHANGED <<dir, list, lastSync, todo, serving, broken, history>>

-----------------------------------------------------------------------------
(* Phase 1. *)

Works(c, k) == at[c] = "work" /\ turn = k

StartRound(c) ==
  /\ R!Enter(c) /\ todo' = [todo EXCEPT ![c] = Names(Server)]
  /\ UNCHANGED <<dir, list, lastSync, listing, serving, broken, history>>

\* The owner of an entry is the one with the latest time.
ClientHasNewer(c, p) ==
  list' = IF p \notin DOMAIN list THEN AppendFile(list, p, c, dir[c][p].m, Server)
          ELSE IF list[p].m < dir[c][p].m
          THEN [list EXCEPT ![p].m = dir[c][p].m, ![p].owner = c]
          ELSE list

ServerHasNewer(p) ==
  list' = IF p \notin DOMAIN list THEN AppendFile(list, p, Server, dir[Server][p].m, Server)
          ELSE IF list[p].m <= dir[Server][p].m
          THEN [list EXCEPT ![p].m = dir[Server][p].m, ![p].owner = Server]
          ELSE list

\* Variant: whatever the client does not have was deleted there.
HadItAlways(c, p) == p \in Paths

HadIt(c, p) == p \in lastSync[c]

\* UpdateExistingFiles.  The client answers with its time, 1 for what it has
\* had, or 0; it crashes on a file that came after its listing.
Compare(c, p) ==
  /\ Works(c, 1) /\ Visits(c, p)
  /\ \/ /\ ~Has(Server, p)
        /\ UNCHANGED <<list, listing, broken>>
     \/ /\ Has(Server, p) /\ Has(c, p) /\ listing[c][p] = "none"
        /\ broken' = TRUE /\ UNCHANGED <<list, listing>>
     \/ /\ Has(Server, p) /\ Has(c, p) /\ listing[c][p] # "none"
        /\ Mark(c, p) /\ UNCHANGED broken
        /\ IF p \in Dirs THEN Append(p, Server, dir[Server][p].m)
           ELSE IF IsNewer(c, p) THEN ClientHasNewer(c, p) ELSE ServerHasNewer(p)
     \/ /\ Has(Server, p) /\ ~Has(c, p) /\ UNCHANGED <<listing, broken>>
        /\ IF HadIt(c, p) THEN MarkDeleted(p)
           ELSE IF p \in Dirs THEN Append(p, Server, dir[Server][p].m) ELSE ServerHasNewer(p)
  /\ UNCHANGED <<at, turn, dir, lastSync, serving, history>>

\* Variant: the server does not ask what it had.
Offered(c, p, m) == AppendFile(list, p, c, m, Server)

\* UpdateInexistingFiles: what the server had and has no more was deleted there.
OfferedOrDeleted(c, p, m) ==
  LET l == AppendFile(list, p, c, m, Server) IN
    IF p \in lastSync[Server] THEN [l EXCEPT ![p].deleted = TRUE, ![p].m = Forever] ELSE l

\* stat leaves the time of another file when the file is gone.
StatTimes(c, p) == IF Has(c, p) THEN {dir[c][p].m} ELSE {Directory.m, now}

Offer(c, p) ==
  /\ Works(c, 1) /\ todo[c] = {} /\ p \in First(Unmarked(c))
  /\ Mark(c, p) /\ \E m \in StatTimes(c, p) : list' = OfferedOrDeleted(c, p, m)
  /\ UNCHANGED <<at, turn, dir, lastSync, todo, serving, broken, history>>

EndCompare(c) ==
  /\ turn = 1 /\ todo[c] = {} /\ Unmarked(c) = {}
  /\ R!Finish(c) /\ lastSync' = [lastSync EXCEPT ![c] = {}]
  /\ UNCHANGED <<dir, list, listing, todo, serving, broken, history>>

-----------------------------------------------------------------------------
(* Phase 2, UpdateServer. *)

Owned(c) == {p \in DOMAIN list : list[p].owner = c}

\* Variant: the entry keeps its owner.
LeaveIt(p) == UNCHANGED list

\* A deleted file is not asked for.
PassOver(p) == list' = [list EXCEPT ![p].owner = Server]

Fetch(c, p) ==
  /\ Works(c, 2) /\ p \in First(Owned(c))
  /\ \/ /\ list[p].deleted /\ PassOver(p)
        /\ UNCHANGED <<dir, lastSync, broken>>
     \/ \* CreateDirectory cuts the name of the entry
        /\ ~list[p].deleted /\ p \in Dirs
        /\ list' = [list EXCEPT ![p].owner = Sent, ![p].path = Top(p)]
        /\ Remembered(c, p) /\ CreateDirectory(Server, p) /\ UNCHANGED broken
     \/ /\ ~list[p].deleted /\ p \notin Dirs /\ HasPlace(Server, p) /\ Has(c, p)
        /\ list' = [list EXCEPT ![p].owner = Sent]
        /\ Write(Server, p, dir[c][p]) /\ Remembered(c, p) /\ UNCHANGED broken
     \/ \* the file is gone: what the server has is overwritten, and deleted later
        /\ ~list[p].deleted /\ p \notin Dirs /\ HasPlace(Server, p) /\ ~Has(c, p)
        /\ list' = [list EXCEPT ![p].owner = Sent, ![p].deleted = TRUE]
        /\ Write(Server, p, [m |-> now, v |-> 0]) /\ UNCHANGED <<lastSync, broken>>
     \/ \* another thread has not created the directory yet
        /\ ~list[p].deleted /\ p \notin Dirs /\ ~HasPlace(Server, p)
        /\ broken' = TRUE /\ UNCHANGED <<dir, list, lastSync>>
  /\ UNCHANGED <<at, turn, listing, todo, serving, history>>

EndFetch(c) ==
  /\ turn = 2 /\ Owned(c) = {} /\ R!Finish(c)
  /\ UNCHANGED <<dir, lists, broken, history>>

-----------------------------------------------------------------------------
(* Phase 3, UpdateClient, with Mutex_fileUpdated held from end to end. *)

BeginServe(c) ==
  /\ Works(c, 3) /\ serving = NoClient /\ serving' = c
  /\ todo' = [todo EXCEPT ![c] = DOMAIN list]
  /\ UNCHANGED <<at, turn, dir, list, lastSync, listing, broken, history>>

ServeDirectory(c, e) ==
  /\ IF e.deleted THEN RemoveDirectory(c, e.path) /\ UNCHANGED lastSync
                  ELSE CreateDirectory(c, e.path) /\ Remembered(c, e.path)
  /\ UNCHANGED broken

ServeFile(c, p, e) ==
  \/ /\ e.deleted /\ Write(c, p, Absent) /\ UNCHANGED <<lastSync, broken>>
  \/ /\ ~e.deleted /\ HasPlace(c, p) /\ Has(Server, p)
     /\ Write(c, p, [m |-> e.m, v |-> dir[Server][p].v]) /\ Remembered(c, p)
     /\ UNCHANGED broken
  \/ \* the client is told to delete it; then the thread waits for itself
     /\ ~e.deleted /\ HasPlace(c, p) /\ ~Has(Server, p)
     /\ Write(c, p, Absent) /\ broken' = TRUE /\ UNCHANGED lastSync
  \/ \* the client writes to a file that it could not open
     /\ ~e.deleted /\ ~HasPlace(c, p)
     /\ broken' = TRUE /\ UNCHANGED <<dir, lastSync>>

Serve(c, p) ==
  /\ Works(c, 3) /\ serving = c /\ Visits(c, p)
  /\ IF p \in Dirs THEN ServeDirectory(c, list[p]) ELSE ServeFile(c, p, list[p])
  /\ UNCHANGED <<at, turn, list, listing, serving, history>>

\* The client lists its directory for the next round.
EndServe(c) ==
  /\ turn = 3 /\ serving = c /\ todo[c] = {}
  /\ R!Finish(c) /\ serving' = NoClient /\ ListFiles(c)
  /\ UNCHANGED <<dir, list, lastSync, todo, broken, history>>

-----------------------------------------------------------------------------
(* The end of a phase, and of a round. *)

\* A directory below another that was fetched in a round has lost its name.
Cut == {p \in DOMAIN list : list[p].path # p}

\* Entries that the clean-up comes upon: those below a deleted one go with it.
Doomed == First({p \in DOMAIN list : list[p].deleted})

\* Variant: what is in a directory stays in the list.
GoneAlone == Doomed

Gone == UNION {Below(list[p].path) : p \in Doomed}

\* DeleteGivenFile calls itself for ever on an entry with the name of one above.
CleanLists ==
  LET rest == [p \in DOMAIN list \ Gone |-> list[p]] IN
  /\ broken' = (Gone \cap Cut # {})
  /\ dir' = [dir EXCEPT ![Server] = Without(@, Gone)]
  /\ list' = rest
  /\ lastSync' = [lastSync EXCEPT ![Server] =
                    UNION {Above[rest[p].path] \cup {rest[p].path} : p \in DOMAIN rest}]

EndPhase ==
  /\ R!Turn
  /\ IF turn = 3 THEN CleanLists /\ calm' = IF Settled THEN calm ELSE calm + 1
                 ELSE UNCHANGED <<dir, list, lastSync, broken, calm>>
  /\ IF turn = 3 /\ Settled' THEN due' = dir'[Server] /\ asked' = {}
                              ELSE UNCHANGED <<due, asked>>
  /\ UNCHANGED <<listing, todo, serving, now, edits>>

-----------------------------------------------------------------------------
(* The users. *)

\* A change is timely when no round that it could miss is under way.
Timely(r) ==
  IF r = Server THEN \A c \in Clients : at[c] \in {"out", "gate"} ELSE at[r] = "gate"

Acts(r) ==
  /\ r \in Clients => at[r] # "out"
  /\ edits < MaxEdits /\ edits' = edits + 1
  /\ calm' = 0
  /\ UNCHANGED <<at, turn, list, lastSync, listing, serving, broken>>

\* A thread that is reading the directory of the server may come upon a new file.
MayBeFound(r, p) ==
  \E S \in SUBSET {c \in Clients : todo[c] # {} /\ (at[c] = "alone" \/ Works(c, 1))} :
    /\ r # Server => S = {}
    /\ todo' = [c \in Clients |-> IF c \in S THEN todo[c] \cup {p} ELSE todo[c]]

\* A new file must not be one that somebody has just deleted or made.
Create(r, p) ==
  /\ Acts(r) /\ ~Has(r, p) /\ HasPlace(r, p)
  /\ Write(r, p, IF p \in Dirs THEN Directory ELSE [m |-> now, v |-> edits + 3])
  /\ MayBeFound(r, p) /\ UNCHANGED <<now, asked>>
  /\ due' = [q \in Paths |->
       IF q = p THEN IF /\ Timely(r) /\ due[p] = Absent /\ p \notin DOMAIN list
                        /\ \A c \in Clients \ {r} : listing[c][p] = "none"
                        /\ \A a \in Above[p] : due[a] = Directory
                     THEN dir'[r][p] ELSE Unknown
       ELSE IF p \in Dirs /\ q \in Above[p] /\ due[q] = Absent THEN Unknown ELSE due[q]]

\* The latest of several changes wins, and a deletion over all of them.  Two
\* changes may come in the same second.
Modify(r, p) ==
  /\ Acts(r) /\ Has(r, p) /\ p \notin Dirs
  /\ now' \in IF edits = 0 THEN {now} ELSE {now, now + 1}
  /\ Write(r, p, [m |-> now', v |-> edits + 3])
  /\ due' = [due EXCEPT ![p] =
       IF Timely(r) /\ @ = Absent THEN Absent
       ELSE IF Timely(r) /\ @ # Unknown /\ now' > @.m THEN dir'[r][p]
       ELSE Unknown]
  /\ UNCHANGED <<todo, asked>>

\* After a connection the server cannot tell, until the next round, what was
\* deleted from what is new.  A directory that is gone before the server has
\* heard of it is offered all the same when its client has listed it, and one
\* with a directory in it that its client has not heard of is made again.
CanTell(r, q) ==
  /\ r = Server => lastSync[Server] # {} \/ R!Joined = {}
  /\ q \in Dirs => Has(Server, q)
  /\ \A s \in R!Joined \cup {Server} : Names(s) \cap Dirs \cap Below(q) \subseteq Names(r)

Delete(r, p) ==
  /\ Acts(r) /\ Has(r, p) /\ asked' = asked \cup {p} /\ UNCHANGED <<now, todo>>
  /\ dir' = [dir EXCEPT ![r] = Without(@, Below(p))]
  /\ due' = [q \in Paths |->
       IF q \notin Below(p) \/ due[q] = Unknown THEN due[q]
       ELSE IF due[q] = Absent /\ (r # Server \/ ~Has(r, q)) THEN Absent
       ELSE IF Has(r, q) /\ Timely(r) /\ CanTell(r, q) THEN Absent ELSE Unknown]

User == \E r \in Replicas, p \in Paths : Create(r, p) \/ Modify(r, p) \/ Delete(r, p)

-----------------------------------------------------------------------------
Thread(c) ==
  \/ EndConnection(c) \/ StartRound(c) \/ EndCompare(c) \/ EndFetch(c)
  \/ BeginServe(c) \/ EndServe(c)
  \/ \E p \in Paths : \/ Exchange(c, p) \/ Upload(c, p) \/ Compare(c, p) \/ Offer(c, p)
                      \/ Serve(c, p)
  \/ \E p \in DOMAIN list : Fetch(c, p)

System == EndPhase \/ \E c \in Clients : Thread(c)

Next == ~broken /\ (System \/ User \/ \E c \in Clients : Connect(c))

Spec == Init /\ [][Next]_vars

\* Some thread goes on as long as one can, which SyncServer shows of a round
\* that no new client interrupts; nothing makes a user act or a client connect.
FairSpec == Spec /\ WF_vars(~broken /\ System)

-----------------------------------------------------------------------------
File == [m : Nat, v : Nat]

Closed(S) == \A p \in S : Above[p] \subseteq S

\* The values of the variables; directories and lists are trees, and only one
\* thread at a time goes through listUpdated in phase 3.
TypeOK ==
  /\ R!RoundsTypeOK
  /\ dir \in [Replicas -> [Paths -> File]] /\ \A r \in Replicas : Closed(Names(r))
  /\ DOMAIN list \subseteq Paths /\ Closed(DOMAIN list)
  /\ \A p \in DOMAIN list :
       list[p] \in [owner : Replicas \cup {Sent}, m : Nat, deleted : BOOLEAN, path : Below(Top(p))]
  /\ lastSync \in [Replicas -> SUBSET Paths] /\ \A r \in Replicas : Closed(lastSync[r])
  /\ listing \in [Clients -> [Paths -> {"none", "new", "seen"}]]
  /\ todo \in [Clients -> SUBSET Paths]
  /\ serving # NoClient => Works(serving, 3)
  /\ broken \in BOOLEAN

\* Two exceptions that the code makes, both to what is said below: a directory
\* that lost its name (Cut); and the time of an entry that has outlived its
\* file, because the server forgot at a connection that the file was deleted
\* there, and then got an older one.
Outlived == {p \in DOMAIN list \ Dirs : list[p].m > dir[Server][p].m}

Agree == \A c \in R!Joined, p \in Paths \ Outlived : dir[c][p] = dir[Server][p]

\* When two whole rounds have passed since the last change and the last
\* connection, and no process crashed, every client that has joined has the
\* same files as the server, with the same contents and times: the comparisons
\* of phase 1 leave one winner for each file, which reaches everybody.
SettledAgree == ~broken /\ Settled /\ Cut = {} => Agree

\* What they agree on is what the users are due: the latest of several changes,
\* the later of the two files when a client connects, a new file; and a
\* deletion wins over every change.  This is for changes made between rounds;
\* a change made within one may be overwritten by what was compared before.
EditsKept ==
  [][Settled' /\ ~Settled /\ ~broken' /\ Cut = {}
       => \A p \in Paths \ Outlived : due[p] \in {Unknown, dir'[Server][p]}]_vars

\* The program removes a file anywhere only if a user has deleted it, or a
\* directory above it, somewhere since the replicas last agreed: what is absent
\* from one list or directory because it is new is never taken for deleted.
RemovedOnlyIfAsked ==
  [][edits' = edits /\ Cut = {} =>
       \A r \in Replicas : \A p \in Names(r) :
         dir'[r][p] = Absent => \E q \in asked : p \in Below(q)]_vars

\* As users stop acting, the replicas come to agree and stay so, unless a
\* process crashed: every loop over a list ends, and no two versions of a file
\* are exchanged for ever.
Converges == <>[](broken \/ Cut # {} \/ Agree)
=============================================================================
