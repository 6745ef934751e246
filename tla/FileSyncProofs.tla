-------------------------- MODULE FileSyncProofs --------------------------
(***************************************************************************)
(* What holds of the files of BibakBOX for any number of clients, any tree *)
(* of names and however often users change something: directories and     *)
(* lists stay trees, one thread at a time goes through listUpdated to send *)
(* it and nobody changes it meanwhile, the threads go through the rounds   *)
(* of module Rounds, two whole rounds after the last change every replica  *)
(* has the same files, and nothing is removed that no user has deleted.    *)
(***************************************************************************)
EXTENDS FileSync, FiniteSetTheorems, WellFoundedInduction, TLAPS

-----------------------------------------------------------------------------
(* Names. *)

\* The directories that a path is in form a chain of directories.
LEMMA PathsKnown ==
  /\ Dirs \subseteq Paths
  /\ \A p \in Paths : /\ Above[p] \subseteq Dirs /\ Above[p] \subseteq Paths /\ p \notin Above[p]
                      /\ IsFiniteSet(Above[p])
                      /\ \A a \in Above[p] : Above[a] \subseteq Above[p]
  <1>1. Dirs \subseteq Paths /\ IsFiniteSet(Paths)
    BY FileSyncAssumption
  <1>2. \A p \in Paths : Above[p] \subseteq Dirs /\ p \notin Above[p]
                         /\ \A a \in Above[p] : Above[a] \subseteq Above[p]
    BY FileSyncAssumption
  <1>3. \A p \in Paths : Above[p] \in SUBSET Paths
    BY <1>1, <1>2
  <1>4. \A p \in Paths : IsFiniteSet(Above[p])
    BY <1>1, <1>3, FS_Subset
  <1> QED  BY <1>1, <1>2, <1>3, <1>4

\* A set of natural numbers has a least element.
LEMMA LeastExists ==
  ASSUME NEW S, S \subseteq Nat, S # {}
  PROVE  \E x \in S : \A y \in S : x <= y
  <1> DEFINE L == {ss \in Nat \X Nat : ss[1] < ss[2]}
  <1>1. IsWellFoundedOn(L, Nat)
    BY NatLessThanWellFounded DEF OpToRel
  <1>2. \E x \in S : \A y \in S : ~(<<y, x>> \in L)
    <2> HIDE DEF L
    <2> QED  BY <1>1, WFMin
  <1>3. \A x, y \in S : ~(<<y, x>> \in L) => x <= y
    OBVIOUS
  <1> QED  BY <1>2, <1>3

\* What is in a directory is in one that is in none: the one with the fewest
\* directories above it.
LEMMA TopExists ==
  ASSUME NEW p \in Paths, Above[p] # {}
  PROVE  \E a \in Above[p] : Above[a] = {}
  <1> DEFINE S == {Cardinality(Above[a]) : a \in Above[p]}
  <1>1. \A a \in Above[p] : a \in Paths /\ IsFiniteSet(Above[a]) /\ Cardinality(Above[a]) \in Nat
    BY PathsKnown, FS_CardinalityType
  <1>2. S \subseteq Nat /\ S # {}
    BY <1>1
  <1>3. PICK n \in S : \A k \in S : n <= k
    <2> HIDE DEF S
    <2> QED  BY <1>2, LeastExists
  <1>4. PICK a \in Above[p] : n = Cardinality(Above[a])
    BY <1>3
  <1> SUFFICES ASSUME NEW b \in Above[a] PROVE FALSE
    BY <1>4
  <1>5. b \in Above[p] /\ Above[b] \subseteq Above[a] /\ b \notin Above[b]
    BY <1>1, <1>4, PathsKnown
  <1>6. IsFiniteSet(Above[a] \ {b}) /\ Cardinality(Above[a] \ {b}) = Cardinality(Above[a]) - 1
    BY <1>1, <1>4, FS_RemoveElement
  <1>7. Above[b] \in SUBSET (Above[a] \ {b})
    BY <1>5
  <1>8. Cardinality(Above[b]) <= Cardinality(Above[a] \ {b})
    BY <1>6, <1>7, FS_Subset
  <1>9. n <= Cardinality(Above[b])
    BY <1>3, <1>5
  <1> QED  BY <1>1, <1>4, <1>5, <1>6, <1>8, <1>9

\* The first name of a path (all that is left of one that was cut).
LEMMA TopKnown ==
  ASSUME NEW p \in Paths
  PROVE  /\ Top(p) \in Paths /\ Above[Top(p)] = {} /\ Top(Top(p)) = Top(p)
         /\ p \in Below(Top(p)) /\ Top(p) \in Below(Top(p)) /\ Below(Top(p)) \subseteq Paths
  <1>1. Top(p) \in Above[p] \cup {p} /\ Above[Top(p)] = {}
    BY TopExists DEF Top
  <1>2. Top(p) \in Paths
    BY <1>1, PathsKnown
  <1> QED  BY <1>1, <1>2 DEF Top, Below

\* What is below what is below a path is below it.
LEMMA BelowKnown ==
  ASSUME NEW p \in Paths, NEW q \in Paths, NEW a \in Above[q], a \in Below(p)
  PROVE  q \in Below(p)
  BY PathsKnown DEF Below

-----------------------------------------------------------------------------
(* Directories. *)

Held(d) == {p \in Paths : d[p].m # 0}
Trees   == {d \in [Paths -> File] : Closed(Held(d))}

\* What a step may write: a file is in a directory that is there, and no
\* directory becomes absent alone.
Fits(d, p, f) == f \in File /\ IF f.m = 0 THEN p \notin Dirs ELSE Above[p] \subseteq Held(d)

\* A file is written.
LEMMA TreeWritten ==
  ASSUME NEW d \in Trees, NEW p \in Paths, NEW f, Fits(d, p, f)
  PROVE  [d EXCEPT ![p] = f] \in Trees
  <1> DEFINE e == [d EXCEPT ![p] = f]
  <1>1. d \in [Paths -> File] /\ Closed(Held(d)) /\ e \in [Paths -> File]
    BY DEF Trees, Fits
  <1>2. Closed(Held(e))
    <2> SUFFICES ASSUME NEW q \in Held(e), NEW a \in Above[q] PROVE a \in Held(e)
      BY DEF Closed
    <2>1. q \in Paths /\ a \in Dirs /\ a \in Paths /\ a # q
      BY PathsKnown DEF Held
    <2>2. a \in Held(d)
      BY <1>1, <2>1 DEF Held, Closed, Fits
    <2>3. a = p => f.m # 0
      BY <2>1 DEF Fits
    <2> QED  BY <1>1, <2>1, <2>2, <2>3 DEF Held
  <1> QED  BY <1>1, <1>2 DEF Trees

\* A directory is made, and those it is in.
LEMMA TreeMade ==
  ASSUME NEW d \in Trees, NEW p \in Paths
  PROVE  [q \in Paths |-> IF q \in Above[p] \cup {p} /\ ~(d[q].m # 0)
                          THEN Directory ELSE d[q]] \in Trees
  <1> DEFINE e == [q \in Paths |-> IF q \in Above[p] \cup {p} /\ ~(d[q].m # 0)
                                   THEN Directory ELSE d[q]]
  <1>1. d \in [Paths -> File] /\ Closed(Held(d)) /\ Directory \in File /\ Directory.m # 0
    BY DEF Trees, Directory, File
  <1>2. e \in [Paths -> File]
    BY <1>1
  <1>3. Held(e) = Held(d) \cup Above[p] \cup {p}
    BY <1>1, PathsKnown DEF Held
  <1>4. Closed(Held(e))
    <2> HIDE DEF e
    <2> QED  BY <1>1, <1>3, PathsKnown DEF Closed
  <1> QED  BY <1>2, <1>4 DEF Trees

\* What is removed is removed with all that is below it.
LEMMA TreeWithout ==
  ASSUME NEW d \in Trees, NEW S, \A q \in Paths : Above[q] \cap S # {} => q \in S
  PROVE  Without(d, S) \in Trees
  <1>1. d \in [Paths -> File] /\ Closed(Held(d)) /\ Absent \in File /\ Absent.m = 0
    BY DEF Trees, Absent, File
  <1>2. Without(d, S) \in [Paths -> File]
    BY <1>1 DEF Without
  <1>3. Held(Without(d, S)) = Held(d) \ S
    BY <1>1 DEF Held, Without
  <1>4. \A q \in Held(d) \ S : q \in Paths /\ Above[q] \cap S = {}
    BY DEF Held
  <1>5. Closed(Held(Without(d, S)))
    BY <1>1, <1>3, <1>4 DEF Closed
  <1> QED  BY <1>2, <1>5 DEF Trees

-----------------------------------------------------------------------------
(* Lists. *)

EntryOf(p) == [owner : Replicas \cup {Sent}, m : Nat, deleted : BOOLEAN, path : Below(Top(p))]
Listed(l)  == /\ DOMAIN l \subseteq Paths /\ Closed(DOMAIN l)
              /\ \A p \in DOMAIN l : l[p] \in EntryOf(p)

\* AppendFile.
LEMMA ListAppended ==
  ASSUME NEW l, Listed(l), NEW p \in Paths, NEW owner \in Replicas, NEW m \in Nat,
         NEW garbage \in Replicas
  PROVE  /\ Listed(AppendFile(l, p, owner, m, garbage))
         /\ p \in DOMAIN AppendFile(l, p, owner, m, garbage)
  <1> DEFINE k == AppendFile(l, p, owner, m, garbage)
  <1>1. CASE p \in DOMAIN l
    BY <1>1 DEF AppendFile
  <1>2. CASE p \notin DOMAIN l
    <2>1. k = [q \in DOMAIN l \cup Above[p] \cup {p} |->
                 CASE q \in DOMAIN l -> l[q]
                   [] q = p -> Entry(p, owner, m, FALSE)
                   [] OTHER -> Entry(q, garbage, 0, FALSE)]
      BY <1>2 DEF AppendFile
    <2> HIDE DEF k
    <2>2. DOMAIN k = DOMAIN l \cup Above[p] \cup {p}
      BY <2>1
    <2>3. DOMAIN k \subseteq Paths /\ Closed(DOMAIN k)
      BY <2>2, PathsKnown DEF Listed, Closed
    <2>4. \A q \in Paths : /\ Entry(q, owner, m, FALSE) \in EntryOf(q)
                           /\ Entry(q, garbage, 0, FALSE) \in EntryOf(q)
      BY TopKnown DEF Entry, EntryOf
    <2>5. \A q \in DOMAIN k : k[q] \in EntryOf(q)
      <3> TAKE q \in DOMAIN k
      <3>1. CASE q \in DOMAIN l
        <4>1. k[q] = l[q]
          BY <1>2, <2>1, <2>2, <3>1
        <4> QED  BY <3>1, <4>1 DEF Listed
      <3>2. CASE q \notin DOMAIN l /\ q = p
        BY <2>1, <2>2, <2>4, <3>2
      <3>3. CASE q \notin DOMAIN l /\ q # p
        BY <2>1, <2>2, <2>3, <2>4, <3>3
      <3> QED  BY <3>1, <3>2, <3>3
    <2> QED  BY <2>2, <2>3, <2>5 DEF Listed, k
  <1> QED  BY <1>1, <1>2

\* An entry is changed.
LEMMA EntryChanged ==
  ASSUME NEW l, Listed(l), NEW p \in DOMAIN l, NEW e \in EntryOf(p)
  PROVE  Listed([l EXCEPT ![p] = e])
  BY DEF Listed

-----------------------------------------------------------------------------
(* The state. *)

Branches == {S \in SUBSET Paths : Closed(S)}
Marks    == {"none", "new", "seen"}

\* The types of TypeOK, with the trees as sets of values.
Typed ==
  /\ R!RoundsTypeOK
  /\ dir \in [Replicas -> Trees]
  /\ Listed(list)
  /\ lastSync \in [Replicas -> Branches]
  /\ listing \in [Clients -> [Paths -> Marks]]
  /\ todo \in [Clients -> SUBSET Paths]
  /\ broken \in BOOLEAN /\ now \in Nat /\ edits \in Nat /\ calm \in Nat

\* A client that is synchronised is alone, and between rounds; in the later
\* phases of a round all who have joined are in it.
Apart ==
  /\ \A c \in Clients : at[c] = "alone" =>
       turn = 1 /\ \A d \in Clients \ {c} : at[d] \in {"out", "gate"}
  /\ turn # 1 => /\ \A c \in Clients : at[c] \in {"out", "work", "done"}
                 /\ \E c \in Clients : at[c] # "out"

\* Who holds Mutex_fileUpdated to send the result goes through entries that are
\* in the list: it is in phase 3, and nobody else then changes the list.
Serves ==
  serving # NoClient => /\ serving \in Clients /\ Works(serving, 3)
                        /\ todo[serving] \subseteq DOMAIN list

\* A file of a replica.
LEMMA FileKnown ==
  ASSUME Typed, NEW r \in Replicas
  PROVE  /\ dir[r] \in Trees /\ dir[r] \in [Paths -> File] /\ Held(dir[r]) = Names(r)
         /\ Closed(Names(r)) /\ Names(r) \subseteq Paths
         /\ \A p \in Paths : dir[r][p] \in File /\ dir[r][p].m \in Nat /\ dir[r][p].v \in Nat
  BY DEF Typed, Trees, Held, Names, Has, File

\* Write, of what fits.
LEMMA WriteTyped ==
  ASSUME Typed, NEW r \in Replicas, NEW p \in Paths, NEW f, Fits(dir[r], p, f), Write(r, p, f)
  PROVE  dir' \in [Replicas -> Trees]
  <1>1. [dir[r] EXCEPT ![p] = f] \in Trees
    BY FileKnown, TreeWritten
  <1> QED  BY <1>1 DEF Write, Typed

\* CreateDirectory, at any depth.
LEMMA CreateDirectoryTyped ==
  ASSUME Typed, NEW r \in Replicas, NEW p \in Paths, CreateDirectory(r, p)
  PROVE  dir' \in [Replicas -> Trees]
  <1> DEFINE d == [q \in Paths |-> IF q \in Above[p] \cup {p} /\ ~(dir[r][q].m # 0)
                                   THEN Directory ELSE dir[r][q]]
  <1>1. d \in Trees
    BY FileKnown, TreeMade
  <1>2. dir' = [dir EXCEPT ![r] = d]
    BY DEF CreateDirectory, Has
  <1> HIDE DEF d
  <1> QED  BY <1>1, <1>2 DEF Typed

\* What is removed goes with all that is below it.
LEMMA RemovedTyped ==
  ASSUME Typed, NEW r \in Replicas, NEW p \in Paths, dir' = [dir EXCEPT ![r] = Without(@, Below(p))]
  PROVE  dir' \in [Replicas -> Trees]
  <1>1. \A q \in Paths : Above[q] \cap Below(p) # {} => q \in Below(p)
    BY BelowKnown
  <1>2. Without(dir[r], Below(p)) \in Trees
    BY <1>1, FileKnown, TreeWithout
  <1> QED  BY <1>2 DEF Typed

\* Append, whatever a directory made on the way finds for its owner.
LEMMA AppendTyped ==
  ASSUME Typed, NEW p \in Paths, NEW owner \in Replicas, NEW m \in Nat, Append(p, owner, m)
  PROVE  Listed(list')
  <1>1. PICK garbage \in Replicas : list' = AppendFile(list, p, owner, m, garbage)
    BY DEF Append, Replicas
  <1> QED  BY <1>1, ListAppended DEF Typed

\* A path is remembered with the directories that it is in.
LEMMA RememberedTyped ==
  ASSUME Typed, NEW r \in Replicas, NEW p \in Paths, Remembered(r, p)
  PROVE  lastSync' \in [Replicas -> Branches]
  <1>1. lastSync[r] \cup Above[p] \cup {p} \in Branches
    BY PathsKnown DEF Typed, Branches, Closed
  <1> QED  BY <1>1 DEF Remembered, Typed

\* A mark in the listing of a client.
LEMMA MarkTyped ==
  ASSUME Typed, NEW c \in Clients, NEW p \in Paths, Mark(c, p)
  PROVE  listing' \in [Clients -> [Paths -> Marks]]
  BY DEF Mark, Typed, Marks

\* A new listing of a client.
LEMMA ListFilesTyped ==
  ASSUME Typed, NEW c \in Clients, ListFiles(c)
  PROVE  listing' \in [Clients -> [Paths -> Marks]]
  BY DEF ListFiles, Typed, Marks

\* What a thread visits is a path, and it is gone through once.
LEMMA VisitsTyped ==
  ASSUME Typed, NEW c \in Clients, NEW p, Visits(c, p)
  PROVE  /\ p \in todo[c] /\ p \in Paths
         /\ todo' = [todo EXCEPT ![c] = @ \ {p}] /\ todo' \in [Clients -> SUBSET Paths]
  BY DEF Visits, First, Typed

\* What a client has that nobody asked for is a path.
LEMMA UnmarkedKnown ==
  ASSUME NEW c, NEW p, p \in First(Unmarked(c))
  PROVE  p \in Paths
  BY DEF Unmarked, First

\* The client gives its version, or the end of a file, to the server.
LEMMA ClientSendsTyped ==
  ASSUME Typed, NEW c \in Clients, NEW p \in Paths \ Dirs, HasPlace(Server, p), ClientSends(c, p)
  PROVE  /\ dir' \in [Replicas -> Trees] /\ Listed(list') /\ lastSync' \in [Replicas -> Branches]
         /\ listing' \in [Clients -> [Paths -> Marks]] /\ UNCHANGED <<serving, broken>>
  <1>0. c \in Replicas /\ Server \in Replicas
    BY DEF Replicas
  <1>1. listing' \in [Clients -> [Paths -> Marks]] /\ UNCHANGED <<serving, broken>>
    BY MarkTyped DEF ClientSends
  <1>2. dir[c][p] \in File /\ dir[c][p].m \in Nat /\ Absent \in File /\ Absent.m = 0
    BY <1>0, FileKnown DEF Absent, File
  <1>3. Fits(dir[Server], p, dir[c][p]) /\ Fits(dir[Server], p, Absent)
    BY <1>0, <1>2, FileKnown DEF Fits, HasPlace
  <1>4. CASE Has(c, p)
    <2>1. Write(Server, p, dir[c][p]) /\ Append(p, c, dir[c][p].m) /\ Remembered(c, p)
      BY <1>4 DEF ClientSends
    <2> QED  BY <1>0, <1>1, <1>2, <1>3, <2>1, WriteTyped, AppendTyped, RememberedTyped
  <1>5. CASE ~Has(c, p)
    <2>1. Write(Server, p, Absent) /\ UNCHANGED <<list, lastSync>>
      BY <1>5 DEF ClientSends
    <2> QED  BY <1>0, <1>1, <1>3, <2>1, WriteTyped DEF Typed
  <1> QED  BY <1>4, <1>5

\* The client gets the version of the server.
LEMMA ClientReceivesTyped ==
  ASSUME Typed, NEW c \in Clients, NEW p \in Paths \ Dirs, ClientReceives(c, p)
  PROVE  /\ dir' \in [Replicas -> Trees] /\ Listed(list') /\ lastSync' \in [Replicas -> Branches]
         /\ listing' \in [Clients -> [Paths -> Marks]] /\ UNCHANGED serving /\ broken' \in BOOLEAN
  <1>0. c \in Replicas /\ Server \in Replicas
    BY DEF Replicas
  <1>1. CASE HasPlace(c, p)
    <2>1. /\ Write(c, p, dir[Server][p]) /\ Append(p, Server, dir[Server][p].m) /\ Remembered(c, p)
          /\ IF listing[c][p] = "none" THEN UNCHANGED listing ELSE Mark(c, p)
          /\ UNCHANGED <<serving, broken>>
      BY <1>1 DEF ClientReceives
    <2>2. dir[Server][p].m \in Nat /\ Fits(dir[c], p, dir[Server][p])
      BY <1>0, <1>1, FileKnown DEF Fits, HasPlace
    <2>3. listing' \in [Clients -> [Paths -> Marks]]
      BY <2>1, MarkTyped DEF Typed
    <2>4. dir' \in [Replicas -> Trees] /\ Listed(list') /\ lastSync' \in [Replicas -> Branches]
      BY <1>0, <2>1, <2>2, WriteTyped, AppendTyped, RememberedTyped
    <2> QED  BY <2>1, <2>3, <2>4 DEF Typed
  <1>2. CASE ~HasPlace(c, p)
    BY <1>2 DEF ClientReceives, Break, Typed
  <1> QED  BY <1>1, <1>2

\* A directory of the server is made at the client.
LEMMA ExchangeDirectoryTyped ==
  ASSUME Typed, NEW c \in Clients, NEW p \in Paths, ExchangeDirectory(c, p)
  PROVE  /\ dir' \in [Replicas -> Trees] /\ Listed(list') /\ lastSync' \in [Replicas -> Branches]
         /\ listing' \in [Clients -> [Paths -> Marks]] /\ UNCHANGED <<serving, broken>>
  <1>0. c \in Replicas /\ Server \in Replicas /\ 0 \in Nat
    BY DEF Replicas
  <1>1. /\ Append(p, Server, 0) /\ Remembered(c, p)
        /\ (CreateDirectory(c, p) /\ UNCHANGED listing) \/ (Mark(c, p) /\ UNCHANGED dir)
        /\ UNCHANGED <<serving, broken>>
    BY DEF ExchangeDirectory
  <1>2. dir' \in [Replicas -> Trees] /\ listing' \in [Clients -> [Paths -> Marks]]
    BY <1>0, <1>1, CreateDirectoryTyped, MarkTyped DEF Typed
  <1> QED  BY <1>0, <1>1, <1>2, AppendTyped, RememberedTyped

-----------------------------------------------------------------------------
(* The rounds. *)

\* What the threads do to each other is a step of Rounds or none at all.
LEMMA StepOfRounds == [Next]_vars => [R!Next]_<<at, turn>>
  <1> SUFFICES ASSUME [Next]_vars PROVE R!Next \/ UNCHANGED <<at, turn>>
    OBVIOUS
  <1>1. CASE UNCHANGED vars
    BY <1>1 DEF vars
  <1>2. CASE EndPhase
    BY <1>2 DEF EndPhase, R!Next
  <1>3. ASSUME NEW c \in Clients, Thread(c) PROVE R!Next \/ UNCHANGED <<at, turn>>
    <2>1. CASE EndConnection(c) \/ StartRound(c) \/ EndCompare(c) \/ EndFetch(c) \/ EndServe(c)
      BY <2>1 DEF EndConnection, StartRound, EndCompare, EndFetch, EndServe, R!Next
    <2>2. CASE BeginServe(c)
      BY <2>2 DEF BeginServe
    <2>3. ASSUME NEW p, \/ Exchange(c, p) \/ Upload(c, p) \/ Compare(c, p) \/ Offer(c, p)
                        \/ Serve(c, p) \/ Fetch(c, p)
          PROVE  UNCHANGED <<at, turn>>
      BY <2>3 DEF Exchange, Upload, Compare, Offer, Serve, Fetch
    <2> QED  BY <1>3, <2>1, <2>2, <2>3 DEF Thread
  <1>4. CASE User
    BY <1>4 DEF User, Create, Modify, Delete, Acts
  <1>5. ASSUME NEW c \in Clients, Connect(c) PROVE R!Next
    BY <1>5 DEF Connect, R!Next
  <1> QED  BY <1>1, <1>2, <1>3, <1>4, <1>5 DEF Next, System

\* The threads of the file lists go through the rounds that SyncServer is shown
\* to implement: an exchange alone, then three phases with a turn after each.
THEOREM KeepsRounds == Spec => R!Spec
  <1>1. Init => R!Init
    BY DEF Init, R!Init
  <1> QED  BY <1>1, StepOfRounds, PTL DEF Spec, R!Spec, R!rounds

\* A connection is apart from a round, and nobody joins a round after its first
\* phase.
LEMMA ApartKept ==
  ASSUME R!RoundsTypeOK, Apart, [R!Next]_<<at, turn>>
  PROVE  (R!RoundsTypeOK /\ Apart)'
  <1>0. at \in [Clients -> {"out", "alone", "gate", "work", "done"}] /\ turn \in 1 .. 3
    BY DEF R!RoundsTypeOK
  <1>1. CASE UNCHANGED <<at, turn>>
    BY <1>1 DEF Apart, R!RoundsTypeOK
  <1>2. ASSUME NEW c \in Clients, R!BeginAlone(c) PROVE (R!RoundsTypeOK /\ Apart)'
    <2>1. at[c] = "out" /\ at' = [at EXCEPT ![c] = "alone"] /\ turn' = turn
          /\ \A d \in Clients \ {c} : at[d] \in {"out", "gate"}
      BY <1>2 DEF R!BeginAlone, R!Move
    <2>2. turn = 1
      BY <2>1 DEF Apart
    <2> QED  BY <1>0, <2>1, <2>2 DEF Apart, R!RoundsTypeOK
  <1>3. ASSUME NEW c \in Clients, R!EndAlone(c) PROVE (R!RoundsTypeOK /\ Apart)'
    <2>1. at[c] = "alone" /\ at' = [at EXCEPT ![c] = "gate"] /\ turn' = turn
      BY <1>3 DEF R!EndAlone, R!Move
    <2> QED  BY <1>0, <2>1 DEF Apart, R!RoundsTypeOK
  <1>4. ASSUME NEW c \in Clients, R!Enter(c) PROVE (R!RoundsTypeOK /\ Apart)'
    <2>1. at[c] = "gate" /\ at' = [at EXCEPT ![c] = "work"] /\ turn' = turn /\ turn = 1
          /\ \A d \in Clients : at[d] # "alone"
      BY <1>4 DEF R!Enter, R!Move
    <2> QED  BY <1>0, <2>1 DEF Apart, R!RoundsTypeOK
  <1>5. ASSUME NEW c \in Clients, R!Finish(c) PROVE (R!RoundsTypeOK /\ Apart)'
    <2>1. at[c] = "work" /\ at' = [at EXCEPT ![c] = "done"] /\ turn' = turn
      BY <1>5 DEF R!Finish, R!Move
    <2> QED  BY <1>0, <2>1 DEF Apart, R!RoundsTypeOK
  <1>6. CASE R!Turn
    <2>1. /\ R!Joined # {} /\ \A c \in R!Joined : at[c] = "done"
          /\ at' = [c \in Clients |-> IF c \notin R!Joined THEN at[c]
                                      ELSE IF turn = 3 THEN "gate" ELSE "work"]
          /\ turn' = IF turn = 3 THEN 1 ELSE turn + 1
      BY <1>6 DEF R!Turn
    <2>2. R!Joined \subseteq Clients /\ \A c \in Clients \ R!Joined : at[c] \in {"out", "alone"}
      BY DEF R!Joined
    <2>3. \A c \in Clients : at[c] # "alone"
      BY <2>1, <2>2 DEF Apart
    <2>4. PICK c \in Clients : c \in R!Joined
      BY <2>1, <2>2
    <2>5. turn' \in 1 .. 3 /\ (turn' # 1 => turn # 3)
      BY <1>0, <2>1
    <2>6. \A d \in Clients : at'[d] \in IF turn = 3 THEN {"out", "gate"} ELSE {"out", "work"}
      BY <2>1, <2>2, <2>3
    <2>7. turn # 3 => at'[c] = "work"
      BY <2>1, <2>4
    <2>8. at' \in [Clients -> {"out", "alone", "gate", "work", "done"}]
      BY <1>0, <2>1
    <2> QED  BY <2>5, <2>6, <2>7, <2>8 DEF Apart, R!RoundsTypeOK
  <1> QED  BY <1>1, <1>2, <1>3, <1>4, <1>5, <1>6 DEF R!Next

-----------------------------------------------------------------------------
(* The beginning, and the steps of a connection. *)

\* The directories at the start are trees, and all else is empty.
LEMMA TypedAtStart == Init => Typed /\ Apart /\ Serves
  <1> SUFFICES ASSUME Init PROVE Typed /\ Apart /\ Serves
    OBVIOUS
  <1>1. R!RoundsTypeOK /\ Apart /\ Serves
    BY DEF Init, R!RoundsTypeOK, Apart, Serves
  <1>2. dir \in [Replicas -> Trees]
    <2>1. dir \in [Replicas -> [Paths -> File]]
      BY FileSyncAssumption DEF Init, File
    <2>2. \A r \in Replicas : \A p \in Paths : dir[r][p].m # 0 => \A a \in Above[p] : dir[r][a].m # 0
      BY FileSyncAssumption DEF Init
    <2>3. \A r \in Replicas : Closed(Held(dir[r]))
      BY <2>2, PathsKnown DEF Closed, Held
    <2> QED  BY <2>1, <2>3 DEF Trees
  <1>3. Listed(list)
    BY DEF Init, Listed, Closed
  <1>4. {} \in Branches
    BY DEF Branches, Closed
  <1>5. /\ listing \in [Clients -> [Paths -> Marks]] /\ todo \in [Clients -> SUBSET Paths]
        /\ broken \in BOOLEAN /\ now \in Nat /\ edits \in Nat /\ calm \in Nat
        /\ lastSync \in [Replicas -> Branches]
    BY <1>4 DEF Init, Marks
  <1> QED  BY <1>1, <1>2, <1>3, <1>5 DEF Typed

\* A client connects.
LEMMA ConnectTyped ==
  ASSUME Typed, R!RoundsTypeOK', NEW c \in Clients, Connect(c)
  PROVE  Typed'
  <1>0. c \in Replicas /\ Server \in Replicas /\ {} \in Branches
    BY DEF Replicas, Branches, Closed
  <1>1. /\ lastSync' = [lastSync EXCEPT ![Server] = {}] /\ ListFiles(c)
        /\ todo' = [todo EXCEPT ![c] = Names(Server)] /\ calm' = 0
        /\ UNCHANGED <<dir, list, serving, broken, now, edits>>
    BY DEF Connect
  <1>2. listing' \in [Clients -> [Paths -> Marks]]
    BY <1>1, ListFilesTyped
  <1>3. Names(Server) \subseteq Paths
    BY <1>0, FileKnown
  <1> QED  BY <1>0, <1>1, <1>2, <1>3 DEF Typed

\* One entry of the server's directory is exchanged.
LEMMA ExchangeTyped ==
  ASSUME Typed, R!RoundsTypeOK', NEW c \in Clients, NEW p, Exchange(c, p)
  PROVE  Typed'
  <1>0. c \in Replicas /\ Server \in Replicas
    BY DEF Replicas
  <1>1. p \in Paths /\ todo' \in [Clients -> SUBSET Paths] /\ UNCHANGED history
    BY VisitsTyped DEF Exchange
  <1>2. /\ dir' \in [Replicas -> Trees] /\ Listed(list') /\ lastSync' \in [Replicas -> Branches]
        /\ listing' \in [Clients -> [Paths -> Marks]] /\ broken' \in BOOLEAN
    <2>1. CASE UNCHANGED <<dir, list, lastSync, listing, serving, broken>>
      BY <2>1 DEF Typed
    <2>2. CASE ExchangeDirectory(c, p)
      BY <1>1, <2>2, ExchangeDirectoryTyped DEF Typed
    <2>3. CASE p \notin Dirs /\ ClientReceives(c, p)
      BY <1>1, <2>3, ClientReceivesTyped
    <2>4. CASE p \notin Dirs /\ Has(Server, p) /\ ClientSends(c, p)
      <3>1. HasPlace(Server, p)
        BY <1>0, <1>1, <2>4, FileKnown DEF HasPlace, Closed, Names
      <3> QED  BY <1>1, <2>4, <3>1, ClientSendsTyped DEF Typed
    <2> QED  BY <2>1, <2>2, <2>3, <2>4 DEF Exchange
  <1> QED  BY <1>1, <1>2 DEF Typed, history

\* What only the client has is sent.
LEMMA UploadTyped ==
  ASSUME Typed, R!RoundsTypeOK', NEW c \in Clients, NEW p, Upload(c, p)
  PROVE  Typed'
  <1>0. c \in Replicas /\ Server \in Replicas /\ 0 \in Nat
    BY DEF Replicas
  <1>1. p \in Paths /\ UNCHANGED <<todo, history>>
    BY UnmarkedKnown DEF Upload
  <1>2. /\ dir' \in [Replicas -> Trees] /\ Listed(list') /\ lastSync' \in [Replicas -> Branches]
        /\ listing' \in [Clients -> [Paths -> Marks]] /\ broken' \in BOOLEAN
    <2>1. CASE p \in Dirs
      <3>1. /\ CreateDirectory(Server, p) /\ Append(Top(p), Server, 0)
            /\ Remembered(c, p) /\ Mark(c, p) /\ UNCHANGED broken
        BY <2>1 DEF Upload
      <3>2. Top(p) \in Paths
        BY <1>1, TopKnown
      <3>3. Listed(list')
        BY <1>0, <3>1, <3>2, AppendTyped
      <3> QED
        BY <1>0, <1>1, <3>1, <3>3, CreateDirectoryTyped, RememberedTyped, MarkTyped DEF Typed
    <2>2. CASE p \notin Dirs /\ HasPlace(Server, p) /\ ClientSends(c, p)
      BY <1>1, <2>2, ClientSendsTyped DEF Typed
    <2>3. CASE Break
      BY <2>3 DEF Break, Typed
    <2> QED  BY <2>1, <2>2, <2>3 DEF Upload
  <1> QED  BY <1>1, <1>2 DEF Typed, history

\* The end of a connection, the beginning of a round, and the ends of its phases.
LEMMA TurnsTyped ==
  ASSUME Typed, R!RoundsTypeOK', NEW c \in Clients,
         \/ EndConnection(c) \/ StartRound(c) \/ EndCompare(c) \/ EndFetch(c)
         \/ BeginServe(c) \/ EndServe(c)
  PROVE  Typed'
  <1>0. c \in Replicas /\ Server \in Replicas /\ {} \in Branches
    BY DEF Replicas, Branches, Closed
  <1>1. CASE EndConnection(c) \/ EndServe(c)
    <2>1. ListFiles(c) /\ UNCHANGED <<dir, list, lastSync, todo, broken, history>>
      BY <1>1 DEF EndConnection, EndServe
    <2> QED  BY <2>1, ListFilesTyped DEF Typed, history
  <1>2. CASE StartRound(c)
    <2>1. Names(Server) \subseteq Paths
      BY <1>0, FileKnown
    <2> QED  BY <1>2, <2>1 DEF StartRound, Typed, history
  <1>3. CASE EndCompare(c)
    BY <1>0, <1>3 DEF EndCompare, Typed, history
  <1>4. CASE EndFetch(c)
    BY <1>4 DEF EndFetch, Typed, lists, history
  <1>5. CASE BeginServe(c)
    BY <1>5 DEF BeginServe, Typed, Listed, history
  <1> QED  BY <1>1, <1>2, <1>3, <1>4, <1>5

-----------------------------------------------------------------------------
(* The steps of a round. *)

\* The times that are compared and entered in the list are natural numbers.
LEMMA TimesKnown ==
  ASSUME Typed, NEW r \in Replicas, NEW p \in Paths
  PROVE  dir[r][p].m \in Nat /\ (r \in Clients => StatTimes(r, p) \subseteq Nat)
  BY FileKnown DEF StatTimes, Directory, Typed

\* An entry is marked deleted.
LEMMA DeletedListed ==
  ASSUME NEW l, Listed(l), NEW p \in DOMAIN l
  PROVE  Listed([l EXCEPT ![p].deleted = TRUE, ![p].m = Forever])
  <1>1. [l[p] EXCEPT !.deleted = TRUE, !.m = Forever] \in EntryOf(p)
    BY DEF Listed, EntryOf, Forever
  <1>2. Listed([l EXCEPT ![p] = [l[p] EXCEPT !.deleted = TRUE, !.m = Forever]])
    BY <1>1, EntryChanged
  <1>3. [l EXCEPT ![p].deleted = TRUE, ![p].m = Forever]
          = [l EXCEPT ![p] = [l[p] EXCEPT !.deleted = TRUE, !.m = Forever]]
    OBVIOUS
  <1> QED  BY <1>2, <1>3

\* An entry gets another owner and time.
LEMMA OwnerListed ==
  ASSUME NEW l, Listed(l), NEW p \in DOMAIN l, NEW m \in Nat, NEW owner \in Replicas \cup {Sent}
  PROVE  Listed([l EXCEPT ![p].m = m, ![p].owner = owner])
  <1>1. [l[p] EXCEPT !.m = m, !.owner = owner] \in EntryOf(p)
    BY DEF Listed, EntryOf
  <1>2. Listed([l EXCEPT ![p] = [l[p] EXCEPT !.m = m, !.owner = owner]])
    BY <1>1, EntryChanged
  <1>3. [l EXCEPT ![p].m = m, ![p].owner = owner]
          = [l EXCEPT ![p] = [l[p] EXCEPT !.m = m, !.owner = owner]]
    OBVIOUS
  <1> QED  BY <1>2, <1>3

\* One entry of the server's directory is compared.
LEMMA CompareTyped ==
  ASSUME Typed, R!RoundsTypeOK', NEW c \in Clients, NEW p, Compare(c, p)
  PROVE  Typed'
  <1>0. c \in Replicas /\ Server \in Replicas
    BY DEF Replicas
  <1>1. /\ p \in Paths /\ todo' \in [Clients -> SUBSET Paths]
        /\ UNCHANGED <<dir, lastSync, history>>
    BY VisitsTyped DEF Compare
  <1>2. dir[c][p].m \in Nat /\ dir[Server][p].m \in Nat
    BY <1>0, <1>1, TimesKnown
  <1>3. listing' \in [Clients -> [Paths -> Marks]]
    <2>1. UNCHANGED listing \/ Mark(c, p)
      BY DEF Compare
    <2> QED  BY <1>1, <2>1, MarkTyped DEF Typed
  <1>4. broken' \in BOOLEAN
    BY DEF Compare, Typed
  <1>5. Listed(list')
    <2>0. Listed(list)
      BY DEF Typed
    <2>1. CASE UNCHANGED list
      BY <2>0, <2>1
    <2>2. CASE Append(p, Server, dir[Server][p].m)
      BY <1>0, <1>1, <1>2, <2>2, AppendTyped
    <2>3. CASE ClientHasNewer(c, p)
      <3>1. CASE p \notin DOMAIN list
        BY <1>0, <1>1, <1>2, <2>0, <2>3, <3>1, ListAppended DEF ClientHasNewer
      <3>2. CASE p \in DOMAIN list
        BY <1>0, <1>2, <2>0, <2>3, <3>2, OwnerListed DEF ClientHasNewer
      <3> QED  BY <3>1, <3>2
    <2>4. CASE ServerHasNewer(p)
      <3>1. CASE p \notin DOMAIN list
        BY <1>0, <1>1, <1>2, <2>0, <2>4, <3>1, ListAppended DEF ServerHasNewer
      <3>2. CASE p \in DOMAIN list
        BY <1>0, <1>2, <2>0, <2>4, <3>2, OwnerListed DEF ServerHasNewer
      <3> QED  BY <3>1, <3>2
    <2>5. CASE MarkDeleted(p)
      <3> DEFINE l == AppendFile(list, p, Server, Forever, Server)
      <3>1. Forever \in Nat
        BY DEF Forever
      <3>2. Listed(l) /\ p \in DOMAIN l
        BY <1>0, <1>1, <2>0, <3>1, ListAppended
      <3>3. list' = [l EXCEPT ![p].deleted = TRUE, ![p].m = Forever]
        BY <2>5 DEF MarkDeleted
      <3> HIDE DEF l
      <3> QED  BY <3>2, <3>3, DeletedListed
    <2> QED  BY <2>1, <2>2, <2>3, <2>4, <2>5 DEF Compare
  <1> QED  BY <1>1, <1>3, <1>4, <1>5 DEF Typed, history

\* What only a client has is offered.
LEMMA OfferTyped ==
  ASSUME Typed, R!RoundsTypeOK', NEW c \in Clients, NEW p, Offer(c, p)
  PROVE  Typed'
  <1>0. c \in Replicas /\ Server \in Replicas
    BY DEF Replicas
  <1>1. p \in Paths /\ Mark(c, p) /\ UNCHANGED <<dir, lastSync, todo, broken, history>>
    BY UnmarkedKnown DEF Offer
  <1>2. PICK m \in StatTimes(c, p) : list' = OfferedOrDeleted(c, p, m)
    BY DEF Offer
  <1>3. m \in Nat
    BY <1>0, <1>1, <1>2, TimesKnown
  <1> DEFINE l == AppendFile(list, p, c, m, Server)
  <1>4. Listed(l) /\ p \in DOMAIN l
    BY <1>0, <1>1, <1>3, ListAppended DEF Typed
  <1>5. \/ list' = l
        \/ list' = [l EXCEPT ![p].deleted = TRUE, ![p].m = Forever]
    BY <1>2 DEF OfferedOrDeleted
  <1> HIDE DEF l
  <1>6. Listed(list')
    BY <1>4, <1>5, DeletedListed
  <1> QED  BY <1>1, <1>6, MarkTyped DEF Typed, history

\* One entry of a client is fetched.
LEMMA FetchTyped ==
  ASSUME Typed, R!RoundsTypeOK', NEW c \in Clients, NEW p, Fetch(c, p)
  PROVE  Typed'
  <1>0. c \in Replicas /\ Server \in Replicas
    BY DEF Replicas
  <1>1. p \in DOMAIN list /\ p \in Paths /\ Listed(list) /\ list[p] \in EntryOf(p)
        /\ UNCHANGED <<listing, todo, history>>
    BY DEF Fetch, First, Owned, Typed, Listed
  <1>2. Listed(list')
    <2>1. /\ [list[p] EXCEPT !.owner = Server] \in EntryOf(p)
          /\ [list[p] EXCEPT !.owner = Sent] \in EntryOf(p)
          /\ [list[p] EXCEPT !.owner = Sent, !.deleted = TRUE] \in EntryOf(p)
      BY <1>0, <1>1 DEF EntryOf
    <2>2. [list[p] EXCEPT !.owner = Sent, !.path = Top(p)] \in EntryOf(p)
      BY <1>1, TopKnown DEF EntryOf
    <2>3. \/ UNCHANGED list
          \/ list' = [list EXCEPT ![p] = [list[p] EXCEPT !.owner = Server]]
          \/ list' = [list EXCEPT ![p] = [list[p] EXCEPT !.owner = Sent, !.path = Top(p)]]
          \/ list' = [list EXCEPT ![p] = [list[p] EXCEPT !.owner = Sent]]
          \/ list' = [list EXCEPT ![p] = [list[p] EXCEPT !.owner = Sent, !.deleted = TRUE]]
      BY DEF Fetch, PassOver
    <2> QED  BY <1>1, <2>1, <2>2, <2>3, EntryChanged
  <1>3. dir' \in [Replicas -> Trees]
    <2>1. CASE UNCHANGED dir
      BY <2>1 DEF Typed
    <2>2. CASE CreateDirectory(Server, p)
      BY <1>0, <1>1, <2>2, CreateDirectoryTyped
    <2>3. CASE HasPlace(Server, p) /\ Has(c, p) /\ Write(Server, p, dir[c][p])
      <3>1. Fits(dir[Server], p, dir[c][p])
        BY <1>0, <1>1, <2>3, FileKnown DEF Fits, HasPlace, Has
      <3> QED  BY <1>0, <1>1, <2>3, <3>1, WriteTyped
    <2>4. CASE p \notin Dirs /\ HasPlace(Server, p) /\ Write(Server, p, [m |-> now, v |-> 0])
      <3>1. [m |-> now, v |-> 0] \in File
        BY DEF Typed, File
      <3>2. Fits(dir[Server], p, [m |-> now, v |-> 0])
        BY <1>0, <2>4, <3>1, FileKnown DEF Fits, HasPlace
      <3> QED  BY <1>0, <1>1, <2>4, <3>2, WriteTyped
    <2> QED  BY <2>1, <2>2, <2>3, <2>4 DEF Fetch
  <1>4. lastSync' \in [Replicas -> Branches]
    <2>1. UNCHANGED lastSync \/ Remembered(c, p)
      BY DEF Fetch
    <2> QED  BY <1>0, <1>1, <2>1, RememberedTyped DEF Typed
  <1>5. broken' \in BOOLEAN
    BY DEF Fetch, Typed
  <1> QED  BY <1>1, <1>2, <1>3, <1>4, <1>5 DEF Typed, history

\* One entry is sent to a client: it is in the list still.
LEMMA ServeTyped ==
  ASSUME Typed, Serves, R!RoundsTypeOK', NEW c \in Clients, NEW p, Serve(c, p)
  PROVE  Typed'
  <1>0. c \in Replicas /\ Server \in Replicas
    BY DEF Replicas
  <1>1. /\ p \in todo[c] /\ p \in Paths /\ todo' \in [Clients -> SUBSET Paths]
        /\ serving = c /\ UNCHANGED <<list, listing, history>>
    BY VisitsTyped DEF Serve
  <1>2. serving # NoClient
    BY <1>0, <1>1, FileSyncAssumption
  <1>3. list[p] \in EntryOf(p)
    BY <1>1, <1>2 DEF Serves, Typed, Listed
  <1>4. list[p].path \in Paths /\ list[p].m \in Nat
    BY <1>1, <1>3, TopKnown DEF EntryOf
  <1>5. CASE p \in Dirs /\ ServeDirectory(c, list[p])
    <2>1. dir' \in [Replicas -> Trees] /\ lastSync' \in [Replicas -> Branches]
      <3>1. CASE list[p].deleted
        BY <1>0, <1>4, <1>5, <3>1, RemovedTyped DEF ServeDirectory, RemoveDirectory, Typed
      <3>2. CASE ~list[p].deleted
        BY <1>0, <1>4, <1>5, <3>2, CreateDirectoryTyped, RememberedTyped DEF ServeDirectory
      <3> QED  BY <3>1, <3>2
    <2>2. UNCHANGED broken
      BY <1>5 DEF ServeDirectory
    <2> QED  BY <1>1, <2>1, <2>2 DEF Typed, history
  <1>6. CASE p \notin Dirs /\ ServeFile(c, p, list[p])
    <2>1. broken' \in BOOLEAN
      BY <1>6 DEF ServeFile, Typed
    <2>2. lastSync' \in [Replicas -> Branches]
      <3>1. UNCHANGED lastSync \/ Remembered(c, p)
        BY <1>6 DEF ServeFile
      <3> QED  BY <1>0, <1>1, <3>1, RememberedTyped DEF Typed
    <2>3. dir' \in [Replicas -> Trees]
      <3>1. CASE UNCHANGED dir
        BY <3>1 DEF Typed
      <3>2. CASE Write(c, p, Absent)
        <4>1. Fits(dir[c], p, Absent)
          BY <1>6 DEF Fits, Absent, File
        <4> QED  BY <1>0, <1>1, <3>2, <4>1, WriteTyped
      <3>3. CASE HasPlace(c, p) /\ Has(Server, p)
                 /\ Write(c, p, [m |-> list[p].m, v |-> dir[Server][p].v])
        <4>1. [m |-> list[p].m, v |-> dir[Server][p].v] \in File
          BY <1>0, <1>1, <1>4, FileKnown DEF File
        <4>2. Fits(dir[c], p, [m |-> list[p].m, v |-> dir[Server][p].v])
          BY <1>0, <1>6, <3>3, <4>1, FileKnown DEF Fits, HasPlace
        <4> QED  BY <1>0, <1>1, <3>3, <4>2, WriteTyped
      <3> QED  BY <1>6, <3>1, <3>2, <3>3 DEF ServeFile
    <2> QED  BY <1>1, <2>1, <2>2, <2>3 DEF Typed, history
  <1> QED  BY <1>5, <1>6 DEF Serve

\* The last thread ends a phase; after the third it cleans the lists up.
LEMMA EndPhaseTyped ==
  ASSUME Typed, R!RoundsTypeOK', EndPhase
  PROVE  Typed'
  <1>0. Server \in Replicas
    BY DEF Replicas
  <1>1. CASE turn # 3
    BY <1>1 DEF EndPhase, Typed
  <1>2. CASE turn = 3
    <2> DEFINE rest == [p \in DOMAIN list \ Gone |-> list[p]]
    <2>1. /\ broken' = (Gone \cap Cut # {})
          /\ dir' = [dir EXCEPT ![Server] = Without(@, Gone)]
          /\ list' = rest
          /\ lastSync' = [lastSync EXCEPT ![Server] =
               UNION {Above[rest[p].path] \cup {rest[p].path} : p \in DOMAIN rest}]
          /\ calm' = (IF Settled THEN calm ELSE calm + 1)
          /\ UNCHANGED <<listing, todo, now, edits>>
      BY <1>2 DEF EndPhase, CleanLists
    <2>2. \A p \in DOMAIN list : /\ p \in Paths /\ list[p] \in EntryOf(p)
                                 /\ list[p].path \in Paths
      BY TopKnown DEF Typed, Listed, EntryOf
    <2>3. \A q \in Paths : Above[q] \cap Gone # {} => q \in Gone
      <3> SUFFICES ASSUME NEW q \in Paths, NEW a \in Above[q], a \in Gone PROVE q \in Gone
        OBVIOUS
      <3>1. PICK p \in Doomed : a \in Below(list[p].path)
        BY DEF Gone
      <3>2. p \in DOMAIN list
        BY <3>1 DEF Doomed, First
      <3>3. q \in Below(list[p].path)
        BY <2>2, <3>1, <3>2, BelowKnown
      <3> QED  BY <3>1, <3>3 DEF Gone
    <2>4. dir' \in [Replicas -> Trees]
      <3>1. Without(dir[Server], Gone) \in Trees
        BY <1>0, <2>3, FileKnown, TreeWithout
      <3> QED  BY <1>0, <2>1, <3>1 DEF Typed
    <2>5. DOMAIN rest = DOMAIN list \ Gone /\ \A p \in DOMAIN rest : rest[p] = list[p]
      OBVIOUS
    <2>6. Listed(rest)
      <3> HIDE DEF rest
      <3>1. DOMAIN rest \subseteq Paths /\ \A p \in DOMAIN rest : rest[p] \in EntryOf(p)
        BY <2>2, <2>5
      <3>2. \A q \in DOMAIN rest : Above[q] \subseteq DOMAIN list /\ Above[q] \cap Gone = {}
        BY <2>2, <2>3, <2>5 DEF Typed, Listed, Closed
      <3>3. Closed(DOMAIN rest)
        BY <2>5, <3>2 DEF Closed
      <3> QED  BY <3>1, <3>3 DEF Listed
    <2>7. UNION {Above[rest[p].path] \cup {rest[p].path} : p \in DOMAIN rest} \in Branches
      <3> HIDE DEF rest
      <3>1. \A p \in DOMAIN rest : rest[p].path \in Paths
        BY <2>2, <2>5
      <3> DEFINE U == UNION {Above[rest[p].path] \cup {rest[p].path} : p \in DOMAIN rest}
      <3>2. U \subseteq Paths
        BY <3>1, PathsKnown
      <3>3. Closed(U)
        BY <3>1, PathsKnown DEF Closed
      <3> QED  BY <3>2, <3>3 DEF Branches
    <2>8. lastSync' \in [Replicas -> Branches]
      BY <1>0, <2>1, <2>7 DEF Typed
    <2>9. broken' \in BOOLEAN /\ calm' \in Nat
      BY <2>1 DEF Typed
    <2> HIDE DEF rest
    <2> QED  BY <2>1, <2>4, <2>6, <2>8, <2>9 DEF Typed
  <1> QED  BY <1>1, <1>2

-----------------------------------------------------------------------------
(* The users. *)

\* Whatever the users do, directories stay trees.
LEMMA UserTyped ==
  ASSUME Typed, R!RoundsTypeOK', NEW r \in Replicas, NEW p \in Paths,
         Create(r, p) \/ Modify(r, p) \/ Delete(r, p)
  PROVE  Typed'
  <1>0. edits' \in Nat /\ calm' \in Nat /\ UNCHANGED <<list, lastSync, listing, broken>>
    BY DEF Create, Modify, Delete, Acts, Typed
  <1>1. CASE Create(r, p)
    <2>1. HasPlace(r, p) /\ Write(r, p, IF p \in Dirs THEN Directory ELSE [m |-> now, v |-> edits + 3])
          /\ MayBeFound(r, p) /\ UNCHANGED now
      BY <1>1 DEF Create
    <2> DEFINE f == IF p \in Dirs THEN Directory ELSE [m |-> now, v |-> edits + 3]
    <2>2. f \in File /\ (p \in Dirs => f.m # 0)
      BY DEF Typed, File, Directory
    <2>3. Fits(dir[r], p, f)
      <3> HIDE DEF f
      <3> QED  BY <2>1, <2>2, FileKnown DEF Fits, HasPlace
    <2>4. dir' \in [Replicas -> Trees]
      <3>1. Write(r, p, f)
        BY <2>1
      <3> HIDE DEF f
      <3> QED  BY <2>3, <3>1, WriteTyped
    <2>5. todo' \in [Clients -> SUBSET Paths]
      BY <2>1 DEF MayBeFound, Typed
    <2> QED  BY <1>0, <2>1, <2>4, <2>5 DEF Typed
  <1>2. CASE Modify(r, p)
    <2>1. /\ Has(r, p) /\ p \notin Dirs /\ Write(r, p, [m |-> now', v |-> edits + 3])
          /\ now' \in {now, now + 1} /\ UNCHANGED todo
      BY <1>2 DEF Modify
    <2>2. now' \in Nat /\ [m |-> now', v |-> edits + 3] \in File
      BY <2>1 DEF Typed, File
    <2>3. Above[p] \subseteq Names(r)
      BY <2>1, FileKnown DEF Names, Closed
    <2>4. Fits(dir[r], p, [m |-> now', v |-> edits + 3])
      BY <2>1, <2>2, <2>3, FileKnown DEF Fits
    <2>5. dir' \in [Replicas -> Trees]
      BY <2>1, <2>4, WriteTyped
    <2> QED  BY <1>0, <2>1, <2>2, <2>5 DEF Typed
  <1>3. CASE Delete(r, p)
    <2>1. dir' = [dir EXCEPT ![r] = Without(@, Below(p))] /\ UNCHANGED <<now, todo>>
      BY <1>3 DEF Delete
    <2> QED  BY <1>0, <2>1, RemovedTyped DEF Typed
  <1> QED  BY <1>1, <1>2, <1>3

-----------------------------------------------------------------------------
(* Type correctness. *)

\* While a thread sends the result, the others wait for their turn or for the
\* end of the round: only that thread, and users, do anything, and no entry
\* leaves the list.
LEMMA ServesKept ==
  ASSUME Typed, Apart, Serves, [Next]_vars
  PROVE  Serves'
  <1>0. NoClient \notin Replicas /\ Clients \subseteq Replicas
    BY FileSyncAssumption DEF Replicas
  <1>1. CASE UNCHANGED vars
    BY <1>1 DEF vars, lists, Serves, Works
  <1>2. ASSUME NEW c \in Clients, BeginServe(c) PROVE Serves'
    <2>1. c # NoClient /\ Works(c, 3) /\ serving' = c /\ todo' = [todo EXCEPT ![c] = DOMAIN list]
          /\ UNCHANGED <<at, turn, list>>
      BY <1>0, <1>2 DEF BeginServe
    <2>2. todo'[c] = DOMAIN list'
      BY <2>1 DEF Typed
    <2> QED  BY <2>1, <2>2 DEF Serves, Works
  <1>3. ASSUME NEW c \in Clients, EndServe(c) PROVE Serves'
    BY <1>3 DEF EndServe, Serves
  <1>4. CASE serving = NoClient /\ UNCHANGED serving
    BY <1>4 DEF Serves
  <1> SUFFICES ASSUME serving # NoClient, Next PROVE Serves'
    <2>1. CASE serving = NoClient
      <3>1. serving' = NoClient \/ \E c \in Clients : BeginServe(c)
        <4>1. CASE EndPhase
          BY <2>1, <4>1 DEF EndPhase
        <4>2. ASSUME NEW c \in Clients, Thread(c), ~BeginServe(c) PROVE serving' = NoClient
          <5>1. CASE EndConnection(c) \/ StartRound(c) \/ EndCompare(c) \/ EndFetch(c) \/ EndServe(c)
            BY <2>1, <5>1 DEF EndConnection, StartRound, EndCompare, EndFetch, EndServe, lists
          <5>2. ASSUME NEW p, Exchange(c, p) \/ Upload(c, p) PROVE serving' = NoClient
            BY <2>1, <5>2 DEF Exchange, Upload, ExchangeDirectory, ClientSends, ClientReceives, Break
          <5>3. ASSUME NEW p, Compare(c, p) \/ Offer(c, p) \/ Serve(c, p) \/ Fetch(c, p)
                PROVE  serving' = NoClient
            BY <2>1, <5>3 DEF Compare, Offer, Serve, Fetch
          <5> QED  BY <4>2, <5>1, <5>2, <5>3 DEF Thread
        <4>3. CASE User
          BY <2>1, <4>3 DEF User, Create, Modify, Delete, Acts
        <4>4. ASSUME NEW c \in Clients, Connect(c) PROVE serving' = NoClient
          BY <2>1, <4>4 DEF Connect
        <4>5. CASE UNCHANGED vars
          BY <2>1, <4>5 DEF vars, lists
        <4> QED  BY <4>1, <4>2, <4>3, <4>4, <4>5 DEF Next, System
      <3> QED  BY <1>2, <3>1 DEF Serves
    <2> QED  BY <1>1, <2>1
  <1> DEFINE s == serving
  <1>5. s \in Clients /\ at[s] = "work" /\ turn = 3 /\ todo[s] \subseteq DOMAIN list
    BY DEF Serves, Works
  <1>6. \A c \in Clients : at[c] # "alone"
    BY <1>5 DEF Apart
  <1>7. ASSUME at'[s] = "work", UNCHANGED <<turn, list, serving>>, todo'[s] \subseteq todo[s]
        PROVE  Serves'
    BY <1>5, <1>7 DEF Serves, Works
  <1>8. CASE EndPhase
    BY <1>5, <1>8 DEF EndPhase, R!Turn, R!Joined
  <1>9. ASSUME NEW c \in Clients, Thread(c) PROVE Serves'
    <2>1. ~EndConnection(c) /\ ~StartRound(c) /\ ~EndCompare(c) /\ ~EndFetch(c) /\ ~BeginServe(c)
      BY <1>5, <1>6 DEF EndConnection, StartRound, EndCompare, EndFetch, BeginServe,
                        R!EndAlone, R!Enter, R!Move
    <2>2. ASSUME NEW p, Exchange(c, p) \/ Upload(c, p) \/ Compare(c, p) \/ Offer(c, p) \/ Fetch(c, p)
          PROVE  FALSE
      BY <1>5, <1>6, <2>2 DEF Exchange, Upload, Compare, Offer, Fetch, Works
    <2>3. ASSUME NEW p, Serve(c, p) PROVE Serves'
      <3>1. c = s /\ UNCHANGED <<at, turn, list, serving>> /\ todo' = [todo EXCEPT ![c] = @ \ {p}]
        BY <2>3 DEF Serve, Visits
      <3>2. todo'[s] \subseteq todo[s]
        BY <1>5, <3>1 DEF Typed
      <3> QED  BY <1>5, <1>7, <3>1, <3>2
    <2> QED  BY <1>3, <1>9, <2>1, <2>2, <2>3 DEF Thread
  <1>10. ASSUME NEW r \in Replicas, NEW p \in Paths, Create(r, p) \/ Modify(r, p) \/ Delete(r, p)
         PROVE  Serves'
    <2>1. UNCHANGED <<at, turn, list, serving>>
      BY <1>10 DEF Create, Modify, Delete, Acts
    <2>2. todo'[s] = todo[s]
      <3>1. CASE Create(r, p)
        <4>1. PICK S \in SUBSET {c \in Clients : todo[c] # {} /\ (at[c] = "alone" \/ Works(c, 1))} :
                todo' = [c \in Clients |-> IF c \in S THEN todo[c] \cup {p} ELSE todo[c]]
          BY <3>1 DEF Create, MayBeFound
        <4>2. s \notin S
          BY <1>5, <4>1 DEF Works
        <4> QED  BY <1>5, <4>1, <4>2
      <3>2. CASE Modify(r, p) \/ Delete(r, p)
        BY <3>2 DEF Modify, Delete
      <3> QED  BY <1>10, <3>1, <3>2
    <2> QED  BY <1>5, <1>7, <2>1, <2>2
  <1>11. ASSUME NEW c \in Clients, Connect(c) PROVE FALSE
    BY <1>5, <1>11 DEF Connect, R!BeginAlone, R!Move
  <1> QED  BY <1>8, <1>9, <1>10, <1>11 DEF Next, System, User

\* The three are kept together.
LEMMA InvariantKept == Typed /\ Apart /\ Serves /\ [Next]_vars => (Typed /\ Apart /\ Serves)'
  <1> SUFFICES ASSUME Typed, Apart, Serves, [Next]_vars PROVE (Typed /\ Apart /\ Serves)'
    OBVIOUS
  <1>1. R!RoundsTypeOK' /\ Apart'
    BY StepOfRounds, ApartKept DEF Typed
  <1>2. Serves'
    BY ServesKept
  <1>3. Typed'
    <2>1. CASE UNCHANGED vars
      BY <1>1, <2>1 DEF vars, lists, history, Typed
    <2>2. CASE EndPhase
      BY <1>1, <2>2, EndPhaseTyped
    <2>3. ASSUME NEW c \in Clients, Thread(c) PROVE Typed'
      <3>1. CASE EndConnection(c) \/ StartRound(c) \/ EndCompare(c) \/ EndFetch(c)
                 \/ BeginServe(c) \/ EndServe(c)
        BY <1>1, <3>1, TurnsTyped
      <3>2. ASSUME NEW p, \/ Exchange(c, p) \/ Upload(c, p) \/ Compare(c, p) \/ Offer(c, p)
                          \/ Serve(c, p) \/ Fetch(c, p)
            PROVE  Typed'
        BY <1>1, <3>2, ExchangeTyped, UploadTyped, CompareTyped, OfferTyped, ServeTyped, FetchTyped
      <3> QED  BY <2>3, <3>1, <3>2 DEF Thread
    <2>4. CASE User
      BY <1>1, <2>4, UserTyped DEF User
    <2>5. ASSUME NEW c \in Clients, Connect(c) PROVE Typed'
      BY <1>1, <2>5, ConnectTyped
    <2> QED  BY <2>1, <2>2, <2>3, <2>4, <2>5 DEF Next, System
  <1> QED  BY <1>1, <1>2, <1>3

\* The values of the variables, for any number of clients and any finite tree of
\* names: every directory and every list is a tree throughout, so that a
\* directory is made before what is in it and goes with all that is in it, and
\* one thread at a time goes through listUpdated in phase 3.
THEOREM TypeCorrect == Spec => []TypeOK
  <1>1. Typed /\ Apart /\ Serves => TypeOK
    <2> SUFFICES ASSUME Typed, Apart, Serves PROVE TypeOK
      OBVIOUS
    <2>1. dir \in [Replicas -> [Paths -> File]] /\ \A r \in Replicas : Closed(Names(r))
      BY FileKnown DEF Typed, Trees
    <2>2. lastSync \in [Replicas -> SUBSET Paths] /\ \A r \in Replicas : Closed(lastSync[r])
      BY DEF Typed, Branches
    <2> QED  BY <2>1, <2>2 DEF Typed, Serves, TypeOK, Listed, EntryOf, Marks
  <1> QED  BY <1>1, TypedAtStart, InvariantKept, PTL DEF Spec

-----------------------------------------------------------------------------
(* What is absent has no contents, and a directory is a directory; names are *)
(* cut at their first slash if at all.                                       *)

\* What a version looks like.
Like(p, f) == /\ f.m = 0 => f = Absent
              /\ p \in Dirs /\ f.m # 0 => f = Directory

\* What an entry looks like.
EntryLike(p, e) == e.path \in {p, Top(p)} /\ (p \notin Dirs => e.m # 0)

DirsShaped == \A r \in Replicas, p \in Paths : Like(p, dir[r][p])
ListShaped == \A p \in DOMAIN list : EntryLike(p, list[p])
Shaped     == now > 0 /\ DirsShaped /\ ListShaped

\* A version that looks well is written.
LEMMA WriteShaped ==
  ASSUME Typed, DirsShaped, NEW r \in Replicas, NEW p \in Paths, NEW f, Like(p, f), Write(r, p, f)
  PROVE  DirsShaped'
  BY FileKnown DEF DirsShaped, Like, Write, Typed

\* CreateDirectory makes directories only.
LEMMA CreateDirectoryShaped ==
  ASSUME Typed, DirsShaped, NEW r \in Replicas, NEW p \in Dirs, CreateDirectory(r, p)
  PROVE  DirsShaped'
  <1>1. p \in Paths /\ Above[p] \cup {p} \subseteq Dirs
    BY PathsKnown
  <1>2. Directory.m # 0
    BY DEF Directory
  <1> QED  BY <1>1, <1>2, FileKnown DEF DirsShaped, Like, CreateDirectory, Has, Typed

\* What is removed leaves nothing.
LEMMA WithoutShaped ==
  ASSUME Typed, DirsShaped, NEW r \in Replicas, NEW S, dir' = [dir EXCEPT ![r] = Without(@, S)]
  PROVE  DirsShaped'
  <1>1. Absent.m = 0
    BY DEF Absent
  <1>2. \A q \in Paths : Without(dir[r], S)[q] \in {Absent, dir[r][q]}
    BY DEF Without
  <1>3. \A s \in Replicas, q \in Paths : dir'[s][q] \in {Absent, dir[s][q]}
    BY <1>2 DEF Typed
  <1> QED  BY <1>1, <1>3 DEF DirsShaped, Like

\* AppendFile, of a file with a time or of a directory.
LEMMA AppendShaped ==
  ASSUME NEW l, Listed(l), \A q \in DOMAIN l : EntryLike(q, l[q]),
         NEW p \in Paths, NEW owner, NEW m, p \notin Dirs => m # 0, NEW garbage
  PROVE  LET k == AppendFile(l, p, owner, m, garbage) IN
           \A q \in DOMAIN k : EntryLike(q, k[q])
  <1> DEFINE k == AppendFile(l, p, owner, m, garbage)
  <1>1. CASE p \in DOMAIN l
    BY <1>1 DEF AppendFile
  <1>2. CASE p \notin DOMAIN l
    <2>1. k = [q \in DOMAIN l \cup Above[p] \cup {p} |->
                 CASE q \in DOMAIN l -> l[q]
                   [] q = p -> Entry(p, owner, m, FALSE)
                   [] OTHER -> Entry(q, garbage, 0, FALSE)]
      BY <1>2 DEF AppendFile
    <2> SUFFICES ASSUME NEW q \in DOMAIN k PROVE EntryLike(q, k[q])
      OBVIOUS
    <2> HIDE DEF k
    <2>2. q \in DOMAIN l \cup Above[p] \cup {p} /\ Above[p] \subseteq Dirs
      BY <2>1, PathsKnown
    <2>3. CASE q \in DOMAIN l
      <3>1. k[q] = l[q]
        BY <1>2, <2>1, <2>2, <2>3
      <3> QED  BY <2>3, <3>1
    <2>4. CASE q \notin DOMAIN l /\ q = p
      BY <2>1, <2>4 DEF EntryLike, Entry
    <2>5. CASE q \notin DOMAIN l /\ q # p
      BY <2>1, <2>2, <2>5 DEF EntryLike, Entry
    <2> QED  BY <2>3, <2>4, <2>5
  <1> QED  BY <1>1, <1>2

\* It is so at the start.
LEMMA ShapedAtStart == Init => Shaped
  <1> SUFFICES ASSUME Init PROVE Shaped
    OBVIOUS
  <1>1. \A r \in Replicas, p \in Paths :
          /\ dir[r][p].m = 0 => dir[r][p] = Absent
          /\ p \in Dirs => dir[r][p] \in {Absent, Directory}
    BY FileSyncAssumption DEF Init
  <1>2. Absent.m = 0
    BY DEF Absent
  <1> QED  BY <1>1, <1>2 DEF Init, Shaped, DirsShaped, ListShaped, Like

\* An entry is entered by Append.
LEMMA AppendKeepsShape ==
  ASSUME Typed, ListShaped, NEW p \in Paths, NEW owner, NEW m, p \notin Dirs => m # 0,
         Append(p, owner, m)
  PROVE  ListShaped'
  <1>1. PICK garbage : list' = AppendFile(list, p, owner, m, garbage)
    BY DEF Append
  <1> QED  BY <1>1, AppendShaped DEF Typed, ListShaped

\* The client gives or gets a version.
LEMMA VersionShaped ==
  ASSUME Typed, Shaped, NEW c \in Clients, NEW p \in Paths \ Dirs,
         ClientSends(c, p) \/ (Has(Server, p) /\ ClientReceives(c, p))
  PROVE  DirsShaped' /\ ListShaped'
  <1>0. c \in Replicas /\ Server \in Replicas
    BY DEF Replicas
  <1> USE DEF Shaped
  <1>1. Like(p, dir[c][p]) /\ Like(p, dir[Server][p]) /\ Like(p, Absent)
    BY <1>0 DEF DirsShaped, Like, Absent
  <1>2. CASE ClientSends(c, p)
    <2>1. CASE Has(c, p)
      <3>1. Write(Server, p, dir[c][p]) /\ Append(p, c, dir[c][p].m) /\ dir[c][p].m # 0
        BY <1>2, <2>1 DEF ClientSends, Has
      <3> QED  BY <1>0, <1>1, <3>1, WriteShaped, AppendKeepsShape
    <2>2. CASE ~Has(c, p)
      <3>1. Write(Server, p, Absent) /\ UNCHANGED list
        BY <1>2, <2>2 DEF ClientSends
      <3> QED  BY <1>0, <1>1, <3>1, WriteShaped DEF ListShaped
    <2> QED  BY <2>1, <2>2
  <1>3. CASE Has(Server, p) /\ ClientReceives(c, p)
    <2>1. CASE HasPlace(c, p)
      <3>1. /\ Write(c, p, dir[Server][p]) /\ Append(p, Server, dir[Server][p].m)
            /\ dir[Server][p].m # 0
        BY <1>3, <2>1 DEF ClientReceives, Has
      <3> QED  BY <1>0, <1>1, <3>1, WriteShaped, AppendKeepsShape
    <2>2. CASE ~HasPlace(c, p)
      BY <1>3, <2>2 DEF ClientReceives, Break, DirsShaped, ListShaped
    <2> QED  BY <2>1, <2>2
  <1> QED  BY <1>2, <1>3

\* Phase 1 changes entries, or enters one.
LEMMA ComparedShaped ==
  ASSUME Typed, Shaped, NEW c \in Clients, NEW p,
         Compare(c, p) \/ Offer(c, p)
  PROVE  ListShaped'
  <1>0. c \in Replicas /\ Server \in Replicas /\ Forever # 0
    BY DEF Replicas, Forever
  <1>1. p \in Paths
    BY VisitsTyped, UnmarkedKnown DEF Compare, Offer
  <1>2. Listed(list) /\ \A q \in DOMAIN list : EntryLike(q, list[q])
    BY DEF Typed, Shaped, ListShaped
  <1>3. dir[c][p].m \in Nat /\ dir[Server][p].m \in Nat
    BY <1>0, <1>1, TimesKnown
  <1>4. ASSUME NEW owner, NEW m, p \notin Dirs => m # 0,
               list' = AppendFile(list, p, owner, m, Server)
        PROVE  ListShaped'
    BY <1>1, <1>2, <1>4, AppendShaped DEF ListShaped
  <1>5. ASSUME NEW owner \in Replicas, NEW m \in Nat, p \notin Dirs => m # 0,
               LET l == AppendFile(list, p, owner, m, Server) IN
                 list' = [l EXCEPT ![p].deleted = TRUE, ![p].m = Forever]
        PROVE  ListShaped'
    <2> DEFINE l == AppendFile(list, p, owner, m, Server)
    <2>1. \A q \in DOMAIN l : EntryLike(q, l[q])
      BY <1>1, <1>2, <1>5, AppendShaped
    <2>2. Listed(l) /\ p \in DOMAIN l
      BY <1>0, <1>1, <1>2, <1>5, ListAppended
    <2>3. list' = [l EXCEPT ![p].deleted = TRUE, ![p].m = Forever]
      BY <1>5
    <2> HIDE DEF l
    <2>4. DOMAIN list' = DOMAIN l
      BY <2>3
    <2>5. \A q \in DOMAIN l : q # p => list'[q] = l[q]
      BY <2>3
    <2>6. list'[p].path = l[p].path /\ list'[p].m = Forever
      BY <2>2, <2>3 DEF Listed, EntryOf
    <2> QED  BY <1>0, <2>1, <2>4, <2>5, <2>6 DEF ListShaped, EntryLike
  <1>6. ASSUME p \in DOMAIN list, NEW m, m # 0, NEW owner,
               list' = [list EXCEPT ![p].m = m, ![p].owner = owner]
        PROVE  ListShaped'
    <2>1. DOMAIN list' = DOMAIN list /\ \A q \in DOMAIN list : q # p => list'[q] = list[q]
      BY <1>6
    <2>2. list'[p].path = list[p].path /\ list'[p].m = m
      BY <1>2, <1>6 DEF Listed, EntryOf
    <2> QED  BY <1>2, <1>6, <2>1, <2>2 DEF ListShaped, EntryLike
  <1>7. CASE UNCHANGED list
    BY <1>2, <1>7 DEF ListShaped
  <1>8. CASE Compare(c, p)
    <2>1. CASE Append(p, Server, dir[Server][p].m) /\ p \in Dirs
      BY <1>1, <2>1, AppendKeepsShape DEF Shaped
    <2>2. CASE ClientHasNewer(c, p) /\ IsNewer(c, p)
      <3>1. dir[c][p].m # 0
        BY <1>3, <2>2 DEF IsNewer
      <3> QED  BY <1>4, <1>6, <1>7, <2>2, <3>1 DEF ClientHasNewer
    <2>3. CASE ServerHasNewer(p) /\ Has(Server, p)
      BY <1>4, <1>6, <1>7, <2>3 DEF ServerHasNewer, Has
    <2>4. CASE MarkDeleted(p)
      <3>1. Forever \in Nat
        BY DEF Forever
      <3> QED  BY <1>0, <1>5, <2>4, <3>1 DEF MarkDeleted
    <2> QED  BY <1>7, <1>8, <2>1, <2>2, <2>3, <2>4 DEF Compare
  <1>9. CASE Offer(c, p)
    <2>1. PICK m \in StatTimes(c, p) : list' = OfferedOrDeleted(c, p, m)
      BY <1>9 DEF Offer
    <2>2. m \in Nat /\ m # 0
      <3>1. Directory.m # 0
        BY DEF Directory
      <3> QED  BY <1>0, <1>1, <2>1, <3>1, TimesKnown DEF StatTimes, Has, Shaped, Typed
    <2> QED  BY <1>0, <1>4, <1>5, <2>1, <2>2 DEF OfferedOrDeleted
  <1> QED  BY <1>8, <1>9

\* Every step keeps the shapes.
LEMMA ShapedKept ==
  ASSUME Typed, Serves, Shaped, [Next]_vars
  PROVE  Shaped'
  <1>0. Server \in Replicas /\ (\A c \in Clients : c \in Replicas) /\ DirsShaped /\ ListShaped
    BY DEF Replicas, Shaped
  <1>1. now' > 0
    <2>1. now' \in {now, now + 1}
      <3>1. CASE EndPhase \/ (\E c \in Clients : Connect(c)) \/ UNCHANGED vars
        BY <3>1 DEF EndPhase, Connect, vars, history
      <3>2. ASSUME NEW c \in Clients, Thread(c) PROVE now' = now
        BY <3>2 DEF Thread, EndConnection, StartRound, EndCompare, EndFetch, BeginServe, EndServe,
                    Exchange, Upload, Compare, Offer, Serve, Fetch, history
      <3>3. CASE User
        BY <3>3 DEF User, Create, Modify, Delete
      <3> QED  BY <3>1, <3>2, <3>3 DEF Next, System
    <2> QED  BY <2>1 DEF Shaped, Typed
  <1> SUFFICES (DirsShaped /\ ListShaped)'
    BY <1>1 DEF Shaped
  <1>2. CASE UNCHANGED <<dir, list>>
    BY <1>0, <1>2 DEF DirsShaped, ListShaped
  <1>3. ASSUME NEW c \in Clients, NEW p, Exchange(c, p) PROVE (DirsShaped /\ ListShaped)'
    <2>1. p \in Paths
      BY <1>3, VisitsTyped DEF Exchange
    <2>2. CASE p \in Dirs /\ ExchangeDirectory(c, p)
      <3>1. Append(p, Server, 0) /\ (CreateDirectory(c, p) \/ UNCHANGED dir)
        BY <2>2 DEF ExchangeDirectory
      <3>2. DirsShaped'
        <4>1. CASE UNCHANGED dir
          BY <1>0, <4>1 DEF DirsShaped
        <4> QED  BY <1>0, <2>2, <3>1, <4>1, CreateDirectoryShaped
      <3> QED  BY <1>0, <2>1, <2>2, <3>1, <3>2, AppendKeepsShape
    <2> QED  BY <1>0, <1>2, <1>3, <2>1, <2>2, VersionShaped DEF Exchange
  <1>4. ASSUME NEW c \in Clients, NEW p, Upload(c, p) PROVE (DirsShaped /\ ListShaped)'
    <2>1. p \in Paths
      BY <1>4, UnmarkedKnown DEF Upload
    <2>2. CASE p \in Dirs
      <3>1. CreateDirectory(Server, p) /\ Append(Top(p), Server, 0)
        BY <1>4, <2>2 DEF Upload
      <3>2. Top(p) \in Dirs /\ Top(p) \in Paths
        BY <2>1, <2>2, TopExists, PathsKnown DEF Top
      <3> QED  BY <1>0, <2>1, <2>2, <3>1, <3>2, CreateDirectoryShaped, AppendKeepsShape
    <2>3. CASE Break
      BY <1>2, <2>3 DEF Break
    <2> QED  BY <1>4, <2>1, <2>2, <2>3, VersionShaped DEF Upload
  <1>5. ASSUME NEW c \in Clients, NEW p, Compare(c, p) \/ Offer(c, p)
        PROVE  (DirsShaped /\ ListShaped)'
    <2>1. UNCHANGED dir
      BY <1>5 DEF Compare, Offer
    <2> QED  BY <1>0, <1>5, <2>1, ComparedShaped DEF DirsShaped
  <1>6. ASSUME NEW c \in Clients, NEW p, Fetch(c, p) PROVE (DirsShaped /\ ListShaped)'
    <2>1. p \in DOMAIN list /\ p \in Paths
      BY <1>6 DEF Fetch, First, Owned, Typed, Listed
    <2>2. DirsShaped'
      <3>1. CASE UNCHANGED dir
        BY <1>0, <3>1 DEF DirsShaped
      <3>2. CASE p \in Dirs /\ CreateDirectory(Server, p)
        BY <1>0, <3>2, CreateDirectoryShaped
      <3>3. CASE Write(Server, p, dir[c][p])
        BY <1>0, <2>1, <3>3, WriteShaped DEF DirsShaped
      <3>4. CASE p \notin Dirs /\ Write(Server, p, [m |-> now, v |-> 0])
        <4>1. Like(p, [m |-> now, v |-> 0])
          BY <3>4 DEF Like, Shaped, Typed
        <4> QED  BY <1>0, <2>1, <3>4, <4>1, WriteShaped
      <3> QED  BY <1>6, <3>1, <3>2, <3>3, <3>4 DEF Fetch
    <2>3. ListShaped'
      <3>1. /\ DOMAIN list' = DOMAIN list /\ \A q \in DOMAIN list : q # p => list'[q] = list[q]
            /\ list'[p].path \in {list[p].path, Top(p)} /\ list'[p].m = list[p].m
        BY <1>6, <2>1 DEF Fetch, PassOver, Typed, Listed, EntryOf
      <3> QED  BY <1>0, <2>1, <3>1 DEF ListShaped, EntryLike
    <2> QED  BY <2>2, <2>3
  <1>7. ASSUME NEW c \in Clients, NEW p, Serve(c, p) PROVE (DirsShaped /\ ListShaped)'
    <2>1. p \in todo[c] /\ p \in Paths /\ serving = c /\ UNCHANGED list
      BY <1>7, VisitsTyped DEF Serve
    <2>2. p \in DOMAIN list
      BY <1>0, <2>1, FileSyncAssumption DEF Serves
    <2>3. EntryLike(p, list[p])
      BY <1>0, <2>2 DEF ListShaped
    <2>4. CASE p \in Dirs /\ ServeDirectory(c, list[p])
      <3>1. list[p].path \in Dirs /\ list[p].path \in Paths
        BY <2>1, <2>3, <2>4, TopExists, PathsKnown DEF EntryLike, Top
      <3>2. DirsShaped'
        BY <1>0, <2>4, <3>1, CreateDirectoryShaped, WithoutShaped DEF ServeDirectory, RemoveDirectory
      <3> QED  BY <1>0, <2>1, <3>2 DEF ListShaped
    <2>5. CASE p \notin Dirs /\ ServeFile(c, p, list[p])
      <3>1. Like(p, Absent) /\ Like(p, [m |-> list[p].m, v |-> dir[Server][p].v])
        BY <2>3, <2>5 DEF Like, EntryLike, Absent
      <3>2. \/ UNCHANGED dir \/ Write(c, p, Absent)
            \/ Write(c, p, [m |-> list[p].m, v |-> dir[Server][p].v])
        BY <2>5 DEF ServeFile
      <3>3. DirsShaped'
        <4>1. CASE UNCHANGED dir
          BY <1>0, <4>1 DEF DirsShaped
        <4> QED  BY <1>0, <2>1, <3>1, <3>2, <4>1, WriteShaped
      <3> QED  BY <1>0, <2>1, <3>3 DEF ListShaped
    <2> QED  BY <1>7, <2>4, <2>5 DEF Serve
  <1>8. CASE EndPhase
    <2>1. CASE turn = 3
      <3>1. CleanLists
        BY <1>8, <2>1 DEF EndPhase
      <3>2. dir' = [dir EXCEPT ![Server] = Without(@, Gone)]
            /\ list' = [p \in DOMAIN list \ Gone |-> list[p]]
        BY <3>1 DEF CleanLists
      <3> QED  BY <1>0, <3>2, WithoutShaped DEF ListShaped
    <2> QED  BY <1>2, <1>8, <2>1 DEF EndPhase
  <1>9. ASSUME NEW r \in Replicas, NEW p \in Paths, Create(r, p) \/ Modify(r, p) \/ Delete(r, p)
        PROVE  (DirsShaped /\ ListShaped)'
    <2>1. UNCHANGED list
      BY <1>9 DEF Create, Modify, Delete, Acts
    <2>2. CASE Create(r, p)
      <3>1. Like(p, IF p \in Dirs THEN Directory ELSE [m |-> now, v |-> edits + 3])
        BY DEF Like, Directory, Shaped, Typed
      <3>2. Write(r, p, IF p \in Dirs THEN Directory ELSE [m |-> now, v |-> edits + 3])
        BY <2>2 DEF Create
      <3> QED  BY <1>0, <2>1, <3>1, <3>2, WriteShaped DEF ListShaped
    <2>3. CASE Modify(r, p)
      <3>1. p \notin Dirs /\ Write(r, p, [m |-> now', v |-> edits + 3]) /\ now' \in {now, now + 1}
        BY <2>3 DEF Modify
      <3>2. Like(p, [m |-> now', v |-> edits + 3])
        BY <1>1, <3>1 DEF Like, Typed
      <3> QED  BY <1>0, <2>1, <3>1, <3>2, WriteShaped DEF ListShaped
    <2>4. CASE Delete(r, p)
      BY <1>0, <2>1, <2>4, WithoutShaped DEF Delete, ListShaped
    <2> QED  BY <1>9, <2>2, <2>3, <2>4
  <1>10. ASSUME NEW c \in Clients, EndConnection(c) \/ StartRound(c) \/ EndCompare(c) \/ EndFetch(c)
                                   \/ BeginServe(c) \/ EndServe(c) \/ Connect(c)
         PROVE  (DirsShaped /\ ListShaped)'
    BY <1>2, <1>10 DEF EndConnection, StartRound, EndCompare, EndFetch, BeginServe, EndServe, Connect,
                       lists
  <1>11. CASE UNCHANGED vars
    BY <1>2, <1>11 DEF vars, lists
  <1> QED
    BY <1>3, <1>4, <1>5, <1>6, <1>7, <1>8, <1>9, <1>10, <1>11 DEF Next, System, Thread, User

-----------------------------------------------------------------------------
(* Entries that are cut, and entries that are gone. *)

\* Above what is in a set of names there is a first one.
LEMMA FirstExists ==
  ASSUME NEW S \in SUBSET Paths, NEW p \in S
  PROVE  \E a \in First(S) : p \in Below(a)
  <1> DEFINE T == S \cap (Above[p] \cup {p})
             N == {Cardinality(Above[a]) : a \in T}
  <1>1. \A a \in T : a \in Paths /\ IsFiniteSet(Above[a]) /\ Cardinality(Above[a]) \in Nat
    BY PathsKnown, FS_CardinalityType
  <1>2. N \subseteq Nat /\ N # {}
    BY <1>1
  <1>3. PICK n \in N : \A k \in N : n <= k
    <2> HIDE DEF N
    <2> QED  BY <1>2, LeastExists
  <1>4. PICK a \in T : n = Cardinality(Above[a])
    BY <1>3
  <1>5. p \in Below(a)
    BY <1>4 DEF Below
  <1>6. ASSUME NEW b \in Above[a] \cap S PROVE FALSE
    <2>1. b \in T /\ Above[b] \subseteq Above[a] /\ b \notin Above[b]
      BY <1>1, <1>4, <1>6, PathsKnown
    <2>2. IsFiniteSet(Above[a] \ {b}) /\ Cardinality(Above[a] \ {b}) = Cardinality(Above[a]) - 1
      BY <1>1, <1>4, <1>6, FS_RemoveElement
    <2>3. Above[b] \in SUBSET (Above[a] \ {b})
      BY <2>1
    <2>4. Cardinality(Above[b]) <= Cardinality(Above[a] \ {b})
      BY <2>2, <2>3, FS_Subset
    <2>5. n <= Cardinality(Above[b])
      BY <1>3, <2>1
    <2> QED  BY <1>1, <1>4, <2>1, <2>2, <2>4, <2>5
  <1> QED  BY <1>4, <1>5, <1>6 DEF First

\* AppendFile leaves what is there.
LEMMA AppendKeeps ==
  ASSUME NEW l, NEW p \in Paths, NEW owner, NEW m, NEW garbage
  PROVE  /\ DOMAIN l \subseteq DOMAIN AppendFile(l, p, owner, m, garbage)
         /\ p \in DOMAIN AppendFile(l, p, owner, m, garbage)
         /\ \A q \in DOMAIN l : AppendFile(l, p, owner, m, garbage)[q] = l[q]
  BY DEF AppendFile

\* AppendFile adds a path that is new, and the directories that it is in.
LEMMA AppendAdds ==
  ASSUME NEW l, NEW p \in Paths, NEW owner, NEW m, NEW garbage, p \notin DOMAIN l
  PROVE  /\ DOMAIN AppendFile(l, p, owner, m, garbage) \subseteq DOMAIN l \cup Above[p] \cup {p}
         /\ AppendFile(l, p, owner, m, garbage)[p] = Entry(p, owner, m, FALSE)
         /\ \A q \in DOMAIN AppendFile(l, p, owner, m, garbage) \ (DOMAIN l \cup {p}) :
              AppendFile(l, p, owner, m, garbage)[q] = Entry(q, garbage, 0, FALSE)
  BY DEF AppendFile

\* Between the ends of rounds entries stay in the list, and keep their name or
\* are cut.
LEMMA EntriesStay ==
  ASSUME Typed, [Next]_vars, ~(EndPhase /\ turn = 3)
  PROVE  /\ DOMAIN list \subseteq DOMAIN list'
         /\ \A q \in DOMAIN list : list'[q].path \in {list[q].path, Top(q)}
  <1> DEFINE Stays(k) == /\ DOMAIN list \subseteq DOMAIN k
                         /\ \A q \in DOMAIN list : k[q].path \in {list[q].path, Top(q)}
  <1>0. Listed(list) /\ \A q \in DOMAIN list : list[q] \in EntryOf(q)
    BY DEF Typed, Listed
  <1>1. ASSUME NEW p \in Paths, NEW owner, NEW m, NEW garbage
        PROVE  Stays(AppendFile(list, p, owner, m, garbage))
    <2> DEFINE k == AppendFile(list, p, owner, m, garbage)
    <2>1. /\ DOMAIN list \subseteq DOMAIN k
          /\ \A q \in DOMAIN list : k[q] = list[q]
      BY AppendKeeps
    <2> HIDE DEF k
    <2>2. Stays(k)
      BY <2>1
    <2> QED  BY <2>2 DEF k
  <1>2. ASSUME NEW k, Stays(k), NEW p, NEW e, p \in DOMAIN k => e.path = k[p].path
        PROVE  Stays([k EXCEPT ![p] = e])
    BY <1>2
  <1> SUFFICES Stays(list')
    OBVIOUS
  <1>3. CASE UNCHANGED list
    BY <1>3
  <1>4. ASSUME NEW p \in Paths, NEW owner, NEW m, Append(p, owner, m) PROVE Stays(list')
    BY <1>1, <1>4 DEF Append
  <1>5. ASSUME NEW p \in Paths, NEW owner \in Replicas, NEW m \in Nat,
               LET l == AppendFile(list, p, owner, m, Server) IN
                 list' = [l EXCEPT ![p].deleted = TRUE, ![p].m = Forever]
        PROVE  Stays(list')
    <2> DEFINE l == AppendFile(list, p, owner, m, Server)
    <2>1. Stays(l)
      BY <1>1
    <2>2. Listed(l) /\ p \in DOMAIN l
      BY <1>0, <1>5, ListAppended DEF Replicas
    <2>3. list' = [l EXCEPT ![p].deleted = TRUE, ![p].m = Forever]
      BY <1>5
    <2> HIDE DEF l
    <2>4. list'[p].path = l[p].path
      BY <2>2, <2>3 DEF Listed, EntryOf
    <2>5. DOMAIN list' = DOMAIN l /\ \A q \in DOMAIN l : q # p => list'[q] = l[q]
      BY <2>3
    <2> QED  BY <2>1, <2>4, <2>5
  <1>6. ASSUME NEW p, p \in DOMAIN list, NEW m, NEW owner,
               list' = [list EXCEPT ![p].m = m, ![p].owner = owner]
        PROVE  Stays(list')
    <2>1. list'[p].path = list[p].path
      BY <1>0, <1>6 DEF EntryOf
    <2> QED  BY <1>6, <2>1
  <1> HIDE DEF Stays
  <1>7. ASSUME NEW c \in Clients, NEW p, Exchange(c, p) \/ Upload(c, p) PROVE Stays(list')
    <2>1. p \in Paths /\ Top(p) \in Paths
      BY <1>7, VisitsTyped, UnmarkedKnown, TopKnown DEF Exchange, Upload
    <2>2. UNCHANGED list \/ \E q \in {p, Top(p)}, owner \in Replicas : \E m : Append(q, owner, m)
      BY <1>7 DEF Exchange, Upload, ExchangeDirectory, ClientSends, ClientReceives, Break, Replicas
    <2> QED  BY <1>3, <1>4, <2>1, <2>2
  <1>8. ASSUME NEW c \in Clients, NEW p, Compare(c, p) PROVE Stays(list')
    <2>1. p \in Paths /\ Server \in Replicas /\ Forever \in Nat
      BY <1>8, VisitsTyped DEF Compare, Replicas, Forever
    <2>2. CASE Append(p, Server, dir[Server][p].m)
      BY <1>4, <2>1, <2>2
    <2>3. CASE ClientHasNewer(c, p) \/ ServerHasNewer(p)
      <3>1. CASE UNCHANGED list
        BY <1>3, <3>1
      <3>2. ASSUME NEW r \in {c, Server}, p \in DOMAIN list,
                   list' = [list EXCEPT ![p].m = dir[r][p].m, ![p].owner = r]
            PROVE  Stays(list')
        BY <1>6, <3>2
      <3>3. ASSUME NEW r \in {c, Server}, list' = AppendFile(list, p, r, dir[r][p].m, Server)
            PROVE  Stays(list')
        <4>1. Stays(AppendFile(list, p, r, dir[r][p].m, Server))
          BY <1>1, <2>1
        <4> QED  BY <3>3, <4>1
      <3> QED  BY <2>3, <3>1, <3>2, <3>3 DEF ClientHasNewer, ServerHasNewer
    <2>4. CASE MarkDeleted(p)
      BY <1>5, <2>1, <2>4 DEF MarkDeleted
    <2> QED  BY <1>3, <1>8, <2>2, <2>3, <2>4 DEF Compare
  <1>9. ASSUME NEW c \in Clients, NEW p, Offer(c, p) PROVE Stays(list')
    <2>1. p \in Paths /\ c \in Replicas
      BY <1>9, UnmarkedKnown DEF Offer, Replicas
    <2>2. PICK m \in StatTimes(c, p) : list' = OfferedOrDeleted(c, p, m)
      BY <1>9 DEF Offer
    <2>3. m \in Nat
      BY <2>1, <2>2, TimesKnown
    <2> QED  BY <1>1, <1>5, <2>1, <2>2, <2>3 DEF OfferedOrDeleted
  <1>10. ASSUME NEW c \in Clients, NEW p, Fetch(c, p) PROVE Stays(list')
    <2>1. p \in DOMAIN list
      BY <1>10 DEF Fetch, First, Owned
    <2>2. /\ DOMAIN list' = DOMAIN list /\ \A q \in DOMAIN list : q # p => list'[q] = list[q]
          /\ list'[p].path \in {list[p].path, Top(p)}
      BY <1>0, <1>10, <2>1 DEF Fetch, PassOver, EntryOf
    <2> QED  BY <2>2 DEF Stays
  <1>11. CASE EndPhase
    BY <1>3, <1>11 DEF EndPhase
  <1>12. ASSUME NEW c \in Clients, \/ EndConnection(c) \/ StartRound(c) \/ EndCompare(c) \/ EndFetch(c)
                                   \/ BeginServe(c) \/ EndServe(c) \/ Connect(c)
                                   \/ \E p \in Paths : Serve(c, p)
         PROVE  Stays(list')
    BY <1>3, <1>12 DEF EndConnection, StartRound, EndCompare, EndFetch, BeginServe, EndServe, Connect,
                       Serve, lists
  <1>13. CASE User
    BY <1>3, <1>13 DEF User, Create, Modify, Delete, Acts
  <1>14. CASE UNCHANGED vars
    BY <1>3, <1>14 DEF vars, lists
  <1> QED
    BY <1>7, <1>8, <1>9, <1>10, <1>11, <1>12, <1>13, <1>14 DEF Next, System, Thread

\* No process crashed, and no entry lost its name.
Fine == ~broken /\ Cut = {}

\* Once it is not so it never is again.
LEMMA FineBefore ==
  ASSUME Typed, Shaped, [Next]_vars, Fine'
  PROVE  Fine
  <1>1. ~broken
    BY DEF Next, Fine, vars
  <1> SUFFICES ASSUME NEW p \in Cut PROVE FALSE
    BY <1>1 DEF Fine
  <1>2. p \in DOMAIN list /\ list[p].path = Top(p) /\ Top(p) # p
    BY DEF Cut, Shaped, ListShaped, EntryLike
  <1>3. CASE EndPhase /\ turn = 3
    <2>1. broken' = (Gone \cap Cut # {}) /\ list' = [q \in DOMAIN list \ Gone |-> list[q]]
      BY <1>3 DEF EndPhase, CleanLists
    <2>2. p \in DOMAIN list'
      BY <1>2, <2>1 DEF Fine
    <2>3. list'[p] = list[p]
      BY <2>1, <2>2
    <2> QED  BY <1>2, <2>2, <2>3 DEF Fine, Cut
  <1>4. CASE ~(EndPhase /\ turn = 3)
    BY <1>2, <1>4, EntriesStay DEF Fine, Cut
  <1> QED  BY <1>3, <1>4

\* The clean-up takes every entry that is deleted.
LEMMA DeletedGone ==
  ASSUME Typed, Fine, NEW p \in DOMAIN list, list[p].deleted
  PROVE  p \in Gone
  <1> DEFINE S == {q \in DOMAIN list : list[q].deleted}
  <1>1. S \in SUBSET Paths /\ p \in S
    BY DEF Typed, Listed
  <1>2. PICK a \in First(S) : p \in Below(a)
    <2> HIDE DEF S
    <2> QED  BY <1>1, FirstExists
  <1>3. a \in Doomed /\ list[a].path = a
    BY <1>2 DEF Doomed, First, Fine, Cut
  <1> QED  BY <1>2, <1>3 DEF Gone

\* What goes is below an entry that is deleted.
LEMMA GoneKnown ==
  ASSUME Fine, NEW q \in Gone
  PROVE  \E p \in DOMAIN list : list[p].deleted /\ q \in Below(p)
  BY DEF Gone, Doomed, First, Fine, Cut

-----------------------------------------------------------------------------
(* The rounds since the last change.  Let nobody change anything or connect, *)
(* and no process crash.  The first whole round begins with lists and        *)
(* directories of any kind; it leaves a list that every client has got in    *)
(* full, and listings that are true.  In the second one whatever else a      *)
(* client has is offered, goes to the server and from there to everybody.    *)
(* Nothing is left to do in a third.                                         *)

\* The clients that take part have given the server all that they owe it.
Owners ==
  /\ turn = 3 => \A c \in R!Joined : Owned(c) = {}
  /\ turn = 2 => \A c \in Clients : at[c] = "done" => Owned(c) = {}

\* A round has ended, and nobody connects.
Together == R!Joined # {} /\ \A c \in Clients : at[c] # "alone"

\* What a listing says of the directory of its client.
Fresh(c) == \A p \in Paths : listing[c][p] = IF Has(c, p) THEN "new" ELSE "none"

\* The entries that a client has got in this round.
Served(c) == IF at[c] = "done" THEN DOMAIN list
             ELSE IF serving = c THEN DOMAIN list \ todo[c] ELSE {}

\* A client has what the list says it should.
Got(c, p) == /\ Has(c, p)
             /\ p \notin Dirs => /\ Has(Server, p)
                                 /\ dir[c][p] = [m |-> list[p].m, v |-> dir[Server][p].v]

Delivered(c) == /\ Closed(Served(c))
                /\ at[c] = "done" => Fresh(c)
                /\ \A p \in Served(c) : ~list[p].deleted => Got(c, p)

\* In the first round: the server's directory comes to be in the list, and the
\* list to the clients.
Gathered ==
  /\ turn = 1 => \A c \in R!Joined :
       /\ at[c] = "work" => Names(Server) \subseteq DOMAIN list \cup todo[c]
       /\ at[c] = "done" => Names(Server) \subseteq DOMAIN list
  /\ turn # 1 => Names(Server) \subseteq DOMAIN list
  /\ turn = 3 => \A c \in R!Joined : Delivered(c)

\* What the last round left in the list.
Kept == lastSync[Server]

\* An entry that a client has offered.
New(p) == \E c \in R!Joined : /\ list[p].owner = c /\ Has(c, p)
                              /\ p \notin Dirs => list[p].m = dir[c][p].m

\* In phase 1 of a later round.  All the clients have what is kept, the files
\* with the contents of the server and with no later time than the list says;
\* only directories may be missing at the server.
Comparing ==
  /\ Names(Server) \subseteq Kept /\ Kept \subseteq DOMAIN list /\ Kept \ Names(Server) \subseteq Dirs
  /\ \A p \in Kept : list[p].owner \notin R!Joined /\ (list[p].deleted => ~Has(Server, p))
  /\ \A c \in R!Joined : \A p \in Kept :
       /\ Has(c, p)
       /\ p \notin Dirs => dir[c][p].v = dir[Server][p].v /\ list[p].m >= dir[c][p].m
  /\ \A p \in DOMAIN list \ Kept : ~list[p].deleted /\ New(p)

\* What a client has been asked about, or has offered, in that phase.
Told(c) ==
  /\ at[c] = "gate" => Fresh(c)
  /\ at[c] # "gate" =>
       /\ \A p \in Paths : listing[c][p] = "none" <=> ~Has(c, p)
       /\ \A p \in Paths : listing[c][p] = "seen" =>
            p \in DOMAIN list /\ (p \in Kept \ Names(Server) => list[p].deleted)
       /\ \A p \in Names(Server) \ todo[c] :
            listing[c][p] = "seen" /\ (p \notin Dirs => list[p].m >= dir[Server][p].m)
  /\ at[c] = "done" => todo[c] = {} /\ Unmarked(c) = {}

\* In the phases after it: what is deleted is gone at the server already, and
\* the rest is there or still with the client that offered it.
Decided ==
  /\ \A c \in R!Joined : Names(c) \subseteq DOMAIN list
  /\ \A p \in DOMAIN list :
       IF list[p].deleted THEN p \in Dirs /\ ~Has(Server, p)
       ELSE \/ New(p)
            \/ /\ Has(Server, p) /\ list[p].owner \notin R!Joined
               /\ p \notin Dirs => list[p].m >= dir[Server][p].m

Rested ==
  /\ turn = 1 => Comparing /\ \A c \in R!Joined : Told(c)
  /\ turn # 1 => Decided
  /\ turn = 3 => \A c \in R!Joined : \A p \in Served(c) : list[p].deleted => ~Has(c, p)

\* From the end of the second round on.
Level ==
  /\ DOMAIN list = Kept /\ Names(Server) = Kept
  /\ \A p \in Kept : ~list[p].deleted /\ list[p].owner \notin R!Joined
  /\ \A c \in R!Joined : Names(c) = Kept
  /\ \A p \in Kept \ Dirs : /\ list[p].m >= dir[Server][p].m
                            /\ \A c \in R!Joined : Got(c, p)

Agreeing ==
  /\ Owners
  /\ calm >= 1 => Together /\ Gathered
  /\ calm >= 2 => Rested
  /\ calm >= 3 => Level

\* What holds at all times.
Ready == Typed /\ Apart /\ Serves /\ Shaped

\* Who takes part in the rounds.
LEMMA JoinedKnown ==
  ASSUME Ready
  PROVE  /\ R!Joined \subseteq Clients /\ Server \notin R!Joined /\ Sent \notin R!Joined
         /\ R!Joined \subseteq Replicas /\ Server \in Replicas
         /\ \A c \in Clients : c \in R!Joined <=> at[c] \in {"gate", "work", "done"}
  BY FileSyncAssumption DEF R!Joined, Ready, Typed, R!RoundsTypeOK, Replicas, Sent

\* Going on within a round changes nothing of that.
LEMMA JoinedStays ==
  ASSUME Ready, NEW c \in Clients, NEW x \in {"gate", "work", "done"},
         NEW y \in {"gate", "work", "done"}, R!Move(c, x, y)
  PROVE  R!Joined' = R!Joined
  BY DEF R!Joined, R!Move, Ready, Typed, R!RoundsTypeOK

\* A client begins the next round.
LEMMA StartRoundAgrees ==
  ASSUME Ready, Agreeing, NEW c \in Clients, StartRound(c)
  PROVE  Agreeing'
  <1>1. /\ R!Move(c, "gate", "work") /\ turn = 1 /\ turn' = 1
        /\ todo' = [todo EXCEPT ![c] = Names(Server)]
        /\ UNCHANGED <<dir, list, lastSync, listing, serving, calm>>
    BY DEF StartRound, R!Enter, history
  <1>2. R!Joined' = R!Joined
    BY <1>1, JoinedStays
  <1>3. /\ at[c] = "gate" /\ at'[c] = "work" /\ todo'[c] = Names(Server)
        /\ \A d \in Clients \ {c} : at'[d] = at[d] /\ todo'[d] = todo[d]
    BY <1>1 DEF R!Move, Ready, Typed, R!RoundsTypeOK
  <1>4. Owners'
    BY <1>1 DEF Owners
  <1>5. Together => Together'
    BY <1>2, <1>3 DEF Together
  <1>6. Names(Server)' = Names(Server)
    BY <1>1 DEF Names, Has
  <1>7. Gathered => Gathered'
    BY <1>1, <1>2, <1>3, <1>6, JoinedKnown DEF Gathered
  <1>8. Rested => Rested'
    <2> SUFFICES ASSUME Rested PROVE Comparing' /\ \A d \in R!Joined : Told(d)'
      BY <1>1, <1>2 DEF Rested
    <2>1. Comparing /\ \A d \in R!Joined : Told(d)
      BY <1>1 DEF Rested
    <2>2. Comparing'
      BY <1>1, <1>2, <2>1 DEF Comparing, New, Kept, Has, Names
    <2>3. Told(c)'
      <3>1. Fresh(c) /\ c \in R!Joined
        BY <1>3, <2>1, JoinedKnown DEF Told
      <3> QED  BY <1>1, <1>3, <1>6, <3>1 DEF Told, Fresh, Has
    <2>4. ASSUME NEW d \in R!Joined, d # c PROVE Told(d)'
      BY <1>1, <1>3, <2>1, <2>4, JoinedKnown DEF Told, Fresh, Has, Names, Kept, Unmarked
    <2> QED  BY <2>2, <2>3, <2>4
  <1>9. Level => Level'
    BY <1>1, <1>2 DEF Level, Got, Kept, Has, Names
  <1> QED  BY <1>1, <1>4, <1>5, <1>7, <1>8, <1>9 DEF Agreeing

\* A client has been compared.
LEMMA EndCompareAgrees ==
  ASSUME Ready, Agreeing, NEW c \in Clients, EndCompare(c)
  PROVE  Agreeing'
  <1>1. /\ R!Move(c, "work", "done") /\ turn = 1 /\ turn' = 1 /\ todo[c] = {} /\ Unmarked(c) = {}
        /\ lastSync' = [lastSync EXCEPT ![c] = {}]
        /\ UNCHANGED <<dir, list, listing, todo, serving, calm>>
    BY DEF EndCompare, R!Finish, history
  <1>2. R!Joined' = R!Joined
    BY <1>1, JoinedStays
  <1>3. /\ at[c] = "work" /\ at'[c] = "done"
        /\ \A d \in Clients \ {c} : at'[d] = at[d]
    BY <1>1 DEF R!Move, Ready, Typed, R!RoundsTypeOK
  <1>4. Owners'
    BY <1>1 DEF Owners
  <1>5. Together => Together'
    BY <1>2, <1>3 DEF Together
  <1>6. Names(Server)' = Names(Server) /\ Kept' = Kept
    <2>1. lastSync'[Server] = lastSync[Server]
      BY <1>1, FileSyncAssumption DEF Ready, Typed, Replicas
    <2> QED  BY <1>1, <2>1 DEF Names, Has, Kept
  <1>7. Gathered => Gathered'
    BY <1>1, <1>2, <1>3, <1>6, JoinedKnown DEF Gathered
  <1>8. Rested => Rested'
    <2> SUFFICES ASSUME Rested PROVE Comparing' /\ \A d \in R!Joined : Told(d)'
      BY <1>1, <1>2 DEF Rested
    <2>1. Comparing /\ \A d \in R!Joined : Told(d)
      BY <1>1 DEF Rested
    <2>2. Comparing'
      BY <1>1, <1>2, <1>6, <2>1 DEF Comparing, New, Has, Names
    <2>3. Told(c)'
      <3>1. c \in R!Joined
        BY <1>3, JoinedKnown
      <3> QED  BY <1>1, <1>3, <1>6, <2>1, <3>1 DEF Told, Has, Unmarked
    <2>4. ASSUME NEW d \in R!Joined, d # c PROVE Told(d)'
      BY <1>1, <1>3, <1>6, <2>1, <2>4, JoinedKnown DEF Told, Fresh, Has, Unmarked
    <2> QED  BY <2>2, <2>3, <2>4
  <1>9. Level => Level'
    BY <1>1, <1>2, <1>6 DEF Level, Got, Has, Names
  <1> QED  BY <1>1, <1>4, <1>5, <1>7, <1>8, <1>9 DEF Agreeing

\* A client has given all that it owes.
LEMMA EndFetchAgrees ==
  ASSUME Ready, Agreeing, NEW c \in Clients, EndFetch(c)
  PROVE  Agreeing'
  <1>1. /\ R!Move(c, "work", "done") /\ turn = 2 /\ turn' = 2 /\ Owned(c) = {}
        /\ UNCHANGED <<dir, list, lastSync, listing, todo, serving, calm>>
    BY DEF EndFetch, R!Finish, history, lists
  <1>2. R!Joined' = R!Joined
    BY <1>1, JoinedStays
  <1>3. \A d \in Clients \ {c} : at'[d] = at[d]
    BY <1>1 DEF R!Move, Ready, Typed, R!RoundsTypeOK
  <1>4. Owners'
    BY <1>1, <1>3 DEF Agreeing, Owners, Owned
  <1>5. Together => Together'
    BY <1>1, <1>2 DEF Together, R!Move, Ready, Typed, R!RoundsTypeOK
  <1>6. Gathered => Gathered'
    BY <1>1 DEF Gathered, Names, Has
  <1>7. Rested => Rested'
    BY <1>1, <1>2 DEF Rested, Decided, New, Names, Has
  <1>8. Level => Level'
    BY <1>1, <1>2 DEF Level, Got, Kept, Has, Names
  <1> QED  BY <1>1, <1>4, <1>5, <1>6, <1>7, <1>8 DEF Agreeing

\* In phase 3 the turn to send goes from hand to hand.
LEMMA BeginServeAgrees ==
  ASSUME Ready, Agreeing, NEW c \in Clients, BeginServe(c)
  PROVE  Agreeing'
  <1>1. /\ at[c] = "work" /\ turn = 3 /\ serving = NoClient /\ serving' = c
        /\ todo' = [todo EXCEPT ![c] = DOMAIN list]
        /\ UNCHANGED <<at, turn, dir, list, lastSync, listing, calm>>
    BY DEF BeginServe, Works, history
  <1>2. R!Joined' = R!Joined
    BY <1>1 DEF R!Joined
  <1>3. todo'[c] = DOMAIN list /\ \A d \in Clients \ {c} : todo'[d] = todo[d]
    BY <1>1 DEF Ready, Typed
  <1>4. \A d \in R!Joined : Served(d)' = Served(d)
    <2>1. NoClient \notin Clients
      BY FileSyncAssumption DEF Replicas
    <2> QED  BY <1>1, <1>3, <2>1, JoinedKnown DEF Served
  <1>5. Owners'
    BY <1>1, <1>2 DEF Agreeing, Owners, Owned
  <1>6. Together => Together'
    BY <1>1, <1>2 DEF Together
  <1>7. Gathered => Gathered'
    <2> SUFFICES ASSUME Gathered PROVE Names(Server)' \subseteq DOMAIN list' /\ \A d \in R!Joined : Delivered(d)'
      BY <1>1, <1>2 DEF Gathered
    <2>1. Names(Server)' \subseteq DOMAIN list'
      BY <1>1 DEF Gathered, Names, Has
    <2>2. ASSUME NEW d \in R!Joined PROVE Delivered(d)'
      BY <1>1, <1>4 DEF Gathered, Delivered, Closed, Fresh, Has, Got
    <2> QED  BY <2>1, <2>2
  <1>8. Rested => Rested'
    BY <1>1, <1>2, <1>4 DEF Rested, Decided, New, Names, Has
  <1>9. Level => Level'
    BY <1>1, <1>2 DEF Level, Got, Kept, Has, Names
  <1> QED  BY <1>1, <1>5, <1>6, <1>7, <1>8, <1>9 DEF Agreeing

\* The client has got all of the list, and lists its directory.
LEMMA EndServeAgrees ==
  ASSUME Ready, Agreeing, NEW c \in Clients, EndServe(c)
  PROVE  Agreeing'
  <1>1. /\ R!Move(c, "work", "done") /\ turn = 3 /\ turn' = 3 /\ serving = c /\ todo[c] = {}
        /\ serving' = NoClient /\ ListFiles(c)
        /\ UNCHANGED <<dir, list, lastSync, todo, calm>>
    BY DEF EndServe, R!Finish, history
  <1>2. R!Joined' = R!Joined
    BY <1>1, JoinedStays
  <1>3. /\ at[c] = "work" /\ at'[c] = "done" /\ \A d \in Clients \ {c} : at'[d] = at[d]
        /\ NoClient \notin Clients
    BY <1>1, FileSyncAssumption DEF R!Move, Ready, Typed, R!RoundsTypeOK, Replicas
  <1>4. \A d \in R!Joined : Served(d)' = Served(d)
    BY <1>1, <1>3, JoinedKnown DEF Served
  <1>5. Owners'
    BY <1>1, <1>2 DEF Agreeing, Owners, Owned
  <1>6. Together => Together'
    BY <1>2, <1>3 DEF Together
  <1>7. Gathered => Gathered'
    <2> SUFFICES ASSUME Gathered PROVE Names(Server)' \subseteq DOMAIN list' /\ \A d \in R!Joined : Delivered(d)'
      BY <1>1, <1>2 DEF Gathered
    <2>1. Names(Server)' \subseteq DOMAIN list'
      BY <1>1 DEF Gathered, Names, Has
    <2>2. Fresh(c)'
      BY <1>1 DEF Fresh, ListFiles, Has, Ready, Typed
    <2>3. \A d \in Clients \ {c} : listing'[d] = listing[d]
      BY <1>1 DEF ListFiles, Ready, Typed
    <2>4. ASSUME NEW d \in R!Joined PROVE Delivered(d)'
      <3>1. Delivered(d)
        BY <1>1 DEF Gathered
      <3>2. at'[d] = "done" => Fresh(d)'
        <4>1. CASE d = c
          BY <2>2, <4>1
        <4>2. CASE d # c
          BY <1>1, <1>3, <2>3, <3>1, <4>2, JoinedKnown DEF Delivered, Fresh, Has
        <4> QED  BY <4>1, <4>2
      <3> QED  BY <1>1, <1>4, <3>1, <3>2 DEF Delivered, Closed, Has, Got
    <2> QED  BY <2>1, <2>4
  <1>8. Rested => Rested'
    BY <1>1, <1>2, <1>4 DEF Rested, Decided, New, Names, Has
  <1>9. Level => Level'
    BY <1>1, <1>2 DEF Level, Got, Kept, Has, Names
  <1> QED  BY <1>1, <1>5, <1>6, <1>7, <1>8, <1>9 DEF Agreeing

\* One entry of the server's directory is compared: it is in the list after
\* that, and from the second round on nothing changes but a time that is old.
LEMMA CompareAgrees ==
  ASSUME Ready, Ready', Agreeing, [Next]_vars, Fine', NEW c \in Clients, NEW p, Compare(c, p)
  PROVE  Agreeing'
  <1>1. /\ at[c] = "work" /\ turn = 1 /\ Visits(c, p) /\ ~broken'
        /\ UNCHANGED <<at, turn, dir, lastSync, serving, calm>>
    BY DEF Compare, Works, history, Fine
  <1>2. R!Joined' = R!Joined /\ c \in R!Joined /\ c \in Replicas /\ Server \in Replicas
    BY <1>1, JoinedKnown DEF R!Joined, Replicas
  <1>3. /\ p \in Paths /\ p \in todo[c] /\ todo'[c] = todo[c] \ {p}
        /\ \A d \in Clients \ {c} : todo'[d] = todo[d]
    BY <1>1, VisitsTyped DEF Ready, Typed
  <1>4. DOMAIN list \subseteq DOMAIN list'
    BY <1>1, EntriesStay DEF Ready, EndPhase, R!Turn
  <1>5. Has(Server, p) => p \in DOMAIN list'
    <2>1. Listed(list) /\ dir[c][p].m \in Nat /\ dir[Server][p].m \in Nat
      BY <1>2, <1>3, TimesKnown DEF Ready, Typed
    <2>2. CASE Append(p, Server, dir[Server][p].m)
      BY <1>3, <2>2, AppendKeeps DEF Append
    <2>3. CASE ClientHasNewer(c, p) \/ ServerHasNewer(p)
      <3>1. CASE p \in DOMAIN list
        BY <1>4, <3>1
      <3>2. CASE p \notin DOMAIN list
        BY <1>3, <2>3, <3>2, AppendKeeps DEF ClientHasNewer, ServerHasNewer
      <3> QED  BY <3>1, <3>2
    <2>4. CASE MarkDeleted(p)
      BY <1>3, <2>4, AppendKeeps DEF MarkDeleted
    <2> QED  BY <1>1, <2>2, <2>3, <2>4 DEF Compare
  <1>6. Names(Server)' = Names(Server) /\ Kept' = Kept
    BY <1>1 DEF Names, Has, Kept
  <1>7. Gathered => Gathered'
    <2> SUFFICES ASSUME Gathered, NEW d \in R!Joined
                 PROVE  /\ at'[d] = "work" => Names(Server) \subseteq DOMAIN list' \cup todo'[d]
                        /\ at'[d] = "done" => Names(Server) \subseteq DOMAIN list'
      BY <1>1, <1>2, <1>6 DEF Gathered
    <2>1. /\ at[d] = "work" => Names(Server) \subseteq DOMAIN list \cup todo[d]
          /\ at[d] = "done" => Names(Server) \subseteq DOMAIN list
      BY <1>1 DEF Gathered
    <2>2. p \in Names(Server) => p \in DOMAIN list'
      BY <1>5 DEF Names
    <2> QED  BY <1>1, <1>3, <1>4, <2>1, <2>2, JoinedKnown
  <1>8. CASE calm < 2
    BY <1>1, <1>2, <1>7, <1>8 DEF Agreeing, Owners, Together, Ready, Typed
  <1>9. CASE calm >= 2
    <2>1. Comparing /\ \A d \in R!Joined : Told(d)
      BY <1>1, <1>9 DEF Agreeing, Rested
    <2>2. Has(Server, p) => /\ p \in Kept /\ p \in DOMAIN list /\ Has(c, p) /\ listing[c][p] # "none"
                            /\ p \notin Dirs => list[p].m >= dir[c][p].m
      BY <1>1, <1>2, <1>3, <2>1 DEF Comparing, Told, Names
    <2>3. dir[c][p].m \in Nat /\ dir[Server][p].m \in Nat
          /\ Listed(list) /\ \A q \in DOMAIN list : list[q] \in EntryOf(q) /\ list[q].m \in Nat
      BY <1>2, <1>3, TimesKnown DEF Ready, Typed, Listed, EntryOf
    \* What becomes of the entry.
    <2>4. /\ DOMAIN list' = DOMAIN list /\ \A q \in DOMAIN list : q # p => list'[q] = list[q]
          /\ Has(Server, p) =>
               /\ list'[p].deleted = list[p].deleted
               /\ list'[p].m >= list[p].m /\ list'[p].owner \in {list[p].owner, Server}
               /\ p \notin Dirs => list'[p].m >= dir[Server][p].m
               /\ list[p].m >= dir[Server][p].m => list'[p].m = list[p].m
          /\ ~Has(Server, p) \/ p \in Dirs => list' = list
      <3>1. CASE ~Has(Server, p)
        BY <1>1, <3>1 DEF Compare
      <3>2. CASE Has(Server, p) /\ p \in Dirs
        <4>1. Append(p, Server, dir[Server][p].m)
          BY <1>1, <2>2, <3>2 DEF Compare
        <4>2. list' = list
          BY <2>2, <3>2, <4>1 DEF Append, AppendFile
        <4> QED  BY <2>3, <2>2, <3>2, <4>2
      <3>3. CASE Has(Server, p) /\ p \notin Dirs /\ IsNewer(c, p)
        <4>1. ClientHasNewer(c, p)
          BY <1>1, <2>2, <3>3 DEF Compare
        <4>2. list' = list
          BY <2>2, <2>3, <3>3, <4>1 DEF ClientHasNewer
        <4>3. list[p].m >= dir[Server][p].m
          BY <2>2, <2>3, <3>3 DEF IsNewer
        <4> QED  BY <2>2, <2>3, <3>3, <4>2, <4>3
      <3>4. CASE Has(Server, p) /\ p \notin Dirs /\ ~IsNewer(c, p)
        <4>1. ServerHasNewer(p)
          BY <1>1, <2>2, <3>4 DEF Compare
        <4>2. CASE list[p].m <= dir[Server][p].m
          <5>1. list' = [list EXCEPT ![p].m = dir[Server][p].m, ![p].owner = Server]
            BY <2>2, <3>4, <4>1, <4>2 DEF ServerHasNewer
          <5>2. /\ DOMAIN list' = DOMAIN list /\ \A q \in DOMAIN list : q # p => list'[q] = list[q]
                /\ list'[p] = [list[p] EXCEPT !.m = dir[Server][p].m, !.owner = Server]
            BY <2>2, <3>4, <5>1
          <5>3. /\ list'[p].deleted = list[p].deleted /\ list'[p].m = dir[Server][p].m
                /\ list'[p].owner = Server
            BY <2>2, <2>3, <3>4, <5>2 DEF EntryOf
          <5> QED  BY <2>2, <2>3, <3>4, <4>2, <5>2, <5>3
        <4>3. CASE ~(list[p].m <= dir[Server][p].m)
          <5>1. list' = list
            BY <2>2, <3>4, <4>1, <4>3 DEF ServerHasNewer
          <5> QED  BY <2>2, <2>3, <3>4, <4>3, <5>1
        <4> QED  BY <4>2, <4>3
      <3> QED  BY <3>1, <3>2, <3>3, <3>4
    \* What becomes of the listing.
    <2>5. \/ UNCHANGED listing /\ ~Has(Server, p)
          \/ Mark(c, p) /\ Has(Server, p)
      BY <1>1, <2>2 DEF Compare
    <2>6. Comparing'
      <3>1. \A q \in Kept : /\ list'[q].owner \notin R!Joined
                            /\ list'[q].deleted = list[q].deleted /\ list'[q].m >= list[q].m
        BY <2>1, <2>2, <2>3, <2>4, JoinedKnown DEF Comparing
      <3>2. \A q \in DOMAIN list \ Kept : list'[q] = list[q]
        BY <2>2, <2>4
      <3>3. \A q \in Kept, d \in R!Joined : dir[d][q].m \in Nat /\ list[q].m \in Nat /\ list'[q].m \in Nat
        <4>1. Listed(list')
          BY DEF Ready, Typed
        <4> QED  BY <2>1, <2>3, <2>4, <4>1, TimesKnown, JoinedKnown DEF Comparing, Listed, EntryOf, Ready
      <3>4. \A q \in Kept, d \in R!Joined : list[q].m >= dir[d][q].m => list'[q].m >= dir[d][q].m
        BY <3>1, <3>3
      <3> QED  BY <1>1, <1>2, <1>6, <2>1, <2>4, <3>1, <3>2, <3>4 DEF Comparing, New, Has
    <2>7. ASSUME NEW d \in R!Joined PROVE Told(d)'
      <3>1. Told(d) /\ d \in Clients /\ at'[d] = at[d] /\ DOMAIN list' = DOMAIN list
        BY <1>1, <2>1, <2>4, JoinedKnown
      <3>2. \A q \in DOMAIN list : list'[q].deleted = list[q].deleted
        BY <2>3, <2>4
      <3>3. \A q \in Names(Server) \ Dirs :
              list[q].m >= dir[Server][q].m => list'[q].m >= dir[Server][q].m
        BY <2>1, <2>4 DEF Comparing, Names
      <3>4. CASE d # c
        <4>1. listing'[d] = listing[d] /\ todo'[d] = todo[d]
          BY <1>3, <2>5, <3>1, <3>4 DEF Mark, Ready, Typed
        <4> QED
          BY <1>1, <1>6, <3>1, <3>2, <3>3, <4>1 DEF Told, Fresh, Has, Unmarked
      <3>5. CASE d = c
        <4>1. /\ \A q \in Paths : listing[c][q] = "none" <=> ~Has(c, q)
              /\ \A q \in Paths : listing[c][q] = "seen" =>
                   q \in DOMAIN list /\ (q \in Kept \ Names(Server) => list[q].deleted)
              /\ \A q \in Names(Server) \ todo[c] :
                   listing[c][q] = "seen" /\ (q \notin Dirs => list[q].m >= dir[Server][q].m)
          BY <1>1, <3>1, <3>5 DEF Told
        <4>2. \A q \in Paths : q # p => listing'[c][q] = listing[c][q]
          BY <2>5 DEF Mark, Ready, Typed
        <4>3. IF Has(Server, p) THEN listing'[c][p] = "seen" ELSE listing'[c][p] = listing[c][p]
          BY <1>3, <2>5 DEF Mark, Ready, Typed
        <4>4. Names(Server) \subseteq Paths /\ (Has(Server, p) => p \in Names(Server))
          BY <1>3 DEF Names
        <4>5. \A q \in Paths : listing'[c][q] = "none" <=> ~Has(c, q)
          BY <2>2, <4>1, <4>2, <4>3
        <4>6. \A q \in Paths : listing'[c][q] = "seen" =>
                q \in DOMAIN list' /\ (q \in Kept \ Names(Server) => list'[q].deleted)
          BY <2>2, <3>1, <3>2, <4>1, <4>2, <4>3, <4>4
        <4>7. \A q \in Names(Server) \ todo'[c] :
                listing'[c][q] = "seen" /\ (q \notin Dirs => list'[q].m >= dir[Server][q].m)
          <5> SUFFICES ASSUME NEW q \in Names(Server) \ todo'[c]
                       PROVE  listing'[c][q] = "seen" /\ (q \notin Dirs => list'[q].m >= dir[Server][q].m)
            OBVIOUS
          <5>1. CASE q = p
            BY <2>4, <4>3, <5>1 DEF Names
          <5>2. CASE q # p
            BY <1>3, <3>3, <4>1, <4>2, <4>4, <5>2
          <5> QED  BY <5>1, <5>2
        <4> QED  BY <1>1, <1>6, <3>1, <3>5, <4>5, <4>6, <4>7 DEF Told, Has
      <3> QED  BY <3>4, <3>5
    <2>8. calm >= 3 => Level'
      <3> SUFFICES ASSUME Level PROVE Level'
        BY DEF Agreeing
      <3>1. \A q \in Kept : /\ list'[q].deleted = list[q].deleted /\ list'[q].m = list[q].m
                            /\ list'[q].owner \notin R!Joined
        <4> SUFFICES ASSUME NEW q \in Kept
                     PROVE  /\ list'[q].deleted = list[q].deleted /\ list'[q].m = list[q].m
                            /\ list'[q].owner \notin R!Joined
          OBVIOUS
        <4>1. q \in DOMAIN list /\ list[q].owner \notin R!Joined /\ Server \notin R!Joined
          BY JoinedKnown DEF Level
        <4>2. CASE q = p /\ p \notin Dirs
          <5>1. Has(Server, p) /\ list[p].m >= dir[Server][p].m
            BY <4>2 DEF Level, Names
          <5> QED  BY <2>4, <4>1, <4>2, <5>1
        <4> QED  BY <2>4, <4>1, <4>2
      <3> QED  BY <1>1, <1>2, <1>6, <2>4, <3>1 DEF Level, Got, Has, Names
    <2>9. Owners' /\ (Together => Together')
      BY <1>1, <1>2 DEF Owners, Together
    <2> QED
      BY <1>1, <1>2, <1>7, <1>9, <2>6, <2>7, <2>8, <2>9 DEF Agreeing, Rested, Ready, Typed
  <1> QED BY <1>8, <1>9 DEF Ready, Typed

\* An entry that only the client has: from the second round on it is one that
\* the list does not have from before, or a directory that has gone.
LEMMA OfferAgrees ==
  ASSUME Ready, Ready', Agreeing, [Next]_vars, NEW c \in Clients, NEW p, Offer(c, p)
  PROVE  Agreeing'
  <1>1. /\ at[c] = "work" /\ turn = 1 /\ todo[c] = {} /\ p \in First(Unmarked(c)) /\ Mark(c, p)
        /\ UNCHANGED <<at, turn, dir, lastSync, todo, serving, calm>>
    BY DEF Offer, Works, history
  <1>2. R!Joined' = R!Joined /\ c \in R!Joined /\ c \in Replicas /\ Server \in Replicas
    BY <1>1, JoinedKnown DEF R!Joined, Replicas
  <1>3. p \in Paths /\ p \in Unmarked(c) /\ listing[c][p] = "new"
    BY <1>1 DEF First, Unmarked
  <1>4. DOMAIN list \subseteq DOMAIN list'
    BY <1>1, EntriesStay DEF Ready, EndPhase, R!Turn
  <1>5. Names(Server)' = Names(Server) /\ Kept' = Kept
    BY <1>1 DEF Names, Has, Kept
  <1>6. Gathered => Gathered'
    BY <1>1, <1>2, <1>4, <1>5 DEF Gathered
  <1>7. Owners' /\ (Together => Together')
    BY <1>1, <1>2 DEF Owners, Together
  <1>8. CASE calm < 2
    BY <1>1, <1>6, <1>7, <1>8 DEF Agreeing, Ready, Typed
  <1>9. CASE calm >= 2
    <2>1. Comparing /\ \A d \in R!Joined : Told(d)
      BY <1>1, <1>9 DEF Agreeing, Rested
    <2>2. /\ \A q \in Paths : listing[c][q] = "none" <=> ~Has(c, q)
          /\ \A q \in Paths : listing[c][q] = "seen" => q \in DOMAIN list
          /\ \A q \in Names(Server) : listing[c][q] = "seen"
      BY <1>1, <1>2, <2>1 DEF Told
    <2>3. Has(c, p) /\ p \notin Names(Server) /\ ~Has(Server, p)
      BY <1>3, <2>2 DEF Names
    <2>4. \A a \in Above[p] : a \in DOMAIN list
      <3> TAKE a \in Above[p]
      <3>1. a \in Paths /\ Has(c, a)
        BY <1>2, <1>3, <2>3, PathsKnown DEF Ready, Typed, Trees, Closed, Held, Has
      <3>2. listing[c][a] # "new"
        BY <1>1, <3>1 DEF First, Unmarked
      <3>3. listing[c][a] \in Marks
        BY <3>1 DEF Ready, Typed
      <3> QED  BY <2>2, <3>1, <3>2, <3>3 DEF Marks
    <2>5. /\ Listed(list) /\ \A q \in DOMAIN list : list[q] \in EntryOf(q)
          /\ p \in Kept => p \in DOMAIN list /\ p \in Dirs
      BY <2>1, <2>3 DEF Ready, Typed, Listed, Comparing
    \* What becomes of the list.
    <2> DEFINE l == AppendFile(list, p, c, dir[c][p].m, Server)
    <2>6. list' = IF p \in Kept THEN [l EXCEPT ![p].deleted = TRUE, ![p].m = Forever] ELSE l
      BY <2>3 DEF Offer, StatTimes, OfferedOrDeleted, Kept
    <2>7. /\ DOMAIN list' \subseteq DOMAIN list \cup {p} /\ p \in DOMAIN list'
          /\ \A q \in DOMAIN list : q # p => list'[q] = list[q]
          /\ p \in Kept => list'[p].deleted /\ list'[p].owner = list[p].owner
          /\ p \notin Kept /\ p \in DOMAIN list => list'[p] = list[p]
          /\ p \notin DOMAIN list => list'[p] = Entry(p, c, dir[c][p].m, FALSE)
      <3>1. CASE p \in Kept
        <4>1. list' = [list EXCEPT ![p].deleted = TRUE, ![p].m = Forever]
          BY <2>5, <2>6, <3>1 DEF AppendFile
        <4>2. /\ DOMAIN list' = DOMAIN list /\ \A q \in DOMAIN list : q # p => list'[q] = list[q]
              /\ list'[p] = [list[p] EXCEPT !.deleted = TRUE, !.m = Forever]
          BY <2>5, <3>1, <4>1
        <4>3. list'[p].deleted /\ list'[p].owner = list[p].owner
          BY <2>5, <3>1, <4>2 DEF EntryOf
        <4> QED  BY <2>5, <3>1, <4>2, <4>3
      <3>2. CASE p \notin Kept /\ p \in DOMAIN list
        <4>1. list' = list
          BY <2>6, <3>2 DEF AppendFile
        <4> QED  BY <3>2, <4>1
      <3>3. CASE p \notin Kept /\ p \notin DOMAIN list
        <4> DEFINE m == dir[c][p].m
        <4>1. list' = AppendFile(list, p, c, m, Server)
          BY <2>6, <3>3
        <4> HIDE DEF l, m
        <4>0. p \in Paths /\ p \notin DOMAIN list
          BY <1>3, <3>3
        <4>2. /\ p \in DOMAIN AppendFile(list, p, c, m, Server)
              /\ \A q \in DOMAIN list : AppendFile(list, p, c, m, Server)[q] = list[q]
          BY <4>0, AppendKeeps
        <4>3. AppendFile(list, p, c, m, Server)[p] = Entry(p, c, m, FALSE)
          BY <4>0 DEF AppendFile
        <4>5. DOMAIN AppendFile(list, p, c, m, Server) \subseteq DOMAIN list \cup Above[p] \cup {p}
          BY <4>0, AppendAdds
        <4>4. list'[p] = Entry(p, c, dir[c][p].m, FALSE)
          BY <4>1, <4>3 DEF m
        <4> QED  BY <2>4, <3>3, <4>1, <4>2, <4>3, <4>4, <4>5
      <3> QED  BY <3>1, <3>2, <3>3
    <2> HIDE DEF l
    <2>8. p \notin DOMAIN list => /\ ~list'[p].deleted /\ list'[p].owner = c
                                  /\ list'[p].m = dir[c][p].m
      BY <2>7 DEF Entry
    <2>9. Comparing'
      <3>1. \A q \in Kept : /\ q \in DOMAIN list' /\ list'[q].owner \notin R!Joined
                            /\ list'[q].deleted => ~Has(Server, q)
                            /\ q \notin Dirs => list'[q].m = list[q].m
        BY <1>4, <2>1, <2>3, <2>5, <2>7 DEF Comparing
      <3>2. \A q \in DOMAIN list' \ Kept : ~list'[q].deleted
              /\ \E d \in R!Joined : /\ list'[q].owner = d /\ Has(d, q)
                                     /\ q \notin Dirs => list'[q].m = dir[d][q].m
        <4> TAKE q \in DOMAIN list' \ Kept
        <4>1. CASE q \in DOMAIN list
          <5>1. list'[q] = list[q] /\ ~list[q].deleted /\ New(q)
            BY <2>1, <2>7, <4>1 DEF Comparing
          <5> QED  BY <5>1 DEF New
        <4>2. CASE q \notin DOMAIN list
          BY <1>2, <2>3, <2>7, <2>8, <4>2
        <4> QED  BY <4>1, <4>2
      <3> QED  BY <1>1, <1>2, <1>5, <2>1, <3>1, <3>2 DEF Comparing, New, Has
    <2>10. ASSUME NEW d \in R!Joined PROVE Told(d)'
      <3>1. Told(d) /\ d \in Clients /\ at'[d] = at[d] /\ todo'[d] = todo[d]
        BY <1>1, <2>1, JoinedKnown
      <3>2. \A q \in Paths : IF d = c /\ q = p THEN listing'[d][q] = "seen"
                             ELSE listing'[d][q] = listing[d][q]
        BY <1>1, <1>3, <3>1 DEF Mark, Ready, Typed
      <3>3. Names(Server) \subseteq Paths /\ Names(Server) \subseteq DOMAIN list
        BY <2>1 DEF Names, Comparing
      <3>4. at[d] = "gate" => Fresh(d)'
        BY <1>1, <3>1, <3>2 DEF Told, Fresh, Has
      <3>5. CASE at[d] # "gate"
        <4>1. \A q \in Paths : listing'[d][q] = "none" <=> ~Has(d, q)
          BY <2>3, <3>1, <3>2, <3>5 DEF Told
        <4>2. \A q \in Paths : listing'[d][q] = "seen" =>
                q \in DOMAIN list' /\ (q \in Kept \ Names(Server) => list'[q].deleted)
          BY <1>4, <2>7, <3>1, <3>2, <3>5 DEF Told
        <4>3. \A q \in Names(Server) \ todo[d] :
                listing'[d][q] = "seen" /\ (q \notin Dirs => list'[q].m >= dir[Server][q].m)
          BY <2>3, <2>7, <3>1, <3>2, <3>3, <3>5 DEF Told
        <4>4. at[d] = "done" => todo[d] = {} /\ {q \in Paths : listing'[d][q] = "new"} = {}
          BY <3>1, <3>2, <3>5 DEF Told, Unmarked
        <4> QED  BY <1>1, <1>5, <3>1, <3>5, <4>1, <4>2, <4>3, <4>4 DEF Told, Has, Unmarked
      <3> QED  BY <1>1, <3>1, <3>4, <3>5 DEF Told
    <2>11. calm < 3
      <3>1. Level => FALSE
        BY <1>2, <1>3, <2>3 DEF Level, Names
      <3> QED  BY <3>1 DEF Agreeing, Ready, Typed
    <2> QED
      BY <1>1, <1>2, <1>6, <1>7, <1>9, <2>9, <2>10, <2>11 DEF Agreeing, Rested, Ready, Typed
  <1> QED  BY <1>8, <1>9 DEF Ready, Typed

\* An entry that the server gets from the client who has offered it.
LEMMA FetchAgrees ==
  ASSUME Ready, Ready', Agreeing, Fine', NEW c \in Clients, NEW p, Fetch(c, p)
  PROVE  Agreeing'
  <1>1. /\ at[c] = "work" /\ turn = 2 /\ p \in DOMAIN list /\ list[p].owner = c /\ ~broken'
        /\ UNCHANGED <<at, turn, listing, todo, serving, calm>>
    BY DEF Fetch, Works, history, First, Owned, Fine
  <1>2. /\ R!Joined' = R!Joined /\ c \in R!Joined /\ c \in Replicas /\ Server \in Replicas
        /\ Server \notin R!Joined /\ Sent \notin R!Joined /\ R!Joined \subseteq Clients
        /\ Server \notin Clients /\ Sent \notin Clients
    BY <1>1, JoinedKnown, FileSyncAssumption DEF R!Joined, Replicas, Sent
  <1>3. /\ Listed(list) /\ p \in Paths /\ list[p] \in EntryOf(p) /\ Above[p] \subseteq DOMAIN list
        /\ dir \in [Replicas -> Trees]
    BY <1>1 DEF Ready, Typed, Listed, Closed
  <1>4. /\ DOMAIN list' = DOMAIN list /\ \A q \in DOMAIN list : q # p => list'[q] = list[q]
        /\ list'[p].owner \in {Server, Sent} /\ list'[p].m = list[p].m
        /\ list[p].deleted => list'[p].deleted
    BY <1>1, <1>3 DEF Fetch, PassOver, EntryOf
  <1>5. list'[p].path = p
    BY <1>1, <1>4 DEF Fine, Cut
  <1>6. Kept' = Kept
    <2>1. lastSync'[Server] = lastSync[Server]
      BY <1>2 DEF Fetch, Remembered, Ready, Typed
    <2> QED  BY <2>1 DEF Kept
  \* The four ways to fetch it.
  <1>7. \/ list[p].deleted /\ UNCHANGED dir
        \/ ~list[p].deleted /\ p \in Dirs /\ Above[p] = {} /\ CreateDirectory(Server, p)
           /\ list'[p].deleted = list[p].deleted
        \/ /\ ~list[p].deleted /\ p \notin Dirs /\ Has(c, p) /\ Write(Server, p, dir[c][p])
           /\ list'[p].deleted = list[p].deleted
        \/ /\ ~list[p].deleted /\ p \notin Dirs /\ ~Has(c, p)
           /\ Write(Server, p, [m |-> now, v |-> 0])
    <2>1. CASE ~list[p].deleted /\ p \in Dirs
      <3>1. /\ list' = [list EXCEPT ![p].owner = Sent, ![p].path = Top(p)]
            /\ CreateDirectory(Server, p)
        BY <2>1 DEF Fetch
      <3>2. list'[p].path = Top(p) /\ list'[p].deleted = list[p].deleted
        BY <1>1, <1>3, <3>1 DEF EntryOf
      <3> QED  BY <1>3, <1>5, <2>1, <3>1, <3>2, TopKnown
    <2>2. CASE ~list[p].deleted /\ p \notin Dirs /\ Has(c, p)
      <3>1. list' = [list EXCEPT ![p].owner = Sent] /\ Write(Server, p, dir[c][p])
        BY <1>1, <2>2 DEF Fetch
      <3>2. list'[p].deleted = list[p].deleted
        BY <1>1, <1>3, <3>1 DEF EntryOf
      <3> QED  BY <2>2, <3>1, <3>2
    <2> QED  BY <1>1, <2>1, <2>2 DEF Fetch
  <1>8. /\ \A d \in R!Joined : dir'[d] = dir[d]
        /\ \A q \in Paths : q = p \/ dir'[Server][q] = dir[Server][q]
    <2>1. dir[Server] \in [Paths -> File]
      BY <1>2, <1>3 DEF Trees
    <2>2. CASE UNCHANGED dir
      BY <2>2
    <2>3. CASE Above[p] = {} /\ CreateDirectory(Server, p)
      BY <1>2, <1>3, <2>1, <2>3 DEF CreateDirectory
    <2>4. ASSUME NEW f, Write(Server, p, f)
          PROVE  /\ \A d \in R!Joined : dir'[d] = dir[d]
                 /\ \A q \in Paths : q = p \/ dir'[Server][q] = dir[Server][q]
      BY <1>2, <1>3, <2>1, <2>4 DEF Write
    <2> QED  BY <1>7, <2>2, <2>3, <2>4
  <1>9. Owners'
    BY <1>1, <1>2, <1>4 DEF Agreeing, Owners, Owned
  <1>10. Together => Together'
    BY <1>1, <1>2 DEF Together
  <1>11. Gathered => Gathered'
    <2> SUFFICES ASSUME Gathered PROVE Names(Server)' \subseteq DOMAIN list
      BY <1>1, <1>4 DEF Gathered
    <2>1. Names(Server) \subseteq DOMAIN list
      BY <1>1 DEF Gathered
    <2> QED  BY <1>1, <1>3, <1>8, <2>1 DEF Names, Has
  <1>12. calm >= 2 => Decided'
    <2> SUFFICES ASSUME Decided PROVE Decided'
      BY <1>1 DEF Agreeing, Rested
    <2>1. \A d \in R!Joined : Names(d)' \subseteq DOMAIN list'
      BY <1>4, <1>8 DEF Decided, Names, Has
    <2>2. ~list[p].deleted => Has(c, p) /\ (p \notin Dirs => list[p].m = dir[c][p].m)
      BY <1>1, <1>2 DEF Decided, New
    <2>3. IF list'[p].deleted THEN p \in Dirs /\ ~Has(Server, p)'
          ELSE /\ Has(Server, p)' /\ list'[p].owner \notin R!Joined
               /\ p \notin Dirs => list'[p].m >= dir'[Server][p].m
      <3>1. CASE list[p].deleted
        BY <1>1, <1>4, <1>7, <3>1 DEF Decided, Has
      <3>2. CASE ~list[p].deleted /\ p \in Dirs
        <4>1. dir'[Server][p].m # 0
          BY <1>2, <1>3, <1>7, <3>2 DEF CreateDirectory, Has, Directory
        <4> QED  BY <1>2, <1>4, <1>7, <3>2, <4>1 DEF Has
      <3>3. CASE ~list[p].deleted /\ p \notin Dirs
        <4>1. Has(c, p) /\ list[p].m = dir[c][p].m /\ Write(Server, p, dir[c][p])
              /\ ~list'[p].deleted
          BY <1>7, <2>2, <3>3
        <4>2. dir'[Server][p] = dir[c][p]
          BY <1>2, <1>3, <4>1 DEF Write, Trees
        <4>3. dir[c][p].m \in Nat
          BY <1>2, <1>3, TimesKnown DEF Ready
        <4> QED  BY <1>2, <1>4, <4>1, <4>2, <4>3 DEF Has
      <3> QED  BY <3>1, <3>2, <3>3
    <2>4. \A q \in DOMAIN list \ {p} : dir'[Server][q] = dir[Server][q]
      BY <1>3, <1>8 DEF Listed
    <2>5. \A q \in DOMAIN list \ {p} :
            IF list'[q].deleted THEN q \in Dirs /\ ~Has(Server, q)'
            ELSE \/ New(q)'
                 \/ /\ Has(Server, q)' /\ list'[q].owner \notin R!Joined
                    /\ q \notin Dirs => list'[q].m >= dir'[Server][q].m
      BY <1>2, <1>4, <1>8, <2>4 DEF Decided, New, Has
    <2> QED  BY <1>1, <1>2, <1>4, <2>1, <2>3, <2>5 DEF Decided
  <1>13. calm < 3
    <2>1. Level => FALSE
      BY <1>1, <1>2 DEF Level
    <2> QED  BY <2>1 DEF Agreeing, Ready, Typed
  <1> QED  BY <1>1, <1>9, <1>10, <1>11, <1>12, <1>13 DEF Agreeing, Rested, Ready, Typed

\* An entry that is sent to a client.
LEMMA ServeAgrees ==
  ASSUME Ready, Ready', Agreeing, Fine, Fine', NEW c \in Clients, NEW p, Serve(c, p)
  PROVE  Agreeing'
  <1>1. /\ at[c] = "work" /\ turn = 3 /\ serving = c /\ Visits(c, p) /\ ~broken'
        /\ UNCHANGED <<at, turn, list, listing, serving, calm>>
    BY DEF Serve, Works, history, Fine
  <1>2. /\ R!Joined' = R!Joined /\ c \in R!Joined /\ c \in Replicas /\ Server \in Replicas
        /\ Server # c /\ R!Joined \subseteq Clients
        /\ Server \notin Clients
    BY <1>1, JoinedKnown, FileSyncAssumption DEF R!Joined, Replicas
  <1>3. /\ p \in Paths /\ p \in todo[c] /\ todo'[c] = todo[c] \ {p} /\ Above[p] \cap todo[c] = {}
        /\ todo[c] \subseteq DOMAIN list /\ p \in DOMAIN list
    <2>1. serving # NoClient
      BY <1>1, FileSyncAssumption DEF Replicas
    <2> QED  BY <1>1, <2>1, VisitsTyped DEF Ready, Typed, Serves, Visits, First
  <1>4. /\ Listed(list) /\ list[p] \in EntryOf(p) /\ Above[p] \subseteq DOMAIN list
        /\ dir \in [Replicas -> Trees] /\ list[p].path = p
        /\ \A r \in Replicas : dir[r] \in [Paths -> File]
    BY <1>3, FileKnown DEF Ready, Typed, Listed, Closed, Fine, Cut, Trees
  <1>5. Kept' = Kept
    <2>1. lastSync'[Server] = lastSync[Server]
      BY <1>2 DEF Serve, ServeDirectory, ServeFile, Remembered, Ready, Typed
    <2> QED  BY <2>1 DEF Kept
  \* The ways to send it.
  <1>6. \/ p \in Dirs /\ list[p].deleted /\ RemoveDirectory(c, p)
        \/ p \in Dirs /\ ~list[p].deleted /\ CreateDirectory(c, p)
        \/ p \notin Dirs /\ list[p].deleted /\ Write(c, p, Absent)
        \/ /\ p \notin Dirs /\ ~list[p].deleted /\ Has(Server, p)
           /\ Write(c, p, [m |-> list[p].m, v |-> dir[Server][p].v])
    <2>1. IF p \in Dirs THEN ServeDirectory(c, list[p]) ELSE ServeFile(c, p, list[p])
      BY DEF Serve
    <2>2. CASE p \in Dirs
      BY <1>4, <2>1, <2>2 DEF ServeDirectory
    <2>3. CASE p \notin Dirs
      BY <1>1, <2>1, <2>3 DEF ServeFile
    <2> QED  BY <2>2, <2>3
  <1>7. /\ \A r \in Replicas \ {c} : dir'[r] = dir[r]
        /\ \A q \in Paths : dir'[c][q] \in {dir[c][q], Absent} \/ q \in Above[p] \cup {p}
    <2>1. CASE RemoveDirectory(c, p)
      BY <1>2, <1>4, <2>1 DEF RemoveDirectory, Without
    <2>2. CASE CreateDirectory(c, p)
      BY <1>2, <1>4, <2>2 DEF CreateDirectory
    <2>3. ASSUME NEW f, Write(c, p, f)
          PROVE  /\ \A r \in Replicas \ {c} : dir'[r] = dir[r]
                 /\ \A q \in Paths : dir'[c][q] \in {dir[c][q], Absent} \/ q \in Above[p] \cup {p}
      BY <1>2, <1>4, <2>3 DEF Write
    <2> QED  BY <1>6, <2>1, <2>2, <2>3
  \* What the client has got.
  <1>8. /\ Served(c)' = Served(c) \cup {p} /\ p \notin Served(c)
        /\ \A d \in R!Joined \ {c} : Served(d)' = Served(d)
    BY <1>1, <1>2, <1>3 DEF Served
  <1>9. Names(Server)' = Names(Server)
    BY <1>2, <1>7 DEF Names, Has
  <1>10. Owners'
    BY <1>1, <1>2 DEF Agreeing, Owners, Owned
  <1>11. Together => Together'
    BY <1>1, <1>2 DEF Together
  <1>12. Served(c) \subseteq DOMAIN list /\ DOMAIN list \subseteq Paths
    BY <1>1, <1>4 DEF Served, Listed
  \* What it has is left alone.
  <1>13. ASSUME Closed(Served(c)), NEW q \in Served(c), Has(c, q) \/ p \notin Dirs
         PROVE  dir'[c][q] = dir[c][q]
    <2>1. q # p /\ p \notin Above[q] /\ q \in Paths
      BY <1>8, <1>12, <1>13 DEF Closed
    <2>2. CASE RemoveDirectory(c, p)
      <3>1. q \notin Below(p)
        BY <2>1 DEF Below
      <3> QED  BY <1>2, <1>4, <2>1, <2>2, <3>1 DEF RemoveDirectory, Without
    <2>3. CASE CreateDirectory(c, p) /\ p \in Dirs
      BY <1>2, <1>4, <1>13, <2>1, <2>3 DEF CreateDirectory
    <2>4. ASSUME NEW f, Write(c, p, f) PROVE dir'[c][q] = dir[c][q]
      BY <1>2, <1>4, <2>1, <2>4 DEF Write
    <2> QED  BY <1>6, <2>2, <2>3, <2>4
  <1>14. ~list[p].deleted => Got(c, p)'
    <2>1. CASE p \in Dirs /\ CreateDirectory(c, p)
      <3>1. dir'[c][p].m # 0
        BY <1>2, <1>3, <1>4, <2>1 DEF CreateDirectory, Has, Directory
      <3> QED  BY <2>1, <3>1 DEF Got, Has
    <2>2. CASE p \notin Dirs /\ Has(Server, p) /\ Write(c, p, [m |-> list[p].m, v |-> dir[Server][p].v])
      <3>1. list[p].m # 0
        BY <1>3, <2>2 DEF Ready, Shaped, ListShaped, EntryLike
      <3>2. dir'[c][p] = [m |-> list[p].m, v |-> dir[Server][p].v]
        BY <1>2, <1>3, <1>4, <2>2 DEF Write
      <3> QED  BY <1>1, <1>2, <1>7, <2>2, <3>1, <3>2 DEF Got, Has
    <2> QED  BY <1>6, <2>1, <2>2
  <1>15. Gathered => Gathered'
    <2> SUFFICES ASSUME Gathered PROVE Names(Server)' \subseteq DOMAIN list' /\ \A d \in R!Joined : Delivered(d)'
      BY <1>1, <1>2 DEF Gathered
    <2>1. Names(Server)' \subseteq DOMAIN list'
      BY <1>1, <1>9 DEF Gathered
    <2>2. \A d \in R!Joined : Delivered(d)
      BY <1>1 DEF Gathered
    <2>3. ASSUME NEW d \in R!Joined, d # c PROVE Delivered(d)'
      <3>1. dir'[d] = dir[d] /\ dir'[Server] = dir[Server]
        BY <1>2, <1>7, <2>3 DEF Replicas
      <3> QED  BY <1>1, <1>8, <2>2, <2>3, <3>1 DEF Delivered, Closed, Fresh, Has, Got
    <2>4. Delivered(c)'
      <3>1. Closed(Served(c)) /\ \A q \in Served(c) : ~list[q].deleted => Got(c, q)
        BY <1>2, <2>2 DEF Delivered
      <3>2. Closed(Served(c)')
        <4>1. Above[p] \subseteq Served(c)
          BY <1>1, <1>3, <1>4 DEF Served
        <4> QED  BY <1>8, <3>1, <4>1 DEF Closed
      <3>3. \A q \in Served(c) : ~list[q].deleted => Got(c, q)'
        <4> SUFFICES ASSUME NEW q \in Served(c), Got(c, q) PROVE Got(c, q)'
          BY <3>1
        <4>1. dir'[c][q] = dir[c][q] /\ dir'[Server] = dir[Server]
          BY <1>2, <1>7, <1>13, <3>1 DEF Got
        <4> QED  BY <1>1, <4>1 DEF Got, Has
      <3> QED  BY <1>1, <1>8, <1>14, <3>2, <3>3 DEF Delivered, Closed
    <2> QED  BY <2>1, <2>3, <2>4
  \* From the second round on.
  <1>16. ASSUME calm >= 2
         PROVE  Decided' /\ \A d \in R!Joined : \A q \in Served(d)' : list[q].deleted => ~Has(d, q)'
    <2>1. Decided /\ \A d \in R!Joined : \A q \in Served(d) : list[q].deleted => ~Has(d, q)
      BY <1>1, <1>16 DEF Agreeing, Rested
    <2>2. Gathered
      BY <1>16 DEF Agreeing, Ready, Typed
    <2>3. \A q \in DOMAIN list :
            IF list[q].deleted THEN q \in Dirs /\ ~Has(Server, q)
            ELSE /\ Has(Server, q) /\ list[q].owner \notin R!Joined
                 /\ q \notin Dirs => list[q].m >= dir[Server][q].m
      <3>1. \A d \in R!Joined : Owned(d) = {}
        BY <1>1 DEF Agreeing, Owners
      <3>2. \A q \in DOMAIN list : ~New(q)
        BY <3>1 DEF New, Owned
      <3> QED  BY <2>1, <3>2 DEF Decided
    <2>4. \A d \in R!Joined : Names(d)' \subseteq DOMAIN list
      <3> SUFFICES ASSUME NEW d \in R!Joined, NEW q \in Paths, Has(d, q)' PROVE q \in DOMAIN list
        BY DEF Names
      <3>1. Names(d) \subseteq DOMAIN list
        BY <2>1 DEF Decided
      <3>2. CASE d # c
        BY <1>2, <1>7, <3>1, <3>2 DEF Names, Has, Replicas
      <3>3. CASE d = c
        <4>1. Has(c, q) \/ q \in Above[p] \cup {p}
          BY <1>7, <3>3 DEF Has, Absent
        <4> QED  BY <1>3, <1>4, <3>1, <3>3, <4>1 DEF Names
      <3> QED  BY <3>2, <3>3
    <2>5. Decided'
      BY <1>1, <1>2, <1>7, <2>3, <2>4 DEF Decided, Has
    <2>6. \A d \in R!Joined \ {c} : \A q \in Served(d)' : list[q].deleted => ~Has(d, q)'
      BY <1>2, <1>7, <1>8, <2>1 DEF Has, Replicas
    <2>7. list[p].deleted => ~Has(c, p)'
      <3>1. list[p].deleted => dir'[c][p] = Absent
        <4>1. CASE RemoveDirectory(c, p)
          <5>1. p \in Below(p)
            BY <1>3 DEF Below
          <5> QED  BY <1>2, <1>3, <1>4, <4>1, <5>1 DEF RemoveDirectory, Without
        <4>2. CASE Write(c, p, Absent)
          BY <1>2, <1>3, <1>4, <4>2 DEF Write
        <4> QED  BY <1>6, <4>1, <4>2
      <3> QED  BY <3>1 DEF Has, Absent
    <2>8. ASSUME NEW q \in Served(c), list[q].deleted PROVE ~Has(c, q)'
      <3>1. ~Has(c, q) /\ q \in Paths /\ ~Has(Server, q) /\ q \in Dirs
        BY <1>2, <1>12, <2>1, <2>3, <2>8
      <3>2. q \in Above[p] => list[p].deleted
        <4>1. ~list[p].deleted => Has(Server, p)
          BY <1>3, <2>3
        <4>2. Has(Server, p) /\ q \in Above[p] => Has(Server, q)
          <5>1. Closed(Held(dir[Server]))
            BY <1>2, <1>4 DEF Trees
          <5> QED  BY <1>3, <5>1 DEF Closed, Held, Has
        <4> QED  BY <3>1, <4>1, <4>2
      <3>3. CASE list[p].deleted
        <4>1. dir'[c][q] \in {dir[c][q], Absent}
          <5>1. CASE RemoveDirectory(c, p)
            BY <1>2, <1>4, <3>1, <5>1 DEF RemoveDirectory, Without
          <5>2. CASE Write(c, p, Absent)
            BY <1>2, <1>4, <3>1, <5>2 DEF Write
          <5> QED  BY <1>6, <3>3, <5>1, <5>2
        <4> QED  BY <3>1, <4>1 DEF Has, Absent
      <3>4. CASE ~list[p].deleted
        <4>1. q \notin Above[p] \cup {p}
          BY <1>8, <3>2, <3>4
        <4>2. dir'[c][q] \in {dir[c][q], Absent}
          BY <1>7, <3>1, <4>1
        <4> QED  BY <3>1, <4>2 DEF Has, Absent
      <3> QED  BY <3>3, <3>4
    <2> QED  BY <1>8, <2>5, <2>6, <2>7, <2>8
  <1>17. ASSUME calm >= 3 PROVE Level'
    <2>1. Level
      BY <1>17 DEF Agreeing
    <2>2. p \in Kept /\ ~list[p].deleted /\ p \in Names(c) /\ (p \notin Dirs => Got(c, p))
      BY <1>2, <1>3, <2>1 DEF Level
    <2>3. dir' = dir
      <3>1. \A q \in Paths : dir'[c][q] = dir[c][q]
        <4>1. CASE p \in Dirs /\ CreateDirectory(c, p)
          <5>1. Above[p] \cup {p} \subseteq Names(c)
            BY <1>2, <1>4, <2>2 DEF Trees, Closed, Held, Names, Has
          <5> QED  BY <1>2, <1>4, <4>1, <5>1 DEF CreateDirectory, Names
        <4>2. CASE p \notin Dirs /\ Write(c, p, [m |-> list[p].m, v |-> dir[Server][p].v])
          BY <1>2, <1>4, <2>2, <4>2 DEF Write, Got
        <4> QED  BY <1>6, <2>2, <4>1, <4>2
      <3>2. dir' \in [Replicas -> Trees] /\ dir'[c] \in [Paths -> File] /\ dir[c] \in [Paths -> File]
        BY <1>2, <1>4 DEF Ready, Typed, Trees
      <3>3. dir'[c] = dir[c]
        BY <3>1, <3>2
      <3> QED  BY <1>4, <1>7, <3>2, <3>3
    <2> QED  BY <1>1, <1>2, <1>5, <2>1, <2>3 DEF Level, Got, Has, Names
  <1> QED  BY <1>1, <1>2, <1>10, <1>11, <1>15, <1>16, <1>17 DEF Agreeing, Rested, Ready, Typed

\* What the clean-up leaves: the entries that are not below a deleted one, and
\* what the server has of the rest.
LEMMA CleanedUp ==
  ASSUME Ready, Fine, CleanLists
  PROVE  /\ DOMAIN list' = DOMAIN list \ Gone /\ Kept' = DOMAIN list'
         /\ \A p \in DOMAIN list' : list'[p] = list[p] /\ ~list[p].deleted
         /\ \A c \in Clients : dir'[c] = dir[c]
         /\ \A p \in Paths \ Gone : dir'[Server][p] = dir[Server][p]
         /\ \A p \in Paths \cap Gone : dir'[Server][p].m = 0
  <1>1. /\ dir' = [dir EXCEPT ![Server] = Without(@, Gone)]
        /\ list' = [p \in DOMAIN list \ Gone |-> list[p]]
        /\ lastSync' = [lastSync EXCEPT ![Server] =
              UNION {Above[list'[p].path] \cup {list'[p].path} : p \in DOMAIN list'}]
    BY DEF CleanLists
  <1>2. /\ Server \in Replicas /\ Server \notin Clients
        /\ dir \in [Replicas -> Trees] /\ lastSync \in [Replicas -> Branches]
        /\ DOMAIN list \subseteq Paths /\ Closed(DOMAIN list)
    BY FileSyncAssumption DEF Replicas, Ready, Typed, Listed
  <1>3. DOMAIN list' = DOMAIN list \ Gone /\ \A p \in DOMAIN list' : list'[p] = list[p]
    BY <1>1
  <1>4. \A p \in DOMAIN list' : ~list[p].deleted /\ list[p].path = p
    BY <1>3, DeletedGone DEF Ready, Fine, Cut
  <1>5. \A p \in DOMAIN list' : Above[p] \subseteq DOMAIN list'
    <2> SUFFICES ASSUME NEW p \in DOMAIN list', NEW a \in Above[p] PROVE a \in DOMAIN list'
      OBVIOUS
    <2>1. p \in Paths /\ a \in DOMAIN list /\ p \notin Gone
      BY <1>2, <1>3 DEF Closed
    <2>2. a \notin Gone
      <3> SUFFICES ASSUME a \in Gone PROVE FALSE
        OBVIOUS
      <3>1. PICK b \in Doomed : a \in Below(list[b].path)
        BY DEF Gone
      <3>2. b \in DOMAIN list /\ list[b].path = b
        BY <3>1 DEF Doomed, First, Fine, Cut
      <3>3. p \in Below(b)
        BY <1>2, <2>1, <3>1, <3>2, BelowKnown
      <3> QED  BY <2>1, <3>1, <3>2, <3>3 DEF Gone
    <2> QED  BY <1>3, <2>1, <2>2
  <1>6. Kept' = DOMAIN list'
    <2>1. Kept' = UNION {Above[list'[p].path] \cup {list'[p].path} : p \in DOMAIN list'}
      BY <1>1, <1>2 DEF Kept
    <2>2. \A p \in DOMAIN list' : list'[p].path = p
      BY <1>3, <1>4
    <2>3. \A x : x \in Kept' <=> \E p \in DOMAIN list' : x \in Above[p] \cup {p}
      BY <2>1, <2>2
    <2> QED  BY <1>5, <2>3
  <1>7. /\ \A c \in Clients : dir'[c] = dir[c]
        /\ \A p \in Paths : dir'[Server][p] = IF p \in Gone THEN Absent ELSE dir[Server][p]
    BY <1>1, <1>2 DEF Without, Replicas
  <1> QED  BY <1>3, <1>4, <1>6, <1>7 DEF Absent

\* A round ends: what is in the list is what everybody has.
LEMMA CleanListsAgrees ==
  ASSUME Ready, Ready', Agreeing, Fine, EndPhase, turn = 3
  PROVE  Agreeing'
  <1>1. /\ R!Joined # {} /\ \A c \in R!Joined : at[c] = "done"
        /\ at' = [c \in Clients |-> IF c \notin R!Joined THEN at[c] ELSE "gate"] /\ turn' = 1
        /\ CleanLists /\ calm' = IF calm >= 3 THEN calm ELSE calm + 1
        /\ UNCHANGED <<listing, todo>>
    BY DEF EndPhase, R!Turn, Settled
  <1>2. /\ R!Joined \subseteq Clients /\ R!Joined \subseteq Replicas /\ Server \notin Clients
        /\ Server \in Replicas
    BY JoinedKnown, FileSyncAssumption DEF Replicas
  <1>3. R!Joined' = R!Joined /\ \A c \in R!Joined : at'[c] = "gate"
    BY <1>1, <1>2 DEF R!Joined
  <1>4. Owners'
    BY <1>1 DEF Owners
  <1>5. Together'
    <2>1. \A c \in Clients : at[c] # "alone"
      BY DEF Ready, Apart
    <2> QED  BY <1>1, <1>3, <2>1 DEF Together
  <1>6. Gathered'
    BY <1>1, <1>3 DEF Gathered
  <1>7. /\ DOMAIN list' = DOMAIN list \ Gone /\ Kept' = DOMAIN list'
        /\ \A p \in DOMAIN list' : list'[p] = list[p] /\ ~list[p].deleted
        /\ \A c \in Clients : dir'[c] = dir[c]
        /\ \A p \in Paths \ Gone : dir'[Server][p] = dir[Server][p]
        /\ \A p \in Paths \cap Gone : dir'[Server][p].m = 0
    BY <1>1, CleanedUp
  <1>8. /\ DOMAIN list \subseteq Paths /\ DOMAIN list' \subseteq Paths
        /\ \A p \in DOMAIN list : list[p].m \in Nat
        /\ \A c \in R!Joined : Served(c) = DOMAIN list
        /\ \A p \in DOMAIN list : list[p].owner \notin R!Joined
    <2>1. \A c \in R!Joined : Owned(c) = {}
      BY DEF Agreeing, Owners
    <2> QED  BY <1>1, <1>7, <2>1 DEF Ready, Typed, Listed, EntryOf, Served, Owned
  \* From the first round on.
  <1>9. ASSUME calm >= 1 PROVE Comparing' /\ \A c \in R!Joined : Told(c)'
    <2>1. Names(Server) \subseteq DOMAIN list /\ \A c \in R!Joined : Delivered(c)
      BY <1>9 DEF Agreeing, Gathered
    <2>2. \A c \in R!Joined : \A p \in DOMAIN list' : Got(c, p)
      BY <1>7, <1>8, <2>1 DEF Delivered
    <2>3. Names(Server)' = Names(Server) \ Gone
      BY <1>7 DEF Names, Has
    <2>4. \A p \in DOMAIN list' \ Dirs : p \in Names(Server)'
      BY <1>1, <1>7, <1>8, <2>2, <2>3 DEF Got, Names
    <2>5. \A c \in R!Joined : \A p \in DOMAIN list' :
            /\ Has(c, p)'
            /\ p \notin Dirs => dir'[c][p].v = dir'[Server][p].v /\ list'[p].m >= dir'[c][p].m
      <3> TAKE c \in R!Joined
      <3> TAKE p \in DOMAIN list'
      <3>1. /\ Got(c, p) /\ dir'[c] = dir[c] /\ list'[p] = list[p] /\ list[p].m \in Nat
            /\ dir'[Server][p] = dir[Server][p]
        BY <1>2, <1>7, <1>8, <2>2
      <3> QED  BY <3>1 DEF Got, Has
    <2>6. Comparing'
      BY <1>3, <1>7, <1>8, <2>1, <2>3, <2>4, <2>5 DEF Comparing
    <2>7. ASSUME NEW c \in R!Joined PROVE Told(c)'
      <3>1. Fresh(c)
        BY <1>1, <2>1 DEF Delivered
      <3> QED  BY <1>1, <1>2, <1>3, <1>7, <3>1 DEF Told, Fresh, Has
    <2> QED  BY <2>6, <2>7
  \* From the second round on.
  <1>10. ASSUME calm >= 2 PROVE Level'
    <2>1. /\ Decided
          /\ \A c \in R!Joined : \A p \in Served(c) : list[p].deleted => ~Has(c, p)
      BY <1>10 DEF Agreeing, Rested
    <2>2. Comparing' /\ calm >= 1
      BY <1>9, <1>10 DEF Ready, Typed
    <2>3. Gathered
      BY <2>2 DEF Agreeing
    <2>4. \A c \in R!Joined : \A p \in DOMAIN list' : Got(c, p)
      BY <1>7, <1>8, <2>3 DEF Gathered, Delivered
    <2>5. \A p \in DOMAIN list' : /\ Has(Server, p)'
                                  /\ p \notin Dirs => list'[p].m >= dir'[Server][p].m
      <3> TAKE p \in DOMAIN list'
      <3>1. p \in DOMAIN list /\ ~list[p].deleted /\ list'[p] = list[p]
            /\ dir'[Server][p] = dir[Server][p] /\ ~New(p)
        BY <1>7, <1>8 DEF New
      <3> QED  BY <2>1, <3>1 DEF Decided, Has
    <2>6. Names(Server)' = Kept'
      BY <1>7, <1>8, <2>2, <2>5 DEF Comparing, Names
    <2>7. ASSUME NEW c \in R!Joined PROVE Names(c)' = Kept'
      <3>1. Names(c)' = Names(c)
        BY <1>2, <1>7 DEF Names, Has
      <3>2. Kept' \subseteq Names(c)
        BY <1>7, <1>8, <2>4 DEF Got, Names
      <3>3. ASSUME NEW q \in Names(c), q \in Gone PROVE FALSE
        <4>1. PICK p \in DOMAIN list : list[p].deleted /\ q \in Below(p)
          BY <3>3, GoneKnown
        <4>2. ~Has(c, p) /\ p \in Paths
          BY <1>8, <2>1, <4>1
        <4>3. Closed(Held(dir[c]))
          BY <1>2 DEF Ready, Typed, Trees
        <4> QED  BY <3>3, <4>1, <4>2, <4>3 DEF Names, Held, Closed, Below, Has
      <3>4. Names(c) \subseteq DOMAIN list
        BY <2>1 DEF Decided
      <3> QED  BY <1>7, <3>1, <3>2, <3>3, <3>4
    <2>8. \A c \in R!Joined : \A p \in Kept' \ Dirs : Got(c, p)'
      <3> TAKE c \in R!Joined
      <3> TAKE p \in Kept' \ Dirs
      <3>1. /\ Got(c, p) /\ dir'[c] = dir[c] /\ list'[p] = list[p] /\ p \in Paths
            /\ dir'[Server][p] = dir[Server][p]
        BY <1>2, <1>7, <1>8, <2>4
      <3> QED  BY <3>1 DEF Got, Has
    <2> QED  BY <1>3, <1>7, <1>8, <2>5, <2>6, <2>7, <2>8 DEF Level
  <1>11. (calm' >= 2 => calm >= 1) /\ (calm' >= 3 => calm >= 2)
    BY <1>1 DEF Ready, Typed
  <1> QED  BY <1>1, <1>3, <1>4, <1>5, <1>6, <1>9, <1>10, <1>11 DEF Agreeing, Rested

\* A phase ends and the next begins.
LEMMA EndPhaseAgrees ==
  ASSUME Ready, Ready', Agreeing, Fine, EndPhase, turn # 3
  PROVE  Agreeing'
  <1>1. /\ R!Joined # {} /\ \A c \in R!Joined : at[c] = "done"
        /\ at' = [c \in Clients |-> IF c \notin R!Joined THEN at[c] ELSE "work"] /\ turn' = turn + 1
        /\ turn \in {1, 2}
        /\ UNCHANGED <<dir, list, lastSync, calm, listing, todo, serving>>
    BY DEF EndPhase, R!Turn, Ready, Typed, R!RoundsTypeOK
  <1>2. R!Joined \subseteq Clients
    BY JoinedKnown
  <1>3. R!Joined' = R!Joined /\ \A c \in R!Joined : at'[c] = "work"
    BY <1>1, <1>2 DEF R!Joined
  <1>4. \A c \in Clients : at'[c] \notin {"done", "alone"} \/ (at'[c] = at[c] /\ c \notin R!Joined)
    BY <1>1
  <1>5. Together => Together'
    BY <1>3, <1>4 DEF Together
  <1>6. PICK e \in R!Joined : at[e] = "done"
    BY <1>1
  <1>7. Gathered => Names(Server) \subseteq DOMAIN list
    BY <1>1, <1>6 DEF Gathered
  <1>8. Names(Server)' = Names(Server) /\ Kept' = Kept
    BY <1>1 DEF Names, Has, Kept
  <1>9. Level => Level'
    BY <1>1, <1>3, <1>8 DEF Level, Got, Has, Names
  <1>10. CASE turn = 1
    <2>1. Owners'
      <3>1. \A c \in Clients : at'[c] # "done"
        BY <1>3, <1>4 DEF R!Joined
      <3> QED  BY <1>1, <1>10, <3>1 DEF Owners
    <2>2. Gathered => Gathered'
      BY <1>1, <1>7, <1>8, <1>10 DEF Gathered
    <2>3. ASSUME Rested PROVE Decided'
      <3>1. Comparing /\ \A c \in R!Joined : Told(c)
        BY <1>10, <2>3 DEF Rested
      <3>2. ASSUME NEW c \in R!Joined
            PROVE  /\ \A q \in Paths : Has(c, q) => /\ q \in DOMAIN list
                                                    /\ q \in Kept \ Names(Server) => list[q].deleted
                   /\ \A q \in Names(Server) \ Dirs : list[q].m >= dir[Server][q].m
        <4>1. Told(c) /\ at[c] = "done" /\ listing[c] \in [Paths -> Marks]
          BY <1>1, <1>2, <3>1 DEF Ready, Typed
        <4>2. \A q \in Paths : Has(c, q) => listing[c][q] = "seen"
          BY <4>1 DEF Told, Unmarked, Marks
        <4> QED  BY <4>1, <4>2 DEF Told
      <3>3. \A c \in R!Joined : Names(c) \subseteq DOMAIN list
        BY <3>2 DEF Names
      <3>4. ASSUME NEW q \in DOMAIN list
            PROVE  IF list[q].deleted THEN q \in Dirs /\ ~Has(Server, q)
                   ELSE \/ New(q)
                        \/ /\ Has(Server, q) /\ list[q].owner \notin R!Joined
                           /\ q \notin Dirs => list[q].m >= dir[Server][q].m
        <4>0. q \in Paths
          BY DEF Ready, Typed, Listed
        <4>1. CASE q \notin Kept
          BY <3>1, <4>1 DEF Comparing
        <4>2. CASE q \in Kept /\ q \in Names(Server)
          BY <1>6, <3>1, <3>2, <4>0, <4>2 DEF Comparing, Names
        <4>3. CASE q \in Kept /\ q \notin Names(Server)
          <5>1. Has(e, q) /\ q \in Dirs /\ ~Has(Server, q)
            BY <1>6, <3>1, <4>0, <4>3 DEF Comparing, Names
          <5> QED  BY <1>6, <3>2, <4>0, <4>3, <5>1
        <4> QED  BY <4>1, <4>2, <4>3
      <3> QED  BY <1>1, <1>3, <3>3, <3>4 DEF Decided, New, Has, Names
    <2> QED  BY <1>1, <1>5, <1>9, <1>10, <2>1, <2>2, <2>3 DEF Agreeing, Rested
  <1>11. CASE turn = 2
    <2>1. \A c \in R!Joined : Owned(c) = {}
      BY <1>1, <1>2, <1>11 DEF Agreeing, Owners
    <2>2. Owners'
      BY <1>1, <1>3, <1>11, <2>1 DEF Owners, Owned
    <2>3. ASSUME NEW c \in R!Joined PROVE Served(c)' = {}
      <3>1. serving = NoClient /\ NoClient \notin Clients
        BY <1>11, FileSyncAssumption DEF Ready, Serves, Works, Replicas
      <3> QED  BY <1>1, <1>2, <1>3, <3>1 DEF Served
    <2>4. Gathered => Gathered'
      <3>1. \A c \in R!Joined : Delivered(c)'
        BY <1>3, <2>3 DEF Delivered, Closed
      <3> QED  BY <1>1, <1>3, <1>7, <1>8, <1>11, <3>1 DEF Gathered
    <2>5. ASSUME Rested PROVE Decided'
      BY <1>1, <1>3, <1>11, <2>5 DEF Rested, Decided, New, Has, Names
    <2> QED  BY <1>1, <1>3, <1>5, <1>9, <1>11, <2>2, <2>3, <2>4, <2>5 DEF Agreeing, Rested
  <1> QED  BY <1>1, <1>10, <1>11

\* Whatever the step, and as long as all is well.
LEMMA AgreeingKept ==
  ASSUME Ready, Fine => Agreeing, [Next]_vars
  PROVE  (Ready /\ (Fine => Agreeing))'
  <1>1. Ready'
    BY InvariantKept, ShapedKept DEF Ready
  <1> SUFFICES ASSUME Fine' PROVE Agreeing'
    BY <1>1
  <1>2. Fine /\ Agreeing
    BY FineBefore DEF Ready
  <1>3. CASE UNCHANGED vars
    BY <1>2, <1>3 DEF vars, lists, history, Agreeing, Owners, Owned, Together, R!Joined, Gathered, Names,
                      Has, Delivered, Served, Closed, Fresh, Got, Rested, Comparing, Kept, New, Told,
                      Unmarked, Decided, Level
  <1>4. CASE EndPhase
    BY <1>1, <1>2, <1>4, CleanListsAgrees, EndPhaseAgrees
  \* A change or a connection: the count of rounds begins again.
  <1>5. ASSUME calm' = 0, Owners' PROVE Agreeing'
    BY <1>5 DEF Agreeing
  <1>6. CASE User
    <2>1. calm' = 0 /\ UNCHANGED <<at, turn, list>>
      BY <1>6 DEF User, Create, Modify, Delete, Acts
    <2>2. Owners'
      BY <1>2, <2>1 DEF Agreeing, Owners, Owned, R!Joined
    <2> QED  BY <1>5, <2>1, <2>2
  <1>7. ASSUME NEW c \in Clients, Connect(c) PROVE Agreeing'
    <2>1. calm' = 0 /\ at'[c] = "alone"
      BY <1>7 DEF Connect, R!BeginAlone, R!Move, Ready, Typed, R!RoundsTypeOK
    <2>2. turn' = 1
      BY <1>1, <2>1 DEF Ready, Apart
    <2> QED  BY <1>5, <2>1, <2>2 DEF Owners
  <1>8. ASSUME NEW c \in Clients, NEW p, Exchange(c, p) \/ Upload(c, p) \/ EndConnection(c)
        PROVE  Agreeing'
    <2>1. at[c] = "alone" /\ UNCHANGED <<turn, calm>>
      BY <1>8 DEF Exchange, Upload, EndConnection, R!EndAlone, R!Move, history
    <2>2. turn = 1
      BY <2>1 DEF Ready, Apart
    <2>3. calm = 0
      BY <1>2, <2>1 DEF Agreeing, Together, Ready, Typed
    <2> QED  BY <1>5, <2>1, <2>2, <2>3 DEF Owners
  <1>9. ASSUME NEW c \in Clients, Thread(c) PROVE Agreeing'
    <2>1. ASSUME NEW p, Exchange(c, p) \/ Upload(c, p) \/ Compare(c, p) \/ Offer(c, p)
                        \/ Serve(c, p) \/ Fetch(c, p)
          PROVE  Agreeing'
      BY <1>1, <1>2, <1>8, <2>1, CompareAgrees, OfferAgrees, ServeAgrees, FetchAgrees
    <2>2. CASE EndConnection(c) \/ StartRound(c) \/ EndCompare(c) \/ EndFetch(c) \/ BeginServe(c)
               \/ EndServe(c)
      BY <1>2, <1>8, <2>2, StartRoundAgrees, EndCompareAgrees, EndFetchAgrees, BeginServeAgrees,
         EndServeAgrees
    <2> QED  BY <1>9, <2>1, <2>2 DEF Thread
  <1> QED  BY <1>3, <1>4, <1>6, <1>7, <1>9 DEF Next, System

\* When two whole rounds have passed since the last change and the last
\* connection, every client that takes part has the same files as the server,
\* with the same contents and times, for any number of clients, any finite tree
\* of names and whatever the users did before: what is said of the conflict
\* rules in listUpdated, of the deletions and of the order of the phases is
\* enough, but for the two exceptions that SettledAgree names.
THEOREM ReplicasAgree == Spec => []SettledAgree
  <1>1. Init => Ready /\ (Fine => Agreeing)
    <2> SUFFICES ASSUME Init PROVE Ready /\ Agreeing
      OBVIOUS
    <2>1. Ready
      BY TypedAtStart, ShapedAtStart DEF Ready
    <2>2. Owners /\ calm = 0
      BY DEF Init, Owners
    <2> QED  BY <2>1, <2>2 DEF Agreeing
  <1>2. Ready /\ (Fine => Agreeing) => SettledAgree
    <2> SUFFICES ASSUME Ready, Level, NEW c \in R!Joined, NEW p \in Paths \ Outlived
                 PROVE  dir[c][p] = dir[Server][p]
      BY DEF SettledAgree, Settled, Fine, Agreeing, Agree
    <2>1. c \in Replicas /\ Server \in Replicas /\ DirsShaped
      BY JoinedKnown DEF Ready, Shaped
    <2>2. Names(c) = Kept /\ Names(Server) = Kept
      BY DEF Level
    <2>3. CASE p \notin Kept
      <3>1. dir[c][p].m = 0 /\ dir[Server][p].m = 0
        BY <2>2, <2>3 DEF Names, Has
      <3> QED  BY <2>1, <3>1 DEF DirsShaped, Like
    <2>4. CASE p \in Kept /\ p \in Dirs
      <3>1. dir[c][p].m # 0 /\ dir[Server][p].m # 0
        BY <2>2, <2>4 DEF Names, Has
      <3> QED  BY <2>1, <2>4, <3>1 DEF DirsShaped, Like
    <2>5. CASE p \in Kept /\ p \notin Dirs
      <3>1. /\ dir[c][p] = [m |-> list[p].m, v |-> dir[Server][p].v]
            /\ list[p].m >= dir[Server][p].m /\ p \in DOMAIN list
        BY <2>5 DEF Level, Got
      <3>2. dir[Server][p] \in File /\ list[p].m \in Nat
        BY <2>1, <3>1, FileKnown DEF Ready, Typed, Listed, EntryOf
      <3>3. list[p].m = dir[Server][p].m
        BY <2>5, <3>1, <3>2 DEF Outlived, File
      <3> QED  BY <3>1, <3>2, <3>3 DEF File
    <2> QED  BY <2>3, <2>4, <2>5
  <1> QED  BY <1>1, <1>2, AgreeingKept, PTL DEF Spec

-----------------------------------------------------------------------------
(* What users have asked for.  Whatever the program takes for deleted, in a  *)
(* listing, a list or a directory that something is missing from, a user has *)
(* deleted since the replicas last agreed.                                   *)

\* A user has deleted it, or a directory that it is in.
Asked(p) == \E q \in asked : p \in Below(q)

\* The client has still to get this entry in this round.
Awaited(c, p) ==
  /\ turn # 1 /\ p \in DOMAIN list /\ ~list[p].deleted
  /\ turn = 3 => at[c] = "work" /\ (serving = c => p \in todo[c])

\* What is listed at a client and not there; and what listings say of the list.
ListingsAsked ==
  /\ \A c \in Clients, p \in Paths : listing[c][p] # "none" /\ ~Has(c, p) => Asked(p)
  /\ \A c \in Clients : \A p \in Paths : listing[c][p] # "none" =>
       \A q \in Above[p] : listing[c][q] # "none"
  /\ turn = 1 => \A c \in R!Joined, p \in Paths : listing[c][p] = "seen" => p \in DOMAIN list
  /\ turn = 3 => \A c \in R!Joined, p \in Paths : at[c] = "done" => listing[c][p] # "seen"
  /\ \A c \in Clients : at[c] = "out" => lastSync[c] = {} /\ \A p \in Paths : listing[c][p] = "none"

\* What is remembered of the last round and not there.
MemoryAsked ==
  /\ \A c \in Clients : \A p \in lastSync[c] \ Names(c) : Asked(p) \/ Awaited(c, p)
  /\ \A p \in Kept \ Names(Server) : Asked(p)
  /\ turn = 1 => \A c \in Clients :
       /\ at[c] = "done" => lastSync[c] = {}
       /\ at[c] = "work" => \A p \in Kept \ todo[c] : listing[c][p] = "new" => Asked(p)
  /\ calm >= 2 /\ turn # 1 => \A c \in R!Joined : \A p \in lastSync[c] :
       p \in DOMAIN list /\ ~list[p].deleted

\* What is in the list, and deleted or with nobody who has it.
ListAsked ==
  /\ \A p \in DOMAIN list : list[p].deleted => Asked(p)
  /\ \A p \in DOMAIN list \ Names(Server) : Asked(p) \/ list[p].owner \in R!Joined
  /\ \A p \in DOMAIN list \ Dirs : \A c \in Clients : list[p].owner = c =>
       at[c] # "out" /\ (Has(c, p) \/ Asked(p))

Asking == ListingsAsked /\ MemoryAsked /\ ListAsked

\* Who deletes a directory deletes what is in it.
LEMMA AskedBelow ==
  ASSUME NEW p \in Paths, Asked(p), NEW q \in Below(p)
  PROVE  Asked(q)
  BY PathsKnown DEF Asked, Below

\* A user makes, changes or deletes something.
LEMMA UserAsks ==
  ASSUME Ready, Ready', Asking, User
  PROVE  Asking'
  <1>1. PICK r \in Replicas, p \in Paths : Create(r, p) \/ Modify(r, p) \/ Delete(r, p)
    BY DEF User
  <1>2. calm' = 0 /\ UNCHANGED <<at, turn, list, lastSync, listing, serving>>
    BY <1>1 DEF Create, Modify, Delete, Acts
  <1>3. R!Joined' = R!Joined
    BY <1>2 DEF R!Joined
  <1>4. asked \subseteq asked' /\ \A c \in Clients : todo[c] \subseteq todo'[c]
    <2>1. CASE Create(r, p)
      BY <2>1 DEF Create, MayBeFound, Ready, Typed
    <2> QED  BY <1>1, <2>1 DEF Modify, Delete
  <1>5. \A q : Asked(q) => Asked(q)'
    BY <1>4 DEF Asked
  <1>6. \A s \in Replicas, q \in Paths : Has(s, q) => Has(s, q)' \/ Asked(q)'
    <2> SUFFICES ASSUME NEW s \in Replicas, NEW q \in Paths, Has(s, q), ~Has(s, q)' PROVE Asked(q)'
      OBVIOUS
    <2>0. dir[r] \in [Paths -> File] /\ dir \in [Replicas -> Trees]
      BY FileKnown DEF Ready, Typed, Trees
    <2>1. CASE Create(r, p) \/ Modify(r, p)
      <3>1. PICK f : Write(r, p, f) /\ f.m # 0
        <4>1. now > 0 /\ now \in Nat
          BY DEF Ready, Shaped, Typed
        <4>2. CASE Create(r, p)
          BY <4>1, <4>2 DEF Create, Directory
        <4>3. CASE Modify(r, p)
          BY <4>1, <4>3 DEF Modify
        <4> QED  BY <2>1, <4>2, <4>3
      <3>2. dir'[s][q] = IF s = r /\ q = p THEN f ELSE dir[s][q]
        BY <2>0, <3>1 DEF Write
      <3> QED  BY <3>1, <3>2 DEF Has
    <2>2. CASE Delete(r, p)
      <3>1. dir' = [dir EXCEPT ![r] = Without(@, Below(p))] /\ p \in asked'
        BY <2>2 DEF Delete
      <3>2. q \in Below(p)
        BY <2>0, <3>1 DEF Without, Has
      <3> QED  BY <3>1, <3>2 DEF Asked
    <2> QED  BY <1>1, <2>1, <2>2
  <1>7. \A c \in Clients : c \in Replicas
    BY DEF Replicas
  <1>8. Server \in Replicas /\ Kept' = Kept
    BY <1>2 DEF Replicas, Kept
  <1>9. ListingsAsked'
    BY <1>2, <1>3, <1>5, <1>6, <1>7 DEF Asking, ListingsAsked
  <1>10. MemoryAsked'
    <2>1. \A c \in Clients : \A q \in lastSync[c] : q \in Paths
      BY <1>7 DEF Ready, Typed, Branches
    <2>2. \A c \in Clients, q \in Paths : Awaited(c, q) => Awaited(c, q)'
      BY <1>2, <1>4 DEF Awaited
    <2>3. \A c \in Clients : \A q \in lastSync[c] \ Names(c)' : (Asked(q) \/ Awaited(c, q))'
      BY <1>5, <1>6, <1>7, <2>1, <2>2 DEF Asking, MemoryAsked, Names
    <2>4. \A q \in Kept : q \in Paths
      BY <1>8 DEF Ready, Typed, Branches, Kept
    <2>5. \A q \in Kept \ Names(Server)' : Asked(q)'
      BY <1>5, <1>6, <1>8, <2>4 DEF Asking, MemoryAsked, Names
    <2> QED
      BY <1>2, <1>3, <1>4, <1>5, <1>8, <2>3, <2>5 DEF Asking, MemoryAsked
  <1>11. ListAsked'
    <2>1. \A q \in DOMAIN list : q \in Paths
      BY DEF Ready, Typed, Listed
    <2> QED  BY <1>2, <1>3, <1>5, <1>6, <1>7, <1>8, <2>1 DEF Asking, ListAsked, Names
  <1> QED  BY <1>9, <1>10, <1>11 DEF Asking

\* Steps that change no directory and no entry, and the memory of none but to
\* forget: they keep what is said, if they keep what concerns who is where.
LEMMA TurnsAsk ==
  ASSUME Ready, Ready', Asking,
         UNCHANGED <<dir, list, asked>>,
         R!Joined \subseteq R!Joined', \A c \in Clients : at'[c] = "out" => at[c] = "out",
         \A r \in Replicas : lastSync'[r] \in {lastSync[r], {}}
  PROVE  /\ \A p : Asked(p)' <=> Asked(p)
         /\ \A r \in Replicas : Names(r)' = Names(r)
         /\ \A p \in Kept' \ Names(Server)' : Asked(p)'
         /\ ListAsked'
  <1>1. \A p : Asked(p)' <=> Asked(p)
    BY DEF Asked
  <1>2. \A r \in Replicas : Names(r)' = Names(r) /\ \A p \in Paths : Has(r, p)' <=> Has(r, p)
    BY DEF Names, Has
  <1>3. Server \in Replicas /\ (\A c \in Clients : c \in Replicas) /\ DOMAIN list \subseteq Paths
    BY DEF Replicas, Ready, Typed, Listed
  <1>4. \A p \in Kept' \ Names(Server)' : Asked(p)'
    BY <1>1, <1>2, <1>3 DEF Asking, MemoryAsked, Kept
  <1>5. ListAsked'
    <2>1. \A p \in DOMAIN list : list[p].deleted => Asked(p)'
      BY <1>1 DEF Asking, ListAsked
    <2>2. \A p \in DOMAIN list \ Names(Server)' : Asked(p)' \/ list[p].owner \in R!Joined'
      BY <1>1, <1>2, <1>3 DEF Asking, ListAsked
    <2>3. \A p \in DOMAIN list \ Dirs : \A c \in Clients : list[p].owner = c =>
             at'[c] # "out" /\ (Has(c, p)' \/ Asked(p)')
      BY <1>1, <1>2, <1>3 DEF Asking, ListAsked
    <2> QED  BY <2>1, <2>2, <2>3 DEF ListAsked
  <1> QED  BY <1>1, <1>2, <1>4, <1>5

\* A client lists what it has.
LEMMA ListFilesAsks ==
  ASSUME Ready, Asking, NEW c \in Clients, ListFiles(c), UNCHANGED dir,
         \A p : Asked(p)' <=> Asked(p)
  PROVE  /\ \A p \in Paths : listing'[c][p] = IF Has(c, p) THEN "new" ELSE "none"
         /\ \A d \in Clients \ {c} : listing'[d] = listing[d]
         /\ \A d \in Clients, p \in Paths : listing'[d][p] # "none" /\ ~Has(d, p)' => Asked(p)'
         /\ \A d \in Clients : \A p \in Paths : listing'[d][p] # "none" =>
              \A q \in Above[p] : listing'[d][q] # "none"
  <1>1. /\ \A p \in Paths : listing'[c][p] = IF Has(c, p) THEN "new" ELSE "none"
        /\ \A d \in Clients \ {c} : listing'[d] = listing[d]
    BY DEF ListFiles, Ready, Typed
  <1>2. \A d \in Clients, p \in Paths : listing'[d][p] # "none" /\ ~Has(d, p)' => Asked(p)'
    BY <1>1 DEF Asking, ListingsAsked, Has
  <1>3. \A d \in Clients : \A p \in Paths : listing'[d][p] # "none" =>
           \A q \in Above[p] : listing'[d][q] # "none"
    <2> SUFFICES ASSUME NEW d \in Clients, NEW p \in Paths, listing'[d][p] # "none", NEW q \in Above[p]
                 PROVE  listing'[d][q] # "none"
      OBVIOUS
    <2>1. CASE d = c
      <3>1. Closed(Held(dir[c])) /\ q \in Paths
        BY PathsKnown DEF Ready, Typed, Trees, Replicas
      <3> QED  BY <1>1, <2>1, <3>1 DEF Closed, Held, Has
    <2>2. CASE d # c
      BY <1>1, <2>2 DEF Asking, ListingsAsked
    <2> QED  BY <2>1, <2>2
  <1> QED  BY <1>1, <1>2, <1>3

\* A client connects, and the server forgets.
LEMMA ConnectAsks ==
  ASSUME Ready, Ready', Asking, NEW c \in Clients, Connect(c)
  PROVE  Asking'
  <1>1. /\ at[c] = "out" /\ at'[c] = "alone" /\ \A d \in Clients \ {c} : at'[d] = at[d]
        /\ lastSync' = [lastSync EXCEPT ![Server] = {}] /\ ListFiles(c) /\ calm' = 0
        /\ UNCHANGED <<dir, list, asked>>
    BY DEF Connect, R!BeginAlone, R!Move, Ready, Typed, R!RoundsTypeOK
  <1>2. turn' = 1 /\ turn = 1
    BY <1>1 DEF Ready, Apart, Connect, R!BeginAlone
  <1>3. R!Joined' = R!Joined /\ c \notin R!Joined /\ R!Joined \subseteq Clients
    BY <1>1 DEF R!Joined
  <1>4. /\ \A r \in Replicas : lastSync'[r] \in {lastSync[r], {}}
        /\ \A d \in Clients : lastSync'[d] = lastSync[d]
        /\ Kept' = {}
    BY <1>1, FileSyncAssumption DEF Ready, Typed, Kept, Replicas
  <1>5. /\ \A p : Asked(p)' <=> Asked(p)
        /\ \A r \in Replicas : Names(r)' = Names(r)
        /\ ListAsked'
    BY <1>1, <1>3, <1>4, TurnsAsk
  <1>6. ListingsAsked'
    <2>1. \A d \in R!Joined, p \in Paths : listing'[d][p] = "seen" => p \in DOMAIN list
      BY <1>2, <1>1, <1>3, <1>5, ListFilesAsks DEF Asking, ListingsAsked
    <2>2. \A d \in Clients : at'[d] = "out" => lastSync'[d] = {} /\ \A p \in Paths : listing'[d][p] = "none"
      BY <1>1, <1>4, <1>5, ListFilesAsks DEF Asking, ListingsAsked
    <2> QED  BY <1>1, <1>2, <1>3, <1>5, <2>1, <2>2, ListFilesAsks DEF ListingsAsked
  <1>7. MemoryAsked'
    <2>1. \A d \in Clients : \A p \in lastSync'[d] \ Names(d)' : Asked(p)'
      BY <1>2, <1>4, <1>5 DEF Asking, MemoryAsked, Awaited, Replicas
    <2>2. \A d \in Clients : at'[d] = "done" => lastSync'[d] = {}
      BY <1>1, <1>2, <1>4 DEF Asking, MemoryAsked
    <2> QED  BY <1>1, <1>2, <1>4, <2>1, <2>2 DEF MemoryAsked
  <1> QED  BY <1>5, <1>6, <1>7 DEF Asking

\* A client has been synchronised, and joins.
LEMMA EndConnectionAsks ==
  ASSUME Ready, Ready', Asking, NEW c \in Clients, EndConnection(c)
  PROVE  Asking'
  <1>1. /\ at[c] = "alone" /\ at'[c] = "gate" /\ \A d \in Clients \ {c} : at'[d] = at[d]
        /\ ListFiles(c) /\ UNCHANGED <<turn, dir, list, lastSync, todo, asked>>
    BY DEF EndConnection, R!EndAlone, R!Move, history, Ready, Typed, R!RoundsTypeOK
  <1>2. turn = 1 /\ turn' = 1
    BY <1>1 DEF Ready, Apart
  <1>3. R!Joined' = R!Joined \cup {c} /\ R!Joined \subseteq Clients
    BY <1>1 DEF R!Joined
  <1>4. /\ \A p : Asked(p)' <=> Asked(p)
        /\ \A r \in Replicas : Names(r)' = Names(r)
        /\ \A p \in Kept' \ Names(Server)' : Asked(p)'
        /\ ListAsked'
    BY <1>1, <1>3, TurnsAsk
  <1>5. ListingsAsked'
    <2>1. \A d \in R!Joined', p \in Paths : listing'[d][p] = "seen" => p \in DOMAIN list
      BY <1>1, <1>2, <1>3, <1>4, ListFilesAsks DEF Asking, ListingsAsked
    <2>2. \A d \in Clients : at'[d] = "out" => lastSync'[d] = {} /\ \A p \in Paths : listing'[d][p] = "none"
      BY <1>1, <1>4, ListFilesAsks DEF Asking, ListingsAsked
    <2> QED  BY <1>1, <1>2, <1>4, <2>1, <2>2, ListFilesAsks DEF ListingsAsked
  <1>6. MemoryAsked'
    <2>1. \A d \in Clients : \A p \in lastSync'[d] \ Names(d)' : Asked(p)'
      BY <1>1, <1>2, <1>4 DEF Asking, MemoryAsked, Awaited, Replicas
    <2>2. ASSUME NEW d \in Clients
          PROVE  /\ at'[d] = "done" => lastSync'[d] = {}
                 /\ at'[d] = "work" => \A p \in Kept' \ todo'[d] : listing'[d][p] = "new" => Asked(p)'
      <3>1. CASE d = c
        BY <1>1, <3>1
      <3>2. CASE d # c
        BY <1>1, <1>2, <1>4, <3>2, ListFilesAsks DEF Asking, MemoryAsked, Kept
      <3> QED  BY <3>1, <3>2
    <2> QED  BY <1>2, <1>4, <2>1, <2>2 DEF MemoryAsked
  <1> QED  BY <1>4, <1>5, <1>6 DEF Asking

\* A client begins a round, or has been compared.
LEMMA FirstPhaseAsks ==
  ASSUME Ready, Ready', Asking, NEW c \in Clients, StartRound(c) \/ EndCompare(c)
  PROVE  Asking'
  <1>1. /\ turn = 1 /\ turn' = 1 /\ UNCHANGED <<dir, list, listing, asked>>
        /\ at[c] \in {"gate", "work"} /\ at'[c] \in {"work", "done"}
        /\ \A d \in Clients \ {c} : at'[d] = at[d] /\ todo'[d] = todo[d] /\ lastSync'[d] = lastSync[d]
        /\ lastSync'[Server] = lastSync[Server] /\ lastSync'[c] \in {lastSync[c], {}}
        /\ at'[c] = "done" => lastSync'[c] = {}
        /\ at'[c] = "work" => todo'[c] = Names(Server)
    BY FileSyncAssumption DEF StartRound, EndCompare, R!Enter, R!Finish, R!Move, history, Ready, Typed,
                              R!RoundsTypeOK, Replicas
  <1>2. R!Joined' = R!Joined /\ R!Joined \subseteq Clients
    BY <1>1 DEF R!Joined
  <1>3. /\ \A p : Asked(p)' <=> Asked(p)
        /\ \A r \in Replicas : Names(r)' = Names(r)
        /\ \A p \in Kept' \ Names(Server)' : Asked(p)'
        /\ ListAsked'
    BY <1>1, <1>2, TurnsAsk DEF Replicas
  <1>4. ListingsAsked'
    BY <1>1, <1>2, <1>3 DEF Asking, ListingsAsked, Has
  <1>5. MemoryAsked'
    <2>1. \A d \in Clients : \A p \in lastSync'[d] \ Names(d)' : Asked(p)'
      BY <1>1, <1>3 DEF Asking, MemoryAsked, Awaited, Replicas
    <2>2. ASSUME NEW d \in Clients
          PROVE  /\ at'[d] = "done" => lastSync'[d] = {}
                 /\ at'[d] = "work" => \A p \in Kept' \ todo'[d] : listing'[d][p] = "new" => Asked(p)'
      <3>1. CASE d = c
        BY <1>1, <1>3, <3>1 DEF Names, Has
      <3>2. CASE d # c
        BY <1>1, <1>3, <3>2 DEF Asking, MemoryAsked, Kept
      <3> QED  BY <3>1, <3>2
    <2> QED  BY <1>1, <1>3, <2>1, <2>2 DEF MemoryAsked
  <1> QED  BY <1>3, <1>4, <1>5 DEF Asking

\* A client has given all that it owes, or the turn to send goes from hand to hand.
LEMMA LaterPhaseAsks ==
  ASSUME Ready, Ready', Asking, NEW c \in Clients, EndFetch(c) \/ BeginServe(c) \/ EndServe(c)
  PROVE  Asking'
  <1>1. /\ turn # 1 /\ turn' = turn /\ UNCHANGED <<dir, list, lastSync, asked, calm>>
        /\ at[c] = "work" /\ at'[c] \in {"work", "done"}
        /\ \A d \in Clients \ {c} : at'[d] = at[d] /\ todo'[d] = todo[d]
    BY DEF EndFetch, BeginServe, EndServe, R!Finish, R!Move, Works, history, lists, Ready, Typed,
           R!RoundsTypeOK
  <1>2. R!Joined' = R!Joined /\ R!Joined \subseteq Clients
    BY <1>1 DEF R!Joined
  <1>3. /\ \A p : Asked(p)' <=> Asked(p)
        /\ \A r \in Replicas : Names(r)' = Names(r)
        /\ \A p \in Kept' \ Names(Server)' : Asked(p)'
        /\ ListAsked'
    BY <1>1, <1>2, TurnsAsk DEF Replicas
  <1>4. ListingsAsked'
    <2>1. CASE UNCHANGED listing /\ (at'[c] = "done" => turn = 2)
      BY <1>1, <1>2, <1>3, <2>1 DEF Asking, ListingsAsked, Has
    <2>2. CASE ListFiles(c)
      <3>1. \A d \in R!Joined, p \in Paths : turn = 3 /\ at'[d] = "done" => listing'[d][p] # "seen"
        <4> SUFFICES ASSUME NEW d \in R!Joined, NEW p \in Paths, turn = 3, at'[d] = "done"
                     PROVE  listing'[d][p] # "seen"
          OBVIOUS
        <4>1. CASE d = c
          BY <1>1, <1>3, <2>2, <4>1, ListFilesAsks
        <4>2. CASE d # c
          BY <1>1, <1>2, <1>3, <2>2, <4>2, ListFilesAsks DEF Asking, ListingsAsked
        <4> QED  BY <4>1, <4>2
      <3>2. \A d \in Clients : at'[d] = "out" => lastSync'[d] = {} /\ \A p \in Paths : listing'[d][p] = "none"
        BY <1>1, <1>3, <2>2, ListFilesAsks DEF Asking, ListingsAsked
      <3> QED  BY <1>1, <1>2, <1>3, <2>2, <3>1, <3>2, ListFilesAsks DEF ListingsAsked
    <2>3. CASE EndFetch(c)
      BY <2>1, <2>3 DEF EndFetch, lists
    <2>4. CASE BeginServe(c)
      BY <1>1, <2>1, <2>4 DEF BeginServe
    <2>5. CASE EndServe(c)
      BY <2>2, <2>5 DEF EndServe
    <2> QED  BY <2>3, <2>4, <2>5
  <1>5. MemoryAsked'
    <2>1. ASSUME NEW d \in Clients, NEW p \in Paths, Awaited(d, p) PROVE Awaited(d, p)'
      <3>1. CASE EndFetch(c)
        BY <1>1, <2>1, <3>1 DEF Awaited, EndFetch
      <3>2. CASE BeginServe(c)
        <4>1. /\ UNCHANGED at /\ serving = NoClient /\ serving' = c
              /\ todo' = [todo EXCEPT ![c] = DOMAIN list]
          BY <3>2 DEF BeginServe
        <4>2. todo'[c] = DOMAIN list
          BY <4>1 DEF Ready, Typed
        <4> QED  BY <1>1, <2>1, <4>1, <4>2 DEF Awaited
      <3>3. CASE EndServe(c)
        <4>1. serving = c /\ serving' = NoClient /\ todo[c] = {} /\ turn = 3
              /\ NoClient \notin Clients
          BY <3>3, FileSyncAssumption DEF EndServe, Replicas
        <4> QED  BY <1>1, <2>1, <4>1 DEF Awaited
      <3> QED  BY <3>1, <3>2, <3>3
    <2>2. \A d \in Clients : \A p \in lastSync'[d] \ Names(d)' : (Asked(p) \/ Awaited(d, p))'
      <3>1. \A d \in Clients : d \in Replicas /\ \A p \in lastSync[d] : p \in Paths
        BY DEF Ready, Typed, Branches, Replicas
      <3> QED  BY <1>1, <1>3, <2>1, <3>1 DEF Asking, MemoryAsked
    <2> QED  BY <1>1, <1>2, <1>3, <2>2 DEF Asking, MemoryAsked
  <1> QED  BY <1>3, <1>4, <1>5 DEF Asking

\* What Append adds.
LEMMA AppendedKnown ==
  ASSUME Typed, NEW p \in Paths, NEW owner, NEW m, Append(p, owner, m)
  PROVE  /\ DOMAIN list \subseteq DOMAIN list' /\ p \in DOMAIN list'
         /\ \A q \in DOMAIN list : list'[q] = list[q]
         /\ \A q \in DOMAIN list' \ DOMAIN list :
              q \in Above[p] \cup {p} /\ ~list'[q].deleted /\ (q = p => list'[q].owner = owner)
  <1>1. PICK garbage : list' = AppendFile(list, p, owner, m, garbage)
    BY DEF Append
  <1>2. CASE p \in DOMAIN list
    BY <1>1, <1>2 DEF AppendFile
  <1>3. CASE p \notin DOMAIN list
    <2>1. list' = [q \in DOMAIN list \cup Above[p] \cup {p} |->
                     CASE q \in DOMAIN list -> list[q]
                       [] q = p -> Entry(p, owner, m, FALSE)
                       [] OTHER -> Entry(q, garbage, 0, FALSE)]
      BY <1>1, <1>3 DEF AppendFile
    <2>2. DOMAIN list' = DOMAIN list \cup Above[p] \cup {p}
      BY <2>1
    <2>3. \A q \in DOMAIN list : list'[q] = list[q]
      BY <1>3, <2>1
    <2>4. list'[p] = Entry(p, owner, m, FALSE)
      BY <1>3, <2>1
    <2>5. \A q \in DOMAIN list' \ DOMAIN list : q # p => list'[q] = Entry(q, garbage, 0, FALSE)
      BY <2>1, <2>2
    <2>6. list'[p].owner = owner /\ ~list'[p].deleted
      BY <2>4 DEF Entry
    <2>7. \A q \in DOMAIN list' \ DOMAIN list : q # p => ~list'[q].deleted
      BY <2>5 DEF Entry
    <2>8. \A q \in DOMAIN list' \ DOMAIN list : q \in Above[p] \cup {p}
      BY <2>2
    <2> QED  BY <2>2, <2>3, <2>6, <2>7, <2>8
  <1> QED  BY <1>2, <1>3

\* A step of the client that is synchronised: nothing goes unless it was asked
\* for, and what is remembered or entered in the list is where it should be.
LEMMA AloneAsks ==
  ASSUME Ready, Ready', Asking, NEW c \in Clients, at[c] = "alone", calm = 0,
         UNCHANGED <<at, turn, calm, asked>>,
         NEW p \in Paths, NEW x \in Paths, NEW owner, NEW m,
         UNCHANGED listing \/ (Mark(c, p) /\ listing[c][p] # "none"),
         \A r \in Replicas, q \in Paths : Has(r, q) => Has(r, q)' \/ Asked(q),
         \/ UNCHANGED lastSync
         \/ Remembered(c, p) /\ \A q \in Above[p] \cup {p} : Has(c, q)' \/ Asked(q),
         \/ UNCHANGED list
         \/ /\ Append(x, owner, m) /\ \A q \in Above[x] \cup {x} : Has(Server, q)'
            /\ owner = Server \/ (owner = c /\ Has(c, x)')
  PROVE  Asking'
  <1>1. turn = 1 /\ R!Joined' = R!Joined /\ R!Joined \subseteq Clients /\ c \notin R!Joined
    BY DEF Ready, Apart, R!Joined
  <1>2. \A q : Asked(q)' <=> Asked(q)
    BY DEF Asked
  <1>3. /\ Server \in Replicas /\ Server \notin Clients /\ \A d \in Clients : d \in Replicas
        /\ DOMAIN list \subseteq Paths /\ DOMAIN list' \subseteq Paths
        /\ Above[p] \subseteq Paths
    BY FileSyncAssumption, PathsKnown DEF Replicas, Ready, Typed, Listed
  <1>4. /\ \A d \in Clients \ {c} : listing'[d] = listing[d] /\ lastSync'[d] = lastSync[d]
        /\ Kept' = Kept
        /\ \A q \in lastSync'[c] : q \in lastSync[c] \/ (Has(c, q)' \/ Asked(q))
    BY <1>3 DEF Mark, Remembered, Ready, Typed, Kept
  <1>5. \A d \in Clients, q \in Paths : listing'[d][q] # "none" <=> listing[d][q] # "none"
    BY DEF Mark, Ready, Typed
  <1>6. /\ DOMAIN list \subseteq DOMAIN list' /\ \A q \in DOMAIN list : list'[q] = list[q]
        /\ \A q \in DOMAIN list' \ DOMAIN list :
             /\ Has(Server, q)' /\ ~list'[q].deleted
             /\ q \notin Dirs => \/ list'[q].owner = Server
                                 \/ list'[q].owner = c /\ Has(c, q)'
    <2>1. CASE UNCHANGED list
      BY <2>1
    <2>2. CASE /\ Append(x, owner, m) /\ \A q \in Above[x] \cup {x} : Has(Server, q)'
               /\ owner = Server \/ (owner = c /\ Has(c, x)')
      <3>1. Above[x] \subseteq Dirs
        BY PathsKnown
      <3> QED  BY <2>2, <3>1, AppendedKnown DEF Ready
    <2> QED  BY <2>1, <2>2
  <1>7. ListingsAsked'
    <2>1. \A d \in Clients, q \in Paths : listing'[d][q] # "none" /\ ~Has(d, q)' => Asked(q)'
      BY <1>2, <1>3, <1>5 DEF Asking, ListingsAsked
    <2>2. \A d \in Clients : \A q \in Paths : listing'[d][q] # "none" =>
            \A a \in Above[q] : listing'[d][a] # "none"
      <3>1. \A q \in Paths : Above[q] \subseteq Paths
        BY PathsKnown
      <3> QED  BY <1>5, <3>1 DEF Asking, ListingsAsked
    <2> QED  BY <1>1, <1>4, <1>6, <2>1, <2>2 DEF Asking, ListingsAsked
  <1>8. MemoryAsked'
    <2>1. \A d \in Clients : \A q \in lastSync'[d] \ Names(d)' : Asked(q)'
      <3> SUFFICES ASSUME NEW d \in Clients, NEW q \in lastSync'[d], ~Has(d, q)' PROVE Asked(q)
        BY <1>2, <1>3 DEF Names, Ready, Typed, Branches
      <3>1. q \in Paths
        BY <1>3 DEF Ready, Typed, Branches
      <3>2. CASE q \in lastSync[d]
        <4>1. Has(d, q) \/ Asked(q)
          BY <1>1, <3>1, <3>2 DEF Asking, MemoryAsked, Awaited, Names
        <4> QED  BY <1>3, <3>1, <4>1
      <3>3. CASE q \notin lastSync[d]
        BY <1>4, <3>3
      <3> QED  BY <3>2, <3>3
    <2>2. \A q \in Kept \ Names(Server)' : Asked(q)'
      <3>1. Kept \subseteq Paths
        BY <1>3 DEF Ready, Typed, Branches, Kept
      <3> QED  BY <1>2, <1>3, <3>1 DEF Asking, MemoryAsked, Names
    <2>3. ASSUME NEW d \in Clients, at[d] \in {"done", "work"}
          PROVE  /\ listing'[d] = listing[d] /\ lastSync'[d] = lastSync[d]
      BY <1>4, <2>3
    <2>4. \A d \in Clients : at[d] # "work"
      BY DEF Ready, Apart
    <2> QED  BY <1>1, <1>2, <1>4, <2>1, <2>2, <2>3, <2>4 DEF Asking, MemoryAsked
  <1>9. ListAsked'
    <2>1. \A q \in DOMAIN list' : list'[q].deleted => Asked(q)'
      BY <1>2, <1>6 DEF Asking, ListAsked
    <2>2. \A q \in DOMAIN list' \ Names(Server)' : Asked(q)' \/ list'[q].owner \in R!Joined'
      BY <1>1, <1>2, <1>3, <1>6 DEF Asking, ListAsked, Names
    <2>3. \A q \in DOMAIN list' \ Dirs : \A d \in Clients : list'[q].owner = d =>
             at[d] # "out" /\ (Has(d, q)' \/ Asked(q))
      BY <1>3, <1>6 DEF Asking, ListAsked
    <2>4. \A q \in DOMAIN list' \ Dirs : \A d \in Clients : list'[q].owner = d =>
             at'[d] # "out" /\ (Has(d, q)' \/ Asked(q)')
      BY <1>2, <2>3
    <2> QED  BY <2>1, <2>2, <2>4 DEF ListAsked
  <1> QED  BY <1>7, <1>8, <1>9 DEF Asking

\* What is listed at a client is there, and what it is in, or was asked for.
LEMMA ListedThere ==
  ASSUME Ready, Asking, NEW c \in Clients, NEW p \in Paths, listing[c][p] # "none"
  PROVE  \A q \in Above[p] \cup {p} : q \in Paths /\ (Has(c, q) \/ Asked(q))
  BY PathsKnown DEF Asking, ListingsAsked

\* What a file is in is there when the file is.
LEMMA PlaceKnown ==
  ASSUME Ready, NEW r \in Replicas, NEW p \in Paths, Has(r, p)
  PROVE  \A q \in Above[p] \cup {p} : q \in Paths /\ Has(r, q)
  <1>1. Closed(Held(dir[r])) /\ Above[p] \subseteq Paths
    BY PathsKnown DEF Ready, Typed, Trees
  <1> QED  BY <1>1 DEF Closed, Held, Has

\* A file is written.
LEMMA WriteKnown ==
  ASSUME Ready, NEW r \in Replicas, NEW p \in Paths, NEW f, Write(r, p, f)
  PROVE  /\ dir'[r][p] = f
         /\ \A s \in Replicas, q \in Paths : s # r \/ q # p => dir'[s][q] = dir[s][q]
  <1>1. dir \in [Replicas -> Trees] /\ dir[r] \in [Paths -> File]
    BY FileKnown DEF Ready, Typed, Trees
  <1> QED  BY <1>1 DEF Write

\* A directory is made, with those that it is in.
LEMMA MadeKnown ==
  ASSUME Ready, NEW r \in Replicas, NEW p \in Paths, CreateDirectory(r, p)
  PROVE  /\ \A q \in Above[p] \cup {p} : q \in Paths /\ Has(r, q)'
         /\ \A s \in Replicas, q \in Paths : Has(s, q) => Has(s, q)'
         /\ \A s \in Replicas, q \in Paths : s # r => dir'[s] = dir[s]
  <1>1. dir \in [Replicas -> Trees] /\ Above[p] \subseteq Paths
    BY PathsKnown DEF Ready, Typed
  <1>2. \A q \in Paths : dir'[r][q] = IF q \in Above[p] \cup {p} /\ ~Has(r, q) THEN Directory ELSE dir[r][q]
    BY <1>1 DEF CreateDirectory
  <1>3. \A s \in Replicas : s # r => dir'[s] = dir[s]
    BY <1>1 DEF CreateDirectory
  <1>4. Directory.m # 0
    BY DEF Directory
  <1> QED  BY <1>1, <1>2, <1>3, <1>4 DEF Has

\* The client gives its version, or what it has deleted is deleted.
LEMMA ClientSendsAsks ==
  ASSUME Ready, Ready', Asking, NEW c \in Clients, at[c] = "alone", calm = 0,
         UNCHANGED <<at, turn, calm, asked>>,
         NEW p \in Paths, p \notin Dirs, listing[c][p] # "none", HasPlace(Server, p),
         ClientSends(c, p)
  PROVE  Asking'
  <1>0. c \in Replicas /\ Server \in Replicas /\ c # Server /\ Mark(c, p) /\ Above[p] \subseteq Paths
        /\ p \notin Above[p]
    BY FileSyncAssumption, PathsKnown DEF Replicas, ClientSends
  <1>1. CASE Has(c, p)
    <2>1. Write(Server, p, dir[c][p]) /\ Append(p, c, dir[c][p].m) /\ Remembered(c, p)
      BY <1>1 DEF ClientSends
    <2>2. /\ \A r \in Replicas, q \in Paths : Has(r, q) => Has(r, q)'
          /\ \A q \in Paths : Has(c, q)' <=> Has(c, q)
          /\ Has(Server, p)'
      BY <1>0, <1>1, <2>1, WriteKnown DEF Has
    <2>3. \A q \in Above[p] \cup {p} : Has(Server, q)'
      BY <1>0, <2>2 DEF HasPlace, Names
    <2>4. Has(c, p)' /\ \A q \in Above[p] \cup {p} : Has(c, q)'
      BY <1>0, <1>1, <2>2, PlaceKnown
    <2> DEFINE m == dir[c][p].m
    <2>5. Append(p, c, m)
      BY <2>1
    <2> HIDE DEF m
    <2> QED  BY <1>0, <2>1, <2>2, <2>3, <2>4, <2>5, AloneAsks
  <1>2. CASE ~Has(c, p)
    <2>1. Write(Server, p, Absent) /\ UNCHANGED <<list, lastSync>>
      BY <1>2 DEF ClientSends
    <2>2. Asked(p)
      BY <1>2 DEF Asking, ListingsAsked
    <2>3. \A r \in Replicas, q \in Paths : Has(r, q) => Has(r, q)' \/ Asked(q)
      BY <1>0, <2>1, <2>2, WriteKnown DEF Has
    <2> QED  BY <1>0, <2>1, <2>3, AloneAsks
  <1> QED  BY <1>1, <1>2

\* The client gets the version of the server.
LEMMA ClientReceivesAsks ==
  ASSUME Ready, Ready', Asking, Fine', NEW c \in Clients, at[c] = "alone", calm = 0,
         UNCHANGED <<at, turn, calm, asked>>,
         NEW p \in Paths, Has(Server, p), ClientReceives(c, p)
  PROVE  Asking'
  <1>0. c \in Replicas /\ Server \in Replicas /\ c # Server /\ Above[p] \subseteq Paths
        /\ p \notin Above[p]
    BY FileSyncAssumption, PathsKnown DEF Replicas
  <1>1. /\ HasPlace(c, p) /\ Write(c, p, dir[Server][p]) /\ Remembered(c, p)
        /\ Append(p, Server, dir[Server][p].m)
        /\ UNCHANGED listing \/ (Mark(c, p) /\ listing[c][p] # "none")
    BY DEF ClientReceives, Break, Fine
  <1>2. /\ \A r \in Replicas, q \in Paths : Has(r, q) => Has(r, q)'
        /\ Has(c, p)'
    BY <1>0, <1>1, WriteKnown DEF Has
  <1>3. \A q \in Above[p] \cup {p} : Has(Server, q)'
    BY <1>0, <1>2, PlaceKnown
  <1>4. \A q \in Above[p] \cup {p} : Has(c, q)'
    BY <1>0, <1>1, <1>2 DEF HasPlace, Names
  <1> DEFINE m == dir[Server][p].m
  <1>5. Append(p, Server, m)
    BY <1>1
  <1> HIDE DEF m
  <1> QED  BY <1>0, <1>1, <1>2, <1>3, <1>4, <1>5, AloneAsks

\* An entry of the server's directory is exchanged with the client.
LEMMA ExchangeAsks ==
  ASSUME Ready, Ready', Agreeing, Asking, Fine', NEW c \in Clients, NEW p, Exchange(c, p)
  PROVE  Asking'
  <1>1. /\ at[c] = "alone" /\ Visits(c, p) /\ p \in Paths
        /\ UNCHANGED <<at, turn, calm, asked>> /\ c \in Replicas /\ Server \in Replicas
    BY VisitsTyped DEF Exchange, history, Replicas, Ready
  <1>2. calm = 0
    BY <1>1 DEF Agreeing, Together, Ready, Typed
  <1>3. CASE ~Has(Server, p)
    <2>1. UNCHANGED <<dir, list, lastSync, listing>>
      BY <1>3 DEF Exchange
    <2>2. \A r \in Replicas, q \in Paths : Has(r, q) => Has(r, q)'
      BY <2>1 DEF Has
    <2> QED  BY <1>1, <1>2, <2>1, <2>2, AloneAsks
  <1>4. CASE Has(Server, p) /\ p \in Dirs
    <2>1. ExchangeDirectory(c, p)
      BY <1>4 DEF Exchange
    <2>2. Append(p, Server, 0) /\ Remembered(c, p)
      BY <2>1 DEF ExchangeDirectory
    <2>3. \A q \in Above[p] \cup {p} : q \in Paths /\ Has(Server, q)
      BY <1>1, <1>4, PlaceKnown
    <2>4. CASE listing[c][p] = "none"
      <3>1. CreateDirectory(c, p) /\ UNCHANGED listing
        BY <2>1, <2>4 DEF ExchangeDirectory
      <3>2. /\ \A q \in Above[p] \cup {p} : Has(c, q)'
            /\ \A r \in Replicas, q \in Paths : Has(r, q) => Has(r, q)'
        BY <1>1, <3>1, MadeKnown
      <3>3. \A q \in Above[p] \cup {p} : Has(Server, q)'
        BY <1>1, <2>3, <3>2
      <3> QED  BY <1>1, <1>2, <2>2, <3>1, <3>2, <3>3, AloneAsks
    <2>5. CASE listing[c][p] # "none"
      <3>1. Mark(c, p) /\ UNCHANGED dir
        BY <2>1, <2>5 DEF ExchangeDirectory
      <3>2. \A r \in Replicas, q \in Paths : Has(r, q)' <=> Has(r, q)
        BY <3>1 DEF Has
      <3>3. \A q \in Above[p] \cup {p} : Has(Server, q)' /\ (Has(c, q)' \/ Asked(q))
        BY <1>1, <2>3, <2>5, <3>2, ListedThere
      <3> QED  BY <1>1, <1>2, <2>2, <2>5, <3>1, <3>2, <3>3, AloneAsks
    <2> QED  BY <2>4, <2>5
  <1>5. CASE Has(Server, p) /\ p \notin Dirs
    <2>1. ClientReceives(c, p) \/ (listing[c][p] # "none" /\ ClientSends(c, p))
      BY <1>5 DEF Exchange
    <2>2. HasPlace(Server, p)
      BY <1>1, <1>5, PlaceKnown DEF HasPlace, Names
    <2> QED  BY <1>1, <1>2, <1>5, <2>1, <2>2, ClientReceivesAsks, ClientSendsAsks
  <1> QED  BY <1>3, <1>4, <1>5

\* What only the client has is sent to the server.
LEMMA UploadAsks ==
  ASSUME Ready, Ready', Agreeing, Asking, Fine', NEW c \in Clients, NEW p, Upload(c, p)
  PROVE  Asking'
  <1>1. /\ at[c] = "alone" /\ p \in Unmarked(c) /\ p \in Paths /\ listing[c][p] # "none"
        /\ UNCHANGED <<at, turn, calm, asked>> /\ c \in Replicas /\ Server \in Replicas
        /\ c # Server
    BY FileSyncAssumption DEF Upload, history, Replicas, First, Unmarked
  <1>2. calm = 0
    BY <1>1 DEF Agreeing, Together, Ready, Typed
  <1>3. CASE p \in Dirs
    <2>1. CreateDirectory(Server, p) /\ Append(Top(p), Server, 0) /\ Remembered(c, p) /\ Mark(c, p)
      BY <1>3 DEF Upload
    <2>2. /\ \A q \in Above[p] \cup {p} : Has(Server, q)'
          /\ \A r \in Replicas, q \in Paths : Has(r, q) => Has(r, q)'
      BY <1>1, <2>1, MadeKnown
    <2>3. \A q \in Above[p] \cup {p} : Has(c, q)' \/ Asked(q)
      BY <1>1, <2>2, ListedThere
    <2>4. Top(p) \in Paths /\ Above[Top(p)] = {} /\ Top(p) \in Above[p] \cup {p}
      BY <1>1, TopKnown, TopExists DEF Top
    <2>5. \A q \in Above[Top(p)] \cup {Top(p)} : Has(Server, q)'
      BY <2>2, <2>4
    <2> DEFINE x == Top(p)
    <2> HIDE DEF x
    <2>6. x \in Paths /\ Append(x, Server, 0) /\ \A q \in Above[x] \cup {x} : Has(Server, q)'
      BY <2>1, <2>4, <2>5 DEF x
    <2> QED  BY <1>1, <1>2, <2>1, <2>2, <2>3, <2>6, AloneAsks
  <1>4. CASE p \notin Dirs
    <2>1. HasPlace(Server, p) /\ ClientSends(c, p)
      BY <1>4 DEF Upload, Break, Fine
    <2> QED  BY <1>1, <1>2, <1>4, <2>1, ClientSendsAsks
  <1> QED  BY <1>3, <1>4

\* Phase 1 goes on for a client: entries are marked that are in the list, and
\* what stays new and was kept, though it has been compared, has been deleted.
LEMMA MarkedAsks ==
  ASSUME Ready, Ready', Asking, NEW c \in Clients, NEW p \in Paths, at[c] = "work", turn = 1,
         UNCHANGED <<at, turn, calm, dir, lastSync, asked>>, DOMAIN list \subseteq DOMAIN list',
         UNCHANGED listing \/ (Mark(c, p) /\ listing[c][p] # "none" /\ p \in DOMAIN list'),
         \A d \in Clients \ {c} : todo'[d] = todo[d],
         \A q \in todo[c] \ {p} : q \in todo'[c],
         p \in Kept /\ listing'[c][p] = "new" /\ p \notin todo'[c] => Asked(p)
  PROVE  ListingsAsked' /\ MemoryAsked'
  <1>1. R!Joined' = R!Joined /\ c \in R!Joined /\ R!Joined \subseteq Clients
    BY DEF R!Joined
  <1>2. \A q : Asked(q)' <=> Asked(q)
    BY DEF Asked
  <1>3. /\ \A d \in Clients, q \in Paths : listing'[d][q] # "none" <=> listing[d][q] # "none"
        /\ \A d \in Clients, q \in Paths : listing'[d][q] = listing[d][q]
                                           \/ (d = c /\ q = p /\ listing'[c][p] = "seen" /\ p \in DOMAIN list')
    <2>1. CASE UNCHANGED listing
      BY <2>1
    <2>2. CASE Mark(c, p) /\ listing[c][p] # "none" /\ p \in DOMAIN list'
      <3>1. \A d \in Clients, q \in Paths :
              listing'[d][q] = IF d = c /\ q = p THEN "seen" ELSE listing[d][q]
        BY <2>2 DEF Mark, Ready, Typed
      <3> QED  BY <2>2, <3>1
    <2> QED  BY <2>1, <2>2
  <1>4. \A r \in Replicas : Names(r)' = Names(r) /\ \A q \in Paths : Has(r, q)' <=> Has(r, q)
    BY DEF Names, Has
  <1>5. Server \in Replicas /\ \A d \in Clients : d \in Replicas
    BY DEF Replicas
  <1>6. ListingsAsked'
    <2>1. \A d \in Clients, q \in Paths : listing'[d][q] # "none" /\ ~Has(d, q)' => Asked(q)'
      BY <1>2, <1>3, <1>4, <1>5 DEF Asking, ListingsAsked
    <2>2. \A d \in Clients : \A q \in Paths : listing'[d][q] # "none" =>
            \A a \in Above[q] : listing'[d][a] # "none"
      <3>1. \A q \in Paths : Above[q] \subseteq Paths
        BY PathsKnown
      <3> QED  BY <1>3, <3>1 DEF Asking, ListingsAsked
    <2>3. \A d \in R!Joined, q \in Paths : listing'[d][q] = "seen" => q \in DOMAIN list'
      BY <1>1, <1>3 DEF Asking, ListingsAsked
    <2>4. \A d \in Clients : at[d] = "out" => lastSync[d] = {} /\ \A q \in Paths : listing'[d][q] = "none"
      BY <1>3 DEF Asking, ListingsAsked
    <2> QED  BY <1>1, <2>1, <2>2, <2>3, <2>4 DEF ListingsAsked
  <1>7. MemoryAsked'
    <2>1. \A d \in Clients : \A q \in lastSync[d] \ Names(d) : Asked(q)
      BY DEF Asking, MemoryAsked, Awaited
    <2>2. Kept' = Kept /\ \A q \in Kept \ Names(Server)' : Asked(q)'
      BY <1>2, <1>4, <1>5 DEF Asking, MemoryAsked, Kept
    <2>3. ASSUME NEW d \in Clients, at[d] = "work", NEW q \in Kept \ todo'[d], listing'[d][q] = "new"
          PROVE  Asked(q)
      <3>1. q \in Paths
        BY <1>5 DEF Kept, Ready, Typed, Branches
      <3>2. CASE d = c /\ q = p
        BY <2>3, <3>2
      <3>3. CASE ~(d = c /\ q = p)
        <4>1. q \in Kept \ todo[d] /\ listing[d][q] = "new"
          BY <1>3, <2>3, <3>1, <3>3
        <4> QED  BY <2>3, <4>1 DEF Asking, MemoryAsked
      <3> QED  BY <3>2, <3>3
    <2> QED  BY <1>2, <1>4, <1>5, <2>1, <2>2, <2>3 DEF Asking, MemoryAsked
  <1> QED  BY <1>6, <1>7

\* What phase 1 enters in the list.
LEMMA EnteredAsks ==
  ASSUME Ready, Ready', Asking, NEW c \in R!Joined, UNCHANGED <<at, turn, dir, asked>>,
         \A q \in DOMAIN list' :
           \/ q \in DOMAIN list /\ list'[q] = list[q]
           \/ /\ list'[q].deleted => Asked(q)
              /\ Has(Server, q) \/ Asked(q) \/ list'[q].owner = c
              /\ q \notin Dirs => \A d \in Clients : list'[q].owner = d =>
                   \/ d = c /\ (Has(c, q) \/ Asked(q))
                   \/ q \in DOMAIN list /\ list[q].owner = d
  PROVE  ListAsked'
  <1>1. R!Joined' = R!Joined /\ at[c] # "out"
    BY DEF R!Joined
  <1>2. \A q : Asked(q)' <=> Asked(q)
    BY DEF Asked
  <1>3. \A r, q : Has(r, q)' <=> Has(r, q)
    BY DEF Has
  <1>4. DOMAIN list' \subseteq Paths
    BY DEF Ready, Typed, Listed
  <1>5. \A q \in DOMAIN list' : list'[q].deleted => Asked(q)
    BY DEF Asking, ListAsked
  <1>6. \A q \in DOMAIN list' : Has(Server, q) \/ Asked(q) \/ list'[q].owner \in R!Joined
    BY <1>4 DEF Asking, ListAsked, Names
  <1>7. \A q \in DOMAIN list' \ Dirs : \A d \in Clients : list'[q].owner = d =>
          at[d] # "out" /\ (Has(d, q) \/ Asked(q))
    BY <1>1 DEF Asking, ListAsked
  <1> QED  BY <1>1, <1>2, <1>3, <1>4, <1>5, <1>6, <1>7 DEF ListAsked, Names

\* An entry of the server's directory is compared.  What a client has had and
\* has no more, a user has deleted there.
LEMMA CompareAsks ==
  ASSUME Ready, Ready', Asking, [Next]_vars, Fine', NEW c \in Clients, NEW p, Compare(c, p)
  PROVE  Asking'
  <1>1. /\ at[c] = "work" /\ turn = 1 /\ Visits(c, p) /\ ~broken'
        /\ UNCHANGED <<at, turn, calm, dir, lastSync, serving, asked>>
    BY DEF Compare, Works, history, Fine
  <1>2. /\ c \in R!Joined /\ c \in Replicas /\ Server \in Replicas /\ Server \notin Clients
        /\ p \in Paths /\ p \in todo[c] /\ todo'[c] = todo[c] \ {p}
        /\ \A d \in Clients \ {c} : todo'[d] = todo[d]
    BY <1>1, JoinedKnown, VisitsTyped, FileSyncAssumption DEF Ready, Typed, Replicas
  <1>3. \/ ~Has(Server, p) /\ UNCHANGED <<list, listing>>
        \/ Has(Server, p) /\ Has(c, p) /\ listing[c][p] # "none" /\ Mark(c, p)
        \/ Has(Server, p) /\ ~Has(c, p) /\ UNCHANGED listing
    BY <1>1 DEF Compare
  <1>4. Has(Server, p) =>
          \/ Append(p, Server, dir[Server][p].m) \/ ServerHasNewer(p)
          \/ ClientHasNewer(c, p) /\ Has(c, p)
          \/ MarkDeleted(p) /\ ~Has(c, p) /\ p \in lastSync[c]
    BY <1>1 DEF Compare, HadIt
  <1>5. \A q \in Above[p] \cup {p} : Has(Server, p) => q \in Paths /\ Has(Server, q)
    BY <1>2, PlaceKnown
  <1> DEFINE E(q) == \/ q \in DOMAIN list /\ list'[q] = list[q]
                     \/ /\ list'[q].deleted => Asked(q)
                        /\ Has(Server, q) \/ Asked(q) \/ list'[q].owner = c
                        /\ q \notin Dirs => \A d \in Clients : list'[q].owner = d =>
                             \/ d = c /\ (Has(c, q) \/ Asked(q))
                             \/ q \in DOMAIN list /\ list[q].owner = d
  <1>6. (Has(Server, p) => p \in DOMAIN list') /\ \A q \in DOMAIN list' : E(q)
    <2>1. CASE UNCHANGED list /\ (Has(Server, p) => p \in DOMAIN list)
      BY <2>1
    <2>2. ASSUME Has(Server, p), NEW r \in {c, Server}, Has(r, p), NEW m, NEW garbage,
                 p \notin DOMAIN list, list' = AppendFile(list, p, r, m, garbage)
          PROVE  p \in DOMAIN list' /\ \A q \in DOMAIN list' : E(q)
      <3>1. /\ p \in DOMAIN list' /\ \A q \in DOMAIN list : list'[q] = list[q]
        BY <1>2, <2>2, AppendKeeps
      <3>2. DOMAIN list' \subseteq DOMAIN list \cup Above[p] \cup {p}
        BY <1>2, <2>2, AppendAdds
      <3>3. list'[p] = Entry(p, r, m, FALSE)
        BY <2>2 DEF AppendFile
      <3>4. \A q \in DOMAIN list' \ (DOMAIN list \cup {p}) : list'[q] = Entry(q, garbage, 0, FALSE)
        BY <2>2 DEF AppendFile
      <3>5. list'[p].owner = r /\ ~list'[p].deleted
        BY <3>3 DEF Entry
      <3>6. \A q \in DOMAIN list' \ (DOMAIN list \cup {p}) : ~list'[q].deleted
        BY <3>4 DEF Entry
      <3>7. Above[p] \subseteq Dirs
        BY <1>2, PathsKnown
      <3>8. E(p)
        BY <1>2, <2>2, <3>5
      <3>9. ASSUME NEW q \in DOMAIN list', q # p PROVE E(q)
        BY <1>5, <2>2, <3>1, <3>2, <3>6, <3>7, <3>9
      <3> QED  BY <3>1, <3>8, <3>9
    <2>3. ASSUME Has(Server, p), NEW r \in {c, Server}, Has(r, p), p \in DOMAIN list, NEW m,
                 list' = [list EXCEPT ![p].m = m, ![p].owner = r]
          PROVE  p \in DOMAIN list' /\ \A q \in DOMAIN list' : E(q)
      <3>1. /\ DOMAIN list' = DOMAIN list /\ \A q \in DOMAIN list : q # p => list'[q] = list[q]
        BY <2>3
      <3>2. list'[p].owner = r /\ list'[p].deleted = list[p].deleted
        BY <2>3 DEF Ready, Typed, Listed, EntryOf
      <3>3. list[p].deleted => Asked(p)
        BY <2>3 DEF Asking, ListAsked
      <3> QED  BY <1>2, <2>3, <3>1, <3>2, <3>3
    <2>4. CASE Has(Server, p) /\ MarkDeleted(p) /\ ~Has(c, p) /\ p \in lastSync[c]
      <3>1. Asked(p)
        BY <1>1, <2>4 DEF Asking, MemoryAsked, Awaited, Names
      <3> DEFINE l == AppendFile(list, p, Server, Forever, Server)
      <3>2. /\ Listed(l) /\ p \in DOMAIN l
        BY <1>2, ListAppended DEF Ready, Typed, Forever
      <3>3. list' = [l EXCEPT ![p].deleted = TRUE, ![p].m = Forever]
        BY <2>4 DEF MarkDeleted
      <3>4. /\ \A q \in DOMAIN list : l[q] = list[q]
            /\ DOMAIN l \subseteq DOMAIN list \cup Above[p] \cup {p}
            /\ p \notin DOMAIN list => l[p].owner = Server
            /\ \A q \in DOMAIN l \ (DOMAIN list \cup {p}) : ~l[q].deleted
        <4>1. CASE p \in DOMAIN list
          BY <4>1 DEF AppendFile
        <4>2. CASE p \notin DOMAIN list
          <5>1. l = [q \in DOMAIN list \cup Above[p] \cup {p} |->
                       CASE q \in DOMAIN list -> list[q]
                         [] q = p -> Entry(p, Server, Forever, FALSE)
                         [] OTHER -> Entry(q, Server, 0, FALSE)]
            BY <4>2 DEF AppendFile
          <5> HIDE DEF l
          <5>2. DOMAIN l = DOMAIN list \cup Above[p] \cup {p} /\ \A q \in DOMAIN list : l[q] = list[q]
            BY <4>2, <5>1
          <5>3. l[p] = Entry(p, Server, Forever, FALSE)
            BY <4>2, <5>1
          <5>4. \A q \in DOMAIN l \ (DOMAIN list \cup {p}) : l[q] = Entry(q, Server, 0, FALSE)
            BY <5>1
          <5>5. l[p].owner = Server /\ \A q \in DOMAIN l \ (DOMAIN list \cup {p}) : ~l[q].deleted
            BY <5>3, <5>4 DEF Entry
          <5> QED  BY <5>2, <5>5
        <4> QED  BY <4>1, <4>2
      <3> HIDE DEF l
      <3>5. /\ DOMAIN list' = DOMAIN l /\ \A q \in DOMAIN l : q # p => list'[q] = l[q]
        BY <3>3
      <3>6. list'[p].owner = l[p].owner
        BY <3>2, <3>3 DEF Listed, EntryOf
      <3>7. Above[p] \subseteq Dirs
        BY <1>2, PathsKnown
      <3>8. E(p)
        BY <1>2, <2>4, <3>1, <3>4, <3>6
      <3>9. ASSUME NEW q \in DOMAIN list', q # p PROVE E(q)
        BY <1>5, <2>4, <3>4, <3>5, <3>7, <3>9
      <3> QED  BY <3>2, <3>5, <3>8, <3>9
    <2>5. CASE Has(Server, p) /\ (ServerHasNewer(p) \/ (ClientHasNewer(c, p) /\ Has(c, p)))
      <3>1. PICK r \in {c, Server} : /\ Has(r, p)
                                     /\ \/ p \notin DOMAIN list /\ list' = AppendFile(list, p, r, dir[r][p].m, Server)
                                        \/ p \in DOMAIN list /\ list' = [list EXCEPT ![p].m = dir[r][p].m, ![p].owner = r]
                                        \/ p \in DOMAIN list /\ list' = list
        BY <2>5 DEF ServerHasNewer, ClientHasNewer
      <3>2. CASE p \in DOMAIN list /\ list' = list
        BY <2>1, <3>2
      <3> HIDE DEF E
      <3> QED  BY <2>2, <2>3, <2>5, <3>1, <3>2
    <2>6. CASE Has(Server, p) /\ Append(p, Server, dir[Server][p].m)
      <3>1. CASE p \in DOMAIN list
        <4>1. list' = list
          BY <2>6, <3>1 DEF Append, AppendFile
        <4> QED  BY <2>1, <3>1, <4>1
      <3>2. CASE p \notin DOMAIN list
        <4>1. PICK garbage : list' = AppendFile(list, p, Server, dir[Server][p].m, garbage)
          BY <2>6 DEF Append
        <4> HIDE DEF E
        <4> QED  BY <2>2, <2>6, <3>2, <4>1
      <3> QED  BY <3>1, <3>2
    <2>7. CASE ~Has(Server, p)
      BY <1>3, <2>1, <2>7
    <2> QED  BY <1>4, <2>4, <2>5, <2>6, <2>7
  <1>7. ListAsked'
    BY <1>1, <1>2, <1>6, EnteredAsks
  <1>8. DOMAIN list \subseteq DOMAIN list'
    BY <1>1, EntriesStay DEF Ready, EndPhase, R!Turn
  <1>9. p \in Kept /\ listing'[c][p] = "new" => Asked(p)
    <2>1. CASE ~Has(Server, p)
      BY <2>1 DEF Asking, MemoryAsked, Names
    <2>2. CASE Has(Server, p) /\ Mark(c, p)
      <3>1. listing'[c][p] = "seen"
        BY <1>2, <2>2 DEF Mark, Ready, Typed
      <3> QED  BY <3>1
    <2>3. CASE ~Has(c, p) /\ UNCHANGED listing
      BY <1>2, <2>3 DEF Asking, ListingsAsked
    <2> QED  BY <1>3, <2>1, <2>2, <2>3
  <1>10. ListingsAsked' /\ MemoryAsked'
    BY <1>1, <1>2, <1>3, <1>6, <1>8, <1>9, MarkedAsks
  <1> QED  BY <1>7, <1>10 DEF Asking

\* What only the client has is offered, unless the server had it: what the
\* server has had and has no more, a user has deleted there.
LEMMA OfferAsks ==
  ASSUME Ready, Ready', Asking, [Next]_vars, NEW c \in Clients, NEW p, Offer(c, p)
  PROVE  Asking'
  <1>1. /\ at[c] = "work" /\ turn = 1 /\ todo[c] = {} /\ Mark(c, p) /\ p \in Paths
        /\ listing[c][p] = "new"
        /\ UNCHANGED <<at, turn, calm, dir, lastSync, todo, serving, asked>>
    BY DEF Offer, Works, history, First, Unmarked
  <1>2. /\ c \in R!Joined /\ c \in Replicas /\ Server \in Replicas /\ Server \notin Clients
    BY <1>1, JoinedKnown, FileSyncAssumption DEF Ready, Typed, Replicas
  <1>3. PICK m : list' = OfferedOrDeleted(c, p, m)
    BY DEF Offer
  <1>4. Above[p] \subseteq DOMAIN list
    <2> SUFFICES ASSUME NEW a \in Above[p] PROVE a \in DOMAIN list
      OBVIOUS
    <2>1. a \in Paths /\ listing[c][a] # "none"
      BY <1>1, PathsKnown DEF Asking, ListingsAsked
    <2>2. listing[c][a] # "new"
      BY <2>1 DEF Offer, First, Unmarked
    <2>3. listing[c][a] \in Marks
      BY <2>1 DEF Ready, Typed
    <2>4. listing[c][a] = "seen"
      BY <2>1, <2>2, <2>3 DEF Marks
    <2> QED  BY <1>1, <1>2, <2>1, <2>4 DEF Asking, ListingsAsked
  <1>5. Has(c, p) \/ Asked(p)
    BY <1>1 DEF Asking, ListingsAsked
  <1>6. p \in Kept => Asked(p)
    BY <1>1 DEF Asking, MemoryAsked
  <1> DEFINE l == AppendFile(list, p, c, m, Server)
  <1>7. /\ DOMAIN l = DOMAIN list \cup {p} /\ \A q \in DOMAIN list : l[q] = list[q]
        /\ p \notin DOMAIN list => l[p] = Entry(p, c, m, FALSE)
    <2>1. CASE p \in DOMAIN list
      BY <2>1 DEF AppendFile
    <2>2. CASE p \notin DOMAIN list
      <3>1. l = [q \in DOMAIN list \cup Above[p] \cup {p} |->
                   CASE q \in DOMAIN list -> list[q]
                     [] q = p -> Entry(p, c, m, FALSE)
                     [] OTHER -> Entry(q, Server, 0, FALSE)]
        BY <2>2 DEF AppendFile
      <3> HIDE DEF l
      <3>2. DOMAIN l = DOMAIN list \cup {p}
        BY <1>4, <3>1
      <3>3. \A q \in DOMAIN list : l[q] = list[q]
        BY <2>2, <3>1
      <3>4. l[p] = Entry(p, c, m, FALSE)
        BY <2>2, <3>1
      <3> QED  BY <3>2, <3>3, <3>4
    <2> QED  BY <2>1, <2>2
  <1>8. list' = IF p \in Kept THEN [l EXCEPT ![p].deleted = TRUE, ![p].m = Forever] ELSE l
    BY <1>3 DEF OfferedOrDeleted, Kept
  <1> HIDE DEF l
  <1>9. DOMAIN list' = DOMAIN list \cup {p} /\ \A q \in DOMAIN list \ {p} : list'[q] = list[q]
    BY <1>7, <1>8
  <1>10. p \notin DOMAIN list =>
           list'[p].owner = c /\ (list'[p].deleted => p \in Kept)
    <2> SUFFICES ASSUME p \notin DOMAIN list
                 PROVE  list'[p].owner = c /\ (list'[p].deleted => p \in Kept)
      OBVIOUS
    <2>1. l[p] = [owner |-> c, m |-> m, deleted |-> FALSE, path |-> p]
      BY <1>7 DEF Entry
    <2>2. CASE p \in Kept
      BY <1>7, <1>8, <2>1, <2>2
    <2>3. CASE p \notin Kept
      BY <1>8, <2>1, <2>3
    <2> QED  BY <2>2, <2>3
  <1>11. p \in DOMAIN list /\ p \in Kept => list'[p].owner = list[p].owner
    <2> SUFFICES ASSUME p \in DOMAIN list, p \in Kept PROVE list'[p].owner = list[p].owner
      OBVIOUS
    <2>1. l[p] \in EntryOf(p) /\ l[p] = list[p]
      BY <1>7 DEF Ready, Typed, Listed
    <2> QED  BY <1>7, <1>8, <2>1 DEF EntryOf
  <1>12. p \in DOMAIN list /\ p \notin Kept => list'[p] = list[p]
    BY <1>7, <1>8
  <1>13. ListAsked'
    BY <1>1, <1>2, <1>5, <1>6, <1>9, <1>10, <1>11, <1>12, EnteredAsks
  <1>14. listing'[c][p] = "seen"
    BY <1>1 DEF Mark, Ready, Typed
  <1>15. ListingsAsked' /\ MemoryAsked'
    BY <1>1, <1>9, <1>14, MarkedAsks
  <1> QED  BY <1>13, <1>15 DEF Asking

\* What a client owns is fetched.  A file that it has no more is taken for
\* deleted, and a user has deleted it.
LEMMA FetchAsks ==
  ASSUME Ready, Ready', Agreeing, Asking, Fine', NEW c \in Clients, NEW p, Fetch(c, p)
  PROVE  Asking'
  <1>1. /\ at[c] = "work" /\ turn = 2 /\ p \in DOMAIN list /\ list[p].owner = c /\ ~broken'
        /\ UNCHANGED <<at, turn, listing, todo, serving, calm, asked>>
    BY DEF Fetch, Works, history, First, Owned, Fine
  <1>2. /\ R!Joined' = R!Joined /\ c \in R!Joined /\ c \in Replicas /\ Server \in Replicas
        /\ Server \notin Clients /\ Sent \notin Clients /\ R!Joined \subseteq Clients
        /\ \A d \in Clients : d \in Replicas
    BY <1>1, JoinedKnown, FileSyncAssumption DEF R!Joined, Replicas, Sent
  <1>3. /\ Listed(list) /\ p \in Paths /\ list[p] \in EntryOf(p) /\ Above[p] \subseteq DOMAIN list
        /\ dir \in [Replicas -> Trees] /\ lastSync \in [Replicas -> Branches]
        /\ Above[p] \subseteq Paths
    BY <1>1, PathsKnown DEF Ready, Typed, Listed, Closed
  <1>4. /\ DOMAIN list' = DOMAIN list /\ \A q \in DOMAIN list : q # p => list'[q] = list[q]
        /\ list'[p].owner \in {Server, Sent}
    BY <1>1, <1>3 DEF Fetch, PassOver, EntryOf
  <1>5. list'[p].path = p
    BY <1>1, <1>4 DEF Fine, Cut
  <1>6. Kept' = Kept /\ \A d \in Clients \ {c} : lastSync'[d] = lastSync[d]
    BY <1>2, <1>3 DEF Fetch, Remembered, Kept
  \* The four ways to fetch it.
  <1>7. \/ list[p].deleted /\ list'[p].deleted /\ UNCHANGED <<dir, lastSync>>
        \/ /\ ~list[p].deleted /\ p \in Dirs /\ Above[p] = {} /\ CreateDirectory(Server, p)
           /\ ~list'[p].deleted /\ Remembered(c, p)
        \/ /\ ~list[p].deleted /\ p \notin Dirs /\ Has(c, p) /\ Write(Server, p, dir[c][p])
           /\ ~list'[p].deleted /\ Remembered(c, p) /\ HasPlace(Server, p)
        \/ /\ ~list[p].deleted /\ p \notin Dirs /\ ~Has(c, p)
           /\ Write(Server, p, [m |-> now, v |-> 0]) /\ UNCHANGED lastSync
    <2>1. CASE ~list[p].deleted /\ p \in Dirs
      <3>1. /\ list' = [list EXCEPT ![p].owner = Sent, ![p].path = Top(p)]
            /\ CreateDirectory(Server, p) /\ Remembered(c, p)
        BY <2>1 DEF Fetch
      <3>2. list'[p].path = Top(p) /\ list'[p].deleted = list[p].deleted
        BY <1>1, <1>3, <3>1 DEF EntryOf
      <3> QED  BY <1>3, <1>5, <2>1, <3>1, <3>2, TopKnown
    <2>2. CASE ~list[p].deleted /\ p \notin Dirs /\ Has(c, p)
      <3>1. list' = [list EXCEPT ![p].owner = Sent] /\ Write(Server, p, dir[c][p])
            /\ Remembered(c, p) /\ HasPlace(Server, p)
        BY <1>1, <2>2 DEF Fetch
      <3>2. list'[p].deleted = list[p].deleted
        BY <1>1, <1>3, <3>1 DEF EntryOf
      <3> QED  BY <2>2, <3>1, <3>2
    <2>3. CASE list[p].deleted
      <3>1. list' = [list EXCEPT ![p].owner = Server] /\ UNCHANGED <<dir, lastSync>>
        BY <2>3 DEF Fetch, PassOver
      <3>2. list'[p].deleted = list[p].deleted
        BY <1>1, <1>3, <3>1 DEF EntryOf
      <3> QED  BY <2>3, <3>1, <3>2
    <2>4. CASE ~list[p].deleted /\ p \notin Dirs /\ ~Has(c, p)
      BY <1>1, <2>4 DEF Fetch
    <2> QED  BY <2>1, <2>2, <2>3, <2>4
  <1>8. /\ \A d \in Clients, q \in Paths : Has(d, q)' <=> Has(d, q)
        /\ \A q \in Paths : Has(Server, q) => Has(Server, q)'
        /\ list[p].deleted \/ Has(Server, p)'
    <2>1. CASE UNCHANGED dir /\ list[p].deleted
      BY <2>1 DEF Has
    <2>2. CASE CreateDirectory(Server, p)
      BY <1>2, <1>3, <2>2, MadeKnown DEF Has
    <2>3. ASSUME NEW f, f.m # 0, Write(Server, p, f)
          PROVE  /\ \A d \in Clients, q \in Paths : Has(d, q)' <=> Has(d, q)
                 /\ \A q \in Paths : Has(Server, q) => Has(Server, q)'
                 /\ Has(Server, p)'
      BY <1>2, <1>3, <2>3, WriteKnown DEF Has
    <2>4. now # 0
      BY DEF Ready, Shaped, Typed
    <2>5. CASE Has(c, p) /\ Write(Server, p, dir[c][p])
      BY <2>3, <2>5 DEF Has
    <2>6. CASE Write(Server, p, [m |-> now, v |-> 0])
      BY <2>3, <2>4, <2>6
    <2> QED  BY <1>7, <2>1, <2>2, <2>5, <2>6
  <1>9. \A q : Asked(q)' <=> Asked(q)
    BY <1>1 DEF Asked
  <1>10. \A q \in DOMAIN list : list'[q].deleted => list[q].deleted \/ (q = p /\ Asked(p) /\ ~Has(c, p) /\ p \notin Dirs)
    BY <1>1, <1>4, <1>7 DEF Asking, ListAsked
  <1>11. ListingsAsked'
    BY <1>1, <1>2, <1>6, <1>8, <1>9 DEF Asking, ListingsAsked
  <1>12. ListAsked'
    <2>1. \A q \in DOMAIN list' : list'[q].deleted => Asked(q)
      BY <1>4, <1>10 DEF Asking, ListAsked
    <2>2. \A q \in DOMAIN list' \ Names(Server)' : Asked(q) \/ list'[q].owner \in R!Joined
      <3> SUFFICES ASSUME NEW q \in DOMAIN list, ~Has(Server, q)', ~Asked(q)
                   PROVE  list'[q].owner \in R!Joined
        BY <1>3, <1>4 DEF Names, Listed
      <3>1. q \in Paths /\ q \notin Names(Server)
        BY <1>3, <1>8 DEF Listed, Names
      <3>2. q # p
        BY <1>8 DEF Asking, ListAsked
      <3> QED  BY <1>4, <3>1, <3>2 DEF Asking, ListAsked
    <2>3. \A q \in DOMAIN list' \ Dirs : \A d \in Clients : list'[q].owner = d =>
            at[d] # "out" /\ (Has(d, q)' \/ Asked(q))
      <3>1. \A q \in DOMAIN list' : q \in Paths
        BY <1>3, <1>4 DEF Listed
      <3> QED  BY <1>2, <1>4, <1>8, <3>1 DEF Asking, ListAsked
    <2> QED  BY <1>1, <1>2, <1>9, <2>1, <2>2, <2>3 DEF ListAsked
  <1>13. \A d \in Clients : lastSync[d] \subseteq Paths /\ lastSync'[d] \subseteq Paths
    BY <1>2, <1>3 DEF Branches, Ready, Typed
  <1>14. \A q \in lastSync'[c] : \/ q \in lastSync[c]
                                 \/ q = p /\ ~list'[p].deleted /\ ~list[p].deleted
                                 \/ q \in Above[p] /\ Has(c, q) /\ Has(Server, q)
    <2>1. \/ UNCHANGED lastSync
          \/ Remembered(c, p) /\ ~list'[p].deleted /\ ~list[p].deleted
             /\ (Above[p] = {} \/ (Has(c, p) /\ HasPlace(Server, p)))
      BY <1>7
    <2>2. Has(c, p) /\ HasPlace(Server, p) => \A q \in Above[p] : Has(c, q) /\ Has(Server, q)
      BY <1>2, <1>3, PlaceKnown DEF HasPlace, Names
    <2> QED  BY <1>2, <1>3, <2>1, <2>2 DEF Remembered
  <1>15. MemoryAsked'
    <2>1. \A d \in Clients : \A q \in lastSync'[d] \ Names(d)' : Asked(q) \/ Awaited(d, q)'
      <3> SUFFICES ASSUME NEW d \in Clients, NEW q \in lastSync'[d], ~Has(d, q)', ~Asked(q)
                   PROVE  Awaited(d, q)'
        BY <1>13 DEF Names
      <3>0. q \in Paths /\ ~Has(d, q)
        BY <1>8, <1>13
      <3>1. CASE q \in lastSync[d]
        <4>1. Awaited(d, q)
          BY <3>0, <3>1 DEF Asking, MemoryAsked, Names
        <4>2. q \in DOMAIN list /\ ~list[q].deleted /\ ~list'[q].deleted
          BY <1>10, <4>1 DEF Awaited
        <4> QED  BY <1>1, <1>4, <4>2 DEF Awaited
      <3>2. CASE q \notin lastSync[d]
        <4>1. d = c
          BY <1>6, <3>2
        <4>2. q = p /\ ~list'[p].deleted
          BY <1>14, <3>0, <3>2, <4>1
        <4> QED  BY <1>1, <1>4, <4>2 DEF Awaited
      <3> QED  BY <3>1, <3>2
    <2>2. \A q \in Kept \ Names(Server)' : Asked(q)
      <3>1. Kept \subseteq Paths
        BY <1>2, <1>3 DEF Branches, Kept
      <3> QED  BY <1>8, <3>1 DEF Asking, MemoryAsked, Names
    <2>3. calm >= 2 => \A d \in R!Joined : \A q \in lastSync'[d] : q \in DOMAIN list /\ ~list'[q].deleted
      <3> SUFFICES ASSUME calm >= 2, NEW d \in R!Joined, NEW q \in lastSync'[d]
                   PROVE  q \in DOMAIN list /\ ~list'[q].deleted
        OBVIOUS
      <3>1. Decided
        BY <1>1 DEF Agreeing, Rested
      <3>2. list[p].deleted \/ Has(c, p)
        BY <1>1, <1>2, <3>1 DEF Decided, New
      <3>3. \A r \in DOMAIN list : list'[r].deleted => list[r].deleted
        BY <1>10, <3>2
      <3>4. CASE q \in lastSync[d]
        BY <1>1, <1>2, <3>3, <3>4 DEF Asking, MemoryAsked
      <3>5. CASE q = p /\ ~list'[p].deleted
        BY <1>1, <3>5
      <3>6. CASE q \in Above[p] /\ Has(Server, q)
        BY <1>3, <3>1, <3>3, <3>6 DEF Decided
      <3> QED  BY <1>2, <1>6, <1>14, <3>4, <3>5, <3>6
    <2> QED  BY <1>1, <1>2, <1>4, <1>6, <1>9, <2>1, <2>2, <2>3 DEF MemoryAsked
  <1> QED  BY <1>11, <1>12, <1>15 DEF Asking

\* An entry is sent to a client: what is deleted there was asked for, and the
\* rest is there when it is remembered.
LEMMA ServeAsks ==
  ASSUME Ready, Ready', Agreeing, Asking, Fine, Fine', NEW c \in Clients, NEW p, Serve(c, p)
  PROVE  Asking'
  <1>1. /\ at[c] = "work" /\ turn = 3 /\ serving = c /\ Visits(c, p) /\ ~broken'
        /\ UNCHANGED <<at, turn, list, listing, serving, calm, asked>>
    BY DEF Serve, Works, history, Fine
  <1>2. /\ R!Joined' = R!Joined /\ c \in R!Joined /\ c \in Replicas /\ Server \in Replicas
        /\ Server # c /\ R!Joined \subseteq Clients /\ Server \notin Clients
        /\ \A d \in Clients : d \in Replicas
    BY <1>1, JoinedKnown, FileSyncAssumption DEF R!Joined, Replicas
  <1>3. /\ p \in Paths /\ p \in todo[c] /\ todo'[c] = todo[c] \ {p} /\ p \in DOMAIN list
        /\ Above[p] \subseteq Paths
    <2>1. serving # NoClient
      BY <1>1, FileSyncAssumption DEF Replicas
    <2> QED  BY <1>1, <2>1, VisitsTyped, PathsKnown DEF Ready, Typed, Serves
  <1>4. /\ Listed(list) /\ list[p] \in EntryOf(p) /\ Above[p] \subseteq DOMAIN list
        /\ dir \in [Replicas -> Trees] /\ lastSync \in [Replicas -> Branches]
        /\ list[p].path = p
        /\ \A r \in Replicas : dir[r] \in [Paths -> File]
    BY <1>3, FileKnown DEF Ready, Typed, Listed, Closed, Fine, Cut, Trees
  <1>5. Kept' = Kept /\ \A d \in Clients \ {c} : lastSync'[d] = lastSync[d]
    BY <1>2, <1>4 DEF Serve, ServeDirectory, ServeFile, Remembered, Kept
  \* The ways to send it.
  <1>6. \/ p \in Dirs /\ list[p].deleted /\ RemoveDirectory(c, p) /\ UNCHANGED lastSync
        \/ p \in Dirs /\ ~list[p].deleted /\ CreateDirectory(c, p) /\ Remembered(c, p)
        \/ p \notin Dirs /\ list[p].deleted /\ Write(c, p, Absent) /\ UNCHANGED lastSync
        \/ /\ p \notin Dirs /\ ~list[p].deleted /\ HasPlace(c, p) /\ Remembered(c, p)
           /\ Write(c, p, [m |-> list[p].m, v |-> dir[Server][p].v])
    <2>1. IF p \in Dirs THEN ServeDirectory(c, list[p]) ELSE ServeFile(c, p, list[p])
      BY DEF Serve
    <2>2. CASE p \in Dirs
      BY <1>4, <2>1, <2>2 DEF ServeDirectory
    <2>3. CASE p \notin Dirs
      BY <1>1, <2>1, <2>3 DEF ServeFile
    <2> QED  BY <2>2, <2>3
  <1>7. list[p].deleted => \A q \in Below(p) : Asked(q)
    BY <1>3, AskedBelow DEF Asking, ListAsked
  <1>8. /\ \A r \in Replicas \ {c} : dir'[r] = dir[r]
        /\ \A q \in Paths : Has(c, q) => Has(c, q)' \/ Asked(q)
        /\ ~list[p].deleted => \A q \in Above[p] \cup {p} : Has(c, q)'
    <2>1. CASE list[p].deleted /\ RemoveDirectory(c, p)
      BY <1>2, <1>4, <1>7, <2>1 DEF RemoveDirectory, Without, Has
    <2>2. CASE ~list[p].deleted /\ CreateDirectory(c, p)
      BY <1>2, <1>3, <2>2, MadeKnown
    <2>3. ASSUME NEW f, Write(c, p, f)
          PROVE  /\ \A r \in Replicas \ {c} : dir'[r] = dir[r]
                 /\ \A q \in Paths : q # p => dir'[c][q] = dir[c][q]
                 /\ dir'[c][p] = f
      BY <1>2, <1>3, <1>4, <2>3 DEF Write
    <2>4. CASE list[p].deleted /\ Write(c, p, Absent)
      <3>1. p \in Below(p)
        BY <1>3 DEF Below
      <3> QED  BY <1>7, <2>3, <2>4, <3>1 DEF Has
    <2>5. CASE ~list[p].deleted /\ p \notin Dirs /\ HasPlace(c, p)
               /\ Write(c, p, [m |-> list[p].m, v |-> dir[Server][p].v])
      <3>1. list[p].m # 0
        BY <1>3, <2>5 DEF Ready, Shaped, ListShaped, EntryLike
      <3>2. Has(c, p)' /\ \A q \in Paths : q # p => (Has(c, q)' <=> Has(c, q))
        BY <2>3, <2>5, <3>1 DEF Has
      <3>3. \A q \in Above[p] : Has(c, q)
        BY <2>5 DEF HasPlace, Names
      <3> QED  BY <1>3, <2>3, <2>5, <3>2, <3>3
    <2> QED  BY <1>6, <2>1, <2>2, <2>4, <2>5
  <1>9. \A q : Asked(q)' <=> Asked(q)
    BY <1>1 DEF Asked
  <1>10. Names(Server)' = Names(Server)
    BY <1>2, <1>8 DEF Names, Has
  <1>11. \A d \in Clients, q \in Paths : Has(d, q) => Has(d, q)' \/ Asked(q)
    BY <1>2, <1>8 DEF Has
  <1>12. ListingsAsked'
    BY <1>1, <1>2, <1>5, <1>9, <1>11 DEF Asking, ListingsAsked
  <1>13. ListAsked'
    <2>1. \A q \in DOMAIN list : q \in Paths
      BY <1>4 DEF Listed
    <2> QED  BY <1>1, <1>2, <1>9, <1>10, <1>11, <2>1 DEF Asking, ListAsked
  <1>14. \A d \in Clients : lastSync[d] \subseteq Paths /\ lastSync'[d] \subseteq Paths
    BY <1>2, <1>4 DEF Branches, Ready, Typed
  <1>15. \A q \in lastSync'[c] : q \in lastSync[c] \/ (q \in Above[p] \cup {p} /\ ~list[p].deleted)
    BY <1>2, <1>4, <1>6 DEF Remembered
  <1>16. MemoryAsked'
    <2>1. \A d \in Clients : \A q \in lastSync'[d] \ Names(d)' : Asked(q) \/ Awaited(d, q)'
      <3> SUFFICES ASSUME NEW d \in Clients, NEW q \in lastSync'[d], ~Has(d, q)', ~Asked(q)
                   PROVE  Awaited(d, q)'
        BY <1>14 DEF Names
      <3>1. q \in Paths /\ ~Has(d, q)
        BY <1>11, <1>14
      <3>2. q \in lastSync[d]
        BY <1>5, <1>8, <1>15
      <3>3. Awaited(d, q)
        BY <3>1, <3>2 DEF Asking, MemoryAsked, Names
      <3>4. CASE d = c
        <4>1. q \in todo[c] /\ ~list[q].deleted /\ q \in DOMAIN list
          BY <1>1, <3>3, <3>4 DEF Awaited
        <4>2. q # p
          BY <1>8, <3>4, <4>1
        <4> QED  BY <1>1, <1>3, <3>4, <4>1, <4>2 DEF Awaited
      <3>5. CASE d # c
        BY <1>1, <3>3, <3>5 DEF Awaited
      <3> QED  BY <3>4, <3>5
    <2>2. \A q \in Kept \ Names(Server)' : Asked(q)
      BY <1>10 DEF Asking, MemoryAsked
    <2>3. calm >= 2 => \A d \in R!Joined : \A q \in lastSync'[d] : q \in DOMAIN list /\ ~list[q].deleted
      <3> SUFFICES ASSUME calm >= 2, NEW d \in R!Joined, NEW q \in lastSync'[d]
                   PROVE  q \in DOMAIN list /\ ~list[q].deleted
        OBVIOUS
      <3>1. Decided
        BY <1>1 DEF Agreeing, Rested
      <3>2. CASE q \in lastSync[d]
        BY <1>1, <1>2, <3>2 DEF Asking, MemoryAsked
      <3>3. CASE q = p /\ ~list[p].deleted
        BY <1>3, <3>3
      <3>4. CASE q \in Above[p] /\ ~list[p].deleted
        <4>1. ~New(p)
          BY <1>1, <1>2, <1>3 DEF Agreeing, Owners, Owned, New
        <4>2. Has(Server, p)
          BY <1>3, <3>1, <3>4, <4>1 DEF Decided
        <4>3. Has(Server, q)
          BY <1>2, <1>3, <3>4, <4>2, PlaceKnown
        <4> QED  BY <1>4, <3>1, <3>4, <4>3 DEF Decided
      <3> QED  BY <1>2, <1>5, <1>15, <3>2, <3>3, <3>4
    <2> QED  BY <1>1, <1>2, <1>5, <1>9, <2>1, <2>2, <2>3 DEF MemoryAsked
  <1> QED  BY <1>12, <1>13, <1>16 DEF Asking

\* A phase ends and the next begins: nobody awaits in phase 1, and in phase 2
\* everybody who remembers is in the round.
LEMMA EndPhaseAsks ==
  ASSUME Ready, Ready', Asking, EndPhase, turn # 3
  PROVE  Asking'
  <1>1. /\ R!Joined # {} /\ \A c \in R!Joined : at[c] = "done"
        /\ at' = [c \in Clients |-> IF c \notin R!Joined THEN at[c] ELSE "work"] /\ turn' = turn + 1
        /\ turn \in {1, 2}
        /\ UNCHANGED <<dir, list, lastSync, calm, listing, todo, serving, asked>>
    BY DEF EndPhase, R!Turn, Ready, Typed, R!RoundsTypeOK
  <1>2. R!Joined \subseteq Clients /\ \A c \in Clients : c \in Replicas
    BY JoinedKnown DEF Replicas, Ready
  <1>3. R!Joined' = R!Joined /\ \A c \in R!Joined : at'[c] = "work"
    BY <1>1, <1>2 DEF R!Joined
  <1>4. \A c \in Clients : at'[c] \in {"out", "alone", "work"} /\ (at'[c] = "out" => at[c] = "out")
    BY <1>1, <1>2, <1>3 DEF R!Joined
  <1>5. /\ \A p : Asked(p)' <=> Asked(p)
        /\ \A r \in Replicas : Names(r)' = Names(r)
        /\ \A p \in Kept' \ Names(Server)' : Asked(p)'
        /\ ListAsked'
    BY <1>1, <1>3, <1>4, TurnsAsk
  <1>6. ListingsAsked'
    BY <1>1, <1>3, <1>4, <1>5 DEF Asking, ListingsAsked, Has
  <1>7. MemoryAsked'
    <2>1. \A c \in Clients : \A p \in lastSync[c] \ Names(c) : Asked(p) \/ Awaited(c, p)'
      <3> SUFFICES ASSUME NEW c \in Clients, NEW p \in lastSync[c] \ Names(c), Awaited(c, p)
                   PROVE  Awaited(c, p)'
        BY DEF Asking, MemoryAsked
      <3>1. turn = 2 /\ p \in DOMAIN list /\ ~list[p].deleted
        BY <1>1 DEF Awaited
      <3>2. at[c] # "out"
        BY DEF Asking, ListingsAsked
      <3>3. c \in R!Joined
        BY <3>1, <3>2 DEF Ready, Apart, R!Joined
      <3>4. serving = NoClient /\ NoClient \notin Clients
        BY <3>1, FileSyncAssumption DEF Ready, Serves, Works, Replicas
      <3> QED  BY <1>1, <1>3, <3>1, <3>3, <3>4 DEF Awaited
    <2>2. calm >= 2 => \A c \in R!Joined : \A p \in lastSync[c] : p \in DOMAIN list /\ ~list[p].deleted
      <3>1. CASE turn = 1
        BY <1>1, <1>2, <3>1 DEF Asking, MemoryAsked
      <3>2. CASE turn = 2
        BY <3>2 DEF Asking, MemoryAsked
      <3> QED  BY <1>1, <3>1, <3>2
    <2>3. \A c \in Clients : \A p \in lastSync'[c] \ Names(c)' : (Asked(p) \/ Awaited(c, p))'
      BY <1>1, <1>2, <1>5, <2>1
    <2>4. turn' # 1
      BY <1>1
    <2> QED  BY <1>1, <1>3, <1>5, <2>2, <2>3, <2>4 DEF MemoryAsked
  <1> QED  BY <1>5, <1>6, <1>7 DEF Asking

\* A round ends.  When the replicas agree, all is forgotten that was asked
\* for, and there is nothing left that it explains.
LEMMA CleanListsAsks ==
  ASSUME Ready, Ready', Agreeing, Asking, Fine, EndPhase, turn = 3
  PROVE  Asking'
  <1>1. /\ R!Joined # {} /\ \A c \in R!Joined : at[c] = "done"
        /\ at' = [c \in Clients |-> IF c \notin R!Joined THEN at[c] ELSE "gate"] /\ turn' = 1
        /\ CleanLists /\ calm' = IF calm >= 3 THEN calm ELSE calm + 1
        /\ UNCHANGED <<listing, todo>>
        /\ asked' = IF calm' >= 3 THEN {} ELSE asked
    BY DEF EndPhase, R!Turn, Settled
  <1>2. /\ R!Joined \subseteq Clients /\ Server \notin Clients /\ Server \in Replicas
        /\ \A c \in Clients : c \in Replicas
        /\ \A c \in Clients \ R!Joined : at[c] = "out" /\ at'[c] = "out"
    BY <1>1, JoinedKnown, FileSyncAssumption DEF Replicas, Ready, Apart
  <1>3. R!Joined' = R!Joined /\ \A c \in R!Joined : at'[c] = "gate"
    BY <1>1, <1>2 DEF R!Joined
  <1>4. /\ DOMAIN list' = DOMAIN list \ Gone /\ Kept' = DOMAIN list'
        /\ \A p \in DOMAIN list' : list'[p] = list[p] /\ ~list[p].deleted
        /\ \A c \in Clients : dir'[c] = dir[c]
        /\ \A p \in Paths \ Gone : dir'[Server][p] = dir[Server][p]
    BY <1>1, CleanedUp
  <1>5. /\ DOMAIN list \subseteq Paths
        /\ \A c \in R!Joined : Served(c) = DOMAIN list
        /\ \A p \in DOMAIN list : list[p].owner \notin R!Joined
    <2>1. \A c \in R!Joined : Owned(c) = {}
      BY DEF Agreeing, Owners
    <2> QED  BY <1>1, <2>1 DEF Ready, Typed, Listed, Served, Owned
  <1>6. \A c \in Clients : /\ lastSync'[c] = lastSync[c] /\ lastSync[c] \subseteq Paths
                           /\ Names(c)' = Names(c)
                           /\ \A p : Has(c, p)' <=> Has(c, p)
    BY <1>1, <1>2, <1>4 DEF CleanLists, Ready, Typed, Branches, Names, Has
  <1>7. \A p \in DOMAIN list \ Dirs : \A c \in Clients : list[p].owner # c
    BY <1>2, <1>5 DEF Asking, ListAsked
  <1>8. \A c \in R!Joined, p \in Paths : listing'[c][p] # "seen"
    BY <1>1 DEF Asking, ListingsAsked
  <1>9. \A c \in Clients : at'[c] = "out" => lastSync'[c] = {} /\ \A p \in Paths : listing'[c][p] = "none"
    BY <1>1, <1>3, <1>2, <1>6 DEF Asking, ListingsAsked
  <1>10. \A c \in Clients : at'[c] \notin {"done", "work"}
    BY <1>2, <1>3
  <1>11. (\A c \in Clients, p \in Paths : listing[c][p] # "none" /\ ~Has(c, p) => Asked(p)')
           => ListingsAsked'
    BY <1>1, <1>3, <1>6, <1>8, <1>9 DEF Asking, ListingsAsked
  <1>12. ASSUME \A c \in Clients : \A p \in lastSync[c] \ Names(c) : Asked(p)',
                \A p \in Kept' \ Names(Server)' : Asked(p)'
         PROVE  MemoryAsked' /\ ListAsked'
    <2>1. MemoryAsked'
      BY <1>1, <1>6, <1>10, <1>12 DEF MemoryAsked
    <2>2. ListAsked'
      BY <1>4, <1>7, <1>12 DEF ListAsked
    <2> QED  BY <2>1, <2>2
  <1>13. CASE ~(calm' >= 3)
    <2>1. \A p : Asked(p)' <=> Asked(p)
      BY <1>1, <1>13 DEF Asked
    <2>2. \A c \in Clients : \A p \in lastSync[c] \ Names(c) : Asked(p)
      <3> SUFFICES ASSUME NEW c \in Clients, NEW p \in lastSync[c] \ Names(c), Awaited(c, p)
                   PROVE  FALSE
        BY DEF Asking, MemoryAsked
      <3>1. at[c] = "work"
        BY DEF Awaited
      <3> QED  BY <1>1, <3>1 DEF R!Joined
    <2>3. \A p \in Kept' \ Names(Server)' : Asked(p)
      <3> SUFFICES ASSUME NEW p \in Kept', p \notin Names(Server)' PROVE Asked(p)
        OBVIOUS
      <3>1. p \in DOMAIN list /\ p \in Paths /\ p \notin Gone
        BY <1>4, <1>5
      <3>2. p \notin Names(Server)
        BY <1>4, <3>1 DEF Names, Has
      <3> QED  BY <1>5, <3>1, <3>2 DEF Asking, ListAsked
    <2>4. \A c \in Clients, p \in Paths : listing[c][p] # "none" /\ ~Has(c, p) => Asked(p)
      BY DEF Asking, ListingsAsked
    <2> QED  BY <1>11, <1>12, <2>1, <2>2, <2>3, <2>4 DEF Asking
  <1>14. CASE calm' >= 3
    <2>1. calm >= 2 /\ calm' >= 2
      BY <1>1, <1>14 DEF Ready, Typed
    <2>2. Agreeing'
      BY CleanListsAgrees
    <2>3. Level' /\ \A c \in R!Joined : Told(c)'
      BY <1>1, <1>3, <1>14, <2>1, <2>2 DEF Agreeing, Rested
    <2>4. \A c \in Clients, p \in Paths : listing[c][p] # "none" => Has(c, p)
      <3> SUFFICES ASSUME NEW c \in Clients, NEW p \in Paths, listing[c][p] # "none"
                   PROVE  Has(c, p)
        OBVIOUS
      <3>1. CASE c \in R!Joined
        BY <1>1, <1>3, <1>6, <2>3, <3>1 DEF Told, Fresh
      <3>2. CASE c \notin R!Joined
        BY <1>2, <3>2 DEF Asking, ListingsAsked
      <3> QED  BY <3>1, <3>2
    <2>5. \A c \in Clients : lastSync[c] \subseteq Names(c)
      <3> SUFFICES ASSUME NEW c \in Clients, NEW p \in lastSync[c] PROVE p \in Names(c)
        OBVIOUS
      <3>1. CASE c \in R!Joined
        <4>1. p \in DOMAIN list /\ ~list[p].deleted
          BY <2>1, <3>1 DEF Asking, MemoryAsked
        <4>2. Delivered(c)
          BY <2>1, <3>1 DEF Agreeing, Gathered, Ready, Typed
        <4> QED  BY <1>5, <3>1, <4>1, <4>2 DEF Delivered, Got, Names
      <3>2. CASE c \notin R!Joined
        BY <1>2, <3>2 DEF Asking, ListingsAsked
      <3> QED  BY <3>1, <3>2
    <2>6. Kept' = Names(Server)'
      BY <2>3 DEF Level
    <2> QED  BY <1>11, <1>12, <2>4, <2>5, <2>6 DEF Asking
  <1> QED  BY <1>13, <1>14

\* Whatever the step, and as long as all is well.
LEMMA AskingKept ==
  ASSUME Ready, Fine => Agreeing /\ Asking, [Next]_vars
  PROVE  (Ready /\ (Fine => Agreeing /\ Asking))'
  <1>1. Ready' /\ (Fine' => Agreeing')
    BY AgreeingKept
  <1> SUFFICES ASSUME Fine' PROVE Asking'
    BY <1>1
  <1>2. Fine /\ Agreeing /\ Asking
    BY FineBefore DEF Ready
  <1>3. CASE UNCHANGED vars
    BY <1>2, <1>3 DEF vars, lists, history, Asking, ListingsAsked, MemoryAsked, ListAsked, Asked, Awaited,
                      Kept, R!Joined, Names, Has
  <1>4. CASE EndPhase
    BY <1>1, <1>2, <1>4, CleanListsAsks, EndPhaseAsks
  <1>5. CASE User
    BY <1>1, <1>2, <1>5, UserAsks
  <1>6. ASSUME NEW c \in Clients, Connect(c) PROVE Asking'
    BY <1>1, <1>2, <1>6, ConnectAsks
  <1>7. ASSUME NEW c \in Clients, Thread(c) PROVE Asking'
    <2>1. ASSUME NEW p, Exchange(c, p) \/ Upload(c, p) \/ Compare(c, p) \/ Offer(c, p)
                        \/ Serve(c, p) \/ Fetch(c, p)
          PROVE  Asking'
      BY <1>1, <1>2, <2>1, ExchangeAsks, UploadAsks, CompareAsks, OfferAsks, ServeAsks, FetchAsks
    <2>2. CASE EndConnection(c) \/ StartRound(c) \/ EndCompare(c) \/ EndFetch(c) \/ BeginServe(c)
               \/ EndServe(c)
      BY <1>1, <1>2, <2>2, EndConnectionAsks, FirstPhaseAsks, LaterPhaseAsks
    <2> QED  BY <1>7, <2>1, <2>2 DEF Thread
  <1> QED  BY <1>3, <1>4, <1>5, <1>6, <1>7 DEF Next, System

\* What is taken away when a list is cleaned up is deleted in it.
LEMMA CleanUpRemoves ==
  ASSUME Ready, Asking, Fine, CleanLists,
         NEW r \in Replicas, NEW p \in Paths, Has(r, p), ~Has(r, p)'
  PROVE  Asked(p)
  <1>1. p \in Gone
    BY CleanedUp DEF Replicas, Has
  <1>2. PICK q \in DOMAIN list : list[q].deleted /\ p \in Below(q)
    BY <1>1, GoneKnown
  <1>3. q \in Paths /\ Asked(q)
    BY <1>2 DEF Asking, ListAsked, Ready, Typed, Listed
  <1> QED  BY <1>2, <1>3, AskedBelow

\* What is taken away when a client connects, it had listed and has no more.
LEMMA ConnectionRemoves ==
  ASSUME Ready, Asking, NEW c \in Clients, NEW q, Exchange(c, q) \/ Upload(c, q),
         NEW r \in Replicas, NEW p \in Paths, Has(r, p), ~Has(r, p)'
  PROVE  Asked(p)
  <1>1. q \in Paths /\ c \in Replicas /\ Server \in Replicas
    BY VisitsTyped DEF Exchange, Upload, First, Unmarked, Replicas, Ready
  <1>2. ASSUME NEW s \in Replicas, CreateDirectory(s, q) PROVE FALSE
    BY <1>1, <1>2, MadeKnown
  <1>3. ASSUME NEW s \in Replicas, NEW f, f.m # 0, Write(s, q, f) PROVE FALSE
    BY <1>1, <1>3, WriteKnown DEF Has
  <1>4. CASE UNCHANGED dir
    BY <1>4 DEF Has
  <1>5. CASE Has(Server, q) /\ ClientReceives(c, q)
    BY <1>1, <1>3, <1>4, <1>5 DEF ClientReceives, Break, Has
  <1>6. CASE listing[c][q] # "none" /\ ClientSends(c, q)
    <2>1. CASE Has(c, q)
      BY <1>1, <1>3, <1>6, <2>1 DEF ClientSends, Has
    <2>2. CASE ~Has(c, q)
      <3>1. Asked(q) /\ Write(Server, q, Absent)
        BY <1>1, <1>6, <2>2 DEF ClientSends, Asking, ListingsAsked
      <3>2. p = q
        BY <1>1, <3>1, WriteKnown DEF Has
      <3> QED  BY <3>1, <3>2
    <2> QED  BY <2>1, <2>2
  <1>7. CASE Exchange(c, q)
    BY <1>1, <1>2, <1>4, <1>5, <1>6, <1>7 DEF Exchange, ExchangeDirectory
  <1>8. CASE Upload(c, q)
    <2>1. listing[c][q] # "none"
      BY <1>8 DEF Upload, First, Unmarked
    <2> QED  BY <1>1, <1>2, <1>4, <1>6, <1>8, <2>1 DEF Upload, Break
  <1> QED  BY <1>7, <1>8

\* A file that is fetched is there, even if its client has it no more.
LEMMA FetchRemoves ==
  ASSUME Ready, NEW c \in Clients, NEW q \in DOMAIN list, Fetch(c, q),
         NEW r \in Replicas, NEW p \in Paths, Has(r, p)
  PROVE  Has(r, p)'
  <1>1. q \in Paths /\ Server \in Replicas /\ now # 0
    BY DEF Ready, Typed, Listed, Replicas, Shaped
  <1>2. CASE CreateDirectory(Server, q)
    BY <1>1, <1>2, MadeKnown
  <1>3. ASSUME NEW f, f.m # 0, Write(Server, q, f) PROVE Has(r, p)'
    BY <1>1, <1>3, WriteKnown DEF Has
  <1>4. CASE UNCHANGED dir
    BY <1>4 DEF Has
  <1>5. CASE Has(c, q) /\ Write(Server, q, dir[c][q])
    BY <1>3, <1>5 DEF Has
  <1>6. CASE Write(Server, q, [m |-> now, v |-> 0])
    BY <1>1, <1>3, <1>6
  <1> QED  BY <1>2, <1>4, <1>5, <1>6 DEF Fetch

\* What is taken away from a client in phase 3 is deleted in the list, or was
\* deleted at the server after it was entered there.
LEMMA ServeRemoves ==
  ASSUME Ready, Agreeing, Asking, Fine, NEW c \in Clients, NEW q, Serve(c, q),
         NEW r \in Replicas, NEW p \in Paths, Has(r, p), ~Has(r, p)'
  PROVE  Asked(p)
  <1>1. /\ turn = 3 /\ serving = c /\ Visits(c, q)
        /\ IF q \in Dirs THEN ServeDirectory(c, list[q]) ELSE ServeFile(c, q, list[q])
    BY DEF Serve, Works
  <1>2. q \in Paths /\ q \in DOMAIN list /\ c \in Replicas /\ Server \in Replicas
    <2>1. serving # NoClient
      BY <1>1, FileSyncAssumption DEF Replicas
    <2> QED  BY <1>1, <2>1, VisitsTyped DEF Ready, Typed, Serves, Replicas
  <1>3. list[q].path = q /\ list[q].m \in Nat
    BY <1>2 DEF Fine, Cut, Ready, Typed, Listed, EntryOf
  <1>4. ASSUME Asked(q), Write(c, q, Absent) PROVE Asked(p)
    <2>1. p = q
      BY <1>2, <1>4, WriteKnown DEF Has
    <2> QED  BY <1>4, <2>1
  <1>5. CASE q \in Dirs
    <2>1. CASE list[q].deleted
      <3>1. RemoveDirectory(c, q) /\ Asked(q)
        BY <1>1, <1>2, <1>3, <1>5, <2>1 DEF ServeDirectory, Asking, ListAsked
      <3>2. dir[c] \in [Paths -> File] /\ dir \in [Replicas -> Trees]
        BY <1>2, FileKnown DEF Ready, Typed
      <3>3. p \in Below(q)
        BY <1>2, <3>1, <3>2 DEF RemoveDirectory, Without, Has
      <3> QED  BY <1>2, <3>1, <3>3, AskedBelow
    <2>2. CASE ~list[q].deleted
      <3>1. CreateDirectory(c, q)
        BY <1>1, <1>3, <1>5, <2>2 DEF ServeDirectory
      <3> QED  BY <1>2, <3>1, MadeKnown
    <2> QED  BY <2>1, <2>2
  <1>6. CASE q \notin Dirs
    <2>1. ServeFile(c, q, list[q])
      BY <1>1, <1>6
    <2>2. CASE list[q].deleted /\ Write(c, q, Absent)
      BY <1>2, <1>4, <2>2 DEF Asking, ListAsked
    <2>3. CASE Write(c, q, [m |-> list[q].m, v |-> dir[Server][q].v])
      <3>1. list[q].m # 0
        BY <1>2, <1>6 DEF Ready, Shaped, ListShaped, EntryLike
      <3>2. dir'[c][q].m # 0 /\ \A s \in Replicas, x \in Paths : s # c \/ x # q => dir'[s][x] = dir[s][x]
        BY <1>2, <2>3, <3>1, WriteKnown
      <3> QED  BY <3>2 DEF Has
    <2>4. CASE ~Has(Server, q) /\ Write(c, q, Absent)
      <3>1. list[q].owner \notin R!Joined
        BY <1>1, <1>2 DEF Agreeing, Owners, Owned, R!Joined
      <3>2. Asked(q)
        BY <1>2, <2>4, <3>1 DEF Asking, ListAsked, Names
      <3> QED  BY <1>4, <2>4, <3>2
    <2>5. CASE UNCHANGED dir
      BY <2>5 DEF Has
    <2> QED  BY <2>1, <2>2, <2>3, <2>4, <2>5 DEF ServeFile
  <1> QED  BY <1>5, <1>6

\* A step of the program that takes something away.
LEMMA RemovedAsked ==
  ASSUME Ready, Fine => Agreeing /\ Asking, Next, edits' = edits, Cut = {},
         NEW r \in Replicas, NEW p \in Names(r), dir'[r][p] = Absent
  PROVE  Asked(p)
  <1>1. p \in Paths /\ Has(r, p) /\ ~Has(r, p)'
    BY DEF Names, Has, Absent
  <1>2. Fine /\ Agreeing /\ Asking
    BY DEF Next, Fine
  <1>3. dir' # dir
    BY <1>1 DEF Has
  <1>4. ~User
    BY DEF User, Create, Modify, Delete, Acts, Ready, Typed
  <1>5. CASE EndPhase
    BY <1>1, <1>2, <1>3, <1>5, CleanUpRemoves DEF EndPhase
  <1>6. ASSUME NEW c \in Clients, NEW q,
               Exchange(c, q) \/ Upload(c, q) \/ Serve(c, q) \/ (q \in DOMAIN list /\ Fetch(c, q))
        PROVE  Asked(p)
    BY <1>1, <1>2, <1>6, ConnectionRemoves, ServeRemoves, FetchRemoves
  <1>7. ASSUME NEW c \in Clients, Thread(c) PROVE Asked(p)
    BY <1>3, <1>6, <1>7 DEF Thread, EndConnection, StartRound, EndCompare, EndFetch, BeginServe, EndServe,
                            Compare, Offer
  <1>8. ASSUME NEW c \in Clients, Connect(c) PROVE FALSE
    BY <1>3, <1>8 DEF Connect
  <1> QED  BY <1>4, <1>5, <1>7, <1>8 DEF Next, System

\* The program removes a file anywhere only if a user has deleted it, or a
\* directory that it is in, since the replicas last agreed: for any number of
\* clients, any finite tree of names and users who act at any time, what is
\* missing from a directory, a listing, a listLastSync or listUpdated because
\* it is new, or has not arrived yet, is never taken for deleted.
THEOREM RemovesOnlyWhatIsAsked == Spec => RemovedOnlyIfAsked
  <1>1. Init => Ready /\ (Fine => Agreeing /\ Asking)
    <2> SUFFICES ASSUME Init PROVE Ready /\ Agreeing /\ Asking
      OBVIOUS
    <2>1. Ready
      BY TypedAtStart, ShapedAtStart DEF Ready
    <2>2. calm = 0 /\ turn = 1 /\ DOMAIN list = {} /\ Agreeing
      BY DEF Init, Agreeing, Owners
    <2>3. \A r \in Replicas : lastSync[r] = {}
      BY DEF Init
    <2>4. ListingsAsked
      BY <2>2, <2>3 DEF Init, ListingsAsked, R!Joined, Replicas
    <2>5. MemoryAsked
      BY <2>2, <2>3 DEF Init, MemoryAsked, Kept, Replicas
    <2>6. ListAsked
      BY <2>2 DEF ListAsked
    <2> QED  BY <2>1, <2>2, <2>4, <2>5, <2>6 DEF Asking
  <1>2. Ready /\ (Fine => Agreeing /\ Asking) /\ [Next]_vars
          => (Ready /\ (Fine => Agreeing /\ Asking))'
    BY AskingKept
  <1>3. Ready /\ (Fine => Agreeing /\ Asking) /\ [Next]_vars
          => [edits' = edits /\ Cut = {} =>
                \A r \in Replicas : \A p \in Names(r) :
                  dir'[r][p] = Absent => \E q \in asked : p \in Below(q)]_vars
    BY RemovedAsked DEF Asked
  <1> QED  BY <1>1, <1>2, <1>3, PTL DEF Spec, RemovedOnlyIfAsked

=============================================================================
