----------------------------- MODULE AtomicFile -----------------------------
(***************************************************************************)
(* What biboServer (HW4) promises of a file that several clients use at    *)
(* once: every access takes effect in one step.  The promise ends with the *)
(* first upload, which takes no semaphore (see FileAccess).                *)
(***************************************************************************)
CONSTANT Users

VARIABLES
  doing,     \* the access a user has asked for and not got: append, line or read
  store,     \* the messages in the file
  got,       \* what a user has read
  disturbed  \* an upload has begun

file == <<doing, store, got, disturbed>>

Init ==
  /\ doing = [u \in Users |-> "none"] /\ store = {}
  /\ got = [u \in Users |-> {}] /\ disturbed = FALSE

Ask(u) ==
  /\ doing[u] = "none"
  /\ \E a \in {"append", "line", "read"} : doing' = [doing EXCEPT ![u] = a]
  /\ got' = [got EXCEPT ![u] = {}] /\ UNCHANGED store

Served(u, a) == doing[u] = a /\ doing' = [doing EXCEPT ![u] = "none"]

OneOf(S) == \E m \in S : S = {m}

\* One message is new; those there remain.
Append(u) ==
  /\ Served(u, "append")
  /\ store \subseteq store' /\ OneOf(store' \ store)
  /\ UNCHANGED got

\* One message is new, and replaces at most one.
WriteLine(u) ==
  /\ Served(u, "line")
  /\ OneOf(store' \ store) /\ (store \subseteq store' \/ OneOf(store \ store'))
  /\ UNCHANGED got

Read(u) ==
  /\ Served(u, "read")
  /\ got' = [got EXCEPT ![u] = store] /\ UNCHANGED store

\* A line of a missing file ends the whole server.
Crash(u) ==
  /\ doing[u] = "line" /\ doing' = [v \in Users |-> "crashed"]
  /\ got' = [v \in Users |-> {}] /\ UNCHANGED store

Next == \E u \in Users : Ask(u) \/ Append(u) \/ WriteLine(u) \/ Read(u) \/ Crash(u)

Spec == Init /\ [][disturbed' \/ (Next /\ UNCHANGED disturbed)]_file
=============================================================================
