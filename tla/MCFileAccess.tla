---------------------------- MODULE MCFileAccess ----------------------------
(* FileAccess with three workers, up to their names: only one assignment of  *)
(* each mix of tasks is kept.                                                *)
EXTENDS FileAccess, TLC

CONSTANTS w1, w2, w3

Three(a, b, c) == (w1 :> a) @@ (w2 :> b) @@ (w3 :> c)

R == <<"read">>
A == <<"append">>
L == <<"line">>
U == <<"upload">>

\* Every mix of three users of the semaphores: readers and two kinds of writer.
Mixes == {Three(R, R, A), Three(R, R, L), Three(R, A, A), Three(R, A, L),
          Three(A, A, L), Three(R, R, R), Three(R, L, L), Three(A, L, L),
          Three(L, L, L), Three(A, A, A)}

\* A worker that comes back, and uploads beside each kind of user.
Repeats == {Three(R \o A, A \o R, <<>>), Three(L \o R, R \o R, <<>>)}
Uploads == {Three(U, R, A), Three(U, L, A), Three(U, A, A), Three(U \o R, R, L)}

AllPlans == Mixes \cup Repeats \cup Uploads

\* An upload beside a reader, and nothing else.
UploadPlans == {Three(U, R, <<>>)}
=============================================================================
