-------------------------- MODULE MCShellPipeline --------------------------
(* Lines of up to three commands with and without files, one that writes    *)
(* too much, and one with a command too many.                               *)
EXTENDS ShellPipeline

Source == [in |-> FALSE, out |-> FALSE, reads |-> FALSE, writes |-> 1]
Filter == [in |-> FALSE, out |-> FALSE, reads |-> TRUE, writes |-> 1]
ToFile == [in |-> FALSE, out |-> TRUE, reads |-> TRUE, writes |-> 1]
FromFile == [in |-> TRUE, out |-> FALSE, reads |-> TRUE, writes |-> 1]
Both   == [in |-> TRUE, out |-> TRUE, reads |-> TRUE, writes |-> 0]
Big    == [Source EXCEPT !.writes = 2]

MCLines ==
  {<<Filter>>, <<Both>>, <<ToFile, Filter>>, <<Source, Both>>, <<Big, Filter>>,
   <<Source, FromFile, ToFile>>, <<Source, Filter, Filter>>, <<Source, Filter, ToFile>>,
   <<Source, Source, Source, Source>>}
=============================================================================
