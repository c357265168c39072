----------------------------- MODULE MCTeeBench -----------------------------
(***************************************************************************)
(* TeeBench for TLC: lists of up to two experiments over one or two        *)
(* directories, with flags that are single, ranges, empty ranges, endless  *)
(* ranges and one that is given twice.                                     *)
(***************************************************************************)
EXTENDS TeeBench

CONSTANTS d1, d2

Threads(kind, minimum, maximum, by) ==
  [name |-> "nthreads", kind |-> kind, minimum |-> minimum, maximum |-> maximum, by |-> by]
Logging == [name |-> "client_logging_enabled", kind |-> "bool", minimum |-> 1, maximum |-> 1, by |-> 0]

MCFlags ==
  { <<>>,
    <<Logging>>,
    <<Threads("int", 2, 2, 0), Threads("int", 1, 1, 0)>>,
    <<Threads("increment", 0, 1, 1)>>,
    <<Threads("increment", 1, 4, 2), Logging>>,
    <<Threads("increment", 2, 1, 1)>>,
    <<Threads("increment", 1, 2, 0)>>,
    <<Threads("multiply", 1, 4, 2)>>,
    <<Threads("multiply", 0, 4, 2)>>,
    <<Threads("multiply", 3, 9, 3), Threads("increment", 1, 2, 1)>> }

MCData == {"generated", "unseeded", "given", "dangling", "incomplete"}

One == [dir : {d1}, flags : MCFlags, data : MCData]
Short == {e \in One : e.data \in {"generated", "given"} /\ Len(e.flags) <= 1}
Other == [dir : {d1, d2}, flags : {<<>>, <<Threads("increment", 2, 1, 1)>>, <<Threads("increment", 1, 2, 1)>>},
          data : {"generated", "given"}]

MCConfigs == {<<>>} \union {<<e>> : e \in One} \union {<<e, f>> : e \in Short, f \in Other}
=============================================================================
