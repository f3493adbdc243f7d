---------------------------- MODULE ExtractQueue ----------------------------
(***************************************************************************)
(* What the extract-all queue of the thumbnail server promises, without    *)
(* its array and indices: a sequence of paths to do and a number of        *)
(* workers.  A request adds paths and a worker; a worker takes the first   *)
(* path, and retires only when there is none; all is lost with the server. *)
(***************************************************************************)
EXTENDS Naturals, Sequences, FiniteSets

CONSTANT Media

VARIABLES todo, workers

Batch == {s \in UNION {[1 .. n -> Media] : n \in 0 .. Cardinality(Media)} :
             \A i, j \in DOMAIN s : s[i] = s[j] => i = j}

Init == todo = <<>> /\ workers = 0

Enqueue(batch) == todo' = todo \o batch /\ workers' = workers + 1

Take ==
    /\ workers > 0 /\ todo # <<>>
    /\ todo' = Tail(todo)
    /\ UNCHANGED workers

Retire ==
    /\ workers > 0 /\ todo = <<>>
    /\ workers' = workers - 1
    /\ UNCHANGED todo

Lose == todo' = <<>> /\ workers' = 0

Next == (\E batch \in Batch : Enqueue(batch)) \/ Take \/ Retire \/ Lose

\* Workers are called again and again until all have retired.
Spec ==
    /\ Init
    /\ [][Next]_<<todo, workers>>
    /\ WF_<<todo, workers>>(Take \/ Retire)
=============================================================================
