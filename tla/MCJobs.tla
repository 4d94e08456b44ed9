------------------------------- MODULE MCJobs -------------------------------
(***************************************************************************)
(* Instances of Jobs for TLC.                                              *)
(***************************************************************************)
EXTENDS Jobs

AllTargets == [j \in Jids |-> Minions]

\* Bound: jobs of different sources are not there at the same time.
Begun(j) == job[j] # "none" \/ salt[j] # "none"
SourcesApart == \A i, j \in Jids : Begun(i) /\ Begun(j) => i = j
=============================================================================
