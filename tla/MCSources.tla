----------------------------- MODULE MCSources -----------------------------
(* Sources for TLC: its sources, and its workers, are interchangeable.     *)
EXTENDS Sources

\* What a source does to another depends on no type but local, and not on upstream:
\* two of another type are not looked at, and one of them changes upstream at most.
Apart == \A s, t \in Srcs : s # t =>
    /\ src[s].type = src[t].type => src[s].type \in {"local", "none"}
    /\ src[s].upstream = 2 \/ src[t].upstream = 2

Symmetry == Permutations(Srcs) \cup Permutations(Workers)
=============================================================================
