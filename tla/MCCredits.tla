----------------------------- MODULE MCCredits -----------------------------
(* Instances of Credits for TLC. *)
EXTENDS Credits, TLC

CONSTANTS u1, u2, j1, j2, j3, j4

\* Everything belongs to the first user.
OneOwner == [i \in Job \cup Call \cup Order \cup Cycle \cup Fee |-> u1]

\* Connections are interchangeable.
ConnSymmetry == Permutations(Conn)

\* So are the jobs of one kind.
JobSymmetry == ConnSymmetry \cup Permutations({j1, j2}) \cup Permutations({j3, j4})
=============================================================================
