------------------------ MODULE MCSeasonRegistration ------------------------
(***************************************************************************)
(* A small instance of SeasonRegistration for TLC.                         *)
(***************************************************************************)
EXTENDS SeasonRegistration, TLC

CONSTANTS t1, t2, p1, p2, p3, s1, s2, u1, u2

Interchangeable == Permutations({u1, u2})

OneEach == (p1 :> t1) @@ (p2 :> t2)
TheirIds == (p1 :> s1) @@ (p2 :> s2)

Entry(p, s) == [player |-> p, student |-> s]

(* The player himself, a correction of his id with a newcomer under the    *)
(* old one, and a newcomer under the id of the other team's player.        *)
SomeLists == {{Entry(p1, s1)}, {Entry(p1, s2), Entry(NoOne, s1)}, {Entry(NoOne, s2)}}
=============================================================================
