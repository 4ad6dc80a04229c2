---------------------------- MODULE MCCollection ----------------------------
EXTENDS Collection, TLC

CONSTANTS k1, k2, x1, x2

\* Two collections with one _id each.
MCCollOf == k1 :> x1 @@ k2 :> x2
Swap == k1 :> k2 @@ k2 :> k1 @@ x1 :> x2 @@ x2 :> x1

Perms == Permutations(Clients) \cup Permutations(Docs) \cup {Swap}
=============================================================================
