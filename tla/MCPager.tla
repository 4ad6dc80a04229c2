------------------------------ MODULE MCPager ------------------------------
(* Instances of the pager for TLC: the pager over its log, which loses power, *)
(* and the buffer pool with its two users, each alone.                        *)
EXTENDS Pager, Pool, TLC

CONSTANT Machines   \* which of the two run: "pager", "pool"

VARIABLE machine

mvars == <<machine, vars, pvars>>

Start(capacity, owners, pages, frees, faults) ==
  [capacity |-> capacity, owner |-> owners, pages |-> pages, frees |-> frees, faults |-> faults]
MCStarts == {Start(4, <<"heap", "heap", "index", "index">>, 5, 0, 1),
             Start(4, <<"heap", "heap", "index">>, 4, 1, 1),
             Start(3, <<>>, 4, 1, 0), Start(2, <<>>, 4, 1, 1)}
MCFreeing == {Start(3, <<>>, 4, 1, 0)}

Perms == Permutations(Pages)

\* Two states that differ only in which object is the frame of a page are the
\* same: a frame is known by what it holds, and one that no list and no user
\* points at is not known at all.
shown(f) == <<bp.frame[f], f \in PoolFrames(bp), f \in bp.short>>
shownAll(s) == [i \in DOMAIN s |-> shown(s[i])]
PoolView ==
  <<machine, vars, owner,
    [bp EXCEPT !.frame = {}, !.short = {}, !.a1in = shownAll(@), !.am = shownAll(@),
               !.table = {<<p, shown(@[p])>> : p \in DOMAIN @}],
    [u \in PoolUsers |-> <<usr[u].at, usr[u].page, usr[u].err,
                          IF usr[u].frame = NoFrame THEN {} ELSE shown(usr[u].frame)>>]>>

MCInit == machine \in Machines /\ Init /\ PoolInit /\ (machine = "pager" => bp.capacity = 2)

MCNext ==
  /\ UNCHANGED machine
  /\ \/ machine = "pager" /\ Next /\ UNCHANGED pvars
     \/ machine = "pool" /\ PoolNext /\ UNCHANGED vars

MCSpec == MCInit /\ [][MCNext]_mvars
=============================================================================
