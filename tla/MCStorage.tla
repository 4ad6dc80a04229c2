----------------------------- MODULE MCStorage ------------------------------
(* Instances of the page layer for TLC: one record store, one B+tree, one    *)
(* collection on pages and the engine's catalog of collections, each alone.  *)
(* Pages are a few units long, so that a handful of cells fills, compacts,   *)
(* splits and spills them.                                                   *)
EXTENDS Heap, BTree, Store, Engine, TLC

CONSTANT Machines  \* the machines that are run

VARIABLE machine   \* which of them runs

mvars == <<machine, hvars, bvars, svars, engineVars>>

\* Fields 1 to 11 have keys of the greatest length Put takes, the others of the least.
MCFieldLen == [f \in 1..17 |-> IF f <= 11 THEN BodyLen \div 4 - 1 ELSE 1]

In(n) == [rid |-> NullRID, len |-> n]
Up(slot, n) == [rid |-> [page |-> 1, slot |-> slot], len |-> n]
MCSetups == {<<>>, <<In(1), In(5), Up(1, 6), In(2), In(2)>>, <<In(1), In(9), In(20), Up(1, 9)>>}

Rid(n) == [page |-> 1, slot |-> n]
MCRIDs == {Rid(1), Rid(2)}
Each(fs) == [i \in 1..Len(fs) |-> [f |-> fs[i], rid |-> Rid(1)]]
MCTreeSetups == {<<>>, Each(<<1, 2, 3, 12, 13, 14, 15, 16, 17>>), Each(<<1, 2, 3, 4, 5, 6, 7, 8, 9, 10>>),
                 [i \in 1..10 |-> [f |-> 3 + (i % 5), rid |-> Rid(1 + (i % 2))]]}
Between(lo, incLo, hi, incHi) == [lo |-> lo, incLo |-> incLo, hi |-> hi, incHi |-> incHi]
MCRanges == {Between(NoBound, TRUE, NoBound, TRUE), Between(2, FALSE, 6, TRUE), Between(3, TRUE, 8, FALSE)}

Doc(i, x, n) == [id |-> i, x |-> x, len |-> n]
Write(i, x, n) == [id |-> i, doc |-> <<Doc(i, x, n)>>]
Del(i) == [id |-> i, doc |-> <<>>]
MCStoreSetups == {<<Doc(1, {1}, 2), Doc(2, {2}, 20)>>,
                  <<Doc(1, {1, 3}, 20), Doc(2, {2, 4}, 2), Doc(3, {5}, 2), Doc(4, {6, 7}, 2)>>}
MCTransactions ==
    {<<Write(1, {1, 8}, 20)>>, <<Del(2)>>, <<Write(2, {1}, 3)>>, <<Write(1, {9}, 3), Write(2, {1}, 20)>>,
     <<Write(1, {2}, 2), Write(2, {1}, 2)>>, <<Write(6, {}, 2), Write(5, {8}, 20), Del(1)>>}

HeapIdle ==
    rst = [file |-> NewFile, heap |-> EmptyHeap] /\ scan = NoScan /\ view = viewOf(rst) /\ rops = 0 /\ failed = FALSE

BTreeIdle == bst = EmptyTree /\ entered = {} /\ uniq = FALSE /\ cur = NoScanYet /\ bops = 0 /\ torn = FALSE

StoreIdle ==
    /\ sst = EmptyStore /\ kind = "none" /\ durable = image(sst) /\ overlay = NoFn /\ gone = {}
    /\ txn = NoTxn /\ build = NoBuild /\ rd = NoRead
    /\ cnt = [commits |-> 0, published |-> 0, builds |-> 0, crashes |-> 0, reads |-> 0]

Perms == Permutations(Clients) \cup Permutations(Databases) \cup Permutations(Names)

MCInit ==
    /\ machine \in Machines
    /\ EngineInit
    /\ \/ machine = "heap" /\ HeapInit /\ BTreeIdle /\ StoreIdle
       \/ machine = "btree" /\ HeapIdle /\ BTreeInit /\ StoreIdle
       \/ machine = "store" /\ HeapIdle /\ BTreeIdle /\ StoreInit
       \/ machine = "engine" /\ HeapIdle /\ BTreeIdle /\ StoreIdle

MCNext ==
    /\ UNCHANGED machine
    /\ \/ machine = "heap" /\ HeapNext /\ UNCHANGED <<bvars, svars, engineVars>>
       \/ machine = "btree" /\ BTreeNext /\ UNCHANGED <<hvars, svars, engineVars>>
       \/ machine = "store" /\ StoreNext /\ UNCHANGED <<hvars, bvars, engineVars>>
       \/ machine = "engine" /\ EngineNext /\ UNCHANGED <<hvars, bvars, svars>>

MCSpec == MCInit /\ [][MCNext]_mvars

-----------------------------------------------------------------------------


=============================================================================
