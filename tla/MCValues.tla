------------------------------ MODULE MCValues ------------------------------
(***************************************************************************)
(* Instances of the data set in memory: the hash tables, the structures    *)
(* behind sorted sets, sets and lists, and the virtual memory that swaps   *)
(* values out.  They share no state, so a behaviour moves one of them: the *)
(* run is over the sum of their state spaces and not over the product.     *)
(***************************************************************************)
EXTENDS Zset, Dict, Sets, Lists, Vm, TLC

CONSTANTS k1, k2

VARIABLE active         \* the structure that moves

MCOtherZset == (1 :> 1 @@ 2 :> 2)
MCDictHash == (1 :> 0 @@ 2 :> 2 @@ 3 :> 1)
MCDictVals == (1 :> {1, 2} @@ 2 :> {1} @@ 3 :> {1})
MCSetElems == {-9, -3, 0, 1, 9, 100}
MCZlBody == <<3, 9, 20, 9>>
MCVmPagesOf == (k1 :> 1 @@ k2 :> 1)
MCVmArgs == {<<k1>>, <<k1, k2>>}
Sym == Permutations(VmClients)

MCInit ==
    /\ active \in {"zset", "dict", "sets", "lists", "vm"}
    /\ ZsetInit /\ DictInit /\ ListsInit /\ VmInit
    /\ SetsInit /\ (active # "sets" => sobjs = [k \in SetKeys |-> NoSet])

MCNext ==
    \/ active = "zset" /\ ZsetNext /\ UNCHANGED <<active, dictVars, setsVars, listsVars, vmVars>>
    \/ active = "dict" /\ DictNext /\ UNCHANGED <<active, zsetVars, setsVars, listsVars, vmVars>>
    \/ active = "sets" /\ SetsNext /\ UNCHANGED <<active, zsetVars, dictVars, listsVars, vmVars>>
    \/ active = "lists" /\ ListsNext /\ UNCHANGED <<active, zsetVars, dictVars, setsVars, vmVars>>
    \/ active = "vm" /\ VmNext /\ UNCHANGED <<active, zsetVars, dictVars, setsVars, listsVars>>

MCSpec == MCInit /\ [][MCNext]_<<active, zsetVars, dictVars, setsVars, listsVars, vmVars>>
=============================================================================
