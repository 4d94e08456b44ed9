----------------------------- MODULE MCMinions -----------------------------
(***************************************************************************)
(* Inventory for TLC.  Minion documents, names and actors are alike.       *)
(***************************************************************************)
EXTENDS Inventory, TLC

\* Those that may take a request: InventoryNext has these guards after the choice of one.
FreeActors == {a \in Actors : req[a].op = "idle" /\ count < MaxRequests}

MinionsNext ==
    \/ \E a \in FreeActors : add_items(a)
    \/ \E a \in FreeActors : add_extra_data(a)
    \/ \E a \in FreeActors : import_items(a)
    \/ \E a \in FreeActors : update_item(a)
    \/ \E a \in FreeActors : delete_item(a)
    \/ \E a \in Actors : WriteStatic(a)
    \/ \E a \in Actors : Pull(a)
    \/ \E a \in Actors : Push(a)
    \/ \E a \in Actors : ImportTransaction(a)
    \/ \E a \in Actors : SetManual(a)
    \/ \E a \in Actors : PullManual(a)
    \/ \E a \in FreeActors : minion_create(a)
    \/ \E a \in FreeActors : update_never_active(a)
    \/ \E a \in FreeActors : process_presence(a)
    \/ \E a \in FreeActors : process_grains(a)
    \/ \E a \in Actors : InsertMinion(a)
    \/ \E a \in FreeActors : minion_delete(a)
    \/ \E a \in Actors : DropMinions(a)
    \/ \E a \in Actors : StripEntries(a)
    \/ \E a \in Actors : DeleteTaskMinions(a)
    \/ \E a \in FreeActors : minion_merge(a)
    \/ \E a \in Actors : Merge(a)
    \/ \E a \in FreeActors : fill_task_minions(a)
    \/ \E a \in Actors : CreateTaskMinions(a)
    \/ \E a \in FreeActors : extra_data_category_create(a)
    \/ \E a \in FreeActors : extra_categories_sync(a)
    \/ \E a \in FreeActors : add_field(a)
    \/ \E a \in FreeActors : extra_data_category_delete(a)
    \/ \E a \in FreeActors : delete_field(a)
    \/ \E a \in Actors : RemoveCategoryData(a)
    \/ \E a \in Actors : DropCategory(a)
    \/ \E a \in Actors : RemoveCategoryField(a)
    \/ \E a \in Actors : PullField(a)
MinionsSpec == InventoryInit /\ [][MinionsNext]_inventoryVars

Symmetry == Permutations(Docs) \cup Permutations(Names) \cup Permutations(Actors)
=============================================================================
