----------------------------- MODULE MCLsmStorage -----------------------------
(* LsmStorage with the batches of two rows: insert or update either, and    *)
(* move the first to the key of the second.                                 *)
EXTENDS LsmStorage

MCBatches ==
    {1 :> "Put", 2 :> "Put", (1 :> "Tombstone") @@ (2 :> "Put")}

===============================================================================
