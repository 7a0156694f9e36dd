--------------------------- MODULE StorageEngine ---------------------------
(***************************************************************************)
(* The append-only store (include/storage_engine/storage_engine.hpp,       *)
(* src/storage_engine/storage_engine.cpp).  storeEvent runs under          *)
(* storageMutex and so is one step: it writes a record and returns, or a   *)
(* write or the flush fails and it throws.  The stream is never cleared:   *)
(* once it has failed every later call throws too.  The bytes that a       *)
(* failed call leaves in the file are not modelled here.                   *)
(***************************************************************************)
EXTENDS Events

VARIABLES stored,    \* events whose call returned, in the order of the calls
          good,      \* storageFile.good()
          failed     \* events whose call threw

storageVars == <<stored, good, failed>>

StorageTypeOK ==
    /\ stored \in Seq(Event)
    /\ good \in BOOLEAN
    /\ failed \subseteq Event

StorageInit ==
    /\ stored = <<>>
    /\ good = TRUE
    /\ failed = {}

-----------------------------------------------------------------------------
\* storeEvent(e) writes the record and returns.
StoreWrites(e) ==
    /\ good
    /\ stored' = Append(stored, e)
    /\ UNCHANGED <<good, failed>>

\* storeEvent(e) throws: the disk failed just now, or it did before.
StoreThrows(e) ==
    /\ good' = FALSE
    /\ failed' = failed \cup {e}
    /\ UNCHANGED stored

StoreEvent(e) == StoreWrites(e) \/ StoreThrows(e)
=============================================================================
