---------------------------- MODULE StorageFile ----------------------------
(***************************************************************************)
(* The store with its file (src/storage_engine/storage_engine.cpp): each   *)
(* write of storeEvent goes to the buffer of an ofstream, which reaches    *)
(* the file when the buffer spills or is flushed, whole or in part.  The   *)
(* file outlives the process; a new process appends to what is there.      *)
(*                                                                         *)
(* The unit is a group of writes, a field.  What reaches the file may end  *)
(* inside one: the piece stays there, and what later processes append is   *)
(* behind it.  A spill that succeeds and leaves something in the buffer    *)
(* is not a step of its own: it is seen only if the rest never follows,    *)
(* and so it is part of the failure or the crash that loses the rest.      *)
(***************************************************************************)
EXTENDS Events

CONSTANTS Storer,     \* threads that call storeEvent
          NoStorer    \* the holder of a free mutex

ASSUME StorerAssumption == NoStorer \notin Storer

VARIABLES open,         \* a StorageEngine exists
          file,         \* what is in the file, by process that wrote it
          buffer,       \* fields in the buffer of storageFile
          good,         \* storageFile.good()
          storageMutex, \* the thread that holds it, or NoStorer
          storing,      \* the event of each thread in storeEvent, or NoEvent
          field,        \* the field each of them writes next
          stored,       \* history: by process, the events whose call returned
          failed        \* history: the events of this process whose call threw

fileVars == <<open, file, buffer, good, storageMutex, storing, field, stored, failed>>

\* The writes of a record, in their order: time, source, identifier and length
\* of the topic; the topic; the payload with its length.
Fields == <<"header", "topic", "payload">>

Written(e, i) == <<e, Fields[i]>>

\* All the fields of a record.
Record(e) == [i \in 1 .. Len(Fields) |-> Written(e, i)]

\* A piece of the field c, which is neither nothing nor all of it.
Cut(c) == <<c[1], "cut">>

\* What is in the file: fields and pieces of fields.
Cell == Event \X (Range(Fields) \cup {"cut"})

\* What of the fields s a write gets out that fails: whole ones, and perhaps a
\* piece of the next.
Parts(s) ==
    UNION {{SubSeq(s, 1, k), Append(SubSeq(s, 1, k), Cut(s[k + 1]))} : k \in 0 .. Len(s) - 1}

FileTypeOK ==
    /\ open \in BOOLEAN /\ good \in BOOLEAN
    /\ file \in Seq(Seq(Cell)) /\ stored \in Seq(Seq(Event)) /\ Len(stored) = Len(file)
    /\ buffer \in Seq(Cell)
    /\ storageMutex \in Storer \cup {NoStorer}
    /\ storing \in [Storer -> Event \cup {NoEvent}]
    /\ field \in [Storer -> 0 .. Len(Fields) + 2]
    /\ failed \subseteq Event
    /\ \A w \in Storer : storageMutex = w <=> field[w] > 0

FileInit ==
    /\ open = FALSE
    /\ file = <<>>
    /\ buffer = <<>>
    /\ good = TRUE
    /\ storageMutex = NoStorer
    /\ storing = [w \in Storer |-> NoEvent]
    /\ field = [w \in Storer |-> 0]
    /\ stored = <<>>
    /\ failed = {}

-----------------------------------------------------------------------------
\* What this process has in the file when it adds the fields s.
Adding(s) == [file EXCEPT ![Len(file)] = @ \o s]

\* Variant for mutation: the file is opened without std::ios::app.
OpenFileTruncates ==
    /\ ~open
    /\ open' = TRUE
    /\ file' = [p \in 1 .. Len(file) + 1 |-> <<>>]
    /\ stored' = Append(stored, <<>>)
    /\ UNCHANGED <<buffer, good, storageMutex, storing, field, failed>>

\* The constructor: the file is opened to append.
OpenFile ==
    /\ ~open
    /\ open' = TRUE
    /\ file' = Append(file, <<>>)
    /\ stored' = Append(stored, <<>>)
    /\ UNCHANGED <<buffer, good, storageMutex, storing, field, failed>>

\* The buffer is handed to the operating system, which takes all of it, or
\* takes a part and fails.  Then the buffer keeps what it had.
Drain ==
    \/ file' = Adding(buffer) /\ buffer' = <<>> /\ UNCHANGED good
    \/ /\ \E s \in Parts(buffer) : file' = Adding(s)
       /\ good' = FALSE
       /\ UNCHANGED buffer

\* What is in memory is gone: the process has ended.
Forget ==
    /\ open' = FALSE
    /\ buffer' = <<>>
    /\ good' = TRUE
    /\ storageMutex' = NoStorer
    /\ storing' = [w \in Storer |-> NoEvent]
    /\ field' = [w \in Storer |-> 0]
    /\ failed' = {}
    /\ UNCHANGED stored

\* The destructor: close() writes what the buffer still has, or a part of it.
CloseFile ==
    /\ open
    /\ storageMutex = NoStorer
    /\ \E s \in Parts(buffer) \cup {buffer} : file' = Adding(s)
    /\ Forget

\* The process is killed.  What earlier writes have spilled of the buffer is in
\* the file.
CrashFile ==
    /\ open
    /\ \E s \in Parts(buffer) \cup {buffer} : file' = Adding(s)
    /\ Forget

-----------------------------------------------------------------------------
(* storeEvent *)

\* A thread calls storeEvent(e), ...
StoreCall(w, e) ==
    /\ open
    /\ storing[w] = NoEvent
    /\ storing' = [storing EXCEPT ![w] = e]
    /\ field' = [field EXCEPT ![w] = 0]
    /\ UNCHANGED <<open, file, buffer, good, storageMutex, stored, failed>>

\* Variant for mutation: storageMutex is not locked.
StoreLockSkipped(w) ==
    /\ storing[w] # NoEvent /\ field[w] = 0
    /\ field' = [field EXCEPT ![w] = 1]
    /\ UNCHANGED <<open, file, buffer, good, storageMutex, storing, stored, failed>>

\* Variant for mutation: the state of the stream is cleared before each record.
StoreLockClears(w) ==
    /\ storing[w] # NoEvent /\ field[w] = 0
    /\ storageMutex = NoStorer
    /\ storageMutex' = w
    /\ good' = TRUE
    /\ field' = [field EXCEPT ![w] = 1]
    /\ UNCHANGED <<open, file, buffer, storing, stored, failed>>

\* ... and gets the mutex.
StoreLock(w) ==
    /\ storing[w] # NoEvent /\ field[w] = 0
    /\ storageMutex = NoStorer
    /\ storageMutex' = w
    /\ field' = [field EXCEPT ![w] = 1]
    /\ UNCHANGED <<open, file, buffer, good, storing, stored, failed>>

\* write(): the field fits into the buffer, ...
StoreWrite(w) ==
    /\ storing[w] # NoEvent /\ field[w] \in 1 .. Len(Fields)
    /\ good
    /\ buffer' = Append(buffer, Written(storing[w], field[w]))
    /\ field' = [field EXCEPT ![w] = @ + 1]
    /\ UNCHANGED <<open, file, good, storageMutex, storing, stored, failed>>

\* ... or spills it.
StoreSpill(w) ==
    LET out == Append(buffer, Written(storing[w], field[w]))
    IN  /\ storing[w] # NoEvent /\ field[w] \in 1 .. Len(Fields)
        /\ good
        /\ \/ file' = Adding(out) /\ buffer' = <<>> /\ UNCHANGED good
           \/ /\ \E s \in Parts(out) : file' = Adding(s)
              /\ good' = FALSE
              /\ UNCHANGED buffer
        /\ field' = [field EXCEPT ![w] = @ + 1]
        /\ UNCHANGED <<open, storageMutex, storing, stored, failed>>

\* The writes that are left find the stream failed, and do nothing.
StoreWriteRefused(w) ==
    /\ storing[w] # NoEvent /\ field[w] \in 1 .. Len(Fields)
    /\ ~good
    /\ field' = [field EXCEPT ![w] = Len(Fields) + 1]
    /\ UNCHANGED <<open, file, buffer, good, storageMutex, storing, stored, failed>>

\* flush().  On a failed stream it does nothing, or tries the buffer again.
StoreFlush(w) ==
    /\ storing[w] # NoEvent /\ field[w] = Len(Fields) + 1
    /\ Drain \/ (~good /\ UNCHANGED <<file, buffer, good>>)
    /\ field' = [field EXCEPT ![w] = @ + 1]
    /\ UNCHANGED <<open, storageMutex, storing, stored, failed>>

\* Variant for mutation: the lock is not released when storeEvent throws.
StoreLeaveKeepsLock(w) ==
    /\ storing[w] # NoEvent /\ field[w] = Len(Fields) + 2
    /\ IF good
       THEN /\ stored' = [stored EXCEPT ![Len(stored)] = Append(@, storing[w])]
            /\ storageMutex' = NoStorer
            /\ UNCHANGED failed
       ELSE /\ failed' = failed \cup {storing[w]}
            /\ UNCHANGED <<stored, storageMutex>>
    /\ storing' = [storing EXCEPT ![w] = NoEvent]
    /\ field' = [field EXCEPT ![w] = 0]
    /\ UNCHANGED <<open, file, buffer, good>>

\* Variant for mutation: the state of the stream is not looked at.
StoreLeaveTrusting(w) ==
    /\ storing[w] # NoEvent /\ field[w] = Len(Fields) + 2
    /\ stored' = [stored EXCEPT ![Len(stored)] = Append(@, storing[w])]
    /\ storageMutex' = NoStorer
    /\ storing' = [storing EXCEPT ![w] = NoEvent]
    /\ field' = [field EXCEPT ![w] = 0]
    /\ UNCHANGED <<open, file, buffer, good, failed>>

\* storeEvent returns, or throws if the stream is not good.
StoreLeave(w) ==
    /\ storing[w] # NoEvent /\ field[w] = Len(Fields) + 2
    /\ IF good
       THEN /\ stored' = [stored EXCEPT ![Len(stored)] = Append(@, storing[w])]
            /\ UNCHANGED failed
       ELSE /\ failed' = failed \cup {storing[w]}
            /\ UNCHANGED stored
    /\ storageMutex' = NoStorer
    /\ storing' = [storing EXCEPT ![w] = NoEvent]
    /\ field' = [field EXCEPT ![w] = 0]
    /\ UNCHANGED <<open, file, buffer, good>>

\* The steps of a thread inside storeEvent.
StoreStep(w) ==
    StoreLock(w) \/ StoreWrite(w) \/ StoreSpill(w)
    \/ StoreWriteRefused(w) \/ StoreFlush(w) \/ StoreLeave(w)
=============================================================================
