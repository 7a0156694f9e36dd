------------------------------ MODULE Recorder ------------------------------
(***************************************************************************)
(* What the program leaves behind, over several of its processes: the      *)
(* threads of the pool store events, in any order; a process ends when it  *)
(* is killed, or when it has stopped its threads; the next one opens the   *)
(* same file.                                                              *)
(***************************************************************************)
EXTENDS StorageFile, FiniteSets, SequencesExt

CONSTANTS MaxProcesses, \* bound on the processes
          MaxEvents     \* bound on the events of one process

\* An event is known by its process and its number there: the first that a
\* thread takes up is number 1.
ASSUME RecorderAssumption ==
    /\ MaxProcesses \in Nat \ {0}
    /\ MaxEvents \in Nat \ {0}
    /\ Event \subseteq (1 .. MaxProcesses) \X (1 .. MaxEvents)

VARIABLES tasks,       \* the events of this process whose tasks have run or run
          found        \* history: by process, the fields in the file when it was opened

vars == <<fileVars, tasks, found>>

Process == Len(file)

\* The fields in the file: those that this process found, or the last one did, and
\* its own.
Contents == IF Process = 0 THEN <<>> ELSE found[Process] \o file[Process]

TypeOK ==
    /\ FileTypeOK
    /\ tasks \subseteq Event
    /\ found \in Seq(Seq(Cell)) /\ Len(found) = Process

Init == FileInit /\ tasks = {} /\ found = <<>>

-----------------------------------------------------------------------------
\* A process starts.
StartProcess ==
    /\ Process < MaxProcesses
    /\ OpenFile
    /\ tasks' = {}
    /\ found' = Append(found, Contents)

\* main returns: the pool's threads have been joined.
StopProcess ==
    /\ \A w \in Storer : storing[w] = NoEvent
    /\ CloseFile
    /\ UNCHANGED <<tasks, found>>

Crash == CrashFile /\ UNCHANGED <<tasks, found>>

\* A worker runs the task of an event, which is that and no other's.  An event's
\* number is its place in the order in which this happens.
RunTask(w) ==
    \E e \in Event \ tasks :
        /\ e[1] = Process
        /\ \A n \in 1 .. e[2] - 1 : <<Process, n>> \in tasks
        /\ StoreCall(w, e)
        /\ tasks' = tasks \cup {e}
        /\ UNCHANGED found

Next ==
    \/ StartProcess
    \/ StopProcess
    \/ Crash
    \/ \E w \in Storer : RunTask(w) \/ (StoreStep(w) /\ UNCHANGED <<tasks, found>>)

Spec == Init /\ [][Next]_vars

\* A thread in storeEvent goes on when it can.
FairSpec == Spec /\ \A w \in Storer : WF_vars(StoreStep(w) /\ UNCHANGED <<tasks, found>>)

-----------------------------------------------------------------------------
(* Properties *)

\* What a reader gets from the fields s who knows the format and starts at the
\* front: the whole records, up to where it gets out of step.
Readable(s) ==
    LET n == Len(Fields)
        whole(k) == k * n <= Len(s) /\ SubSeq(s, (k - 1) * n + 1, k * n) = Record(s[k * n][1])
        count == CHOOSE m \in 0 .. Len(s) \div n : (\A k \in 1 .. m : whole(k)) /\ ~whole(m + 1)
    IN  [k \in 1 .. count |-> s[k * n][1]]

\* The events of which something is behind the readable records of s.
Pieces(s) == {s[i][1] : i \in Len(Readable(s)) * Len(Fields) + 1 .. Len(s)}

\* Through failed writes, crashes and any interleaving of the callers, a
\* process leaves whole records and then at most the pieces of one more: the
\* records of the events stored, in the order of the calls, and of at most one
\* event whose call has not returned.  No later record of the process is lost
\* behind the pieces, because the stream stays failed.
TornOnlyAtEnd ==
    \A p \in 1 .. Process :
        LET whole == Readable(file[p])
            extra == Pieces(file[p]) \cup (Range(whole) \ Range(stored[p]))
        IN  /\ IsPrefix(stored[p], whole)
            /\ Len(whole) <= Len(stored[p]) + 1
            /\ Cardinality(extra) <= 1 /\ extra \cap Range(stored[p]) = {}

\* A reader of the whole file finds all that was stored by the processes up to
\* and including the first that left a torn record: behind the records that the
\* process found, one after the other, in order, and nowhere else.  (Behind the
\* torn one nothing can be found, though storeEvent has returned: see the README.)
ReadBack ==
    LET read == Readable(Contents)
    IN  \A p \in 1 .. Process :
            (\A q \in 1 .. p - 1 : Pieces(file[q]) = {})
            => LET n == Len(found[p]) \div Len(Fields)
                   m == Len(stored[p])
               IN  /\ n + m <= Len(read)
                   /\ \A i \in 1 .. m : read[n + i] = stored[p][i]
                   /\ \A i \in 1 .. Len(read) :
                          read[i] \in Range(stored[p]) => i \in n + 1 .. n + m

\* What has been written is never changed, by the same process or a later one.
AppendOnly ==
    [][Process <= Process' /\ \A p \in 1 .. Process : IsPrefix(file[p], file'[p])]_vars

\* Within one process the store is the one of module StorageEngine, which
\* stores an event or fails, and having failed, fails.
Engine == INSTANCE StorageEngine
          WITH stored <- IF open THEN stored[Process] ELSE <<>>, good <- failed = {}

ImplementsEngine ==
    Engine!StorageInit
    /\ [][(\E e \in Event : Engine!StoreEvent(e)) \/ Engine!StorageInit']_<<stored, failed>>

\* Every call of storeEvent returns or throws, unless the process ends: a
\* failure leaves the lock free.
CallEnds == \A w \in Storer : storing[w] # NoEvent ~> storing[w] = NoEvent
=============================================================================
