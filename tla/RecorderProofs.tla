--------------------------- MODULE RecorderProofs ---------------------------
(***************************************************************************)
(* Proofs about what the program leaves in its file, for any number of     *)
(* processes, events and threads that store them.                          *)
(***************************************************************************)
EXTENDS Recorder, FiniteSetTheorems, TLAPS

\* The least number principle, for a set.
LEMMA LeastNumber ==
    ASSUME NEW T, T \subseteq Nat, T # {}
    PROVE  \E n \in T : \A m \in T : n <= m
<1>1. PICK R : IsWellFoundedOn(R, Nat) /\ \A y, x \in Nat : y < x => <<y, x>> \in R
    <2> DEFINE S == OpToRel(<, Nat)
    <2>1. IsWellFoundedOn(S, Nat)
        BY NatLessThanWellFounded, Zenon
    <2>2. \A y, x \in Nat : y < x => <<y, x>> \in S
        BY DEF OpToRel
    <2> HIDE DEF S
    <2> QED BY <2>1, <2>2
<1>2. PICK n \in T : \A y \in T : <<y, n>> \notin R
    <2>1. IsWellFoundedOn(R, Nat) /\ T \subseteq Nat /\ T # {}
        BY <1>1
    <2> QED BY <2>1, WFMin, Zenon
<1>3. \A y \in T : ~(y < n)
    BY <1>1, <1>2
<1> QED BY <1>3

USE EventAssumption, StorerAssumption

-----------------------------------------------------------------------------
(* Types *)

\* The fields, spelled out.
LEMMA FieldsAre ==
    /\ Len(Fields) = 3 /\ DOMAIN Fields = 1 .. 3
    /\ Fields[1] = "header" /\ Fields[2] = "topic" /\ Fields[3] = "payload"
    /\ Range(Fields) = {"header", "topic", "payload"}
    /\ \A i \in 1 .. 3 : Fields[i] \in Range(Fields) /\ (Fields[i] = "payload" <=> i = 3)
<1>1. /\ Len(Fields) = 3 /\ DOMAIN Fields = 1 .. 3
      /\ Fields[1] = "header" /\ Fields[2] = "topic" /\ Fields[3] = "payload"
    BY DEF Fields
<1> HIDE DEF Fields
<1> QED BY <1>1 DEF Range

LEMMA WrittenIsCell ==
    ASSUME NEW e \in Event, NEW i \in 1 .. 3
    PROVE  Written(e, i) \in Cell /\ Written(e, i)[1] = e /\ Written(e, i)[2] = Fields[i]
<1> QED BY FieldsAre DEF Written, Cell

LEMMA CutIsCell ==
    ASSUME NEW c \in Cell
    PROVE  Cut(c) \in Cell /\ Cut(c)[1] = c[1] /\ Cut(c)[2] # "payload"
<1> QED BY DEF Cut, Cell

\* Adding fields at the end of what this process has in the file.
LEMMA AddingType ==
    ASSUME file \in Seq(Seq(Cell)), file # <<>>, NEW s \in Seq(Cell)
    PROVE  /\ Adding(s) \in Seq(Seq(Cell)) /\ Len(Adding(s)) = Len(file)
           /\ Len(file) \in 1 .. Len(file) /\ file[Len(file)] \in Seq(Cell)
           /\ Adding(s)[Len(file)] = file[Len(file)] \o s
           /\ \A p \in 1 .. Len(file) - 1 : Adding(s)[p] = file[p]
<1> QED BY DEF Adding

\* TypeOK, in parts, with what it needs to be inductive.
FlagsOK == open \in BOOLEAN /\ good \in BOOLEAN

PartsOK ==
    /\ file \in Seq(Seq(Cell)) /\ stored \in Seq(Seq(Event)) /\ Len(stored) = Len(file)
    /\ buffer \in Seq(Cell)
    /\ storageMutex \in Storer \cup {NoStorer}
    /\ storing \in [Storer -> Event \cup {NoEvent}]
    /\ field \in [Storer -> 0 .. 5]
    /\ failed \subseteq Event
    /\ \A w \in Storer : storageMutex = w <=> field[w] > 0
    /\ \A w \in Storer : storing[w] = NoEvent => field[w] = 0
    /\ tasks \subseteq Event

\* The store is open only if a process has started, and a closed one is as new.
OpenOK ==
    /\ open => file # <<>>
    /\ ~open => /\ buffer = <<>> /\ good /\ storageMutex = NoStorer /\ failed = {}
                /\ \A w \in Storer : storing[w] = NoEvent

TypeInv == FlagsOK /\ PartsOK /\ OpenOK

\* Each process has found a file.
FoundOK == found \in Seq(Seq(Cell)) /\ Len(found) = Len(file)

LEMMA TypeInvGivesTypeOK == TypeInv /\ FoundOK => TypeOK
<1> SUFFICES ASSUME TypeInv, FoundOK PROVE TypeOK
    OBVIOUS
<1>1. open \in BOOLEAN /\ good \in BOOLEAN
    BY DEF TypeInv, FlagsOK
<1>2. field \in [Storer -> 0 .. Len(Fields) + 2]
    BY FieldsAre DEF TypeInv, PartsOK
<1>3. tasks \subseteq Event
    BY DEF TypeInv, PartsOK
<1> HIDE DEF Fields
<1>4. FileTypeOK
    BY <1>1, <1>2 DEF TypeInv, PartsOK, FileTypeOK
<1> QED BY <1>3, <1>4 DEF TypeOK, FoundOK, Process

LEMMA TypeInvInit == Init => TypeInv
<1> SUFFICES ASSUME Init PROVE TypeInv
    OBVIOUS
<1>1. FlagsOK
    BY DEF Init, FileInit, FlagsOK
<1>2. PartsOK
    BY DEF Init, FileInit, PartsOK
<1>3. OpenOK
    BY DEF Init, FileInit, OpenOK
<1> QED BY <1>1, <1>2, <1>3 DEF TypeInv

LEMMA CutType ==
    ASSUME NEW s \in Seq(Cell), NEW k \in 0 .. Len(s)
    PROVE  /\ SubSeq(s, 1, k) \in Seq(Cell) /\ Len(SubSeq(s, 1, k)) = k
           /\ \A i \in 1 .. k : SubSeq(s, 1, k)[i] = s[i]
<1> QED OBVIOUS

\* What a failing write puts into the file is of the same events as what it was
\* given, field by field, and does not have the last field whole.
LEMMA PartsAre ==
    ASSUME NEW s \in Seq(Cell), NEW x \in Parts(s)
    PROVE  /\ x \in Seq(Cell) /\ Len(x) <= Len(s) /\ s # <<>>
           /\ \A i \in 1 .. Len(x) :
                  /\ i \in 1 .. Len(s) /\ x[i][1] = s[i][1]
                  /\ x[i][2] = "payload" => x[i] = s[i] /\ i < Len(s)
<1>1. PICK k \in 0 .. Len(s) - 1 :
          x = SubSeq(s, 1, k) \/ x = Append(SubSeq(s, 1, k), Cut(s[k + 1]))
    BY DEF Parts
<1>2. k \in 0 .. Len(s) /\ k + 1 \in 1 .. Len(s) /\ k < Len(s) /\ s # <<>>
    BY <1>1
<1>3. PICK y \in Seq(Cell) : y = SubSeq(s, 1, k) /\ Len(y) = k /\ \A i \in 1 .. k : y[i] = s[i]
    BY <1>2, CutType
<1>4. CASE x = y
    BY <1>2, <1>3, <1>4
<1>5. CASE x = Append(y, Cut(s[k + 1]))
    <2>1. PICK c \in Cell : c = Cut(s[k + 1]) /\ c[1] = s[k + 1][1] /\ c[2] # "payload"
        BY <1>2, CutIsCell
    <2>2. /\ x \in Seq(Cell) /\ Len(x) = k + 1 /\ x[k + 1] = c
          /\ \A i \in 1 .. k : x[i] = y[i]
        BY <1>3, <1>5, <2>1
    <2>3. \A i \in 1 .. Len(x) : i = k + 1 \/ i \in 1 .. k
        BY <1>2, <2>2
    <2> QED BY <1>2, <1>3, <2>1, <2>2, <2>3
<1> QED BY <1>1, <1>3, <1>4, <1>5

LEMMA DrainType ==
    ASSUME TypeInv, open, Drain
    PROVE  /\ file' \in Seq(Seq(Cell)) /\ Len(file') = Len(file) /\ buffer' \in Seq(Cell)
           /\ good' \in BOOLEAN
<1>1. file \in Seq(Seq(Cell)) /\ file # <<>> /\ buffer \in Seq(Cell) /\ good \in BOOLEAN
    BY DEF TypeInv, FlagsOK, PartsOK, OpenOK
<1>2. CASE file' = Adding(buffer) /\ buffer' = <<>> /\ UNCHANGED good
    BY <1>1, <1>2, AddingType
<1>3. ASSUME NEW x \in Parts(buffer), file' = Adding(x), good' = FALSE, UNCHANGED buffer
      PROVE  file' \in Seq(Seq(Cell)) /\ Len(file') = Len(file) /\ buffer' \in Seq(Cell) /\ good' \in BOOLEAN
    <2>1. x \in Seq(Cell)
        BY <1>1, PartsAre
    <2> QED BY <1>1, <1>3, <2>1, AddingType
<1> QED BY <1>2, <1>3 DEF Drain

LEMMA TypeInvStep == TypeInv /\ [Next]_vars => TypeInv'
<1> SUFFICES ASSUME TypeInv, [Next]_vars PROVE TypeInv'
    OBVIOUS
<1> USE DEF TypeInv
<1>1. CASE StartProcess
    <2>1. FlagsOK'
        BY <1>1 DEF StartProcess, OpenFile, FlagsOK
    <2>2. PartsOK'
        BY <1>1 DEF StartProcess, OpenFile, PartsOK
    <2>3. OpenOK'
        BY <1>1 DEF StartProcess, OpenFile, PartsOK, OpenOK
    <2> QED BY <2>1, <2>2, <2>3
<1>2. CASE StopProcess \/ Crash
    <2>1. PICK x \in Parts(buffer) \cup {buffer} : file' = Adding(x)
        BY <1>2 DEF StopProcess, CloseFile, Crash, CrashFile
    <2>2. file' \in Seq(Seq(Cell)) /\ Len(file') = Len(file)
        <3>1. x \in Seq(Cell)
            BY PartsAre DEF PartsOK
        <3> QED BY <1>2, <2>1, <3>1, AddingType
                DEF StopProcess, CloseFile, Crash, CrashFile, PartsOK, OpenOK
    <2>3. FlagsOK'
        BY <1>2 DEF StopProcess, CloseFile, Crash, CrashFile, Forget, FlagsOK
    <2>4. Forget /\ UNCHANGED tasks
        BY <1>2 DEF StopProcess, CloseFile, Crash, CrashFile
    <2>5. PartsOK'
        BY <2>2, <2>4 DEF Forget, PartsOK
    <2>6. OpenOK'
        BY <2>2, <2>4 DEF Forget, OpenOK
    <2> QED BY <2>3, <2>5, <2>6
<1>3. ASSUME NEW w \in Storer, RunTask(w) PROVE TypeInv'
    <2>1. FlagsOK'
        BY <1>3 DEF RunTask, StoreCall, FlagsOK
    <2>2. PartsOK'
        BY <1>3 DEF RunTask, StoreCall, PartsOK
    <2>3. OpenOK'
        BY <1>3 DEF RunTask, StoreCall, OpenOK
    <2> QED BY <2>1, <2>2, <2>3
<1>4. ASSUME NEW w \in Storer, StoreStep(w), UNCHANGED tasks PROVE TypeInv'
    <2>0. storing[w] # NoEvent /\ open /\ storing[w] \in Event
        BY <1>4 DEF StoreStep, StoreLock, StoreWrite, StoreSpill, StoreWriteRefused, StoreFlush,
            StoreLeave, OpenOK, PartsOK
    <2>1. file \in Seq(Seq(Cell)) /\ file # <<>> /\ buffer \in Seq(Cell)
        BY <2>0 DEF PartsOK, OpenOK
    <2>2. CASE StoreLock(w)
        <3>1. FlagsOK' /\ OpenOK'
            BY <2>0, <2>2 DEF StoreLock, FlagsOK, OpenOK
        <3> QED BY <1>4, <2>2, <3>1 DEF StoreLock, PartsOK
    <2>3. CASE StoreWrite(w)
        <3>1. buffer' \in Seq(Cell)
            BY <2>0, <2>1, <2>3, FieldsAre, WrittenIsCell DEF StoreWrite
        <3>2. FlagsOK' /\ OpenOK'
            BY <2>0, <2>3 DEF StoreWrite, FlagsOK, OpenOK
        <3> QED BY <1>4, <2>3, <3>1, <3>2, FieldsAre DEF StoreWrite, PartsOK
    <2>4. CASE StoreSpill(w)
        <3> DEFINE x == Written(storing[w], field[w])
                   out == Append(buffer, x)
        <3>2. out \in Seq(Cell) /\ Len(out) = Len(buffer) + 1
            BY <2>0, <2>1, <2>4, FieldsAre, WrittenIsCell DEF StoreSpill
        <3> HIDE DEF x, out
        <3>3. file' \in Seq(Seq(Cell)) /\ Len(file') = Len(file) /\ buffer' \in Seq(Cell)
            <4>1. CASE file' = Adding(out) /\ buffer' = <<>>
                BY <2>1, <3>2, <4>1, AddingType
            <4>2. ASSUME NEW y \in Parts(out), file' = Adding(y), UNCHANGED buffer
                  PROVE  file' \in Seq(Seq(Cell)) /\ Len(file') = Len(file)
                         /\ buffer' \in Seq(Cell)
                <5>1. y \in Seq(Cell)
                    BY <3>2, PartsAre
                <5> QED BY <2>1, <4>2, <5>1, AddingType
            <4> QED BY <2>4, <4>1, <4>2 DEF StoreSpill, x, out
        <3>4. FlagsOK'
            BY <2>4 DEF StoreSpill, FlagsOK
        <3>5. file' # <<>>
            BY <2>1, <3>3
        <3>6. OpenOK'
            BY <2>0, <2>4, <3>5 DEF StoreSpill, OpenOK
        <3> QED BY <1>4, <2>4, <3>3, <3>4, <3>6, FieldsAre DEF StoreSpill, PartsOK
    <2>5. CASE StoreWriteRefused(w)
        <3>1. FlagsOK' /\ OpenOK'
            BY <2>0, <2>5 DEF StoreWriteRefused, FlagsOK, OpenOK
        <3> QED BY <1>4, <2>5, <3>1, FieldsAre DEF StoreWriteRefused, PartsOK
    <2>6. CASE StoreFlush(w)
        <3>1. file' \in Seq(Seq(Cell)) /\ Len(file') = Len(file) /\ buffer' \in Seq(Cell)
            BY <2>0, <2>6, DrainType DEF StoreFlush, PartsOK
        <3>2. FlagsOK'
            BY <2>0, <2>6, DrainType DEF StoreFlush, FlagsOK
        <3>3. file' # <<>>
            BY <2>1, <3>1
        <3>4. OpenOK'
            BY <2>0, <2>6, <3>3 DEF StoreFlush, OpenOK
        <3> QED BY <1>4, <2>6, <3>1, <3>2, <3>4, FieldsAre, SMTT(30) DEF StoreFlush, PartsOK
    <2>7. CASE StoreLeave(w)
        <3>1. FlagsOK' /\ OpenOK'
            BY <2>0, <2>7 DEF StoreLeave, FlagsOK, OpenOK
        <3>2. stored' \in Seq(Seq(Event)) /\ Len(stored') = Len(stored) /\ failed' \subseteq Event
            <4>1. /\ Len(stored) \in 1 .. Len(stored) /\ stored[Len(stored)] \in Seq(Event)
                  /\ Append(stored[Len(stored)], storing[w]) \in Seq(Event)
                BY <2>0, <2>1 DEF PartsOK
            <4>2. CASE good
                <5>1. /\ stored' = [stored EXCEPT ![Len(stored)] =
                                        Append(stored[Len(stored)], storing[w])]
                      /\ failed' = failed
                    BY <2>7, <4>2 DEF StoreLeave
                <5> QED BY <4>1, <5>1 DEF PartsOK
            <4>3. CASE ~good
                BY <2>0, <2>7, <4>3 DEF StoreLeave, PartsOK
            <4> QED BY <4>2, <4>3
        <3> QED BY <1>4, <2>7, <3>1, <3>2 DEF StoreLeave, PartsOK
    <2> QED BY <1>4, <2>2, <2>3, <2>4, <2>5, <2>6, <2>7 DEF StoreStep
<1>5. CASE UNCHANGED vars
    <2>1. FlagsOK' /\ OpenOK'
        BY <1>5 DEF vars, fileVars, FlagsOK, OpenOK
    <2> QED BY <1>5, <2>1 DEF vars, fileVars, PartsOK
<1> QED BY <1>1, <1>2, <1>3, <1>4, <1>5 DEF Next

LEMMA TypeInvHolds == Spec => []TypeInv
<1> QED BY TypeInvInit, TypeInvStep, PTL DEF Spec

-----------------------------------------------------------------------------
(* The file is only appended to *)

LEMMA PrefixOfItself == ASSUME NEW s \in Seq(Cell) PROVE IsPrefix(s, s)
<1> QED BY DEF IsPrefix

LEMMA PrefixOfLonger ==
    ASSUME NEW s \in Seq(Cell), NEW t \in Seq(Cell)
    PROVE  IsPrefix(s, s \o t)
<1>1. Len(s) <= Len(s \o t) /\ s \o t \in Seq(Cell)
    OBVIOUS
<1>2. /\ Len(SubSeq(s, 1, Len(s))) = Len(s) /\ Len(SubSeq(s \o t, 1, Len(s))) = Len(s)
      /\ \A i \in 1 .. Len(s) : SubSeq(s, 1, Len(s))[i] = SubSeq(s \o t, 1, Len(s))[i]
    BY <1>1
<1>3. SubSeq(s, 1, Len(s)) = SubSeq(s \o t, 1, Len(s))
    BY <1>1, <1>2
<1> QED BY <1>1, <1>3 DEF IsPrefix

\* A step that adds s to what this process has in the file.
LEMMA AddingAppends ==
    ASSUME file \in Seq(Seq(Cell)), file # <<>>, NEW s \in Seq(Cell), file' = Adding(s)
    PROVE  Process <= Process' /\ \A p \in 1 .. Process : IsPrefix(file[p], file'[p])
<1>1. Len(file) \in 1 .. Len(file) /\ \A p \in 1 .. Len(file) : file[p] \in Seq(Cell)
    OBVIOUS
<1>2. /\ Len(file') = Len(file)
      /\ file'[Len(file)] = file[Len(file)] \o s
      /\ \A p \in 1 .. Len(file) - 1 : file'[p] = file[p]
    BY AddingType
<1>3. ASSUME NEW p \in 1 .. Len(file) PROVE IsPrefix(file[p], file'[p])
    <2>1. CASE p = Len(file)
        <3>1. IsPrefix(file[p], file[p] \o s)
            BY <1>1, PrefixOfLonger
        <3> QED BY <1>2, <2>1, <3>1
    <2>2. CASE p # Len(file)
        <3>1. p \in 1 .. Len(file) - 1
            BY <1>1, <2>2
        <3>2. file'[p] = file[p]
            BY <1>2, <3>1
        <3> QED BY <1>1, <3>2, PrefixOfItself
    <2> QED BY <2>1, <2>2
<1> QED BY <1>2, <1>3 DEF Process

\* What this process has in the file after a step is what it had, and at its end
\* what the step has added.
LEMMA StoreStepAdds ==
    ASSUME TypeInv, NEW w \in Storer, StoreStep(w)
    PROVE  \/ UNCHANGED file
           \/ \E s \in Seq(Cell) : file' = Adding(s)
<1>1. CASE StoreLock(w) \/ StoreWrite(w) \/ StoreWriteRefused(w) \/ StoreLeave(w)
    BY <1>1 DEF StoreLock, StoreWrite, StoreWriteRefused, StoreLeave
<1>2. CASE StoreSpill(w)
    <2> DEFINE x == Written(storing[w], field[w])
               out == Append(buffer, x)
    <2>1. storing[w] \in Event /\ field[w] \in 1 .. 3 /\ buffer \in Seq(Cell)
        BY <1>2, FieldsAre DEF StoreSpill, TypeInv, PartsOK
    <2>2. out \in Seq(Cell) /\ Len(out) = Len(buffer) + 1
        BY <2>1, WrittenIsCell
    <2>3. file' = Adding(out) \/ \E s \in Parts(out) : file' = Adding(s)
        BY <1>2 DEF StoreSpill
    <2> HIDE DEF x, out
    <2>4. \A s \in Parts(out) : s \in Seq(Cell)
        BY <2>2, PartsAre
    <2> QED BY <2>2, <2>3, <2>4
<1>3. CASE StoreFlush(w)
    <2>1. buffer \in Seq(Cell)
        BY DEF TypeInv, PartsOK
    <2>2. \A s \in Parts(buffer) : s \in Seq(Cell)
        BY <2>1, PartsAre
    <2> QED BY <1>3, <2>1, <2>2 DEF StoreFlush, Drain
<1> QED BY <1>1, <1>2, <1>3 DEF StoreStep

LEMMA FoundOKStep == TypeInv /\ FoundOK /\ [Next]_vars => FoundOK'
<1> SUFFICES ASSUME TypeInv, FoundOK, [Next]_vars PROVE FoundOK'
    OBVIOUS
<1>1. file \in Seq(Seq(Cell)) /\ buffer \in Seq(Cell) /\ (open => file # <<>>)
    BY DEF TypeInv, PartsOK, OpenOK
<1>2. ASSUME Len(file') = Len(file), UNCHANGED found PROVE FoundOK'
    BY <1>2 DEF FoundOK
<1>3. CASE StartProcess
    <2>1. Contents \in Seq(Cell)
        <3>1. CASE Process = 0
            BY <3>1 DEF Contents
        <3>2. CASE Process # 0
            <4>1. Process \in 1 .. Process /\ file[Process] \in Seq(Cell) /\ found[Process] \in Seq(Cell)
                BY <1>1, <3>2 DEF FoundOK, Process
            <4> QED BY <3>2, <4>1 DEF Contents
        <3> QED BY <3>1, <3>2
    <2>2. Len(file') = Len(file) + 1
        BY <1>1, <1>3 DEF StartProcess, OpenFile
    <2>3. found' = Append(found, Contents)
        BY <1>3 DEF StartProcess
    <2> QED BY <2>1, <2>2, <2>3 DEF FoundOK
<1>4. CASE StopProcess \/ Crash
    <2>1. open /\ UNCHANGED found /\ \E s \in Parts(buffer) \cup {buffer} : file' = Adding(s)
        BY <1>4 DEF StopProcess, CloseFile, Crash, CrashFile
    <2>2. \A s \in Parts(buffer) \cup {buffer} : s \in Seq(Cell)
        BY <1>1, PartsAre
    <2>3. PICK s \in Seq(Cell) : file' = Adding(s)
        BY <2>1, <2>2
    <2>4. Len(file') = Len(file)
        BY <1>1, <2>1, <2>3, AddingType
    <2> QED BY <1>2, <2>1, <2>4
<1>5. ASSUME NEW w \in Storer, StoreStep(w), UNCHANGED found PROVE FoundOK'
    <2>1. open
        BY <1>5 DEF StoreStep, StoreLock, StoreWrite, StoreSpill, StoreWriteRefused,
            StoreFlush, StoreLeave, TypeInv, OpenOK
    <2>2. UNCHANGED file \/ \E s \in Seq(Cell) : file' = Adding(s)
        BY <1>5, StoreStepAdds
    <2> QED BY <1>1, <1>2, <1>5, <2>1, <2>2, AddingType
<1>6. CASE (\E w \in Storer : RunTask(w)) \/ UNCHANGED vars
    BY <1>2, <1>6 DEF RunTask, StoreCall, vars, fileVars
<1> QED BY <1>3, <1>4, <1>5, <1>6 DEF Next

LEMMA FoundOKHolds == Spec => []FoundOK
<1>1. Init => FoundOK
    BY DEF Init, FileInit, FoundOK
<1> QED BY <1>1, FoundOKStep, TypeInvHolds, PTL DEF Spec

\* In every reachable state of every process each variable holds a value of its
\* type, and the lock is held exactly by the thread that is inside storeEvent.
THEOREM TypeCorrect == Spec => []TypeOK
<1> QED BY TypeInvHolds, FoundOKHolds, TypeInvGivesTypeOK, PTL

\* Whatever fails, and whenever a process ends, what is in the file stays as it
\* is, and a later process only adds to it.
THEOREM OnlyAppended == Spec => AppendOnly
<1>1. ASSUME TypeInv, [Next]_vars
      PROVE  [Process <= Process' /\ \A p \in 1 .. Process : IsPrefix(file[p], file'[p])]_vars
    <2>1. file \in Seq(Seq(Cell)) /\ buffer \in Seq(Cell) /\ (open => file # <<>>)
        BY <1>1 DEF TypeInv, PartsOK, OpenOK
    <2>2. \A p \in 1 .. Process : IsPrefix(file[p], file[p])
        BY <2>1, PrefixOfItself DEF Process
    <2>3. ASSUME UNCHANGED file
          PROVE  Process <= Process' /\ \A p \in 1 .. Process : IsPrefix(file[p], file'[p])
        BY <2>1, <2>2, <2>3 DEF Process
    <2>4. ASSUME open, NEW s \in Seq(Cell), file' = Adding(s)
          PROVE  Process <= Process' /\ \A p \in 1 .. Process : IsPrefix(file[p], file'[p])
        BY <2>1, <2>4, AddingAppends
    <2>5. CASE StartProcess
        <3>1. /\ Len(file') = Len(file) + 1 /\ Len(file) \in Nat
              /\ \A p \in 1 .. Len(file) : file'[p] = file[p]
            BY <2>1, <2>5 DEF StartProcess, OpenFile
        <3> QED BY <2>2, <3>1 DEF Process
    <2>6. CASE StopProcess \/ Crash
        <3>1. open /\ \E s \in Parts(buffer) \cup {buffer} : file' = Adding(s)
            BY <2>6 DEF StopProcess, CloseFile, Crash, CrashFile
        <3>2. \A s \in Parts(buffer) \cup {buffer} : s \in Seq(Cell)
            BY <2>1, PartsAre
        <3> QED BY <2>4, <3>1, <3>2
    <2>7. CASE \E w \in Storer : RunTask(w)
        BY <2>3, <2>7 DEF RunTask, StoreCall
    <2>8. ASSUME NEW w \in Storer, StoreStep(w)
          PROVE  Process <= Process' /\ \A p \in 1 .. Process : IsPrefix(file[p], file'[p])
        <3>1. open
            BY <1>1, <2>8 DEF StoreStep, StoreLock, StoreWrite, StoreSpill, StoreWriteRefused,
                StoreFlush, StoreLeave, TypeInv, OpenOK
        <3>2. UNCHANGED file \/ \E s \in Seq(Cell) : file' = Adding(s)
            BY <1>1, <2>8, StoreStepAdds
        <3> QED BY <2>3, <2>4, <3>1, <3>2
    <2> QED BY <1>1, <2>5, <2>6, <2>7, <2>8 DEF Next
<1> QED BY <1>1, TypeInvHolds, PTL DEF Spec, AppendOnly

-----------------------------------------------------------------------------
(* Refinement of the store *)

\* A stream that has not failed has failed no caller.
GoodIsClean == good => failed = {}

LEMMA GoodIsCleanStep == TypeInv /\ GoodIsClean /\ [Next]_vars => GoodIsClean'
<1> SUFFICES ASSUME TypeInv, GoodIsClean, [Next]_vars PROVE GoodIsClean'
    OBVIOUS
<1>1. ASSUME NEW w \in Storer, StoreStep(w) PROVE GoodIsClean'
    BY <1>1 DEF StoreStep, StoreLock, StoreWrite, StoreSpill, StoreWriteRefused, StoreFlush, Drain,
        StoreLeave, GoodIsClean
<1> QED BY <1>1 DEF Next, StartProcess, OpenFile, StopProcess, CloseFile, Crash, CrashFile, Forget,
        RunTask, StoreCall, GoodIsClean, vars, fileVars

LEMMA GoodIsCleanHolds == Spec => []GoodIsClean
<1>1. Init => GoodIsClean
    BY DEF Init, FileInit, GoodIsClean
<1> QED BY <1>1, GoodIsCleanStep, TypeInvHolds, PTL DEF Spec

\* Within one process the store that the other modules use is implemented by
\* the buffer, the file and the lock.
THEOREM Implementation == Spec => ImplementsEngine
<1>1. Init => Engine!StorageInit
    BY DEF Init, FileInit, Engine!StorageInit
<1>2. ASSUME TypeInv, GoodIsClean, [Next]_vars
      PROVE  [(\E e \in Event : Engine!StoreEvent(e)) \/ Engine!StorageInit']_<<stored, failed>>
    <2> USE <1>2
    <2>1. CASE StartProcess
        BY <2>1 DEF StartProcess, OpenFile, TypeInv, PartsOK, OpenOK, Process, Engine!StorageInit
    <2>2. CASE StopProcess \/ Crash
        BY <2>2 DEF StopProcess, CloseFile, Crash, CrashFile, Forget, Engine!StorageInit
    <2>3. ASSUME NEW w \in Storer, StoreLeave(w)
          PROVE  \E e \in Event : Engine!StoreEvent(e)
        <3>1. /\ storing[w] \in Event /\ open /\ file # <<>> /\ Len(stored) = Len(file)
              /\ Len(file) \in 1 .. Len(file) /\ stored \in Seq(Seq(Event))
            BY <2>3 DEF StoreLeave, TypeInv, PartsOK, OpenOK
        <3>2. CASE good
            <4>1. /\ stored' = [stored EXCEPT ![Len(stored)] = Append(@, storing[w])]
                  /\ failed = {} /\ failed' = {} /\ open' /\ Len(file') = Len(file)
                BY <2>3, <3>1, <3>2 DEF StoreLeave, GoodIsClean
            <4>2. stored'[Len(file)] = Append(stored[Len(file)], storing[w])
                BY <3>1, <4>1
            <4> QED BY <3>1, <4>1, <4>2 DEF Engine!StoreEvent, Engine!StoreWrites, Process
        <3>3. CASE ~good
            <4>1. failed' = failed \cup {storing[w]} /\ failed' # {}
                  /\ stored' = stored /\ file' = file /\ open' = open
                BY <2>3, <3>3 DEF StoreLeave
            <4> QED BY <3>1, <4>1 DEF Engine!StoreEvent, Engine!StoreThrows, Process
        <3> QED BY <3>2, <3>3
    <2>4. CASE UNCHANGED <<stored, failed>>
        BY <2>4
    <2>5. ASSUME NEW w \in Storer, RunTask(w) \/ StoreStep(w), ~StoreLeave(w)
          PROVE  UNCHANGED <<stored, failed>>
        BY <2>5 DEF RunTask, StoreCall, StoreStep, StoreLock, StoreWrite, StoreSpill,
            StoreWriteRefused, StoreFlush
    <2> QED BY <2>1, <2>2, <2>3, <2>4, <2>5 DEF Next, vars, fileVars
<1> QED BY <1>1, <1>2, TypeInvHolds, GoodIsCleanHolds, PTL DEF Spec, ImplementsEngine

-----------------------------------------------------------------------------
(* Torn records *)

\* The file s begins with the records of the events done.
Records(s, done) ==
    /\ 3 * Len(done) <= Len(s)
    /\ \A k \in 1 .. Len(done), i \in 1 .. 3 : s[3 * (k - 1) + i] = Written(done[k], i)

\* Behind its first n fields the file s has the first fields of event e, the
\* buffer b has those that follow, and together they are f.
Exact(s, n, b, e, f) ==
    /\ n <= Len(s)
    /\ Len(s) - n + Len(b) = f
    /\ \A i \in n + 1 .. Len(s) : s[i] = Written(e, i - n)
    /\ \A i \in 1 .. Len(b) : b[i] = Written(e, Len(s) - n + i)

\* Behind the first n fields there are only fields of event e and pieces of them,
\* in the file and in the buffer, and after a whole payload there is nothing.
Loose(s, n, b, e) ==
    /\ n <= Len(s)
    /\ \A i \in n + 1 .. Len(s) : s[i][1] = e
    /\ \A i \in 1 .. Len(b) : b[i][1] = e
    /\ \A i \in n + 1 .. Len(s) : s[i][2] = "payload" => i = Len(s) /\ b = <<>>
    /\ \A i \in 1 .. Len(b) : b[i][2] = "payload" => i = Len(b)

LEMMA ConcatIs ==
    ASSUME NEW s \in Seq(Cell), NEW t \in Seq(Cell)
    PROVE  /\ s \o t \in Seq(Cell) /\ Len(s \o t) = Len(s) + Len(t)
           /\ \A i \in 1 .. Len(s) : (s \o t)[i] = s[i]
           /\ \A i \in Len(s) + 1 .. Len(s) + Len(t) : (s \o t)[i] = t[i - Len(s)]
<1> QED OBVIOUS

LEMMA RecordsLonger ==
    ASSUME NEW s \in Seq(Cell), NEW t \in Seq(Cell), NEW done \in Seq(Event), Records(s, done)
    PROVE  Records(s \o t, done)
<1>1. \A k \in 1 .. Len(done), i \in 1 .. 3 : 3 * (k - 1) + i \in 1 .. Len(s)
    BY DEF Records
<1> QED BY <1>1, ConcatIs, SMTT(30) DEF Records

\* What was written as it should is of one event, with the payload last.
LEMMA ExactIsLoose ==
    ASSUME NEW s \in Seq(Cell), NEW b \in Seq(Cell), NEW n \in Nat, NEW e \in Event,
           NEW f \in 0 .. 3, Exact(s, n, b, e, f)
    PROVE  Loose(s, n, b, e)
<1>0. n <= Len(s) /\ Len(s) - n + Len(b) = f /\ Len(s) \in Nat /\ Len(b) \in Nat
    BY DEF Exact
<1>1. \A i \in n + 1 .. Len(s) : i - n \in 1 .. 3 /\ (i - n = 3 => i = Len(s) /\ Len(b) = 0)
    BY <1>0
<1>2. \A i \in 1 .. Len(b) : Len(s) - n + i \in 1 .. 3 /\ (Len(s) - n + i = 3 => i = Len(b))
    BY <1>0
<1>3. \A i \in n + 1 .. Len(s) : s[i][1] = e /\ (s[i][2] = "payload" => i - n = 3)
    BY <1>1, FieldsAre, WrittenIsCell DEF Exact
<1>4. \A i \in 1 .. Len(b) : b[i][1] = e /\ (b[i][2] = "payload" => Len(s) - n + i = 3)
    BY <1>2, FieldsAre, WrittenIsCell, SMTT(30) DEF Exact
<1>5. \A i \in n + 1 .. Len(s) : s[i][1] = e /\ (s[i][2] = "payload" => i = Len(s) /\ b = <<>>)
    <2>1. Len(b) = 0 => b = <<>>
        OBVIOUS
    <2> QED BY <1>1, <1>3, <2>1
<1>6. \A i \in 1 .. Len(b) : b[i][1] = e /\ (b[i][2] = "payload" => i = Len(b))
    BY <1>2, <1>4
<1> QED BY <1>0, <1>5, <1>6 DEF Loose

\* What is put behind the file s is of event e, too, with at most its last field a
\* payload.
LEMMA LooseLonger ==
    ASSUME NEW s \in Seq(Cell), NEW b \in Seq(Cell), NEW n \in Nat, NEW e, Loose(s, n, b, e),
           NEW x \in Seq(Cell), x # <<>> => b # <<>>,
           \A i \in 1 .. Len(x) : x[i][1] = e /\ (x[i][2] = "payload" => i = Len(x))
    PROVE  /\ Loose(s \o x, n, <<>>, e)
           /\ (\A i \in 1 .. Len(x) : x[i][2] # "payload") => Loose(s \o x, n, b, e)
<1> DEFINE t == s \o x
<1>1. /\ Len(t) = Len(s) + Len(x)
      /\ \A i \in 1 .. Len(s) : t[i] = s[i]
      /\ \A i \in Len(s) + 1 .. Len(s) + Len(x) : t[i] = x[i - Len(s)]
    BY ConcatIs
<1> HIDE DEF t
<1>2. n <= Len(s) /\ n <= Len(t) /\ Len(s) \in Nat /\ Len(x) \in Nat
    BY <1>1 DEF Loose
<1>3. ASSUME NEW i \in n + 1 .. Len(t), i <= Len(s)
      PROVE  /\ t[i][1] = e
             /\ t[i][2] = "payload" => i = Len(t) /\ b = <<>>
    <2>1. i \in n + 1 .. Len(s) /\ t[i] = s[i]
        BY <1>1, <1>2, <1>3
    <2>2. s[i][1] = e /\ (s[i][2] = "payload" => i = Len(s) /\ b = <<>>)
        BY <2>1 DEF Loose
    <2>3. b = <<>> => Len(x) = 0
        OBVIOUS
    <2> QED BY <1>1, <2>1, <2>2, <2>3
<1>4. ASSUME NEW i \in n + 1 .. Len(t), i > Len(s)
      PROVE  /\ t[i][1] = e
             /\ t[i][2] = "payload" =>
                    /\ i = Len(t)
                    /\ ~\A j \in 1 .. Len(x) : x[j][2] # "payload"
    <2>1. i - Len(s) \in 1 .. Len(x) /\ t[i] = x[i - Len(s)]
        BY <1>1, <1>2, <1>4
    <2>2. i - Len(s) = Len(x) => i = Len(t)
        BY <1>1, <1>2
    <2> QED BY <2>1, <2>2
<1>5. Loose(t, n, <<>>, e)
    BY <1>2, <1>3, <1>4 DEF Loose
<1>6. ASSUME \A i \in 1 .. Len(x) : x[i][2] # "payload" PROVE Loose(t, n, b, e)
    BY <1>2, <1>3, <1>4, <1>6 DEF Loose
<1> QED BY <1>5, <1>6 DEF t

\* A part of the buffer goes to the file and the buffer is kept.
LEMMA LooseCut ==
    ASSUME NEW s \in Seq(Cell), NEW b \in Seq(Cell), NEW n \in Nat, NEW e, Loose(s, n, b, e),
           NEW x \in Parts(b)
    PROVE  x \in Seq(Cell) /\ Loose(s \o x, n, b, e)
<1>1. /\ x \in Seq(Cell) /\ b # <<>>
      /\ \A i \in 1 .. Len(x) :
             /\ i \in 1 .. Len(b) /\ x[i][1] = b[i][1]
             /\ x[i][2] = "payload" => x[i] = b[i] /\ i < Len(b)
    BY PartsAre
<1>2. \A i \in 1 .. Len(b) : b[i][1] = e /\ (b[i][2] = "payload" => i = Len(b))
    BY DEF Loose
<1>3. ASSUME NEW i \in 1 .. Len(x) PROVE x[i][1] = e /\ x[i][2] # "payload"
    <2>1. /\ i \in 1 .. Len(b) /\ x[i][1] = b[i][1]
          /\ x[i][2] = "payload" => x[i] = b[i] /\ i < Len(b)
        BY <1>1, Zenon
    <2>2. b[i][1] = e /\ (b[i][2] = "payload" => i = Len(b))
        BY <1>2, <2>1, Zenon
    <2>3. i < Len(b) => i # Len(b)
        OBVIOUS
    <2> QED BY <2>1, <2>2, <2>3, Zenon
<1> QED BY <1>1, <1>3, LooseLonger

\* All of the buffer goes to the file.
LEMMA LooseDrain ==
    ASSUME NEW s \in Seq(Cell), NEW b \in Seq(Cell), NEW n \in Nat, NEW e, Loose(s, n, b, e)
    PROVE  Loose(s \o b, n, <<>>, e)
<1>1. \A i \in 1 .. Len(b) : b[i][1] = e /\ (b[i][2] = "payload" => i = Len(b))
    BY DEF Loose
<1> QED BY <1>1, LooseLonger

\* What is in the buffer is forgotten.
LEMMA LooseForget ==
    ASSUME NEW s \in Seq(Cell), NEW b \in Seq(Cell), NEW n \in Nat, NEW e, Loose(s, n, b, e)
    PROVE  Loose(s, n, <<>>, e)
<1> QED BY DEF Loose

LEMMA ExactDrain ==
    ASSUME NEW s \in Seq(Cell), NEW b \in Seq(Cell), NEW n \in Nat, NEW e, NEW f,
           Exact(s, n, b, e, f)
    PROVE  Exact(s \o b, n, <<>>, e, f)
<1> DEFINE t == s \o b
<1>1. /\ Len(t) = Len(s) + Len(b)
      /\ \A i \in n + 1 .. Len(s) : t[i] = s[i]
      /\ \A i \in Len(s) + 1 .. Len(s) + Len(b) : i - Len(s) \in 1 .. Len(b) /\ t[i] = b[i - Len(s)]
    BY ConcatIs DEF Exact
<1> HIDE DEF t
<1>2. \A i \in Len(s) + 1 .. Len(t) : t[i] = Written(e, i - n)
    <2> TAKE i \in Len(s) + 1 .. Len(t)
    <2>1. t[i] = b[i - Len(s)] /\ i - Len(s) \in 1 .. Len(b)
        BY <1>1
    <2>2. b[i - Len(s)] = Written(e, Len(s) - n + (i - Len(s)))
        BY <2>1 DEF Exact
    <2>3. Len(s) - n + (i - Len(s)) = i - n
        OBVIOUS
    <2> QED BY <2>1, <2>2, <2>3
<1>3. \A i \in n + 1 .. Len(t) : t[i] = Written(e, i - n)
    BY <1>1, <1>2 DEF Exact
<1>4. Exact(t, n, <<>>, e, f)
    BY <1>1, <1>3 DEF Exact
<1> QED BY <1>4 DEF t

LEMMA ExactWrite ==
    ASSUME NEW s \in Seq(Cell), NEW b \in Seq(Cell), NEW n \in Nat, NEW e \in Event,
           NEW f \in 1 .. 3, Exact(s, n, b, e, f - 1)
    PROVE  /\ Append(b, Written(e, f)) \in Seq(Cell)
           /\ Exact(s, n, Append(b, Written(e, f)), e, f)
<1> DEFINE x == Written(e, f)
           c == Append(b, x)
<1>1. x \in Cell
    BY WrittenIsCell
<1> HIDE DEF x
<1>2. /\ c \in Seq(Cell) /\ Len(c) = Len(b) + 1 /\ c[Len(b) + 1] = x
      /\ \A i \in 1 .. Len(b) : c[i] = b[i]
    BY <1>1
<1> HIDE DEF c
<1>3. Len(s) - n + (Len(b) + 1) = f
    BY DEF Exact
<1>4. \A i \in 1 .. Len(c) : c[i] = Written(e, Len(s) - n + i)
    <2> TAKE i \in 1 .. Len(c)
    <2>1. CASE i = Len(b) + 1
        BY <1>2, <1>3, <2>1 DEF x
    <2>2. CASE i # Len(b) + 1
        BY <1>2, <2>2 DEF Exact
    <2> QED BY <2>1, <2>2
<1>5. Exact(s, n, c, e, f)
    BY <1>2, <1>3, <1>4 DEF Exact
<1> QED BY <1>2, <1>5 DEF c, x

\* A write spills the buffer and the system takes less than all.
LEMMA SpillCut ==
    ASSUME NEW s \in Seq(Cell), NEW b \in Seq(Cell), NEW n \in Nat, NEW e \in Event,
           NEW f \in 1 .. 3, Exact(s, n, b, e, f - 1), NEW x \in Parts(Append(b, Written(e, f)))
    PROVE  x \in Seq(Cell) /\ Loose(s \o x, n, b, e)
<1>1. PICK o \in Seq(Cell) : o = Append(b, Written(e, f)) /\ Exact(s, n, o, e, f)
    BY ExactWrite
<1>2. Loose(s, n, o, e)
    <2>1. f \in 0 .. 3
        OBVIOUS
    <2> QED BY <1>1, <2>1, ExactIsLoose
<1>3. x \in Seq(Cell) /\ Loose(s \o x, n, o, e)
    BY <1>1, <1>2, LooseCut
<1>4. o # <<>> /\ Len(o) = Len(b) + 1 /\ \A i \in 1 .. Len(b) : o[i] = b[i]
    BY <1>1, WrittenIsCell
<1>5. \A i \in 1 .. Len(b) : i \in 1 .. Len(o) /\ i # Len(o) /\ b[i] = o[i]
    BY <1>4
<1>6. \A i \in 1 .. Len(b) : b[i][1] = e /\ b[i][2] # "payload"
    BY <1>3, <1>5 DEF Loose
<1>7. Loose(s \o x, n, b, e)
    BY <1>3, <1>4, <1>6 DEF Loose
<1> QED BY <1>3, <1>7

\* The record is complete and in the file.
LEMMA ExactRecord ==
    ASSUME NEW s \in Seq(Cell), NEW done \in Seq(Event), NEW e \in Event,
           Records(s, done), Exact(s, 3 * Len(done), <<>>, e, 3)
    PROVE  Records(s, Append(done, e)) /\ Len(s) = 3 * Len(Append(done, e))
<1> DEFINE m == Append(done, e)
<1>1. /\ Len(m) = Len(done) + 1 /\ Len(done) \in Nat /\ m[Len(done) + 1] = e
      /\ \A k \in 1 .. Len(done) : m[k] = done[k]
    OBVIOUS
<1> HIDE DEF m
<1>2. Len(s) = 3 * Len(done) + 3 /\ \A i \in 1 .. 3 : s[3 * Len(done) + i] = Written(e, i)
    <2>1. Len(s) = 3 * Len(done) + 3
        BY <1>1 DEF Exact
    <2>2. \A i \in 1 .. 3 : s[3 * Len(done) + i] = Written(e, (3 * Len(done) + i) - 3 * Len(done))
        BY <1>1, <2>1 DEF Exact
    <2>3. \A i \in 1 .. 3 : (3 * Len(done) + i) - 3 * Len(done) = i
        BY <1>1
    <2> QED BY <2>1, <2>2, <2>3
<1>3. ASSUME NEW k \in 1 .. Len(m), NEW i \in 1 .. 3 PROVE s[3 * (k - 1) + i] = Written(m[k], i)
    <2>1. CASE k <= Len(done)
        BY <1>1, <2>1 DEF Records
    <2>2. CASE k = Len(done) + 1
        BY <1>1, <1>2, <2>2
    <2> QED BY <1>1, <2>1, <2>2
<1>4. Records(s, m) /\ Len(s) = 3 * Len(m)
    BY <1>1, <1>2, <1>3 DEF Records
<1> QED BY <1>4 DEF m

\* What a process leaves: the records of the events done, and fields of one event
\* that is none of them.
Shape(s, done) ==
    /\ Records(s, done)
    /\ \E e \in (Event \cup {NoEvent}) \ Range(done) : Loose(s, 3 * Len(done), <<>>, e)

\* Record k of the file s is whole, the way a reader tells.
Whole(s, k) == 3 * k <= Len(s) /\ SubSeq(s, 3 * (k - 1) + 1, 3 * k) = Record(s[3 * k][1])

LEMMA WholeIs ==
    ASSUME NEW s \in Seq(Cell), NEW k \in Nat \ {0}, 3 * k <= Len(s), NEW e \in Event
    PROVE  SubSeq(s, 3 * (k - 1) + 1, 3 * k) = Record(e)
           <=> \A i \in 1 .. 3 : s[3 * (k - 1) + i] = Written(e, i)
<1> DEFINE c == SubSeq(s, 3 * (k - 1) + 1, 3 * k)
           r == Record(e)
<1>1. c \in Seq(Cell) /\ Len(c) = 3 /\ \A i \in 1 .. 3 : c[i] = s[3 * (k - 1) + i]
    <2>1. 3 * (k - 1) + 1 \in 1 .. Len(s) /\ 3 * k \in 1 .. Len(s) /\ 3 * k - (3 * (k - 1) + 1) + 1 = 3
        OBVIOUS
    <2>2. \A i \in 1 .. 3 : (3 * (k - 1) + 1) + i - 1 = 3 * (k - 1) + i
        OBVIOUS
    <2> QED BY <2>1, <2>2
<1> HIDE DEF c
<1>2. r \in Seq(Cell) /\ Len(r) = 3 /\ \A i \in 1 .. 3 : r[i] = Written(e, i)
    BY FieldsAre, WrittenIsCell DEF Record
<1> HIDE DEF r
<1>3. (\A i \in 1 .. 3 : c[i] = r[i]) => c = r
    BY <1>1, <1>2
<1>4. c = r <=> \A i \in 1 .. 3 : s[3 * (k - 1) + i] = Written(e, i)
    BY <1>1, <1>2, <1>3
<1> QED BY <1>4 DEF c, r

\* A reader stops at the first record that is not whole.
LEMMA ReadableIs ==
    ASSUME NEW s \in Seq(Cell), NEW m \in Nat, 3 * m <= Len(s),
           \A k \in 1 .. m : Whole(s, k), ~Whole(s, m + 1)
    PROVE  Readable(s) = [k \in 1 .. m |-> s[3 * k][1]]
<1> DEFINE n == Len(Fields)
           whole(k) == k * n <= Len(s) /\ SubSeq(s, (k - 1) * n + 1, k * n) = Record(s[k * n][1])
           Ends(j) == (\A k \in 1 .. j : whole(k)) /\ ~whole(j + 1)
           count == CHOOSE j \in 0 .. Len(s) \div n : Ends(j)
<1>1. n = 3
    BY FieldsAre
<1>2. Readable(s) = [k \in 1 .. count |-> s[k * n][1]]
    BY DEF Readable
<1> HIDE DEF n
<1>3. \A k \in Nat : whole(k) <=> Whole(s, k)
    <2> TAKE k \in Nat
    <2>1. k * n = 3 * k /\ (k - 1) * n = 3 * (k - 1)
        BY <1>1
    <2> QED BY <2>1 DEF Whole
<1> HIDE DEF whole
<1>4. Ends(m)
    BY <1>3
<1>5. m \in 0 .. Len(s) \div n
    BY <1>1
<1>6. \A j \in 0 .. Len(s) \div n : Ends(j) => j = m
    <2> TAKE j \in 0 .. Len(s) \div n
    <2>1. j \in Nat
        BY <1>1
    <2>2. j < m => ~Ends(j)
        BY <1>4, <2>1
    <2>3. m < j => ~Ends(j)
        BY <1>4, <2>1
    <2> QED BY <2>1, <2>2, <2>3
<1>7. count = m
    <2> HIDE DEF Ends
    <2> QED BY <1>4, <1>5, <1>6
<1> HIDE DEF count
<1>8. \A k \in 1 .. m : k * n = 3 * k
    BY <1>1
<1> QED BY <1>2, <1>7, <1>8

\* What a reader gets of such a file: the records of the events done, perhaps one
\* of the other event, and pieces of that one at most.
LEMMA ShapeReads ==
    ASSUME NEW s \in Seq(Cell), NEW done \in Seq(Event), Records(s, done),
           NEW e \in Event \cup {NoEvent}, Loose(s, 3 * Len(done), <<>>, e)
    PROVE  /\ Readable(s) \in Seq(Event)
           /\ Len(Readable(s)) \in Len(done) .. Len(done) + 1
           /\ \A k \in 1 .. Len(done) : Readable(s)[k] = done[k]
           /\ Len(Readable(s)) > Len(done) => Readable(s)[Len(done) + 1] = e
           /\ Pieces(s) \subseteq {e}
<1> DEFINE m == Len(done)
<1>1. m \in Nat /\ \A k \in 1 .. m : done[k] \in Event
    OBVIOUS
<1>2. 3 * m <= Len(s) /\ \A k \in 1 .. m, i \in 1 .. 3 : s[3 * (k - 1) + i] = Written(done[k], i)
    BY DEF Records
<1>3. \A i \in 3 * m + 1 .. Len(s) : s[i][1] = e /\ (s[i][2] = "payload" => i = Len(s))
    BY DEF Loose
<1> HIDE DEF m
<1>4. \A k \in 1 .. m : s[3 * k][1] = done[k]
    <2> TAKE k \in 1 .. m
    <2>1. s[3 * (k - 1) + 3] = Written(done[k], 3) /\ 3 * (k - 1) + 3 = 3 * k
        BY <1>1, <1>2
    <2> QED BY <1>1, <2>1, WrittenIsCell
<1>5. \A k \in 1 .. m : Whole(s, k)
    <2> TAKE k \in 1 .. m
    <2>1. k \in Nat \ {0} /\ 3 * k <= Len(s) /\ done[k] \in Event
        BY <1>1, <1>2
    <2>2. SubSeq(s, 3 * (k - 1) + 1, 3 * k) = Record(done[k])
        BY <1>2, <2>1, WholeIs
    <2> QED BY <1>4, <2>1, <2>2 DEF Whole
<1>6. CASE ~Whole(s, m + 1)
    <2>1. Readable(s) = [k \in 1 .. m |-> s[3 * k][1]]
        BY <1>1, <1>2, <1>5, <1>6, ReadableIs
    <2>2. Readable(s) \in Seq(Event) /\ Len(Readable(s)) = m
          /\ \A k \in 1 .. m : Readable(s)[k] = done[k]
        <3>1. Readable(s) \in [1 .. m -> Event] /\ \A k \in 1 .. m : Readable(s)[k] = done[k]
            BY <1>1, <1>4, <2>1
        <3> QED BY <1>1, <3>1
    <2>3. Pieces(s) \subseteq {e}
        BY <1>1, <1>3, <2>2, FieldsAre DEF Pieces
    <2> QED BY <1>1, <2>2, <2>3 DEF m
<1>7. CASE Whole(s, m + 1)
    <2> DEFINE x == s[3 * (m + 1)][1]
    <2>1. /\ 3 * (m + 1) <= Len(s) /\ 3 * (m + 1) \in 3 * m + 1 .. Len(s)
          /\ SubSeq(s, 3 * m + 1, 3 * (m + 1)) = Record(x)
        <3>1. 3 * (m + 1) <= Len(s) /\ SubSeq(s, 3 * ((m + 1) - 1) + 1, 3 * (m + 1)) = Record(x)
            BY <1>7 DEF Whole
        <3>2. (m + 1) - 1 = m /\ 3 * (m + 1) \in 3 * m + 1 .. 3 * (m + 1) /\ Len(s) \in Nat
            BY <1>1
        <3> HIDE DEF x
        <3>3. 3 * (m + 1) \in 3 * m + 1 .. Len(s)
            BY <1>1, <3>1, <3>2
        <3> QED BY <3>1, <3>2, <3>3
    <2>2. x = e /\ x \in Event
        <3>1. s[3 * (m + 1)] \in Cell
            BY <1>1, <2>1
        <3>2. x \in Event
            BY <3>1 DEF Cell
        <3> QED BY <1>3, <2>1, <3>2
    <2>3. s[3 * (m + 1)] = Written(x, 3)
        <3> HIDE DEF x
        <3>1. m + 1 \in Nat \ {0} /\ 3 * ((m + 1) - 1) + 1 = 3 * m + 1
              /\ 3 * ((m + 1) - 1) + 3 = 3 * (m + 1)
            BY <1>1
        <3>2. \A i \in 1 .. 3 : s[3 * ((m + 1) - 1) + i] = Written(x, i)
            BY <2>1, <2>2, <3>1, WholeIs
        <3> QED BY <3>1, <3>2
    <2>4. Len(s) = 3 * (m + 1)
        <3>1. s[3 * (m + 1)][2] = "payload"
            BY <2>2, <2>3, FieldsAre, WrittenIsCell
        <3> QED BY <1>3, <2>1, <3>1
    <2>5. ~Whole(s, (m + 1) + 1)
        BY <1>1, <2>4 DEF Whole
    <2>6. Readable(s) = [k \in 1 .. m + 1 |-> s[3 * k][1]]
        <3>1. m + 1 \in Nat /\ 3 * (m + 1) <= Len(s) /\ \A k \in 1 .. m + 1 : Whole(s, k)
            BY <1>1, <1>5, <1>7, <2>1
        <3> HIDE DEF x
        <3> QED BY <2>5, <3>1, ReadableIs
    <2>7. \A k \in 1 .. m + 1 : s[3 * k][1] \in Event
        <3> TAKE k \in 1 .. m + 1
        <3>1. CASE k \in 1 .. m
            BY <1>1, <1>4, <3>1
        <3>2. CASE k \notin 1 .. m
            <4>1. k = m + 1
                BY <1>1, <3>2
            <4> QED BY <2>2, <4>1
        <3> QED BY <3>1, <3>2
    <2>8. Readable(s) \in Seq(Event) /\ Len(Readable(s)) = m + 1
          /\ (\A k \in 1 .. m : Readable(s)[k] = done[k]) /\ Readable(s)[m + 1] = e
        BY <1>1, <1>4, <2>2, <2>6, <2>7
    <2>9. Pieces(s) \subseteq {e}
        BY <1>1, <2>4, <2>8, FieldsAre DEF Pieces
    <2> QED BY <1>1, <2>8, <2>9 DEF m
<1> QED BY <1>6, <1>7

\* What TornOnlyAtEnd says of one process.
LEMMA ShapeIsTorn ==
    ASSUME NEW s \in Seq(Cell), NEW done \in Seq(Event), Shape(s, done)
    PROVE  /\ IsPrefix(done, Readable(s)) /\ Len(Readable(s)) <= Len(done) + 1
           /\ Cardinality(Pieces(s) \cup (Range(Readable(s)) \ Range(done))) <= 1
           /\ (Pieces(s) \cup (Range(Readable(s)) \ Range(done))) \cap Range(done) = {}
<1> DEFINE r == Readable(s)
           extra == Pieces(s) \cup (Range(r) \ Range(done))
<1>1. Records(s, done)
    BY DEF Shape
<1>2. PICK e \in (Event \cup {NoEvent}) \ Range(done) : Loose(s, 3 * Len(done), <<>>, e)
    BY DEF Shape
<1>3. /\ r \in Seq(Event) /\ Len(r) \in Len(done) .. Len(done) + 1
      /\ \A k \in 1 .. Len(done) : r[k] = done[k]
      /\ Len(r) > Len(done) => r[Len(done) + 1] = e
      /\ Pieces(s) \subseteq {e}
    BY <1>1, <1>2, ShapeReads
<1> HIDE DEF r
<1>4. IsPrefix(done, r)
    <2>1. /\ Len(SubSeq(done, 1, Len(done))) = Len(done) /\ Len(SubSeq(r, 1, Len(done))) = Len(done)
          /\ \A i \in 1 .. Len(done) : SubSeq(done, 1, Len(done))[i] = SubSeq(r, 1, Len(done))[i]
        BY <1>3
    <2>2. SubSeq(done, 1, Len(done)) = SubSeq(r, 1, Len(done))
        BY <1>3, <2>1
    <2> QED BY <1>3, <2>2 DEF IsPrefix
<1>5. extra \subseteq {e}
    <2>1. \A k \in 1 .. Len(r) : r[k] \in Range(done) \/ r[k] = e
        <3> TAKE k \in 1 .. Len(r)
        <3>1. k \in 1 .. Len(done) => r[k] \in Range(done)
            BY <1>3 DEF Range
        <3>2. k \notin 1 .. Len(done) => k = Len(done) + 1 /\ Len(r) > Len(done)
            BY <1>3
        <3> QED BY <1>3, <3>1, <3>2
    <2>2. Range(r) \subseteq Range(done) \cup {e}
        BY <1>3, <2>1 DEF Range
    <2> QED BY <1>3, <2>2
<1>6. Cardinality(extra) <= 1 /\ extra \cap Range(done) = {}
    <2>1. extra = {} \/ extra = {e}
        BY <1>5
    <2>2. Cardinality({}) = 0 /\ Cardinality({e}) = 1
        BY FS_EmptySet, FS_Singleton
    <2>3. e \notin Range(done)
        BY <1>2
    <2> HIDE DEF extra
    <2>4. Cardinality(extra) \in {0, 1}
        BY <2>1, <2>2
    <2>5. extra \cap Range(done) = {}
        BY <1>5, <2>3
    <2> QED BY <2>4, <2>5
<1> QED BY <1>3, <1>4, <1>6 DEF r

LEMMA RangeAppend ==
    ASSUME NEW d \in Seq(Event), NEW e \in Event
    PROVE  /\ Append(d, e) \in Seq(Event) /\ Range(Append(d, e)) = Range(d) \cup {e}
           /\ Range(<<>>) = {}
<1> DEFINE m == Append(d, e)
<1>1. m \in Seq(Event) /\ Len(m) = Len(d) + 1 /\ m[Len(d) + 1] = e
      /\ \A k \in 1 .. Len(d) : m[k] = d[k]
    OBVIOUS
<1> HIDE DEF m
<1>2. \A k \in 1 .. Len(m) : m[k] \in Range(d) \cup {e}
    <2> TAKE k \in 1 .. Len(m)
    <2>1. k \in 1 .. Len(d) \/ k = Len(d) + 1
        BY <1>1
    <2> QED BY <1>1, <2>1 DEF Range
<1>3. \A k \in 1 .. Len(d) : d[k] \in Range(m)
    BY <1>1 DEF Range
<1>4. e \in Range(m)
    BY <1>1 DEF Range
<1>5. Range(m) = Range(d) \cup {e}
    BY <1>1, <1>2, <1>3, <1>4 DEF Range
<1>6. Range(<<>>) = {}
    BY DEF Range
<1> QED BY <1>1, <1>5, <1>6 DEF m

\* What this process has stored.
Done == stored[Process]

\* Each task of this process has an event of its own, and stores it once.
TaskInv ==
    open => /\ Range(Done) \subseteq tasks
            /\ \A w \in Storer : storing[w] # NoEvent => storing[w] \in tasks \ Range(Done)
            /\ \A w, v \in Storer : storing[w] = storing[v] /\ storing[w] # NoEvent => w = v

LEMMA TaskInvStep == TypeInv /\ TaskInv /\ [Next]_vars => TaskInv'
<1> SUFFICES ASSUME TypeInv, TaskInv, [Next]_vars PROVE TaskInv'
    OBVIOUS
<1>0. /\ file \in Seq(Seq(Cell)) /\ stored \in Seq(Seq(Event)) /\ Len(stored) = Len(file)
      /\ storing \in [Storer -> Event \cup {NoEvent}]
      /\ open => Len(file) \in 1 .. Len(file)
    BY DEF TypeInv, PartsOK, OpenOK
<1>1. CASE StartProcess
    <2>1. Len(file') = Len(stored) + 1 /\ stored' = Append(stored, <<>>)
        BY <1>0, <1>1 DEF StartProcess, OpenFile
    <2>2. Done' = <<>>
        BY <1>0, <2>1 DEF Done, Process
    <2>3. \A w \in Storer : storing'[w] = NoEvent
        BY <1>1 DEF StartProcess, OpenFile, TypeInv, OpenOK
    <2> QED BY <2>2, <2>3 DEF TaskInv, Range
<1>2. CASE StopProcess \/ Crash
    BY <1>2 DEF StopProcess, CloseFile, Crash, CrashFile, Forget, TaskInv
<1>3. ASSUME NEW w \in Storer, RunTask(w) PROVE TaskInv'
    <2>1. PICK e \in Event \ tasks : StoreCall(w, e) /\ tasks' = tasks \cup {e}
        BY <1>3 DEF RunTask
    <2>2. open /\ storing' = [storing EXCEPT ![w] = e] /\ Done' = Done
        BY <2>1 DEF StoreCall, Done, Process
    <2>3. \A v \in Storer : storing'[v] = IF v = w THEN e ELSE storing[v]
        BY <1>0, <2>2
    <2> QED BY <2>1, <2>2, <2>3 DEF TaskInv
<1>4. ASSUME NEW w \in Storer, StoreStep(w), UNCHANGED tasks PROVE TaskInv'
    <2>1. open
        BY <1>4 DEF StoreStep, StoreLock, StoreWrite, StoreSpill, StoreWriteRefused,
            StoreFlush, StoreLeave, TypeInv, OpenOK
    <2>2. Len(file') = Len(file)
        <3>1. UNCHANGED file \/ \E s \in Seq(Cell) : file' = Adding(s)
            BY <1>4, StoreStepAdds
        <3> QED BY <1>0, <2>1, <3>1, AddingType
    <2>3. CASE StoreLeave(w)
        <3>1. /\ storing[w] \in Event
              /\ \A v \in Storer : storing'[v] = IF v = w THEN NoEvent ELSE storing[v]
            BY <1>0, <2>3 DEF StoreLeave
        <3>2. Range(Done') \subseteq Range(Done) \cup {storing[w]}
            <4>1. Done \in Seq(Event)
                BY <1>0, <2>1 DEF Done, Process
            <4>2. Done' = Done \/ Done' = Append(Done, storing[w])
                <5>1. stored' = stored \/ stored' = [stored EXCEPT ![Len(stored)] = Append(@, storing[w])]
                    BY <2>3 DEF StoreLeave
                <5> QED BY <1>0, <2>1, <2>2, <5>1 DEF Done, Process
            <4> QED BY <3>1, <4>1, <4>2, RangeAppend
        <3> QED BY <1>4, <2>1, <3>1, <3>2 DEF TaskInv
    <2>4. CASE ~StoreLeave(w)
        <3>1. UNCHANGED <<storing, stored>>
            BY <1>4, <2>4 DEF StoreStep, StoreLock, StoreWrite, StoreSpill, StoreWriteRefused,
                StoreFlush
        <3> QED BY <1>4, <2>1, <2>2, <3>1 DEF TaskInv, Done, Process
    <2> QED BY <2>3, <2>4
<1>5. CASE UNCHANGED vars
    BY <1>5 DEF vars, fileVars, TaskInv, Done, Process
<1> QED BY <1>1, <1>2, <1>3, <1>4, <1>5 DEF Next

LEMMA TaskInvHolds == Spec => []TaskInv
<1>1. Init => TaskInv
    BY DEF Init, FileInit, TaskInv
<1> QED BY <1>1, TaskInvStep, TypeInvHolds, PTL DEF Spec

\* What this process has in its file and its buffer, s being the file and d the
\* events stored.  While the stream is good: the records of d, and behind them
\* what the holder of the lock has written of its event.
GoodOf(s, d) ==
    good => /\ storageMutex = NoStorer => Len(s) = 3 * Len(d) /\ buffer = <<>>
            /\ \A w \in Storer : storageMutex = w =>
                 /\ field[w] <= 4 => Exact(s, 3 * Len(d), buffer, storing[w], field[w] - 1)
                 /\ field[w] = 5 => Exact(s, 3 * Len(d), buffer, storing[w], 3) /\ buffer = <<>>

\* Once it has failed: fields of the event that the holder had then.
FailedOf(s, d) == ~good => \E e \in Event \ Range(d) : Loose(s, 3 * Len(d), buffer, e)

CurOf(s, d) == Records(s, d) /\ GoodOf(s, d) /\ FailedOf(s, d)

Cur == open => CurOf(file[Process], Done)

\* In either case there are fields of no more than one event behind the records.
LEMMA CurIsLoose ==
    ASSUME TypeInv, TaskInv, open, NEW s \in Seq(Cell), NEW d \in Seq(Event), d = Done, CurOf(s, d)
    PROVE  \E e \in (Event \cup {NoEvent}) \ Range(d) :
             /\ Loose(s, 3 * Len(d), buffer, e)
             /\ e = NoEvent => buffer = <<>> /\ Len(s) = 3 * Len(d)
<1>1. CASE ~good
    BY <1>1 DEF CurOf, FailedOf
<1>2. CASE good /\ storageMutex = NoStorer
    <2>1. Len(s) = 3 * Len(d) /\ buffer = <<>>
        BY <1>2 DEF CurOf, GoodOf
    <2>2. Loose(s, 3 * Len(d), buffer, NoEvent)
        BY <2>1 DEF Loose
    <2>3. NoEvent \notin Range(d)
        BY DEF Range
    <2> QED BY <2>1, <2>2, <2>3
<1>3. ASSUME good, NEW w \in Storer, storageMutex = w
      PROVE  \E e \in Event \ Range(d) : Loose(s, 3 * Len(d), buffer, e)
    <2>1. field[w] \in 1 .. 5 /\ storing[w] \in Event
        BY <1>3 DEF TypeInv, PartsOK
    <2>2. storing[w] \notin Range(d)
        BY <2>1 DEF TaskInv
    <2>3. PICK f \in 0 .. 3 : Exact(s, 3 * Len(d), buffer, storing[w], f)
        <3>1. CASE field[w] <= 4
            <4>1. Exact(s, 3 * Len(d), buffer, storing[w], field[w] - 1)
                BY <1>3, <3>1 DEF CurOf, GoodOf
            <4>2. field[w] - 1 \in 0 .. 3
                BY <2>1, <3>1
            <4> QED BY <4>1, <4>2
        <3>2. CASE field[w] = 5
            BY <1>3, <3>2 DEF CurOf, GoodOf
        <3> QED BY <2>1, <3>1, <3>2
    <2>4. buffer \in Seq(Cell) /\ 3 * Len(d) \in Nat
        BY DEF TypeInv, PartsOK
    <2>5. Loose(s, 3 * Len(d), buffer, storing[w])
        BY <2>1, <2>3, <2>4, ExactIsLoose
    <2> QED BY <2>1, <2>2, <2>5
<1>4. storageMutex \in Storer \cup {NoStorer}
    BY DEF TypeInv, PartsOK
<1> QED BY <1>1, <1>2, <1>3, <1>4

\* The steps of storeEvent that change neither the file nor what is stored.
LEMMA CurQuiet ==
    ASSUME TypeInv, TaskInv, NEW s \in Seq(Cell), NEW d \in Seq(Event), d = Done, CurOf(s, d),
           NEW w \in Storer, StoreLock(w) \/ StoreWrite(w) \/ StoreWriteRefused(w)
    PROVE  CurOf(s, d)'
<1>1. storing[w] \in Event /\ storing' = storing /\ good' = good /\ field[w] \in 0 .. 3
      /\ \A v \in Storer : storageMutex = v <=> field[v] > 0
    BY FieldsAre DEF StoreLock, StoreWrite, StoreWriteRefused, TypeInv, PartsOK
<1>2. CASE StoreLock(w)
    <2>1. storageMutex = NoStorer /\ storageMutex' = w /\ field'[w] = 1 /\ buffer' = buffer
        BY <1>2 DEF StoreLock, TypeInv, PartsOK
    <2>2. GoodOf(s, d)'
        <3>1. ASSUME good PROVE Exact(s, 3 * Len(d), <<>>, storing[w], 0) /\ buffer = <<>>
            <4>1. Len(s) = 3 * Len(d) /\ buffer = <<>>
                BY <2>1, <3>1 DEF CurOf, GoodOf
            <4> QED BY <4>1 DEF Exact
        <3> QED BY <1>1, <2>1, <3>1 DEF GoodOf
    <2>3. FailedOf(s, d)'
        BY <1>1, <2>1 DEF CurOf, FailedOf
    <2> QED BY <2>2, <2>3 DEF CurOf
<1>3. CASE StoreWrite(w)
    <2>1. /\ good /\ field[w] \in 1 .. 3 /\ storageMutex = w /\ storageMutex' = w
          /\ field'[w] = field[w] + 1 /\ buffer' = Append(buffer, Written(storing[w], field[w]))
        BY <1>1, <1>3, FieldsAre DEF StoreWrite, TypeInv, PartsOK
    <2>2. Exact(s, 3 * Len(d), buffer, storing[w], field[w] - 1)
        BY <2>1 DEF CurOf, GoodOf
    <2>3. Exact(s, 3 * Len(d), buffer', storing[w], field[w])
        <3>1. buffer \in Seq(Cell) /\ 3 * Len(d) \in Nat
            BY DEF TypeInv, PartsOK
        <3> QED BY <1>1, <2>1, <2>2, <3>1, ExactWrite
    <2>4. field'[w] <= 4 /\ field'[w] # 5 /\ field'[w] - 1 = field[w]
        BY <2>1
    <2>5. GoodOf(s, d)' /\ FailedOf(s, d)'
        <3>1. \A v \in Storer : storageMutex' = v => v = w
            BY <2>1
        <3>2. storageMutex' # NoStorer
            BY <2>1
        <3> QED BY <1>1, <2>1, <2>3, <2>4, <3>1, <3>2 DEF GoodOf, FailedOf
    <2> QED BY <2>5 DEF CurOf
<1>4. CASE StoreWriteRefused(w)
    BY <1>1, <1>4 DEF StoreWriteRefused, CurOf, GoodOf, FailedOf
<1> QED BY <1>2, <1>3, <1>4

\* A flush, of a stream that is good or has failed before.
LEMMA CurFlush ==
    ASSUME TypeInv, TaskInv, open, NEW s \in Seq(Cell), NEW d \in Seq(Event), d = Done, CurOf(s, d),
           NEW w \in Storer, StoreFlush(w)
    PROVE  \/ UNCHANGED file /\ CurOf(s, d)'
           \/ \E x \in Seq(Cell) : file' = Adding(x) /\ CurOf(s \o x, d)'
<1> DEFINE n == 3 * Len(d)
<1>1. /\ storing[w] \in Event /\ storing' = storing /\ field[w] = 4 /\ field'[w] = 5
      /\ storageMutex = w /\ storageMutex' = w /\ n \in Nat
    BY FieldsAre DEF StoreFlush, TypeInv, PartsOK
<1>2. Records(s, d)
    BY DEF CurOf
<1>3. PICK b \in Seq(Cell) : b = buffer
    BY DEF TypeInv, PartsOK
<1>4. CASE file' = Adding(buffer) /\ buffer' = <<>> /\ UNCHANGED good
    <2>1. PICK t \in Seq(Cell) : t = s \o b
        BY ConcatIs
    <2>2. Records(t, d)
        BY <1>2, <2>1, RecordsLonger
    <2>3. GoodOf(t, d)'
        <3>1. ASSUME good PROVE Exact(t, n, <<>>, storing[w], 3)
            <4>1. Exact(s, n, b, storing[w], 3)
                BY <1>1, <1>3, <3>1 DEF CurOf, GoodOf
            <4> QED BY <1>1, <2>1, <4>1, ExactDrain
        <3> QED BY <1>1, <1>4, <3>1 DEF GoodOf
    <2>4. FailedOf(t, d)'
        <3>1. ASSUME ~good PROVE \E e \in Event \ Range(d) : Loose(t, n, <<>>, e)
            <4>1. PICK e \in Event \ Range(d) : Loose(s, n, b, e)
                BY <1>3, <3>1 DEF CurOf, FailedOf
            <4>2. Loose(t, n, <<>>, e)
                BY <1>1, <2>1, <4>1, LooseDrain
            <4> QED BY <4>2
        <3> QED BY <1>4, <3>1 DEF FailedOf
    <2>5. CurOf(t, d)'
        BY <2>2, <2>3, <2>4 DEF CurOf
    <2> QED BY <1>3, <1>4, <2>1, <2>5
<1>5. ASSUME NEW x \in Parts(b), file' = Adding(x), good' = FALSE, UNCHANGED buffer
      PROVE  \E y \in Seq(Cell) : file' = Adding(y) /\ CurOf(s \o y, d)'
    <2>1. x \in Seq(Cell) /\ b # <<>>
        BY <1>5, PartsAre
    <2>2. PICK t \in Seq(Cell) : t = s \o x
        BY <2>1, ConcatIs
    <2>3. Records(t, d)
        BY <1>2, <2>1, <2>2, RecordsLonger
    <2>4. PICK e \in Event \ Range(d) : Loose(s, n, b, e)
        BY <1>3, <2>1, CurIsLoose
    <2>5. Loose(t, n, b, e)
        BY <1>1, <1>5, <2>2, <2>4, LooseCut
    <2>6. CurOf(t, d)'
        BY <1>3, <1>5, <2>3, <2>4, <2>5 DEF CurOf, GoodOf, FailedOf
    <2> QED BY <1>5, <2>1, <2>2, <2>6
<1>6. CASE ~good /\ UNCHANGED <<file, buffer, good>>
    BY <1>6 DEF CurOf, GoodOf, FailedOf
<1> QED BY <1>3, <1>4, <1>5, <1>6 DEF StoreFlush, Drain

\* A write that does not fit into the buffer.
LEMMA CurSpill ==
    ASSUME TypeInv, TaskInv, open, NEW s \in Seq(Cell), NEW d \in Seq(Event), d = Done, CurOf(s, d),
           NEW w \in Storer, StoreSpill(w)
    PROVE  \E x \in Seq(Cell) : file' = Adding(x) /\ CurOf(s \o x, d)'
<1> DEFINE n == 3 * Len(d)
<1>1. /\ storing' = storing /\ field[w] \in 1 .. 3 /\ field'[w] = field[w] + 1 /\ good
      /\ storageMutex = w /\ storageMutex' = w /\ n \in Nat
    BY FieldsAre DEF StoreSpill, TypeInv, PartsOK
<1>2. Records(s, d)
    BY DEF CurOf
<1>3. PICK b \in Seq(Cell) : b = buffer
    BY DEF TypeInv, PartsOK
<1>4. PICK f \in 1 .. 3 : f = field[w]
    BY <1>1
<1>5. PICK e \in Event \ Range(d) : e = storing[w]
    BY DEF StoreSpill, TypeInv, PartsOK, TaskInv
<1>6. Exact(s, n, b, e, f - 1)
    BY <1>1, <1>3, <1>4, <1>5 DEF CurOf, GoodOf
<1> DEFINE out == Append(b, Written(e, f))
<1>7. out \in Seq(Cell) /\ Exact(s, n, out, e, f)
    BY <1>1, <1>6, ExactWrite
<1>8. \/ file' = Adding(out) /\ buffer' = <<>> /\ UNCHANGED good
      \/ /\ \E x \in Parts(out) : file' = Adding(x)
         /\ good' = FALSE
         /\ UNCHANGED buffer
    BY <1>3, <1>4, <1>5 DEF StoreSpill
<1>9. CASE file' = Adding(out) /\ buffer' = <<>> /\ UNCHANGED good
    <2> HIDE DEF out
    <2>1. PICK x \in Seq(Cell) : x = out
        BY <1>7
    <2>2. PICK t \in Seq(Cell) : t = s \o x
        BY ConcatIs
    <2>3. Records(t, d)
        BY <1>2, <2>2, RecordsLonger
    <2>4. Exact(t, n, <<>>, e, f)
        BY <1>1, <1>7, <2>1, <2>2, ExactDrain
    <2>5. field'[w] <= 4 /\ field'[w] # 5 /\ field'[w] - 1 = f
        BY <1>1, <1>4
    <2>6. CurOf(t, d)'
        BY <1>1, <1>5, <1>9, <2>3, <2>4, <2>5 DEF CurOf, GoodOf, FailedOf
    <2> QED BY <1>9, <2>1, <2>2, <2>6
<1>10. ASSUME NEW x \in Parts(out), file' = Adding(x), good' = FALSE, UNCHANGED buffer
       PROVE  \E y \in Seq(Cell) : file' = Adding(y) /\ CurOf(s \o y, d)'
    <2>1. x \in Seq(Cell) /\ Loose(s \o x, n, b, e)
        BY <1>1, <1>6, <1>10, SpillCut
    <2> HIDE DEF out
    <2>2. PICK t \in Seq(Cell) : t = s \o x
        BY <2>1, ConcatIs
    <2>3. Records(t, d)
        BY <1>2, <2>1, <2>2, RecordsLonger
    <2>4. CurOf(t, d)'
        BY <1>3, <1>10, <2>1, <2>2, <2>3 DEF CurOf, GoodOf, FailedOf
    <2> QED BY <1>10, <2>1, <2>2, <2>4
<1> QED
    <2> HIDE DEF out
    <2> QED BY <1>8, <1>9, <1>10

\* storeEvent returns or throws.
LEMMA CurLeave ==
    ASSUME TypeInv, open, NEW s \in Seq(Cell), NEW d \in Seq(Event), d = Done, CurOf(s, d),
           NEW w \in Storer, StoreLeave(w)
    PROVE  \E m \in Seq(Event) : Done' = m /\ CurOf(s, m)'
<1>1. /\ storing[w] \in Event /\ field[w] = 5 /\ storageMutex = w
      /\ storageMutex' = NoStorer /\ good' = good /\ buffer' = buffer /\ file' = file
      /\ stored \in Seq(Seq(Event)) /\ Len(stored) = Len(file) /\ Len(file) \in 1 .. Len(file)
    BY FieldsAre DEF StoreLeave, TypeInv, PartsOK, OpenOK
<1>2. CASE good
    <2>1. Exact(s, 3 * Len(d), <<>>, storing[w], 3) /\ buffer = <<>>
        BY <1>1, <1>2 DEF CurOf, GoodOf
    <2>2. PICK m \in Seq(Event) : m = Append(d, storing[w])
        BY <1>1, RangeAppend
    <2>3. Done' = m
        BY <1>1, <1>2, <2>2 DEF StoreLeave, Done, Process
    <2>4. Records(s, m) /\ Len(s) = 3 * Len(m)
        BY <1>1, <2>1, <2>2, ExactRecord DEF CurOf
    <2>5. CurOf(s, m)'
        BY <1>1, <1>2, <2>1, <2>4 DEF CurOf, GoodOf, FailedOf
    <2> QED BY <2>3, <2>5
<1>3. CASE ~good
    <2>1. Done' = d
        BY <1>1, <1>3 DEF StoreLeave, Done, Process
    <2>2. CurOf(s, d)'
        BY <1>1, <1>3 DEF CurOf, GoodOf, FailedOf
    <2> QED BY <2>1, <2>2
<1> QED BY <1>2, <1>3

\* The file of this process, and what it has stored.
LEMMA Here ==
    ASSUME TypeInv, open
    PROVE  /\ Process = Len(file) /\ Len(stored) = Len(file) /\ Len(file) \in 1 .. Len(file)
           /\ file \in Seq(Seq(Cell)) /\ file # <<>> /\ stored \in Seq(Seq(Event))
           /\ file[Process] \in Seq(Cell) /\ Done \in Seq(Event) /\ buffer \in Seq(Cell)
<1>1. /\ file \in Seq(Seq(Cell)) /\ file # <<>> /\ stored \in Seq(Seq(Event))
      /\ Len(stored) = Len(file) /\ buffer \in Seq(Cell)
    BY DEF TypeInv, PartsOK, OpenOK
<1>2. Len(file) \in 1 .. Len(file)
    BY <1>1
<1> QED BY <1>1, <1>2 DEF Process, Done

LEMMA CurStep == TypeInv /\ TaskInv /\ Cur /\ [Next]_vars => Cur'
<1> SUFFICES ASSUME TypeInv, TaskInv, Cur, [Next]_vars PROVE Cur'
    OBVIOUS
<1>1. CASE StartProcess
    <2>1. /\ file \in Seq(Seq(Cell)) /\ stored \in Seq(Seq(Event)) /\ Len(stored) = Len(file)
          /\ file' = Append(file, <<>>) /\ stored' = Append(stored, <<>>)
        BY <1>1 DEF StartProcess, OpenFile, TypeInv, PartsOK
    <2>2. file'[Process'] = <<>> /\ Done' = <<>>
        BY <2>1 DEF Process, Done
    <2>3. good' /\ storageMutex' = NoStorer /\ buffer' = <<>>
        BY <1>1 DEF StartProcess, OpenFile, TypeInv, OpenOK
    <2>4. CurOf(<<>>, <<>>)'
        <3>1. Records(<<>>, <<>>)
            BY DEF Records
        <3> QED BY <2>3, <3>1 DEF CurOf, GoodOf, FailedOf
    <2> QED BY <2>2, <2>4 DEF Cur
<1>2. CASE StopProcess \/ Crash
    BY <1>2 DEF StopProcess, CloseFile, Crash, CrashFile, Forget, Cur
<1>3. ASSUME NEW w \in Storer, RunTask(w) PROVE Cur'
    <2>1. PICK e \in Event : StoreCall(w, e)
        BY <1>3 DEF RunTask
    <2>2. open /\ UNCHANGED <<open, file, buffer, good, storageMutex, stored>>
        BY <2>1 DEF StoreCall
    <2>3. PICK s \in Seq(Cell) : s = file[Process]
        BY <2>2, Here
    <2>4. PICK d \in Seq(Event) : d = Done
        BY <2>2, Here
    <2>5. storageMutex # w
        BY <2>1 DEF StoreCall, TypeInv, PartsOK
    <2>6. \A v \in Storer \ {w} : storing'[v] = storing[v] /\ field'[v] = field[v]
        BY <2>1 DEF StoreCall, TypeInv, PartsOK
    <2>7. CurOf(s, d)
        BY <2>2, <2>3, <2>4 DEF Cur
    <2>8. CurOf(s, d)'
        BY <2>2, <2>5, <2>6, <2>7 DEF CurOf, GoodOf, FailedOf
    <2>9. file'[Process'] = s /\ Done' = d
        BY <2>2, <2>3, <2>4 DEF Done, Process
    <2> QED BY <2>8, <2>9 DEF Cur
<1>4. ASSUME NEW w \in Storer, StoreStep(w) PROVE Cur'
    <2>1. open
        BY <1>4 DEF StoreStep, StoreLock, StoreWrite, StoreSpill, StoreWriteRefused,
            StoreFlush, StoreLeave, TypeInv, OpenOK
    <2>2. PICK s \in Seq(Cell) : s = file[Process]
        BY <2>1, Here
    <2>3. PICK d \in Seq(Event) : d = Done
        BY <2>1, Here
    <2>4. CurOf(s, d)
        BY <2>1, <2>2, <2>3 DEF Cur
    <2>5. ASSUME UNCHANGED <<file, stored>>, CurOf(s, d)' PROVE Cur'
        <3>1. file'[Process'] = s /\ Done' = d
            BY <2>2, <2>3, <2>5 DEF Done, Process
        <3> QED BY <2>5, <3>1 DEF Cur
    <2>6. ASSUME NEW x \in Seq(Cell), file' = Adding(x), UNCHANGED stored, CurOf(s \o x, d)'
          PROVE  Cur'
        <3>1. Len(file') = Len(file) /\ file'[Len(file)] = s \o x
            BY <2>1, <2>2, <2>6, Here, AddingType
        <3>2. file'[Process'] = s \o x /\ Done' = d
            BY <2>3, <2>6, <3>1 DEF Done, Process
        <3> QED BY <2>6, <3>2 DEF Cur
    <2>7. CASE StoreLock(w) \/ StoreWrite(w) \/ StoreWriteRefused(w)
        <3>1. UNCHANGED <<file, stored>>
            BY <2>7 DEF StoreLock, StoreWrite, StoreWriteRefused
        <3> QED BY <2>3, <2>4, <2>5, <2>7, <3>1, CurQuiet
    <2>8. CASE StoreSpill(w)
        <3>1. UNCHANGED stored
            BY <2>8 DEF StoreSpill
        <3> QED BY <2>1, <2>3, <2>4, <2>6, <2>8, <3>1, CurSpill
    <2>9. CASE StoreFlush(w)
        <3>1. UNCHANGED stored
            BY <2>9 DEF StoreFlush
        <3> QED BY <2>1, <2>3, <2>4, <2>5, <2>6, <2>9, <3>1, CurFlush
    <2>10. CASE StoreLeave(w)
        <3>1. PICK m \in Seq(Event) : Done' = m /\ CurOf(s, m)'
            BY <2>1, <2>3, <2>4, <2>10, CurLeave
        <3>2. file'[Process'] = s
            BY <2>2, <2>10 DEF StoreLeave, Process
        <3> QED BY <3>1, <3>2 DEF Cur
    <2> QED BY <1>4, <2>7, <2>8, <2>9, <2>10 DEF StoreStep
<1>5. CASE UNCHANGED vars
    BY <1>5 DEF vars, fileVars, Cur, CurOf, GoodOf, FailedOf, Done, Process
<1> QED BY <1>1, <1>2, <1>3, <1>4, <1>5 DEF Next

\* The processes that have ended.
Left == \A p \in 1 .. Process : (open => p # Process) => Shape(file[p], stored[p])

\* This process, should it end here.
LEMMA CurEnds ==
    ASSUME TypeInv, TaskInv, Cur, open, NEW x \in Parts(buffer) \cup {buffer}
    PROVE  /\ x \in Seq(Cell)
           /\ Shape(file[Process] \o x, Done)
           /\ Shape(file[Process], Done)
<1>1. PICK s \in Seq(Cell) : s = file[Process]
    BY Here
<1>2. PICK d \in Seq(Event) : d = Done
    BY Here
<1>3. PICK b \in Seq(Cell) : b = buffer
    BY Here
<1>4. CurOf(s, d)
    BY <1>1, <1>2 DEF Cur
<1>5. PICK e \in (Event \cup {NoEvent}) \ Range(d) : Loose(s, 3 * Len(d), b, e)
    BY <1>2, <1>3, <1>4, CurIsLoose
<1>6. Records(s, d) /\ 3 * Len(d) \in Nat
    BY <1>4 DEF CurOf
<1>7. x \in Seq(Cell)
    BY <1>3, PartsAre
<1>8. Shape(s \o x, d)
    <2>1. PICK t \in Seq(Cell) : t = s \o x
        BY <1>7, ConcatIs
    <2>2. Records(t, d)
        BY <1>6, <1>7, <2>1, RecordsLonger
    <2>3. Loose(t, 3 * Len(d), <<>>, e)
        <3>1. CASE x = b
            BY <1>5, <1>6, <2>1, <3>1, LooseDrain
        <3>2. CASE x \in Parts(b)
            <4>1. Loose(t, 3 * Len(d), b, e)
                BY <1>5, <1>6, <2>1, <3>2, LooseCut
            <4> QED BY <1>6, <4>1, LooseForget
        <3> QED BY <1>3, <3>1, <3>2
    <2> QED BY <2>1, <2>2, <2>3 DEF Shape
<1>9. Shape(s, d)
    <2>1. Loose(s, 3 * Len(d), <<>>, e)
        BY <1>5, <1>6, LooseForget
    <2> QED BY <1>6, <2>1 DEF Shape
<1> QED BY <1>1, <1>2, <1>3, <1>7, <1>8, <1>9

LEMMA LeftStep == TypeInv /\ TaskInv /\ Cur /\ Left /\ [Next]_vars => Left'
<1> SUFFICES ASSUME TypeInv, TaskInv, Cur, Left, [Next]_vars PROVE Left'
    OBVIOUS
<1>0. /\ file \in Seq(Seq(Cell)) /\ stored \in Seq(Seq(Event)) /\ Len(stored) = Len(file)
      /\ Process = Len(file) /\ Len(file) \in Nat
    BY DEF TypeInv, PartsOK, Process
<1>1. CASE StartProcess
    <2>1. ~open /\ open' /\ file' = Append(file, <<>>) /\ stored' = Append(stored, <<>>)
        BY <1>1 DEF StartProcess, OpenFile
    <2>2. Process' = Process + 1 /\ \A p \in 1 .. Process : file'[p] = file[p] /\ stored'[p] = stored[p]
        BY <1>0, <2>1 DEF Process
    <2>3. \A p \in 1 .. Process : Shape(file[p], stored[p])
        BY <2>1 DEF Left
    <2>4. ASSUME NEW p \in 1 .. Process', p # Process' PROVE Shape(file[p], stored[p])'
        <3>1. p \in 1 .. Process
            BY <1>0, <2>2, <2>4
        <3>2. Shape(file'[p], stored'[p])
            BY <2>2, <2>3, <3>1
        <3> QED BY <3>2 DEF Shape, Records, Loose
    <2> QED BY <2>1, <2>4 DEF Left
<1>2. CASE StopProcess \/ Crash
    <2>1. open /\ ~open' /\ UNCHANGED stored
        BY <1>2 DEF StopProcess, CloseFile, Crash, CrashFile, Forget
    <2>2. PICK x \in Parts(buffer) \cup {buffer} : file' = Adding(x)
        BY <1>2 DEF StopProcess, CloseFile, Crash, CrashFile
    <2>3. x \in Seq(Cell)
        BY <2>1, CurEnds
    <2>4. Shape(file[Process] \o x, Done)
        BY <2>1, CurEnds
    <2>5. /\ Process' = Process /\ file'[Process] = file[Process] \o x
          /\ \A p \in 1 .. Process - 1 : file'[p] = file[p]
        BY <1>0, <2>1, <2>2, <2>3, Here, AddingType DEF Process
    <2>6. ASSUME NEW p \in 1 .. Process PROVE Shape(file'[p], stored'[p])
        <3>1. CASE p = Process
            BY <2>1, <2>4, <2>5, <3>1 DEF Done
        <3>2. CASE p # Process
            <4>1. p \in 1 .. Process - 1
                BY <1>0, <3>2
            <4> QED BY <2>1, <2>5, <3>2, <4>1 DEF Left
        <3> QED BY <3>1, <3>2
    <2> QED BY <2>1, <2>5, <2>6 DEF Left
<1>3. ASSUME NEW w \in Storer, RunTask(w) PROVE Left'
    BY <1>3 DEF RunTask, StoreCall, Left, Process
<1>4. ASSUME NEW w \in Storer, StoreStep(w) PROVE Left'
    <2>1. open /\ UNCHANGED open
        BY <1>4 DEF StoreStep, StoreLock, StoreWrite, StoreSpill, StoreWriteRefused,
            StoreFlush, StoreLeave, TypeInv, OpenOK
    <2>2. Process' = Process /\ \A p \in 1 .. Process - 1 : file'[p] = file[p]
        <3>1. UNCHANGED file \/ \E x \in Seq(Cell) : file' = Adding(x)
            BY <1>4, StoreStepAdds
        <3> QED BY <1>0, <2>1, <3>1, Here, AddingType DEF Process
    <2>3. \A p \in 1 .. Process - 1 : stored'[p] = stored[p]
        <3>1. \/ UNCHANGED stored
              \/ stored' = [stored EXCEPT ![Len(stored)] = Append(@, storing[w])]
            BY <1>4 DEF StoreStep, StoreLock, StoreWrite, StoreSpill, StoreWriteRefused,
                StoreFlush, StoreLeave
        <3> QED BY <1>0, <3>1
    <2>4. \A p \in 1 .. Process - 1 : Shape(file[p], stored[p])
        BY <1>0, <2>1 DEF Left
    <2>5. \A p \in 1 .. Process' : p # Process' => Shape(file'[p], stored'[p])
        <3> TAKE p \in 1 .. Process'
        <3>1. p # Process' => p \in 1 .. Process - 1
            BY <1>0, <2>2
        <3> QED BY <2>2, <2>3, <2>4, <3>1
    <2> QED BY <2>1, <2>5 DEF Left
<1>5. CASE UNCHANGED vars
    BY <1>5 DEF vars, fileVars, Left, Process
<1> QED BY <1>1, <1>2, <1>3, <1>4, <1>5 DEF Next

LEMMA CurAndLeftHold == Spec => [](Cur /\ Left)
<1>1. Init => Cur /\ Left
    BY DEF Init, FileInit, Cur, Left, Process
<1> QED BY <1>1, CurStep, LeftStep, TypeInvHolds, TaskInvHolds, PTL DEF Spec

\* The part of every process has that shape, whether it has ended or not.
LEMMA EveryShape ==
    ASSUME TypeInv, TaskInv, Cur, Left, NEW p \in 1 .. Process
    PROVE  /\ file[p] \in Seq(Cell) /\ stored[p] \in Seq(Event)
           /\ Shape(file[p], stored[p])
<1>1. file[p] \in Seq(Cell) /\ stored[p] \in Seq(Event)
    BY DEF TypeInv, PartsOK, Process
<1>2. CASE open /\ p = Process
    <2>1. 0 \in 0 .. Len(buffer)
        BY <1>2, Here
    <2>2. Shape(file[Process], Done)
        BY <1>2, <2>1, CurEnds
    <2> QED BY <1>1, <1>2, <2>2 DEF Done
<1>3. CASE ~(open /\ p = Process)
    BY <1>1, <1>3 DEF Left
<1> QED BY <1>2, <1>3

\* Whatever fails, whenever the process is killed and however its threads
\* interleave, its part of the file reads as the records of the events stored, in
\* the order of the calls, and the pieces of one more event at most, behind them.
THEOREM TornRecordsAreLast == Spec => []TornOnlyAtEnd
<1>1. TypeInv /\ TaskInv /\ Cur /\ Left => TornOnlyAtEnd
    <2> SUFFICES ASSUME TypeInv, TaskInv, Cur, Left, NEW p \in 1 .. Process
                 PROVE  /\ IsPrefix(stored[p], Readable(file[p]))
                        /\ Len(Readable(file[p])) <= Len(stored[p]) + 1
                        /\ LET extra == Pieces(file[p])
                                        \cup (Range(Readable(file[p])) \ Range(stored[p]))
                           IN  Cardinality(extra) <= 1 /\ extra \cap Range(stored[p]) = {}
        BY DEF TornOnlyAtEnd
    <2> QED BY EveryShape, ShapeIsTorn
<1> QED BY <1>1, CurAndLeftHold, TypeInvHolds, TaskInvHolds, PTL

-----------------------------------------------------------------------------
(* Reading the whole file *)

\* What a reader gets of any file: whole records, and as many as there are from
\* the front.
LEMMA Reads ==
    ASSUME NEW s \in Seq(Cell)
    PROVE  /\ Readable(s) \in Seq(Event) /\ 3 * Len(Readable(s)) <= Len(s)
           /\ \A k \in 1 .. Len(Readable(s)) : Whole(s, k) /\ Readable(s)[k] = s[3 * k][1]
           /\ \A m \in Nat : (\A k \in 1 .. m : Whole(s, k)) => m <= Len(Readable(s))
<1> DEFINE T == {k \in Nat : ~Whole(s, k + 1)}
<1>1. Len(s) \in T
    <2>1. Len(s) \in Nat /\ ~(3 * (Len(s) + 1) <= Len(s))
        OBVIOUS
    <2> QED BY <2>1 DEF Whole
<1>2. PICK m \in T : \A k \in T : m <= k
    <2>1. T \subseteq Nat /\ T # {}
        BY <1>1
    <2> HIDE DEF T
    <2> QED BY <2>1, LeastNumber
<1>3. m \in Nat /\ ~Whole(s, m + 1)
    OBVIOUS
<1>4. \A k \in 1 .. m : Whole(s, k)
    <2> TAKE k \in 1 .. m
    <2>1. k - 1 \in Nat /\ ~(m <= k - 1) /\ (k - 1) + 1 = k
        BY <1>3
    <2>2. k - 1 \notin T
        BY <1>2, <2>1
    <2> QED BY <2>1, <2>2
<1> HIDE DEF T
<1>5. 3 * m <= Len(s)
    <2>1. CASE m = 0
        BY <2>1
    <2>2. CASE m # 0
        <3>1. Whole(s, m)
            BY <1>3, <1>4, <2>2
        <3> QED BY <3>1 DEF Whole
    <2> QED BY <2>1, <2>2
<1>6. Readable(s) = [k \in 1 .. m |-> s[3 * k][1]]
    BY <1>3, <1>4, <1>5, ReadableIs
<1>7. \A k \in 1 .. m : s[3 * k][1] \in Event
    <2> TAKE k \in 1 .. m
    <2>1. 3 * k \in 1 .. Len(s)
        BY <1>3, <1>5
    <2>2. s[3 * k] \in Cell
        BY <2>1
    <2> QED BY <2>2 DEF Cell
<1>8. /\ Readable(s) \in Seq(Event) /\ Len(Readable(s)) = m
      /\ \A k \in 1 .. m : Readable(s)[k] = s[3 * k][1]
    BY <1>3, <1>6, <1>7
<1>9. \A j \in Nat : (\A k \in 1 .. j : Whole(s, k)) => j <= m
    <2> TAKE j \in Nat
    <2>1. ~(j <= m) => m + 1 \in 1 .. j
        BY <1>3
    <2> QED BY <1>3, <2>1
<1> QED BY <1>3, <1>4, <1>5, <1>8, <1>9

LEMMA WholeCells ==
    ASSUME NEW s \in Seq(Cell), NEW k \in Nat \ {0}, 3 * k <= Len(s)
    PROVE  /\ s[3 * k][1] \in Event
           /\ Whole(s, k) <=> \A i \in 1 .. 3 : s[3 * (k - 1) + i] = Written(s[3 * k][1], i)
<1>1. s[3 * k] \in Cell
    <2>1. 3 * k \in 1 .. Len(s)
        OBVIOUS
    <2> QED BY <2>1
<1>2. PICK e \in Event : e = s[3 * k][1]
    BY <1>1 DEF Cell
<1>3. Whole(s, k) <=> SubSeq(s, 3 * (k - 1) + 1, 3 * k) = Record(e)
    BY <1>2 DEF Whole
<1> QED BY <1>2, <1>3, WholeIs

\* The records at the front of a file are whole.
LEMMA RecordsAreWhole ==
    ASSUME NEW s \in Seq(Cell), NEW d \in Seq(Event), Records(s, d)
    PROVE  \A k \in 1 .. Len(d) : Whole(s, k) /\ s[3 * k][1] = d[k] /\ 3 * k <= Len(s)
<1> TAKE k \in 1 .. Len(d)
<1>0. 3 * Len(d) <= Len(s) /\ Len(s) \in Nat /\ Len(d) \in Nat
    BY DEF Records
<1>1. k \in Nat \ {0} /\ 3 * k <= Len(s) /\ d[k] \in Event
    BY <1>0
<1>2. \A i \in 1 .. 3 : s[3 * (k - 1) + i] = Written(d[k], i)
    BY DEF Records
<1>3. s[3 * k][1] = d[k]
    <2>1. 3 * (k - 1) + 3 = 3 * k
        BY <1>1
    <2>2. s[3 * k] = Written(d[k], 3)
        BY <1>2, <2>1
    <2> QED BY <1>1, <2>2, WrittenIsCell
<1> QED BY <1>1, <1>2, <1>3, WholeCells

\* A file in which the reader misses nothing consists of the records it gets.
LEMMA NothingTorn ==
    ASSUME NEW s \in Seq(Cell), Pieces(s) = {}
    PROVE  /\ Readable(s) \in Seq(Event)
           /\ Records(s, Readable(s)) /\ Len(s) = 3 * Len(Readable(s))
<1>1. PICK r \in Seq(Event) : r = Readable(s)
    BY Reads
<1>2. 3 * Len(r) <= Len(s) /\ \A k \in 1 .. Len(r) : Whole(s, k) /\ r[k] = s[3 * k][1]
    BY <1>1, Reads
<1>3. Len(s) = 3 * Len(r)
    <2>1. \A i \in 3 * Len(r) + 1 .. Len(s) : FALSE
        <3>1. Len(r) * Len(Fields) = 3 * Len(r)
            BY FieldsAre
        <3> QED BY <1>1, <3>1 DEF Pieces
    <2>2. ~(3 * Len(r) < Len(s))
        BY <2>1
    <2> QED BY <1>2, <2>2
<1>4. \A k \in 1 .. Len(r), i \in 1 .. 3 : s[3 * (k - 1) + i] = Written(r[k], i)
    <2> TAKE k \in 1 .. Len(r), i \in 1 .. 3
    <2>1. k \in Nat \ {0} /\ 3 * k <= Len(s)
        BY <1>2
    <2>2. Whole(s, k) /\ r[k] = s[3 * k][1]
        BY <1>2
    <2>3. \A j \in 1 .. 3 : s[3 * (k - 1) + j] = Written(s[3 * k][1], j)
        BY <2>1, <2>2, WholeCells
    <2> QED BY <2>2, <2>3
<1> QED BY <1>1, <1>2, <1>3, <1>4 DEF Records

\* The fields s are of events of process p.
OwnedBy(s, p) == \A i \in 1 .. Len(s) : s[i][1][1] = p

\* Every field is of an event of the process that wrote it.
Owned ==
    /\ \A p \in 1 .. Process : OwnedBy(file[p], p)
    /\ OwnedBy(buffer, Process)
    /\ \A w \in Storer : storing[w] # NoEvent => storing[w][1] = Process

LEMMA OwnedCut ==
    ASSUME NEW s \in Seq(Cell), NEW p, OwnedBy(s, p), NEW x \in Parts(s) \cup {s}
    PROVE  x \in Seq(Cell) /\ OwnedBy(x, p)
<1> QED BY PartsAre DEF OwnedBy

LEMMA OwnedLonger ==
    ASSUME NEW s \in Seq(Cell), NEW t \in Seq(Cell), NEW p, OwnedBy(s, p), OwnedBy(t, p)
    PROVE  OwnedBy(s \o t, p)
<1>1. PICK c \in Seq(Cell) :
          /\ c = s \o t /\ Len(c) = Len(s) + Len(t)
          /\ \A i \in 1 .. Len(s) : c[i] = s[i]
          /\ \A i \in Len(s) + 1 .. Len(s) + Len(t) : c[i] = t[i - Len(s)]
    BY ConcatIs
<1>2. \A i \in Len(s) + 1 .. Len(s) + Len(t) : i - Len(s) \in 1 .. Len(t)
    OBVIOUS
<1> QED BY <1>1, <1>2 DEF OwnedBy

\* What a step of storeEvent puts into the buffer and into the file is of this
\* process.
LEMMA StoreStepOwns ==
    ASSUME TypeInv, Owned, NEW w \in Storer, StoreStep(w)
    PROVE  /\ OwnedBy(buffer', Process)
           /\ \/ UNCHANGED file
              \/ \E x \in Seq(Cell) : file' = Adding(x) /\ OwnedBy(x, Process)
<1>1. PICK b \in Seq(Cell) : b = buffer /\ OwnedBy(b, Process)
    BY DEF TypeInv, PartsOK, Owned
<1>2. OwnedBy(<<>>, Process)
    BY DEF OwnedBy
<1>3. \A x \in Parts(b) : x \in Seq(Cell) /\ OwnedBy(x, Process)
    BY <1>1, OwnedCut
<1>4. ASSUME field[w] \in 1 .. Len(Fields), storing[w] # NoEvent
      PROVE  \E o \in Seq(Cell) : /\ o = Append(buffer, Written(storing[w], field[w]))
                                  /\ OwnedBy(o, Process)
    <2>1. PICK e \in Event : e = storing[w] /\ e[1] = Process
        BY <1>4 DEF TypeInv, PartsOK, Owned
    <2>2. PICK x \in Cell : x = Written(storing[w], field[w]) /\ x[1] = e
        BY <1>4, <2>1, FieldsAre, WrittenIsCell
    <2>3. PICK o \in Seq(Cell) : o = Append(b, x)
        <3>1. Append(b, x) \in Seq(Cell)
            OBVIOUS
        <3> QED BY <3>1
    <2>4. Len(o) = Len(b) + 1 /\ o[Len(b) + 1] = x /\ \A i \in 1 .. Len(b) : o[i] = b[i]
        BY <2>3
    <2>5. OwnedBy(o, Process)
        BY <1>1, <2>1, <2>2, <2>4 DEF OwnedBy
    <2> QED BY <1>1, <2>2, <2>3, <2>4, <2>5
<1>5. CASE StoreLock(w) \/ StoreWriteRefused(w) \/ StoreLeave(w)
    BY <1>1, <1>5 DEF StoreLock, StoreWriteRefused, StoreLeave
<1>6. CASE StoreWrite(w)
    BY <1>4, <1>6 DEF StoreWrite
<1>7. CASE StoreSpill(w)
    <2>1. PICK o \in Seq(Cell) : /\ o = Append(buffer, Written(storing[w], field[w]))
                                 /\ OwnedBy(o, Process)
        BY <1>4, <1>7 DEF StoreSpill
    <2>2. \/ file' = Adding(o) /\ buffer' = <<>>
          \/ (\E x \in Parts(o) : file' = Adding(x)) /\ UNCHANGED buffer
        BY <1>1, <1>7, <2>1 DEF StoreSpill
    <2>3. \A x \in Parts(o) : x \in Seq(Cell) /\ OwnedBy(x, Process)
        BY <2>1, OwnedCut
    <2> QED BY <1>1, <1>2, <2>1, <2>2, <2>3
<1>8. CASE StoreFlush(w)
    <2>1. \/ file' = Adding(b) /\ buffer' = <<>>
          \/ (\E x \in Parts(b) : file' = Adding(x)) /\ UNCHANGED buffer
          \/ UNCHANGED <<file, buffer>>
        BY <1>1, <1>8 DEF StoreFlush, Drain
    <2> QED BY <1>1, <1>2, <1>3, <2>1
<1> QED BY <1>5, <1>6, <1>7, <1>8 DEF StoreStep

LEMMA OwnedStep == TypeInv /\ Owned /\ [Next]_vars => Owned'
<1> SUFFICES ASSUME TypeInv, Owned, [Next]_vars PROVE Owned'
    OBVIOUS
<1>0. /\ file \in Seq(Seq(Cell)) /\ Process = Len(file) /\ Len(file) \in Nat
      /\ buffer \in Seq(Cell) /\ storing \in [Storer -> Event \cup {NoEvent}]
    BY DEF TypeInv, PartsOK, Process
<1>1. OwnedBy(<<>>, Process) /\ OwnedBy(<<>>, Process')
    BY DEF OwnedBy
<1>2. ASSUME open, NEW x \in Seq(Cell), file' = Adding(x), OwnedBy(x, Process)
      PROVE  Process' = Process /\ \A p \in 1 .. Process' : OwnedBy(file'[p], p)
    <2>1. /\ Len(file') = Len(file) /\ Process \in 1 .. Process /\ file[Process] \in Seq(Cell)
          /\ file'[Process] = file[Process] \o x
          /\ \A p \in 1 .. Process - 1 : file'[p] = file[p]
        BY <1>0, <1>2, Here, AddingType
    <2>2. OwnedBy(file[Process] \o x, Process)
        BY <1>2, <2>1, OwnedLonger DEF Owned
    <2>3. \A p \in 1 .. Process : p = Process \/ p \in 1 .. Process - 1
        BY <1>0
    <2>4. Process' = Process
        BY <2>1 DEF Process
    <2> QED BY <2>1, <2>2, <2>3, <2>4 DEF Owned
<1>3. ASSUME UNCHANGED file
      PROVE  Process' = Process /\ \A p \in 1 .. Process' : OwnedBy(file'[p], p)
    BY <1>3 DEF Owned, Process
<1>4. CASE StartProcess
    <2>1. /\ file' = Append(file, <<>>) /\ buffer' = <<>>
          /\ \A w \in Storer : storing'[w] = NoEvent
        BY <1>4 DEF StartProcess, OpenFile, TypeInv, OpenOK
    <2>2. /\ Process' = Process + 1 /\ file'[Process + 1] = <<>>
          /\ \A p \in 1 .. Process : file'[p] = file[p]
        BY <1>0, <2>1 DEF Process
    <2>3. \A p \in 1 .. Process' : p = Process' \/ p \in 1 .. Process
        BY <1>0, <2>2
    <2> QED BY <1>1, <2>1, <2>2, <2>3 DEF Owned
<1>5. CASE StopProcess \/ Crash
    <2>1. /\ open /\ buffer' = <<>> /\ (\A w \in Storer : storing'[w] = NoEvent)
          /\ \E x \in Parts(buffer) \cup {buffer} : file' = Adding(x)
        BY <1>5 DEF StopProcess, CloseFile, Crash, CrashFile, Forget
    <2>2. PICK x \in Seq(Cell) : file' = Adding(x) /\ OwnedBy(x, Process)
        BY <1>0, <2>1, OwnedCut DEF Owned
    <2> QED BY <1>1, <1>2, <2>1, <2>2 DEF Owned
<1>6. ASSUME NEW w \in Storer, RunTask(w) PROVE Owned'
    <2>1. PICK e \in Event : e[1] = Process /\ StoreCall(w, e)
        BY <1>6 DEF RunTask
    <2>2. UNCHANGED <<file, buffer>> /\ \A v \in Storer : storing'[v] = IF v = w THEN e ELSE storing[v]
        BY <1>0, <2>1 DEF StoreCall
    <2>3. Process' = Process /\ \A p \in 1 .. Process' : OwnedBy(file'[p], p)
        BY <1>3, <2>2
    <2> QED BY <2>1, <2>2, <2>3 DEF Owned
<1>7. ASSUME NEW w \in Storer, StoreStep(w) PROVE Owned'
    <2>1. open /\ \A v \in Storer : storing'[v] # NoEvent => storing'[v] = storing[v]
        BY <1>0, <1>7 DEF StoreStep, StoreLock, StoreWrite, StoreSpill, StoreWriteRefused,
            StoreFlush, StoreLeave, TypeInv, OpenOK
    <2>2. Process' = Process /\ \A p \in 1 .. Process' : OwnedBy(file'[p], p)
        BY <1>2, <1>3, <1>7, <2>1, StoreStepOwns
    <2>3. OwnedBy(buffer', Process')
        BY <1>7, <2>2, StoreStepOwns
    <2> QED BY <2>1, <2>2, <2>3 DEF Owned
<1>8. CASE UNCHANGED vars
    <2>1. UNCHANGED <<file, buffer, storing>>
        BY <1>8 DEF vars, fileVars
    <2> QED BY <1>3, <2>1 DEF Owned
<1> QED BY <1>4, <1>5, <1>6, <1>7, <1>8 DEF Next

LEMMA OwnedHolds == Spec => []Owned
<1>1. Init => Owned
    BY DEF Init, FileInit, Owned, OwnedBy, Process
<1> QED BY <1>1, OwnedStep, TypeInvHolds, PTL DEF Spec

\* The file c begins with the fields f and then s.
LaidOut(c, f, s) ==
    /\ Len(f) + Len(s) <= Len(c)
    /\ \A i \in 1 .. Len(f) : c[i] = f[i]
    /\ \A i \in 1 .. Len(s) : c[Len(f) + i] = s[i]

\* So it does, and before s there are fields of processes before p only, and
\* behind it of later ones.
Placed(c, f, s, p) ==
    /\ LaidOut(c, f, s)
    /\ \A i \in 1 .. Len(c) : /\ i <= Len(f) => c[i][1][1] < p
                              /\ i > Len(f) + Len(s) => c[i][1][1] > p

\* Every process has its part of the file, in their order.
InPlace == \A p \in 1 .. Process : Placed(Contents, found[p], file[p], p)

LEMMA PlacedLonger ==
    ASSUME NEW c \in Seq(Cell), NEW f \in Seq(Cell), NEW s \in Seq(Cell), NEW p \in Int,
           Placed(c, f, s, p),
           NEW x \in Seq(Cell), NEW q \in Int, q > p, OwnedBy(x, q)
    PROVE  Placed(c \o x, f, s, p)
<1>1. PICK t \in Seq(Cell) :
          /\ t = c \o x /\ Len(t) = Len(c) + Len(x)
          /\ \A i \in 1 .. Len(c) : t[i] = c[i]
          /\ \A i \in Len(c) + 1 .. Len(c) + Len(x) : t[i] = x[i - Len(c)]
    BY ConcatIs
<1>2. Len(f) + Len(s) <= Len(c)
    BY DEF Placed, LaidOut
<1>3. \A i \in Len(c) + 1 .. Len(t) : t[i][1][1] = q
    <2> TAKE i \in Len(c) + 1 .. Len(t)
    <2>1. i - Len(c) \in 1 .. Len(x) /\ t[i] = x[i - Len(c)]
        BY <1>1
    <2> QED BY <2>1 DEF OwnedBy
<1>4. LaidOut(t, f, s)
    <2>1. \A i \in 1 .. Len(f) : i \in 1 .. Len(c)
        BY <1>2
    <2>2. \A i \in 1 .. Len(s) : Len(f) + i \in 1 .. Len(c)
        BY <1>2
    <2> QED BY <1>1, <1>2, <2>1, <2>2 DEF Placed, LaidOut
<1>5. \A i \in 1 .. Len(t) : /\ i <= Len(f) => t[i][1][1] < p
                             /\ i > Len(f) + Len(s) => t[i][1][1] > p
    <2> TAKE i \in 1 .. Len(t)
    <2>1. CASE i \in 1 .. Len(c)
        BY <1>1, <2>1 DEF Placed
    <2>2. CASE i \notin 1 .. Len(c)
        <3>1. i \in Len(c) + 1 .. Len(t)
            BY <1>1, <2>2
        <3>2. t[i][1][1] = q
            BY <1>3, <3>1
        <3>3. ~(i <= Len(f))
            BY <1>2, <3>1
        <3> QED BY <3>2, <3>3
    <2> QED BY <2>1, <2>2
<1> QED BY <1>1, <1>4, <1>5 DEF Placed

\* The part of the last process.
LEMMA PlacedLast ==
    ASSUME NEW f \in Seq(Cell), NEW s \in Seq(Cell), NEW p \in Int,
           \A i \in 1 .. Len(f) : f[i][1][1] < p
    PROVE  Placed(f \o s, f, s, p)
<1>1. PICK t \in Seq(Cell) :
          /\ t = f \o s /\ Len(t) = Len(f) + Len(s)
          /\ \A i \in 1 .. Len(f) : t[i] = f[i]
          /\ \A i \in Len(f) + 1 .. Len(f) + Len(s) : t[i] = s[i - Len(f)]
    BY ConcatIs
<1>2. \A i \in 1 .. Len(s) : /\ Len(f) + i \in Len(f) + 1 .. Len(f) + Len(s)
                             /\ (Len(f) + i) - Len(f) = i
    OBVIOUS
<1>3. LaidOut(t, f, s)
    BY <1>1, <1>2 DEF LaidOut
<1>4. \A i \in 1 .. Len(t) : i <= Len(f) => i \in 1 .. Len(f)
    OBVIOUS
<1>5. \A i \in 1 .. Len(t) : ~(i > Len(f) + Len(s))
    BY <1>1
<1> QED BY <1>1, <1>3, <1>4, <1>5 DEF Placed

\* The fields of a process that has just started, which has none.
LEMMA PlacedNew ==
    ASSUME NEW c \in Seq(Cell), NEW p \in Int, \A i \in 1 .. Len(c) : c[i][1][1] < p
    PROVE  Placed(c, c, <<>>, p)
<1>1. c \o <<>> = c /\ <<>> \in Seq(Cell)
    OBVIOUS
<1> QED BY <1>1, PlacedLast

LEMMA ContentsIs ==
    ASSUME TypeInv, FoundOK
    PROVE  /\ Contents \in Seq(Cell) /\ Process = Len(file) /\ Process \in Nat
           /\ \A p \in 1 .. Process : found[p] \in Seq(Cell) /\ file[p] \in Seq(Cell)
           /\ Process # 0 => /\ Process \in 1 .. Process
                             /\ Contents = found[Process] \o file[Process]
           /\ Process = 0 => Contents = <<>>
<1>1. /\ Process = Len(file) /\ Process \in Nat
      /\ \A p \in 1 .. Process : found[p] \in Seq(Cell) /\ file[p] \in Seq(Cell)
    BY DEF TypeInv, PartsOK, FoundOK, Process
<1>2. Process # 0 => Process \in 1 .. Process /\ Contents = found[Process] \o file[Process]
    <2>1. Process # 0 => Process \in 1 .. Process
        BY <1>1
    <2> QED BY <2>1, Zenon DEF Contents
<1>3. Process = 0 => Contents = <<>>
    BY DEF Contents
<1>4. Contents \in Seq(Cell)
    <2>1. CASE Process = 0
        BY <1>3, <2>1
    <2>2. CASE Process # 0
        <3>1. found[Process] \in Seq(Cell) /\ file[Process] \in Seq(Cell)
            BY <1>1, <1>2, <2>2
        <3> QED BY <1>2, <2>2, <3>1, ConcatIs
    <2> QED BY <2>1, <2>2
<1> QED BY <1>1, <1>2, <1>3, <1>4

\* A process starts.
LEMMA ContentsFound ==
    ASSUME TypeInv, FoundOK, StartProcess
    PROVE  /\ Contents' = Contents /\ Process' = Process + 1
           /\ found'[Process + 1] = Contents /\ file'[Process + 1] = <<>>
           /\ \A p \in 1 .. Process : found'[p] = found[p] /\ file'[p] = file[p]
<1>1. PICK c \in Seq(Cell) : c = Contents
    BY ContentsIs
<1>2. /\ file' = Append(file, <<>>) /\ found' = Append(found, c)
      /\ file \in Seq(Seq(Cell)) /\ found \in Seq(Seq(Cell))
      /\ Len(file) = Process /\ Len(found) = Process /\ Process \in Nat
    BY <1>1 DEF StartProcess, OpenFile, TypeInv, PartsOK, FoundOK, Process
<1>3. /\ Process' = Process + 1 /\ found'[Process + 1] = c /\ file'[Process + 1] = <<>>
      /\ \A p \in 1 .. Process : found'[p] = found[p] /\ file'[p] = file[p]
    BY <1>2 DEF Process
<1>4. Contents' = c
    <2>1. Process' # 0
        BY <1>2, <1>3
    <2>2. Contents' = c \o <<>>
        BY <1>3, <2>1 DEF Contents
    <2> QED BY <2>2
<1> QED BY <1>1, <1>3, <1>4

LEMMA ConcatAssociates == \A f, s, x \in Seq(Cell) : f \o (s \o x) = (f \o s) \o x
<1> QED OBVIOUS

\* A step adds to what this process has in the file.
LEMMA ContentsLonger ==
    ASSUME TypeInv, FoundOK, open, NEW x \in Seq(Cell), file' = Adding(x), UNCHANGED found
    PROVE  /\ Process' = Process /\ Process \in 1 .. Process
           /\ Contents' = Contents \o x
           /\ file'[Process] = file[Process] \o x
           /\ \A p \in 1 .. Process - 1 : file'[p] = file[p]
<1>1. /\ Process = Len(file) /\ Process \in 1 .. Process /\ Process # 0
      /\ Len(file') = Len(file) /\ file'[Process] = file[Process] \o x
      /\ \A p \in 1 .. Process - 1 : file'[p] = file[p]
    <2>1. /\ Process = Len(file) /\ Process \in 1 .. Process
          /\ file \in Seq(Seq(Cell)) /\ file # <<>>
        BY Here
    <2>2. /\ Len(Adding(x)) = Len(file) /\ Adding(x)[Len(file)] = file[Len(file)] \o x
          /\ \A p \in 1 .. Len(file) - 1 : Adding(x)[p] = file[p]
        BY <2>1, AddingType
    <2>3. Process # 0
        BY <2>1
    <2> QED BY <2>1, <2>2, <2>3, Zenon
<1>2. Process' = Process
    BY <1>1 DEF Process
<1>3. PICK f, s \in Seq(Cell) : f = found[Process] /\ s = file[Process]
    BY <1>1, ContentsIs
<1>4. Contents = f \o s
    BY <1>1, <1>3 DEF Contents
<1>5. Contents' = f \o (s \o x)
    BY <1>1, <1>2, <1>3 DEF Contents
<1>6. f \o (s \o x) = (f \o s) \o x
    BY ConcatAssociates, Zenon
<1> QED BY <1>1, <1>2, <1>4, <1>5, <1>6

LEMMA InPlaceStep == TypeInv /\ FoundOK /\ Owned /\ InPlace /\ [Next]_vars => InPlace'
<1> SUFFICES ASSUME TypeInv, FoundOK, Owned, InPlace, [Next]_vars PROVE InPlace'
    OBVIOUS
<1>1. CASE StartProcess
    <2>1. PICK c \in Seq(Cell) : c = Contents
        BY ContentsIs
    <2>2. \A i \in 1 .. Len(c) : c[i][1][1] < Process + 1
        <3> TAKE i \in 1 .. Len(c)
        <3>1. CASE Process = 0
            BY <2>1, <3>1, ContentsIs
        <3>2. CASE Process # 0
            <4>1. PICK f, s \in Seq(Cell) : f = found[Process] /\ s = file[Process]
                BY <3>2, ContentsIs
            <4>2. /\ c = f \o s /\ Process \in 1 .. Process /\ Process \in Nat
                BY <2>1, <3>2, <4>1, ContentsIs
            <4>3. Placed(c, f, s, Process) /\ OwnedBy(s, Process)
                BY <2>1, <4>1, <4>2 DEF InPlace, Owned
            <4>4. CASE i <= Len(f)
                <5>1. c[i][1][1] < Process
                    BY <4>3, <4>4 DEF Placed
                <5>2. PICK v \in Int : v = c[i][1][1]
                    <6>1. c[i] \in Cell
                        OBVIOUS
                    <6> QED BY <6>1, RecorderAssumption DEF Cell
                <5>3. v < Process + 1
                    BY <4>2, <5>1, <5>2
                <5> QED BY <5>2, <5>3
            <4>5. CASE i > Len(f)
                <5>1. i - Len(f) \in 1 .. Len(s) /\ c[i] = s[i - Len(f)]
                    BY <4>2, <4>5, ConcatIs
                <5>2. c[i][1][1] = Process
                    BY <4>3, <5>1 DEF OwnedBy
                <5> QED BY <4>2, <5>2
            <4> QED BY <4>4, <4>5
        <3> QED BY <3>1, <3>2
    <2>3. Placed(c, c, <<>>, Process + 1)
        <3>1. PICK n \in Int : n = Process + 1
            BY ContentsIs
        <3> QED BY <2>2, <3>1, PlacedNew
    <2>4. ASSUME NEW p \in 1 .. Process' PROVE Placed(Contents', found'[p], file'[p], p)
        <3>1. CASE p = Process + 1
            BY <1>1, <2>1, <2>3, <3>1, ContentsFound
        <3>2. CASE p # Process + 1
            <4>1. p \in 1 .. Process
                BY <1>1, <3>2, ContentsIs, ContentsFound
            <4> QED BY <1>1, <4>1, ContentsFound DEF InPlace
        <3> QED BY <3>1, <3>2
    <2> QED BY <2>4 DEF InPlace, Placed, LaidOut
<1>2. ASSUME open, NEW x \in Seq(Cell), file' = Adding(x), OwnedBy(x, Process), UNCHANGED found
      PROVE  InPlace'
    <2>1. /\ Process' = Process /\ Process \in 1 .. Process /\ Contents' = Contents \o x
          /\ file'[Process] = file[Process] \o x
          /\ \A p \in 1 .. Process - 1 : file'[p] = file[p]
        BY <1>2, ContentsLonger
    <2>2. PICK c \in Seq(Cell) : c = Contents
        BY ContentsIs
    <2>3. ASSUME NEW p \in 1 .. Process' PROVE Placed(Contents', found'[p], file'[p], p)
        <3>1. PICK f, s \in Seq(Cell) : f = found[p] /\ s = file[p]
            BY <2>1, ContentsIs
        <3>2. Placed(c, f, s, p)
            BY <2>1, <2>2, <3>1 DEF InPlace
        <3>3. CASE p = Process
            <4>1. PICK t \in Seq(Cell) : t = s \o x
                BY ConcatIs
            <4>2. Contents' = f \o t
                <5>1. Contents = f \o s
                    BY <2>1, <3>1, <3>3, ContentsIs
                <5>2. Contents' = (f \o s) \o x
                    BY <2>1, <5>1
                <5> QED BY <4>1, <5>2, ConcatAssociates, ZenonT(40)
            <4>3. \A i \in 1 .. Len(f) : f[i][1][1] < p
                <5>1. \A i \in 1 .. Len(f) : c[i] = f[i] /\ i \in 1 .. Len(c)
                    BY <3>2 DEF Placed, LaidOut
                <5>2. \A i \in 1 .. Len(f) : c[i][1][1] < p
                    BY <3>2, <5>1 DEF Placed
                <5> QED BY <5>1, <5>2
            <4>4. Placed(f \o t, f, t, p)
                BY <4>3, PlacedLast
            <4> QED BY <1>2, <2>1, <3>1, <3>3, <4>1, <4>2, <4>4
        <3>4. CASE p # Process
            <4>1. p \in 1 .. Process - 1 /\ Process > p
                BY <2>1, <3>4
            <4>2. Placed(c \o x, f, s, p)
                <5>1. PICK n \in Int : n = Process /\ n > p /\ OwnedBy(x, n)
                    BY <1>2, <2>1, <4>1
                <5> QED BY <3>2, <5>1, PlacedLonger
            <4> QED BY <1>2, <2>1, <2>2, <3>1, <4>1, <4>2
        <3> QED BY <3>3, <3>4
    <2> QED BY <2>3 DEF InPlace, Placed, LaidOut
<1>3. CASE UNCHANGED <<file, found>>
    <2>1. Process' = Process /\ Contents' = Contents
        BY <1>3 DEF Contents, Process
    <2>2. \A p \in 1 .. Process' : Placed(Contents', found'[p], file'[p], p)
        BY <1>3, <2>1, Zenon DEF InPlace
    <2> QED BY <2>2 DEF InPlace, Placed, LaidOut
<1>4. CASE StopProcess \/ Crash
    <2>1. /\ open /\ UNCHANGED found
          /\ \E x \in Parts(buffer) \cup {buffer} : file' = Adding(x)
        BY <1>4 DEF StopProcess, CloseFile, Crash, CrashFile
    <2>2. buffer \in Seq(Cell) /\ OwnedBy(buffer, Process)
        BY DEF TypeInv, PartsOK, Owned
    <2>3. PICK x \in Seq(Cell) : file' = Adding(x) /\ OwnedBy(x, Process)
        BY <2>1, <2>2, OwnedCut
    <2> QED BY <1>2, <2>1, <2>3
<1>5. ASSUME NEW w \in Storer, StoreStep(w), UNCHANGED found PROVE InPlace'
    <2>1. open
        BY <1>5 DEF StoreStep, StoreLock, StoreWrite, StoreSpill, StoreWriteRefused,
            StoreFlush, StoreLeave, TypeInv, OpenOK
    <2> QED BY <1>2, <1>3, <1>5, <2>1, StoreStepOwns
<1>6. CASE (\E w \in Storer : RunTask(w)) \/ UNCHANGED vars
    BY <1>3, <1>6 DEF RunTask, StoreCall, vars, fileVars
<1> QED BY <1>1, <1>4, <1>5, <1>6 DEF Next

LEMMA InPlaceHolds == Spec => []InPlace
<1>1. Init => InPlace
    BY DEF Init, FileInit, InPlace, Process
<1> QED BY <1>1, InPlaceStep, TypeInvHolds, FoundOKHolds, OwnedHolds, PTL DEF Spec

\* No process before p left a torn record.
Untorn(p) == \A q \in 1 .. p - 1 : Pieces(file[q]) = {}

\* The fields f are the records of the events r, and no more.
AllRecords(f, r) == Records(f, r) /\ Len(f) = 3 * Len(r)

\* Then it found whole records and nothing else.
FoundWhole == \A p \in 1 .. Process : Untorn(p) => \E r \in Seq(Event) : AllRecords(found[p], r)

\* Where the fields of a record are.
LEMMA FieldsOfRecord ==
    ASSUME NEW n \in Int, NEW k \in Int, 1 <= k, k <= n, NEW i \in 1 .. 3
    PROVE  3 * (k - 1) + i \in 1 .. 3 * n
<1> QED OBVIOUS

\* Records behind whole records are records of the file.
LEMMA RecordsJoin ==
    ASSUME NEW c \in Seq(Cell), NEW f \in Seq(Cell), NEW s \in Seq(Cell), LaidOut(c, f, s),
           NEW r \in Seq(Event), AllRecords(f, r), NEW d \in Seq(Event), Records(s, d)
    PROVE  \E q \in Seq(Event) :
              /\ Records(c, q) /\ Len(q) = Len(r) + Len(d)
              /\ \A k \in 1 .. Len(r) : q[k] = r[k]
              /\ \A k \in 1 .. Len(d) : q[Len(r) + k] = d[k]
<1>1. PICK q \in Seq(Event) : /\ Len(q) = Len(r) + Len(d)
                              /\ \A k \in 1 .. Len(r) : q[k] = r[k]
                              /\ \A k \in 1 .. Len(d) : q[Len(r) + k] = d[k]
    <2>1. /\ r \o d \in Seq(Event) /\ Len(r \o d) = Len(r) + Len(d)
          /\ \A k \in 1 .. Len(r) : (r \o d)[k] = r[k]
          /\ \A k \in 1 .. Len(d) : (r \o d)[Len(r) + k] = d[k]
        OBVIOUS
    <2> QED BY <2>1
<1>2. PICK n, m, l, h \in Nat : /\ n = Len(r) /\ m = Len(d) /\ l = Len(c) /\ h = Len(s)
                                /\ Len(f) = 3 * n /\ 3 * m <= h /\ 3 * n + h <= l
    <2>1. Len(f) = 3 * Len(r) /\ 3 * Len(d) <= Len(s) /\ Len(f) + Len(s) <= Len(c)
        BY DEF AllRecords, Records, LaidOut
    <2>2. Len(r) \in Nat /\ Len(d) \in Nat /\ Len(s) \in Nat /\ Len(c) \in Nat
        OBVIOUS
    <2> QED BY <2>1, <2>2
<1>3. ASSUME NEW k \in 1 .. n, NEW i \in 1 .. 3
      PROVE  c[3 * (k - 1) + i] = Written(q[k], i)
    <2>1. PICK x \in 1 .. Len(f) : x = 3 * (k - 1) + i
        BY <1>2, FieldsOfRecord
    <2>2. f[x] = Written(r[k], i)
        BY <1>2, <2>1 DEF AllRecords, Records
    <2>3. c[x] = f[x]
        BY DEF LaidOut
    <2> QED BY <1>1, <1>2, <2>1, <2>2, <2>3
<1>4. ASSUME NEW k \in 1 .. m, NEW i \in 1 .. 3
      PROVE  c[3 * ((n + k) - 1) + i] = Written(q[n + k], i)
    <2>1. PICK x \in 1 .. Len(s) : x = 3 * (k - 1) + i
        <3>1. 3 * (k - 1) + i \in 1 .. 3 * m
            BY <1>2, FieldsOfRecord
        <3>2. 3 * (k - 1) + i \in 1 .. h
            BY <1>2, <3>1
        <3> QED BY <1>2, <3>2
    <2>2. s[x] = Written(d[k], i)
        BY <1>2, <2>1 DEF Records
    <2>3. c[Len(f) + x] = s[x]
        BY DEF LaidOut
    <2>4. 3 * ((n + k) - 1) + i = Len(f) + x
        BY <1>2, <2>1
    <2>5. q[n + k] = d[k]
        BY <1>1, <1>2
    <2> QED BY <2>2, <2>3, <2>4, <2>5
<1>5. ASSUME NEW k \in 1 .. Len(q), NEW i \in 1 .. 3
      PROVE  c[3 * (k - 1) + i] = Written(q[k], i)
    <2>1. k \in 1 .. n \/ \E j \in 1 .. m : k = n + j
        <3>1. k \in 1 .. n + m
            BY <1>1, <1>2
        <3>2. k \in 1 .. n \/ (k - n \in 1 .. m /\ k = n + (k - n))
            BY <1>2, <3>1
        <3> QED BY <3>2
    <2> QED BY <1>3, <1>4, <2>1
<1>6. 3 * Len(q) <= Len(c)
    BY <1>1, <1>2
<1>7. Records(c, q)
    BY <1>5, <1>6 DEF Records
<1> QED BY <1>1, <1>7

\* What ReadBack says of one process.
LEMMA ReadBackOf ==
    ASSUME NEW c \in Seq(Cell), NEW f \in Seq(Cell), NEW s \in Seq(Cell), NEW p \in Int,
           Placed(c, f, s, p), OwnedBy(s, p),
           NEW r \in Seq(Event), AllRecords(f, r), NEW d \in Seq(Event), Shape(s, d)
    PROVE  /\ Len(r) + Len(d) <= Len(Readable(c))
           /\ \A i \in 1 .. Len(d) : Readable(c)[Len(r) + i] = d[i]
           /\ \A i \in 1 .. Len(Readable(c)) :
                  Readable(c)[i] \in Range(d) => i \in Len(r) + 1 .. Len(r) + Len(d)
<1>1. LaidOut(c, f, s) /\ Records(s, d) /\ Len(f) = 3 * Len(r)
    BY DEF Placed, Shape, AllRecords
<1>2. PICK q \in Seq(Event) : /\ Records(c, q) /\ Len(q) = Len(r) + Len(d)
                              /\ \A i \in 1 .. Len(d) : q[Len(r) + i] = d[i]
    BY <1>1, RecordsJoin
<1>3. PICK read \in Seq(Event) :
          /\ read = Readable(c) /\ 3 * Len(read) <= Len(c)
          /\ \A k \in 1 .. Len(read) : Whole(c, k) /\ read[k] = c[3 * k][1]
          /\ \A m \in Nat : (\A k \in 1 .. m : Whole(c, k)) => m <= Len(read)
    BY Reads
<1>4. \A k \in 1 .. Len(q) : Whole(c, k) /\ c[3 * k][1] = q[k]
    BY <1>2, RecordsAreWhole
<1>5. PICK n, m, a, b, l, h \in Nat :
          /\ n = Len(r) /\ m = Len(d) /\ a = Len(q) /\ b = Len(read) /\ l = Len(c) /\ h = Len(s)
          /\ Len(f) = 3 * n /\ a = n + m /\ a <= b /\ 3 * b <= l
    <2>1. /\ Len(r) \in Nat /\ Len(d) \in Nat /\ Len(q) \in Nat /\ Len(read) \in Nat
          /\ Len(c) \in Nat /\ Len(s) \in Nat
        OBVIOUS
    <2>2. Len(q) <= Len(read)
        BY <1>3, <1>4, <2>1
    <2> QED BY <1>1, <1>2, <1>3, <2>1, <2>2
<1>6. a = n + m /\ a <= b /\ 3 * b <= l
    BY <1>5
<1>7. \A i \in 1 .. m : read[n + i] = d[i]
    <2> TAKE i \in 1 .. m
    <2>1. n + i \in 1 .. a /\ n + i \in 1 .. b
        BY <1>6
    <2>2. read[n + i] = q[n + i]
        BY <1>3, <1>4, <1>5, <2>1
    <2> QED BY <1>2, <1>5, <2>2
<1>8. ASSUME NEW i \in 1 .. b, read[i] \in Range(d)
      PROVE  i \in n + 1 .. n + m
    <2>1. PICK k \in 1 .. Len(d) : read[i] = d[k]
        <3>1. DOMAIN d = 1 .. Len(d)
            OBVIOUS
        <3> QED BY <1>8, <3>1, Zenon DEF Range
    <2>2. d[k][1] = p
        <3>1. s[3 * k][1] = d[k] /\ 3 * k <= Len(s)
            BY <1>1, RecordsAreWhole
        <3>2. 3 * k \in 1 .. Len(s)
            BY <3>1
        <3> QED BY <3>1, <3>2 DEF OwnedBy
    <2>3. PICK j \in 1 .. l : j = 3 * i
        <3>1. 3 * i \in 1 .. l
            BY <1>6
        <3> QED BY <3>1
    <2>4. c[j][1] = d[k] /\ c[j][1][1] = p
        BY <1>3, <1>5, <2>1, <2>2, <2>3
    <2>5. ~(j <= 3 * n) /\ ~(j > 3 * n + h)
        <3>1. ~(p < p) /\ ~(p > p)
            OBVIOUS
        <3>2. /\ j <= Len(f) => c[j][1][1] < p
              /\ j > Len(f) + Len(s) => c[j][1][1] > p
            BY <1>5 DEF Placed
        <3> QED BY <1>5, <2>4, <3>1, <3>2
    <2>6. PICK x \in 1 .. h : x = j - 3 * n /\ j = 3 * n + x /\ x = 3 * (i - n)
        <3>1. /\ j - 3 * n \in 1 .. h /\ j = 3 * n + (j - 3 * n) /\ j - 3 * n = 3 * (i - n)
            BY <2>3, <2>5
        <3> QED BY <3>1
    <2>7. s[x][1] = d[k]
        <3>1. c[Len(f) + x] = s[x]
            BY <1>1, <1>5 DEF LaidOut
        <3> QED BY <1>5, <2>4, <2>6, <3>1
    <2>8. PICK e \in (Event \cup {NoEvent}) \ Range(d) : Loose(s, 3 * Len(d), <<>>, e)
        BY DEF Shape
    <2>9. ~(x > 3 * m)
        <3>1. x > 3 * m => x \in 3 * Len(d) + 1 .. Len(s)
            BY <1>5
        <3>2. x > 3 * m => s[x][1] = e
            BY <2>8, <3>1 DEF Loose
        <3>3. read[i] # e
            BY <1>8, <2>8, SMTT(30)
        <3> QED BY <2>1, <2>7, <3>2, <3>3
    <2> QED BY <2>6, <2>9
<1> QED BY <1>3, <1>5, <1>7, <1>8

LEMMA FoundWholeStep ==
    TypeInv /\ FoundOK /\ InPlace /\ FoundWhole /\ [Next]_vars => FoundWhole'
<1> SUFFICES ASSUME TypeInv, FoundOK, InPlace, FoundWhole, [Next]_vars PROVE FoundWhole'
    OBVIOUS
<1>0. Process \in Nat
    BY ContentsIs
<1>1. ASSUME Process' = Process, UNCHANGED found,
             \A q \in 1 .. Process - 1 : file'[q] = file[q]
      PROVE  FoundWhole'
    <2> SUFFICES ASSUME NEW p \in 1 .. Process', \A q \in 1 .. p - 1 : Pieces(file'[q]) = {}
                 PROVE  \E r \in Seq(Event) : AllRecords(found'[p], r)
        BY DEF FoundWhole, Untorn, Pieces, Readable, AllRecords, Records
    <2>1. \A q \in 1 .. p - 1 : q \in 1 .. Process - 1
        BY <1>0, <1>1
    <2>2. Untorn(p)
        BY <1>1, <2>1, Zenon DEF Untorn
    <2> QED BY <1>1, <2>2 DEF FoundWhole
<1>2. CASE StartProcess
    <2> SUFFICES ASSUME NEW p \in 1 .. Process', \A q \in 1 .. p - 1 : Pieces(file'[q]) = {}
                 PROVE  \E r \in Seq(Event) : AllRecords(found'[p], r)
        BY DEF FoundWhole, Untorn, Pieces, Readable, AllRecords, Records
    <2>1. \A q \in 1 .. p - 1 : q \in 1 .. Process /\ file'[q] = file[q]
        BY <1>0, <1>2, ContentsFound
    <2>2. Untorn(p)
        BY <2>1, Zenon DEF Untorn
    <2>3. CASE p \in 1 .. Process
        BY <1>2, <2>2, <2>3, ContentsFound DEF FoundWhole
    <2>4. CASE p \notin 1 .. Process
        <3>1. p = Process + 1 /\ p - 1 = Process
            BY <1>0, <1>2, <2>4, ContentsFound
        <3>2. found'[p] = Contents
            BY <1>2, <3>1, ContentsFound
        <3>3. CASE Process = 0
            <4>1. Contents = <<>>
                BY <3>3, ContentsIs
            <4>2. <<>> \in Seq(Event) /\ AllRecords(<<>>, <<>>)
                BY DEF AllRecords, Records
            <4> QED BY <3>2, <4>1, <4>2
        <3>4. CASE Process # 0
            <4>1. Process \in 1 .. Process /\ Contents \in Seq(Cell)
                BY <3>4, ContentsIs
            <4>2. PICK c, f, s \in Seq(Cell) :
                      c = Contents /\ f = found[Process] /\ s = file[Process]
                BY <4>1, ContentsIs
            <4>3. c = f \o s
                BY <3>4, <4>2, ContentsIs
            <4>4. LaidOut(c, f, s)
                BY <4>1, <4>2 DEF InPlace, Placed
            <4>5. Pieces(s) = {}
                BY <2>2, <3>1, <4>1, <4>2 DEF Untorn
            <4>6. PICK d \in Seq(Event) : AllRecords(s, d)
                BY <4>5, NothingTorn DEF AllRecords
            <4>7. PICK r \in Seq(Event) : AllRecords(f, r)
                <5>1. Untorn(Process)
                    <6>1. \A q \in 1 .. Process - 1 : q \in 1 .. p - 1
                        BY <1>0, <3>1
                    <6> QED BY <2>2, <6>1 DEF Untorn
                <5> QED BY <4>1, <4>2, <5>1 DEF FoundWhole
            <4>8. PICK q \in Seq(Event) : Records(c, q) /\ Len(q) = Len(r) + Len(d)
                <5>1. Records(s, d)
                    BY <4>6 DEF AllRecords
                <5>2. \E q \in Seq(Event) :
                          /\ Records(c, q) /\ Len(q) = Len(r) + Len(d)
                          /\ \A k \in 1 .. Len(r) : q[k] = r[k]
                          /\ \A k \in 1 .. Len(d) : q[Len(r) + k] = d[k]
                    BY <4>4, <4>7, <5>1, RecordsJoin
                <5> QED BY <5>2
            <4>9. Len(c) = 3 * Len(q)
                <5>1. Len(c) = Len(f) + Len(s)
                    BY <4>3, ConcatIs
                <5>2. Len(f) = 3 * Len(r) /\ Len(s) = 3 * Len(d)
                    BY <4>6, <4>7 DEF AllRecords
                <5>3. Len(r) \in Nat /\ Len(d) \in Nat
                    OBVIOUS
                <5> QED BY <4>8, <5>1, <5>2, <5>3
            <4> QED BY <3>2, <4>2, <4>8, <4>9 DEF AllRecords
        <3> QED BY <3>3, <3>4
    <2> QED BY <2>3, <2>4
<1>3. ASSUME open, NEW x \in Seq(Cell), file' = Adding(x), UNCHANGED found PROVE FoundWhole'
    BY <1>1, <1>3, ContentsLonger
<1>4. CASE UNCHANGED <<file, found>>
    BY <1>1, <1>4 DEF Process
<1>5. CASE StopProcess \/ Crash
    <2>1. /\ open /\ UNCHANGED found
          /\ \E x \in Parts(buffer) \cup {buffer} : file' = Adding(x)
        BY <1>5 DEF StopProcess, CloseFile, Crash, CrashFile
    <2>2. buffer \in Seq(Cell)
        BY DEF TypeInv, PartsOK
    <2>3. \A x \in Parts(buffer) \cup {buffer} : x \in Seq(Cell)
        BY <2>2, PartsAre
    <2> QED BY <1>3, <2>1, <2>3
<1>6. ASSUME NEW w \in Storer, StoreStep(w), UNCHANGED found PROVE FoundWhole'
    <2>1. open
        BY <1>6 DEF StoreStep, StoreLock, StoreWrite, StoreSpill, StoreWriteRefused,
            StoreFlush, StoreLeave, TypeInv, OpenOK
    <2> QED BY <1>3, <1>4, <1>6, <2>1, StoreStepAdds
<1>7. CASE (\E w \in Storer : RunTask(w)) \/ UNCHANGED vars
    BY <1>4, <1>7 DEF RunTask, StoreCall, vars, fileVars
<1> QED BY <1>2, <1>5, <1>6, <1>7 DEF Next

LEMMA FoundWholeHolds == Spec => []FoundWhole
<1>1. Init => FoundWhole
    BY DEF Init, FileInit, FoundWhole, Process
<1> QED BY <1>1, FoundWholeStep, TypeInvHolds, FoundOKHolds, InPlaceHolds, PTL DEF Spec

\* The records of the events that a process stored are in the whole file for any
\* reader, in their order, behind what the process found, and nowhere else; until
\* a process has left a torn record.
THEOREM StoredIsReadBack == Spec => []ReadBack
<1>1. TypeInv /\ FoundOK /\ TaskInv /\ Cur /\ Left /\ Owned /\ InPlace /\ FoundWhole => ReadBack
    <2> DEFINE Of(read, n, d) ==
                   /\ n + Len(d) <= Len(read)
                   /\ \A i \in 1 .. Len(d) : read[n + i] = d[i]
                   /\ \A i \in 1 .. Len(read) :
                          read[i] \in Range(d) => i \in n + 1 .. n + Len(d)
    <2> SUFFICES ASSUME TypeInv, FoundOK, TaskInv, Cur, Left, Owned, InPlace, FoundWhole,
                        NEW p \in 1 .. Process, \A q \in 1 .. p - 1 : Pieces(file[q]) = {}
                 PROVE  Of(Readable(Contents), Len(found[p]) \div Len(Fields), stored[p])
        BY Zenon DEF ReadBack
    <2>1. PICK c, f, s \in Seq(Cell) : c = Contents /\ f = found[p] /\ s = file[p]
        BY ContentsIs
    <2>2. PICK d \in Seq(Event) : d = stored[p] /\ Shape(s, d)
        BY <2>1, EveryShape
    <2>3. PICK r \in Seq(Event) : AllRecords(f, r)
        BY <2>1 DEF FoundWhole, Untorn
    <2>4. Placed(c, f, s, p) /\ OwnedBy(s, p) /\ p \in Int
        BY <2>1 DEF InPlace, Owned
    <2>5. Len(f) \div Len(Fields) = Len(r)
        <3>1. PICK n \in Nat : n = Len(r) /\ Len(f) = 3 * n
            BY <2>3 DEF AllRecords
        <3>2. (3 * n) \div 3 = n
            OBVIOUS
        <3> QED BY <3>1, <3>2, FieldsAre
    <2>6. Of(Readable(c), Len(r), d)
        BY <2>2, <2>3, <2>4, ReadBackOf, SMTT(30)
    <2> HIDE DEF Of
    <2> QED BY <2>1, <2>2, <2>5, <2>6, Zenon
<1> QED BY <1>1, TypeInvHolds, FoundOKHolds, TaskInvHolds, CurAndLeftHold, OwnedHolds,
        InPlaceHolds, FoundWholeHolds, PTL
=============================================================================
