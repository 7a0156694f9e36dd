---------------------------- MODULE EventFactory ----------------------------
(***************************************************************************)
(* createEvent and calculateCRC32 (src/event/EventFactory.cpp): the        *)
(* counter from which events are numbered, of which the header keeps 32    *)
(* bits, and the checksum table that the first callers fill.               *)
(*                                                                         *)
(* The table and its flag are written and read without synchronisation, so *)
(* the stores of one thread reach the others in any order; the thread      *)
(* itself sees its own at once.                                            *)
(***************************************************************************)
EXTENDS Naturals

CONSTANTS Creator,    \* threads that call createEvent
          IdModulus,  \* number of values of uint32_t
          Entry       \* entries of CRC32_TABLE

ASSUME FactoryAssumption == IdModulus \in Nat \ {0}

VARIABLES global_event_id,
          initialized,  \* the flag, as other threads see it
          CRC32_TABLE,  \* the entries that hold their value, as other threads see it
          unseen,       \* stores of each thread that the others do not see yet
          filled,       \* history: threads that have run the loop over the table
          created,      \* where each thread is in createEvent: "none", "crc", "use"
          number        \* the number that each thread has drawn

factoryVars == <<global_event_id, initialized, CRC32_TABLE, unseen, filled, created, number>>

\* What the store to the flag is called among the stores of a thread.
Flag == "initialized"

FactoryTypeOK ==
    /\ global_event_id \in Nat
    /\ initialized \in BOOLEAN
    /\ CRC32_TABLE \subseteq Entry
    /\ unseen \in [Creator -> SUBSET (Entry \cup {Flag})]
    /\ filled \subseteq Creator
    /\ created \in [Creator -> {"none", "crc", "use"}]
    /\ number \in [Creator -> Nat]

FactoryInit ==
    /\ global_event_id = 0
    /\ initialized = FALSE
    /\ CRC32_TABLE = {}
    /\ unseen = [c \in Creator |-> {}]
    /\ filled = {}
    /\ created = [c \in Creator |-> "none"]
    /\ number = [c \in Creator |-> 0]

\* The counter and the table are those of a process that has just started.
FactoryForgets ==
    /\ global_event_id' = 0
    /\ initialized' = FALSE
    /\ CRC32_TABLE' = {}
    /\ unseen' = [c \in Creator |-> {}]
    /\ filled' = {}
    /\ created' = [c \in Creator |-> "none"]
    /\ number' = [c \in Creator |-> 0]

-----------------------------------------------------------------------------
\* header.id of the event with number n.
Id(n) == n % IdModulus

\* Variant for mutation: the counter is loaded and stored, not fetch_add: the
\* store of a thread that is not done yet undoes the increment.
DrawIdRacy(c) ==
    /\ created[c] = "none"
    /\ number' = [number EXCEPT ![c] = global_event_id]
    /\ global_event_id' = IF \E d \in Creator : created[d] = "crc" THEN global_event_id
                          ELSE global_event_id + 1
    /\ created' = [created EXCEPT ![c] = "crc"]
    /\ UNCHANGED <<initialized, CRC32_TABLE, unseen, filled>>

\* fetch_add.
DrawId(c) ==
    /\ created[c] = "none"
    /\ number' = [number EXCEPT ![c] = global_event_id]
    /\ global_event_id' = global_event_id + 1
    /\ created' = [created EXCEPT ![c] = "crc"]
    /\ UNCHANGED <<initialized, CRC32_TABLE, unseen, filled>>

\* The flag is set: its own store, or another thread's.
SeesTable(c) == initialized \/ Flag \in unseen[c]

\* calculateCRC32 finds the table filled.
FindTable(c) ==
    /\ created[c] = "crc"
    /\ SeesTable(c)
    /\ created' = [created EXCEPT ![c] = "use"]
    /\ UNCHANGED <<global_event_id, initialized, CRC32_TABLE, unseen, filled, number>>

\* Variant for mutation: the loop accumulates in the table itself.
FillTableInPlace(c) ==
    /\ created[c] = "crc"
    /\ ~SeesTable(c)
    /\ CRC32_TABLE' = {}
    /\ unseen' = [unseen EXCEPT ![c] = Entry \cup {Flag}]
    /\ filled' = filled \cup {c}
    /\ created' = [created EXCEPT ![c] = "use"]
    /\ UNCHANGED <<global_event_id, initialized, number>>

\* It does not: the loop stores each entry, when it is computed, and then the flag.
FillTable(c) ==
    /\ created[c] = "crc"
    /\ ~SeesTable(c)
    /\ unseen' = [unseen EXCEPT ![c] = Entry \cup {Flag}]
    /\ filled' = filled \cup {c}
    /\ created' = [created EXCEPT ![c] = "use"]
    /\ UNCHANGED <<global_event_id, initialized, CRC32_TABLE, number>>

\* A store of thread c reaches the other threads.
StoreSeen(c) ==
    /\ \E s \in unseen[c] :
        /\ unseen' = [unseen EXCEPT ![c] = @ \ {s}]
        /\ initialized' = (initialized \/ s = Flag)
        /\ CRC32_TABLE' = CRC32_TABLE \cup ({s} \cap Entry)
    /\ UNCHANGED <<global_event_id, filled, created, number>>

\* Whether the entries that thread c reads hold their values.
TableRight(c) == Entry \subseteq CRC32_TABLE \cup unseen[c]

\* The checksum is computed and the event returned.
ReturnEvent(c) ==
    /\ created[c] = "use"
    /\ created' = [created EXCEPT ![c] = "none"]
    /\ UNCHANGED <<global_event_id, initialized, CRC32_TABLE, unseen, filled, number>>
=============================================================================
