----------------------------- MODULE TopicTable -----------------------------
(***************************************************************************)
(* One turn of the loop that loads the topic table, LoadFileConfig in      *)
(* src/event/Topic_table.cpp.  A file is a sequence of lines, a line a     *)
(* sequence of tokens: "#", ":", a blank, or a word.  What a table says of *)
(* a topic is TopicPriority in module Dispatcher.                          *)
(***************************************************************************)
EXTENDS Events, SequencesExt

CONSTANTS Word,       \* words that are not names of priorities
          NoTopics,   \* a file that cannot be opened
          NoEntry     \* what a line without an entry amounts to

\* The names of the priorities.
PriorityNamed == [LOW |-> LOW, MEDIUM |-> MEDIUM, HIGH |-> HIGH, CRITICAL |-> CRITICAL]

Blank == " "
Token == {"#", ":", Blank} \cup DOMAIN PriorityNamed \cup Word

\* A line is a sequence of tokens, a topic one that is not empty.
ASSUME TopicFileAssumption ==
    /\ Word \cap {"#", ":", Blank} = {}
    /\ NoEntry \notin Seq(Token) \X EventPriority

-----------------------------------------------------------------------------
\* line.substr(0, line.find('#'))
Uncomment(line) ==
    LET n == SelectInSeq(line, LAMBDA c : c = "#")
    IN  IF n = 0 THEN line ELSE SubSeq(line, 1, n - 1)

\* trim
Trim(s) ==
    LET a == SelectInSeq(s, LAMBDA c : c # Blank)
        b == SelectLastInSeq(s, LAMBDA c : c # Blank)
    IN  IF a = 0 THEN <<>> ELSE SubSeq(s, a, b)

\* What one line adds to the table: a topic with its priority, or nothing.
EntryOf(text) ==
    LET line == Uncomment(text)
        pos == SelectInSeq(line, LAMBDA c : c = ":")
        topic == Trim(SubSeq(line, 1, pos - 1))
        pr == Trim(SubSeq(line, pos + 1, Len(line)))
    IN  IF pos # 0 /\ topic # <<>> /\ Len(pr) = 1 /\ pr[1] \in DOMAIN PriorityNamed
        THEN <<topic, PriorityNamed[pr[1]]>>
        ELSE NoEntry

\* Variant for mutation: insert, which leaves an entry that is there.
EnterFirst(Table, entry) ==
    IF entry = NoEntry THEN Table ELSE Table @@ (entry[1] :> entry[2])

\* Table[topic] = priority
Enter(Table, entry) ==
    IF entry = NoEntry THEN Table
    ELSE [t \in DOMAIN Table \cup {entry[1]} |-> IF t = entry[1] THEN entry[2] ELSE Table[t]]

-----------------------------------------------------------------------------
\* "topic_name:PRIORITY", as config/topics.conf describes a line: blanks may
\* stand around either, and a comment behind.
Says(line, topic, p) ==
    \E colon, name \in 1 .. Len(line) :
        LET BlankFrom(i, j) == \A k \in i .. j : line[k] = Blank
        IN  /\ \E i \in 1 .. colon : \E j \in i .. colon - 1 :
                /\ topic = SubSeq(line, i, j)
                /\ {line[i], line[j]} \cap {Blank} = {}
                /\ Range(topic) \cap {":", "#"} = {}
                /\ BlankFrom(1, i - 1) /\ BlankFrom(j + 1, colon - 1)
            /\ line[colon] = ":" /\ colon < name
            /\ BlankFrom(colon + 1, name - 1)
            /\ line[name] \in DOMAIN PriorityNamed /\ p = PriorityNamed[line[name]]
            /\ \E end \in name .. Len(line) :
                /\ BlankFrom(name + 1, end)
                /\ end = Len(line) \/ line[end + 1] = "#"
=============================================================================
