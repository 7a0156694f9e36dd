----------------------------- MODULE MCStartup -----------------------------
(* Configuration files that differ from a good one in one value, at the     *)
(* boundaries of what is validated, or in a pair that is validated          *)
(* together; topic files of up to two lines; two connection threads.        *)
EXTENDS Startup

CONSTANTS c1, c2, t0

\* As config/config.yaml, with a small pool.
Good ==
    [k \in Key |->
        CASE k \in SwitchKey -> k # "broadcast.tcp_push.enable"
          [] k = "storage.backend" -> "sqlite"
          [] k = "Threads_pool.min_threads" -> 1
          [] k = "Threads_pool.max_threads" -> 2
          [] k \in IntKey -> 9000
          [] OTHER -> "text"]

\* What a file may say for key k instead.
Other(k) ==
    {Missing, Malformed} \cup
        CASE k \in {"ingestion.tcp.port", "ingestion.udp.port"} -> {-1, 0, 1, 65535, 65536}
          [] k \in {"router.shards", "router.buffer_size",
                    "rule_engine.threads", "rule_engine.cache_size"} -> {-1, 0}
          [] k = "storage.backend" -> {"", "filesystem", "text"}
          [] OTHER -> {}

\* A path that is needed only if its switch is on.
PathOf == [s \in {"ingestion.file.enable", "python_integration.enable"} |->
            IF s = "ingestion.file.enable" THEN "ingestion.file.path"
            ELSE "python_integration.script_path"]

Documents ==
    {NoFile, Good}
    \cup UNION {{[Good EXCEPT ![k] = v] : v \in Other(k)} : k \in Key}
    \cup {[Good EXCEPT ![s] = v, ![PathOf[s]] = ""] :
            s \in DOMAIN PathOf, v \in {TRUE, FALSE, Missing}}
    \cup {[Good EXCEPT !["Threads_pool.min_threads"] = m, !["Threads_pool.max_threads"] = n] :
            m \in -1 .. 3, n \in -1 .. 3}

Lines(n) == UNION {[1 .. m -> {"#", ":", Blank, "LOW", "HIGH", "u"}] : m \in 0 .. n}

\* Two lines each, about one topic or two, with and without a comment.
Line(topic, name, rest) == <<topic, ":", Blank, name>> \o rest
TopicFiles ==
    LET line == {Line("u", "LOW", <<>>), Line("u", "HIGH", <<Blank, "#", ":">>),
                 Line("HIGH", "CRITICAL", <<>>), <<"#">> \o Line("u", "MEDIUM", <<>>)}
    IN  {NoTopics, <<>>} \cup {<<a, b>> : a, b \in line}

MCInput == {<<d, <<>>>> : d \in Documents} \cup {<<Good, t>> : t \in TopicFiles}

\* For every line of up to five tokens: it has an entry exactly if it says
\* something, and then that, and it says one thing at most.
ASSUME LineAgrees ==
    \A line \in Lines(5) :
        LET said == {<<SubSeq(line, i, j), p>> : i, j \in 1 .. Len(line), p \in EventPriority}
            says == {tp \in said : Says(line, tp[1], tp[2])}
        IN  says = IF EntryOf(line) = NoEntry THEN {} ELSE {EntryOf(line)}
=============================================================================
