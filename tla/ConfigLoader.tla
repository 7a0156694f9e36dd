---------------------------- MODULE ConfigLoader ----------------------------
(***************************************************************************)
(* loadConfig (src/config/ConfigLoader.cpp, include/config/AppConfig.hpp): *)
(* a configuration file becomes a configuration, or an exception.          *)
(*                                                                         *)
(* A file is a function from the keys that the loader looks up to values.  *)
(* A section that is absent has none of its keys; since every section has  *)
(* a key that must be there, looking for the section first tells nothing   *)
(* more than which message is logged, and neither does the order in which  *)
(* the loader looks.                                                       *)
(***************************************************************************)
EXTENDS Integers

CONSTANTS NoFile,     \* a file that cannot be opened or is not YAML
          Missing,    \* the value of a key that is not there
          Malformed,  \* a value that does not convert to the key's type
          Throws      \* the result of a call that throws

\* What as<int>() reads.
IntKey == {
    "ingestion.tcp.port", "ingestion.tcp.maxConnections",
    "ingestion.udp.port", "ingestion.udp.bufferSize",
    "ingestion.file.poll_interval_ms",
    "router.shards", "router.buffer_size",
    "rule_engine.threads", "rule_engine.cache_size",
    "broadcast.tcp_push.port", "broadcast.websocket_push.port",
    "Threads_pool.min_threads", "Threads_pool.max_threads"}

\* What as<std::string>() reads.
TextKey == {
    "app_name", "version",
    "ingestion.tcp.host", "ingestion.udp.host", "ingestion.file.path",
    "router.strategy", "rule_engine.rules_file",
    "storage.backend", "storage.sqlite_path",
    "python_integration.script_path",
    "broadcast.tcp_push.host", "broadcast.websocket_push.host"}

\* What as<bool>(false) reads: anything but a truth value counts as false.
SwitchKey == {
    "ingestion.tcp.enable", "ingestion.udp.enable", "ingestion.file.enable",
    "rule_engine.enable_cache", "python_integration.enable",
    "broadcast.tcp_push.enable", "broadcast.websocket_push.enable"}

\* The plug-ins may be left out, but those that are listed must be strings.
PluginKey == "plugins.load"

Key == IntKey \cup TextKey \cup SwitchKey \cup {PluginKey}

-----------------------------------------------------------------------------
\* Every key that has to be there is, and has the type it is read with.
Converts(doc) ==
    /\ \A k \in IntKey \cup TextKey : doc[k] \notin {Missing, Malformed}
    /\ doc[PluginKey] # Malformed

\* The AppConfiguration that is filled in, by the keys its members are read from.
AppConfiguration(doc) ==
    [k \in Key |-> IF k \in SwitchKey THEN doc[k] = TRUE ELSE doc[k]]

\* Variant for mutation: a port has no upper limit.
IsPortUnlimited(n) == n > 0

IsPort(n) == n > 0 /\ n <= 65535

ThreadsAreValid(min, max) == min > 0 /\ max > 0 /\ min <= max

\* The validations at the end.  They leave out the ports of "broadcast", and
\* the numbers of connections, bytes and milliseconds.
IsValid(config) ==
    /\ IsPort(config["ingestion.tcp.port"])
    /\ IsPort(config["ingestion.udp.port"])
    /\ ~(config["ingestion.file.enable"] /\ config["ingestion.file.path"] = "")
    /\ config["router.shards"] > 0 /\ config["router.buffer_size"] > 0
    /\ config["rule_engine.threads"] > 0 /\ config["rule_engine.cache_size"] >= 0
    /\ config["storage.backend"] \in {"sqlite", "filesystem"}
    /\ ~(config["python_integration.enable"] /\ config["python_integration.script_path"] = "")
    /\ ThreadsAreValid(config["Threads_pool.min_threads"], config["Threads_pool.max_threads"])

loadConfig(doc) ==
    IF doc # NoFile /\ Converts(doc) /\ IsValid(AppConfiguration(doc))
    THEN AppConfiguration(doc)
    ELSE Throws
=============================================================================
