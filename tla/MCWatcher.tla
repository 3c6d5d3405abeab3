----------------------------- MODULE MCWatcher -----------------------------
(* An instance of WatcherRaces for TLC. *)
EXTENDS WatcherRaces

MCIds == {"f", "w"}
MCFiles == {"f"}
MCRuntimes == {"w"}
=============================================================================
