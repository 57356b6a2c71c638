---------------------------- MODULE AppendOnlyLog ----------------------------
(***************************************************************************)
(* What a "proof log" promises its readers (README.md, "Immutable          *)
(* hash-chained proof log"): entries are never changed, dropped or put     *)
(* anywhere but at the end, in the order of their timestamps, and the tail *)
(* hash is always the one of the last entry.                               *)
(***************************************************************************)
EXTENDS Integers, Sequences

CONSTANT Genesis

VARIABLES log, tail

LogInit == log = << >> /\ tail = Genesis

AddEntry ==
    /\ Len(log') = Len(log) + 1
    /\ SubSeq(log', 1, Len(log)) = log
    /\ log # << >> => log[Len(log)].timestamp <= log'[Len(log')].timestamp
    /\ log'[Len(log')].prev_hash = tail
    /\ tail' = log'[Len(log')].entry_hash

LogSpec == LogInit /\ [][AddEntry]_<<log, tail>>
=============================================================================
