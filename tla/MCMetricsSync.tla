---------------------------- MODULE MCMetricsSync ----------------------------
(***************************************************************************)
(* Small instances of MetricsSync.                                         *)
(***************************************************************************)
EXTENDS MetricsSync, TLC

\* A token balance that changes, and a total that is missing once.
MCBalances == {[token |-> 1, usd |-> 1], [token |-> 2, usd |-> Blank]}

\* Older rows: more events than one recording makes them, and a balance.
MCOldCounts == {[count |-> 2]}
MCOldBalances == {[token |-> 2, usd |-> Blank]}

\* Recorders are interchangeable; so are addresses in the safety runs.
SyncSymmetry == Permutations(Recorder) \cup Permutations(Addr)
=============================================================================
