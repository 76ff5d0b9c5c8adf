----------------------------- MODULE MCKeyStore -----------------------------
(***************************************************************************)
(* Small instances of KeyStore.  Calls are capped by MaxCalls, process     *)
(* deaths by MaxCrashes, device locks by MaxOutages; a call uses at most   *)
(* one new file name, so MaxGen = MaxCalls + 1 never runs out.             *)
(***************************************************************************)
EXTENDS KeyStore, TLC

\* Threads, addresses and passwords are interchangeable in the safety runs.
Symmetry == Permutations(Thread) \cup Permutations(Addr) \cup Permutations(Password)
=============================================================================
