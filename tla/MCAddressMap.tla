---------------------------- MODULE MCAddressMap ----------------------------
(***************************************************************************)
(* Small instances of AddressMap.  Requests, process deaths and failures   *)
(* are capped; MaxIds is large enough for every UUID these allow.          *)
(***************************************************************************)
EXTENDS AddressMap, TLC

\* Addresses and callers are interchangeable in the safety runs.
Symmetry == Permutations(Addr) \cup Permutations(Caller)
=============================================================================
