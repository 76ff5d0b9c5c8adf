--------------------------- MODULE AbstractKeyStore ---------------------------
(***************************************************************************)
(* What a KeyStore promises a host: a durable map from addresses to keys   *)
(* on which every call acts once, at one instant, or fails and leaves no   *)
(* trace.  A process death drops the calls in flight and nothing else.     *)
(***************************************************************************)
CONSTANTS Thread, Addr, Password, NoKey

VARIABLES
  store,     \* the key of each account, NoKey where there is none
  request    \* what each thread has asked for and not been answered

Request == [kind : {"create", "import", "update", "delete"}, addr : Addr,
            pw : Password, new : Password]
NoRequest == [kind |-> "none"]

Init ==
  /\ store \in [Addr -> Password \cup {NoKey}]
  /\ request = [t \in Thread |-> NoRequest]

Invoke(t) ==
  /\ request[t] = NoRequest
  /\ \E r \in Request : request' = [request EXCEPT ![t] = r]
  /\ UNCHANGED store

\* The result a call would have on the store, when it is allowed.
Allowed(r) ==
  CASE r.kind \in {"create", "import"} -> store[r.addr] = NoKey
    [] r.kind \in {"update", "delete"} -> store[r.addr] = r.pw

Commit(t) ==
  LET r == request[t] IN
  /\ r # NoRequest
  /\ Allowed(r)
  /\ store' = [store EXCEPT ![r.addr] = IF r.kind = "delete" THEN NoKey ELSE r.new]
  /\ request' = [request EXCEPT ![t] = NoRequest]

Fail(t) ==
  /\ request[t] # NoRequest
  /\ request' = [request EXCEPT ![t] = NoRequest]
  /\ UNCHANGED store

Crash ==
  /\ request' = [t \in Thread |-> NoRequest]
  /\ UNCHANGED store

Next == Crash \/ \E t \in Thread : Invoke(t) \/ Commit(t) \/ Fail(t)

Spec == Init /\ [][Next]_<<store, request>>
=============================================================================
