------------------------------ MODULE LblProxyKV ------------------------------
(***************************************************************************)
(* The proxy implements KVStore.  A PUT takes effect when its fresh master *)
(* key replaces the old one, a GET when its answer is decoded.  A value    *)
(* the server does not carry over is one value to its readers: Garbled.    *)
(***************************************************************************)
EXTENDS LblProxy

Readable(v) == IF v = NoValue THEN NoValue ELSE Carry(v)

\* The abstract call of a thread, from its program counter.
CallOf(t) ==
  CASE pc[t] = "idle" -> [status |-> "idle"]
    [] pc[t] \in {"failed", "leaked", "crashed"} -> [status |-> "failed"]
    [] \/ pc[t] \in {"check", "lock", "construct"}
       \/ IsGet(t) /\ pc[t] \in {"send", "wait"} ->
         [status |-> "called", req |-> [req[t] EXCEPT !.val = Readable(@)]]
    [] \/ pc[t] \in {"record", "release"}
       \/ ~IsGet(t) /\ pc[t] \in {"send", "wait"} ->
         [status |-> "answered", ans |-> ret[t]]

KV == INSTANCE KVStore WITH
  Value <- Value \union {Garbled},
  store <- [k \in Key |-> Readable(written[k])],
  call <- [t \in Thread |-> CallOf(t)],
  InitialStore <- [k \in Key |-> IF k \in Preloaded THEN Carry(InitialValue) ELSE NoValue]

\* Every behaviour of the proxy and the server is one of the key-value store: the
\* operations on a key look atomic to clients although the keySet is read unlocked,
\* creates are one-way, and the server may exit and be restarted between any two steps.
ImplementsKV == KV!Spec
=============================================================================
