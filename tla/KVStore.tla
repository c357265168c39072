------------------------------- MODULE KVStore -------------------------------
(***************************************************************************)
(* What ORTOA-LBL promises its clients: a key-value store in which every   *)
(* call takes effect at one moment between its invocation and its answer,  *)
(* or is refused with the empty answer and no effect, or ends in an        *)
(* exception.                                                              *)
(***************************************************************************)
CONSTANTS Thread, Key, Value, InitialStore, NoValue, Empty

VARIABLES
  store,   \* store[k]: the value of k, NoValue if there is none
  call     \* call[t]: the call in progress, its status and its answer

Requests == [op : {"GET"}, key : Key, val : {NoValue}]
              \union [op : {"PUT"}, key : Key, val : Value]

Idle == [status |-> "idle"]

Failed == [status |-> "failed"]

Init ==
  /\ store = InitialStore
  /\ call = [t \in Thread |-> Idle]

Invoke(t) ==
  /\ call[t] = Idle
  /\ \E r \in Requests : call' = [call EXCEPT ![t] = [status |-> "called", req |-> r]]
  /\ UNCHANGED store

\* A GET of a key that has a value takes effect: its answer is the value now.
Get(t) ==
  /\ call[t].status = "called" /\ call[t].req.op = "GET"
  /\ store[call[t].req.key] # NoValue
  /\ call' = [call EXCEPT ![t] = [status |-> "answered", ans |-> store[@.req.key]]]
  /\ UNCHANGED store

Put(t) ==
  /\ call[t].status = "called" /\ call[t].req.op = "PUT"
  /\ store' = [store EXCEPT ![call[t].req.key] = call[t].req.val]
  /\ call' = [call EXCEPT ![t] = [status |-> "answered", ans |-> Empty]]

\* The call is aborted: no effect, the empty answer.
Refuse(t) ==
  /\ call[t].status = "called"
  /\ call' = [call EXCEPT ![t] = Idle]
  /\ UNCHANGED store

Return(t) ==
  /\ call[t].status = "answered"
  /\ call' = [call EXCEPT ![t] = Idle]
  /\ UNCHANGED store

\* Exceptions end the calls of some threads, with or without effect so far.
Fail ==
  /\ \E S \in SUBSET Thread :
       call' = [t \in Thread |-> IF t \in S THEN Failed ELSE call[t]]
  /\ UNCHANGED store

Next ==
  \/ \E t \in Thread : Invoke(t) \/ Get(t) \/ Put(t) \/ Refuse(t) \/ Return(t)
  \/ Fail

Spec == Init /\ [][Next]_<<store, call>>
=============================================================================
