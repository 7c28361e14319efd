------------------------------ MODULE RpcService ------------------------------
(***************************************************************************)
(* What the RPC system promises its callers: a call is executed at most    *)
(* once, a call that is answered has been executed, the calls of a channel *)
(* are executed in the order in which they are issued, and every call ends.*)
(* A call that is aborted may have been executed, or be executed later.    *)
(***************************************************************************)
EXTENDS Naturals

CONSTANT Calls    \* records [clt, boot, id]

VARIABLES
    status,       \* new, pending, answered or aborted
    ran           \* how often each call has been executed

vars == <<status, ran>>

Earlier(j, k) == j.clt = k.clt /\ (j.boot < k.boot \/ (j.boot = k.boot /\ j.id < k.id))

Init ==
    /\ status = [k \in Calls |-> "new"]
    /\ ran = [k \in Calls |-> 0]

\* A channel has one call under way.
Issue(k) ==
    /\ status[k] = "new"
    /\ \A j \in Calls : j.clt = k.clt => status[j] # "pending"
    /\ status' = [status EXCEPT ![k] = "pending"]
    /\ UNCHANGED ran

Execute(k) ==
    /\ status[k] \in {"pending", "aborted"}
    /\ ran[k] = 0
    /\ \A j \in Calls : Earlier(k, j) => ran[j] = 0
    /\ ran' = [ran EXCEPT ![k] = 1]
    /\ UNCHANGED status

Answer(k) ==
    /\ status[k] = "pending" /\ ran[k] = 1
    /\ status' = [status EXCEPT ![k] = "answered"]
    /\ UNCHANGED ran

Abort(k) ==
    /\ status[k] = "pending"
    /\ status' = [status EXCEPT ![k] = "aborted"]
    /\ UNCHANGED ran

Next == \E k \in Calls : Issue(k) \/ Execute(k) \/ Answer(k) \/ Abort(k)

Spec ==
    /\ Init
    /\ [][Next]_vars
    /\ \A k \in Calls : WF_vars(Answer(k) \/ Abort(k))
=============================================================================
