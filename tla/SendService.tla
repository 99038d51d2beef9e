---------------------------- MODULE SendService ----------------------------
(***************************************************************************)
(* What the send queue (services/send_queue.py) promises the coroutines    *)
(* that call the adapter: every call is answered, once; a call that is     *)
(* answered "ok" reached the platform API, no call reaches it twice, and   *)
(* only a send_like call may be dropped without being tried.               *)
(***************************************************************************)
CONSTANTS Texts,    \* calls of send_msg, send_group_msg, send_private_msg
          Likes,    \* calls of send_like
          Others    \* calls of APIs the queue does not handle

Requests == Texts \cup Likes \cup Others

VARIABLES reply,    \* what the caller of each request has been told
          issued    \* the requests whose API call has been started

vars == <<reply, issued>>

Init == /\ reply = [r \in Requests |-> "idle"]
        /\ issued = {}

\* A coroutine makes the call; the API call may start in the same step.
Call(r) == /\ reply[r] = "idle"
           /\ reply' = [reply EXCEPT ![r] = "waiting"]
           /\ issued' \in {issued, issued \cup {r}}

\* Under pressure a send_like is answered None and never sent.
Drop(r) == /\ r \in Likes /\ reply[r] = "idle"
           /\ reply' = [reply EXCEPT ![r] = "dropped"]
           /\ UNCHANGED issued

\* The API call of a request starts, also after its caller has given up.
Issue(r) == /\ reply[r] \in {"waiting", "cancelled"}
            /\ r \notin issued
            /\ issued' = issued \cup {r}
            /\ UNCHANGED reply

\* Waiting callers are answered: "ok" only for a call that was made.
Answer(S) == /\ \A r \in S : reply[r] = "waiting"
             /\ \E a \in [S -> {"ok", "error"}] :
                  /\ \A r \in S : a[r] = "ok" => r \in issued
                  /\ reply' = [r \in Requests |-> IF r \in S THEN a[r] ELSE reply[r]]
             /\ UNCHANGED issued

\* The caller is cancelled while it waits.
Cancel(r) == /\ reply[r] = "waiting"
             /\ reply' = [reply EXCEPT ![r] = "cancelled"]
             /\ UNCHANGED issued

Next == \/ \E r \in Requests : Call(r) \/ Drop(r) \/ Issue(r) \/ Cancel(r)
        \/ \E S \in (SUBSET Requests) \ {{}} : Answer(S)

\* No caller waits for ever.
Fairness == \A r \in Requests :
              WF_vars(\E S \in SUBSET Requests : r \in S /\ Answer(S))

Spec == Init /\ [][Next]_vars /\ Fairness
=============================================================================
