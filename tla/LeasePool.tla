----------------------------- MODULE LeasePool -----------------------------
(***************************************************************************)
(* What the screenshot engine promises about browser contexts: one is      *)
(* opened once, leased to one render at a time, closed once, and never     *)
(* while a render leases it.  ContextPool implements this.                 *)
(***************************************************************************)
EXTENDS Integers

CONSTANT Renders

VARIABLES opened,   \* contexts opened so far: 1..opened
          gone,     \* those that have been closed
          leased    \* the context of each render; 0 is none

vars == <<opened, gone, leased>>

Init == opened = 0 /\ gone = {} /\ leased = [r \in Renders |-> 0]

\* Some contexts are opened and some closed that nobody leases from here on.
Turnover == /\ opened' >= opened
            /\ gone \subseteq gone' /\ gone' \subseteq 1..opened'
            /\ \A r \in Renders : leased'[r] \notin gone'

Lease(r) == /\ leased[r] = 0
            /\ \E x \in (1..opened') \ gone :
                 /\ \A q \in Renders : leased[q] # x
                 /\ leased' = [leased EXCEPT ![r] = x]
            /\ Turnover

GiveBack(r) == /\ leased[r] # 0
               /\ leased' = [leased EXCEPT ![r] = 0]
               /\ Turnover

Serve == leased' = leased /\ Turnover

Next == Serve \/ \E r \in Renders : Lease(r) \/ GiveBack(r)

Spec == Init /\ [][Next]_vars
=============================================================================
