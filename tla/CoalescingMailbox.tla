------------------------- MODULE CoalescingMailbox -------------------------
(***************************************************************************)
(* What pkg/queue promises a sender.  A topic holds at most one undelivered *)
(* entry, the newest: entries posted before the handler gets round to the   *)
(* topic are coalesced, the handler is always given the entry that is       *)
(* newest at that moment, and no newest entry stays undelivered for ever.   *)
(*                                                                         *)
(* Entries of a topic are named by their position in the order of posting.  *)
(***************************************************************************)
EXTENDS Naturals

CONSTANT Topics

VARIABLES posted,   \* posted[t]: the newest entry of t, 0 when there is none
          taken     \* taken[t]: the newest entry the handler was given

vars == <<posted, taken>>

Init == /\ posted = [t \in Topics |-> 0]
        /\ taken  = [t \in Topics |-> 0]

Post(t) == /\ posted' = [posted EXCEPT ![t] = @ + 1]
           /\ UNCHANGED taken

Take(t) == /\ taken[t] # posted[t]
           /\ taken' = [taken EXCEPT ![t] = posted[t]]
           /\ UNCHANGED posted

Next == \E t \in Topics : Post(t) \/ Take(t)

SafetySpec == Init /\ [][Next]_vars
Spec == SafetySpec /\ \A t \in Topics : WF_vars(Take(t))
=============================================================================
