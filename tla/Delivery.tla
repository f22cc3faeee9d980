----------------------------- MODULE Delivery -----------------------------
(***************************************************************************)
(* What one direction of the FrontierMP transport promises, with no word   *)
(* of windows, timers or retries: a message is handed to the receiver only *)
(* if it was sent, and the sender stops caring about a reliable message    *)
(* only once the receiver has had it.  Messages may be lost, reordered and *)
(* handed over again.                                                      *)
(***************************************************************************)
CONSTANT Message       \* the sequence numbers that can be given out

VARIABLES sent,         \* sequence numbers given out so far
          delivered,    \* those whose packet reached the receiver's handler
          confirmed     \* reliable ones the sender no longer holds

vars == <<sent, delivered, confirmed>>

Init == sent = {} /\ delivered = {} /\ confirmed = {}

Send ==
    /\ \E s \in Message \ sent : sent' = sent \cup {s}
    /\ UNCHANGED <<delivered, confirmed>>

Deliver ==
    /\ \E s \in sent : delivered' = delivered \cup {s}
    /\ UNCHANGED <<sent, confirmed>>

Confirm ==
    /\ \E S \in SUBSET delivered : confirmed' = confirmed \cup S
    /\ UNCHANGED <<sent, delivered>>

Next == Send \/ Deliver \/ Confirm

Spec == Init /\ [][Next]_vars
=============================================================================
