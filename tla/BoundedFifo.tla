---------------------------- MODULE BoundedFifo ----------------------------
(***************************************************************************)
(* What an event queue of viii promises to its two ends.  An arriving      *)
(* event is appended, or refused when CAP events already wait.  A handler  *)
(* is always given the oldest waiting event, and the event leaves only     *)
(* when its handler has returned: a handler that throws will be given the  *)
(* same event again.                                                       *)
(***************************************************************************)
EXTENDS Naturals, Sequences

CONSTANTS CAP, Event

VARIABLES items,  \* the waiting events, oldest first
          last    \* what the last step did, and to which event

fifoVars == <<items, last>>

Outcome == [op : {"accepted", "refused", "handled", "threw"}, event : Event]
             \cup {[op |-> "none"]}

Init == items = <<>> /\ last = [op |-> "none"]

Accept(e) ==
    /\ Len(items) < CAP
    /\ items' = Append(items, e)
    /\ last' = [op |-> "accepted", event |-> e]

Refuse(e) ==
    /\ Len(items) = CAP
    /\ last' = [op |-> "refused", event |-> e]
    /\ UNCHANGED items

Deliver ==
    /\ items # <<>>
    /\ items' = Tail(items)
    /\ last' = [op |-> "handled", event |-> Head(items)]

Attempt ==
    /\ items # <<>>
    /\ last' = [op |-> "threw", event |-> Head(items)]
    /\ UNCHANGED items

Next == (\E e \in Event : Accept(e) \/ Refuse(e)) \/ Deliver \/ Attempt

Spec == Init /\ [][Next]_fifoVars

============================================================================
