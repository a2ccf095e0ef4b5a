----------------------------- MODULE Broadcast -----------------------------
(***************************************************************************)
(* What an event.Feed promises.  The values sent are numbered in the order *)
(* in which the calls of Send go through.  Every member gets each of them  *)
(* once, in that order and without a gap, from the first one sent after it *)
(* subscribed to the last one sent before it left; and no value is sent    *)
(* before every member has the one before it.                              *)
(***************************************************************************)
EXTENDS Integers, Sequences

CONSTANTS
    Subs,      \* subscriptions, each with a channel of its own
    capacity   \* buffer size of the channels

VARIABLES
    sent,      \* number of values sent so far
    members,   \* the subscriptions that are to get values
    due,       \* subscription -> the next value it is to get
    chan       \* subscription -> the values in its channel

vars == <<sent, members, due, chan>>

Init ==
    /\ sent = 0
    /\ members = {}
    /\ due = [s \in Subs |-> 1]
    /\ chan = [s \in Subs |-> <<>>]

\* The first value for a new member is the next one to be sent.
Join(s) ==
    /\ s \notin members
    /\ chan[s] = <<>>
    /\ members' = members \union {s}
    /\ due' = [due EXCEPT ![s] = sent + 1]
    /\ UNCHANGED <<sent, chan>>

Leave(s) ==
    /\ s \in members
    /\ members' = members \ {s}
    /\ due' = [due EXCEPT ![s] = sent + 1]
    /\ UNCHANGED <<sent, chan>>

Publish ==
    /\ \A s \in members : due[s] = sent + 1
    /\ sent' = sent + 1
    /\ due' = [s \in Subs |-> IF s \in members THEN due[s] ELSE sent' + 1]
    /\ UNCHANGED <<members, chan>>

Deliver(s) ==
    /\ s \in members
    /\ due[s] = sent
    /\ Len(chan[s]) < capacity
    /\ due' = [due EXCEPT ![s] = @ + 1]
    /\ chan' = [chan EXCEPT ![s] = Append(@, sent)]
    /\ UNCHANGED <<sent, members>>

Receive(s) ==
    /\ chan[s] # <<>>
    /\ chan' = [chan EXCEPT ![s] = Tail(@)]
    /\ UNCHANGED <<sent, members, due>>

Next == \/ \E s \in Subs : \/ Join(s) \/ Leave(s)
                           \/ Deliver(s) \/ Receive(s)
        \/ Publish

Spec == Init /\ [][Next]_vars
-----------------------------------------------------------------------------
\* What a subscriber finds in its channel is a run of consecutive values, and a
\* member's ends with the last value it got.
InOrder ==
    \A s \in Subs :
        /\ \A k \in 1 .. Len(chan[s]) - 1 : chan[s][k + 1] = chan[s][k] + 1
        /\ s \in members /\ chan[s] # <<>> => chan[s][Len(chan[s])] = due[s] - 1
=============================================================================
