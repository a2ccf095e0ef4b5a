-------------------------------- MODULE Feed --------------------------------
(***************************************************************************)
(* event.Feed (event/feed.go): one-to-many delivery of values over         *)
(* channels, used for chain heads, transactions, peers and logs.           *)
(*                                                                         *)
(* One goroutine at a time is in Send, as the holder of sendLock.  Calls   *)
(* of Subscribe, and the inbox part of Unsubscribe, are atomic under mu.   *)
(* The channel removeSub is unbuffered: a value passes when Send is in its *)
(* select.  A case of a select is the subscription whose channel it holds; *)
(* the case for removeSub, at index 0 in the code, is left out, and so is  *)
(* the count that Send returns.                                            *)
(***************************************************************************)
EXTENDS Integers, Sequences

CONSTANTS
    Subs,       \* subscriptions, each with a channel of its own
    Senders,    \* goroutines that call Send
    capacity,   \* buffer size of the channels
    MaxSends    \* bound on the number of values

ASSUME FeedAssumption == capacity \in Nat \ {0} /\ MaxSends \in Nat

VARIABLES
    inbox,      \* channels that the next Send adds to sendCases
    sendCases,  \* cases of the select, one per channel
    active,     \* length of cases, the prefix of sendCases still to be served
    step,       \* where the holder of sendLock is; "free" when there is none
    pos,        \* loop variable i of the fast path
    sender,     \* goroutine -> "idle", "waiting" for sendLock or "sending"
    sub,        \* subscription -> "new", "subscribed", "removing" or "gone"
    chan,       \* subscription -> the values in its channel
    sent        \* number of values sent so far: the value that is being sent

vars == <<inbox, sendCases, active, step, pos, sender, sub, chan, sent>>

Init ==
    /\ inbox = <<>>
    /\ sendCases = <<>>
    /\ active = 0
    /\ step = "free"
    /\ pos = 1
    /\ sender = [p \in Senders |-> "idle"]
    /\ sub = [s \in Subs |-> "new"]
    /\ chan = [s \in Subs |-> <<>>]
    /\ sent = 0

Elements(cs) == {cs[i] : i \in 1 .. Len(cs)}

\* caseList.delete, of the case that find returns.
Delete(cs, s) ==
    LET index == CHOOSE i \in 1 .. Len(cs) : cs[i] = s
    IN [i \in 1 .. Len(cs) - 1 |-> IF i < index THEN cs[i] ELSE cs[i + 1]]

\* Mutant: the case is not exchanged with the last one.
DeactivateLast(cs, index, last) == cs

\* caseList.deactivate: the case trades places with the last active one.
Deactivate(cs, index, last) ==
    [cs EXCEPT ![index] = cs[last], ![last] = cs[index]]
-----------------------------------------------------------------------------
Subscribe(s) ==
    /\ sub[s] = "new"
    /\ inbox' = Append(inbox, s)
    /\ sub' = [sub EXCEPT ![s] = "subscribed"]
    /\ UNCHANGED <<sendCases, active, step, pos, sender, chan, sent>>

\* Mutant: remove does not look into the inbox.
RemoveLater(s) ==
    /\ sub[s] = "subscribed"
    /\ sub' = [sub EXCEPT ![s] = "removing"]
    /\ UNCHANGED <<inbox, sendCases, active, step, pos, sender, chan, sent>>

\* remove (Unsubscribe), up to its select: a channel in the inbox is removed.
Remove(s) ==
    /\ sub[s] = "subscribed"
    /\ IF s \in Elements(inbox)
       THEN /\ inbox' = Delete(inbox, s)
            /\ sub' = [sub EXCEPT ![s] = "gone"]
       ELSE /\ sub' = [sub EXCEPT ![s] = "removing"]
            /\ UNCHANGED inbox
    /\ UNCHANGED <<sendCases, active, step, pos, sender, chan, sent>>

\* remove, when the select gets sendLock, which is given back at once.
RemoveLocked(s) ==
    /\ sub[s] = "removing"
    /\ step = "free"
    /\ sendCases' = Delete(sendCases, s)
    /\ sub' = [sub EXCEPT ![s] = "gone"]
    /\ UNCHANGED <<inbox, active, step, pos, sender, chan, sent>>
-----------------------------------------------------------------------------
CallSend(p) ==
    /\ sender[p] = "idle"
    /\ sent < MaxSends
    /\ sender' = [sender EXCEPT ![p] = "waiting"]
    /\ UNCHANGED <<inbox, sendCases, active, step, pos, sub, chan, sent>>

SendLock(p) ==
    /\ sender[p] = "waiting"
    /\ step = "free"
    /\ sender' = [sender EXCEPT ![p] = "sending"]
    /\ step' = "inbox"
    /\ UNCHANGED <<inbox, sendCases, active, pos, sub, chan, sent>>

\* The channels of the inbox are added, and all the cases become active.
SendInbox ==
    /\ step = "inbox"
    /\ sendCases' = sendCases \o inbox
    /\ inbox' = <<>>
    /\ active' = Len(sendCases) + Len(inbox)
    /\ step' = "try"
    /\ pos' = 1
    /\ sent' = sent + 1
    /\ UNCHANGED <<sender, sub, chan>>

\* The case at the index is served and leaves the active ones.
Serve(index) ==
    /\ Len(chan[sendCases[index]]) < capacity
    /\ chan' = [chan EXCEPT ![sendCases[index]] = Append(@, sent)]
    /\ sendCases' = Deactivate(sendCases, index, active)
    /\ active' = active - 1

\* The fast path, one TrySend at a time.
TrySend ==
    /\ step = "try"
    /\ pos <= active
    /\ \/ /\ Serve(pos)
          /\ UNCHANGED pos
       \/ /\ Len(chan[sendCases[pos]]) >= capacity
          /\ pos' = pos + 1
          /\ UNCHANGED <<chan, sendCases, active>>
    /\ UNCHANGED <<inbox, step, sender, sub, sent>>

\* Mutant: the loop ends when the feed, not cases, is empty.
SendReturnEmpty ==
    /\ step = "try"
    /\ pos > active
    /\ sendCases = <<>>
    /\ step' = "free"
    /\ sender' = [p \in Senders |-> IF sender[p] = "sending" THEN "idle"
                                    ELSE sender[p]]
    /\ UNCHANGED <<inbox, sendCases, active, pos, sub, chan, sent>>

\* After the fast path: sendLock is given back, if every case was served.
SendReturn ==
    /\ step = "try"
    /\ pos > active
    /\ active = 0
    /\ step' = "free"
    /\ sender' = [p \in Senders |-> IF sender[p] = "sending" THEN "idle"
                                    ELSE sender[p]]
    /\ UNCHANGED <<inbox, sendCases, active, pos, sub, chan, sent>>

\* Otherwise Send blocks in its select.
SendBlock ==
    /\ step = "try"
    /\ pos > active
    /\ active > 0
    /\ step' = "select"
    /\ UNCHANGED <<inbox, sendCases, active, pos, sender, sub, chan, sent>>

\* The select chooses a channel that has room.
SelectSend(index) ==
    /\ step = "select"
    /\ index <= active
    /\ Serve(index)
    /\ step' = "try"
    /\ pos' = 1
    /\ UNCHANGED <<inbox, sender, sub, sent>>

\* Mutant: nothing is removed while Send is in its select.
SelectRemoveNever(s) == FALSE /\ UNCHANGED vars

\* Mutant: cases is shortened although the case was served before.
SelectRemoveAny(s) ==
    /\ step = "select"
    /\ sub[s] = "removing"
    /\ sendCases' = Delete(sendCases, s)
    /\ active' = active - 1
    /\ sub' = [sub EXCEPT ![s] = "gone"]
    /\ step' = "try"
    /\ pos' = 1
    /\ UNCHANGED <<inbox, sender, chan, sent>>

\* The select chooses removeSub: the case is deleted, and cases is one shorter
\* if the case was still active.
SelectRemove(s) ==
    /\ step = "select"
    /\ sub[s] = "removing"
    /\ sendCases' = Delete(sendCases, s)
    /\ active' = IF \E i \in 1 .. active : sendCases[i] = s
                 THEN active - 1 ELSE active
    /\ sub' = [sub EXCEPT ![s] = "gone"]
    /\ step' = "try"
    /\ pos' = 1
    /\ UNCHANGED <<inbox, sender, chan, sent>>
-----------------------------------------------------------------------------
\* The subscriber takes a value from its channel, or does not bother to.
Receive(s) ==
    /\ chan[s] # <<>>
    /\ chan' = [chan EXCEPT ![s] = Tail(@)]
    /\ UNCHANGED <<inbox, sendCases, active, step, pos, sender, sub, sent>>

SendStep ==
    \/ \E p \in Senders : SendLock(p)
    \/ SendInbox \/ TrySend \/ SendReturn \/ SendBlock
    \/ \E index \in 1 .. active : SelectSend(index)

RemoveStep(s) == RemoveLocked(s) \/ SelectRemove(s)

Next ==
    \/ \E s \in Subs : Subscribe(s) \/ Remove(s) \/ RemoveStep(s) \/ Receive(s)
    \/ \E p \in Senders : CallSend(p)
    \/ SendStep

Spec == Init /\ [][Next]_vars

\* Goroutines in Send and in Unsubscribe go on when they can.  Nobody has to
\* receive.
FairSpec == /\ Spec
            /\ WF_vars(SendStep)
            /\ \A s \in Subs : WF_vars(RemoveStep(s))
-----------------------------------------------------------------------------
TypeOK ==
    /\ inbox \in Seq(Subs)
    /\ sendCases \in Seq(Subs)
    /\ active \in 0 .. Len(sendCases)
    /\ step \in {"free", "inbox", "try", "select"}
    /\ pos \in Nat \ {0}
    /\ sender \in [Senders -> {"idle", "waiting", "sending"}]
    /\ sub \in [Subs -> {"new", "subscribed", "removing", "gone"}]
    /\ chan \in [Subs -> Seq(Nat)]
    /\ sent \in Nat

\* Every live subscription is in the inbox or has a case, once; one that waits
\* in the select of remove has a case, so that delete never gets the index -1;
\* one whose Unsubscribe has returned has none; and between two calls of Send no
\* case is still to be served.
FeedIsCoherent ==
    /\ TypeOK
    /\ \A i, j \in 1 .. Len(inbox) : inbox[i] = inbox[j] => i = j
    /\ \A i, j \in 1 .. Len(sendCases) : sendCases[i] = sendCases[j] => i = j
    /\ Elements(inbox) \intersect Elements(sendCases) = {}
    /\ \A s \in Subs :
          /\ sub[s] = "subscribed" => s \in Elements(inbox) \union Elements(sendCases)
          /\ sub[s] = "removing" => s \in Elements(sendCases)
          /\ sub[s] \in {"new", "gone"} =>
                s \notin Elements(inbox) \union Elements(sendCases)
          /\ sub[s] = "new" => chan[s] = <<>>
    /\ step \in {"free", "inbox"} => active = 0

\* The value that is being sent has not reached the active cases yet.
Owed == {sendCases[i] : i \in 1 .. active}

\* The feed as its users see it.
Promise == INSTANCE Broadcast WITH
    members <- Elements(inbox) \union Elements(sendCases),
    due <- [s \in Subs |-> IF s \in Owed THEN sent ELSE sent + 1]

\* Send, with its swaps within the case list and the removals in between, gives
\* every value once and in order to the channels that were subscribed when it
\* took the lock, and to no channel whose Unsubscribe has returned.
ImplementsBroadcast == Promise!Spec

\* What a subscriber finds in its channel is a run of consecutive values.
ValuesInOrder == Promise!InOrder

\* Unsubscribe returns, even while Send is blocked on channels that nobody
\* reads, the one to be unsubscribed among them.
UnsubscribeReturns ==
    \A s \in Subs : sub[s] = "removing" ~> sub[s] = "gone"

\* Send returns, if every subscriber makes room in its channel again and again
\* or unsubscribes.
SendReturns ==
    (\A s \in Subs : []<>(Len(chan[s]) < capacity \/ sub[s] = "gone"))
        => \A p \in Senders : sender[p] # "idle" ~> sender[p] = "idle"
=============================================================================
