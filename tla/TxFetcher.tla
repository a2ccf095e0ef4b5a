----------------------------- MODULE TxFetcher -----------------------------
(***************************************************************************)
(* The transaction fetcher (avn/fetcher/tx_fetcher.go): the loop goroutine *)
(* that turns announcements of transactions into requests to peers.        *)
(*                                                                         *)
(* One action per case of the loop's select.  Peers announce, deliver,     *)
(* stay silent, disconnect and come back as they like; the filter that     *)
(* Notify and Enqueue apply before the loop only takes announcements out,  *)
(* and is not modelled.  Time is abstracted to which waits and which       *)
(* requests a trigger finds expired.  A map of the code is a function to   *)
(* sets: no entry and an empty one are the same, as the code removes the   *)
(* empty ones.                                                             *)
(***************************************************************************)
EXTENDS Naturals, Sequences, FiniteSets

CONSTANTS
    Peers,
    Hashes,           \* hashes of transactions
    None,             \* no peer
    maxTxAnnounces,   \* announcements of one peer that are kept
    maxTxRetrievals   \* transactions in one request

ASSUME FetcherAssumption ==
    /\ None \notin Peers
    /\ maxTxAnnounces \in Nat \ {0}
    /\ maxTxRetrievals \in Nat \ {0}

VARIABLES
    waitlist,       \* hash -> peers that announced it, while it may be broadcast
    waitslots,      \* peer -> hashes that wait on its account
    announces,      \* peer -> hashes queued or fetched that it announced
    announced,      \* hash -> peers that announced it, while it is queued
    fetching,       \* hash -> the peer it is requested from, or None
    requests,       \* peer -> its request in flight
    alternates,     \* hash -> peers that announced it, while it is requested
    waitTimer,      \* the timer of the waits is set
    waitTrigger,    \* the timer of the waits has gone off
    timeoutTimer,   \* the timer of the requests is set
    timeoutTrigger  \* the timer of the requests has gone off

stages == <<waitlist, waitslots, announces, announced, fetching, requests,
            alternates>>
timers == <<waitTimer, waitTrigger, timeoutTimer, timeoutTrigger>>
vars == <<stages, timers>>

\* requests[peer] == nil.  A request that timed out is open, without hashes.
NoRequest == [open |-> FALSE, hashes |-> <<>>, stolen |-> {}]
NewRequest(hashes) == [open |-> TRUE, hashes |-> hashes, stolen |-> {}]
Request == [open : BOOLEAN, hashes : Seq(Hashes), stolen : SUBSET Hashes]

Init ==
    /\ waitlist = [h \in Hashes |-> {}]
    /\ waitslots = [p \in Peers |-> {}]
    /\ announces = [p \in Peers |-> {}]
    /\ announced = [h \in Hashes |-> {}]
    /\ fetching = [h \in Hashes |-> None]
    /\ requests = [p \in Peers |-> NoRequest]
    /\ alternates = [h \in Hashes |-> {}]
    /\ waitTimer = FALSE /\ waitTrigger = FALSE
    /\ timeoutTimer = FALSE /\ timeoutTrigger = FALSE

Waiting == {h \in Hashes : waitlist[h] # {}}

\* The hashes of a request that nobody else has delivered yet.
Asked(r) == {r.hashes[i] : i \in 1 .. Len(r.hashes)} \ r.stolen
-----------------------------------------------------------------------------
(***************************************************************************)
(* scheduleFetches, on the maps as the handler has left them.              *)
(***************************************************************************)

\* What can go into one request: some hashes, in some order.
Lists == {l \in UNION {[1 .. n -> Hashes] : n \in 0 .. maxTxRetrievals} :
             \A i, j \in DOMAIN l : l[i] = l[j] => i = j}

Listed(l) == {l[i] : i \in 1 .. Len(l)}

\* In the order in which the peers come up, each takes as many as it may of the
\* hashes that it announced and that are not requested from anyone.
Shares(turn, list, ann, fet) ==
    \A p \in DOMAIN list :
        LET left == {h \in ann[p] :
                        /\ fet[h] = None
                        /\ \A q \in DOMAIN list :
                              turn[q] < turn[p] => h \notin Listed(list[q])}
        IN /\ Listed(list[p]) \subseteq left
           /\ Listed(list[p]) = left \/ Len(list[p]) = maxTxRetrievals

\* The peers without a request that have announced something.
IdleOf(actives, ann, req) == {p \in actives : ~ req[p].open /\ ann[p] # {}}

\* Mutant: what is requested stays in the queue.
AllocateQueued(list, annd, fet, req, alt) ==
    LET taken == UNION {Listed(list[p]) : p \in DOMAIN list} IN
    /\ fetching' = [h \in Hashes |->
                      IF h \in taken
                      THEN CHOOSE p \in DOMAIN list : h \in Listed(list[p])
                      ELSE fet[h]]
    /\ alternates' = [h \in Hashes |-> IF h \in taken THEN annd[h] ELSE alt[h]]
    /\ announced' = annd
    /\ requests' = [p \in Peers |->
                      IF p \in DOMAIN list /\ Listed(list[p]) # {}
                      THEN NewRequest(list[p]) ELSE req[p]]

\* The request of each idle peer is sent.
Allocate(list, annd, fet, req, alt) ==
    LET taken == UNION {Listed(list[p]) : p \in DOMAIN list} IN
    /\ fetching' = [h \in Hashes |->
                      IF h \in taken
                      THEN CHOOSE p \in DOMAIN list : h \in Listed(list[p])
                      ELSE fet[h]]
    /\ alternates' = [h \in Hashes |-> IF h \in taken THEN annd[h] ELSE alt[h]]
    /\ announced' = [h \in Hashes |-> IF h \in taken THEN {} ELSE annd[h]]
    /\ requests' = [p \in Peers |->
                      IF p \in DOMAIN list /\ Listed(list[p]) # {}
                      THEN NewRequest(list[p]) ELSE req[p]]

\* The orders in which the map of peers may be walked.
Turns == [idle \in SUBSET Peers |->
            {turn \in [idle -> 1 .. Cardinality(idle)] :
                \A p, q \in idle : turn[p] = turn[q] => p = q}]

ScheduleFetches(actives, ann, annd, fet, req, alt) ==
    \E idle \in {IdleOf(actives, ann, req)} :
        \E list \in [idle -> Lists], turn \in Turns[idle] :
            /\ Shares(turn, list, ann, fet)
            /\ Allocate(list, annd, fet, req, alt)

\* Mutant: whether requests were in flight is looked up after sending.
SetTimeoutLate(req) ==
    timeoutTimer' = (timeoutTimer \/
                       /\ \A p \in Peers : ~ requests'[p].open
                       /\ \E p \in Peers : requests'[p].open)

\* The first requests that are sent set the timer.
SetTimeoutIfIdle(req) ==
    timeoutTimer' = (timeoutTimer \/
                       /\ \A p \in Peers : ~ req[p].open
                       /\ \E p \in Peers : requests'[p].open)

\* Mutant: no list of peers means no peer.
NoAnnouncers(ann) == {}

\* Every peer that has announced something.
Announcers(ann) == {p \in Peers : ann[p] # {}}
-----------------------------------------------------------------------------
(***************************************************************************)
(* <-f.notify: peer p announces the hashes.  The announcements that are    *)
(* too many are cut off; which ones depends on the order in the message.   *)
(***************************************************************************)

Used(p) == Cardinality(waitslots[p]) + Cardinality(announces[p])

Kept(p, hashes) ==
    LET want == Used(p) + Cardinality(hashes) IN
    {kept \in SUBSET hashes :
        Cardinality(kept) = IF want > maxTxAnnounces
                            THEN want - maxTxAnnounces
                            ELSE Cardinality(hashes)}

\* The peer is one more origin of the hashes, and they are accounted to it.
WithOrigin(map, hashes, p) ==
    [h \in Hashes |-> IF h \in hashes THEN map[h] \union {p} ELSE map[h]]
WithHashes(map, p, hashes) == [map EXCEPT ![p] = @ \union hashes]

Notify(p, hashes) ==
    /\ Used(p) < maxTxAnnounces
    /\ \E kept \in Kept(p, hashes) :
        \E inFlight \in {{h \in kept : alternates[h] # {}}},
           queued \in {{h \in kept : alternates[h] = {} /\ announced[h] # {}}} :
        \E new \in {kept \ (inFlight \union queued)},
           ann \in {WithHashes(announces, p, inFlight \union queued)} :
            /\ waitlist' = WithOrigin(waitlist, new, p)
            /\ waitslots' = WithHashes(waitslots, p, new)
            /\ waitTimer' = (waitTimer \/ (Waiting = {} /\ new # {}))
            /\ announces' = ann
            /\ ScheduleFetches(
                 IF announces[p] = {} THEN {p} ELSE {}, ann,
                 WithOrigin(announced, queued, p), fetching, requests,
                 WithOrigin(alternates, inFlight, p))
            /\ SetTimeoutIfIdle(requests)
    /\ UNCHANGED <<waitTrigger, timeoutTrigger>>
-----------------------------------------------------------------------------
\* A timer goes off.
WaitTimerFires ==
    /\ waitTimer /\ ~ waitTrigger
    /\ waitTimer' = FALSE /\ waitTrigger' = TRUE
    /\ UNCHANGED <<stages, timeoutTimer, timeoutTrigger>>

TimeoutTimerFires ==
    /\ timeoutTimer /\ ~ timeoutTrigger
    /\ timeoutTimer' = FALSE /\ timeoutTrigger' = TRUE
    /\ UNCHANGED <<stages, waitTimer, waitTrigger>>

\* <-waitTrigger: the hashes that have waited long enough are queued.
WaitExpires(old) ==
    /\ waitTrigger
    /\ old \subseteq Waiting
    /\ waitTrigger' = FALSE
    /\ waitTimer' = (waitTimer \/ Waiting # old)
    /\ waitlist' = [h \in Hashes |-> IF h \in old THEN {} ELSE waitlist[h]]
    /\ waitslots' = [p \in Peers |-> waitslots[p] \ {h \in old : p \in waitlist[h]}]
    /\ \E ann \in {[p \in Peers |->
                      announces[p] \union {h \in old : p \in waitlist[h]}]} :
        /\ announces' = ann
        /\ ScheduleFetches(
             UNION {waitlist[h] : h \in old}, ann,
             [h \in Hashes |-> IF h \in old THEN waitlist[h] ELSE announced[h]],
             fetching, requests, alternates)
    /\ SetTimeoutIfIdle(requests)
    /\ UNCHANGED timeoutTrigger

\* <-timeoutTrigger: the requests to the late peers are given up.  What they
\* were asked for is queued for the others; the requests stay open, empty.
RequestsExpire(late) ==
    /\ timeoutTrigger
    /\ late \subseteq {p \in Peers : requests[p].open}
    /\ timeoutTrigger' = FALSE
    /\ timeoutTimer' = TRUE
    /\ \E back \in {UNION {Asked(requests[p]) : p \in late}},
          ann \in {[p \in Peers |-> IF p \in late
                                    THEN announces[p] \ Asked(requests[p])
                                    ELSE announces[p]]} :
        /\ announces' = ann
        /\ ScheduleFetches(
             Announcers(ann), ann,
             [h \in Hashes |-> IF h \in back THEN alternates[h] \ {fetching[h]}
                               ELSE announced[h]],
             [h \in Hashes |-> IF h \in back THEN None ELSE fetching[h]],
             [p \in Peers |-> IF p \in late
                              THEN NewRequest(<<>>) ELSE requests[p]],
             [h \in Hashes |-> IF h \in back THEN {} ELSE alternates[h]])
    /\ UNCHANGED <<waitlist, waitslots, waitTimer, waitTrigger>>
-----------------------------------------------------------------------------
(***************************************************************************)
(* <-f.cleanup: peer p has delivered the hashes, as a broadcast or as the  *)
(* reply to a request.                                                     *)
(***************************************************************************)

\* delivery.direct: a broadcast, or the reply to a request.
Kinds == {"broadcast", "reply"}

\* Mutant: only a delivery by another peer is stolen.
StealsFromOthers(p, hashes, kind, q) ==
    {h \in hashes : fetching[h] = q /\ q # p}

\* Another peer was asked for them, or this one but they come as a broadcast.
Steals(p, hashes, kind, q) ==
    {h \in hashes : fetching[h] = q /\ (q # p \/ kind = "broadcast")}

\* The requests, with the stolen deliveries marked.
Marked(p, hashes, kind) ==
    [q \in Peers |->
        [requests[q] EXCEPT !.stolen = @ \union Steals(p, hashes, kind, q)]]

\* The undelivered hashes before the last delivered one, or all of them: the
\* peer is taken not to have them.
Missing(r, hashes) ==
    {r.hashes[i] : i \in {k \in 1 .. Len(r.hashes) :
        /\ r.hashes[k] \notin hashes
        /\ \/ \E j \in k + 1 .. Len(r.hashes) : r.hashes[j] \in hashes
           \/ \A j \in 1 .. Len(r.hashes) : r.hashes[j] \notin hashes}}

\* Mutant: the slots of the peers are left alone.
ForgetWaits(hashes) ==
    /\ waitlist' = [h \in Hashes |-> IF h \in hashes THEN {} ELSE waitlist[h]]
    /\ UNCHANGED waitslots

\* What was delivered does not wait any longer.
Forget(hashes) ==
    /\ waitlist' = [h \in Hashes |-> IF h \in hashes THEN {} ELSE waitlist[h]]
    /\ waitslots' = [p \in Peers |-> waitslots[p] \ (hashes \intersect Waiting)]

\* The delivery answers no request: the hashes are forgotten, and that is all.
CleanupOnly(p, hashes, kind) ==
    /\ kind = "broadcast" \/ ~ requests[p].open
    /\ Forget(hashes)
    /\ \E other \in {hashes \ Waiting} :
        /\ announces' = [q \in Peers |-> announces[q] \ other]
        /\ announced' = [h \in Hashes |-> IF h \in other THEN {} ELSE announced[h]]
        /\ alternates' = [h \in Hashes |-> IF h \in other THEN {} ELSE alternates[h]]
        /\ fetching' = [h \in Hashes |-> IF h \in other THEN None ELSE fetching[h]]
        /\ requests' = Marked(p, other, kind)
    /\ UNCHANGED timers

\* The delivery ends the peer's request: what is left of it is queued again.
CleanupReply(p, hashes) ==
    /\ requests[p].open
    /\ Forget(hashes)
    /\ \E other \in {hashes \ Waiting},
          rest \in {Asked(requests[p]) \ hashes},
          missing \in {Asked(requests[p]) \intersect Missing(requests[p], hashes)} :
        \E ann \in {[q \in Peers |-> IF q = p
                                     THEN announces[q] \ (other \union missing)
                                     ELSE announces[q] \ other]},
           req \in {[Marked(p, other, "reply") EXCEPT ![p] = NoRequest]} :
            /\ announces' = ann
            /\ ScheduleFetches(
                 Announcers(ann), ann,
                 [h \in Hashes |->
                    IF h \in missing THEN alternates[h] \ {p}
                    ELSE IF h \in rest THEN alternates[h]
                    ELSE IF h \in other THEN {} ELSE announced[h]],
                 [h \in Hashes |-> IF h \in rest \union other THEN None
                                   ELSE fetching[h]],
                 req,
                 [h \in Hashes |-> IF h \in rest \union other THEN {}
                                   ELSE alternates[h]])
            /\ SetTimeoutIfIdle(req)
    /\ UNCHANGED <<waitTimer, waitTrigger, timeoutTrigger>>
-----------------------------------------------------------------------------
(***************************************************************************)
(* <-f.drop: the peer has disconnected, or a request could not be sent.    *)
(***************************************************************************)
Drop(p) ==
    /\ waitlist' = [h \in Hashes |-> IF h \in waitslots[p] THEN waitlist[h] \ {p}
                                     ELSE waitlist[h]]
    /\ waitslots' = [waitslots EXCEPT ![p] = {}]
    /\ waitTimer' = (waitTimer \/ /\ waitslots[p] # {}
                                  /\ \E h \in Hashes : waitlist'[h] # {})
    /\ announces' = [announces EXCEPT ![p] = {}]
    /\ \E back \in {Asked(requests[p])} :
        \E annd \in {[h \in Hashes |->
                        IF h \in back THEN alternates[h] \ {p}
                        ELSE IF h \in announces[p] THEN announced[h] \ {p}
                        ELSE announced[h]]},
           alt \in {[h \in Hashes |-> IF h \in back THEN {} ELSE alternates[h]]},
           fet \in {[h \in Hashes |-> IF h \in back THEN None ELSE fetching[h]]},
           req \in {[requests EXCEPT ![p] = NoRequest]} :
            \/ /\ requests[p].open
               /\ ScheduleFetches(Announcers(announces'), announces', annd, fet,
                                  req, alt)
               /\ timeoutTimer' = TRUE
            \/ /\ ~ requests[p].open
               /\ announced' = annd
               /\ UNCHANGED <<fetching, requests, alternates, timeoutTimer>>
    /\ UNCHANGED <<waitTrigger, timeoutTrigger>>
-----------------------------------------------------------------------------
Next ==
    \/ \E p \in Peers, hashes \in SUBSET Hashes \ {{}} : Notify(p, hashes)
    \/ WaitTimerFires
    \/ TimeoutTimerFires
    \/ \E old \in SUBSET Hashes : WaitExpires(old)
    \/ \E late \in SUBSET Peers : RequestsExpire(late)
    \/ \E p \in Peers, hashes \in SUBSET Hashes, kind \in Kinds :
          CleanupOnly(p, hashes, kind)
    \/ \E p \in Peers, hashes \in SUBSET Hashes : CleanupReply(p, hashes)
    \/ \E p \in Peers : Drop(p)

Spec == Init /\ [][Next]_vars

\* Timers that are set go off.  They are set for the oldest wait or request, so
\* that a hash or a peer that stays is found expired at last.
FairSpec ==
    /\ Spec
    /\ WF_vars(WaitTimerFires)
    /\ WF_vars(TimeoutTimerFires)
    /\ \A h \in Hashes :
          SF_vars(\E old \in SUBSET Hashes : h \in old /\ WaitExpires(old))
    /\ \A p \in Peers :
          SF_vars(\E late \in SUBSET Peers : p \in late /\ RequestsExpire(late))
-----------------------------------------------------------------------------
TypeOK ==
    /\ waitlist \in [Hashes -> SUBSET Peers]
    /\ waitslots \in [Peers -> SUBSET Hashes]
    /\ announces \in [Peers -> SUBSET Hashes]
    /\ announced \in [Hashes -> SUBSET Peers]
    /\ fetching \in [Hashes -> Peers \union {None}]
    /\ requests \in [Peers -> Request]
    /\ alternates \in [Hashes -> SUBSET Peers]
    /\ {waitTimer, waitTrigger, timeoutTimer, timeoutTrigger} \subseteq BOOLEAN

\* The invariant that the comment on TxFetcher states: a hash is in one stage.
\* The panics of the loop say the same of the announced and alternate trackers.
OneStage ==
    \A h \in Hashes :
        /\ waitlist[h] # {} => announced[h] = {} /\ fetching[h] = None
        /\ announced[h] # {} => fetching[h] = None
        /\ fetching[h] = None <=> alternates[h] = {}

\* A hash is being fetched from a peer exactly if the peer's open request asks
\* for it and nobody else has delivered it: the handler of a delivery finds the
\* request it has to mark, and a reply, a timeout or a disconnect gives back
\* what is still missing and nothing else.
RequestsMatch ==
    \A p \in Peers :
        /\ {h \in Hashes : fetching[h] = p} = Asked(requests[p])
        /\ ~ requests[p].open => requests[p] = NoRequest

\* What is accounted to a peer is what it announced: its slots are those of the
\* waiting list, and what it announced and can be asked for lists it as origin.
Accounted ==
    \A p \in Peers, h \in Hashes :
        /\ h \in waitslots[p] <=> p \in waitlist[h]
        /\ h \in announces[p] => p \in announced[h] \union alternates[h]
        /\ fetching[h] = p => h \in announces[p]

\* Something that waits or that was requested has a timer running for it.
TimersAreSet ==
    /\ Waiting # {} => waitTimer \/ waitTrigger
    /\ (\E p \in Peers : requests[p].open) => timeoutTimer \/ timeoutTrigger

\* A hash does not wait for ever, and is not fetched from one peer for ever.
NobodyIsStuck ==
    \A h \in Hashes :
        /\ []<>(waitlist[h] = {})
        /\ \A p \in Peers : []<>(fetching[h] # p)

\* A peer without a request does not keep a hash in the queue for ever.
IdlePeersAreUsed ==
    \A p \in Peers, h \in Hashes :
        []<>~ (~ requests[p].open /\ h \in announces[p] /\ fetching[h] = None)
=============================================================================
