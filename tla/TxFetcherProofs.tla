-------------------------- MODULE TxFetcherProofs --------------------------
(***************************************************************************)
(* Proofs about module TxFetcher, for any number of peers and hashes: the  *)
(* stages stay exclusive, requests and fetching hashes match, and what     *)
(* waits or is requested has its timer set.                                *)
(***************************************************************************)
EXTENDS TxFetcher, SequenceTheorems, TLAPS

\* What holds of the maps of the last two stages, also between the handler's
\* own changes and scheduleFetches.
Typed(ann, annd, fet, req, alt) ==
    /\ ann \in [Peers -> SUBSET Hashes]
    /\ annd \in [Hashes -> SUBSET Peers]
    /\ fet \in [Hashes -> Peers \union {None}]
    /\ req \in [Peers -> Request]
    /\ alt \in [Hashes -> SUBSET Peers]

Staged(annd, fet, alt) ==
    \A h \in Hashes : /\ annd[h] # {} => fet[h] = None
                      /\ fet[h] = None <=> alt[h] = {}

Matched(fet, req) ==
    /\ \A p \in Peers, h \in Hashes : fet[h] = p <=> h \in Asked(req[p])
    /\ \A p \in Peers : ~ req[p].open => req[p] = NoRequest

Owned(ann, annd, fet, alt) ==
    \A p \in Peers, h \in Hashes :
        /\ h \in ann[p] => p \in annd[h] \union alt[h]
        /\ fet[h] = p => h \in ann[p]

Tracked(ann, annd, fet, req, alt) ==
    /\ Typed(ann, annd, fet, req, alt)
    /\ Staged(annd, fet, alt)
    /\ Matched(fet, req)
    /\ Owned(ann, annd, fet, alt)

\* What holds of the waiting list, and of the hashes that are in it.
Waits ==
    /\ waitlist \in [Hashes -> SUBSET Peers]
    /\ waitslots \in [Peers -> SUBSET Hashes]
    /\ \A p \in Peers, h \in Hashes : h \in waitslots[p] <=> p \in waitlist[h]

Apart(list, annd, fet) ==
    \A h \in Hashes : list[h] # {} => annd[h] = {} /\ fet[h] = None

TimerTypes ==
    /\ waitTimer \in BOOLEAN /\ waitTrigger \in BOOLEAN
    /\ timeoutTimer \in BOOLEAN /\ timeoutTrigger \in BOOLEAN

\* The inductive invariant.
Coherent ==
    /\ Waits
    /\ Tracked(announces, announced, fetching, requests, alternates)
    /\ Apart(waitlist, announced, fetching)
    /\ TimerTypes
-----------------------------------------------------------------------------
\* A request asks for hashes.
LEMMA AskedHashes ==
    ASSUME NEW r \in Request
    PROVE  Asked(r) \subseteq Hashes
  BY DEF Request, Asked

\* A peer without a request is asked for nothing.
LEMMA NoRequestAsks ==
    NoRequest \in Request /\ Asked(NoRequest) = {}
<1>1. <<>> \in Seq(Hashes) /\ Len(<<>>) = 0
  OBVIOUS
<1>2. 1 .. 0 = {}
  OBVIOUS
<1> QED
  BY <1>1, <1>2 DEF NoRequest, Request, Asked

\* A new request asks for what it lists.
LEMMA NewRequestAsks ==
    ASSUME NEW l \in Lists
    PROVE  /\ l \in Seq(Hashes)
           /\ Listed(l) \subseteq Hashes
           /\ NewRequest(l) \in Request
           /\ NewRequest(l).open
           /\ Asked(NewRequest(l)) = Listed(l)
<1>1. PICK n \in 0 .. maxTxRetrievals : l \in [1 .. n -> Hashes]
  BY DEF Lists
<1>2. n \in Nat
  BY <1>1, FetcherAssumption
<1>3. l \in Seq(Hashes)
  BY <1>1, <1>2, SeqDef
<1>4. Listed(l) \subseteq Hashes
  BY <1>3 DEF Listed
<1> QED
  BY <1>3, <1>4 DEF NewRequest, Request, Asked, Listed

\* An expired request asks for nothing.
LEMMA ExpiredAsks ==
    /\ NewRequest(<<>>) \in Request
    /\ NewRequest(<<>>).open
    /\ Asked(NewRequest(<<>>)) = {}
<1>1. <<>> \in Seq(Hashes) /\ Len(<<>>) = 0
  OBVIOUS
<1>2. 1 .. 0 = {}
  OBVIOUS
<1> QED
  BY <1>1, <1>2 DEF NewRequest, Request, Asked
-----------------------------------------------------------------------------
(***************************************************************************)
(* scheduleFetches keeps the maps coherent.                                *)
(***************************************************************************)

\* The idle peers get hashes that they announced, that nobody was asked for, and
\* no hash goes to two of them.
LEMMA SharesFacts ==
    ASSUME NEW idle \in SUBSET Peers, NEW list \in [idle -> Lists],
           NEW turn \in Turns[idle], NEW ann, NEW fet,
           Shares(turn, list, ann, fet)
    PROVE  /\ \A p \in idle : \A h \in Listed(list[p]) : h \in ann[p] /\ fet[h] = None
           /\ \A p, q \in idle, h \in Hashes :
                 h \in Listed(list[p]) /\ h \in Listed(list[q]) => p = q
<1>1. DOMAIN list = idle
  OBVIOUS
<1>2. /\ turn \in [idle -> 1 .. Cardinality(idle)]
      /\ \A p, q \in idle : turn[p] = turn[q] => p = q
  BY DEF Turns
<1>3. \A p, q \in idle : turn[p] < turn[q] \/ turn[q] < turn[p] \/ p = q
  <2> SUFFICES ASSUME NEW p \in idle, NEW q \in idle
               PROVE  turn[p] < turn[q] \/ turn[q] < turn[p] \/ p = q
    OBVIOUS
  <2>1. turn[p] \in Int /\ turn[q] \in Int
    BY <1>2
  <2> QED
    BY <1>2, <2>1
<1>4. \A p \in idle : \A h \in Listed(list[p]) :
         /\ h \in ann[p] /\ fet[h] = None
         /\ \A q \in idle : turn[q] < turn[p] => h \notin Listed(list[q])
  BY <1>1 DEF Shares
<1> QED
  BY <1>3, <1>4

\* scheduleFetches keeps requests, fetching hashes and accounts in step, and takes no
\* hash that was not queued.
LEMMA ScheduleKeeps ==
    ASSUME NEW actives \in SUBSET Peers, NEW ann, NEW annd, NEW fet, NEW req, NEW alt,
           Tracked(ann, annd, fet, req, alt),
           ScheduleFetches(actives, ann, annd, fet, req, alt)
    PROVE  /\ Tracked(ann, announced', fetching', requests', alternates')
           /\ \A h \in Hashes : annd[h] = {} /\ fet[h] = None
                                => announced'[h] = {} /\ fetching'[h] = None
<1> DEFINE idle == IdleOf(actives, ann, req)
<1>1. PICK list \in [idle -> Lists], turn \in Turns[idle] :
           Shares(turn, list, ann, fet) /\ Allocate(list, annd, fet, req, alt)
  BY Zenon DEF ScheduleFetches
<1>2. idle \in SUBSET Peers /\ DOMAIN list = idle
  BY DEF IdleOf
<1> DEFINE share(p) == Listed(list[p])
           taken == UNION {share(p) : p \in idle}
           owner(h) == CHOOSE p \in idle : h \in share(p)
<1>3. /\ \A p \in idle : \A h \in share(p) : h \in ann[p] /\ fet[h] = None
      /\ \A p, q \in idle, h \in Hashes : h \in share(p) /\ h \in share(q) => p = q
  BY <1>1, <1>2, SharesFacts
<1>4. /\ fetching' = [h \in Hashes |-> IF h \in taken THEN owner(h) ELSE fet[h]]
      /\ alternates' = [h \in Hashes |-> IF h \in taken THEN annd[h] ELSE alt[h]]
      /\ announced' = [h \in Hashes |-> IF h \in taken THEN {} ELSE annd[h]]
      /\ requests' = [p \in Peers |-> IF p \in idle /\ share(p) # {}
                                      THEN NewRequest(list[p]) ELSE req[p]]
  BY <1>1, <1>2 DEF Allocate
<1>5. \A p \in idle : /\ share(p) \subseteq Hashes
                       /\ NewRequest(list[p]) \in Request
                       /\ NewRequest(list[p]).open
                       /\ Asked(NewRequest(list[p])) = share(p)
  BY NewRequestAsks
<1>6. \A p \in idle : req[p] = NoRequest /\ \A h \in Hashes : fet[h] # p
  BY <1>2, NoRequestAsks DEF IdleOf, Tracked, Matched
<1>7. \A p \in idle : \A h \in share(p) : h \in taken /\ owner(h) = p /\ h \in Hashes
  BY <1>3, <1>5
<1>8. \A h \in taken : owner(h) \in idle /\ h \in share(owner(h))
  OBVIOUS
<1> HIDE DEF idle, share, taken, owner
<1>9. \A h \in taken : /\ h \in Hashes /\ fet[h] = None /\ alt[h] = {}
                         /\ h \in ann[owner(h)] /\ owner(h) \in Peers
                         /\ annd[h] # {} /\ annd[h] \subseteq Peers
  BY <1>2, <1>3, <1>5, <1>8, FetcherAssumption DEF Tracked, Typed, Staged, Owned
<1>10. \A p \in Peers, h \in Hashes : fetching'[h] = p <=> h \in Asked(requests'[p])
  <2> SUFFICES ASSUME NEW p \in Peers, NEW h \in Hashes
               PROVE  fetching'[h] = p <=> h \in Asked(requests'[p])
    OBVIOUS
  <2>1. CASE p \in idle /\ share(p) # {}
    <3>1. Asked(requests'[p]) = share(p)
      BY <1>4, <1>5, <2>1
    <3> QED
      BY <1>4, <1>6, <1>7, <1>8, <2>1, <3>1
  <2>2. CASE ~ (p \in idle /\ share(p) # {})
    <3>1. requests'[p] = req[p]
      BY <1>4, <2>2
    <3>2. fet[h] = p <=> h \in Asked(req[p])
      BY DEF Tracked, Matched
    <3>3. h \in taken => owner(h) # p /\ fet[h] # p
      BY <1>8, <1>9, <2>2, FetcherAssumption
    <3> QED
      BY <1>4, <3>1, <3>2, <3>3
  <2> QED
    BY <2>1, <2>2
<1>11. Typed(ann, announced', fetching', requests', alternates')
  BY <1>4, <1>5, <1>9 DEF Tracked, Typed
<1>12. Staged(announced', fetching', alternates')
  BY <1>4, <1>9, FetcherAssumption DEF Tracked, Staged
<1>13. Matched(fetching', requests')
  <2>1. \A p \in Peers : ~ requests'[p].open => requests'[p] = NoRequest
    BY <1>4, <1>5 DEF Tracked, Matched
  <2> QED
    BY <1>10, <2>1 DEF Matched
<1>14. Owned(ann, announced', fetching', alternates')
  BY <1>4, <1>9 DEF Tracked, Owned
<1>15. \A h \in Hashes : annd[h] = {} /\ fet[h] = None
                          => announced'[h] = {} /\ fetching'[h] = None
  BY <1>4, <1>9
<1> QED
  BY <1>11, <1>12, <1>13, <1>14, <1>15 DEF Tracked

\* What a handler has to establish before it schedules.
LEMMA ScheduleIsCoherent ==
    ASSUME NEW actives \in SUBSET Peers, NEW ann, NEW annd, NEW fet, NEW req, NEW alt,
           Tracked(ann, annd, fet, req, alt),
           ScheduleFetches(actives, ann, annd, fet, req, alt),
           announces' = ann, Waits', Apart(waitlist', annd, fet), TimerTypes'
    PROVE  Coherent'
<1>1. /\ Tracked(ann, announced', fetching', requests', alternates')
      /\ \A h \in Hashes : annd[h] = {} /\ fet[h] = None
                           => announced'[h] = {} /\ fetching'[h] = None
  BY ScheduleKeeps
<1>2. Apart(waitlist', announced', fetching')
  BY <1>1 DEF Apart
<1> QED
  BY <1>1, <1>2 DEF Coherent

\* The timers keep their type.
LEMMA TimersKeepType ==
    ASSUME TimerTypes, Next
    PROVE  TimerTypes'
<1>1. ASSUME NEW p \in Peers, NEW hashes \in SUBSET Hashes \ {{}}, Notify(p, hashes)
      PROVE  TimerTypes'
  BY <1>1 DEF TimerTypes, Notify, SetTimeoutIfIdle
<1>2. CASE WaitTimerFires
  BY <1>2 DEF TimerTypes, WaitTimerFires
<1>3. CASE TimeoutTimerFires
  BY <1>3 DEF TimerTypes, TimeoutTimerFires
<1>4. ASSUME NEW old \in SUBSET Hashes, WaitExpires(old)
      PROVE  TimerTypes'
  BY <1>4 DEF TimerTypes, WaitExpires, SetTimeoutIfIdle
<1>5. ASSUME NEW late \in SUBSET Peers, RequestsExpire(late)
      PROVE  TimerTypes'
  BY <1>5 DEF TimerTypes, RequestsExpire
<1>6. ASSUME NEW p \in Peers, NEW hashes \in SUBSET Hashes, NEW kind \in Kinds,
             CleanupOnly(p, hashes, kind)
      PROVE  TimerTypes'
  BY <1>6 DEF TimerTypes, CleanupOnly, timers
<1>7. ASSUME NEW p \in Peers, NEW hashes \in SUBSET Hashes, CleanupReply(p, hashes)
      PROVE  TimerTypes'
  BY <1>7 DEF TimerTypes, CleanupReply, SetTimeoutIfIdle
<1>8. ASSUME NEW p \in Peers, Drop(p)
      PROVE  TimerTypes'
  BY <1>8 DEF TimerTypes, Drop
<1> QED
  BY <1>1, <1>2, <1>3, <1>4, <1>5, <1>6, <1>7, <1>8 DEF Next
-----------------------------------------------------------------------------
(***************************************************************************)
(* Every handler keeps the invariant.                                      *)
(***************************************************************************)
\* An announcement that is kept joins the stage its hash is in.
LEMMA NotifyIsCoherent ==
    ASSUME Coherent, TimerTypes', NEW p \in Peers, NEW hashes \in SUBSET Hashes,
           Notify(p, hashes)
    PROVE  Coherent'
<1> DEFINE inFlight(kept) == {h \in kept : alternates[h] # {}}
           queued(kept) == {h \in kept : alternates[h] = {} /\ announced[h] # {}}
<1>1. PICK kept \in Kept(p, hashes) :
        \E new \in {kept \ (inFlight(kept) \union queued(kept))},
           ann \in {WithHashes(announces, p, inFlight(kept) \union queued(kept))} :
            /\ waitlist' = WithOrigin(waitlist, new, p)
            /\ waitslots' = WithHashes(waitslots, p, new)
            /\ announces' = ann
            /\ ScheduleFetches(
                 IF announces[p] = {} THEN {p} ELSE {}, ann,
                 WithOrigin(announced, queued(kept), p), fetching, requests,
                 WithOrigin(alternates, inFlight(kept), p))
  BY ZenonT(30) DEF Notify
<1> DEFINE new == kept \ (inFlight(kept) \union queued(kept))
           ann == WithHashes(announces, p, inFlight(kept) \union queued(kept))
           annd == WithOrigin(announced, queued(kept), p)
           alt == WithOrigin(alternates, inFlight(kept), p)
<1>2. /\ waitlist' = WithOrigin(waitlist, new, p)
      /\ waitslots' = WithHashes(waitslots, p, new)
      /\ announces' = ann
      /\ ScheduleFetches(IF announces[p] = {} THEN {p} ELSE {}, ann, annd,
                         fetching, requests, alt)
  BY <1>1, Zenon
<1>3. kept \subseteq Hashes
  BY DEF Kept
<1>4. Tracked(announces, announced, fetching, requests, alternates)
  BY DEF Coherent
<1>5. Tracked(ann, annd, fetching, requests, alt)
  <2>1. Typed(ann, annd, fetching, requests, alt)
    BY <1>3, <1>4 DEF Tracked, Typed, WithOrigin, WithHashes
  <2>2. Staged(annd, fetching, alt)
    BY <1>4 DEF Tracked, Staged, WithOrigin
  <2>3. Owned(ann, annd, fetching, alt)
    BY <1>3, <1>4 DEF Tracked, Typed, Owned, WithOrigin, WithHashes
  <2> QED
    BY <1>4, <2>1, <2>2, <2>3 DEF Tracked
<1>6. Waits'
  BY <1>2, <1>3 DEF Coherent, Waits, WithOrigin, WithHashes
<1>7. Apart(waitlist', annd, fetching)
  BY <1>2, <1>4 DEF Coherent, Apart, Tracked, Staged, WithOrigin
<1>8. (IF announces[p] = {} THEN {p} ELSE {}) \in SUBSET Peers
  OBVIOUS
<1> HIDE DEF new, ann, annd, alt
<1> QED
  BY <1>2, <1>5, <1>6, <1>7, <1>8, ScheduleIsCoherent

\* What has waited long enough is queued for those that announced it.
LEMMA WaitExpiresIsCoherent ==
    ASSUME Coherent, TimerTypes', NEW old \in SUBSET Hashes, WaitExpires(old)
    PROVE  Coherent'
<1> DEFINE ann == [p \in Peers |->
                     announces[p] \union {h \in old : p \in waitlist[h]}]
           annd == [h \in Hashes |-> IF h \in old THEN waitlist[h] ELSE announced[h]]
           actives == UNION {waitlist[h] : h \in old}
<1>1. /\ waitlist' = [h \in Hashes |-> IF h \in old THEN {} ELSE waitlist[h]]
      /\ waitslots' = [p \in Peers |-> waitslots[p] \ {h \in old : p \in waitlist[h]}]
      /\ announces' = ann
      /\ ScheduleFetches(actives, ann, annd, fetching, requests, alternates)
      /\ old \subseteq Waiting
  BY Zenon DEF WaitExpires
<1>2. Tracked(announces, announced, fetching, requests, alternates)
  BY DEF Coherent
<1>3. \A h \in old : waitlist[h] # {} /\ announced[h] = {} /\ fetching[h] = None
  BY <1>1 DEF Waiting, Coherent, Apart
<1>4. Tracked(ann, annd, fetching, requests, alternates)
  <2>1. Typed(ann, annd, fetching, requests, alternates)
    BY <1>2 DEF Tracked, Typed, Coherent, Waits
  <2>2. Staged(annd, fetching, alternates)
    BY <1>2, <1>3 DEF Tracked, Staged
  <2>3. Owned(ann, annd, fetching, alternates)
    BY <1>2, <1>3 DEF Tracked, Owned
  <2> QED
    BY <1>2, <2>1, <2>2, <2>3 DEF Tracked
<1>5. Waits'
  BY <1>1 DEF Coherent, Waits
<1>6. Apart(waitlist', annd, fetching)
  BY <1>1 DEF Coherent, Apart
<1>7. actives \in SUBSET Peers
  BY DEF Coherent, Waits
<1> HIDE DEF ann, annd, actives
<1> QED
  BY <1>1, <1>4, <1>5, <1>6, <1>7, ScheduleIsCoherent

\* What a late peer was asked for is queued again for the others.
LEMMA RequestsExpireIsCoherent ==
    ASSUME Coherent, TimerTypes', NEW late \in SUBSET Peers, RequestsExpire(late)
    PROVE  Coherent'
<1> DEFINE back == UNION {Asked(requests[p]) : p \in late}
           ann == [p \in Peers |-> IF p \in late
                                   THEN announces[p] \ Asked(requests[p])
                                   ELSE announces[p]]
           annd == [h \in Hashes |-> IF h \in back THEN alternates[h] \ {fetching[h]}
                                     ELSE announced[h]]
           fet == [h \in Hashes |-> IF h \in back THEN None ELSE fetching[h]]
           req == [p \in Peers |-> IF p \in late THEN NewRequest(<<>>)
                                   ELSE requests[p]]
           alt == [h \in Hashes |-> IF h \in back THEN {} ELSE alternates[h]]
<1>1. /\ announces' = ann
      /\ ScheduleFetches(Announcers(ann), ann, annd, fet, req, alt)
      /\ UNCHANGED <<waitlist, waitslots>>
  BY Zenon DEF RequestsExpire
<1>2. Tracked(announces, announced, fetching, requests, alternates)
  BY DEF Coherent
<1>3. \A h \in Hashes : h \in back <=> fetching[h] \in late
  BY <1>2 DEF Tracked, Matched
<1>4. Tracked(ann, annd, fet, req, alt)
  <2>1. Typed(ann, annd, fet, req, alt)
    BY <1>2, ExpiredAsks DEF Tracked, Typed
  <2>2. Staged(annd, fet, alt)
    BY <1>2 DEF Tracked, Staged
  <2>3. Matched(fet, req)
    <3>1. \A p \in Peers, h \in Hashes : fet[h] = p <=> h \in Asked(req[p])
      BY <1>2, <1>3, ExpiredAsks, FetcherAssumption DEF Tracked, Matched
    <3>2. \A p \in Peers : ~ req[p].open => req[p] = NoRequest
      BY <1>2, ExpiredAsks DEF Tracked, Matched
    <3> QED
      BY <3>1, <3>2 DEF Matched
  <2>4. Owned(ann, annd, fet, alt)
    BY <1>2, <1>3, FetcherAssumption DEF Tracked, Matched, Staged, Owned
  <2> QED
    BY <2>1, <2>2, <2>3, <2>4 DEF Tracked
<1>5. Waits'
  BY <1>1 DEF Coherent, Waits
<1>6. Apart(waitlist', annd, fet)
  BY <1>1, <1>3, FetcherAssumption DEF Coherent, Apart
<1>7. Announcers(ann) \in SUBSET Peers
  BY DEF Announcers
<1> HIDE DEF ann, annd, fet, req, alt
<1> QED
  BY <1>1, <1>4, <1>5, <1>6, <1>7, ScheduleIsCoherent

\* Marking stolen deliveries takes them out of what the requests ask for.
LEMMA MarkedFacts ==
    ASSUME Tracked(announces, announced, fetching, requests, alternates),
           NEW p \in Peers, NEW hashes \in SUBSET Hashes, NEW kind \in Kinds,
           NEW q \in Peers
    PROVE  /\ Marked(p, hashes, kind)[q] \in Request
           /\ Marked(p, hashes, kind)[q].open = requests[q].open
           /\ Asked(Marked(p, hashes, kind)[q]) =
                 Asked(requests[q]) \ Steals(p, hashes, kind, q)
           /\ ~ requests[q].open => Marked(p, hashes, kind)[q] = NoRequest
<1> DEFINE steals == Steals(p, hashes, kind, q)
           r == requests[q]
<1>1. /\ r \in Request
      /\ ~ r.open => r = NoRequest
      /\ \A h \in Hashes : fetching[h] = q <=> h \in Asked(r)
  BY DEF Tracked, Typed, Matched
<1>2. steals \in SUBSET Hashes /\ \A h \in steals : fetching[h] = q
  BY DEF Steals
<1>3. Marked(p, hashes, kind)[q] = [r EXCEPT !.stolen = @ \union steals]
  BY DEF Marked
<1> HIDE DEF steals, r
<1>4. \E m : m = [r EXCEPT !.stolen = @ \union steals]
  OBVIOUS
<1>5. PICK m : m = [r EXCEPT !.stolen = @ \union steals]
  BY <1>4
<1>6. m \in Request /\ m.open = r.open /\ m.hashes = r.hashes
      /\ m.stolen = r.stolen \union steals
  BY <1>1, <1>2, <1>5 DEF Request
<1>7. Asked(m) = Asked(r) \ steals
  BY <1>6 DEF Asked
<1>8. ~ r.open => m = NoRequest
  <2> SUFFICES ASSUME ~ r.open PROVE m = NoRequest
    OBVIOUS
  <2>1. r = NoRequest /\ steals = {}
    BY <1>1, <1>2, NoRequestAsks
  <2> QED
    BY <1>5, <2>1 DEF NoRequest
<1> QED
  BY <1>3, <1>5, <1>6, <1>7, <1>8 DEF r, steals

\* A hash that arrived waits no longer.
LEMMA ForgetKeepsWaits ==
    ASSUME Waits, NEW hashes \in SUBSET Hashes, Forget(hashes)
    PROVE  /\ Waits'
           /\ \A h \in Hashes : waitlist'[h] # {} => h \notin hashes /\ waitlist[h] # {}
<1>1. \A h \in Hashes : h \in hashes /\ h \notin Waiting => waitlist[h] = {}
  BY DEF Waiting
<1> QED
  BY <1>1 DEF Waits, Forget, Waiting

\* A broadcast, or a reply nobody asked for, is marked in the request it belongs to.
LEMMA CleanupOnlyIsCoherent ==
    ASSUME Coherent, TimerTypes', NEW p \in Peers, NEW hashes \in SUBSET Hashes,
           NEW kind \in Kinds, CleanupOnly(p, hashes, kind)
    PROVE  Coherent'
<1> DEFINE other == hashes \ Waiting
<1>1. /\ announces' = [q \in Peers |-> announces[q] \ other]
      /\ announced' = [h \in Hashes |-> IF h \in other THEN {} ELSE announced[h]]
      /\ alternates' = [h \in Hashes |-> IF h \in other THEN {} ELSE alternates[h]]
      /\ fetching' = [h \in Hashes |-> IF h \in other THEN None ELSE fetching[h]]
      /\ requests' = Marked(p, other, kind)
      /\ Forget(hashes)
      /\ kind = "broadcast" \/ ~ requests[p].open
  BY Zenon DEF CleanupOnly
<1>2. Tracked(announces, announced, fetching, requests, alternates)
  BY DEF Coherent
<1>3. other \in SUBSET Hashes
  OBVIOUS
<1> HIDE DEF other
<1>4. \A q \in Peers :
         /\ requests'[q] \in Request
         /\ Asked(requests'[q]) = Asked(requests[q]) \ Steals(p, other, kind, q)
         /\ ~ requests'[q].open => requests'[q] = NoRequest
  <2>1. \A q \in Peers :
           /\ Marked(p, other, kind)[q] \in Request
           /\ Marked(p, other, kind)[q].open = requests[q].open
           /\ Asked(Marked(p, other, kind)[q]) =
                 Asked(requests[q]) \ Steals(p, other, kind, q)
           /\ ~ requests[q].open => Marked(p, other, kind)[q] = NoRequest
    BY <1>2, <1>3, MarkedFacts
  <2> QED
    BY <1>1, <2>1
<1>5. \A h \in Hashes : fetching[h] = p => requests[p].open
  BY <1>2, NoRequestAsks DEF Tracked, Matched
<1>6. \A q \in Peers, h \in other : fetching[h] = q => h \in Steals(p, other, kind, q)
  BY <1>1, <1>3, <1>5 DEF Steals
<1>7. Typed(announces', announced', fetching', requests', alternates')
  <2>1. requests' \in [Peers -> Request]
    <3>1. requests' = [q \in Peers |-> requests'[q]]
      BY <1>1 DEF Marked
    <3> QED
      BY <1>4, <3>1
  <2> QED
    BY <1>1, <1>2, <2>1 DEF Tracked, Typed
<1>8. Staged(announced', fetching', alternates')
  BY <1>1, <1>2 DEF Tracked, Staged
<1>9. Matched(fetching', requests')
  <2>1. \A q \in Peers, h \in Hashes : h \in Steals(p, other, kind, q) => h \in other
    BY DEF Steals
  <2>2. \A q \in Peers, h \in Hashes :
           fetching'[h] = q <=> h \in Asked(requests'[q])
    BY SMTT(30), <1>1, <1>2, <1>4, <1>6, <2>1, FetcherAssumption DEF Tracked, Matched
  <2> QED
    BY <1>4, <2>2 DEF Matched
<1>10. Owned(announces', announced', fetching', alternates')
  BY <1>1, <1>2, FetcherAssumption DEF Tracked, Owned
<1>11. Waits' /\ Apart(waitlist', announced', fetching')
  BY <1>1, ForgetKeepsWaits DEF Coherent, Apart
<1> QED
  BY <1>7, <1>8, <1>9, <1>10, <1>11 DEF Coherent, Tracked

\* A reply ends its request, and the rest of it is queued again.
LEMMA CleanupReplyIsCoherent ==
    ASSUME Coherent, TimerTypes', NEW p \in Peers, NEW hashes \in SUBSET Hashes,
           CleanupReply(p, hashes)
    PROVE  Coherent'
<1> DEFINE other == hashes \ Waiting
           rest == Asked(requests[p]) \ hashes
           missing == Asked(requests[p]) \intersect Missing(requests[p], hashes)
           ann == [q \in Peers |-> IF q = p
                                   THEN announces[q] \ (other \union missing)
                                   ELSE announces[q] \ other]
           req == [Marked(p, other, "reply") EXCEPT ![p] = NoRequest]
           annd == [h \in Hashes |->
                      IF h \in missing THEN alternates[h] \ {p}
                      ELSE IF h \in rest THEN alternates[h]
                      ELSE IF h \in other THEN {} ELSE announced[h]]
           fet == [h \in Hashes |-> IF h \in rest \union other THEN None
                                    ELSE fetching[h]]
           alt == [h \in Hashes |-> IF h \in rest \union other THEN {}
                                    ELSE alternates[h]]
<1>1. /\ Forget(hashes)
      /\ announces' = ann
      /\ ScheduleFetches(Announcers(ann), ann, annd, fet, req, alt)
  <2>1. /\ Forget(hashes)
        /\ \E ann2 \in {ann}, req2 \in {req} :
             /\ announces' = ann2
             /\ ScheduleFetches(Announcers(ann2), ann2, annd, fet, req2, alt)
    BY ZenonT(30) DEF CleanupReply
  <2> HIDE DEF ann, req, annd, fet, alt
  <2> QED
    BY <2>1, Zenon
<1>2. Tracked(announces, announced, fetching, requests, alternates)
  BY DEF Coherent
<1>3. /\ other \in SUBSET Hashes
      /\ \A h \in missing : h \in rest
      /\ \A h \in rest : fetching[h] = p /\ h \in Hashes
  <2>1. requests[p] \in Request
    BY <1>2 DEF Tracked, Typed
  <2>2. Asked(requests[p]) \subseteq Hashes
    BY <2>1, AskedHashes
  <2>3. \A h \in Missing(requests[p], hashes) : h \notin hashes
    BY DEF Missing
  <2> QED
    BY <1>2, <2>2, <2>3 DEF Tracked, Matched
<1>4. \A h \in Hashes : fetching[h] = p => h \in rest \union other
  <2>1. \A h \in Hashes : fetching[h] = p => h \notin Waiting
    BY FetcherAssumption DEF Coherent, Apart, Waiting
  <2> QED
    BY <1>2, <2>1 DEF Tracked, Matched
<1> HIDE DEF other, rest, missing
<1>5. \A q \in Peers :
         /\ Marked(p, other, "reply")[q] \in Request
         /\ Marked(p, other, "reply")[q].open = requests[q].open
         /\ Asked(Marked(p, other, "reply")[q]) =
               Asked(requests[q]) \ Steals(p, other, "reply", q)
         /\ ~ requests[q].open => Marked(p, other, "reply")[q] = NoRequest
  <2>1. "reply" \in Kinds
    BY DEF Kinds
  <2> QED
    BY <1>2, <1>3, <2>1, MarkedFacts
<1>6. req = [q \in Peers |-> IF q = p THEN NoRequest ELSE Marked(p, other, "reply")[q]]
  BY DEF Marked
<1> HIDE DEF req
<1>7. Tracked(ann, annd, fet, req, alt)
  <2>1. Typed(ann, annd, fet, req, alt)
    <3>1. req \in [Peers -> Request]
      BY <1>5, <1>6, NoRequestAsks
    <3> QED
      BY <1>2, <3>1 DEF Tracked, Typed
  <2>2. Staged(annd, fet, alt)
    BY <1>2, <1>3 DEF Tracked, Staged
  <2>3. Matched(fet, req)
    <3>1. \A q \in Peers, h \in Hashes : fet[h] = q <=> h \in Asked(req[q])
      <4> SUFFICES ASSUME NEW q \in Peers, NEW h \in Hashes
                   PROVE  fet[h] = q <=> h \in Asked(req[q])
        OBVIOUS
      <4>1. CASE q = p
        BY <1>4, <1>6, <4>1, NoRequestAsks, FetcherAssumption
      <4>2. CASE q # p
        <5>1. h \in Asked(req[q]) <=>
                 h \in Asked(requests[q]) /\ h \notin Steals(p, other, "reply", q)
          BY <1>5, <1>6, <4>2
        <5>2. h \in Steals(p, other, "reply", q) <=> h \in other /\ fetching[h] = q
          BY <4>2 DEF Steals
        <5>3. h \in Asked(requests[q]) <=> fetching[h] = q
          BY <1>2 DEF Tracked, Matched
        <5> QED
          BY <1>3, <4>2, <5>1, <5>2, <5>3, FetcherAssumption
      <4> QED
        BY <4>1, <4>2
    <3>2. \A q \in Peers : ~ req[q].open => req[q] = NoRequest
      BY <1>5, <1>6
    <3> QED
      BY <3>1, <3>2 DEF Matched
  <2>4. Owned(ann, annd, fet, alt)
    <3> SUFFICES ASSUME NEW q \in Peers, NEW h \in Hashes
                 PROVE  /\ h \in ann[q] => q \in annd[h] \union alt[h]
                        /\ fet[h] = q => h \in ann[q]
      BY DEF Owned
    <3>1. /\ h \in announces[q] => q \in announced[h] \union alternates[h]
          /\ fetching[h] = q => h \in announces[q]
          /\ fetching[h] = p => announced[h] = {}
      BY <1>2, FetcherAssumption DEF Tracked, Owned, Staged
    <3>2. h \in ann[q] => q \in annd[h] \union alt[h]
      BY <1>3, <3>1
    <3>3. fet[h] = q => h \in ann[q]
      BY <1>3, <1>4, <3>1, FetcherAssumption
    <3> QED
      BY <3>2, <3>3
  <2> QED
    BY <2>1, <2>2, <2>3, <2>4 DEF Tracked
<1>8. Waits' /\ Apart(waitlist', annd, fet)
  <2>1. /\ Waits'
        /\ \A h \in Hashes : waitlist'[h] # {} => h \notin hashes /\ waitlist[h] # {}
    BY <1>1, ForgetKeepsWaits DEF Coherent
  <2>2. \A h \in Hashes : h \in other => h \in hashes
    BY DEF other
  <2>3. \A h \in Hashes : waitlist[h] # {} => announced[h] = {} /\ fetching[h] = None
    BY DEF Coherent, Apart
  <2> QED
    BY <1>3, <2>1, <2>2, <2>3, FetcherAssumption DEF Apart
<1>9. Announcers(ann) \in SUBSET Peers
  BY DEF Announcers
<1> HIDE DEF ann, annd, fet, alt
<1> QED
  BY <1>1, <1>7, <1>8, <1>9, ScheduleIsCoherent

\* A peer that disconnects leaves its stages, and its request is queued again.
LEMMA DropIsCoherent ==
    ASSUME Coherent, TimerTypes', NEW p \in Peers, Drop(p)
    PROVE  Coherent'
<1> DEFINE back == Asked(requests[p])
           ann == [announces EXCEPT ![p] = {}]
           annd == [h \in Hashes |->
                      IF h \in back THEN alternates[h] \ {p}
                      ELSE IF h \in announces[p] THEN announced[h] \ {p}
                      ELSE announced[h]]
           alt == [h \in Hashes |-> IF h \in back THEN {} ELSE alternates[h]]
           fet == [h \in Hashes |-> IF h \in back THEN None ELSE fetching[h]]
           req == [requests EXCEPT ![p] = NoRequest]
<1>1. /\ waitlist' = [h \in Hashes |-> IF h \in waitslots[p] THEN waitlist[h] \ {p}
                                       ELSE waitlist[h]]
      /\ waitslots' = [waitslots EXCEPT ![p] = {}]
      /\ announces' = ann
  BY DEF Drop
<1>2. \/ ScheduleFetches(Announcers(ann), ann, annd, fet, req, alt)
      \/ /\ ~ requests[p].open
         /\ announced' = annd
         /\ UNCHANGED <<fetching, requests, alternates>>
  <2>1. \E annd2 \in {annd}, alt2 \in {alt}, fet2 \in {fet}, req2 \in {req} :
          \/ /\ requests[p].open
             /\ ScheduleFetches(Announcers(announces'), announces', annd2, fet2,
                                req2, alt2)
             /\ timeoutTimer' = TRUE
          \/ /\ ~ requests[p].open
             /\ announced' = annd2
             /\ UNCHANGED <<fetching, requests, alternates, timeoutTimer>>
    <3>1. PICK b \in {back} :
            \E annd2 \in {[h \in Hashes |->
                              IF h \in b THEN alternates[h] \ {p}
                              ELSE IF h \in announces[p] THEN announced[h] \ {p}
                              ELSE announced[h]]},
               alt2 \in {[h \in Hashes |-> IF h \in b THEN {} ELSE alternates[h]]},
               fet2 \in {[h \in Hashes |-> IF h \in b THEN None ELSE fetching[h]]},
               req2 \in {req} :
              \/ /\ requests[p].open
                 /\ ScheduleFetches(Announcers(announces'), announces', annd2, fet2,
                                    req2, alt2)
                 /\ timeoutTimer' = TRUE
              \/ /\ ~ requests[p].open
                 /\ announced' = annd2
                 /\ UNCHANGED <<fetching, requests, alternates, timeoutTimer>>
      BY Zenon DEF Drop
    <3> HIDE DEF back, req
    <3> QED
      BY <3>1, Zenon
  <2> HIDE DEF ann, annd, fet, req, alt
  <2> QED
    BY <1>1, <2>1
<1>3. Tracked(announces, announced, fetching, requests, alternates)
  BY DEF Coherent
<1>4. \A h \in Hashes : h \in back <=> fetching[h] = p
  BY <1>3 DEF Tracked, Matched
<1> HIDE DEF back
<1>5. Tracked(ann, annd, fet, req, alt)
  <2>1. Typed(ann, annd, fet, req, alt)
    BY <1>3, NoRequestAsks DEF Tracked, Typed
  <2>2. Staged(annd, fet, alt)
    BY <1>3 DEF Tracked, Staged
  <2>3. Matched(fet, req)
    <3>1. req = [q \in Peers |-> IF q = p THEN NoRequest ELSE requests[q]]
      BY <1>3 DEF Tracked, Typed
    <3> HIDE DEF req
    <3>2. \A q \in Peers, h \in Hashes : fet[h] = q <=> h \in Asked(req[q])
      BY <1>3, <1>4, <3>1, NoRequestAsks, FetcherAssumption DEF Tracked, Matched
    <3>3. \A q \in Peers : ~ req[q].open => req[q] = NoRequest
      BY <1>3, <3>1 DEF Tracked, Matched
    <3> QED
      BY <3>2, <3>3 DEF Matched
  <2>4. Owned(ann, annd, fet, alt)
    <3> SUFFICES ASSUME NEW q \in Peers, NEW h \in Hashes
                 PROVE  /\ h \in ann[q] => q \in annd[h] \union alt[h]
                        /\ fet[h] = q => h \in ann[q]
      BY DEF Owned
    <3>1. /\ h \in announces[q] => q \in announced[h] \union alternates[h]
          /\ fetching[h] = q => h \in announces[q]
          /\ fetching[h] = p => announced[h] = {}
      BY <1>3, FetcherAssumption DEF Tracked, Owned, Staged
    <3>2. ann[q] = IF q = p THEN {} ELSE announces[q]
      BY <1>3 DEF Tracked, Typed
    <3> QED
      BY <1>4, <3>1, <3>2, FetcherAssumption
  <2> QED
    BY <2>1, <2>2, <2>3, <2>4 DEF Tracked
<1>6. Waits'
  BY <1>1 DEF Coherent, Waits
<1>7. Apart(waitlist', annd, fet)
  <2>1. \A h \in Hashes : waitlist'[h] # {} => waitlist[h] # {}
    BY <1>1
  <2>2. \A h \in Hashes : waitlist[h] # {} => announced[h] = {} /\ fetching[h] = None
    BY DEF Coherent, Apart
  <2> QED
    BY <1>4, <2>1, <2>2, FetcherAssumption DEF Apart
<1>8. Announcers(ann) \in SUBSET Peers
  BY DEF Announcers
<1>9. CASE ScheduleFetches(Announcers(ann), ann, annd, fet, req, alt)
  <2> HIDE DEF ann, annd, fet, req, alt
  <2> QED
    BY <1>1, <1>5, <1>6, <1>7, <1>8, <1>9, ScheduleIsCoherent
<1>10. CASE /\ ~ requests[p].open
            /\ announced' = annd
            /\ UNCHANGED <<fetching, requests, alternates>>
  <2>1. requests[p] = NoRequest
    BY <1>3, <1>10 DEF Tracked, Matched
  <2>2. back = {}
    BY <2>1, NoRequestAsks DEF back
  <2>3. fet = fetching' /\ alt = alternates' /\ req = requests'
    BY <1>3, <1>10, <2>1, <2>2 DEF Tracked, Typed
  <2> HIDE DEF ann, annd, fet, req, alt
  <2> QED
    BY <1>1, <1>5, <1>6, <1>7, <1>10, <2>3 DEF Coherent
<1> QED
  BY <1>2, <1>9, <1>10
-----------------------------------------------------------------------------
\* Nothing is tracked when the fetcher starts.
LEMMA InitIsCoherent ==
    ASSUME Init
    PROVE  Coherent
<1>1. Typed(announces, announced, fetching, requests, alternates)
  BY NoRequestAsks DEF Init, Typed
<1>2. Staged(announced, fetching, alternates)
  BY DEF Init, Staged
<1>3. Matched(fetching, requests)
  BY NoRequestAsks, FetcherAssumption DEF Init, Matched
<1>4. Owned(announces, announced, fetching, alternates)
  BY FetcherAssumption DEF Init, Owned
<1>5. Waits /\ Apart(waitlist, announced, fetching) /\ TimerTypes
  BY DEF Init, Waits, Apart, TimerTypes
<1> QED
  BY <1>1, <1>2, <1>3, <1>4, <1>5 DEF Coherent, Tracked

\* Every case of the loop keeps the invariant.
LEMMA StepIsCoherent ==
    ASSUME Coherent, [Next]_vars
    PROVE  Coherent'
<1>1. CASE UNCHANGED vars
  BY <1>1 DEF vars, stages, timers, Coherent, Waits, TimerTypes
<1>2. CASE Next
  <2> USE <1>2
  <2>1. TimerTypes'
    BY TimersKeepType DEF Coherent
  <2>2. CASE WaitTimerFires \/ TimeoutTimerFires
    BY <2>1, <2>2 DEF WaitTimerFires, TimeoutTimerFires, stages, Coherent, Waits
  <2> QED
    BY <2>1, <2>2, NotifyIsCoherent, WaitExpiresIsCoherent, RequestsExpireIsCoherent,
       CleanupOnlyIsCoherent, CleanupReplyIsCoherent, DropIsCoherent DEF Next
<1> QED
  BY <1>1, <1>2

\* The invariant always holds.
LEMMA CoherentHolds == Spec => []Coherent
<1>1. Init => Coherent
  BY InitIsCoherent
<1>2. Coherent /\ [Next]_vars => Coherent'
  BY StepIsCoherent
<1> QED
  BY <1>1, <1>2, PTL DEF Spec

\* The invariant that the comment on TxFetcher states holds with any number of
\* peers: no handler puts a hash in two stages, and its panics are not reached.
THEOREM HashesKeepOneStage == Spec => []OneStage
<1>1. Coherent => OneStage
  BY DEF Coherent, Apart, Tracked, Staged, OneStage
<1> QED
  BY <1>1, CoherentHolds, PTL

\* Requests and fetching hashes match, whatever is delivered by whom: a handler
\* that looks up the request of a fetching hash finds it.
THEOREM RequestsStayMatched == Spec => []RequestsMatch
<1>1. Coherent => RequestsMatch
  <2> SUFFICES ASSUME Coherent, NEW p \in Peers
               PROVE  /\ {h \in Hashes : fetching[h] = p} = Asked(requests[p])
                      /\ ~ requests[p].open => requests[p] = NoRequest
    BY DEF RequestsMatch
  <2>1. requests[p] \in Request
    BY DEF Coherent, Tracked, Typed
  <2>2. Asked(requests[p]) \subseteq Hashes
    BY <2>1, AskedHashes
  <2> QED
    BY <2>2 DEF Coherent, Tracked, Matched
<1> QED
  BY <1>1, CoherentHolds, PTL

\* What is accounted to a peer is what it announced and can be asked for.
THEOREM AnnouncementsStayAccounted == Spec => []Accounted
<1>1. Coherent => Accounted
  BY DEF Coherent, Waits, Tracked, Owned, Accounted
<1> QED
  BY <1>1, CoherentHolds, PTL
-----------------------------------------------------------------------------
(***************************************************************************)
(* The timers.                                                             *)
(***************************************************************************)
AnyWaits == \E h \in Hashes : waitlist[h] # {}
AnyOpen == \E p \in Peers : requests[p].open

WaitIsSet == AnyWaits => waitTimer \/ waitTrigger
TimeoutIsSet == AnyOpen => timeoutTimer \/ timeoutTrigger

\* The timer of the waits is set by whoever makes something wait.
LEMMA StepSetsWait ==
    ASSUME Coherent, WaitIsSet, [Next]_vars
    PROVE  WaitIsSet'
<1> USE DEF WaitIsSet, AnyWaits
<1>1. ASSUME NEW p \in Peers, NEW hashes \in SUBSET Hashes, Notify(p, hashes)
      PROVE  WaitIsSet'
  <2>1. PICK new : /\ waitlist' = WithOrigin(waitlist, new, p)
                   /\ waitTimer' = (waitTimer \/ (Waiting = {} /\ new # {}))
                   /\ waitTrigger' = waitTrigger
    BY <1>1 DEF Notify
  <2>2. CASE AnyWaits
    BY <2>1, <2>2
  <2>3. CASE ~ AnyWaits
    <3>1. Waiting = {}
      BY <2>3 DEF Waiting
    <3>2. ASSUME NEW h \in Hashes, waitlist'[h] # {}
          PROVE  h \in new
      BY <2>1, <2>3, <3>2 DEF WithOrigin
    <3> QED
      BY <2>1, <3>1, <3>2
  <2> QED
    BY <2>2, <2>3
<1>2. CASE WaitTimerFires
  BY <1>2 DEF WaitTimerFires
<1>3. CASE TimeoutTimerFires
  BY <1>3 DEF TimeoutTimerFires, stages
<1>4. ASSUME NEW old \in SUBSET Hashes, WaitExpires(old)
      PROVE  WaitIsSet'
  <2>1. /\ waitlist' = [h \in Hashes |-> IF h \in old THEN {} ELSE waitlist[h]]
        /\ waitTimer' = (waitTimer \/ Waiting # old)
    BY <1>4 DEF WaitExpires
  <2> QED
    BY <2>1 DEF Waiting
<1>5. ASSUME NEW late \in SUBSET Peers, RequestsExpire(late)
      PROVE  WaitIsSet'
  BY <1>5 DEF RequestsExpire
<1>6. ASSUME NEW p \in Peers, NEW hashes \in SUBSET Hashes, NEW kind \in Kinds,
             CleanupOnly(p, hashes, kind)
      PROVE  WaitIsSet'
  BY <1>6 DEF CleanupOnly, Forget, timers
<1>7. ASSUME NEW p \in Peers, NEW hashes \in SUBSET Hashes, CleanupReply(p, hashes)
      PROVE  WaitIsSet'
  <2>1. Forget(hashes) /\ UNCHANGED <<waitTimer, waitTrigger>>
    BY <1>7 DEF CleanupReply
  <2> QED
    BY <2>1 DEF Forget
<1>8. ASSUME NEW p \in Peers, Drop(p)
      PROVE  WaitIsSet'
  <2>1. /\ waitlist' = [h \in Hashes |-> IF h \in waitslots[p] THEN waitlist[h] \ {p}
                                         ELSE waitlist[h]]
        /\ waitTimer' = (waitTimer \/ (/\ waitslots[p] # {}
                                       /\ \E h \in Hashes : waitlist'[h] # {}))
        /\ waitTrigger' = waitTrigger
    BY <1>8 DEF Drop
  <2> QED
    BY <2>1
<1>9. CASE UNCHANGED vars
  BY <1>9 DEF vars, stages, timers
<1> QED
  BY <1>1, <1>2, <1>3, <1>4, <1>5, <1>6, <1>7, <1>8, <1>9 DEF Next

\* The timer of the requests is set by whoever sends the first one.
LEMMA StepSetsTimeout ==
    ASSUME Coherent, TimeoutIsSet, [Next]_vars
    PROVE  TimeoutIsSet'
<1> USE DEF TimeoutIsSet, AnyOpen
<1>1. ASSUME NEW p \in Peers, NEW hashes \in SUBSET Hashes, Notify(p, hashes)
      PROVE  TimeoutIsSet'
  BY <1>1 DEF Notify, SetTimeoutIfIdle
<1>2. CASE WaitTimerFires
  BY <1>2 DEF WaitTimerFires, stages
<1>3. CASE TimeoutTimerFires
  BY <1>3 DEF TimeoutTimerFires
<1>4. ASSUME NEW old \in SUBSET Hashes, WaitExpires(old)
      PROVE  TimeoutIsSet'
  BY <1>4 DEF WaitExpires, SetTimeoutIfIdle
<1>5. ASSUME NEW late \in SUBSET Peers, RequestsExpire(late)
      PROVE  TimeoutIsSet'
  BY <1>5 DEF RequestsExpire
<1>6. ASSUME NEW p \in Peers, NEW hashes \in SUBSET Hashes, NEW kind \in Kinds,
             CleanupOnly(p, hashes, kind)
      PROVE  TimeoutIsSet'
  <2>1. PICK other \in SUBSET Hashes : requests' = Marked(p, other, kind)
    BY <1>6 DEF CleanupOnly
  <2>2. ASSUME NEW q \in Peers
        PROVE  requests'[q].open = requests[q].open
    <3>1. requests[q] \in Request
      BY DEF Coherent, Tracked, Typed
    <3> QED
      BY <2>1, <3>1 DEF Marked, Request
  <2> QED
    BY <1>6, <2>2 DEF CleanupOnly, timers
<1>7. ASSUME NEW p \in Peers, NEW hashes \in SUBSET Hashes, CleanupReply(p, hashes)
      PROVE  TimeoutIsSet'
  <2>1. PICK other \in SUBSET Hashes :
             /\ SetTimeoutIfIdle([Marked(p, other, "reply") EXCEPT ![p] = NoRequest])
             /\ UNCHANGED timeoutTrigger
             /\ requests[p].open
    BY <1>7 DEF CleanupReply
  <2> QED
    BY <2>1 DEF SetTimeoutIfIdle
<1>8. ASSUME NEW p \in Peers, Drop(p)
      PROVE  TimeoutIsSet'
  <2>1. CASE requests[p].open
    <3>1. timeoutTimer' = TRUE
      BY <1>8, <2>1, Zenon DEF Drop
    <3> QED
      BY <3>1
  <2>2. CASE ~ requests[p].open
    <3>1. UNCHANGED <<requests, timeoutTimer, timeoutTrigger>>
      BY <1>8, <2>2, Zenon DEF Drop
    <3> QED
      BY <3>1
  <2> QED
    BY <2>1, <2>2
<1>9. CASE UNCHANGED vars
  BY <1>9 DEF vars, stages, timers
<1> QED
  BY <1>1, <1>2, <1>3, <1>4, <1>5, <1>6, <1>7, <1>8, <1>9 DEF Next

\* With any number of peers, what waits and what was requested has its timer
\* set, so that the loop comes back to it even if no peer ever answers.
THEOREM TimersStaySet == Spec => []TimersAreSet
<1>1. Init => WaitIsSet /\ TimeoutIsSet
  BY DEF Init, WaitIsSet, TimeoutIsSet, AnyWaits, AnyOpen, NoRequest
<1>2. Coherent /\ WaitIsSet /\ [Next]_vars => WaitIsSet'
  BY StepSetsWait
<1>3. Coherent /\ TimeoutIsSet /\ [Next]_vars => TimeoutIsSet'
  BY StepSetsTimeout
<1>4. WaitIsSet /\ TimeoutIsSet => TimersAreSet
  BY DEF WaitIsSet, TimeoutIsSet, AnyWaits, AnyOpen, TimersAreSet, Waiting
<1> QED
  BY <1>1, <1>2, <1>3, <1>4, CoherentHolds, PTL DEF Spec
=============================================================================
