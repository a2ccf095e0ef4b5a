----------------------------- MODULE FeedProofs -----------------------------
(***************************************************************************)
(* Proofs about module Feed: its case list stays coherent, and it          *)
(* implements module Broadcast, for any number of subscriptions, senders   *)
(* and values.                                                             *)
(***************************************************************************)
EXTENDS Feed, SequenceTheorems, TLAPS

\* A case list without duplicates.
Distinct(cs) == \A i, j \in 1 .. Len(cs) : cs[i] = cs[j] => i = j

\* The first n cases.
First(cs, n) == {cs[i] : i \in 1 .. n}

Members == Elements(inbox) \union Elements(sendCases)
Due == [s \in Subs |-> IF s \in Owed THEN sent ELSE sent + 1]
-----------------------------------------------------------------------------
\* An appended case is new, and the others stay.
LEMMA AppendCase ==
    ASSUME NEW S, NEW cs \in Seq(S), NEW s \in S, Distinct(cs),
           s \notin Elements(cs)
    PROVE  /\ Append(cs, s) \in Seq(S)
           /\ Distinct(Append(cs, s))
           /\ Elements(Append(cs, s)) = Elements(cs) \union {s}
<1> DEFINE new == Append(cs, s)
<1>1. /\ new \in Seq(S)
      /\ Len(new) = Len(cs) + 1
      /\ \A i \in 1 .. Len(cs) : new[i] = cs[i]
      /\ new[Len(cs) + 1] = s
      /\ Len(cs) \in Nat
  OBVIOUS
<1> HIDE DEF new
<1>2. Distinct(new)
  BY <1>1 DEF Distinct, Elements
<1>3. Elements(new) \subseteq Elements(cs) \union {s}
  BY <1>1 DEF Elements
<1>4. Elements(cs) \union {s} \subseteq Elements(new)
  BY <1>1 DEF Elements
<1> QED
  BY <1>1, <1>2, <1>3, <1>4 DEF new

\* The inbox goes behind the cases.
LEMMA ConcatCases ==
    ASSUME NEW S, NEW a \in Seq(S), NEW b \in Seq(S), Distinct(a), Distinct(b),
           Elements(a) \intersect Elements(b) = {}
    PROVE  /\ a \o b \in Seq(S)
           /\ Len(a \o b) = Len(a) + Len(b)
           /\ Distinct(a \o b)
           /\ Elements(a \o b) = Elements(a) \union Elements(b)
<1> DEFINE new == a \o b
           la == Len(a)
           lb == Len(b)
<1>1. /\ new \in Seq(S)
      /\ Len(new) = la + lb
      /\ \A i \in 1 .. Len(new) : new[i] = IF i <= la THEN a[i] ELSE b[i - la]
      /\ la \in Nat /\ lb \in Nat
  OBVIOUS
<1>2. /\ \A i, j \in 1 .. la : a[i] = a[j] => i = j
      /\ \A i, j \in 1 .. lb : b[i] = b[j] => i = j
      /\ \A i \in 1 .. la, j \in 1 .. lb : a[i] # b[j]
  <2>1. /\ \A i, j \in 1 .. la : a[i] = a[j] => i = j
        /\ \A i, j \in 1 .. lb : b[i] = b[j] => i = j
    BY Zenon DEF Distinct
  <2>2. \A i \in 1 .. la, j \in 1 .. lb : a[i] # b[j]
    BY Zenon DEF Elements
  <2> QED
    BY <2>1, <2>2
<1>3. /\ Elements(a) = {a[i] : i \in 1 .. la}
      /\ Elements(b) = {b[i] : i \in 1 .. lb}
  BY DEF Elements
<1> HIDE DEF new, la, lb
<1>4. \A i \in 1 .. la : i \in 1 .. Len(new) /\ new[i] = a[i]
  BY <1>1
<1>5. \A j \in 1 .. lb : j + la \in 1 .. Len(new) /\ new[j + la] = b[j]
  <2> TAKE j \in 1 .. lb
  <2>1. j + la \in 1 .. Len(new) /\ ~ (j + la <= la) /\ (j + la) - la = j
    BY <1>1
  <2> QED
    BY <1>1, <2>1
<1>6. \A i \in 1 .. Len(new) :
         \/ i \in 1 .. la /\ new[i] = a[i]
         \/ i - la \in 1 .. lb /\ new[i] = b[i - la]
  BY <1>1
<1>7. Distinct(new)
  <2> SUFFICES ASSUME NEW i \in 1 .. Len(new), NEW j \in 1 .. Len(new),
                      new[i] = new[j]
               PROVE  i = j
    BY DEF Distinct
  <2>1. CASE i \in 1 .. la /\ new[i] = a[i]
    <3>1. j \in 1 .. la /\ new[j] = a[j]
      BY <1>2, <1>6, <2>1
    <3> QED
      BY <1>2, <2>1, <3>1
  <2>2. CASE i - la \in 1 .. lb /\ new[i] = b[i - la]
    <3>1. j - la \in 1 .. lb /\ new[j] = b[j - la]
      BY <1>2, <1>6, <2>2
    <3>2. i - la = j - la
      BY <1>2, <2>2, <3>1
    <3> QED
      BY <1>1, <3>2
  <2> QED
    BY <1>6, <2>1, <2>2
<1>8. Elements(new) \subseteq Elements(a) \union Elements(b)
  <2> SUFFICES ASSUME NEW i \in 1 .. Len(new)
               PROVE  new[i] \in Elements(a) \union Elements(b)
    BY DEF Elements
  <2> QED
    BY <1>3, <1>6
<1>9. Elements(a) \union Elements(b) \subseteq Elements(new)
  <2>1. \A i \in 1 .. la : a[i] \in Elements(new)
    BY <1>4 DEF Elements
  <2>2. \A j \in 1 .. lb : b[j] \in Elements(new)
    BY <1>5 DEF Elements
  <2> QED
    BY <1>3, <2>1, <2>2
<1> QED
  BY <1>1, <1>7, <1>8, <1>9 DEF new, la, lb

\* delete removes the case, keeps the others in order, and leaves the first n
\* of them, or n - 1 if the case was one of them, where they were.
LEMMA DeleteCase ==
    ASSUME NEW S, NEW cs \in Seq(S), NEW s \in Elements(cs), Distinct(cs),
           NEW n \in 0 .. Len(cs)
    PROVE  /\ Delete(cs, s) \in Seq(S)
           /\ Len(Delete(cs, s)) = Len(cs) - 1
           /\ Distinct(Delete(cs, s))
           /\ Elements(Delete(cs, s)) = Elements(cs) \ {s}
           /\ s \in First(cs, n) =>
                 /\ n - 1 \in 0 .. Len(Delete(cs, s))
                 /\ First(Delete(cs, s), n - 1) = First(cs, n) \ {s}
           /\ s \notin First(cs, n) =>
                 /\ n \in 0 .. Len(Delete(cs, s))
                 /\ First(Delete(cs, s), n) = First(cs, n)
<1> DEFINE k == CHOOSE i \in 1 .. Len(cs) : cs[i] = s
           new == [i \in 1 .. Len(cs) - 1 |-> IF i < k THEN cs[i] ELSE cs[i + 1]]
<1>1. Len(cs) \in Nat /\ \A i \in 1 .. Len(cs) : cs[i] \in S
  OBVIOUS
<1>2. k \in 1 .. Len(cs) /\ cs[k] = s
  BY DEF Elements
<1>3. new = Delete(cs, s)
  BY DEF Delete
<1> HIDE DEF k
<1>4. /\ new \in Seq(S)
      /\ Len(new) = Len(cs) - 1
      /\ \A i \in 1 .. Len(cs) - 1 : new[i] = IF i < k THEN cs[i] ELSE cs[i + 1]
  BY <1>1, <1>2
<1> HIDE DEF new
<1>5. \A i \in 1 .. Len(cs) : cs[i] = s => i = k
  BY <1>2 DEF Distinct
<1>6. \A i \in 1 .. Len(cs) - 1 : new[i] # s
  BY <1>1, <1>2, <1>4, <1>5
<1>7. Distinct(new)
  <2> SUFFICES ASSUME NEW i \in 1 .. Len(new), NEW j \in 1 .. Len(new),
                      new[i] = new[j]
               PROVE  i = j
    BY DEF Distinct
  <2>1. i \in 1 .. Len(cs) /\ i + 1 \in 1 .. Len(cs)
        /\ j \in 1 .. Len(cs) /\ j + 1 \in 1 .. Len(cs)
    BY <1>1, <1>4
  <2>2. \A x, y \in 1 .. Len(cs) : cs[x] = cs[y] => x = y
    BY DEF Distinct
  <2>3. new[i] = (IF i < k THEN cs[i] ELSE cs[i + 1])
        /\ new[j] = (IF j < k THEN cs[j] ELSE cs[j + 1])
    BY <1>4
  <2>4. CASE i < k /\ j < k
    BY <2>1, <2>2, <2>3, <2>4
  <2>5. CASE i < k /\ ~ (j < k)
    <3>1. i = j + 1
      BY <2>1, <2>2, <2>3, <2>5
    <3> QED
      BY <1>2, <2>1, <2>5, <3>1
  <2>6. CASE ~ (i < k) /\ j < k
    <3>1. j = i + 1
      BY <2>1, <2>2, <2>3, <2>6
    <3> QED
      BY <1>2, <2>1, <2>6, <3>1
  <2>7. CASE ~ (i < k) /\ ~ (j < k)
    <3>1. i + 1 = j + 1
      BY <2>1, <2>2, <2>3, <2>7
    <3> QED
      BY <3>1
  <2> QED
    BY <2>4, <2>5, <2>6, <2>7
<1>8. \A m \in 0 .. Len(cs) : k <= m => First(new, m - 1) = First(cs, m) \ {s}
  <2> SUFFICES ASSUME NEW m \in 0 .. Len(cs), k <= m
               PROVE  First(new, m - 1) = First(cs, m) \ {s}
    OBVIOUS
  <2>1. First(new, m - 1) \subseteq First(cs, m) \ {s}
    <3> SUFFICES ASSUME NEW i \in 1 .. m - 1
                 PROVE  new[i] \in First(cs, m) \ {s}
      BY DEF First
    <3>1. i \in 1 .. Len(cs) - 1 /\ i \in 1 .. m /\ i + 1 \in 1 .. m
      BY <1>1
    <3>2. new[i] # s
      BY <1>6, <3>1
    <3> QED
      BY <1>4, <3>1, <3>2 DEF First
  <2>2. First(cs, m) \ {s} \subseteq First(new, m - 1)
    <3> SUFFICES ASSUME NEW i \in 1 .. m, cs[i] # s
                 PROVE  cs[i] \in First(new, m - 1)
      BY DEF First
    <3>1. CASE i < k
      <4>1. i \in 1 .. m - 1 /\ i \in 1 .. Len(cs) - 1
        BY <1>1, <1>2, <3>1
      <4>2. new[i] = cs[i]
        BY <1>4, <3>1, <4>1
      <4> QED
        BY <4>1, <4>2 DEF First
    <3>2. CASE i > k
      <4>1. i - 1 \in 1 .. m - 1 /\ i - 1 \in 1 .. Len(cs) - 1 /\ ~ (i - 1 < k)
        BY <1>1, <1>2, <3>2
      <4>2. new[i - 1] = cs[i]
        BY <1>4, <4>1
      <4> QED
        BY <4>1, <4>2 DEF First
    <3> QED
      BY <1>1, <1>2, <3>1, <3>2
  <2> QED
    BY <2>1, <2>2
<1>9. \A m \in 0 .. Len(cs) : m < k => First(new, m) = First(cs, m)
  <2> SUFFICES ASSUME NEW m \in 0 .. Len(cs), m < k
               PROVE  First(new, m) = First(cs, m)
    OBVIOUS
  <2>1. \A i \in 1 .. m : new[i] = cs[i]
    BY <1>1, <1>2, <1>4
  <2> QED
    BY <2>1 DEF First
<1>10. Elements(new) = Elements(cs) \ {s}
  <2>1. k <= Len(cs) /\ Len(cs) \in 0 .. Len(cs)
    BY <1>1, <1>2
  <2>2. First(new, Len(cs) - 1) = First(cs, Len(cs)) \ {s}
    BY <1>8, <2>1
  <2> QED
    BY <1>4, <2>2 DEF First, Elements
<1>11. s \in First(cs, n) <=> k <= n
  BY <1>1, <1>2, <1>5 DEF First
<1>12. k <= n => n - 1 \in 0 .. Len(new)
  BY <1>1, <1>2, <1>4
<1>13. ~ (k <= n) => n \in 0 .. Len(new) /\ n < k
  BY <1>1, <1>2, <1>4
<1> QED
  BY <1>3, <1>4, <1>7, <1>8, <1>9, <1>10, <1>11, <1>12, <1>13

\* deactivate keeps all the cases, and moves the served one out of the first.
LEMMA DeactivateCase ==
    ASSUME NEW S, NEW cs \in Seq(S), Distinct(cs),
           NEW last \in 1 .. Len(cs), NEW index \in 1 .. last
    PROVE  /\ Deactivate(cs, index, last) \in Seq(S)
           /\ Len(Deactivate(cs, index, last)) = Len(cs)
           /\ Distinct(Deactivate(cs, index, last))
           /\ Elements(Deactivate(cs, index, last)) = Elements(cs)
           /\ First(Deactivate(cs, index, last), last - 1)
                = First(cs, last) \ {cs[index]}
<1> DEFINE new == Deactivate(cs, index, last)
           at(i) == IF i = index THEN last ELSE IF i = last THEN index ELSE i
<1>1. Len(cs) \in Nat /\ index \in 1 .. Len(cs) /\ last \in 1 .. Len(cs)
  OBVIOUS
<1>2. /\ new \in Seq(S)
      /\ Len(new) = Len(cs)
      /\ \A i \in 1 .. Len(cs) : new[i] = cs[at(i)]
  BY <1>1 DEF Deactivate
<1> HIDE DEF new
<1>3. \A i \in 1 .. Len(cs) : at(i) \in 1 .. Len(cs) /\ at(at(i)) = i
  BY <1>1
<1>4. \A i, j \in 1 .. Len(cs) : cs[i] = cs[j] => i = j
  BY DEF Distinct
<1>5. \A i \in 1 .. Len(cs) : i # index => (at(i) \in 1 .. last - 1 <=> i \in 1 .. last)
  BY <1>1
<1>6. at(index) = last
  OBVIOUS
<1>7. \A i \in 1 .. last - 1 : at(i) \in 1 .. last /\ at(i) # index /\ i \in 1 .. Len(cs)
  BY <1>1
<1> HIDE DEF at
<1>8. \A i \in 1 .. Len(cs) : new[at(i)] = cs[i]
  BY <1>2, <1>3
<1>9. Distinct(new)
  <2> SUFFICES ASSUME NEW i \in 1 .. Len(cs), NEW j \in 1 .. Len(cs),
                      new[i] = new[j]
               PROVE  i = j
    BY <1>2 DEF Distinct
  <2>1. at(i) = at(j)
    BY <1>2, <1>3, <1>4
  <2> QED
    BY <1>3, <2>1
<1>10. Elements(new) = Elements(cs)
  <2>1. Elements(new) \subseteq Elements(cs)
    BY <1>2, <1>3 DEF Elements
  <2>2. Elements(cs) \subseteq Elements(new)
    BY <1>2, <1>3, <1>8 DEF Elements
  <2> QED
    BY <2>1, <2>2
<1>11. First(new, last - 1) \subseteq First(cs, last) \ {cs[index]}
  <2> SUFFICES ASSUME NEW i \in 1 .. last - 1
               PROVE  new[i] \in First(cs, last) \ {cs[index]}
    BY DEF First
  <2>1. new[i] = cs[at(i)]
    BY <1>2, <1>7
  <2>2. cs[at(i)] # cs[index]
    BY <1>1, <1>3, <1>4, <1>7
  <2> QED
    BY <1>7, <2>1, <2>2 DEF First
<1>12. First(cs, last) \ {cs[index]} \subseteq First(new, last - 1)
  <2> SUFFICES ASSUME NEW i \in 1 .. last, cs[i] # cs[index]
               PROVE  cs[i] \in First(new, last - 1)
    BY DEF First
  <2>1. i \in 1 .. Len(cs) /\ i # index
    BY <1>1
  <2>2. at(i) \in 1 .. last - 1
    BY <1>5, <2>1
  <2> QED
    BY <1>8, <2>1, <2>2 DEF First
<1> QED
  BY <1>2, <1>9, <1>10, <1>11, <1>12 DEF new
-----------------------------------------------------------------------------
\* A feed that nobody has used is coherent.
LEMMA InitIsCoherent == Init => FeedIsCoherent
BY FeedAssumption DEF Init, FeedIsCoherent, TypeOK, Elements

\* The parts of the invariant, in the words of the lemmas above.
LEMMA CoherentFacts ==
    ASSUME FeedIsCoherent
    PROVE  /\ inbox \in Seq(Subs) /\ sendCases \in Seq(Subs)
           /\ Distinct(inbox) /\ Distinct(sendCases)
           /\ Elements(inbox) \intersect Elements(sendCases) = {}
           /\ Elements(inbox) \subseteq Subs /\ Elements(sendCases) \subseteq Subs
           /\ Len(sendCases) \in Nat /\ active \in 0 .. Len(sendCases)
           /\ Owed = First(sendCases, active)
           /\ Owed \subseteq Elements(sendCases)
<1>1. inbox \in Seq(Subs) /\ sendCases \in Seq(Subs)
      /\ active \in 0 .. Len(sendCases) /\ Len(sendCases) \in Nat
  BY DEF FeedIsCoherent, TypeOK
<1>2. Distinct(inbox) /\ Distinct(sendCases)
      /\ Elements(inbox) \intersect Elements(sendCases) = {}
  BY Zenon DEF FeedIsCoherent, Distinct
<1>3. Elements(inbox) \subseteq Subs /\ Elements(sendCases) \subseteq Subs
  BY <1>1 DEF Elements
<1>4. Owed = First(sendCases, active)
  BY DEF Owed, First
<1>5. Owed \subseteq Elements(sendCases)
  BY <1>1 DEF Owed, Elements
<1> QED
  BY <1>1, <1>2, <1>3, <1>4, <1>5

\* The same facts, with the types and the states of the subscriptions, make
\* the next state coherent.
LEMMA CoherentNext ==
    ASSUME TypeOK', Distinct(inbox'), Distinct(sendCases'),
           Elements(inbox') \intersect Elements(sendCases') = {},
           \A s \in Subs :
              /\ sub'[s] = "subscribed" =>
                    s \in Elements(inbox') \union Elements(sendCases')
              /\ sub'[s] = "removing" => s \in Elements(sendCases')
              /\ sub'[s] \in {"new", "gone"} =>
                    s \notin Elements(inbox') \union Elements(sendCases')
              /\ sub'[s] = "new" => chan'[s] = <<>>,
           step' \in {"free", "inbox"} => active' = 0
    PROVE  FeedIsCoherent'
BY Zenon DEF FeedIsCoherent, Distinct, Elements

\* Which subscriptions are where.
LEMMA SubFacts ==
    ASSUME FeedIsCoherent
    PROVE  /\ sub \in [Subs -> {"new", "subscribed", "removing", "gone"}]
           /\ chan \in [Subs -> Seq(Nat)] /\ sent \in Nat
           /\ pos \in Nat \ {0}
           /\ step \in {"free", "inbox", "try", "select"}
           /\ sender \in [Senders -> {"idle", "waiting", "sending"}]
           /\ \A s \in Subs :
                 /\ sub[s] = "subscribed" =>
                       s \in Elements(inbox) \union Elements(sendCases)
                 /\ sub[s] = "removing" => s \in Elements(sendCases)
                 /\ sub[s] \in {"new", "gone"} =>
                       s \notin Elements(inbox) \union Elements(sendCases)
                 /\ sub[s] = "new" => chan[s] = <<>>
           /\ step \in {"free", "inbox"} => active = 0
<1>1. TypeOK
  BY DEF FeedIsCoherent
<1>2. /\ \A s \in Subs :
            /\ sub[s] = "subscribed" =>
                  s \in Elements(inbox) \union Elements(sendCases)
            /\ sub[s] = "removing" => s \in Elements(sendCases)
            /\ sub[s] \in {"new", "gone"} =>
                  s \notin Elements(inbox) \union Elements(sendCases)
            /\ sub[s] = "new" => chan[s] = <<>>
      /\ step \in {"free", "inbox"} => active = 0
  BY Zenon DEF FeedIsCoherent
<1> QED
  BY <1>1, <1>2 DEF TypeOK

\* Subscribing, and unsubscribing from the inbox.
LEMMA InboxIsCoherent ==
    ASSUME FeedIsCoherent, NEW s \in Subs, Subscribe(s) \/ Remove(s)
    PROVE  FeedIsCoherent'
<1> USE CoherentFacts, SubFacts
<1>1. CASE Subscribe(s)
  <2>1. s \notin Elements(inbox) /\ s \notin Elements(sendCases)
    BY <1>1 DEF Subscribe
  <2>2. /\ inbox' \in Seq(Subs) /\ Distinct(inbox')
        /\ Elements(inbox') = Elements(inbox) \union {s}
    BY <1>1, <2>1, AppendCase DEF Subscribe
  <2>3. TypeOK'
    BY <1>1, <2>2 DEF Subscribe, TypeOK
  <2> QED
    BY <1>1, <2>1, <2>2, <2>3, CoherentNext DEF Subscribe
<1>2. CASE Remove(s) /\ s \in Elements(inbox)
  <2>1. 0 \in 0 .. Len(inbox)
    OBVIOUS
  <2>2. /\ Delete(inbox, s) \in Seq(Subs) /\ Distinct(Delete(inbox, s))
        /\ Elements(Delete(inbox, s)) = Elements(inbox) \ {s}
    BY <1>2, <2>1, DeleteCase
  <2>3. inbox' = Delete(inbox, s) /\ sub' = [sub EXCEPT ![s] = "gone"]
        /\ UNCHANGED <<sendCases, active, step, pos, sender, chan, sent>>
    BY <1>2 DEF Remove
  <2>4. TypeOK'
    BY <2>2, <2>3 DEF TypeOK
  <2> QED
    BY <1>2, <2>2, <2>3, <2>4, CoherentNext
<1>3. CASE Remove(s) /\ s \notin Elements(inbox)
  <2>1. /\ sub[s] = "subscribed" /\ sub' = [sub EXCEPT ![s] = "removing"]
        /\ UNCHANGED <<inbox, sendCases, active, step, pos, sender, chan, sent>>
    BY <1>3 DEF Remove
  <2>2. TypeOK'
    BY <2>1 DEF TypeOK
  <2> QED
    BY <1>3, <2>1, <2>2, CoherentNext
<1> QED
  BY <1>1, <1>2, <1>3

\* What deleting a case does, while Send is in its select or nobody is in Send.
LEMMA RemoveFacts ==
    ASSUME FeedIsCoherent, NEW s \in Subs, RemoveStep(s)
    PROVE  /\ sendCases' \in Seq(Subs) /\ Distinct(sendCases')
           /\ Elements(sendCases') = Elements(sendCases) \ {s}
           /\ active' \in 0 .. Len(sendCases')
           /\ First(sendCases', active') = First(sendCases, active) \ {s}
           /\ s \in Elements(sendCases)
<1> USE CoherentFacts, SubFacts
<1>1. s \in Elements(sendCases) /\ sendCases' = Delete(sendCases, s)
  BY DEF RemoveStep, RemoveLocked, SelectRemove
<1>2. active' = IF s \in First(sendCases, active) THEN active - 1 ELSE active
  <2>1. CASE RemoveLocked(s)
    <3>1. active = 0 /\ active' = active
      BY <2>1 DEF RemoveLocked
    <3> QED
      BY <3>1 DEF First
  <2>2. CASE SelectRemove(s)
    BY <2>2 DEF SelectRemove, First
  <2> QED
    BY <2>1, <2>2 DEF RemoveStep
<1>3. /\ Delete(sendCases, s) \in Seq(Subs) /\ Distinct(Delete(sendCases, s))
      /\ Elements(Delete(sendCases, s)) = Elements(sendCases) \ {s}
      /\ s \in First(sendCases, active) =>
            /\ active - 1 \in 0 .. Len(Delete(sendCases, s))
            /\ First(Delete(sendCases, s), active - 1)
                 = First(sendCases, active) \ {s}
      /\ s \notin First(sendCases, active) =>
            /\ active \in 0 .. Len(Delete(sendCases, s))
            /\ First(Delete(sendCases, s), active) = First(sendCases, active)
  <2>1. sendCases \in Seq(Subs) /\ Distinct(sendCases)
        /\ active \in 0 .. Len(sendCases)
    OBVIOUS
  <2> QED
    <3> HIDE CoherentFacts, SubFacts
    <3> QED
      BY <1>1, <2>1, DeleteCase
<1>4. CASE s \in First(sendCases, active)
  BY <1>1, <1>2, <1>3, <1>4
<1>5. CASE s \notin First(sendCases, active)
  <2>1. First(sendCases, active) = First(sendCases, active) \ {s}
    BY <1>5
  <2> QED
    BY <1>1, <1>2, <1>3, <1>5, <2>1
<1> QED
  BY <1>4, <1>5

\* Unsubscribing a channel that has a case.
LEMMA RemoveIsCoherent ==
    ASSUME FeedIsCoherent, NEW s \in Subs, RemoveStep(s)
    PROVE  FeedIsCoherent'
<1> USE CoherentFacts, SubFacts, RemoveFacts
<1>1. /\ sub' = [sub EXCEPT ![s] = "gone"] /\ sub[s] = "removing"
      /\ UNCHANGED <<inbox, sender, chan, sent>>
  BY DEF RemoveStep, RemoveLocked, SelectRemove
<1>2. /\ step' \in {"free", "try"} /\ pos' \in Nat \ {0}
      /\ step' \in {"free", "inbox"} => active' = 0
  BY DEF RemoveStep, RemoveLocked, SelectRemove
<1>3. TypeOK'
  BY <1>1, <1>2 DEF TypeOK
<1>4. Elements(inbox') \intersect Elements(sendCases') = {}
  BY <1>1
<1>5. \A t \in Subs :
          /\ sub'[t] = "subscribed" =>
                t \in Elements(inbox') \union Elements(sendCases')
          /\ sub'[t] = "removing" => t \in Elements(sendCases')
          /\ sub'[t] \in {"new", "gone"} =>
                t \notin Elements(inbox') \union Elements(sendCases')
          /\ sub'[t] = "new" => chan'[t] = <<>>
  BY <1>1
<1> QED
  BY <1>1, <1>2, <1>3, <1>4, <1>5, CoherentNext

\* What serving a case does.
LEMMA ServeFacts ==
    ASSUME FeedIsCoherent, NEW index \in 1 .. active, Serve(index)
    PROVE  /\ sendCases' \in Seq(Subs) /\ Distinct(sendCases')
           /\ Elements(sendCases') = Elements(sendCases)
           /\ active' \in 0 .. Len(sendCases')
           /\ First(sendCases', active')
                = First(sendCases, active) \ {sendCases[index]}
           /\ sendCases[index] \in First(sendCases, active)
           /\ sendCases[index] \in Subs
           /\ chan' = [chan EXCEPT ![sendCases[index]] = Append(@, sent)]
           /\ chan' \in [Subs -> Seq(Nat)]
<1> USE CoherentFacts, SubFacts
<1>1. active \in 1 .. Len(sendCases) /\ index \in 1 .. Len(sendCases)
  OBVIOUS
<1>2. /\ sendCases' = Deactivate(sendCases, index, active)
      /\ active' = active - 1
      /\ chan' = [chan EXCEPT ![sendCases[index]] = Append(@, sent)]
  BY DEF Serve
<1>3. /\ sendCases' \in Seq(Subs) /\ Distinct(sendCases')
      /\ Len(sendCases') = Len(sendCases)
      /\ Elements(sendCases') = Elements(sendCases)
      /\ First(sendCases', active') = First(sendCases, active) \ {sendCases[index]}
  <2> DEFINE new == Deactivate(sendCases, index, active)
  <2>1. sendCases \in Seq(Subs) /\ Distinct(sendCases)
        /\ active \in 1 .. Len(sendCases) /\ index \in 1 .. active
    BY <1>1
  <2>2. /\ new \in Seq(Subs) /\ Distinct(new) /\ Len(new) = Len(sendCases)
        /\ Elements(new) = Elements(sendCases)
        /\ First(new, active - 1) = First(sendCases, active) \ {sendCases[index]}
    <3> HIDE CoherentFacts, SubFacts
    <3> QED
      BY <2>1, DeactivateCase
  <2> HIDE DEF new
  <2> QED
    BY <1>2, <2>2 DEF new
<1>4. sendCases[index] \in First(sendCases, active) /\ sendCases[index] \in Subs
  BY <1>1 DEF First
<1>5. chan' \in [Subs -> Seq(Nat)]
  BY <1>2, <1>4
<1>6. active' \in 0 .. Len(sendCases')
  BY <1>1, <1>2, <1>3
<1> QED
  BY <1>2, <1>3, <1>4, <1>5, <1>6

\* What adding the inbox does.
LEMMA InboxFacts ==
    ASSUME FeedIsCoherent, SendInbox
    PROVE  /\ sendCases' \in Seq(Subs) /\ Distinct(sendCases')
           /\ Elements(sendCases') = Elements(sendCases) \union Elements(inbox)
           /\ active' = Len(sendCases') /\ Len(sendCases') \in Nat
           /\ First(sendCases', active') = Elements(sendCases')
           /\ inbox' \in Seq(Subs) /\ Distinct(inbox') /\ Elements(inbox') = {}
<1>1. /\ inbox \in Seq(Subs) /\ sendCases \in Seq(Subs)
      /\ Distinct(inbox) /\ Distinct(sendCases)
      /\ Elements(sendCases) \intersect Elements(inbox) = {}
  BY CoherentFacts
<1>2. /\ sendCases' = sendCases \o inbox /\ inbox' = <<>>
      /\ active' = Len(sendCases) + Len(inbox)
  BY DEF SendInbox
<1>3. /\ sendCases \o inbox \in Seq(Subs) /\ Distinct(sendCases \o inbox)
      /\ Len(sendCases \o inbox) = Len(sendCases) + Len(inbox)
      /\ Elements(sendCases \o inbox) = Elements(sendCases) \union Elements(inbox)
  BY <1>1, ConcatCases
<1>4. inbox' \in Seq(Subs) /\ Distinct(inbox') /\ Elements(inbox') = {}
  BY <1>2 DEF Distinct, Elements
<1>5. active' = Len(sendCases') /\ Len(sendCases') \in Nat
  BY <1>1, <1>2, <1>3
<1>6. First(sendCases', active') = Elements(sendCases')
  BY <1>5 DEF First, Elements
<1> QED
  BY <1>2, <1>3, <1>4, <1>5, <1>6

\* Send, step by step.
LEMMA SendIsCoherent ==
    ASSUME FeedIsCoherent,
           SendStep \/ \E p \in Senders : CallSend(p)
    PROVE  FeedIsCoherent'
<1> USE CoherentFacts, SubFacts
<1>1. CASE \E p \in Senders : CallSend(p) \/ SendLock(p)
  <2>1. PICK p \in Senders : CallSend(p) \/ SendLock(p)
    BY <1>1
  <2>2. UNCHANGED <<inbox, sendCases, active, pos, sub, chan, sent>>
    BY <2>1 DEF CallSend, SendLock
  <2>3. step' \in {"free", "inbox", "try", "select"}
        /\ sender' \in [Senders -> {"idle", "waiting", "sending"}]
        /\ (step' \in {"free", "inbox"} => active' = 0)
    BY <2>1 DEF CallSend, SendLock
  <2>4. TypeOK'
    BY <2>2, <2>3 DEF TypeOK
  <2> QED
    BY <2>2, <2>3, <2>4, CoherentNext
<1>2. CASE SendInbox
  <2> USE InboxFacts
  <2>1. UNCHANGED <<sender, sub, chan>> /\ step' = "try" /\ pos' = 1
        /\ sent' = sent + 1
    BY <1>2 DEF SendInbox
  <2>2. TypeOK'
    BY <1>2, <2>1 DEF TypeOK
  <2> QED
    BY <1>2, <2>1, <2>2, CoherentNext
<1>3. CASE \E index \in 1 .. active :
              /\ Serve(index) /\ step' = "try" /\ pos' \in Nat \ {0}
              /\ UNCHANGED <<inbox, sender, sub, sent>>
  <2>1. PICK index \in 1 .. active :
              /\ Serve(index) /\ step' = "try" /\ pos' \in Nat \ {0}
              /\ UNCHANGED <<inbox, sender, sub, sent>>
    BY <1>3
  <2> USE ServeFacts
  <2>2. TypeOK'
    BY <2>1 DEF TypeOK
  <2>3. sendCases[index] \in Elements(sendCases)
    BY <2>1
  <2>4. ASSUME NEW t \in Subs, sub[t] = "new"
        PROVE  chan'[t] = <<>>
    <3>1. t # sendCases[index] /\ chan[t] = <<>>
      BY <2>3, <2>4
    <3>2. chan' = [chan EXCEPT ![sendCases[index]] = Append(@, sent)]
      BY <2>1 DEF Serve
    <3> QED
      BY <3>1, <3>2
  <2> QED
    BY <2>1, <2>2, <2>4, CoherentNext
<1>4. CASE TrySend
  <2>1. CASE Serve(pos)
    <3>1. pos \in 1 .. active
      BY <1>4 DEF TrySend
    <3>2. step' = "try" /\ pos' \in Nat \ {0}
          /\ UNCHANGED <<inbox, sender, sub, sent>>
      BY <1>4, <2>1 DEF TrySend
    <3> QED
      BY <1>3, <2>1, <3>1, <3>2
  <2>2. CASE pos' = pos + 1 /\ UNCHANGED <<chan, sendCases, active>>
    <3>1. UNCHANGED <<inbox, step, sender, sub, sent>>
      BY <1>4 DEF TrySend
    <3>2. TypeOK'
      BY <2>2, <3>1 DEF TypeOK
    <3> QED
      BY <2>2, <3>1, <3>2, CoherentNext
  <2> QED
    BY <1>4, <2>1, <2>2 DEF TrySend
<1>5. CASE SendReturn \/ SendBlock
  <2>1. UNCHANGED <<inbox, sendCases, active, pos, sub, chan, sent>>
    BY <1>5 DEF SendReturn, SendBlock
  <2>2. step' \in {"free", "select"}
        /\ sender' \in [Senders -> {"idle", "waiting", "sending"}]
        /\ (step' \in {"free", "inbox"} => active' = 0)
    BY <1>5 DEF SendReturn, SendBlock
  <2>3. TypeOK'
    BY <2>1, <2>2 DEF TypeOK
  <2> QED
    BY <2>1, <2>2, <2>3, CoherentNext
<1>6. CASE \E index \in 1 .. active : SelectSend(index)
  BY <1>3, <1>6 DEF SelectSend
<1> QED
  BY <1>1, <1>2, <1>4, <1>5, <1>6 DEF SendStep

\* The subscriber's own step.
LEMMA ReceiveIsCoherent ==
    ASSUME FeedIsCoherent, NEW s \in Subs, Receive(s)
    PROVE  FeedIsCoherent'
<1> USE CoherentFacts, SubFacts
<1>1. chan[s] # <<>> /\ chan' = [chan EXCEPT ![s] = Tail(@)]
      /\ UNCHANGED <<inbox, sendCases, active, step, pos, sender, sub, sent>>
  BY DEF Receive
<1>2. chan' \in [Subs -> Seq(Nat)]
  BY <1>1
<1>3. TypeOK'
  BY <1>1, <1>2 DEF TypeOK
<1> QED
  BY <1>1, <1>3, CoherentNext

\* Every step of the feed keeps it coherent.
LEMMA StepIsCoherent == FeedIsCoherent /\ [Next]_vars => FeedIsCoherent'
<1> SUFFICES ASSUME FeedIsCoherent, [Next]_vars
             PROVE  FeedIsCoherent'
  OBVIOUS
<1>1. CASE UNCHANGED vars
  <2>1. UNCHANGED <<inbox, sendCases, active, step, pos, sender, sub, chan, sent>>
    BY <1>1 DEF vars
  <2>2. TypeOK'
    BY <2>1 DEF FeedIsCoherent, TypeOK
  <2> QED
    BY <2>1, <2>2, CoherentFacts, SubFacts, CoherentNext
<1>2. CASE Next
  BY <1>2, InboxIsCoherent, RemoveIsCoherent, SendIsCoherent, ReceiveIsCoherent
     DEF Next
<1> QED
  BY <1>1, <1>2

\* The case list stays coherent: in particular, when Unsubscribe has returned
\* the channel has no case left, and delete never gets the index -1.
THEOREM FeedStaysCoherent == Spec => []FeedIsCoherent
<1>1. Init => FeedIsCoherent
  BY InitIsCoherent
<1>2. FeedIsCoherent /\ [Next]_vars => FeedIsCoherent'
  BY StepIsCoherent
<1> QED
  BY <1>1, <1>2, PTL DEF Spec
-----------------------------------------------------------------------------
\* The refinement mapping, in the words of the lemmas above.
LEMMA MappingFacts ==
    ASSUME FeedIsCoherent
    PROVE  /\ Members \subseteq Subs /\ Owed \subseteq Members
           /\ \A s \in Elements(inbox) : s \notin Owed
           /\ DOMAIN Due = Subs
           /\ \A s \in Subs : Due[s] = IF s \in Owed THEN sent ELSE sent + 1
BY CoherentFacts DEF Members, Due

\* Subscribe joins.
LEMMA SubscribeJoins ==
    ASSUME FeedIsCoherent, NEW s \in Subs, Subscribe(s)
    PROVE  Promise!Join(s)
<1>1. s \notin Elements(inbox) /\ s \notin Elements(sendCases) /\ chan[s] = <<>>
  BY SubFacts DEF Subscribe
<1>2. Elements(inbox') = Elements(inbox) \union {s}
  BY <1>1, CoherentFacts, AppendCase DEF Subscribe
<1>3. Elements(sendCases') = Elements(sendCases) /\ Owed' = Owed
      /\ sent' = sent /\ chan' = chan
  BY DEF Subscribe, Elements, Owed
<1>4. Members' = Members \union {s} /\ s \notin Members /\ s \notin Owed
  BY <1>1, <1>2, <1>3, CoherentFacts DEF Members, Elements
<1>5. Due' = [Due EXCEPT ![s] = sent + 1]
  BY <1>3, <1>4 DEF Due
<1> QED
  BY <1>1, <1>3, <1>4, <1>5 DEF Promise!Join, Members, Due

\* Unsubscribe leaves, in whichever way the channel is removed.
LEMMA UnsubscribeLeaves ==
    ASSUME FeedIsCoherent, NEW s \in Subs, s \in Members, sent' = sent,
           chan' = chan, Members' = Members \ {s}, Owed' = Owed \ {s}
    PROVE  Promise!Leave(s)
<1>1. Due' = [Due EXCEPT ![s] = sent + 1]
  BY DEF Due
<1> QED
  BY <1>1 DEF Promise!Leave, Members, Due

\* Remove leaves, or does not touch what users of the feed see.
LEMMA RemoveLeaves ==
    ASSUME FeedIsCoherent, NEW s \in Subs, Remove(s) \/ RemoveStep(s)
    PROVE  Promise!Leave(s) \/ UNCHANGED <<Members, Due, sent, chan>>
<1> USE MappingFacts, CoherentFacts
<1>1. CASE Remove(s) /\ s \in Elements(inbox)
  <2>1. inbox' = Delete(inbox, s) /\ sendCases' = sendCases
        /\ active' = active /\ sent' = sent /\ chan' = chan
    BY <1>1 DEF Remove
  <2>2. 0 \in 0 .. Len(inbox)
    OBVIOUS
  <2>3. Elements(Delete(inbox, s)) = Elements(inbox) \ {s}
    BY <1>1, <2>2, DeleteCase
  <2>4. Elements(inbox') = Elements(inbox) \ {s}
    BY <2>1, <2>3
  <2>5. Elements(sendCases') = Elements(sendCases) /\ Owed' = Owed
    BY <2>1 DEF Elements, Owed
  <2>6. Members' = Members \ {s} /\ Owed' = Owed \ {s}
    <3>1. s \notin Elements(sendCases) /\ s \notin Owed
      BY <1>1
    <3>2. Members' = Elements(inbox') \union Elements(sendCases')
      BY DEF Members, Elements
    <3> QED
      BY <2>4, <2>5, <3>1, <3>2 DEF Members
  <2> QED
    BY <1>1, <2>1, <2>6, UnsubscribeLeaves DEF Members
<1>2. CASE Remove(s) /\ s \notin Elements(inbox)
  <2>1. UNCHANGED <<inbox, sendCases, active, chan, sent>>
    BY <1>2 DEF Remove
  <2> QED
    BY <2>1 DEF Members, Due, Owed, Elements
<1>3. CASE RemoveStep(s)
  <2>1. inbox' = inbox /\ sent' = sent /\ chan' = chan
    BY <1>3 DEF RemoveStep, RemoveLocked, SelectRemove
  <2>2. /\ Elements(sendCases') = Elements(sendCases) \ {s}
        /\ First(sendCases', active') = First(sendCases, active) \ {s}
        /\ s \in Elements(sendCases)
    BY <1>3, RemoveFacts
  <2>3. Owed' = Owed \ {s}
    BY <2>2 DEF Owed, First
  <2>4. Elements(inbox') = Elements(inbox) /\ s \notin Elements(inbox)
    BY <2>1, <2>2 DEF Elements
  <2>5. Members' = Members \ {s}
    <3>1. Members' = Elements(inbox') \union Elements(sendCases')
      BY DEF Members, Elements
    <3> QED
      BY <2>2, <2>4, <3>1 DEF Members
  <2> QED
    BY <2>1, <2>2, <2>3, <2>5, UnsubscribeLeaves DEF Members
<1> QED
  BY <1>1, <1>2, <1>3

\* Adding the inbox publishes the next value to all the members.
LEMMA InboxPublishes ==
    ASSUME FeedIsCoherent, SendInbox
    PROVE  Promise!Publish
<1> USE MappingFacts, CoherentFacts, SubFacts
<1>1. active = 0 /\ sent' = sent + 1 /\ chan' = chan
  BY DEF SendInbox
<1>2. Owed = {}
  BY <1>1 DEF Owed
<1>3. /\ Elements(sendCases') = Elements(sendCases) \union Elements(inbox)
      /\ First(sendCases', active') = Elements(sendCases')
      /\ Elements(inbox') = {}
  BY InboxFacts
<1>4. Members' = Members
  <2>1. Members' = Elements(inbox') \union Elements(sendCases')
    BY DEF Members, Elements
  <2> QED
    BY <1>3, <2>1 DEF Members
<1>5. Owed' = Members
  BY <1>3 DEF Owed, First, Members
<1>6. \A s \in Members : Due[s] = sent + 1
  BY <1>2
<1>7. Due' = [s \in Subs |-> IF s \in Members THEN Due[s] ELSE sent' + 1]
  BY <1>1, <1>5, <1>6 DEF Due
<1> QED
  BY <1>1, <1>4, <1>6, <1>7 DEF Promise!Publish, Members, Due

\* Serving a case delivers the value to its channel.
LEMMA ServeDelivers ==
    ASSUME FeedIsCoherent, NEW index \in 1 .. active, Serve(index),
           inbox' = inbox, sent' = sent, NEW s, s = sendCases[index]
    PROVE  Promise!Deliver(s)
<1>1. /\ Elements(sendCases') = Elements(sendCases)
      /\ First(sendCases', active') = First(sendCases, active) \ {s}
      /\ s \in First(sendCases, active)
      /\ s \in Subs
      /\ chan' = [chan EXCEPT ![s] = Append(@, sent)]
  BY ServeFacts
<1>2. Len(chan[s]) < capacity
  BY DEF Serve
<1>3. s \in Owed /\ Owed' = Owed \ {s}
  BY <1>1 DEF Owed, First
<1>4. Members' = Members
  <2>1. Members' = Elements(inbox') \union Elements(sendCases')
        /\ Elements(inbox') = Elements(inbox)
    BY DEF Members, Elements
  <2> QED
    BY <1>1, <2>1 DEF Members
<1>5. s \in Members /\ Due[s] = sent
  BY <1>1, <1>3, MappingFacts
<1>6. Due' = [Due EXCEPT ![s] = @ + 1]
  BY <1>1, <1>3, <1>5 DEF Due
<1> QED
  BY <1>1, <1>2, <1>4, <1>5, <1>6 DEF Promise!Deliver, Members, Due

\* A new feed has no members.
LEMMA InitImplements == Init => Promise!Init
<1> SUFFICES ASSUME Init
             PROVE  Promise!Init
  OBVIOUS
<1>1. Elements(inbox) \union Elements(sendCases) = {} /\ Owed = {}
  BY DEF Init, Elements, Owed
<1>2. sent = 0 /\ chan = [s \in Subs |-> <<>>]
  BY DEF Init
<1> QED
  BY <1>1, <1>2 DEF Promise!Init

\* Every step of the feed is a step that Broadcast allows, or none that a user
\* of the feed can see.
LEMMA StepImplements ==
    FeedIsCoherent /\ [Next]_vars => [Promise!Next]_(Promise!vars)
<1> SUFFICES ASSUME FeedIsCoherent, [Next]_vars
             PROVE  Promise!Next \/ UNCHANGED <<Members, Due, sent, chan>>
  BY DEF Promise!vars, Members, Due
<1>1. CASE UNCHANGED <<inbox, sendCases, active, chan, sent>>
  BY <1>1 DEF Members, Due, Owed, Elements
<1>2. ASSUME NEW s \in Subs, Subscribe(s) \/ Remove(s) \/ RemoveStep(s) \/ Receive(s)
      PROVE  Promise!Next \/ UNCHANGED <<Members, Due, sent, chan>>
  <2>1. CASE Subscribe(s)
    BY <2>1, SubscribeJoins DEF Promise!Next
  <2>2. CASE Remove(s) \/ RemoveStep(s)
    BY <2>2, RemoveLeaves DEF Promise!Next
  <2>3. CASE Receive(s)
    <3>1. chan[s] # <<>> /\ chan' = [chan EXCEPT ![s] = Tail(@)]
          /\ UNCHANGED <<inbox, sendCases, active, sent>>
      BY <2>3 DEF Receive
    <3>2. UNCHANGED <<Members, Due, sent>>
      BY <3>1 DEF Members, Due, Owed, Elements
    <3>3. Promise!Receive(s)
      BY <3>1, <3>2 DEF Promise!Receive, Members, Due
    <3> QED
      BY <3>3 DEF Promise!Next
  <2> QED
    BY <1>2, <2>1, <2>2, <2>3
<1>3. ASSUME NEW index \in 1 .. active, Serve(index), inbox' = inbox, sent' = sent
      PROVE  Promise!Next
  <2>1. PICK s \in Subs : s = sendCases[index]
    BY <1>3, ServeFacts
  <2>2. Promise!Deliver(s)
    BY <1>3, <2>1, ServeDelivers
  <2> QED
    BY <2>2 DEF Promise!Next
<1>4. CASE SendInbox
  BY <1>4, InboxPublishes DEF Promise!Next
<1>5. CASE TrySend
  <2>1. inbox' = inbox /\ sent' = sent /\ pos \in 1 .. active
    BY <1>5, SubFacts, CoherentFacts DEF TrySend
  <2>2. Serve(pos) \/ UNCHANGED <<chan, sendCases, active>>
    BY <1>5 DEF TrySend
  <2> QED
    BY <1>1, <1>3, <2>1, <2>2
<1>6. CASE \E index \in 1 .. active : SelectSend(index)
  BY <1>3, <1>6 DEF SelectSend
<1>7. CASE SendReturn \/ SendBlock \/ \E p \in Senders : SendLock(p) \/ CallSend(p)
  BY <1>1, <1>7 DEF SendReturn, SendBlock, SendLock, CallSend
<1>8. CASE UNCHANGED vars
  BY <1>1, <1>8 DEF vars
<1> QED
  BY <1>2, <1>4, <1>5, <1>6, <1>7, <1>8 DEF Next, SendStep

\* The feed implements Broadcast: every member gets every value once and in the
\* order of sending, and nobody gets one after Unsubscribe has returned.
THEOREM FeedImplementsBroadcast == Spec => ImplementsBroadcast
<1>1. Init => Promise!Init
  BY InitImplements
<1>2. FeedIsCoherent /\ [Next]_vars => [Promise!Next]_(Promise!vars)
  BY StepImplements
<1>3. Spec => []FeedIsCoherent
  BY FeedStaysCoherent
<1> QED
  BY <1>1, <1>2, <1>3, PTL DEF Spec, ImplementsBroadcast, Promise!Spec
-----------------------------------------------------------------------------
\* The channels of Broadcast stay in order, whatever it does.
LEMMA PromiseKeepsOrder ==
    ASSUME FeedIsCoherent, ValuesInOrder, Promise!Next
    PROVE  ValuesInOrder'
<1> DEFINE Run(q) == \A k \in 1 .. Len(q) - 1 : q[k + 1] = q[k] + 1
<1>1. /\ chan \in [Subs -> Seq(Nat)] /\ sent \in Nat
      /\ \A s \in Subs : Run(chan[s])
      /\ \A s \in Subs : s \in Members /\ chan[s] # <<>> =>
                           chan[s][Len(chan[s])] = Due[s] - 1
      /\ DOMAIN Due = Subs
      /\ \A s \in Subs : Due[s] \in Int
  BY SubFacts, MappingFacts DEF ValuesInOrder, Promise!InOrder, Members, Due
<1> SUFFICES ASSUME NEW t \in Subs
             PROVE  /\ Run(chan'[t])
                    /\ t \in Members' /\ chan'[t] # <<>> =>
                          chan'[t][Len(chan'[t])] = Due'[t] - 1
  BY DEF ValuesInOrder, Promise!InOrder, Members, Due
<1>2. ASSUME NEW s \in Subs, Promise!Join(s) \/ Promise!Leave(s)
      PROVE  /\ Run(chan'[t])
             /\ t \in Members' /\ chan'[t] # <<>> =>
                   chan'[t][Len(chan'[t])] = Due'[t] - 1
  <2>1. /\ chan' = chan /\ Due' = [Due EXCEPT ![s] = sent + 1]
        /\ s \in Members' => chan[s] = <<>>
        /\ \A u \in Subs \ {s} : u \in Members' => u \in Members
    BY <1>2 DEF Promise!Join, Promise!Leave, Members, Due
  <2> QED
    BY <1>1, <2>1
<1>3. CASE Promise!Publish
  <2>1. /\ chan' = chan /\ Members' = Members
        /\ \A u \in Members : u \in Subs => Due'[u] = Due[u]
    BY <1>3 DEF Promise!Publish, Members, Due
  <2> QED
    BY <1>1, <2>1
<1>4. ASSUME NEW s \in Subs, Promise!Deliver(s)
      PROVE  /\ Run(chan'[t])
             /\ t \in Members' /\ chan'[t] # <<>> =>
                   chan'[t][Len(chan'[t])] = Due'[t] - 1
  <2>1. /\ s \in Members /\ Due[s] = sent /\ Members' = Members
        /\ Due' = [Due EXCEPT ![s] = @ + 1]
        /\ chan' = [chan EXCEPT ![s] = Append(@, sent)]
    BY <1>4 DEF Promise!Deliver, Members, Due
  <2>2. CASE t # s
    BY <1>1, <2>1, <2>2
  <2>3. CASE t = s
    <3> DEFINE q == chan[s]
    <3>1. /\ q \in Seq(Nat) /\ Run(q) /\ Len(q) \in Nat
          /\ q # <<>> => q[Len(q)] = sent - 1
      BY <1>1, <2>1
    <3>2. chan'[t] = Append(q, sent) /\ Due'[t] = sent + 1
      BY <1>1, <2>1, <2>3
    <3> HIDE DEF q
    <3>3. /\ Len(Append(q, sent)) = Len(q) + 1
          /\ \A k \in 1 .. Len(q) : Append(q, sent)[k] = q[k]
          /\ Append(q, sent)[Len(q) + 1] = sent
      BY <1>1, <3>1
    <3>4. Run(Append(q, sent))
      <4> SUFFICES ASSUME NEW k \in 1 .. Len(q)
                   PROVE  Append(q, sent)[k + 1] = Append(q, sent)[k] + 1
        BY <3>1, <3>3
      <4>1. CASE k = Len(q)
        <5>1. q # <<>>
          BY <3>1, <4>1
        <5> QED
          BY <1>1, <3>1, <3>3, <4>1, <5>1
      <4>2. CASE k # Len(q)
        <5>1. k \in 1 .. Len(q) - 1 /\ k + 1 \in 1 .. Len(q)
          BY <3>1, <4>2
        <5> QED
          BY <3>1, <3>3, <5>1
      <4> QED
        BY <4>1, <4>2
    <3>5. chan'[t][Len(chan'[t])] = Due'[t] - 1
      BY <1>1, <3>1, <3>2, <3>3
    <3> QED
      BY <3>2, <3>4, <3>5
  <2> QED
    BY <2>2, <2>3
<1>5. ASSUME NEW s \in Subs, Promise!Receive(s)
      PROVE  /\ Run(chan'[t])
             /\ t \in Members' /\ chan'[t] # <<>> =>
                   chan'[t][Len(chan'[t])] = Due'[t] - 1
  <2>1. /\ chan[s] # <<>> /\ Members' = Members /\ Due' = Due
        /\ chan' = [chan EXCEPT ![s] = Tail(@)]
    BY <1>5 DEF Promise!Receive, Members, Due
  <2>2. CASE t # s
    BY <1>1, <2>1, <2>2
  <2>3. CASE t = s
    <3> DEFINE q == chan[s]
    <3>1. q \in Seq(Nat) /\ q # <<>> /\ Run(q) /\ Len(q) \in Nat \ {0}
      BY <1>1, <2>1
    <3>2. chan'[t] = Tail(q)
      BY <1>1, <2>1, <2>3
    <3>3. s \in Members => q[Len(q)] = Due[s] - 1
      BY <1>1, <2>1
    <3> HIDE DEF q
    <3>4. /\ Len(Tail(q)) = Len(q) - 1
          /\ \A k \in 1 .. Len(q) - 1 : Tail(q)[k] = q[k + 1]
      BY <3>1
    <3>5. Run(Tail(q))
      BY <3>1, <3>4
    <3>6. Tail(q) # <<>> => Len(Tail(q)) \in 1 .. Len(q) - 1
      BY <3>1, <3>4
    <3>7. Tail(q) # <<>> => Tail(q)[Len(Tail(q))] = q[Len(q)]
      BY <3>1, <3>4, <3>6
    <3> QED
      BY <2>1, <2>3, <3>2, <3>3, <3>5, <3>7
  <2> QED
    BY <2>2, <2>3
<1> QED
  BY <1>2, <1>3, <1>4, <1>5 DEF Promise!Next

\* What a subscriber finds in its channel is a run of consecutive values.
THEOREM FeedKeepsOrder == Spec => []ValuesInOrder
<1>1. Init => ValuesInOrder
  <2>1. Init => \A s \in Subs : chan[s] = <<>>
    BY DEF Init
  <2>2. 1 .. Len(<<>>) - 1 = {}
    OBVIOUS
  <2> QED
    BY <2>1, <2>2, Zenon DEF ValuesInOrder, Promise!InOrder
<1>2. FeedIsCoherent /\ ValuesInOrder /\ [Next]_vars => ValuesInOrder'
  <2> SUFFICES ASSUME FeedIsCoherent, ValuesInOrder, [Next]_vars
               PROVE  ValuesInOrder'
    OBVIOUS
  <2>1. CASE Promise!Next
    BY <2>1, PromiseKeepsOrder
  <2>2. CASE UNCHANGED Promise!vars
    BY <2>2 DEF Promise!vars, ValuesInOrder, Promise!InOrder
  <2> QED
    BY <2>1, <2>2, StepImplements
<1>3. Spec => []FeedIsCoherent
  BY FeedStaysCoherent
<1> QED
  BY <1>1, <1>2, <1>3, PTL DEF Spec
=============================================================================
