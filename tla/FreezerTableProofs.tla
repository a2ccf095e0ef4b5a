------------------------- MODULE FreezerTableProofs -------------------------
(***************************************************************************)
(* Proofs about module FreezerTable, for every set of blobs, file size,    *)
(* number of items, of data files and of faults: until the table is        *)
(* damaged, the index, the data files and the counters stay consistent,    *)
(* and the files implement the abstract table of module AncientTable.      *)
(***************************************************************************)
EXTENDS FreezerTable, SequenceTheorems, TLAPS

USE ZenonT(2), SMTT(120), ZenonT(60)

\* A consistent table that is not damaged.
Sound ==
    /\ TypeOK
    /\ HeadIsLastEntry
    /\ EntriesAreOrdered
    /\ EveryItemIsReadable
    /\ DiskCoversDurable

\* A new table is consistent.
LEMMA InitIsSound == Init => Sound
<1> SUFFICES ASSUME Init PROVE Sound
  OBVIOUS
<1> USE TableAssumption DEF Init, Files, Entry, ZeroEntry
<1>1. /\ Len(index) = 1
      /\ index[1] = [file |-> 0, offset |-> 0]
      /\ index \in Seq(Entry)
  OBVIOUS
<1>2. TypeOK
  <2>1. damaged \in BOOLEAN
    OBVIOUS
  <2>2. /\ data \in [Files -> Seq(Nat)]
        /\ dataSynced \in [Files -> Nat] /\ dataClosed \in [Files -> Nat]
    BY SMT
  <2>3. /\ items \in 0 .. MaxItems /\ Len(index) \in 1 .. items + 1
        /\ headId \in Files /\ headBytes \in Nat
        /\ indexSynced \in Nat /\ durable \in Nat /\ leftover \in Nat
        /\ faults \in Nat
    BY <1>1, SMT
  <2> QED
    BY <1>1, <2>1, <2>2, <2>3, Zenon DEF TypeOK
<1>3. HeadIsLastEntry
  BY <1>1 DEF HeadIsLastEntry
<1>4. EntriesAreOrdered
  BY <1>1 DEF EntriesAreOrdered
<1>5. EveryItemIsReadable
  BY <1>1 DEF EveryItemIsReadable
<1>6. DiskCoversDurable
  BY <1>1 DEF DiskCoversDurable
<1> QED
  BY <1>2, <1>3, <1>4, <1>5, <1>6 DEF Sound

\* What a blob is, and what appending it to a file's content gives.
LEMMA BlobFacts ==
    ASSUME NEW blob \in Blobs, NEW content \in Seq(Nat)
    PROVE  /\ blob \in Seq(Nat)
           /\ Len(blob) \in Nat
           /\ content \o blob \in Seq(Nat)
           /\ Len(content \o blob) = Len(content) + Len(blob)
           /\ \A p \in 1 .. Len(content) : (content \o blob)[p] = content[p]
           /\ \A p \in 1 .. Len(blob) :
                (content \o blob)[Len(content) + p] = blob[p]
  BY TableAssumption

\* Appending to the index keeps its entries.
LEMMA AppendToIndex ==
    ASSUME NEW s \in Seq(Entry), NEW e \in Entry
    PROVE  /\ Append(s, e) \in Seq(Entry)
           /\ Len(Append(s, e)) = Len(s) + 1
           /\ \A i \in 1 .. Len(s) : Append(s, e)[i] = s[i]
           /\ Append(s, e)[Len(s) + 1] = e
  OBVIOUS

\* The first bytes of a file.
LEMMA PrefixFacts ==
    ASSUME NEW S, NEW s \in Seq(S), NEW n \in 0 .. Len(s)
    PROVE  /\ SubSeq(s, 1, n) \in Seq(S)
           /\ Len(SubSeq(s, 1, n)) = n
           /\ \A i \in 1 .. n : SubSeq(s, 1, n)[i] = s[i]
  OBVIOUS

\* The number that marshallBinary writes is one of a data file, and the number
\* it is given if that fits.
LEMMA WrittenNumber ==
    ASSUME NEW head \in Files, NEW bytes \in Nat
    PROVE  /\ marshallBinary(head, bytes) \in Entry
           /\ head < FileNumbers => marshallBinary(head, bytes).file = head
           /\ marshallBinary(head, bytes).offset = bytes
<1>1. head \in Nat /\ FileNumbers \in Nat \ {0}
  BY TableAssumption DEF Files
<1>2. head % FileNumbers \in Nat /\ head % FileNumbers < FileNumbers
  BY <1>1
<1>3. head % FileNumbers <= head
  BY <1>1
<1>4. head < FileNumbers => head % FileNumbers = head
  BY <1>1
<1>5. head % FileNumbers \in {f \in Files : f < FileNumbers}
  BY <1>1, <1>2, <1>3, TableAssumption DEF Files
<1> QED
  BY <1>4, <1>5 DEF marshallBinary, Entry

\* A file that is resized still holds what it should.
LEMMA ResizedFacts ==
    ASSUME NEW S, NEW file \in Seq(S), NEW n \in Nat, NEW zero \in S
    PROVE  /\ Resized(file, n, zero) \in Seq(S)
           /\ Len(Resized(file, n, zero)) = n
           /\ n <= Len(file) => Resized(file, n, zero) = SubSeq(file, 1, n)
<1>1. \A i \in 1 .. n : (IF i <= Len(file) THEN file[i] ELSE zero) \in S
  OBVIOUS
<1>2. Resized(file, n, zero) \in [1 .. n -> S]
  BY <1>1 DEF Resized
<1>3. ASSUME n <= Len(file)
      PROVE  Resized(file, n, zero) = SubSeq(file, 1, n)
  <2>1. SubSeq(file, 1, n) = [i \in 1 .. n |-> file[i]]
    BY <1>3
  <2>2. \A i \in 1 .. n : i <= Len(file)
    BY <1>3
  <2> QED
    BY <2>1, <2>2 DEF Resized
<1> QED
  BY <1>2, <1>3

\* The end of append keeps the types, whatever fails.
LEMMA WriteKeepsTypes ==
    ASSUME TypeOK, NEW blob \in Blobs, NEW head \in Files,
           NEW content \in Seq(Nat), NEW bytes \in Nat, NEW left \in Nat,
           items < MaxItems, Write(blob, head, content, bytes, left),
           dataSynced' \in [Files -> Nat], dataClosed' \in [Files -> Nat]
    PROVE  TypeOK'
<1> USE TableAssumption
<1>1. /\ blob \in Seq(Nat) /\ Len(blob) \in Nat /\ content \o blob \in Seq(Nat)
      /\ items \in Nat /\ faults \in Nat /\ damaged \in BOOLEAN
      /\ index \in Seq(Entry) /\ data \in [Files -> Seq(Nat)]
      /\ Len(index) \in 1 .. items + 1
  BY BlobFacts DEF TypeOK
<1>2. headId' \in Files /\ indexSynced' \in Nat /\ durable' \in Nat
  BY DEF Write, TypeOK
<1>3. CASE WriteBoth(blob, head, content, bytes, left)
  <2>1. data' \in [Files -> Seq(Nat)]
    BY <1>1, <1>3 DEF WriteBoth
  <2>2. index' \in Seq(Entry) /\ Len(index') = Len(index) + 1
    <3>1. marshallBinary(head, bytes + Len(blob)) \in Entry
      BY <1>1, WrittenNumber
    <3> QED
      BY <3>1, <1>1, <1>3, AppendToIndex DEF WriteBoth
  <2>3. items' \in 0 .. MaxItems /\ headBytes' \in Nat /\ leftover' \in Nat
        /\ faults' \in Nat /\ Len(index') \in 1 .. items' + 1
    BY <2>2, <1>1, <1>3 DEF WriteBoth
  <2>4. damaged' \in BOOLEAN
    BY <1>3 DEF WriteBoth
  <2> QED
    BY <2>1, <2>2, <2>3, <2>4, <1>2 DEF TypeOK
<1>4. CASE WriteFails(blob, head, content, bytes, left)
  <2>1. PICK n \in 0 .. Len(blob) - 1 :
          /\ data' = [data EXCEPT ![head] = content \o SubSeq(blob, 1, n)]
          /\ leftover' = left + n
    BY <1>4 DEF WriteFails
  <2>2. SubSeq(blob, 1, n) \in Seq(Nat) /\ n \in Nat
    BY <1>1
  <2>3. content \o SubSeq(blob, 1, n) \in Seq(Nat)
    BY <2>2
  <2>4. data' \in [Files -> Seq(Nat)] /\ leftover' \in Nat
    BY <2>1, <2>2, <2>3, <1>1
  <2>5. /\ headBytes' \in Nat /\ faults' \in Nat /\ damaged' \in BOOLEAN
        /\ index' \in Seq(Entry) /\ items' \in 0 .. MaxItems
        /\ Len(index') \in 1 .. items' + 1
    BY <1>1, <1>4 DEF WriteFails, TypeOK
  <2> QED
    BY <2>4, <2>5, <1>2 DEF TypeOK
<1>5. CASE EntryFails(blob, head, content, bytes, left)
  <2>1. data' \in [Files -> Seq(Nat)]
    BY <1>1, <1>5 DEF EntryFails
  <2>2. items' \in 0 .. MaxItems /\ headBytes' \in Nat /\ leftover' \in Nat
        /\ faults' \in Nat /\ index' \in Seq(Entry)
        /\ Len(index') \in 1 .. items' + 1
    BY <1>1, <1>5 DEF EntryFails
  <2>3. damaged' \in BOOLEAN
    BY <1>5 DEF EntryFails
  <2> QED
    BY <2>1, <2>2, <2>3, <1>2 DEF TypeOK
<1> QED
  BY <1>3, <1>4, <1>5 DEF Write

\* Of lengths of the files, those that stay at a cut are lengths too.
LEMMA LengthsAtFacts ==
    ASSUME NEW lengths \in [Files -> Nat], NEW last \in Entry
    PROVE  /\ LengthsAt(lengths, last) \in [Files -> Nat]
           /\ \A f \in Files :
                /\ f < last.file => LengthsAt(lengths, last)[f] = lengths[f]
                /\ f = last.file => LengthsAt(lengths, last)[f]
                                      = Smaller(lengths[f], last.offset)
                /\ f > last.file => LengthsAt(lengths, last)[f] = 0
<1>1. last.file \in Nat /\ last.offset \in Nat /\ \A f \in Files : f \in Nat
  BY DEF Entry, Files
<1>2. ASSUME NEW f \in Files
      PROVE  (IF f < last.file THEN lengths[f]
              ELSE IF f = last.file THEN Smaller(lengths[f], last.offset)
                   ELSE 0) \in Nat
  BY <1>1 DEF Smaller
<1> QED
  BY <1>1, <1>2 DEF LengthsAt

\* truncate keeps the types, also when it makes a file longer.
LEMMA TruncateKeepsTypes ==
    ASSUME TypeOK, NEW n \in Nat, Truncate(n)
    PROVE  /\ TypeOK'
           /\ index'[n + 1] \in Entry
<1> USE TableAssumption
<1> DEFINE last == index'[n + 1]
<1>1. /\ index \in Seq(Entry) /\ data \in [Files -> Seq(Nat)]
      /\ dataSynced \in [Files -> Nat] /\ dataClosed \in [Files -> Nat]
      /\ indexSynced \in Nat /\ durable \in Nat
      /\ items \in 0 .. MaxItems
  BY DEF TypeOK
<1>2. /\ n < items
      /\ index' = Resized(index, n + 1, ZeroEntry)
      /\ data' = [f \in Files |->
                     IF f < last.file THEN data[f]
                     ELSE IF f = last.file
                          THEN Resized(data[f], last.offset, 0)
                          ELSE <<>>]
      /\ dataSynced' = LengthsAt(dataSynced, last)
      /\ dataClosed' = LengthsAt(dataClosed, last)
      /\ headId' = last.file /\ headBytes' = last.offset
      /\ items' = n
      /\ indexSynced' = Smaller(indexSynced, n + 1)
      /\ durable' = Smaller(durable, n)
      /\ leftover' = 0 /\ damaged' = damaged /\ faults' = faults
  BY DEF Truncate
<1>3. ZeroEntry \in Entry
  BY DEF ZeroEntry, Entry, Files
<1>4. index' \in Seq(Entry) /\ Len(index') = n + 1
  BY <1>1, <1>2, <1>3, ResizedFacts
<1>5. last \in Entry
  BY <1>4
<1>6. last.file \in Files /\ last.offset \in Nat
  BY <1>5 DEF Entry
<1> HIDE DEF last
<1>7. ASSUME NEW f \in Files
      PROVE  (IF f < last.file THEN data[f]
              ELSE IF f = last.file THEN Resized(data[f], last.offset, 0)
                   ELSE <<>>) \in Seq(Nat)
  <2>1. data[f] \in Seq(Nat)
    BY <1>1
  <2>2. Resized(data[f], last.offset, 0) \in Seq(Nat)
    BY <2>1, <1>6, ResizedFacts
  <2> QED
    BY <2>1, <2>2
<1>8. data' \in [Files -> Seq(Nat)]
  BY <1>2, <1>7
<1>9. dataSynced' \in [Files -> Nat] /\ dataClosed' \in [Files -> Nat]
  BY <1>1, <1>2, <1>5, LengthsAtFacts
<1>10. /\ items' \in 0 .. MaxItems /\ indexSynced' \in Nat /\ durable' \in Nat
       /\ leftover' \in Nat /\ headId' \in Files /\ headBytes' \in Nat
       /\ Len(index') \in 1 .. items' + 1
  BY <1>1, <1>2, <1>4, <1>6 DEF Smaller
<1>11. faults' \in Nat /\ damaged' \in BOOLEAN
  BY <1>2 DEF TypeOK
<1> QED
  BY <1>4, <1>5, <1>8, <1>9, <1>10, <1>11 DEF TypeOK, last

\* What a crash leaves of the data files: the files' lengths, none below what
\* was synced.
LEMMA SurvivingFacts ==
    ASSUME TypeOK,
           NEW part \in [Unsynced -> UNION {Surviving(f) : f \in Unsynced}],
           \A f \in Unsynced : part[f] \in Surviving(f)
    PROVE  /\ LengthsAfter(part) \in [Files -> Nat]
           /\ \A f \in Files : LengthsAfter(part)[f] <= Len(data[f])
           /\ \A f \in Files \ Unsynced : LengthsAfter(part)[f] = Len(data[f])
<1>1. ASSUME NEW f \in Files
      PROVE  /\ LengthsAfter(part)[f] \in Nat
             /\ LengthsAfter(part)[f] <= Len(data[f])
             /\ f \notin Unsynced => LengthsAfter(part)[f] = Len(data[f])
  <2>1. dataSynced[f] \in Nat /\ Len(data[f]) \in Nat
    BY DEF TypeOK
  <2>2. CASE f \in Unsynced
    BY <2>1, <2>2 DEF LengthsAfter, Surviving
  <2>3. CASE f \notin Unsynced
    BY <2>1, <2>3 DEF LengthsAfter
  <2> QED
    BY <2>2, <2>3
<1> QED
  BY <1>1 DEF LengthsAfter

\* A crash and the repair after it keep the types.
LEMMA CrashKeepsTypes ==
    ASSUME TypeOK, Crash
    PROVE  TypeOK'
<1> USE TableAssumption
<1>1. PICK m \in indexSynced .. Len(index),
           part \in [Unsynced -> UNION {Surviving(f) : f \in Unsynced}] :
        /\ \A f \in Unsynced : part[f] \in Surviving(f)
        /\ Repair(m, LengthsAfter(part))
        /\ damaged' = (damaged \/ \E f \in Unsynced : part[f] < dataClosed[f])
  BY DEF Crash
<1> DEFINE len == LengthsAfter(part)
<1>2. /\ len \in [Files -> Nat]
      /\ \A f \in Files : len[f] <= Len(data[f])
  BY <1>1, SurvivingFacts
<1> HIDE DEF len
<1>3. PICK k \in 1 .. m :
        /\ PointsWithin(k, len)
        /\ index' = SubSeq(index, 1, k)
        /\ data' = [f \in Files |->
                      SubSeq(data[f], 1,
                             [len EXCEPT ![index[k].file] = index[k].offset][f])]
        /\ dataSynced' = [len EXCEPT ![index[k].file] = index[k].offset]
        /\ dataClosed' = [len EXCEPT ![index[k].file] = index[k].offset]
        /\ headId' = index[k].file
        /\ headBytes' = index[k].offset
        /\ items' = k - 1
        /\ indexSynced' = k
        /\ durable' = k - 1
        /\ leftover' = 0
  BY <1>1 DEF Repair, len
<1>4. /\ index \in Seq(Entry) /\ data \in [Files -> Seq(Nat)]
      /\ indexSynced \in Nat /\ faults \in Nat
      /\ items \in 0 .. MaxItems /\ Len(index) \in 1 .. items + 1
  BY DEF TypeOK
<1>5. k \in Nat /\ k \in 1 .. Len(index)
  BY <1>3, <1>4
<1> DEFINE last == index[k]
           kept == [len EXCEPT ![last.file] = last.offset]
<1>6. last \in Entry
  BY <1>4, <1>5
<1>7. last.file \in Files /\ last.offset \in Nat
  BY <1>6 DEF Entry
<1>8. last.offset <= len[last.file]
  BY <1>3 DEF PointsWithin
<1> HIDE DEF last
<1>9. /\ kept \in [Files -> Nat]
      /\ \A f \in Files : kept[f] <= len[f]
  BY <1>2, <1>7, <1>8
<1> HIDE DEF kept
<1>10. ASSUME NEW f \in Files PROVE SubSeq(data[f], 1, kept[f]) \in Seq(Nat)
  <2>1. data[f] \in Seq(Nat) /\ kept[f] \in Nat /\ len[f] \in Nat
        /\ kept[f] <= len[f] /\ len[f] <= Len(data[f]) /\ Len(data[f]) \in Nat
    BY <1>2, <1>4, <1>9
  <2>2. kept[f] \in 0 .. Len(data[f])
    BY <2>1
  <2> QED
    BY <2>1, <2>2, PrefixFacts
<1>11. /\ data' = [f \in Files |-> SubSeq(data[f], 1, kept[f])]
       /\ dataSynced' = kept /\ dataClosed' = kept
       /\ headId' = last.file /\ headBytes' = last.offset
  BY <1>3 DEF kept, last
<1>12. data' \in [Files -> Seq(Nat)]
  BY <1>10, <1>11
<1>13. index' \in Seq(Entry) /\ Len(index') = k
  BY <1>3, <1>4, <1>5, PrefixFacts
<1>14. /\ items' \in 0 .. MaxItems /\ Len(index') \in 1 .. items' + 1
       /\ indexSynced' \in Nat /\ durable' \in Nat /\ leftover' \in Nat
  BY <1>3, <1>4, <1>5, <1>13
<1>15. faults' \in Nat
  BY <1>4 DEF Crash
<1>16. damaged' \in BOOLEAN
  BY <1>1
<1> QED
  BY <1>7, <1>9, <1>11, <1>12, <1>13, <1>14, <1>15, <1>16 DEF TypeOK

\* The bytes that append closes a file with, and those of the next one.
LEMMA NextHeadTypes ==
    ASSUME TypeOK, NEW blob \in Blobs, AppendNext(blob)
    PROVE  /\ headId \in Nat /\ headId + 1 \in Files /\ items < MaxItems
           /\ Write(blob, headId + 1, <<>>, 0, 0)
           /\ dataSynced' \in [Files -> Nat]
           /\ dataClosed' \in [Files -> Nat]
           /\ dataClosed'[headId + 1] = 0
           /\ dataClosed'[headId] = Len(data[headId])
           /\ \A f \in Files : f # headId + 1 /\ f # headId =>
                                   dataClosed'[f] = dataClosed[f]
<1> USE TableAssumption
<1>1. /\ headId < MaxFiles /\ items < MaxItems
      /\ Write(blob, headId + 1, <<>>, 0, 0)
      /\ dataSynced' = [dataSynced EXCEPT ![headId + 1] = 0]
      /\ dataClosed' = [dataClosed EXCEPT ![headId + 1] = 0,
                                          ![headId] = Len(data[headId])]
  BY DEF AppendNext
<1>2. /\ headId \in Files /\ Len(data[headId]) \in Nat
      /\ dataSynced \in [Files -> Nat] /\ dataClosed \in [Files -> Nat]
  BY DEF TypeOK
<1>3. headId \in Nat /\ headId + 1 \in Files /\ headId + 1 # headId
  BY <1>1, <1>2 DEF Files
<1> QED
  BY <1>1, <1>2, <1>3

\* Every step keeps the types.
LEMMA StepKeepsTypes ==
    ASSUME TypeOK, [Next]_vars
    PROVE  TypeOK'
<1> USE TableAssumption
<1>1. ASSUME NEW blob \in Blobs, AppendHere(blob)
      PROVE  TypeOK'
  <2>1. /\ Write(blob, headId, data[headId], headBytes, leftover)
        /\ items < MaxItems
        /\ dataSynced' = dataSynced /\ dataClosed' = dataClosed
    BY <1>1 DEF AppendHere
  <2>2. /\ headId \in Files /\ data[headId] \in Seq(Nat)
        /\ headBytes \in Nat /\ leftover \in Nat
        /\ dataSynced' \in [Files -> Nat] /\ dataClosed' \in [Files -> Nat]
    BY <2>1 DEF TypeOK
  <2> QED
    BY <2>1, <2>2, WriteKeepsTypes
<1>2. ASSUME NEW blob \in Blobs, AppendNext(blob)
      PROVE  TypeOK'
  <2>1. /\ headId + 1 \in Files /\ items < MaxItems
        /\ Write(blob, headId + 1, <<>>, 0, 0)
        /\ dataSynced' \in [Files -> Nat] /\ dataClosed' \in [Files -> Nat]
    BY <1>2, NextHeadTypes
  <2>2. <<>> \in Seq(Nat) /\ 0 \in Nat
    OBVIOUS
  <2> QED
    BY <2>1, <2>2, WriteKeepsTypes
<1>3. ASSUME NEW n \in 0 .. MaxItems, Truncate(n)
      PROVE  TypeOK'
  BY <1>3, TruncateKeepsTypes
<1>4. CASE Sync
  <2>1. /\ headId \in Files /\ Len(data[headId]) \in Nat /\ Len(index) \in Nat
        /\ dataSynced \in [Files -> Nat] /\ dataClosed \in [Files -> Nat]
        /\ items \in Nat
    BY DEF TypeOK
  <2>2. dataSynced' \in [Files -> Nat] /\ dataClosed' \in [Files -> Nat]
        /\ indexSynced' \in Nat /\ durable' \in Nat
    BY <1>4, <2>1 DEF Sync
  <2> QED
    BY <1>4, <2>2 DEF Sync, TypeOK
<1>5. CASE Crash
  BY <1>5, CrashKeepsTypes
<1>6. CASE UNCHANGED vars
  BY <1>6 DEF vars, TypeOK
<1> QED
  BY <1>1, <1>2, <1>3, <1>4, <1>5, <1>6 DEF Next


\* The facts about the entries and the files that the proofs below use.
LEMMA TableFacts ==
    ASSUME TypeOK, HeadIsLastEntry, EntriesAreOrdered
    PROVE  /\ items \in Nat /\ Len(index) = items + 1
           /\ headId \in Nat /\ headId \in Files
           /\ \A f \in Files : data[f] \in Seq(Nat) /\ Len(data[f]) \in Nat
           /\ \A i \in 1 .. items + 1 : /\ index[i] \in Entry
                                       /\ index[i].file \in Nat
                                       /\ index[i].file \in Files
                                       /\ index[i].offset \in Nat
           /\ \A i \in 1 .. items + 1 :
                 \/ index[i].file < headId
                 \/ index[i].file = headId /\ index[i].offset <= headBytes
<1> USE TableAssumption
<1>1. items \in Nat /\ headId \in Nat /\ headId \in Files /\ items <= MaxItems
  BY DEF TypeOK, Files
<1>2. \A f \in Files : data[f] \in Seq(Nat) /\ Len(data[f]) \in Nat
  BY DEF TypeOK
<1>3. index \in Seq(Entry) /\ Len(index) = items + 1 /\ headBytes \in Nat
  BY DEF TypeOK, HeadIsLastEntry
<1>4. \A i \in 1 .. items + 1 : index[i] \in Entry
  BY <1>1, <1>3
<1>5. \A i \in 1 .. items + 1 : index[i].file \in Nat /\ index[i].offset \in Nat
  BY <1>4 DEF Entry, Files
<1>6. \A i \in 1 .. items + 1 : index[i].file \in Files
  BY <1>4 DEF Entry
<1>7. \/ index[items + 1].file = headId /\ index[items + 1].offset = headBytes
      \/ index[items + 1].file < headId
  BY DEF HeadIsLastEntry
<1>8. ASSUME NEW i \in 1 .. items + 1
      PROVE  \/ index[i].file < headId
             \/ index[i].file = headId /\ index[i].offset <= headBytes
  <2>1. CASE i = items + 1
    BY <2>1, <1>3, <1>5, <1>7
  <2>2. CASE i # items + 1
    <3>1. i < items + 1 /\ items + 1 \in 1 .. items + 1
      BY <2>2, <1>1
    <3>2. \/ index[i].file < index[items + 1].file
          \/ /\ index[i].file = index[items + 1].file
             /\ index[i].offset <= index[items + 1].offset
      BY <3>1 DEF EntriesAreOrdered
    <3>3. /\ index[i].file \in Nat /\ index[i].offset \in Nat
          /\ index[items + 1].file \in Nat /\ index[items + 1].offset \in Nat
      BY <3>1, <1>5
    <3> QED
      BY <3>2, <3>3, <1>1, <1>3, <1>7
  <2> QED
    BY <2>1, <2>2
<1> QED
  BY <1>1, <1>2, <1>3, <1>4, <1>5, <1>6, <1>7, <1>8

\* What both ways of appending a blob have in common when nothing fails: the
\* head file to be is h, and the blob lands behind content, which is all it
\* holds.
Appends(blob, h, content) ==
    /\ content \in Seq(Nat)
    /\ h \in Files /\ h \in Nat /\ h < FileNumbers
    /\ \/ h = headId /\ content = data[headId] /\ headBytes = Len(content)
       \/ h = headId + 1 /\ content = <<>>
    /\ data' = [data EXCEPT ![h] = content \o blob]
    /\ index' = Append(index, [file |-> h, offset |-> Len(content) + Len(blob)])
    /\ items' = items + 1
    /\ headId' = h /\ headBytes' = Len(content) + Len(blob)
    /\ indexSynced' = indexSynced /\ durable' = durable /\ leftover' = 0
    /\ \A f \in Files :
          /\ f < h => \/ dataClosed'[f] = dataClosed[f] /\ f # headId
                      \/ dataClosed'[f] = Len(data[f])
          /\ f > h => dataClosed'[f] = dataClosed[f]
    /\ dataClosed'[h] <= Len(content)
    /\ h = headId => dataClosed' = dataClosed

\* A number below the divisor.
LEMMA SmallRemainder ==
    ASSUME NEW a \in Nat, NEW b \in Nat \ {0}, a < b
    PROVE  a % b = a
  OBVIOUS

\* append is of that form, in the head file or in the next one.
LEMMA BothAppend ==
    ASSUME Sound, ~ damaged', NEW blob \in Blobs,
           NEW h \in Files, NEW content \in Seq(Nat), NEW bytes \in Nat,
           NEW left \in Nat,
           WriteBoth(blob, h, content, bytes, left),
           Write(blob, h, content, bytes, left),
           \/ /\ h = headId /\ content = data[headId] /\ bytes = headBytes
              /\ left = leftover /\ dataClosed' = dataClosed
           \/ /\ h = headId + 1 /\ content = <<>> /\ bytes = 0 /\ left = 0
              /\ AppendNext(blob)
    PROVE  Appends(blob, h, content)
<1> USE TableAssumption
<1>1. TypeOK /\ HeadIsLastEntry /\ EntriesAreOrdered /\ DiskCoversDurable
  BY DEF Sound
<1>2. /\ headId \in Nat /\ headId \in Files /\ data[headId] \in Seq(Nat)
      /\ Len(data[headId]) = headBytes + leftover /\ headBytes \in Nat
      /\ h \in Nat
  BY <1>1, TableFacts DEF HeadIsLastEntry, TypeOK, Files
<1>3. left = 0 /\ h < FileNumbers
  <2>1. ~ (left > 0) /\ ~ (h >= FileNumbers)
    BY Zenon DEF WriteBoth
  <2> QED
    BY <2>1, <1>2
<1>4. bytes = Len(content)
  BY <1>2, <1>3
<1>5. Len(blob) \in Nat
  BY BlobFacts
<1>6. marshallBinary(h, bytes + Len(blob))
        = [file |-> h, offset |-> Len(content) + Len(blob)]
  <2>1. h % FileNumbers = h
    BY <1>2, <1>3, SmallRemainder, Zenon
  <2> QED
    BY <2>1, <1>4 DEF marshallBinary
<1>7. /\ data' = [data EXCEPT ![h] = content \o blob]
      /\ index' = Append(index, [file |-> h, offset |-> Len(content) + Len(blob)])
      /\ items' = items + 1
      /\ headId' = h /\ headBytes' = Len(content) + Len(blob)
      /\ indexSynced' = indexSynced /\ durable' = durable /\ leftover' = 0
  BY <1>3, <1>4, <1>6 DEF WriteBoth, Write
<1>8. CASE h = headId /\ content = data[headId] /\ dataClosed' = dataClosed
  <2>1. /\ \A f \in Files : f < headId => f # headId
        /\ dataClosed[headId] <= Len(data[headId])
    BY <1>1, <1>2 DEF DiskCoversDurable, Files
  <2>2. headBytes = Len(content)
    BY <1>2, <1>3, <1>4, <1>8
  <2> QED
    BY <1>2, <1>3, <1>7, <1>8, <2>1, <2>2, Zenon DEF Appends
<1>9. CASE h = headId + 1 /\ content = <<>> /\ AppendNext(blob)
  <2>1. /\ dataClosed'[headId + 1] = 0
        /\ dataClosed'[headId] = Len(data[headId])
        /\ \A f \in Files : f # headId + 1 /\ f # headId =>
                               dataClosed'[f] = dataClosed[f]
    BY <1>1, <1>9, NextHeadTypes
  <2>2. ASSUME NEW f \in Files
        PROVE  /\ f < h => \/ dataClosed'[f] = dataClosed[f] /\ f # headId
                           \/ dataClosed'[f] = Len(data[f])
               /\ f > h => dataClosed'[f] = dataClosed[f]
    <3>1. f \in Nat
      BY DEF Files
    <3> QED
      BY <3>1, <2>1, <1>2, <1>9
  <2>3. dataClosed'[h] <= Len(content) /\ h # headId
    BY <2>1, <1>2, <1>9
  <2> QED
    BY <1>2, <1>3, <1>7, <1>9, <2>2, <2>3, Zenon DEF Appends
<1> QED
  BY <1>8, <1>9

\* append keeps the table consistent.
LEMMA AppendIsSound ==
    ASSUME Sound, TypeOK', NEW blob \in Blobs, NEW h, NEW content,
           Appends(blob, h, content)
    PROVE  Sound'
<1> DEFINE e == [file |-> h, offset |-> Len(content) + Len(blob)]
<1> USE TableAssumption
<1>1. /\ TypeOK /\ HeadIsLastEntry /\ EntriesAreOrdered
      /\ EveryItemIsReadable /\ DiskCoversDurable
  BY DEF Sound
<1>2. /\ data' = [data EXCEPT ![h] = content \o blob]
      /\ index' = Append(index, e)
      /\ items' = items + 1
      /\ headId' = h /\ headBytes' = Len(content) + Len(blob)
      /\ indexSynced' = indexSynced
      /\ durable' = durable /\ leftover' = 0
  BY DEF Appends
<1>3. /\ items \in Nat /\ Len(index) = items + 1
      /\ headId \in Nat /\ headId \in Files
      /\ \A f \in Files : data[f] \in Seq(Nat) /\ Len(data[f]) \in Nat
      /\ \A i \in 1 .. items + 1 : /\ index[i].file \in Nat
                                  /\ index[i].file \in Files
                                  /\ index[i].offset \in Nat
      /\ \A i \in 1 .. items + 1 :
            \/ index[i].file < headId
            \/ index[i].file = headId /\ index[i].offset <= headBytes
  BY <1>1, TableFacts
<1>4. /\ content \in Seq(Nat) /\ Len(content) \in Nat
      /\ h \in Files /\ h \in Nat /\ h < FileNumbers
      /\ \/ h = headId /\ content = data[headId] /\ headBytes = Len(content)
         \/ h = headId + 1
  BY DEF Appends
<1>5. /\ Len(blob) \in Nat
      /\ content \o blob \in Seq(Nat)
      /\ Len(content \o blob) = Len(content) + Len(blob)
  BY <1>4, BlobFacts
<1>6. headBytes \in Nat
  BY <1>1 DEF TypeOK
<1>7. e \in Entry /\ index \in Seq(Entry)
  BY <1>1, <1>4, <1>5 DEF TypeOK, Entry
<1>8. e.file = h /\ e.offset = Len(content) + Len(blob)
  OBVIOUS
<1>9. /\ Len(index') = items + 2
      /\ \A i \in 1 .. items + 1 : index'[i] = index[i]
      /\ index'[items + 2] = e
  BY <1>2, <1>3, <1>7, AppendToIndex
<1>10. /\ \A f \in Files : f # h => data'[f] = data[f]
       /\ data'[h] = content \o blob
       /\ data' \in [Files -> Seq(Nat)]
  BY <1>1, <1>2, <1>4, <1>5 DEF TypeOK
<1>11. items' = items + 1 /\ items' + 1 = items + 2
  BY <1>2, <1>3
\* An entry that is kept names a file before h, or h with all its content.
<1>12. ASSUME NEW i \in 1 .. items + 1
       PROVE  \/ index[i].file < h
              \/ /\ index[i].file = h /\ h = headId
                 /\ index[i].offset <= Len(content)
  <2>1. index[i].file \in Nat
    BY <1>3
  <2>2. CASE index[i].file < headId
    BY <2>1, <2>2, <1>3, <1>4
  <2>3. CASE index[i].file = headId /\ index[i].offset <= headBytes
    BY <2>3, <1>3, <1>4, <1>6
  <2> QED
    BY <2>2, <2>3, <1>3
<1>13. HeadIsLastEntry'
  <2>1. index'[items' + 1] = [file |-> headId', offset |-> headBytes']
    BY <1>2, <1>9, <1>11
  <2>2. Len(index') = items' + 1
    BY <1>9, <1>11
  <2>3. Len(data'[headId']) = headBytes' + leftover'
    BY <1>2, <1>4, <1>5, <1>10
  <2> QED
    BY <2>1, <2>2, <2>3 DEF HeadIsLastEntry
<1> HIDE DEF e
<1>15. EntriesAreOrdered'
  <2>1. index'[1] = ZeroEntry
    BY <1>1, <1>3, <1>9 DEF EntriesAreOrdered
  <2>3. ASSUME NEW i \in 1 .. items + 2, NEW j \in 1 .. items + 2, i < j
        PROVE  \/ index'[i].file < index'[j].file
               \/ /\ index'[i].file = index'[j].file
                  /\ index'[i].offset <= index'[j].offset
    <3>1. CASE j <= items + 1
      <4>1. i \in 1 .. items + 1 /\ j \in 1 .. items + 1
        BY <2>3, <3>1, <1>3
      <4> QED
        BY <2>3, <4>1, <1>1, <1>9 DEF EntriesAreOrdered
    <3>2. CASE j = items + 2
      <4>1. i \in 1 .. items + 1
        BY <2>3, <3>2, <1>3
      <4>2. index'[i] = index[i] /\ index'[j] = e
        BY <3>2, <4>1, <1>9
      <4> QED
        BY <4>1, <4>2, <1>3, <1>4, <1>5, <1>8, <1>12
    <3> QED
      BY <3>1, <3>2, <1>3
  <2> QED
    BY <2>1, <2>3, <1>11 DEF EntriesAreOrdered
<1>16. EveryItemIsReadable'
  <2> SUFFICES ASSUME NEW i \in 1 .. items + 2
               PROVE  index'[i].offset <= Len(data'[index'[i].file])
    BY <1>11 DEF EveryItemIsReadable
  <2>1. CASE i # items + 2
    <3>1. i \in 1 .. items + 1 /\ index'[i] = index[i]
      BY <2>1, <1>3, <1>9
    <3>2. index[i].offset <= Len(data[index[i].file])
      BY <3>1, <1>1 DEF EveryItemIsReadable
    <3>3. CASE index[i].file < h
      <4>1. index[i].file # h
        BY <3>1, <3>3, <1>3, <1>4
      <4> QED
        BY <3>1, <3>2, <4>1, <1>3, <1>10
    <3>4. CASE index[i].file = h /\ index[i].offset <= Len(content)
      BY <3>1, <3>4, <1>3, <1>4, <1>5, <1>10
    <3> QED
      BY <3>1, <3>3, <3>4, <1>12
  <2>2. CASE i = items + 2
    <3>1. index'[i] = e
      BY <2>2, <1>9
    <3> QED
      BY <3>1, <1>4, <1>5, <1>8, <1>10
  <2> QED
    BY <2>1, <2>2
<1>17. DiskCoversDurable'
  <2>1. durable' + 1 <= indexSynced' /\ indexSynced' <= items' + 1
    BY <1>1, <1>2, <1>3 DEF DiskCoversDurable, TypeOK
  <2>2. ASSUME NEW f \in Files
        PROVE  dataClosed'[f] <= Len(data'[f])
    <3>1. dataClosed[f] <= Len(data[f]) /\ f \in Nat
      BY <1>1 DEF DiskCoversDurable, Files
    <3>2. CASE f = h
      <4>1. dataClosed'[h] <= Len(content) /\ dataClosed'[h] \in Nat
        BY <1>4 DEF Appends, TypeOK
      <4> QED
        BY <3>2, <4>1, <1>4, <1>5, <1>10
    <3>3. CASE f # h
      <4>1. /\ f < h => \/ dataClosed'[f] = dataClosed[f]
                         \/ dataClosed'[f] = Len(data[f])
            /\ f > h => dataClosed'[f] = dataClosed[f]
        BY DEF Appends
      <4>2. f < h \/ f > h
        BY <3>1, <3>3, <1>4
      <4>3. data'[f] = data[f] /\ Len(data[f]) \in Nat
        BY <3>3, <1>3, <1>10
      <4> QED
        BY <3>1, <4>1, <4>2, <4>3
    <3> QED
      BY <3>2, <3>3
  <2>3. ASSUME NEW i \in 1 .. items + 2,
               i <= durable + 1 \/ index'[i].file < h
        PROVE  index'[i].offset <= dataClosed'[index'[i].file]
    <3>1. i # items + 2
      <4>1. durable \in Nat /\ indexSynced \in Nat
            /\ durable + 1 <= indexSynced /\ indexSynced <= items + 1
        BY <1>1 DEF DiskCoversDurable, TypeOK
      <4>2. ~ (items + 2 <= durable + 1)
        BY <4>1, <1>3
      <4>3. ~ (index'[items + 2].file < h)
        BY <1>4, <1>8, <1>9
      <4> QED
        BY <2>3, <4>2, <4>3
    <3>2. i \in 1 .. items + 1 /\ index'[i] = index[i]
      BY <3>1, <1>3, <1>9
    <3>3. index[i].offset <= Len(data[index[i].file])
      BY <3>2, <1>1 DEF EveryItemIsReadable
    <3>4. i <= durable + 1 \/ index[i].file < headId
             => index[i].offset <= dataClosed[index[i].file]
      BY <3>2, <1>1 DEF DiskCoversDurable
    <3>5. CASE h = headId
      BY <2>3, <3>2, <3>4, <3>5 DEF Appends
    <3>6. CASE h # headId
      <4>1. index[i].file < h
        BY <3>2, <3>6, <1>12
      <4>2. CASE dataClosed'[index[i].file] = Len(data[index[i].file])
        BY <3>2, <3>3, <4>2
      <4>3. CASE /\ dataClosed'[index[i].file] = dataClosed[index[i].file]
                 /\ index[i].file # headId
        BY <3>2, <3>4, <4>3, <1>3
      <4> QED
        BY <3>2, <4>1, <4>2, <4>3, <1>3 DEF Appends
    <3> QED
      BY <3>5, <3>6
  <2> QED
    BY <2>1, <2>2, <2>3, <1>2, <1>11 DEF DiskCoversDurable
<1> QED
  BY <1>13, <1>15, <1>16, <1>17 DEF Sound

\* What truncate and the repair after a crash have in common: the first k
\* entries stay, of data file f the first len[f] bytes stay, and what is on the
\* disk covers the durable items and the files before the head.
Cuts(k, len) ==
    /\ k \in 1 .. items + 1
    /\ len \in [Files -> Nat]
    /\ \A f \in Files : len[f] <= Len(data[f])
    /\ \A i \in 1 .. k : index[i].offset <= len[index[i].file]
    /\ len[index[k].file] = index[k].offset
    /\ index' = SubSeq(index, 1, k)
    /\ data' = [f \in Files |-> SubSeq(data[f], 1, len[f])]
    /\ items' = k - 1
    /\ headId' = index[k].file
    /\ headBytes' = index[k].offset
    /\ leftover' = 0
    /\ durable' + 1 <= indexSynced' /\ indexSynced' <= k
    /\ \A f \in Files : dataClosed'[f] <= len[f]
    /\ \A i \in 1 .. k : i <= durable' + 1 \/ index[i].file < index[k].file
                         => index[i].offset <= dataClosed'[index[i].file]

\* Such a cut keeps the table consistent.
LEMMA CutIsSound ==
    ASSUME Sound, TypeOK', NEW k, NEW len, Cuts(k, len)
    PROVE  Sound'
<1> USE TableAssumption
<1>1. /\ TypeOK /\ HeadIsLastEntry /\ EntriesAreOrdered
  BY DEF Sound
<1>2. /\ items \in Nat /\ Len(index) = items + 1
      /\ \A f \in Files : data[f] \in Seq(Nat) /\ Len(data[f]) \in Nat
      /\ \A i \in 1 .. items + 1 : /\ index[i].file \in Nat
                                  /\ index[i].file \in Files
                                  /\ index[i].offset \in Nat
      /\ index \in Seq(Entry)
  BY <1>1, TableFacts DEF TypeOK
<1>3. /\ k \in 1 .. items + 1 /\ k \in Nat
      /\ index' = SubSeq(index, 1, k)
      /\ items' = k - 1
      /\ headId' = index[k].file
      /\ headBytes' = index[k].offset
      /\ len[index[k].file] = index[k].offset
      /\ leftover' = 0
  BY <1>2 DEF Cuts
<1>4. /\ index' \in Seq(Entry)
      /\ Len(index') = k
      /\ \A i \in 1 .. k : index'[i] = index[i]
  BY <1>2, <1>3, PrefixFacts
<1>5. ASSUME NEW f \in Files
      PROVE  /\ data'[f] \in Seq(Nat)
             /\ Len(data'[f]) = len[f]
  <2>1. len[f] \in 0 .. Len(data[f]) /\ data'[f] = SubSeq(data[f], 1, len[f])
    <3>1. /\ len \in [Files -> Nat] /\ len[f] <= Len(data[f])
          /\ data' = [g \in Files |-> SubSeq(data[g], 1, len[g])]
      BY Zenon DEF Cuts
    <3> QED
      BY <3>1, <1>2
  <2> QED
    BY <2>1, <1>2, PrefixFacts
<1>6. items' + 1 = k /\ \A i \in 1 .. k : i \in 1 .. items + 1
  BY <1>2, <1>3
<1>7. HeadIsLastEntry'
  <2>1. index[k] \in Entry
    BY <1>2, <1>3
  <2>2. index'[k] = [file |-> headId', offset |-> headBytes']
    BY <2>1, <1>3, <1>4 DEF Entry
  <2>3. Len(data'[headId']) = headBytes' + leftover'
    BY <1>2, <1>3, <1>5
  <2> QED
    BY <2>2, <2>3, <1>4, <1>6 DEF HeadIsLastEntry
<1>8. EntriesAreOrdered'
  <2>1. index'[1] = index[1]
    BY <1>3, <1>4
  <2>2. index[1] = ZeroEntry
    BY <1>1 DEF EntriesAreOrdered
  <2>3. \A i, j \in 1 .. k :
          i < j => \/ index'[i].file < index'[j].file
                   \/ /\ index'[i].file = index'[j].file
                      /\ index'[i].offset <= index'[j].offset
    BY <1>1, <1>4, <1>6 DEF EntriesAreOrdered
  <2> QED
    BY <2>1, <2>2, <2>3, <1>6 DEF EntriesAreOrdered
<1>9. EveryItemIsReadable'
  <2> SUFFICES ASSUME NEW i \in 1 .. k
               PROVE  index'[i].offset <= Len(data'[index'[i].file])
    BY <1>6 DEF EveryItemIsReadable
  <2>1. index'[i] = index[i] /\ index[i].file \in Files
    BY <1>2, <1>4, <1>6
  <2>2. index[i].offset <= len[index[i].file]
    BY DEF Cuts
  <2> QED
    BY <2>1, <2>2, <1>5
<1>10. DiskCoversDurable'
  <2>1. \A f \in Files : dataClosed'[f] <= Len(data'[f])
    BY <1>5 DEF Cuts
  <2>2. \A i \in 1 .. k : i <= durable' + 1 \/ index'[i].file < headId'
                          => index'[i].offset <= dataClosed'[index'[i].file]
    BY <1>3, <1>4 DEF Cuts
  <2>3. durable' + 1 <= indexSynced' /\ indexSynced' <= k
    BY DEF Cuts
  <2> QED
    BY <2>1, <2>2, <2>3, <1>6 DEF DiskCoversDurable
<1> QED
  BY <1>7, <1>8, <1>9, <1>10 DEF Sound
\* What consistency says of the counters, the entries, their order, the files
\* and the disk, with the types of everything in it: the form the lemmas below use it in.
CounterFacts ==
    /\ items \in Nat /\ Len(index) = items + 1 /\ index \in Seq(Entry)
    /\ headId \in Nat /\ headId \in Files
    /\ headBytes \in Nat /\ leftover \in Nat

EntryFacts ==
    \A i \in 1 .. items + 1 : /\ index[i].file \in Nat
                             /\ index[i].file \in Files
                             /\ index[i].offset \in Nat
                             /\ index[i].file <= headId

OrderFacts ==
    \A i, j \in 1 .. items + 1 :
       i <= j => \/ index[i].file < index[j].file
                 \/ /\ index[i].file = index[j].file
                    /\ index[i].offset <= index[j].offset

FileFacts ==
    /\ \A f \in Files : /\ f \in Nat
                        /\ data[f] \in Seq(Nat) /\ Len(data[f]) \in Nat
                        /\ dataClosed[f] \in Nat
                        /\ dataClosed[f] <= Len(data[f])
    /\ \A i \in 1 .. items + 1 : index[i].offset <= Len(data[index[i].file])
    /\ Len(data[headId]) = headBytes + leftover

DiskFacts ==
    /\ durable \in Nat /\ indexSynced \in Nat
    /\ durable + 1 <= indexSynced /\ indexSynced <= items + 1
    /\ \A i \in 1 .. items + 1 :
          i <= durable + 1 \/ index[i].file < headId
             => index[i].offset <= dataClosed[index[i].file]

\* A consistent table satisfies them.
LEMMA ConsistentFacts ==
    ASSUME Sound
    PROVE  CounterFacts /\ EntryFacts /\ OrderFacts /\ FileFacts /\ DiskFacts
<1>1. /\ TypeOK /\ HeadIsLastEntry /\ EntriesAreOrdered
      /\ EveryItemIsReadable /\ DiskCoversDurable
  BY DEF Sound
<1>2. /\ items \in Nat /\ Len(index) = items + 1
      /\ headId \in Nat /\ headId \in Files
      /\ \A f \in Files : data[f] \in Seq(Nat) /\ Len(data[f]) \in Nat
      /\ \A i \in 1 .. items + 1 : /\ index[i].file \in Nat
                                  /\ index[i].file \in Files
                                  /\ index[i].offset \in Nat
      /\ \A i \in 1 .. items + 1 :
            \/ index[i].file < headId
            \/ index[i].file = headId /\ index[i].offset <= headBytes
  BY <1>1, TableFacts
<1>3. \A i \in 1 .. items + 1 : index[i].file <= headId
  BY <1>2
<1>4. \A f \in Files : dataClosed[f] \in Nat /\ dataClosed[f] <= Len(data[f])
  BY <1>1 DEF TypeOK, DiskCoversDurable
<1>5. ASSUME NEW i \in 1 .. items + 1, NEW j \in 1 .. items + 1, i <= j
      PROVE  \/ index[i].file < index[j].file
             \/ /\ index[i].file = index[j].file
                /\ index[i].offset <= index[j].offset
  <2>1. CASE i = j
    BY <2>1, <1>2
  <2>2. CASE i < j
    BY <2>2, <1>1 DEF EntriesAreOrdered
  <2> QED
    BY <2>1, <2>2, <1>5, <1>2
<1>6. \A i \in 1 .. items + 1 : index[i].offset <= Len(data[index[i].file])
  BY <1>1 DEF EveryItemIsReadable
<1>7. Len(data[headId]) = headBytes + leftover
  BY <1>1 DEF HeadIsLastEntry
<1>8. /\ durable \in Nat /\ indexSynced \in Nat
      /\ headBytes \in Nat /\ leftover \in Nat
  BY <1>1 DEF TypeOK
<1>9. /\ durable + 1 <= indexSynced /\ indexSynced <= items + 1
      /\ \A i \in 1 .. items + 1 :
            i <= durable + 1 \/ index[i].file < headId
               => index[i].offset <= dataClosed[index[i].file]
  BY <1>1 DEF DiskCoversDurable
<1>10. index \in Seq(Entry) /\ \A f \in Files : f \in Nat
  BY <1>1 DEF TypeOK, Files
<1>11. CounterFacts /\ EntryFacts
  BY <1>2, <1>3, <1>8, <1>10 DEF CounterFacts, EntryFacts
<1>12. OrderFacts
  BY <1>5 DEF OrderFacts
<1>13. FileFacts
  BY <1>2, <1>4, <1>6, <1>7, <1>10 DEF FileFacts
<1>14. DiskFacts
  BY <1>8, <1>9 DEF DiskFacts
<1> QED
  BY <1>11, <1>12, <1>13, <1>14

\* One past the smaller of two numbers.
LEMMA OnePastLeast ==
    ASSUME NEW a \in Int, NEW b \in Int, NEW c \in Int, a <= b, c <= a + 1
    PROVE  c <= b + 1
  OBVIOUS

\* A number below one that is not above a third.
LEMMA BelowLeast ==
    ASSUME NEW a \in Nat, NEW b \in Nat, NEW c \in Nat, a < b, b <= c
    PROVE  a < c /\ a # b
  OBVIOUS

\* A cut file holds its first bytes.
LEMMA CutBytes ==
    ASSUME NEW file \in Seq(Nat), NEW n \in Nat, n <= Len(file)
    PROVE  Resized(file, n, 0) = SubSeq(file, 1, n)
<1>1. SubSeq(file, 1, n) = [i \in 1 .. n |-> file[i]]
  OBVIOUS
<1>2. \A i \in 1 .. n : i <= Len(file)
  OBVIOUS
<1> QED
  BY <1>1, <1>2 DEF Resized

\* truncate keeps the first entries of a consistent table.
LEMMA TruncateCutsIndex ==
    ASSUME Sound, NEW n \in Nat, Truncate(n)
    PROVE  /\ index' = SubSeq(index, 1, n + 1)
           /\ index'[n + 1] = index[n + 1]
<1>1. index \in Seq(Entry) /\ Len(index) = items + 1 /\ items \in Nat
  BY ConsistentFacts DEF CounterFacts
<1>2. n < items /\ index' = Resized(index, n + 1, ZeroEntry)
  BY DEF Truncate
<1>3. ZeroEntry \in Entry
  BY TableAssumption DEF ZeroEntry, Entry, Files
<1>4. n + 1 \in Nat /\ n + 1 <= Len(index)
  BY <1>1, <1>2
<1>5. index' = SubSeq(index, 1, n + 1)
  BY <1>1, <1>2, <1>3, <1>4, ResizedFacts
<1>6. n + 1 \in 0 .. Len(index) /\ n + 1 \in 1 .. n + 1
  BY <1>1, <1>4
<1>7. SubSeq(index, 1, n + 1)[n + 1] = index[n + 1]
  BY <1>1, <1>6, PrefixFacts
<1> QED
  BY <1>5, <1>7

\* truncate is a cut to n + 1 entries.
LEMMA TruncateCuts ==
    ASSUME Sound, NEW n \in Nat, Truncate(n)
    PROVE  \E len : Cuts(n + 1, len)
<1> DEFINE last == index[n + 1]
           len == [f \in Files |-> IF f < last.file THEN Len(data[f])
                                   ELSE IF f = last.file THEN last.offset
                                        ELSE 0]
<1> CounterFacts /\ EntryFacts /\ OrderFacts /\ FileFacts /\ DiskFacts
  BY ConsistentFacts
<1> USE DEF CounterFacts, EntryFacts, OrderFacts, FileFacts, DiskFacts
<1>1. n < items /\ n + 1 \in 1 .. items + 1
  BY DEF Truncate
<1>2. last.file \in Files /\ last.file \in Nat /\ last.offset \in Nat
      /\ last.offset <= Len(data[last.file])
  BY <1>1
<1>3. \A i \in 1 .. n + 1 : /\ i \in 1 .. items + 1
                            /\ \/ index[i].file < last.file
                               \/ /\ index[i].file = last.file
                                  /\ index[i].offset <= last.offset
  <2> SUFFICES ASSUME NEW i \in 1 .. n + 1
               PROVE  /\ i \in 1 .. items + 1
                      /\ \/ index[i].file < last.file
                         \/ /\ index[i].file = last.file
                            /\ index[i].offset <= last.offset
    OBVIOUS
  <2>1. i \in 1 .. items + 1 /\ i <= n + 1
    BY <1>1
  <2> QED
    BY <2>1, <1>1
<1>4. /\ index' = SubSeq(index, 1, n + 1)
      /\ index'[n + 1] = last
  BY TruncateCutsIndex
<1>5. last \in Entry
  BY <1>1
<1>6. /\ data' = [f \in Files |-> IF f < last.file THEN data[f]
                                  ELSE IF f = last.file
                                       THEN Resized(data[f], last.offset, 0)
                                       ELSE <<>>]
      /\ headId' = last.file /\ headBytes' = last.offset
      /\ items' = n
      /\ indexSynced' = Smaller(indexSynced, n + 1)
      /\ durable' = Smaller(durable, n)
      /\ leftover' = 0
      /\ \A f \in Files :
           /\ f < last.file => dataClosed'[f] = dataClosed[f]
           /\ f = last.file => dataClosed'[f] = Smaller(dataClosed[f], last.offset)
           /\ f > last.file => dataClosed'[f] = 0
  <2>1. dataClosed' = LengthsAt(dataClosed, last)
    BY <1>4 DEF Truncate
  <2>2. dataClosed \in [Files -> Nat]
    BY DEF Sound, TypeOK
  <2> HIDE DEF last
  <2>3. \A f \in Files :
           /\ f < last.file => dataClosed'[f] = dataClosed[f]
           /\ f = last.file => dataClosed'[f] = Smaller(dataClosed[f], last.offset)
           /\ f > last.file => dataClosed'[f] = 0
    BY <2>1, <2>2, <1>5, LengthsAtFacts
  <2> QED
    BY <2>3, <1>4 DEF Truncate, last
<1> HIDE DEF last
<1>7. /\ len \in [Files -> Nat]
      /\ \A f \in Files : len[f] <= Len(data[f])
      /\ len[last.file] = last.offset
  BY <1>2 DEF Files
<1>8. ASSUME NEW f \in Files PROVE data'[f] = SubSeq(data[f], 1, len[f])
  <2>1. f \in Nat /\ data[f] \in Seq(Nat)
    BY DEF Files
  <2>2. SubSeq(data[f], 1, Len(data[f])) = data[f] /\ SubSeq(data[f], 1, 0) = <<>>
    BY <2>1
  <2>3. f = last.file =>
          Resized(data[f], last.offset, 0) = SubSeq(data[f], 1, last.offset)
    BY <2>1, <1>2, CutBytes, Zenon
  <2> QED
    BY <2>1, <2>2, <2>3, <1>2, <1>6
<1>9. data' = [f \in Files |-> SubSeq(data[f], 1, len[f])]
  BY <1>6, <1>8
<1>10. ASSUME NEW i \in 1 .. n + 1
      PROVE  index[i].offset <= len[index[i].file]
  <2>1. i \in 1 .. items + 1 /\ index[i].file \in Files
        /\ index[i].offset <= Len(data[index[i].file])
    BY <1>3
  <2> QED
    BY <1>2, <1>3, <2>1
<1>11. ASSUME NEW f \in Files
       PROVE  dataClosed'[f] <= len[f]
  <2>1. f \in Nat
    BY DEF Files
  <2>2. CASE f < last.file
    BY <2>1, <2>2, <1>6
  <2>3. CASE f = last.file
    <3>1. dataClosed'[f] = Smaller(dataClosed[f], last.offset)
      BY <2>3, <1>6, Zenon
    <3>2. Smaller(dataClosed[f], last.offset) <= last.offset
      BY <1>2 DEF Smaller
    <3> QED
      BY <2>3, <3>1, <3>2, <1>7
  <2>4. CASE f > last.file
    BY <2>1, <2>4, <1>2, <1>6
  <2> QED
    BY <2>1, <2>2, <2>3, <2>4, <1>2
<1>12. /\ indexSynced' \in Nat /\ durable' \in Nat
       /\ durable' + 1 <= indexSynced' /\ indexSynced' <= n + 1
       /\ durable' <= durable
  BY <1>6 DEF Smaller
<1>13. ASSUME NEW i \in 1 .. n + 1,
              i <= durable' + 1 \/ index[i].file < last.file
       PROVE  index[i].offset <= dataClosed'[index[i].file]
  <2>1. i \in 1 .. items + 1 /\ index[i].file \in Files
    BY <1>3
  <2>2. index[i].file < last.file => index[i].file < headId
    <3>1. last.file <= headId
      BY <1>1 DEF last
    <3> QED
      BY <3>1, <2>1, <1>2
  <2>3. i <= durable' + 1 => i <= durable + 1
    <3>1. i \in Int /\ durable \in Int /\ durable' \in Int /\ durable' <= durable
      BY <1>12
    <3> QED
      BY <3>1, OnePastLeast
  <2>4. index[i].offset <= dataClosed[index[i].file]
    BY <1>13, <2>1, <2>2, <2>3
  <2> QED
    BY <1>2, <1>3, <1>6, <2>1, <2>4 DEF Smaller
<1> HIDE DEF len
<1>14. items' = (n + 1) - 1
  BY <1>6
<1>15. Cuts(n + 1, len)
  BY <1>1, <1>4, <1>6, <1>7, <1>9, <1>10, <1>11, <1>12, <1>13, <1>14, Zenon
     DEF Cuts, last
<1> QED
  BY <1>15

\* What a file holds once bytes are written to its end.
LEMMA ConcatFacts ==
    ASSUME NEW s \in Seq(Nat), NEW t \in Seq(Nat)
    PROVE  /\ Len(s \o t) = Len(s) + Len(t)
           /\ \A q \in 1 .. Len(s) : (s \o t)[q] = s[q]
  OBVIOUS

\* A write to the head file that fails leaves bytes behind the last item.
LEMMA FailsHereIsSound ==
    ASSUME Sound, TypeOK', NEW blob \in Blobs, AppendHere(blob),
           WriteFails(blob, headId, data[headId], headBytes, leftover)
    PROVE  /\ Sound'
           /\ index' = index /\ items' = items /\ durable' = durable
           /\ \A f \in Files : \A q \in 1 .. Len(data[f]) :
                 data'[f][q] = data[f][q]
<1>0. CounterFacts /\ EntryFacts /\ FileFacts /\ DiskFacts
  BY ConsistentFacts
<1>1. PICK n \in 0 .. Len(blob) - 1 :
        /\ data' = [data EXCEPT ![headId] = data[headId] \o SubSeq(blob, 1, n)]
        /\ leftover' = leftover + n
  BY DEF WriteFails
<1>2. /\ index' = index /\ items' = items /\ headBytes' = headBytes
      /\ headId' = headId /\ indexSynced' = indexSynced /\ durable' = durable
      /\ dataClosed' = dataClosed
  BY DEF WriteFails, AppendHere, Write
<1>3. blob \in Seq(Nat) /\ Len(blob) \in Nat
  BY TableAssumption
<1>4. SubSeq(blob, 1, n) \in Seq(Nat) /\ Len(SubSeq(blob, 1, n)) = n /\ n \in Nat
  BY <1>3, PrefixFacts
<1>5. /\ headId \in Files /\ data[headId] \in Seq(Nat) /\ Len(data[headId]) \in Nat
      /\ data \in [Files -> Seq(Nat)]
      /\ Len(data[headId]) = headBytes + leftover
      /\ headBytes \in Nat /\ leftover \in Nat
  BY <1>0 DEF CounterFacts, FileFacts, Sound, TypeOK
<1>6. /\ data'[headId] = data[headId] \o SubSeq(blob, 1, n)
      /\ \A f \in Files : f # headId => data'[f] = data[f]
  BY <1>1, <1>5
<1>7. /\ Len(data'[headId]) = Len(data[headId]) + n
      /\ \A q \in 1 .. Len(data[headId]) : data'[headId][q] = data[headId][q]
  BY <1>4, <1>5, <1>6, ConcatFacts, Zenon
<1>8. ASSUME NEW f \in Files
      PROVE  /\ Len(data[f]) \in Nat /\ Len(data'[f]) \in Nat
             /\ Len(data[f]) <= Len(data'[f])
             /\ \A q \in 1 .. Len(data[f]) : data'[f][q] = data[f][q]
  <2>1. Len(data[f]) \in Nat
    BY <1>0 DEF FileFacts
  <2>2. CASE f = headId
    BY <2>1, <2>2, <1>4, <1>7
  <2>3. CASE f # headId
    BY <2>1, <2>3, <1>6
  <2> QED
    BY <2>2, <2>3
<1>9. HeadIsLastEntry'
  <2>1. Len(data'[headId']) = headBytes' + leftover'
    BY <1>1, <1>2, <1>4, <1>5, <1>7
  <2> QED
    BY <2>1, <1>2 DEF HeadIsLastEntry, Sound
<1>10. EntriesAreOrdered'
  BY <1>2 DEF EntriesAreOrdered, Sound
<1>11. EveryItemIsReadable'
  <2> SUFFICES ASSUME NEW i \in 1 .. items + 1
               PROVE  index[i].offset <= Len(data'[index[i].file])
    BY <1>2 DEF EveryItemIsReadable
  <2>1. /\ index[i].file \in Files /\ index[i].offset \in Nat
        /\ index[i].offset <= Len(data[index[i].file])
    BY <1>0 DEF EntryFacts, FileFacts
  <2> QED
    BY <2>1, <1>8
<1>12. DiskCoversDurable'
  <2>1. ASSUME NEW f \in Files PROVE dataClosed[f] <= Len(data'[f])
    <3>1. dataClosed[f] \in Nat /\ dataClosed[f] <= Len(data[f])
      BY <1>0 DEF FileFacts
    <3> QED
      BY <3>1, <1>8
  <2> QED
    BY <2>1, <1>2 DEF DiskCoversDurable, Sound
<1> QED
  BY <1>2, <1>8, <1>9, <1>10, <1>11, <1>12 DEF Sound

\* The first write to a new head file that fails leaves bytes there, and the
\* file that append closed as it was.
LEMMA FailsNextIsSound ==
    ASSUME Sound, TypeOK', NEW blob \in Blobs, AppendNext(blob),
           WriteFails(blob, headId + 1, <<>>, 0, 0)
    PROVE  /\ Sound'
           /\ index' = index /\ items' = items /\ durable' = durable
           /\ \A f \in Files : f # headId + 1 => data'[f] = data[f]
<1>0. CounterFacts /\ EntryFacts /\ FileFacts /\ DiskFacts
  BY ConsistentFacts
<1>1. PICK n \in 0 .. Len(blob) - 1 :
        /\ data' = [data EXCEPT ![headId + 1] = <<>> \o SubSeq(blob, 1, n)]
        /\ leftover' = 0 + n
  BY DEF WriteFails
<1>2. /\ index' = index /\ items' = items /\ headBytes' = 0
      /\ headId' = headId + 1 /\ indexSynced' = indexSynced
      /\ durable' = durable
  BY DEF WriteFails, AppendNext, Write
<1>3. blob \in Seq(Nat) /\ Len(blob) \in Nat
  BY TableAssumption
<1>4. SubSeq(blob, 1, n) \in Seq(Nat) /\ Len(SubSeq(blob, 1, n)) = n /\ n \in Nat
  BY <1>3, PrefixFacts
<1>5. /\ headId \in Nat /\ headId + 1 \in Files
      /\ dataClosed'[headId + 1] = 0
      /\ dataClosed'[headId] = Len(data[headId])
      /\ \A f \in Files : f # headId + 1 /\ f # headId =>
                             dataClosed'[f] = dataClosed[f]
  BY NextHeadTypes DEF Sound
<1>6. data \in [Files -> Seq(Nat)]
  BY DEF Sound, TypeOK
<1> DEFINE more == SubSeq(blob, 1, n)
<1> HIDE DEF more
<1>7. /\ data'[headId + 1] = <<>> \o more
      /\ \A f \in Files : f # headId + 1 => data'[f] = data[f]
  BY <1>1, <1>5, <1>6 DEF more
<1>8. Len(data'[headId + 1]) = n
  BY <1>4, <1>7 DEF more
<1>9. ASSUME NEW i \in 1 .. items + 1
      PROVE  /\ index[i].file \in Files /\ index[i].file \in Nat
             /\ index[i].file <= headId /\ index[i].file # headId + 1
             /\ index[i].offset \in Nat
             /\ index[i].offset <= Len(data[index[i].file])
  <2>1. /\ index[i].file \in Files /\ index[i].file \in Nat
        /\ index[i].file <= headId /\ index[i].offset \in Nat
        /\ index[i].offset <= Len(data[index[i].file])
    BY <1>0 DEF EntryFacts, FileFacts
  <2> QED
    BY <2>1, <1>5
<1>10. HeadIsLastEntry'
  <2>1. Len(data'[headId']) = headBytes' + leftover'
    BY <1>1, <1>2, <1>4, <1>8
  <2>2. items + 1 \in 1 .. items + 1
    BY <1>0 DEF CounterFacts
  <2>3. index[items + 1].file < headId + 1
    BY <2>2, <1>5, <1>9
  <2> QED
    BY <2>1, <2>3, <1>2 DEF HeadIsLastEntry, Sound
<1>11. EntriesAreOrdered'
  BY <1>2 DEF EntriesAreOrdered, Sound
<1>12. EveryItemIsReadable'
  BY <1>2, <1>7, <1>9 DEF EveryItemIsReadable
<1>13. DiskCoversDurable'
  <2>1. ASSUME NEW f \in Files PROVE dataClosed'[f] <= Len(data'[f])
    <3>1. /\ dataClosed[f] \in Nat /\ dataClosed[f] <= Len(data[f])
          /\ Len(data[f]) \in Nat
      BY <1>0 DEF FileFacts
    <3>2. CASE f = headId + 1
      BY <3>2, <1>4, <1>5, <1>8
    <3>3. CASE f # headId + 1
      BY <3>1, <3>3, <1>5, <1>7
    <3> QED
      BY <3>2, <3>3
  <2>2. ASSUME NEW i \in 1 .. items + 1
        PROVE  index[i].offset <= dataClosed'[index[i].file]
    <3>1. CASE index[i].file = headId
      BY <3>1, <1>5, <1>9
    <3>2. CASE index[i].file # headId
      <4>1. index[i].file < headId
        BY <3>2, <1>5, <1>9
      <4>2. index[i].offset <= dataClosed[index[i].file]
        BY <4>1, <1>0 DEF DiskFacts
      <4> QED
        BY <3>2, <4>2, <1>5, <1>9
    <3> QED
      BY <3>1, <3>2
  <2>3. durable + 1 <= indexSynced /\ indexSynced <= items + 1
    BY <1>0 DEF DiskFacts
  <2> QED
    BY <2>1, <2>2, <2>3, <1>2 DEF DiskCoversDurable
<1> QED
  BY <1>2, <1>7, <1>10, <1>11, <1>12, <1>13 DEF Sound

\* Sync keeps the table consistent, with all its items durable.
LEMMA SyncIsSound ==
    ASSUME Sound, TypeOK', Sync
    PROVE  /\ Sound'
           /\ index' = index /\ data' = data /\ items' = items
           /\ durable' = items
<1>0. CounterFacts /\ EntryFacts /\ FileFacts /\ DiskFacts
  BY ConsistentFacts
<1>1. /\ indexSynced' = Len(index)
      /\ dataClosed' = [dataClosed EXCEPT ![headId] = Len(data[headId])]
      /\ durable' = items
      /\ index' = index /\ data' = data /\ items' = items
      /\ headId' = headId /\ headBytes' = headBytes /\ leftover' = leftover
  BY DEF Sync
<1>2. /\ headId \in Files /\ headId \in Nat /\ dataClosed \in [Files -> Nat]
      /\ items \in Nat /\ Len(index) = items + 1
  BY <1>0 DEF CounterFacts, Sound, TypeOK
<1>3. /\ dataClosed'[headId] = Len(data[headId])
      /\ \A f \in Files : f # headId => dataClosed'[f] = dataClosed[f]
  BY <1>1, <1>2
<1>4. HeadIsLastEntry' /\ EntriesAreOrdered' /\ EveryItemIsReadable'
  BY <1>1 DEF HeadIsLastEntry, EntriesAreOrdered, EveryItemIsReadable, Sound
<1>5. ASSUME NEW f \in Files PROVE dataClosed'[f] <= Len(data[f])
  BY <1>0, <1>3 DEF FileFacts
<1>6. ASSUME NEW i \in 1 .. items + 1
      PROVE  index[i].offset <= dataClosed'[index[i].file]
  <2>1. /\ index[i].file \in Files /\ index[i].file \in Nat
        /\ index[i].file <= headId
        /\ index[i].offset <= Len(data[index[i].file])
    BY <1>0 DEF EntryFacts, FileFacts
  <2>2. CASE index[i].file = headId
    BY <2>1, <2>2, <1>3
  <2>3. CASE index[i].file # headId
    <3>1. index[i].file < headId
      BY <2>1, <2>3, <1>2
    <3> QED
      BY <2>1, <2>3, <3>1, <1>0, <1>3 DEF DiskFacts
  <2> QED
    BY <2>2, <2>3
<1>7. DiskCoversDurable'
  <2>1. durable' + 1 <= indexSynced' /\ indexSynced' <= items' + 1
    BY <1>1, <1>2
  <2> QED
    BY <2>1, <1>1, <1>5, <1>6, Zenon DEF DiskCoversDurable
<1> QED
  BY <1>1, <1>4, <1>7 DEF Sound

\* The repair after a crash is a cut that keeps the durable items.
LEMMA RepairCuts ==
    ASSUME Sound,
           NEW m \in indexSynced .. Len(index), NEW len \in [Files -> Nat],
           \A f \in Files : dataClosed[f] <= len[f] /\ len[f] <= Len(data[f]),
           Repair(m, len)
    PROVE  \E k, kept : /\ Cuts(k, kept)
                        /\ durable <= k - 1
                        /\ durable' = k - 1
<1>0. CounterFacts /\ EntryFacts /\ OrderFacts /\ FileFacts /\ DiskFacts
  BY ConsistentFacts
<1>1. PICK k \in 1 .. m :
        /\ PointsWithin(k, len)
        /\ \A j \in k + 1 .. m : ~ PointsWithin(j, len)
        /\ index' = SubSeq(index, 1, k)
        /\ data' = [f \in Files |->
                      SubSeq(data[f], 1,
                             [len EXCEPT ![index[k].file] = index[k].offset][f])]
        /\ dataClosed' = [len EXCEPT ![index[k].file] = index[k].offset]
        /\ headId' = index[k].file
        /\ headBytes' = index[k].offset
        /\ items' = k - 1
        /\ indexSynced' = k
        /\ durable' = k - 1
        /\ leftover' = 0
  BY DEF Repair
<1> DEFINE last == index[k]
           kept == [len EXCEPT ![last.file] = last.offset]
<1>2. /\ m \in Nat /\ m <= items + 1 /\ items \in Nat
      /\ durable \in Nat /\ durable + 1 <= m
  BY <1>0 DEF CounterFacts, DiskFacts
<1>3. k \in Nat /\ k \in 1 .. items + 1 /\ items + 1 \in 1 .. items + 1
  BY <1>1, <1>2
<1>4. /\ last.file \in Files /\ last.file \in Nat /\ last.offset \in Nat
      /\ last.file <= headId /\ headId \in Nat
      /\ \A i \in 1 .. items + 1 : /\ index[i].file \in Files
                                  /\ index[i].file \in Nat
                                  /\ index[i].offset \in Nat
  BY <1>0, <1>3 DEF CounterFacts, EntryFacts
<1>5. \A f \in Files : /\ len[f] \in Nat /\ dataClosed[f] \in Nat
                       /\ Len(data[f]) \in Nat
                       /\ dataClosed[f] <= len[f] /\ len[f] <= Len(data[f])
  BY <1>0 DEF FileFacts
<1>6. last.offset <= len[last.file]
  BY <1>1 DEF PointsWithin
<1>7. /\ kept \in [Files -> Nat]
      /\ kept[last.file] = last.offset
      /\ \A f \in Files : f # last.file => kept[f] = len[f]
  BY <1>4
<1> HIDE DEF kept
<1>8. \A f \in Files : kept[f] <= Len(data[f])
  BY <1>4, <1>5, <1>6, <1>7
<1>9. ASSUME NEW i \in 1 .. k
      PROVE  index[i].offset <= kept[index[i].file]
  <2>1. i \in 1 .. items + 1 /\ i <= k
    BY <1>2, <1>3
  <2>2. \/ index[i].file < last.file
        \/ index[i].file = last.file /\ index[i].offset <= last.offset
    <3>1. \A p, q \in 1 .. items + 1 :
            p <= q => \/ index[p].file < index[q].file
                      \/ /\ index[p].file = index[q].file
                         /\ index[p].offset <= index[q].offset
      BY <1>0 DEF OrderFacts
    <3> QED
      BY <3>1, <2>1, <1>3
  <2>3. CASE index[i].file = last.file /\ index[i].offset <= last.offset
    BY <2>3, <1>7
  <2>4. CASE index[i].file < last.file
    <3>1. index[i].file < headId /\ index[i].file # last.file
      <4>1. index[i].file \in Nat
        BY <2>1, <1>4
      <4> QED
        BY <4>1, <2>4, <1>4, BelowLeast
    <3>2. index[i].offset <= dataClosed[index[i].file]
      BY <2>1, <3>1, <1>0 DEF DiskFacts
    <3> QED
      BY <2>1, <3>1, <3>2, <1>4, <1>5, <1>7
  <2> QED
    BY <2>2, <2>3, <2>4
<1>10. durable <= k - 1
  <2> SUFFICES ASSUME ~ (durable <= k - 1) PROVE FALSE
    OBVIOUS
  <2>1. durable + 1 \in k + 1 .. m /\ durable + 1 \in 1 .. items + 1
    BY <1>2, <1>3
  <2>2. index[durable + 1].offset <= dataClosed[index[durable + 1].file]
    BY <2>1, <1>0, <1>2 DEF DiskFacts
  <2>3. PointsWithin(durable + 1, len)
    <3>1. /\ index[durable + 1].file \in Files
          /\ index[durable + 1].offset \in Nat
      BY <2>1, <1>4
    <3>2. /\ dataClosed[index[durable + 1].file] \in Nat
          /\ len[index[durable + 1].file] \in Nat
          /\ dataClosed[index[durable + 1].file] <= len[index[durable + 1].file]
      BY <3>1, <1>5
    <3>3. index[durable + 1].offset <= len[index[durable + 1].file]
      BY <2>2, <3>1, <3>2
    <3> QED
      BY <3>3 DEF PointsWithin
  <2> QED
    BY <2>1, <2>3, <1>1
<1>11. /\ data' = [f \in Files |-> SubSeq(data[f], 1, kept[f])]
       /\ dataClosed' = kept
  BY <1>1 DEF kept
<1>12. durable' + 1 <= indexSynced' /\ indexSynced' <= k
  BY <1>1, <1>2, <1>3
<1>13. \A f \in Files : dataClosed'[f] <= kept[f]
  BY <1>7, <1>11
<1>14. Cuts(k, kept)
  BY <1>1, <1>3, <1>7, <1>8, <1>9, <1>11, <1>12, <1>13 DEF Cuts
<1> QED
  BY <1>1, <1>10, <1>14

\* A crash that takes no bytes of a closed file, with the repair when the table
\* is opened again, is such a cut.
LEMMA CrashCuts ==
    ASSUME Sound, Crash, ~ damaged'
    PROVE  \E k, kept : /\ Cuts(k, kept)
                        /\ durable <= k - 1
                        /\ durable' = k - 1
<1>1. PICK m \in indexSynced .. Len(index),
           part \in [Unsynced -> UNION {Surviving(f) : f \in Unsynced}] :
        /\ \A f \in Unsynced : part[f] \in Surviving(f)
        /\ Repair(m, LengthsAfter(part))
        /\ damaged' = (damaged \/ \E f \in Unsynced : part[f] < dataClosed[f])
  BY DEF Crash
<1>2. /\ LengthsAfter(part) \in [Files -> Nat]
      /\ \A f \in Files : LengthsAfter(part)[f] <= Len(data[f])
      /\ \A f \in Files \ Unsynced : LengthsAfter(part)[f] = Len(data[f])
  BY <1>1, SurvivingFacts DEF Sound
<1>3. \A f \in Unsynced : ~ (part[f] < dataClosed[f])
  BY <1>1
<1>4. ASSUME NEW f \in Files
      PROVE  dataClosed[f] <= LengthsAfter(part)[f]
  <2>1. dataClosed[f] \in Nat /\ dataClosed[f] <= Len(data[f])
    BY ConsistentFacts DEF FileFacts
  <2>2. LengthsAfter(part)[f] \in Nat
    BY <1>2
  <2>3. CASE f \in Unsynced
    <3>1. LengthsAfter(part)[f] = part[f]
      BY <2>3 DEF LengthsAfter
    <3> QED
      BY <2>1, <2>2, <2>3, <3>1, <1>3
  <2>4. CASE f \notin Unsynced
    BY <2>1, <2>4, <1>2
  <2> QED
    BY <2>3, <2>4
<1> QED
  BY <1>1, <1>2, <1>4, RepairCuts

\* How append ends when the table is not damaged.
LEMMA AppendEnds ==
    ASSUME Sound, TypeOK', ~ damaged', NEW blob \in Blobs,
           AppendHere(blob) \/ AppendNext(blob)
    PROVE  \/ \E h, content : Appends(blob, h, content)
           \/ /\ AppendHere(blob)
              /\ WriteFails(blob, headId, data[headId], headBytes, leftover)
           \/ /\ AppendNext(blob)
              /\ WriteFails(blob, headId + 1, <<>>, 0, 0)
<1>1. /\ headId \in Files /\ data[headId] \in Seq(Nat)
      /\ headBytes \in Nat /\ leftover \in Nat
  BY DEF Sound, TypeOK
<1>2. CASE AppendHere(blob)
  <2>1. /\ Write(blob, headId, data[headId], headBytes, leftover)
        /\ dataClosed' = dataClosed
    BY <1>2 DEF AppendHere
  <2>2. \/ WriteBoth(blob, headId, data[headId], headBytes, leftover)
        \/ WriteFails(blob, headId, data[headId], headBytes, leftover)
    BY <2>1 DEF Write, EntryFails
  <2>3. ASSUME WriteBoth(blob, headId, data[headId], headBytes, leftover)
        PROVE  Appends(blob, headId, data[headId])
    BY <2>1, <2>3, <1>1, BothAppend
  <2> QED
    BY <1>2, <2>2, <2>3
<1>3. CASE AppendNext(blob)
  <2>1. Write(blob, headId + 1, <<>>, 0, 0) /\ headId + 1 \in Files
    BY <1>3, NextHeadTypes DEF Sound
  <2>2. \/ WriteBoth(blob, headId + 1, <<>>, 0, 0)
        \/ WriteFails(blob, headId + 1, <<>>, 0, 0)
    BY <2>1 DEF Write, EntryFails
  <2>3. <<>> \in Seq(Nat) /\ 0 \in Nat
    OBVIOUS
  <2>4. ASSUME WriteBoth(blob, headId + 1, <<>>, 0, 0)
        PROVE  Appends(blob, headId + 1, <<>>)
    BY <2>1, <2>3, <2>4, <1>3, BothAppend
  <2> QED
    BY <1>3, <2>2, <2>4
<1> QED
  BY <1>2, <1>3

\* No step repairs a damaged table.
LEMMA DamageStays ==
    ASSUME [Next]_vars, damaged
    PROVE  damaged'
<1>1. ASSUME NEW blob \in Blobs, AppendHere(blob) \/ AppendNext(blob)
      PROVE  damaged'
  BY <1>1 DEF AppendHere, AppendNext, Write, WriteBoth, WriteFails, EntryFails
<1>2. ASSUME NEW n \in 0 .. MaxItems, Truncate(n)
      PROVE  damaged'
  BY <1>2 DEF Truncate
<1>3. CASE Sync
  BY <1>3 DEF Sync
<1>4. CASE Crash
  BY <1>4 DEF Crash
<1>5. CASE UNCHANGED vars
  BY <1>5 DEF vars
<1> QED
  BY <1>1, <1>2, <1>3, <1>4, <1>5 DEF Next

\* Every step that does not damage the table keeps it consistent.
LEMMA StepIsSound ==
    ASSUME Sound, TypeOK', [Next]_vars, ~ damaged'
    PROVE  Sound'
<1>1. ASSUME NEW blob \in Blobs, AppendHere(blob) \/ AppendNext(blob)
      PROVE  Sound'
  BY <1>1, AppendEnds, AppendIsSound, FailsHereIsSound, FailsNextIsSound
<1>2. ASSUME NEW n \in 0 .. MaxItems, Truncate(n)
      PROVE  Sound'
  <2>1. n \in Nat
    BY TableAssumption
  <2> QED
    BY <1>2, <2>1, TruncateCuts, CutIsSound
<1>3. CASE Sync
  BY <1>3, SyncIsSound
<1>4. CASE Crash
  BY <1>4, CrashCuts, CutIsSound
<1>5. CASE UNCHANGED vars
  <2>1. /\ index' = index /\ data' = data /\ items' = items
        /\ headId' = headId /\ headBytes' = headBytes
        /\ indexSynced' = indexSynced /\ dataClosed' = dataClosed
        /\ durable' = durable /\ leftover' = leftover
    BY <1>5 DEF vars
  <2>2. HeadIsLastEntry' /\ EveryItemIsReadable'
    BY <2>1 DEF Sound, HeadIsLastEntry, EveryItemIsReadable
  <2>3. EntriesAreOrdered'
    BY <2>1 DEF Sound, EntriesAreOrdered
  <2>4. DiskCoversDurable'
    BY <2>1 DEF Sound, DiskCoversDurable
  <2> QED
    BY <2>2, <2>3, <2>4 DEF Sound
<1> QED
  BY <1>1, <1>2, <1>3, <1>4, <1>5 DEF Next

\* A table is consistent when it is sound or damaged.
LEMMA ConsistentOrDamaged ==
    TableIsConsistent <=> TypeOK /\ (damaged \/ Sound)
  BY DEF TableIsConsistent, Sound

\* Whatever is appended, truncated, synced, left by failed writes and lost in
\* crashes, the index, the data files and the counters of the table agree, as
\* long as no crash takes bytes of a file that append closed, no blob is
\* appended behind what a failed write left, no index write fails and the file
\* numbers fit into their entries.
THEOREM TableStaysConsistent == Spec => []TableIsConsistent
<1>1. Init => TableIsConsistent
  BY InitIsSound, ConsistentOrDamaged DEF Sound
<1>2. TableIsConsistent /\ [Next]_vars => TableIsConsistent'
  <2> SUFFICES ASSUME TableIsConsistent, [Next]_vars
               PROVE  TableIsConsistent'
    OBVIOUS
  <2>1. TypeOK /\ (damaged \/ Sound)
    BY ConsistentOrDamaged
  <2>2. TypeOK'
    BY <2>1, StepKeepsTypes
  <2>3. damaged' \/ Sound'
    BY <2>1, <2>2, DamageStays, StepIsSound
  <2> QED
    BY <2>2, <2>3 DEF TableIsConsistent, Sound
<1> QED
  BY <1>1, <1>2, PTL DEF Spec
-----------------------------------------------------------------------------
\* Where the bytes of an item lie.
LEMMA BoundsOfItem ==
    ASSUME Sound, NEW i \in 0 .. items - 1
    PROVE  /\ i + 1 \in 1 .. items + 1 /\ i + 2 \in 1 .. items + 1
           /\ index[i + 2].file \in Files
           /\ index[i + 2].offset \in Nat
           /\ StartOffset(i) \in Nat
           /\ StartOffset(i) <= index[i + 2].offset
           /\ index[i + 2].offset <= Len(data[index[i + 2].file])
<1>0. CounterFacts /\ EntryFacts /\ OrderFacts /\ FileFacts
  BY ConsistentFacts
<1>1. i + 1 \in 1 .. items + 1 /\ i + 2 \in 1 .. items + 1 /\ i + 1 <= i + 2
  BY <1>0 DEF CounterFacts
<1>2. /\ index[i + 2].file \in Files /\ index[i + 2].offset \in Nat
      /\ index[i + 1].offset \in Nat /\ index[i + 1].file \in Nat
      /\ index[i + 2].file \in Nat
  BY <1>0, <1>1 DEF EntryFacts
<1>3. \/ index[i + 1].file < index[i + 2].file
      \/ index[i + 1].offset <= index[i + 2].offset
  BY <1>0, <1>1 DEF OrderFacts
<1>4. StartOffset(i) \in Nat /\ StartOffset(i) <= index[i + 2].offset
  BY <1>2, <1>3 DEF StartOffset
<1>5. index[i + 2].offset <= Len(data[index[i + 2].file])
  BY <1>0, <1>1 DEF FileFacts
<1> QED
  BY <1>1, <1>2, <1>4, <1>5

\* Retrieve returns bytes.
LEMMA RetrieveIsBytes ==
    ASSUME Sound, NEW i \in 0 .. items - 1
    PROVE  Retrieve(i) \in Seq(Nat)
<1> DEFINE end == index[i + 2]
           start == StartOffset(i)
<1>0. FileFacts
  BY ConsistentFacts
<1>1. /\ end.file \in Files /\ end.offset \in Nat
      /\ start \in Nat /\ start <= end.offset
      /\ end.offset <= Len(data[end.file])
  BY BoundsOfItem
<1>2. data[end.file] \in Seq(Nat) /\ Len(data[end.file]) \in Nat
  BY <1>0, <1>1 DEF FileFacts
<1> HIDE DEF end, start
<1>3. end.offset - start \in Nat
  BY <1>1
<1>4. \A p \in 1 .. end.offset - start : data[end.file][start + p] \in Nat
  <2> SUFFICES ASSUME NEW p \in 1 .. end.offset - start
               PROVE  data[end.file][start + p] \in Nat
    OBVIOUS
  <2>1. start + p \in 1 .. Len(data[end.file])
    BY <1>1, <1>2
  <2> QED
    BY <1>2, <2>1
<1>5. [p \in 1 .. end.offset - start |-> data[end.file][start + p]] \in Seq(Nat)
  BY <1>3, <1>4
<1> QED
  BY <1>5 DEF Retrieve, end, start

\* The items as the table above reads them.
List == [i \in 1 .. items |-> Retrieve(i - 1)]

\* They are a sequence of blobs.
LEMMA ListIsSequence ==
    ASSUME Sound
    PROVE  /\ List \in Seq(Seq(Nat))
           /\ Len(List) = items
           /\ items \in Nat
<1>1. items \in Nat
  BY ConsistentFacts DEF CounterFacts
<1>2. \A i \in 1 .. items : Retrieve(i - 1) \in Seq(Nat)
  <2> SUFFICES ASSUME NEW i \in 1 .. items
               PROVE  Retrieve(i - 1) \in Seq(Nat)
    OBVIOUS
  <2>1. i - 1 \in 0 .. items - 1
    BY <1>1
  <2> QED
    BY <2>1, RetrieveIsBytes
<1> QED
  BY <1>1, <1>2 DEF List

\* An item reads the same after a step that keeps its two index entries and
\* the bytes between them.
LEMMA SameBytes ==
    ASSUME Sound, NEW i \in 0 .. items - 1,
           index'[i + 1] = index[i + 1], index'[i + 2] = index[i + 2],
           \A q \in 1 .. index[i + 2].offset :
              data'[index[i + 2].file][q] = data[index[i + 2].file][q]
    PROVE  Retrieve(i)' = Retrieve(i)
<1> DEFINE end == index[i + 2]
           start == StartOffset(i)
<1>1. /\ end.offset \in Nat
      /\ start \in Nat /\ start <= end.offset
  BY BoundsOfItem
<1>2. StartOffset(i)' = start
  BY DEF StartOffset
<1>3. \A p \in 1 .. end.offset - start :
         data'[end.file][start + p] = data[end.file][start + p]
  <2> HIDE DEF end, start
  <2> SUFFICES ASSUME NEW p \in 1 .. end.offset - start
               PROVE  data'[end.file][start + p] = data[end.file][start + p]
    OBVIOUS
  <2>1. start + p \in 1 .. end.offset
    BY <1>1
  <2> QED
    BY <2>1 DEF end
<1>4. /\ Retrieve(i) = [p \in 1 .. end.offset - start |->
                          data[end.file][start + p]]
      /\ Retrieve(i)' = [p \in 1 .. end.offset - start |->
                          data'[end.file][start + p]]
  BY <1>2 DEF Retrieve
<1> HIDE DEF end, start
<1> QED
  BY <1>3, <1>4

\* A cut keeps what the items before it read as.
LEMMA CutKeepsBlobs ==
    ASSUME Sound, NEW k, NEW len, Cuts(k, len),
           NEW i \in 0 .. items - 1, i + 2 <= k
    PROVE  Retrieve(i)' = Retrieve(i)
<1>1. /\ i + 1 \in 1 .. items + 1 /\ i + 2 \in 1 .. items + 1
      /\ index[i + 2].file \in Files
      /\ index[i + 2].offset \in Nat
  BY BoundsOfItem
<1>2. CounterFacts /\ FileFacts /\ k \in 1 .. items + 1
  BY ConsistentFacts, Zenon DEF Cuts
<1>3. /\ items \in Nat /\ k \in 1 .. items + 1 /\ k \in Nat
      /\ index \in Seq(Entry) /\ Len(index) = items + 1
  BY <1>2 DEF CounterFacts
<1>4. i + 1 \in 1 .. k /\ i + 2 \in 1 .. k
  BY <1>1, <1>3
<1>5. index'[i + 1] = index[i + 1] /\ index'[i + 2] = index[i + 2]
  <2>1. \A j \in 1 .. k : SubSeq(index, 1, k)[j] = index[j]
    BY <1>3, PrefixFacts
  <2> QED
    BY <2>1, <1>4 DEF Cuts
<1> DEFINE f == index[i + 2].file
<1>6. /\ data'[f] = SubSeq(data[f], 1, len[f])
      /\ data[f] \in Seq(Nat) /\ Len(data[f]) \in Nat
      /\ len[f] \in Nat /\ len[f] <= Len(data[f])
      /\ index[i + 2].offset <= len[f]
  BY <1>1, <1>2, <1>4 DEF Cuts, FileFacts
<1> HIDE DEF f
<1>7. \A q \in 1 .. len[f] : data'[f][q] = data[f][q]
  <2>1. len[f] \in 0 .. Len(data[f])
    BY <1>6
  <2> QED
    BY <2>1, <1>6, PrefixFacts
<1>8. \A q \in 1 .. index[i + 2].offset : data'[f][q] = data[f][q]
  <2> SUFFICES ASSUME NEW q \in 1 .. index[i + 2].offset
               PROVE  q \in 1 .. len[f]
    BY <1>7
  <2> QED
    BY <1>1, <1>6
<1> QED
  BY <1>5, <1>8, SameBytes DEF f

\* After a cut to k entries the list is its first k - 1 items.
LEMMA CutCutsList ==
    ASSUME Sound, NEW k, NEW len, Cuts(k, len)
    PROVE  List' = SubSeq(List, 1, k - 1)
<1>1. /\ List \in Seq(Seq(Nat)) /\ Len(List) = items /\ items \in Nat
  BY ListIsSequence
<1>2. k \in 1 .. items + 1 /\ items' = k - 1 /\ k - 1 \in 0 .. items
  BY <1>1 DEF Cuts
<1>3. \A i \in 1 .. k - 1 : Retrieve(i - 1)' = Retrieve(i - 1)
  <2> SUFFICES ASSUME NEW i \in 1 .. k - 1
               PROVE  Retrieve(i - 1)' = Retrieve(i - 1)
    OBVIOUS
  <2>1. i - 1 \in 0 .. items - 1 /\ (i - 1) + 2 <= k
    BY <1>1, <1>2
  <2> QED
    BY <2>1, CutKeepsBlobs
<1>4. List' = [i \in 1 .. k - 1 |-> Retrieve(i - 1)]
  BY <1>2, <1>3 DEF List
<1>5. SubSeq(List, 1, k - 1) = [i \in 1 .. k - 1 |-> List[i]]
  BY <1>1, <1>2
<1>6. \A i \in 1 .. k - 1 : List[i] = Retrieve(i - 1)
  BY <1>1, <1>2 DEF List
<1> QED
  BY <1>4, <1>5, <1>6

\* What an append does to the index and to the head file.
LEMMA AppendFacts ==
    ASSUME Sound, NEW blob \in Blobs, NEW h, NEW content,
           Appends(blob, h, content)
    PROVE  /\ items' = items + 1
           /\ \A i \in 1 .. items + 1 : index'[i] = index[i]
           /\ index'[items + 2] = [file |-> h, offset |-> Len(content) + Len(blob)]
           /\ data'[h] = content \o blob
<1> DEFINE e == [file |-> h, offset |-> Len(content) + Len(blob)]
<1>0. CounterFacts /\ TypeOK
  BY ConsistentFacts DEF Sound
<1>1. /\ content \in Seq(Nat) /\ Len(content) \in Nat /\ h \in Files /\ h \in Nat
      /\ h < FileNumbers /\ Len(blob) \in Nat
  <2>1. content \in Seq(Nat) /\ h \in Files /\ h \in Nat /\ h < FileNumbers
    BY Zenon DEF Appends
  <2> QED
    BY <2>1, BlobFacts
<1>2. index \in Seq(Entry) /\ e \in Entry /\ Len(index) = items + 1 /\ items \in Nat
  <2>1. e \in Entry
    BY <1>1 DEF Entry
  <2> QED
    BY <2>1, <1>0 DEF CounterFacts
<1>3. /\ index' = Append(index, e) /\ items' = items + 1
      /\ data' = [data EXCEPT ![h] = content \o blob]
  BY DEF Appends
<1>4. data \in [Files -> Seq(Nat)]
  BY <1>0 DEF TypeOK
<1>5. data'[h] = content \o blob
  BY <1>1, <1>3, <1>4
<1> HIDE DEF e
<1>6. /\ \A i \in 1 .. Len(index) : Append(index, e)[i] = index[i]
      /\ Append(index, e)[Len(index) + 1] = e
  BY <1>2, AppendToIndex
<1>7. Len(index) + 1 = items + 2
  BY <1>2
<1> QED
  BY <1>2, <1>3, <1>5, <1>6, <1>7 DEF e

\* An append keeps what the earlier items read as.
LEMMA AppendKeepsBlobs ==
    ASSUME Sound, NEW blob \in Blobs, NEW h, NEW content,
           Appends(blob, h, content), NEW i \in 0 .. items - 1
    PROVE  Retrieve(i)' = Retrieve(i)
<1> DEFINE named == index[i + 2].file
<1>0. CounterFacts /\ EntryFacts
  BY ConsistentFacts
<1>1. /\ i + 1 \in 1 .. items + 1 /\ i + 2 \in 1 .. items + 1
      /\ named \in Files /\ index[i + 2].offset \in Nat
      /\ index[i + 2].offset <= Len(data[named])
  BY BoundsOfItem
<1>2. index'[i + 1] = index[i + 1] /\ index'[i + 2] = index[i + 2]
  BY <1>1, AppendFacts
<1>3. named <= headId /\ named \in Nat /\ headId \in Nat
  BY <1>0, <1>1 DEF CounterFacts, EntryFacts
<1>4. \A g \in Files : g # h => data'[g] = data[g]
  <2>1. data' = [data EXCEPT ![h] = content \o blob] /\ h \in Files
    BY DEF Appends
  <2>2. data \in [Files -> Seq(Nat)]
    BY DEF Sound, TypeOK
  <2> QED
    BY <2>1, <2>2
<1> HIDE DEF named
<1>5. \A q \in 1 .. index[i + 2].offset : data'[named][q] = data[named][q]
  <2>1. CASE named # h
    <3>1. data'[named] = data[named]
      BY <2>1, <1>1, <1>4
    <3> QED
      BY <3>1
  <2>2. CASE named = h
    <3>1. content = data[named] /\ content \in Seq(Nat) /\ Len(content) \in Nat
      BY <2>2, <1>3 DEF Appends
    <3>2. data'[named] = content \o blob
      BY <2>2, AppendFacts
    <3>3. \A q \in 1 .. Len(content) : (content \o blob)[q] = content[q]
      BY <3>1, BlobFacts
    <3>4. \A q \in 1 .. index[i + 2].offset : q \in 1 .. Len(content)
      BY <3>1, <1>1
    <3> QED
      BY <3>1, <3>2, <3>3, <3>4
  <2> QED
    BY <2>1, <2>2
<1> QED
  BY <1>2, <1>5, SameBytes DEF named

\* The new item reads as the blob that was appended.
LEMMA AppendedBlobIsRead ==
    ASSUME Sound, NEW blob \in Blobs, NEW h, NEW content,
           Appends(blob, h, content), NEW n, n = items
    PROVE  Retrieve(n)' = blob
<1>0. CounterFacts /\ EntryFacts /\ EntriesAreOrdered
  BY ConsistentFacts DEF Sound
<1>1. /\ content \in Seq(Nat) /\ Len(content) \in Nat /\ h \in Nat
      /\ \/ h = headId /\ headBytes = Len(content)
         \/ h = headId + 1 /\ content = <<>>
      /\ blob \in Seq(Nat) /\ Len(blob) \in Nat
  <2>1. /\ content \in Seq(Nat) /\ h \in Nat
        /\ \/ h = headId /\ headBytes = Len(content)
           \/ h = headId + 1 /\ content = <<>>
    BY Zenon DEF Appends
  <2> QED
    BY <2>1, BlobFacts
<1>2. /\ items \in Nat /\ headId \in Nat /\ headBytes \in Nat
      /\ \/ index[items + 1].file = headId /\ index[items + 1].offset = headBytes
         \/ index[items + 1].file < headId /\ headBytes = 0
      /\ index[1].file = 0 /\ index[1].offset = 0
      /\ index[items + 1].file \in Nat /\ index[items + 1].file <= headId
  <2>1. index[1] = [file |-> 0, offset |-> 0]
    BY <1>0, Zenon DEF EntriesAreOrdered, ZeroEntry
  <2>2. \/ index[items + 1] = [file |-> headId, offset |-> headBytes]
        \/ index[items + 1].file < headId /\ headBytes = 0
    BY Zenon DEF Sound, HeadIsLastEntry
  <2>3. items \in Nat /\ headId \in Nat /\ headBytes \in Nat
    BY <1>0 DEF CounterFacts
  <2>4. items + 1 \in 1 .. items + 1
    BY <2>3
  <2>5. index[items + 1].file \in Nat /\ index[items + 1].file <= headId
    BY <2>4, <1>0 DEF EntryFacts
  <2> QED
    BY <2>1, <2>2, <2>3, <2>5
<1>3. /\ index'[items + 1] = index[items + 1]
      /\ index'[items + 2].file = h
      /\ index'[items + 2].offset = Len(content) + Len(blob)
      /\ data'[h] = content \o blob
  <2>1. items + 1 \in 1 .. items + 1
    BY <1>2
  <2>2. index'[items + 1] = index[items + 1]
    BY <2>1, AppendFacts
  <2>3. /\ index'[items + 2] = [file |-> h, offset |-> Len(content) + Len(blob)]
        /\ data'[h] = content \o blob
    BY AppendFacts
  <2> QED
    BY <2>2, <2>3
<1>4. StartOffset(n)' = Len(content)
  <2>1. StartOffset(n)' = IF n # 0 /\ index'[n + 1].file = index'[n + 2].file
                          THEN index'[n + 1].offset ELSE 0
    BY DEF StartOffset
  <2>2. CASE h = headId /\ headBytes = Len(content)
    <3>1. CASE n = 0
      <4>1. Len(content) = 0
        BY <2>2, <3>1, <1>2
      <4> QED
        BY <2>1, <3>1, <4>1
    <3>2. CASE n # 0 /\ index[items + 1].file = headId
      <4>1. index[items + 1].offset = headBytes
        BY <3>2, <1>2
      <4> QED
        BY <2>1, <2>2, <3>2, <4>1, <1>3
    <3>3. CASE index[items + 1].file < headId
      <4>1. headBytes = 0 /\ index[items + 1].file # headId
        BY <3>3, <1>2
      <4> QED
        BY <2>1, <2>2, <4>1, <1>3
    <3> QED
      BY <3>1, <3>2, <3>3, <1>2
  <2>3. CASE h = headId + 1 /\ content = <<>>
    <3>1. index'[n + 1].file # index'[n + 2].file
      BY <2>3, <1>2, <1>3
    <3> QED
      BY <2>1, <2>3, <3>1
  <2> QED
    BY <2>2, <2>3, <1>1
<1>5. Retrieve(n)' = [p \in 1 .. (Len(content) + Len(blob)) - Len(content) |->
                        (content \o blob)[Len(content) + p]]
  BY <1>3, <1>4 DEF Retrieve
<1>6. (Len(content) + Len(blob)) - Len(content) = Len(blob)
  BY <1>1
<1>7. \A p \in 1 .. Len(blob) : (content \o blob)[Len(content) + p] = blob[p]
  BY <1>1, BlobFacts
<1>8. blob = [p \in 1 .. Len(blob) |-> blob[p]]
  BY <1>1
<1> QED
  BY <1>5, <1>6, <1>7, <1>8

\* A sequence is the function of its elements.
LEMMA SequenceIsFunction ==
    ASSUME NEW S, NEW s \in Seq(S)
    PROVE  s = [i \in 1 .. Len(s) |-> s[i]]
  OBVIOUS

\* After an append the list has the blob at its end.
LEMMA AppendExtendsList ==
    ASSUME Sound, NEW blob \in Blobs, NEW h, NEW content,
           Appends(blob, h, content)
    PROVE  List' = Append(List, blob)
<1>1. List \in Seq(Seq(Nat)) /\ Len(List) = items /\ items \in Nat
  BY ListIsSequence
<1>2. items' = items + 1
  BY AppendFacts
<1>3. blob \in Seq(Nat)
  BY TableAssumption
<1>4. ASSUME NEW i \in 1 .. items + 1
      PROVE  Retrieve(i - 1)' = Append(List, blob)[i]
  <2>1. CASE i = items + 1
    <3>1. i - 1 = items
      BY <2>1, <1>1
    <3>2. Retrieve(i - 1)' = blob
      BY <3>1, AppendedBlobIsRead
    <3> QED
      BY <2>1, <3>2, <1>1, <1>3
  <2>2. CASE i # items + 1
    <3>1. i - 1 \in 0 .. items - 1 /\ i \in 1 .. items
      BY <2>2, <1>1
    <3>2. Retrieve(i - 1)' = Retrieve(i - 1)
      BY <3>1, AppendKeepsBlobs
    <3>3. List[i] = Retrieve(i - 1)
      BY <3>1 DEF List
    <3> QED
      BY <3>1, <3>2, <3>3, <1>1, <1>3
  <2> QED
    BY <2>1, <2>2
<1>5. List' = [i \in 1 .. items + 1 |-> Append(List, blob)[i]]
  BY <1>2, <1>4 DEF List
<1>6. Append(List, blob) = [i \in 1 .. items + 1 |-> Append(List, blob)[i]]
  <2>1. Append(List, blob) \in Seq(Seq(Nat)) /\ Len(Append(List, blob)) = items + 1
    BY <1>1, <1>3
  <2> QED
    BY <2>1, SequenceIsFunction
<1> QED
  BY <1>5, <1>6

\* The table of module AncientTable that the files stand for.
Table == [list |-> List, durable |-> durable]

\* A new table's files stand for the empty table.
LEMMA InitImplements == Init => Table = Ancient!EmptyTable
<1> SUFFICES ASSUME Init PROVE Table = Ancient!EmptyTable
  OBVIOUS
<1>1. items = 0 /\ durable = 0
  BY DEF Init
<1>2. List = <<>>
  BY <1>1 DEF List
<1> QED
  BY <1>1, <1>2 DEF Table, Ancient!EmptyTable

\* A step that keeps the index and the bytes it points at keeps the list.
LEMMA SameList ==
    ASSUME Sound, index' = index, items' = items,
           \A i \in 1 .. items + 1 : \A q \in 1 .. index[i].offset :
              data'[index[i].file][q] = data[index[i].file][q]
    PROVE  List' = List
<1>1. items \in Nat
  BY ConsistentFacts DEF CounterFacts
<1>2. ASSUME NEW i \in 1 .. items PROVE Retrieve(i - 1)' = Retrieve(i - 1)
  <2>1. i - 1 \in 0 .. items - 1 /\ (i - 1) + 2 \in 1 .. items + 1
    BY <1>1
  <2> QED
    BY <2>1, SameBytes
<1> QED
  BY <1>2 DEF List

\* A failed append leaves the items as they were.
LEMMA FailureKeepsList ==
    ASSUME Sound, TypeOK', NEW blob \in Blobs,
           \/ /\ AppendHere(blob)
              /\ WriteFails(blob, headId, data[headId], headBytes, leftover)
           \/ /\ AppendNext(blob)
              /\ WriteFails(blob, headId + 1, <<>>, 0, 0)
    PROVE  List' = List /\ durable' = durable
<1>0. CounterFacts /\ EntryFacts /\ FileFacts
  BY ConsistentFacts
<1>1. index' = index /\ items' = items /\ durable' = durable
  BY FailsHereIsSound, FailsNextIsSound
<1>2. ASSUME NEW i \in 1 .. items + 1, NEW q \in 1 .. index[i].offset
      PROVE  data'[index[i].file][q] = data[index[i].file][q]
  <2>1. /\ index[i].file \in Files /\ index[i].file \in Nat /\ headId \in Nat
        /\ index[i].file <= headId /\ index[i].offset \in Nat
        /\ index[i].offset <= Len(data[index[i].file])
        /\ Len(data[index[i].file]) \in Nat
    BY <1>0 DEF CounterFacts, EntryFacts, FileFacts
  <2>2. q \in 1 .. Len(data[index[i].file]) /\ index[i].file # headId + 1
    BY <2>1
  <2> QED
    BY <2>1, <2>2, FailsHereIsSound, FailsNextIsSound
<1> QED
  BY <1>1, <1>2, SameList

\* Every step on the files that does not damage them is a step of the table, or
\* changes nothing of it.
LEMMA StepImplements ==
    ASSUME Sound, TypeOK', [Next]_vars, ~ damaged'
    PROVE  \/ \E blob \in Blobs : Table' = Ancient!WithItem(Table, blob)
           \/ \E n \in 0 .. Len(Table.list) : Table' = Ancient!CutTo(Table, n)
           \/ Table' = Ancient!Synced(Table)
           \/ Table' \in Ancient!AfterCrash(Table)
           \/ Table' = Table
<1>0. /\ Table.list = List /\ Table.durable = durable
      /\ Table' = [list |-> List', durable |-> durable']
  BY DEF Table
<1>1. List \in Seq(Seq(Nat)) /\ Len(List) = items /\ items \in Nat
  BY ListIsSequence
<1>2. durable \in Nat
  BY ConsistentFacts DEF DiskFacts
<1>3. ASSUME NEW blob \in Blobs, AppendHere(blob) \/ AppendNext(blob)
      PROVE  Table' = Ancient!WithItem(Table, blob) \/ Table' = Table
  <2>1. ASSUME NEW h, NEW content, Appends(blob, h, content)
        PROVE  Table' = Ancient!WithItem(Table, blob)
    <3>1. List' = Append(List, blob)
      BY <2>1, AppendExtendsList
    <3>2. durable' = durable
      BY <2>1 DEF Appends
    <3>3. Ancient!WithItem(Table, blob) =
            [list |-> Append(List, blob), durable |-> durable]
      BY DEF Table, Ancient!WithItem
    <3> QED
      BY <1>0, <3>1, <3>2, <3>3
  <2>2. ASSUME \/ /\ AppendHere(blob)
                  /\ WriteFails(blob, headId, data[headId], headBytes, leftover)
               \/ /\ AppendNext(blob)
                  /\ WriteFails(blob, headId + 1, <<>>, 0, 0)
        PROVE  Table' = Table
    BY <2>2, FailureKeepsList DEF Table
  <2> QED
    BY <1>3, <2>1, <2>2, AppendEnds
<1>4. ASSUME NEW n \in 0 .. MaxItems, Truncate(n)
      PROVE  \E m \in 0 .. Len(Table.list) : Table' = Ancient!CutTo(Table, m)
  <2>1. n \in Nat /\ n < items /\ durable' = Smaller(durable, n)
    <3>1. n < items /\ durable' = Smaller(durable, n)
      BY <1>4, Zenon DEF Truncate
    <3> QED
      BY <3>1, TableAssumption
  <2>2. PICK len : Cuts(n + 1, len)
    BY <1>4, <2>1, TruncateCuts
  <2>3. List' = SubSeq(List, 1, (n + 1) - 1)
    BY <2>2, CutCutsList
  <2>4. (n + 1) - 1 = n /\ ~ (Len(List) <= n) /\ n \in 0 .. Len(List)
    BY <2>1, <1>1
  <2>5. durable' = Ancient!Least(durable, n)
    BY <2>1 DEF Smaller, Ancient!Least
  <2>6. Table' = Ancient!CutTo(Table, n)
    BY <1>0, <2>3, <2>4, <2>5 DEF Ancient!CutTo
  <2> QED
    BY <1>0, <2>4, <2>6
<1>5. CASE Sync
  <2>1. index' = index /\ data' = data /\ items' = items /\ durable' = items
    BY <1>5, SyncIsSound
  <2>2. List' = List
    BY <2>1, SameList
  <2>3. Table' = Ancient!Synced(Table)
    BY <2>1, <2>2, <1>1 DEF Table, Ancient!Synced
  <2> QED
    BY <2>3
<1>6. CASE Crash
  <2>1. PICK k, kept : /\ Cuts(k, kept)
                       /\ durable <= k - 1
                       /\ durable' = k - 1
    BY <1>6, CrashCuts
  <2>2. List' = SubSeq(List, 1, k - 1)
    BY <2>1, CutCutsList
  <2>3. k \in 1 .. items + 1
    BY <2>1 DEF Cuts
  <2>4. k - 1 \in durable .. Len(List)
    BY <2>1, <2>3, <1>1, <1>2
  <2>5. Table' \in Ancient!AfterCrash(Table)
    BY <1>0, <2>1, <2>2, <2>4 DEF Ancient!AfterCrash
  <2> QED
    BY <2>5
<1>7. CASE UNCHANGED vars
  <2>1. List' = List /\ durable' = durable
    BY <1>7 DEF vars, List, Retrieve, StartOffset
  <2> QED
    BY <1>0, <2>1 DEF Table
<1> QED
  BY <1>3, <1>4, <1>5, <1>6, <1>7 DEF Next

\* A step that leaves the table as it is is a step of it, too: truncate on a
\* table that is not longer than asked.
LEMMA StutterIsCut ==
    ASSUME Sound
    PROVE  \E n \in 0 .. Len(Table.list) : Table = Ancient!CutTo(Table, n)
<1>1. Table.list = List /\ Len(List) = items /\ items \in Nat
  BY ListIsSequence DEF Table
<1>2. items \in 0 .. Len(Table.list) /\ Len(Table.list) <= items
  BY <1>1
<1>3. Table = Ancient!CutTo(Table, items)
  BY <1>2 DEF Ancient!CutTo
<1> QED
  BY <1>2, <1>3

\* The index file and the data files implement the table that module
\* AncientTable describes, until they are damaged: what is read back is what was
\* appended, an append that fails changes nothing, and a crash loses no more
\* than what was appended after the last Sync.
THEOREM TableImplementsAncientTable == Spec => ImplementsAncientTable
<1>1. Init => Ancient!Init
  BY InitImplements DEF Table, List, Ancient!Init
<1>2. TableIsConsistent /\ TableIsConsistent' /\ [Next]_vars =>
         [damaged' \/ Ancient!Next]_vars
  <2> SUFFICES ASSUME TableIsConsistent, TableIsConsistent', [Next]_vars,
                      ~ damaged'
               PROVE  Ancient!Next
    OBVIOUS
  <2>1. Sound /\ TypeOK'
    BY ConsistentOrDamaged, DamageStays DEF TableIsConsistent
  <2>2. \/ \E blob \in Blobs : Table' = Ancient!WithItem(Table, blob)
        \/ \E n \in 0 .. Len(Table.list) : Table' = Ancient!CutTo(Table, n)
        \/ Table' = Ancient!Synced(Table)
        \/ Table' \in Ancient!AfterCrash(Table)
        \/ Table' = Table
    BY <2>1, StepImplements
  <2>3. \E n \in 0 .. Len(Table.list) : Table = Ancient!CutTo(Table, n)
    BY <2>1, StutterIsCut
  <2>4. \/ \E blob \in Blobs : Table' = Ancient!WithItem(Table, blob)
        \/ \E n \in 0 .. Len(Table.list) : Table' = Ancient!CutTo(Table, n)
        \/ Table' = Ancient!Synced(Table)
        \/ Table' \in Ancient!AfterCrash(Table)
    BY <2>2, <2>3
  <2> QED
    BY <2>4 DEF Table, List, Ancient!Next
<1>3. Spec => []TableIsConsistent
  BY TableStaysConsistent
<1> QED
  BY <1>1, <1>2, <1>3, PTL DEF Spec, ImplementsAncientTable
=============================================================================
