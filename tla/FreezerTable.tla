---------------------------- MODULE FreezerTable ----------------------------
(***************************************************************************)
(* One table of the chain freezer (core/rawdb/freezer_table.go): an index  *)
(* file with one fixed-size entry per item, and data files of at most      *)
(* maxFileSize bytes that hold the blobs one after the other.              *)
(*                                                                         *)
(* The operating system is modelled by what survives a crash (a kill or a  *)
(* power loss).  Of each file a prefix survives, at least up to the length *)
(* it had at its last fsync; the files lose their tails independently, so  *)
(* the index can be ahead of the data or behind it, and either can end in  *)
(* the middle of a write.  Cutting or removing a file is taken to be       *)
(* durable and in order with the other operations on that file.            *)
(*                                                                         *)
(* Four things happen to the files that the code does not mend: a crash    *)
(* takes bytes of a data file that append closed without an fsync; a blob  *)
(* is appended behind the bytes a failed write left; the entry of a blob   *)
(* does not reach the index, whose error is ignored; the number of a data  *)
(* file does not fit into an entry.  The table is damaged from then on.    *)
(***************************************************************************)
EXTENDS Integers, Sequences

CONSTANTS
    Blobs,        \* encoded blobs, each a sequence of bytes
    maxFileSize,  \* size above which append starts a new data file
    FileNumbers,  \* the file numbers an entry can hold: 2^16, a uint16
    MaxItems,     \* bound on the number of items
    MaxFiles,     \* bound on the number of data files, from zero
    MaxFaults     \* bound on the number of crashes and failed writes

ASSUME TableAssumption ==
    /\ Blobs \subseteq Seq(Nat)
    /\ maxFileSize \in Nat
    /\ FileNumbers \in Nat \ {0}
    /\ MaxItems \in Nat
    /\ MaxFiles \in Nat
    /\ MaxFaults \in Nat

VARIABLES
    index,        \* the index file: entries [file, offset], the first one zero
    data,         \* data file number -> its bytes
    items,        \* freezerTable.items
    headId,       \* freezerTable.headId
    headBytes,    \* freezerTable.headBytes
    indexSynced,  \* number of index entries on the disk for certain
    dataSynced,   \* data file number -> number of bytes on the disk for certain
    dataClosed,   \* the same, were a file written back when it is closed
    durable,      \* history: least number of items since the last Sync
    leftover,     \* history: bytes that failed writes left in the head file
    damaged,      \* history: one of the four things above has happened
    faults        \* number of crashes and failed writes so far

vars == <<index, data, items, headId, headBytes, indexSynced, dataSynced,
          dataClosed, durable, leftover, damaged, faults>>

Files == 0 .. MaxFiles

Entry == [file : {f \in Files : f < FileNumbers}, offset : Nat]

ZeroEntry == [file |-> 0, offset |-> 0]

Smaller(m, n) == IF m <= n THEN m ELSE n

\* A new table after its first repair: the zero entry is written and synced.
Init ==
    /\ index = <<ZeroEntry>>
    /\ data = [f \in Files |-> <<>>]
    /\ items = 0
    /\ headId = 0
    /\ headBytes = 0
    /\ indexSynced = 1
    /\ dataSynced = [f \in Files |-> 0]
    /\ dataClosed = [f \in Files |-> 0]
    /\ durable = 0
    /\ leftover = 0
    /\ damaged = FALSE
    /\ faults = 0
-----------------------------------------------------------------------------
\* marshallBinary: the file number is cut to a uint16.
marshallBinary(file, offset) == [file |-> file % FileNumbers, offset |-> offset]

\* The blob goes to the end of the given head file, which holds content, and
\* an entry for it to the end of the index.  The offset in the entry is counted
\* from the bytes of blobs written so far, not from the file.
WriteBoth(blob, head, content, bytes, left) ==
    /\ data' = [data EXCEPT ![head] = content \o blob]
    /\ headBytes' = bytes + Len(blob)
    /\ index' = Append(index, marshallBinary(head, bytes + Len(blob)))
    /\ items' = items + 1
    /\ leftover' = left
    /\ damaged' = (damaged \/ left > 0 \/ head >= FileNumbers)
    /\ UNCHANGED faults

\* head.Write fails after n bytes, and append returns with them in the file.
WriteFails(blob, head, content, bytes, left) ==
    /\ faults < MaxFaults
    /\ \E n \in 0 .. Len(blob) - 1 :
        /\ data' = [data EXCEPT ![head] = content \o SubSeq(blob, 1, n)]
        /\ leftover' = left + n
    /\ headBytes' = bytes
    /\ faults' = faults + 1
    /\ UNCHANGED <<index, items, damaged>>

\* index.Write fails, which append does not notice.  A part of an entry that is
\* written all the same is left out: it would shift every later one.
EntryFails(blob, head, content, bytes, left) ==
    /\ faults < MaxFaults
    /\ data' = [data EXCEPT ![head] = content \o blob]
    /\ headBytes' = bytes + Len(blob)
    /\ items' = items + 1
    /\ leftover' = left
    /\ damaged' = TRUE
    /\ faults' = faults + 1
    /\ UNCHANGED index

\* The end of append, once the head file is chosen.  No file is synced.
Write(blob, head, content, bytes, left) ==
    /\ headId' = head
    /\ \/ WriteBoth(blob, head, content, bytes, left)
       \/ WriteFails(blob, head, content, bytes, left)
       \/ EntryFails(blob, head, content, bytes, left)
    /\ UNCHANGED <<indexSynced, durable>>

\* Writing would not overflow the head file.
HasRoom(blob) == headBytes + Len(blob) <= maxFileSize

\* append, when the blob still fits into the head file.
AppendHere(blob) ==
    /\ items < MaxItems
    /\ HasRoom(blob)
    /\ Write(blob, headId, data[headId], headBytes, leftover)
    /\ UNCHANGED <<dataSynced, dataClosed>>

\* append, when it does not: the next data file is opened truncated, and the
\* old head is closed and opened again for reading.  The code does not sync it.
AppendNext(blob) ==
    /\ items < MaxItems
    /\ headId < MaxFiles
    /\ ~ HasRoom(blob)
    /\ Write(blob, headId + 1, <<>>, 0, 0)
    /\ dataSynced' = [dataSynced EXCEPT ![headId + 1] = 0]
    /\ dataClosed' = [dataClosed EXCEPT ![headId + 1] = 0,
                                        ![headId] = Len(data[headId])]

\* What Truncate makes of a file: its first n elements, with zeros if it is
\* shorter.
Resized(file, n, zero) ==
    [i \in 1 .. n |-> IF i <= Len(file) THEN file[i] ELSE zero]

\* Of the files' lengths, those that stay when the table is cut to this entry.
LengthsAt(lengths, last) ==
    [f \in Files |-> IF f < last.file THEN lengths[f]
                     ELSE IF f = last.file
                          THEN Smaller(lengths[f], last.offset)
                          ELSE 0]

\* truncate: cuts the index, removes the later data files, cuts the head file.
\* A crash half-way leaves what a crash after it leaves, but for later files
\* that nothing refers to and that append empties before using them.
Truncate(n) ==
    /\ n < items
    /\ index' = Resized(index, n + 1, ZeroEntry)
    /\ LET expected == index'[n + 1] IN
       /\ data' = [f \in Files |->
                     IF f < expected.file THEN data[f]
                     ELSE IF f = expected.file
                          THEN Resized(data[f], expected.offset, 0)
                          ELSE <<>>]
       /\ dataSynced' = LengthsAt(dataSynced, expected)
       /\ dataClosed' = LengthsAt(dataClosed, expected)
       /\ headId' = expected.file
       /\ headBytes' = expected.offset
    /\ items' = n
    /\ indexSynced' = Smaller(indexSynced, n + 1)
    /\ durable' = Smaller(durable, n)
    /\ leftover' = 0
    /\ UNCHANGED <<damaged, faults>>

\* Sync: the index and the head file, no other data file.
Sync ==
    /\ indexSynced' = Len(index)
    /\ dataSynced' = [dataSynced EXCEPT ![headId] = Len(data[headId])]
    /\ dataClosed' = [dataClosed EXCEPT ![headId] = Len(data[headId])]
    /\ durable' = items
    /\ UNCHANGED <<index, data, items, headId, headBytes, leftover, damaged,
                   faults>>
-----------------------------------------------------------------------------
\* The data files that can lose bytes, and the lengths they may come back with.
Unsynced == {f \in Files : dataSynced[f] < Len(data[f])}
Surviving(f) == dataSynced[f] .. Len(data[f])

\* The data files' lengths after a crash that left part of the unsynced ones.
LengthsAfter(part) ==
    [f \in Files |-> IF f \in Unsynced THEN part[f] ELSE Len(data[f])]

\* The k-th index entry points within its data file, given the files' lengths.
PointsWithin(k, len) == index[k].offset <= len[index[k].file]

\* Mutant: the bytes behind the last entry stay in the head file.
RepairIndexOnly(m, len) ==
    \E k \in 1 .. m :
        /\ PointsWithin(k, len)
        /\ \A j \in k + 1 .. m : ~ PointsWithin(j, len)
        /\ index' = SubSeq(index, 1, k)
        /\ data' = [f \in Files |-> SubSeq(data[f], 1, len[f])]
        /\ dataSynced' = len
        /\ dataClosed' = len
        /\ headId' = index[k].file
        /\ headBytes' = index[k].offset
        /\ items' = k - 1
        /\ indexSynced' = k
        /\ durable' = k - 1
        /\ leftover' = 0

\* repair, on the first m index entries and data files of the given lengths:
\* entries are cut from the end of the index until the last one points within
\* its data file, which is then cut to that point; both are synced.
Repair(m, len) ==
    \E k \in 1 .. m :
        /\ PointsWithin(k, len)
        /\ \A j \in k + 1 .. m : ~ PointsWithin(j, len)
        /\ LET last == index[k]
               kept == [len EXCEPT ![last.file] = last.offset]
           IN
           /\ index' = SubSeq(index, 1, k)
           /\ data' = [f \in Files |-> SubSeq(data[f], 1, kept[f])]
           /\ dataSynced' = kept
           /\ dataClosed' = kept
           /\ headId' = last.file
           /\ headBytes' = last.offset
        /\ items' = k - 1
        /\ indexSynced' = k
        /\ durable' = k - 1
        /\ leftover' = 0

\* The node dies and opens the table again (newCustomTable, repair).  An index
\* that ends in the middle of an entry loses that entry.
Crash ==
    /\ faults < MaxFaults
    /\ \E m \in indexSynced .. Len(index),
          part \in [Unsynced -> UNION {Surviving(f) : f \in Unsynced}] :
        /\ \A f \in Unsynced : part[f] \in Surviving(f)
        /\ Repair(m, LengthsAfter(part))
        /\ damaged' = (damaged \/ \E f \in Unsynced : part[f] < dataClosed[f])
    /\ faults' = faults + 1

Next ==
    \/ \E blob \in Blobs : AppendHere(blob) \/ AppendNext(blob)
    \/ \E n \in 0 .. MaxItems : Truncate(n)
    \/ Sync
    \/ Crash

Spec == Init /\ [][Next]_vars
-----------------------------------------------------------------------------
\* Mutant: a blob that starts a data file is read from where the last one ended.
StartOffsetInAnyFile(item) == IF item # 0 THEN index[item + 1].offset ELSE 0

\* getBounds: where the blob of an item starts.  A blob whose entry is the
\* first of its data file starts at zero.
StartOffset(item) ==
    IF item # 0 /\ index[item + 1].file = index[item + 2].file
    THEN index[item + 1].offset ELSE 0

\* Retrieve, item by item from zero: the bytes between the bounds.
Retrieve(item) ==
    LET end == index[item + 2]
        start == StartOffset(item)
    IN [p \in 1 .. end.offset - start |-> data[end.file][start + p]]

\* The counters in memory are those of the last index entry, or those of a new
\* head file whose first write failed.  The head file ends where they say, but
\* for the bytes that failed writes left.
HeadIsLastEntry ==
    /\ Len(index) = items + 1
    /\ \/ index[items + 1] = [file |-> headId, offset |-> headBytes]
       \/ index[items + 1].file < headId /\ headBytes = 0
    /\ Len(data[headId]) = headBytes + leftover

\* The entries follow the blobs through the data files.
EntriesAreOrdered ==
    /\ index[1] = ZeroEntry
    /\ \A i, j \in 1 .. items + 1 :
          i < j => \/ index[i].file < index[j].file
                   \/ /\ index[i].file = index[j].file
                      /\ index[i].offset <= index[j].offset

\* Every index entry points within the data file it names.
EveryItemIsReadable ==
    \A i \in 1 .. items + 1 : index[i].offset <= Len(data[index[i].file])

\* What the disk holds covers the durable items, and all the items of data
\* files that are not written to any more.
DiskCoversDurable ==
    /\ durable + 1 <= indexSynced
    /\ indexSynced <= items + 1
    /\ \A f \in Files : dataClosed[f] <= Len(data[f])
    /\ \A i \in 1 .. items + 1 :
          i <= durable + 1 \/ index[i].file < headId
             => index[i].offset <= dataClosed[index[i].file]

TypeOK ==
    /\ index \in Seq(Entry)
    /\ data \in [Files -> Seq(Nat)]
    /\ items \in 0 .. MaxItems
    /\ Len(index) \in 1 .. items + 1
    /\ headId \in Files
    /\ headBytes \in Nat
    /\ indexSynced \in Nat
    /\ dataSynced \in [Files -> Nat]
    /\ dataClosed \in [Files -> Nat]
    /\ durable \in Nat
    /\ leftover \in Nat
    /\ damaged \in BOOLEAN
    /\ faults \in Nat

\* Until the table is damaged, the index, the data files and the counters in
\* memory agree, whatever was appended, cut, synced, left half-written by a
\* failed append, lost in a crash and repaired: an item below items can be read
\* without running off the end of a file, truncate and repair have removed what
\* failed writes left, and no crash took what Sync wrote.
TableIsConsistent ==
    /\ TypeOK
    /\ ~ damaged => /\ HeadIsLastEntry
                    /\ EntriesAreOrdered
                    /\ EveryItemIsReadable
                    /\ DiskCoversDurable
-----------------------------------------------------------------------------
\* The table as the layer above sees it.
Ancient == INSTANCE AncientTable WITH
    table <- [list |-> [i \in 1 .. items |-> Retrieve(i - 1)],
              durable |-> durable]

\* Until it is damaged, the files implement the table: every step is one of the
\* abstract table.  Reading returns what was appended, in order, a failed append
\* leaves the items as they were, and opening the table after a crash finds a
\* prefix of the items with at least those of the last Sync.
ImplementsAncientTable ==
    Ancient!Init /\ [][damaged' \/ Ancient!Next]_vars
=============================================================================
