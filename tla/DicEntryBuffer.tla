--------------------------- MODULE DicEntryBuffer ---------------------------
(***************************************************************************)
(* DicEntryBuffer (src/src/core/dic/dic_entries.h): the materialised view  *)
(* of one dictionary entry, refilled from the packed entry storage.        *)
(*   plain entry:  numFeatures + numData ints, all in featureBuffer_; the  *)
(*                 single data row is counted down in dataBuffer_[0];      *)
(*   alias entry:  numFeatures ints and a repeat count n, then n rows of   *)
(*                 numData ints read one row per nextData() through        *)
(*                 remainingData_ into dataBuffer_.                        *)
(* A consumer fills a buffer through IndexedEntries::fillEntryData (or     *)
(* DictionaryEntries::fillBuffer), may hand a copy of it on (copy          *)
(* constructor / operator=), and reads rows with "while (nextData())       *)
(* use data()" (spec 4.1; the row consumers are outside src/).             *)
(*                                                                         *)
(* An IntListTraversal (outside src/) is the ints it was limited to and a  *)
(* read position.  std::array members of a default-constructed buffer are  *)
(* uninitialised: the first slot of dataBuffer_, the only one read before  *)
(* being written, starts as any value of Garbage.                          *)
(***************************************************************************)
EXTENDS Integers, Sequences, SequencesExt

CONSTANTS
  NumFeatures,  \* numFeatures of the dictionary
  NumData,      \* numData of the dictionary
  Vals,         \* feature and data values
  MaxAlias,     \* largest repeat count of an alias entry
  Garbage       \* values an uninitialised int may hold

ASSUME /\ NumFeatures \in Nat \ {0} /\ NumData \in Nat
       /\ MaxAlias \in Nat \ {0}

MaxFields == NumFeatures + NumData + 1   \* JPP_MAX_DIC_FIELDS, scaled down
Slots == 0 .. MaxFields - 1

Row == [1 .. NumData -> Vals]

(* the packed entries of the storage, with their logical rows *)
Entries ==
  [alias : {FALSE}, features : [1 .. NumFeatures -> Vals],
   rows : {<<r>> : r \in Row}]
  \cup
  [alias : {TRUE}, features : [1 .. NumFeatures -> Vals],
   rows : UNION {[1 .. n -> Row] : n \in 1 .. MaxAlias}]

VARIABLES
  buf,     \* the buffer filled from storage
  cpy,     \* a buffer the consumer copied buf into
  reader,  \* which of the two the consumer reads rows from
  entry,   \* the entry last filled
  rows,    \* data() rows read after each successful nextData()
  trues,   \* how many nextData() calls returned true since the fill
  filled,  \* how the buffer was last filled: "storage" or "value"
  phase    \* "idle", "iter" (reading rows), "end" (nextData was false)

vars == <<buf, cpy, reader, entry, rows, trues, filled, phase>>

(* a buffer: numFeatures_, numData_, featureBuffer_, dataBuffer_,        *)
(* remainingData_                                                        *)
Buffer == [nf : Nat, nd : Nat, fb : [Slots -> Int], db : [Slots -> Int],
           rem : [ints : Seq(Int), pos : Nat]]

----------------------------------------------------------------------------
(* Members of DicEntryBuffer *)

(* setCounts(numFeatures, numData) *)
SetCounts(b) == [b EXCEPT !.nf = NumFeatures, !.nd = NumData]

(* fills slots 0 .. Len(s)-1 of array a from s (IntListTraversal::fill) *)
FillSlots(a, s) == [x \in Slots |-> IF x < Len(s) THEN s[x + 1] ELSE a[x]]

(* mutant: a plain fill that does not reset the row counter *)
FillFromStorageNoCounter(b, e) ==
  IF e.alias
  THEN [b EXCEPT !.fb  = FillSlots(b.fb, e.features \o <<Len(e.rows)>>),
                 !.rem = [ints |-> FlattenSeq(e.rows), pos |-> 0]]
  ELSE [b EXCEPT !.fb  = FillSlots(b.fb, e.features \o e.rows[1]),
                 !.rem = [ints |-> <<>>, pos |-> 0]]

(* fillFromStorage(ptr, entryData) *)
FillFromStorage(b, e) ==
  IF e.alias
  THEN [b EXCEPT !.fb  = FillSlots(b.fb, e.features \o <<Len(e.rows)>>),
                 !.rem = [ints |-> FlattenSeq(e.rows), pos |-> 0]]
  ELSE [b EXCEPT !.fb  = FillSlots(b.fb, e.features \o e.rows[1]),
                 !.rem = [ints |-> <<>>, pos |-> 0],
                 !.db  = [@ EXCEPT ![0] = 1]]

(* nextData(): the buffer after the call and its result *)
NextData(b) ==
  CASE Len(b.rem.ints) = 0 ->
         [buf |-> [b EXCEPT !.db[0] = @ - 1], ok |-> b.db[0] - 1 >= 0]
    [] Len(b.rem.ints) - b.rem.pos = 0 ->
         [buf |-> b, ok |-> FALSE]
    [] OTHER ->
         [buf |-> [b EXCEPT
                     !.db = FillSlots(b.db, SubSeq(b.rem.ints, b.rem.pos + 1,
                                                   b.rem.pos + b.nd)),
                     !.rem.pos = @ + b.nd],
          ok |-> TRUE]

(* mutant: the data slice one int too long *)
DataWide(b) ==
  IF Len(b.rem.ints) = 0
  THEN [x \in 1 .. b.nd + 1 |-> b.fb[b.nf + x - 1]]
  ELSE [x \in 1 .. b.nd + 1 |-> b.db[x - 1]]

(* data() *)
Data(b) ==
  IF Len(b.rem.ints) = 0
  THEN [x \in 1 .. b.nd |-> b.fb[b.nf + x - 1]]
  ELSE [x \in 1 .. b.nd |-> b.db[x - 1]]

(* mutant: a copy that keeps the target's own alias traversal *)
CopyOfNoTraversal(src, old) ==
  [nf  |-> src.nf, nd |-> src.nd, rem |-> old.rem,
   fb  |-> [x \in Slots |-> IF x < src.nf + src.nd THEN src.fb[x] ELSE old.fb[x]],
   db  |-> [x \in Slots |-> IF x < src.nd THEN src.db[x] ELSE old.db[x]]]

(* the copy constructor, run in place by operator= over the old object:  *)
(* featureBuffer_ up to numFeatures_ + numData_, dataBuffer_ up to        *)
(* numData_; the slots it does not copy keep what the target held         *)
CopyOf(src, old) ==
  [nf  |-> src.nf, nd |-> src.nd, rem |-> src.rem,
   fb  |-> [x \in Slots |-> IF x < src.nf + src.nd THEN src.fb[x] ELSE old.fb[x]],
   db  |-> [x \in Slots |-> IF x < src.nd THEN src.db[x] ELSE old.db[x]]]

----------------------------------------------------------------------------
(* IndexedEntries::fillEntryData: setCounts, then fillFromStorage *)
FillEntryData ==
  /\ phase \in {"idle", "end"}
  /\ \E e \in Entries :
       /\ buf' = FillFromStorage(SetCounts(buf), e)
       /\ entry' = e
  /\ reader' = "buf" /\ rows' = <<>> /\ trues' = 0 /\ filled' = "storage"
  /\ phase' = "iter"
  /\ UNCHANGED cpy

(* the consumer copies the buffer and goes on reading from the copy *)
CopyBuffer ==
  /\ phase = "iter" /\ reader = "buf"
  /\ cpy' = CopyOf(buf, cpy) /\ reader' = "cpy"
  /\ UNCHANGED <<buf, entry, rows, trues, filled, phase>>

(* one turn of "while (b.nextData()) use(b.data())" *)
ReadRow ==
  /\ phase = "iter"
  /\ LET b == IF reader = "buf" THEN buf ELSE cpy
         r == NextData(b)
     IN  /\ IF reader = "buf" THEN buf' = r.buf /\ UNCHANGED cpy
                             ELSE cpy' = r.buf /\ UNCHANGED buf
         /\ rows' = IF r.ok THEN Append(rows, Data(r.buf)) ELSE rows
         /\ trues' = IF r.ok THEN trues + 1 ELSE trues
         /\ phase' = IF r.ok /\ trues < MaxAlias + 1 THEN "iter" ELSE "end"
  /\ UNCHANGED <<reader, entry, filled>>

(* overwriteFeaturesWith(newFeatures): slots 0 .. n-1 of featureBuffer_ *)
OverwriteFeatures(b, nf) == [b EXCEPT !.fb = FillSlots(@, nf)]

(* the consumer replaces the features of the entry it is reading by a    *)
(* slice of numFeatures or fewer values                                   *)
OverwriteFeaturesWith ==
  /\ phase = "iter" /\ reader = "buf"
  /\ \E n \in 0 .. NumFeatures, f \in [1 .. NumFeatures -> Vals] :
       LET nf == SubSeq(f, 1, n) IN
       /\ buf' = OverwriteFeatures(buf, nf)
       /\ entry' = [entry EXCEPT !.features =
                      [x \in 1 .. NumFeatures |-> IF x <= n THEN nf[x] ELSE @[x]]]
  /\ UNCHANGED <<cpy, reader, rows, trues, filled, phase>>

EmptyBuffer(g) ==
  [nf |-> 0, nd |-> 0, fb |-> [x \in Slots |-> 0],
   db |-> [x \in Slots |-> IF x = 0 THEN g ELSE 0],
   rem |-> [ints |-> <<>>, pos |-> 0]]

(* what a buffer filled by value stands for: features all v and no row,  *)
(* or one data row of v                                                   *)
ValueEntries ==
  [alias : {FALSE}, features : [1 .. NumFeatures -> Vals],
   rows : {<<>>} \cup {<<r>> : r \in Row}]

(* fillFeaturesWithValue(v): every feature slot is v, no data row *)
FillFeaturesWithValue ==
  /\ phase = "end"
  /\ \E v \in Vals :
       /\ buf' = [buf EXCEPT !.fb = [x \in Slots |-> v], !.db[0] = 0]
       /\ entry' = [alias |-> FALSE, features |-> [x \in 1 .. NumFeatures |-> v],
                    rows |-> <<>>]
  /\ reader' = "buf" /\ rows' = <<>> /\ trues' = 0 /\ filled' = "value"
  /\ phase' = "iter"
  /\ UNCHANGED cpy

(* fillDataWithValue(v): the numData slots after the features are v, one *)
(* row; the features are left as they were                                *)
FillDataWithValue ==
  /\ phase = "end"
  /\ \E v \in Vals :
       /\ buf' = [buf EXCEPT
                    !.fb = [x \in Slots |-> IF x >= buf.nf /\ x < buf.nf + buf.nd
                                          THEN v ELSE buf.fb[x]],
                    !.db[0] = 1]
       /\ entry' = [alias |-> FALSE,
                    features |-> [x \in 1 .. NumFeatures |-> buf.fb[x - 1]],
                    rows |-> <<[x \in 1 .. NumData |-> v]>>]
  /\ reader' = "buf" /\ rows' = <<>> /\ trues' = 0 /\ filled' = "value"
  /\ phase' = "iter"
  /\ UNCHANGED cpy

Init ==
  /\ \E g1, g2 \in Garbage : buf = EmptyBuffer(g1) /\ cpy = EmptyBuffer(g2)
  /\ reader = "buf" /\ entry = CHOOSE e \in Entries : TRUE
  /\ rows = <<>> /\ trues = 0 /\ filled = "storage" /\ phase = "idle"

Next ==
  \/ FillEntryData \/ FillFeaturesWithValue \/ FillDataWithValue
  \/ CopyBuffer \/ ReadRow \/ OverwriteFeaturesWith

Spec == Init /\ [][Next]_vars

----------------------------------------------------------------------------
(* Properties *)

TypeOK ==
  /\ buf \in Buffer /\ cpy \in Buffer
  /\ reader \in {"buf", "cpy"} /\ entry \in Entries \cup ValueEntries
  /\ filled \in {"storage", "value"}
  /\ rows \in Seq(Row) /\ trues \in 0 .. MaxAlias + 1
  /\ phase \in {"idle", "iter", "end"}

(* Reading an entry of the storage row by row, from the filled buffer or  *)
(* from a copy taken at any point of the loop, yields exactly its logical *)
(* rows: one for a plain entry, the repeat count for an alias, each with  *)
(* its own data, and then stops (the buffer fails closed, spec section    *)
(* 3), whatever entries the buffer held before.                           *)
RowsMatchEntry == phase = "end" /\ filled = "storage" => rows = entry.rows

(* A buffer filled by value (fillFeaturesWithValue / fillDataWithValue)  *)
(* reads as the rows it was filled with, whatever entry it held before.   *)
ValueFillRowsMatch == phase = "end" /\ filled = "value" => rows = entry.rows

(* The rows a buffer still holds for its reader: the counted copies of   *)
(* the plain row, or the unread rows of the alias traversal.              *)
PendingRows(b) ==
  IF Len(b.rem.ints) = 0
  THEN [x \in 1 .. IF b.db[0] > 0 THEN b.db[0] ELSE 0 |-> Data(b)]
  ELSE IF b.nd = 0 THEN <<>>
  ELSE [x \in 1 .. (Len(b.rem.ints) - b.rem.pos) \div b.nd |->
          [y \in 1 .. b.nd |-> b.rem.ints[b.rem.pos + (x - 1) * b.nd + y]]]

ReaderBuf == IF reader = "buf" THEN buf ELSE cpy

Rows == INSTANCE EntryRows WITH pending <- PendingRows(ReaderBuf), got <- rows

(* the storage reading protocol alone: fills from the entry store, copies, *)
(* row reads and feature overwrites                                        *)
StorageNext == FillEntryData \/ CopyBuffer \/ ReadRow \/ OverwriteFeaturesWith

StorageSpec == Init /\ [][StorageNext]_vars

(* The buffer implements the entry-row reader of spec 4.1: every fill     *)
(* from storage, every nextData()/data() turn and every copy the consumer *)
(* takes mid-loop (copy constructor, operator=) is a step of EntryRows or *)
(* leaves its rows-still-to-come unchanged, with the buffer's counter,    *)
(* alias traversal and data slots as the row source.                      *)
RefinesEntryRows == Rows!Spec

=============================================================================
