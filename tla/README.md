# TLA+ models of the Juman++ analysis core

This directory models the lattice-construction core of Juman++ with TLA+
modules that the TLC model checker checks. The sources it follows are under
`src/src/`:
- the unknown-word generators;
- the seed and connectability phase of the lattice builder;
- the dictionary entry buffer, and its abstract row contract;
- the unknown-node pattern check and template copy;
- the sliceable arrays;
- the analysis-path cursor;
- two clients of the core: the lattice output format and the training-example
  reader.

Code that has no body under `src/` follows `spec.md`, and `PROJECT.json`
marks it `spec_modelled`. That covers the trie step, `sortSeeds`,
`checkConnectability`, `prepare`, `AnalysisPath::fillIn`, and the consumers of
entry rows.

## The system and how its parts interact

One analysis runs single-threaded over one `LatticeBuilder`. The trie and the
entry store are read-only.

1. **Dictionary lookup.** The trie (`IndexTraversal::step`, which answers
   `Ok`, `NoLeaf` or `NoNode`) is walked from every position. One seed
   (`LatticeNodeSeed`: entry pointer, start, end) is appended for every
   dictionary surface.
2. **Unknown-word makers** (`unk_nodes_creator.cc`) run one after the other.
   - `ChunkingUnkMaker` walks the trie along a run of its character class. It
     emits the current span on `NoLeaf`. On `NoNode` it emits every remaining
     suffix span of the run.
   - `SingleUnkMaker` emits one length-1 seed per in-class codepoint that is
     not itself a word.
   - Both record `notPrefix` through `UnkNodesContext::makePtr`.
3. **Builder.** `sortSeeds` orders the seeds by (start, end, pointer).
   `checkConnectability` makes one forward pass from BOS and one backward pass
   from EOS. `prepare` fails if no boundary is usable. None of the three has
   a body under `src/`; `seeds_` is the vector `appendSeed` grows.
4. **Entry buffer.** `DicEntryBuffer` materialises an entry. A plain entry
   holds one row. An alias entry holds a repeat count and that many rows, read
   with `nextData()`. The buffer is copied by value. A fill from a truncated
   entry store fails after `setCounts` and a partial write.
   `UnkNodesContext::dicPatternMatches` reads the entries of a trie node
   through such a buffer to decide whether a dictionary word already matches
   an unknown-node template. `makePtr(surface, conf, eptr, feature)` copies a
   template entry's features into a new node and overwrites the surface fields
   with `hashUnkString(surface)`.
5. **Decoding.** After beam search, `AnalysisPath` holds the beam pointers of
   the best path. Clients walk it with `nextBoundary`/`nextNode` (asking
   `isLastBoundary()` on the way), seek it with `moveToBoundary`, or read
   one chunk with `moveToChunk` then `nextNode`. The clients are output
   formats and trainers.

6. **Lattice output** (`jumandic/shared/lattice_format.cc`). `fillInfo` walks
   the first min(beam size, outputN) paths of the EOS beam back to BOS. For
   each node it records the ranks and the distinct previous nodes.
   `publishResult` sorts the nodes by (boundary, position) and numbers them
   from 1. `format` prints the MA-SCORE line, then one line per dictionary
   entry of each node.
7. **Sliceable arrays** (`util/sliceable_array.h`). `Sliceable` and
   `ConstSliceable` view a flat slice as rows. `topRows` and `rows` derive
   nested views. `row(i).at(c)` reads an element.
8. **Training input** (`core/training/full_example.cc`). `FullExampleReader`
   reads one fully annotated example per call from a SimpleCsv stream (one
   word per line, EOS-terminated) or a DoubleCsv stream (one example per
   line).

## Modules

| module | models | state | actions |
|---|---|---|---|
| `UnkMakers` | `ChunkingUnkMaker::spawnNodes`, `SingleUnkMaker::spawnNodes` | dictionary surfaces, input, maker index, loop counters `i`/`j`, the trie path, `seeds_` as a sequence (so a repeated `appendSeed` shows) | one action per branch of the two loops: skip, enter, trie step Ok / NoLeaf / NoNode, NoNode suffix emit and exit, inner exit, single step; `MakerDone` |
| `LatticeBuilder` | lookup, makers, `sortSeeds`, `checkConnectability`, `prepare` | `UnkMakers` state (by `INSTANCE`), dictionary seeds, sorted seeds, the two marked sets | `LookupDic`, `RunUnkMakers`, `SortSeeds`, one step per seed of each pass, `Prepare` |
| `AnalysisPath` | `AnalysisPath` in `analysis_result.h` | `elems_`, `offsets_`, `currentChunk_`, `currentNode_`, plus what the client has observed | `FillIn`, `Reset` (which also picks the next client: walk, seek or chunk reader), `NextBoundary` (recording `IsLastBoundary`), `NextNode`, `MoveToBoundary` (its loop is the recursive operator `MoveLoop`), `ReadChunk` (`MoveToChunk` to a chunk of the path) |
| `PathWalk` | the abstract walk of spec 4.4: the path's pointers handed out one at a time in morpheme order | `path`, `handed` | `Load`, `Restart`, `Hand` |
| `FullExampleReader` | `initCsv`, `initDoubleCsv`, `readFullExample`, `readFullExampleCsv`, `readFullExampleDblCsv`, `readSingleExampleFragment` | `mode_`, `finished_`, the input lines and the reader position, the example's `data_`, `lengths_`, `surface_`, `strings_` (each value with the text its view points into), `comment_`, the last call's status, the rows `csv2_` has been given | `ReadFullExample`: one whole call, its loops as the recursive operators `CsvLoop` and `DblTokens`; `Init` picks the mode and input (`InitCsv`/`InitDoubleCsv`) |
| `LatticeFormat` | `LatticeFormat::format`, `fillInfo`, `addElem`, `publishResult`, `fixPrevs`, `idOf` | the EOS beam (real paths best first), `outputN`, `info`, `infoView`, the MA-SCORE ranks and the beam indices that loop read, the node lines | `Analyze` (a new beam and outputN), `Format` (one whole call; loops as `FillLoop`, `WalkBack`, `ScoreLoop`) |
| `DicEntryBuffer` | `DicEntryBuffer`, `IndexedEntries::fillEntryData` | two buffers (`numFeatures_`, `numData_`, `featureBuffer_`, `dataBuffer_`, `remainingData_`), and the rows a reading client got | `FillEntryData`, `FillFeaturesWithValue`, `FillDataWithValue`, `CopyBuffer` (copy constructor run in place by `operator=`), `ReadRow` (one `nextData` then `data`), `OverwriteFeaturesWith` (mid-loop, with at most `numFeatures` values). `StorageSpec` is the storage protocol alone. |
| `EntryRows` | the abstract reader of spec 4.1: rows handed out one at a time, in order, then none | `pending`, `got`, `phase` | `Fill`, `Read`, `Exhausted` |
| `UnkTemplate` | `dicPatternMatches`, `makePtr(surface, conf, eptr, feature)`, `hashUnkString`, `fillPatternFields`, the failure branch of `fillFromStorage` | the entries of one trie node, how many of their pointers the pointer list can decode, the entry cursor, the reused `featureBuffer_`, the call's result, the last template node | `PatternStart`, `PatternStep` (one turn of the loop while `ReadOnePtr`), `PatternEnd` (`readOnePtr()` false: the list is empty or its next pointer cannot be decoded), `MakeTemplatePtr` |
| `SliceableArray` | `Sliceable`, `ConstSliceable` | the current view (offset, size, `rowSize_`, `numRows_`, mutable or const), the storage index the last read reached, the DCHECK that stopped the process | `NewArray`, `TakeTopRows`, `TakeRows` (mutable, const-member and `ConstSliceable` overloads), `ReadAt` |

**Data abstraction.**
- Codepoints are model values.
- A character class is a name.
- The trie is its set of surfaces. Its step status is derived from that set: a
  surface is `Ok`, a strict prefix is `NoLeaf`, anything else is `NoNode`.
- An unknown entry pointer is reduced to its maker and its `notPrefix` value.
- Feature and data ints come from `{0, 1}`.
- `std::array` slots are kept exactly (`JPP_MAX_DIC_FIELDS` scaled to
  `numFeatures + numData + 1`), because the properties of the entry buffer are
  about which slot is read.
- An uninitialised `dataBuffer_[0]` may start as any value in `{-1, 0, 2}`.
- A training word is its surface (a sequence of codepoints), the value of one
  annotated field, and the first failure its parsing meets (`utf8`, `fields`,
  `import`, or none). A value str2int knows is stored as its id, any other as
  `~item`. A word also records whether its reader's row was quoted, and a
  DoubleCsv line whether `csv_` read it with quotes. `import` fails only
  when the import is tried, that is when `csv_.rowHadQuoted()`.
- `CsvReader` is not in this repository. Its fields are modelled by what the
  import guard of `readSingleExampleFragment` presupposes of them: a field
  of an unquoted row is a view into the text the reader was given; a field
  of a row with quotes is a view into the reader's row buffer, valid until
  its next row.
- A dictionary entry of `UnkTemplate` is its feature values, whether it is
  an alias, and how many ints the storage is short of it (0 when intact).
  A trie node's pointer list is its entries and how many pointers its
  storage holds, which may be one short of the list's count.
  An uninitialised feature slot holds a value of `Garbage` (`-1`).
- A surface is reduced to its murmur hash. `hashUnkString` keeps its
  arithmetic (truncate, or in the top bit, reinterpret as signed) at a width
  of 8 bits for the code's 32, since TLC's integers are 32-bit. The hash
  values include 0, one just below and one at the top bit, and one above the
  truncation width.
- A sliceable array is its offset and length in the storage; a read is the
  storage index it reaches.
- A ConnectionPtr of the output lattice is reduced to its node and the node
  before it on the path. The beam is a sequence of distinct BOS-to-EOS paths.
  Scores and strings are left out.

## Runs

| run | what it checks | result |
|---|---|---|
| `lattice_builder` | The makers' own properties, stated in `UnkMakers` and checked on the build's inputs: `UnkSeedsExact`: each maker appends exactly the in-class spans that are not dictionary words, none of them twice. This is checked against a reference set definition. `NotPrefixSound`: the placeholder flag is true exactly for spans that are no prefix of a word. `AllMakersReturn`: the makers terminate. Then `CoveredInputConnects`: the dictionary seeds and the makers' seeds together connect every boundary of an input the makers' classes cover, so the build succeeds. | pass |
| `analysis_path` | `WalkSeesEveryPointerOnce`: a full walk yields every pointer once, in boundary order, `totalNodes()` of them, and `isLastBoundary()` holds at the final boundary. `SeekAgreesWithPath`: increasing seeks answer exactly membership in the path. `ChunkReadSeesSlice`: after `moveToChunk(pos)`, reading to the end yields exactly that boundary's pointers, whatever the cursor did before. `RefinesPathWalk`: see below. | pass |
| `full_example_reader` | `ReadReturnsNextExample`: in both modes, each call fails exactly when a word of the next example is unreadable. Otherwise it returns that example's lengths and values, stops at the following example, and sets `finished_` exactly when the input ran out. `ReadFailureLeavesPrefix`: a failed call leaves the words before the failing one, and `lengths_` also holds the failing word's length when it failed after `preprocessRawData`. `ReadingEnds`: a reading client reaches the end or a failure. | pass |
| `full_example_quoted` | `StringsStayValid`: every `strings_` entry names text that is still there (the input, `charBuffer_`, or the row `csv2_` holds now). | violation |
| `lattice_format` | `OutputIsTopLattice`: the lines cover exactly the nodes of the top-N paths, in id order. Previous ids are 0 exactly at the input start and otherwise name lines ending right before. The ranks are the 1-based ranks of the paths through the node. | pass |
| `lattice_format_score_bound` | `ScoreLoopInBeam` with outputN above the beam size. | violation |
| `analysis_path_p5` | Spec P5's "strictly decreasing" boundary order. | violation |
| `entry_buffer` | `RowsMatchEntry`: reading any plain or alias entry, from the buffer or from a copy made mid-loop, gives exactly its logical rows whatever the buffer held before (numData = 1). `RefinesEntryRows`: see below. | pass |
| `entry_buffer_value_fill` | Rows read after `fillDataWithValue`. | violation |
| `unk_template` | `PatternCheckExact`: with intact entries, `dicPatternMatches` answers exactly whether some entry that its pointer list lets it reach agrees with the template on every pattern field. The buffer is reused across entries, and `goto nextWord` skips to the next one. | pass |
| `unk_template_truncated` | `NoSilentFallback`: the answer over all the node's entries (`AnswerOverAllEntries`) and `TemplateNodeCopiesEntry` (a template node holds the entry's features, with exactly the surface fields set to the negative surface hash), over storage that may end 1 or 4 ints short of an entry and pointer lists that may be one pointer short. | violation |
| `sliceable_array` | `RowsContractAgrees`: a `rows(start, end)` call within the contract the mutable `Sliceable::rows` checks (`start <= end <= numRows_`) passes the checks of every overload. | violation |

### Refinement

`EntryRows` is the abstract specification of spec 4.1. After a fill, the
reader hands out the entry's rows one at a time, in order, and then reports
that none are left. `DicEntryBuffer` instantiates it:

    Rows == INSTANCE EntryRows WITH pending <- PendingRows(ReaderBuf), got <- rows

`PendingRows` is what `remaining()` promises. For a plain entry, that is
`dataBuffer_[0]` copies of `data()`. For an alias, it is the unread rows of
`remainingData_`. `ReaderBuf` is the buffer or the copy the client reads.
The `entry_buffer` run checks `RefinesEntryRows == Rows!Spec` under
`StorageSpec`:
- every storage fill is the abstract `Fill`;
- every `nextData()`/`data()` turn is `Read` or `Exhausted`;
- every mid-loop copy leaves the pending rows unchanged.

The mutant `CopyOfNoTraversal` is a copy that keeps the target's old
`remainingData_` instead of the source's. It breaks the refinement. The value fills are left out of `StorageSpec`,
because they do not refine `EntryRows` (see the `entry_buffer_value_fill`
finding).

`PathWalk` is the abstract walk of spec 4.4: a path of pointers, handed out
one at a time in morpheme order. `AnalysisPath` instantiates it:

    Walk == INSTANCE PathWalk WITH Ptrs <- ConnectionPtr, path <- ForwardElems,
                                   handed <- WalkHanded

`WalkHanded` is what a walking client has seen, and empty for the seeking
and chunk-reading clients. The `analysis_path` run checks
`RefinesPathWalk == Walk!Spec`:
- `FillIn` is `Load`;
- `Reset` is `Restart`;
- every `NextNode` of a walking client is `Hand`;
- every other step leaves the walk unchanged.

Where `WalkSeesEveryPointerOnce` judges a finished walk, the refinement
judges every prefix. The mutant `NodeAtFromEnd` reads a chunk against beam
order and breaks it.

The violations are explained in `PROJECT.json` under `findings`:

- **The walk order is increasing.** Chunk `c` is read at
  `offsets_[size - c - 2]`. The header comment places that slice BOS-first,
  so a walk visits boundaries in increasing order. Spec P5 says strictly
  decreasing. `moveToBoundary` relies on the increasing order.
- **A truncated entry is a silent fallback.**
  - `dicPatternMatches` answers true when `fillEntryData` fails. Only a
    debug build's `JPP_DCHECK(false)` stops it first. So a corrupt entry
    suppresses the unknown node.
  - `makePtr` only logs a failed `fillBuffer`. It then copies the
    `numFeatures_` slots that `setCounts` exposed, uninitialised ones
    included, into the node.
  - `readOnePtr` is false when `readOneCumulative` fails, so a pointer
    list that ends early reads as the end of the list. A node whose
    matching entry lies past the break answers false.
  - Spec 7 says entry-store underruns abort the analysis.
- **The MA-SCORE loop is not clamped to the beam.** It runs `i < outputN`
  over `eosBeam.at(i)` and stops only at a fake element. So a full beam with
  a larger topN reads past the end of the beam. `fillInfo` clamps the same
  loop (line 27).
- **DoubleCsv decides the import by the wrong reader.**
  `readSingleExampleFragment(csv2_, result)` tests `csv_.rowHadQuoted()`,
  not the row of `csv2_` that the fields come from. A word that `csv2_`
  reads with quotes, on a line `csv_` reads without them (`a,"b",c` split
  on the token separator), keeps its unknown value in `strings_` as a view
  into `csv2_`'s row. The next word's `csv2_.initFromMemory` replaces that
  row. TLC's counterexample is a one-line input of such a word followed by
  any second word.
- **The const `rows` overloads reject the empty tail slice.**
  `Sliceable::rows` checks `start <= numRows_` (lines 62-65).
  `ConstSliceable::rows` (line 124) and the const `Sliceable::rows`
  (line 150) check `JPP_DCHECK_IN(start, 0, numRows_)`, which excludes
  `start = numRows_`. So `rows(n, n)`, and `rows(0, 0)` of an empty array,
  abort a debug build through a const view only. TLC's counterexample is
  `rows(0, 0)` through the const member of an empty `Sliceable`.
- **Value fills do not reset the alias traversal.** `fillDataWithValue`
  leaves an earlier alias's `remainingData_` in place, so the value row is
  never read.

Every property of a passing run has a mutant in `PROJECT.json`: a plausible
bug in a mapped definition (`...PastEnd`, `...NoReset`, `...SkipFirst`, ...),
written as an operator beside it. TLC finds each mutant violating the
property.

### Bounds and why they suffice

**`MCLatticeBuilder`: input of up to 4 codepoints over `{a, b, kk, z}`.**
- The dictionary is any subset of six words. Among them is a word that
  extends another (`a`, `ab`), a word whose proper prefixes are not words
  (`bab`), a cross-class word (`b kk`), and the single `z`.
- The makers are a chunking maker for `a`/`b` and a single maker for `kk`.
- Every trie status therefore occurs:
  - at the first and at later steps;
  - inside a class run and at its end;
  - the NoNode suffix loop ends both at a class change and at the end of the
    input.
- `z` has a class no maker handles. This gives inputs that cannot connect,
  so `prepare` fails, unless the dictionary word `z` covers it.
- `sortSeeds` is modelled as `SortSeq` over the dictionary seeds (listed
  by `FoldSet`) followed by `seeds_`, which stays cheap for the seeds of a
  4-codepoint input (`SetToSortSeq` would enumerate every function onto the
  set).

**`MCAnalysisPath`: up to 4 boundaries, beams of up to 2, seek targets 1..6.**
- The targets lie below, inside and above the path, so seeks find, overshoot
  and exhaust.
- The chunk reader moves to every chunk, after a walk, a seek or another
  chunk read. Its cursor therefore starts from every stale node index.

**`MCDicEntryBuffer`:**
- aliases of up to 3 rows (the count of Scenario B);
- one feature field;
- copies taken at every point of the read loop.
- overwrites of 0 or 1 features, at every point of the read loop.

**`MCUnkTemplate`: 3 features, of which field 2 is replaced by the surface;
trie nodes of up to 2 entries; template `<<1, 0, 1>>`.**
- Entries that match, mismatch on either pattern field, and aliases occur.
  A node whose first entry mismatches and second matches exercises the reuse
  of the buffer and `goto nextWord`.
- Pointer lists are intact or one pointer short, in both runs. A list of
  two entries one short stops after the first.
- In the violation run, the storage is 1 or 4 ints short of an entry. With
  1 short, the fill writes every feature but misses the alias count or the
  data int. With 4 short, it writes nothing, so the buffer keeps garbage or
  the previous entry. Both happen for both entry kinds.

**`MCSliceableArray`: row sizes 1 and 2, arrays of up to 3 rows.**
- This reaches empty arrays and empty slices, slices at the start and at the
  end, and chains of views, mutable and const.

**`MCFullExampleReader`: SimpleCsv inputs of up to 3 lines, DoubleCsv of one
line of up to 2 tokens.**
- Surfaces of 1 and 2 codepoints; one known and one unknown value.
- Every failure kind occurs, so do comment lines and a missing final EOS.
- Rows with and without quotes occur for every word and DoubleCsv line. A
  two-word line lets a word's `csv2_` row be replaced by the next word's.
- Two examples in one input exercise the state carried between calls.

**`MCLatticeFormat`: a 3-codepoint lattice of 6 nodes and 4 paths, beam size
3, outputN in 1..3 (4 in the violation run).**
- Paths share nodes and previous nodes, and one node is an alias of two
  entries.
- Beams are full, partly fake, or (for the empty input) absent.

### Fairness

Each analysis is one synchronous loop nest with no waits (spec section 5).
Weak fairness of the whole next-state relation only says that the program
keeps executing. The termination property `AllMakersReturn` rests on it. `ReadingEnds` rests on weak fairness of `ReadFullExample`: the
client keeps calling while the reader is neither finished nor failed. The other
modules check safety only. `RefinesEntryRows` is a safety property: it
asserts no fairness.

## Observations that are not runs

TLC also shows the following. They are listed as hazards in
`PROJECT.json`:
- With `NumData = 0`, `RowsMatchEntry` fails. An alias counts down a stale
  `dataBuffer_[0]`.
- Spec Scenario B counts n - 1 true answers for an alias of n rows. The code
  gives n.

Hazards that no caller under `src/` reaches, or whose code has no body
under `src/`, and that the models therefore leave out:
- `BoundaryInfo`'s seed counts are `u16`, which `types.hpp` defines as
  `int16_t`. No code under `src/` fills the struct, so the counting that
  could overflow is not modelled.
- `moveToChunk(numBoundaries())` passes its `DCHECK`, and the next
  `nextNode` then reads `offsets_[-1]`.
- `overwriteFeaturesWith` with more than `numFeatures` values overwrites a
  plain entry's data row.

## Plan (remaining work)

1. **`full_example.cc`:** the `surface_` and `comment_` that a reused example
   carries over (hazard at line 12). Its intended contract is decided by
   callers outside `src/`. A reader with more than one annotated field would
   also show that one failed import leaves the earlier fields' values in
   `data_`.
2. **`contains()`:** it would need `ConnectionPtr::previous` in the path
   model.

## Not modelled

`LatticeCompactor` (spec P3) is not modelled. Only its declaration is under
`src/`, apart from `numDeleted()`. `computeHashes`, `compact` and
`compactBoundary` have no body here. A model of them would be a model of
the spec's prose alone, with nothing in the code to hold it to.
`constructSingleBoundary`, `makeBos`, `makeEos` and `fillEnds` are in the
same position.

These parts have no state machine:
- the scorer interfaces (`score_api.h`);
- `CoreHolder` (`core.h`);
- `PartialTrainer`;
- the dictionary-build helpers;
- the morph format;
- the declarations of `innode_features.h`.

`score_api.h`, `partial_trainer.h`, `dictionary.h` and `dic_build_detail.h`
are declarations only.

Packed-varint decoding and hashing are data transformations. The models keep
only their effect. For example, `readOneCumulative` either yields the next
pointer or fails.
