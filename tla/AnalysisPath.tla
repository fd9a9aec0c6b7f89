---------------------------- MODULE AnalysisPath ----------------------------
(***************************************************************************)
(* AnalysisPath (src/src/core/analysis/analysis_result.h): the flattened   *)
(* beam pointers of an analysed lattice with a cursor over them.  elems_   *)
(* holds the ConnectionPtrs of every boundary on the path in EOS-to-BOS    *)
(* order, offsets_ the cumulative slice sizes; the cursor is               *)
(* (currentChunk_, currentNode_).  fillIn is not in src/ and follows spec  *)
(* section 4.4: it walks the lattice from EOS backwards and stores each    *)
(* boundary's beam slice, the EOS-adjacent boundary first.                 *)
(*                                                                         *)
(* A client of the path (a trainer or an output format) either walks it    *)
(* (nextBoundary / currentBoundary / nextNode until each returns false)    *)
(* or seeks boundaries in increasing order with moveToBoundary.  C++       *)
(* vectors are 0-based: offsets_[x] is offsets[x + 1] here.                *)
(***************************************************************************)
EXTENDS Integers, Sequences, SequencesExt, FiniteSets

CONSTANTS
  Boundaries,  \* boundary numbers a path may hold slices for
  MaxBeam,     \* largest beam slice of one boundary
  Targets      \* boundaries a seeking client may ask for

ASSUME /\ Boundaries \subseteq Nat /\ Targets \subseteq Nat
       /\ MaxBeam \in Nat \ {0}

VARIABLES
  chunks,        \* the lattice path fillIn last walked: [boundary, size],
                 \* EOS first
  elems,         \* elems_: ConnectionPtr [boundary, right]
  offsets,       \* offsets_
  currentChunk,  \* currentChunk_
  currentNode,   \* currentNode_
  mode,          \* how the client uses the path since the last reset
  bseen,         \* currentBoundary() values the walking client read
  seen,          \* ConnectionPtrs nextNode returned to the walking client
  lastTarget,    \* last boundary the seeking client asked for
  found,         \* targets moveToBoundary returned true for
  missed,        \* targets moveToBoundary returned false for
  lastAt,        \* the chunk at which the walk saw isLastBoundary()
  chunkAt        \* the chunk the chunk-reading client moved to

cursorVars == <<currentChunk, currentNode>>
clientVars == <<mode, bseen, seen, lastTarget, found, missed, lastAt, chunkAt>>
vars == <<chunks, elems, offsets, cursorVars, clientVars>>

ConnectionPtr == [boundary : Boundaries, right : 0 .. MaxBeam - 1]

(* paths of the lattice: boundaries in decreasing order, each with a      *)
(* non-empty beam slice                                                   *)
LatticePaths ==
  UNION {{[x \in 1 .. Cardinality(B) |->
             [boundary |-> SetToSortSeq(B, >)[x], size |-> sz[x]]] :
            sz \in [1 .. Cardinality(B) -> 1 .. MaxBeam]} :
           B \in SUBSET Boundaries \ {{}}}

----------------------------------------------------------------------------
(* The members of AnalysisPath *)

Off(x) == offsets[x + 1]

(* numBoundaries() *)
NumBoundaries == Len(offsets) - 1

(* totalNodes() *)
TotalNodes == Len(elems)

(* totalNodesInChunk() *)
TotalNodesInChunk ==
  LET idx == Len(offsets) - currentChunk - 1 IN Off(idx) - Off(idx - 1)

(* remainingNodesInChunk() *)
RemainingNodesInChunk == TotalNodesInChunk - currentNode

(* the boundary of chunk c, as currentBoundary() computes it *)
BoundaryOfChunk(c) ==
  LET beginIdx == Len(offsets) - c - 2 IN elems[Off(beginIdx) + 1].boundary

(* currentBoundary() *)
CurrentBoundary == BoundaryOfChunk(currentChunk)

(* mutant: the chunk read from its end, against beam order *)
NodeAtFromEnd(n) ==
  LET beginIdx == Len(offsets) - currentChunk - 2 IN elems[Off(beginIdx + 1) - n]

(* the element nextNodePtr() returns for node n of the current chunk *)
NodeAt(n) ==
  LET beginIdx == Len(offsets) - currentChunk - 2 IN elems[Off(beginIdx) + n + 1]

(* mutant: isLastBoundary compares with numBoundaries() *)
IsLastBoundaryPastEnd == currentChunk = NumBoundaries

(* isLastBoundary() *)
IsLastBoundary == currentChunk = NumBoundaries - 1

(* moveToBoundary(t) from chunk c: nextBoundary until the boundary is t,  *)
(* backing up one chunk when it overshoots t                              *)
(* mutant: no step back on overshooting *)
RECURSIVE MoveLoopNoBackUp(_, _)
MoveLoopNoBackUp(c, t) ==
  LET c1 == c + 1 IN
  CASE ~(c1 < NumBoundaries)      -> [chunk |-> c1, res |-> FALSE]
    [] BoundaryOfChunk(c1) = t    -> [chunk |-> c1, res |-> TRUE]
    [] BoundaryOfChunk(c1) > t    -> [chunk |-> c1, res |-> FALSE]
    [] OTHER                      -> MoveLoopNoBackUp(c1, t)

RECURSIVE MoveLoop(_, _)
MoveLoop(c, t) ==
  LET c1 == c + 1 IN
  CASE ~(c1 < NumBoundaries)      -> [chunk |-> c1, res |-> FALSE]
    [] BoundaryOfChunk(c1) = t    -> [chunk |-> c1, res |-> TRUE]
    [] BoundaryOfChunk(c1) > t    -> [chunk |-> c1 - 1, res |-> FALSE]
    [] OTHER                      -> MoveLoop(c1, t)

----------------------------------------------------------------------------
(* fillIn(lattice): one slice of beam pointers per boundary, EOS first,   *)
(* offsets the running totals; the cursor starts before the first chunk.  *)
FillIn ==
  \E ch \in LatticePaths :
    /\ chunks' = ch
    /\ elems' = FlattenSeq([x \in 1 .. Len(ch) |->
                  [r \in 1 .. ch[x].size |->
                     [boundary |-> ch[x].boundary, right |-> r - 1]]])
    /\ offsets' = [x \in 1 .. Len(ch) + 1 |->
                     SumFunctionOnSet([y \in 1 .. Len(ch) |-> ch[y].size],
                                       1 .. x - 1)]
    /\ currentChunk' = -1 /\ currentNode' = -1
    /\ mode' = "walk" /\ bseen' = <<>> /\ seen' = <<>>
    /\ lastTarget' = -1 /\ found' = {} /\ missed' = {}
    /\ lastAt' = -1 /\ chunkAt' = -1

(* reset(): only the chunk cursor goes back; the client picks its use *)
Reset ==
  /\ chunks # <<>>
  /\ currentChunk' = -1
  /\ \E md \in {"walk", "seek", "chunk"} : mode' = md
  /\ bseen' = <<>> /\ seen' = <<>> /\ lastTarget' = -1
  /\ found' = {} /\ missed' = {} /\ lastAt' = -1 /\ chunkAt' = -1
  /\ UNCHANGED <<chunks, elems, offsets, currentNode>>

(* mutant: nextBoundary keeps currentNode_ *)
NextBoundaryNoReset ==
  /\ mode = "walk" /\ chunks # <<>>
  /\ currentChunk < NumBoundaries
  /\ currentChunk >= 0 => currentNode >= TotalNodesInChunk
  /\ currentChunk' = currentChunk + 1 /\ UNCHANGED currentNode
  /\ bseen' = IF currentChunk + 1 < NumBoundaries
              THEN Append(bseen, BoundaryOfChunk(currentChunk + 1)) ELSE bseen
  /\ UNCHANGED <<chunks, elems, offsets, mode, seen, lastTarget, found, missed,
                 chunkAt>>
  /\ lastAt' = IF IsLastBoundary' THEN currentChunk + 1 ELSE lastAt

(* nextBoundary(), called by a walking client until it returns false,    *)
(* after the nodes of the previous chunk are consumed; on true the       *)
(* client reads currentBoundary() and asks isLastBoundary()             *)
NextBoundary ==
  /\ mode = "walk" /\ chunks # <<>>
  /\ currentChunk < NumBoundaries
  /\ currentChunk >= 0 => currentNode >= TotalNodesInChunk
  /\ currentChunk' = currentChunk + 1 /\ currentNode' = -1
  /\ bseen' = IF currentChunk + 1 < NumBoundaries
              THEN Append(bseen, BoundaryOfChunk(currentChunk + 1)) ELSE bseen
  /\ UNCHANGED <<chunks, elems, offsets, mode, seen, lastTarget, found, missed,
                 chunkAt>>
  /\ lastAt' = IF IsLastBoundary' THEN currentChunk + 1 ELSE lastAt

(* mutant: nextNode called once more after it returned false *)
NextNodeOnceMore ==
  /\ mode \in {"walk", "chunk"}
  /\ currentChunk \in 0 .. NumBoundaries - 1
  /\ currentNode <= TotalNodesInChunk
  /\ currentNode' = currentNode + 1
  /\ seen' = IF TotalNodesInChunk - (currentNode + 1) > 0
             THEN Append(seen, NodeAt(currentNode + 1)) ELSE seen
  /\ UNCHANGED <<chunks, elems, offsets, currentChunk, mode, bseen,
                 lastTarget, found, missed, lastAt, chunkAt>>

(* nextNode(), called until it returns false *)
NextNode ==
  /\ mode \in {"walk", "chunk"}
  /\ currentChunk \in 0 .. NumBoundaries - 1
  /\ currentNode < TotalNodesInChunk
  /\ currentNode' = currentNode + 1
  /\ seen' = IF TotalNodesInChunk - (currentNode + 1) > 0
             THEN Append(seen, NodeAt(currentNode + 1)) ELSE seen
  /\ UNCHANGED <<chunks, elems, offsets, currentChunk, mode, bseen,
                 lastTarget, found, missed, lastAt, chunkAt>>

(* moveToBoundary(t), for targets in increasing order *)
MoveToBoundary ==
  /\ mode = "seek" /\ chunks # <<>>
  /\ \E t \in Targets :
       /\ t > lastTarget
       /\ LET r == MoveLoop(currentChunk, t) IN
            /\ currentChunk' = r.chunk /\ currentNode' = -1
            /\ found' = IF r.res THEN found \cup {t} ELSE found
            /\ missed' = IF r.res THEN missed ELSE missed \cup {t}
       /\ lastTarget' = t
  /\ UNCHANGED <<chunks, elems, offsets, mode, bseen, seen, lastAt, chunkAt>>

(* mutant: moveToChunk keeps currentNode_ *)
MoveToChunkNoReset(pos) ==
  /\ currentChunk' = pos /\ UNCHANGED currentNode

(* moveToChunk(pos) *)
MoveToChunk(pos) ==
  /\ currentChunk' = pos /\ currentNode' = -1

(* a client reading one chunk: moveToChunk(pos) for a chunk of the path,  *)
(* then nextNode() until it returns false                                  *)
ReadChunk ==
  /\ mode = "chunk" /\ chunks # <<>>
  /\ \E pos \in 0 .. NumBoundaries - 1 :
       /\ MoveToChunk(pos)
       /\ chunkAt' = pos
  /\ seen' = <<>>
  /\ UNCHANGED <<chunks, elems, offsets, mode, bseen, lastTarget, found, missed,
                 lastAt>>

Init ==
  /\ chunks = <<>> /\ elems = <<>> /\ offsets = <<0>>
  /\ currentChunk = -1 /\ currentNode = -1
  /\ mode = "walk" /\ bseen = <<>> /\ seen = <<>>
  /\ lastTarget = -1 /\ found = {} /\ missed = {}
  /\ lastAt = -1 /\ chunkAt = -1

Next == FillIn \/ Reset \/ NextBoundary \/ NextNode \/ MoveToBoundary \/ ReadChunk

Spec == Init /\ [][Next]_vars

----------------------------------------------------------------------------
(* Properties *)

TypeOK ==
  /\ elems \in Seq(ConnectionPtr)
  /\ offsets \in Seq(Nat) /\ Len(offsets) >= 1
  /\ currentChunk \in -1 .. Cardinality(Boundaries) + Cardinality(Targets)
  /\ currentNode \in -1 .. MaxBeam
  /\ mode \in {"walk", "seek", "chunk"}
  /\ lastAt \in -1 .. Cardinality(Boundaries) /\ chunkAt \in -1 .. Cardinality(Boundaries)
  /\ seen \in Seq(ConnectionPtr) /\ bseen \in Seq(Boundaries)
  /\ found \subseteq Targets /\ missed \subseteq Targets

PathBoundaries == {chunks[x].boundary : x \in DOMAIN chunks}

(* the beam pointers of the path in morpheme (BOS-to-EOS) order *)
ForwardElems ==
  LET rev == Reverse(chunks) IN
  FlattenSeq([x \in 1 .. Len(rev) |->
    [r \in 1 .. rev[x].size |-> [boundary |-> rev[x].boundary, right |-> r - 1]]])

(* P5, as the code implements it: a walk that runs nextBoundary to false  *)
(* has been handed every beam pointer of the path exactly once, one       *)
(* boundary after the other in increasing boundary order and in beam      *)
(* order within a boundary, i.e. totalNodes() pointers over               *)
(* numBoundaries() boundaries; isLastBoundary() held at the final one.    *)
WalkSeesEveryPointerOnce ==
  mode = "walk" /\ chunks # <<>> /\ currentChunk = NumBoundaries
    => /\ seen = ForwardElems
       /\ Len(seen) = TotalNodes /\ Len(bseen) = NumBoundaries
       /\ lastAt = Len(bseen) - 1

(* A client that moved to a chunk with moveToChunk(pos) and read it with  *)
(* nextNode() to the end has been handed exactly the beam pointers of that *)
(* chunk's boundary, in beam order, whatever the cursor did before.        *)
ChunkReadSeesSlice ==
  mode = "chunk" /\ chunkAt >= 0 /\ currentNode >= TotalNodesInChunk
    => seen = SelectSeq(elems, LAMBDA e : e.boundary = BoundaryOfChunk(chunkAt))

(* the pointers a walking client has been handed in the current walk *)
WalkHanded == IF mode = "walk" THEN seen ELSE <<>>

Walk == INSTANCE PathWalk WITH Ptrs <- ConnectionPtr, path <- ForwardElems,
                               handed <- WalkHanded

(* The cursor implements the walk of spec 4.4 step by step: every         *)
(* nextNode() of a walking client hands out the next pointer of the path  *)
(* in morpheme order, and nextBoundary(), moveToBoundary, moveToChunk and *)
(* the other clients' reads never hand out a pointer out of turn; fillIn  *)
(* and reset() begin the walk again.                                      *)
RefinesPathWalk == Walk!Spec

(* The boundary-ordering half of P5 as spec section 8 states it: the      *)
(* boundaries a walk observes through currentBoundary() are strictly     *)
(* decreasing (nextBoundary goes to the next, earlier, boundary).         *)
WalkBoundariesDecrease ==
  \A x, y \in DOMAIN bseen : x < y => bseen[x] > bseen[y]

(* A client seeking boundaries in increasing order learns exactly which   *)
(* of them the path holds: moveToBoundary's step back on overshooting     *)
(* keeps the overshooting chunk for the next call.                        *)
SeekAgreesWithPath ==
  /\ found \subseteq PathBoundaries
  /\ missed \cap PathBoundaries = {}

=============================================================================
