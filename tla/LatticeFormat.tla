--------------------------- MODULE LatticeFormat ---------------------------
(***************************************************************************)
(* The lattice output of the jumandic formats                              *)
(* (src/src/jumandic/shared/lattice_format.cc).  After an analysis, the    *)
(* EOS beam holds the best paths best-first, followed by fake elements up  *)
(* to its size.  LatticeFormat::format                                     *)
(*   - fillInfo: walks the first min(beam size, outputN) real paths back   *)
(*     to BOS and records, per lattice node, the ranks of the paths        *)
(*     through it, their ConnectionPtrs and the distinct previous nodes;   *)
(*   - publishResult: orders the nodes by (boundary, position), sorts      *)
(*     their previous nodes the same way, numbers them from 1;             *)
(*   - prints the MA-SCORE line (one rank per real path below outputN)     *)
(*     unless a comment is given, then one line per dictionary entry of    *)
(*     every node (an alias node unrolls to several), with its id, the     *)
(*     ids of its previous nodes (idOf: 0 for a node not on the output,    *)
(*     i.e. BOS), its codepoint span and its 1-based ranks.                *)
(*                                                                         *)
(* The lattice is a constant set of nodes [boundary, position] with their  *)
(* codepoint lengths; boundaries 0 and 1 are the two BOS boundaries, so a  *)
(* node at boundary b starts at codepoint b - 2.  A ConnectionPtr is       *)
(* abstracted to the node and the node before it on the path.  Strings,    *)
(* feature columns and scores are left out.                                *)
(***************************************************************************)
EXTENDS Integers, Sequences, SequencesExt, FiniteSetsExt

CONSTANTS
  Nodes,        \* lattice nodes [boundary, position] of the non-empty input
  NodeLen,      \* codepoints of each node
  NodeEntries,  \* dictionary entries an (alias) node unrolls to
  EosBnd,       \* boundary of EOS for the non-empty input
  BeamSize,     \* size of the EOS beam
  OutputNs      \* values outputN (topN or autoBeamSizes()) may take

ASSUME /\ NodeLen \in [Nodes -> Nat \ {0}] /\ NodeEntries \in [Nodes -> Nat \ {0}]
       /\ BeamSize \in Nat \ {0} /\ OutputNs \subseteq Nat \ {0}

(* the latticeNodePtr of the BOS node the first word connects to *)
Bos == [boundary |-> 1, position |-> 0]

(* BOS-to-EOS paths of the lattice: each node starts where the last ends *)
Paths ==
  {p \in BoundedSeq(Nodes, EosBnd - 2) :
     /\ p # <<>> /\ p[1].boundary = 2
     /\ \A x \in 1 .. Len(p) - 1 : p[x + 1].boundary = p[x].boundary + NodeLen[p[x]]
     /\ p[Len(p)].boundary + NodeLen[p[Len(p)]] = EosBnd}

(* EOS beams: distinct paths best-first, the remaining slots fake *)
Beams == {b \in BoundedSeq(Paths, BeamSize) : IsInjective(b)}

NodePtrs == Nodes \cup {Bos}

NodeInfo == [ranks : Seq(Nat), prev : Seq(NodePtrs),
             ptrs : SUBSET [node : Nodes, prev : NodePtrs], id : Nat]

Line == [node : Nodes, id : Nat, prevs : Seq(Nat), start : Nat, end : Nat,
         ranks : Seq(Nat)]

VARIABLES
  empty,     \* the analysed input had no codepoints (3 created boundaries)
  beam,      \* the real paths of the EOS beam, best first
  outputN,   \* outputN of the next format call
  info,      \* LatticeFormatInfo::info: node -> LatticeNodeInfo
  view,      \* infoView: the nodes in publishResult order
  scoreRanks,\* the ranks printed on the MA-SCORE line
  reads,     \* indices of eosBeam the MA-SCORE loop read
  out,       \* the node lines printed
  formatted  \* format has run on the current analysis

vars == <<empty, beam, outputN, info, view, scoreRanks, reads, out, formatted>>

----------------------------------------------------------------------------
(* LatticeNodeInfo::addElem(cptr, rank) on node n, reached from prv *)
AddElem(inf, n, prv, i) ==
  LET old == IF n \in DOMAIN inf THEN inf[n]
             ELSE [ranks |-> <<>>, prev |-> <<>>, ptrs |-> {}, id |-> 0]
      new == [old EXCEPT !.ranks = Append(@, i),
                         !.ptrs = @ \cup {[node |-> n, prev |-> prv]},
                         !.prev = IF prv \in Range(@) THEN @ ELSE Append(@, prv)]
  IN  [x \in DOMAIN inf \cup {n} |-> IF x = n THEN new ELSE inf[x]]

(* while (ptr->boundary >= 2): ptr is node x of path p, its previous is *)
(* node x - 1 or BOS                                                    *)
RECURSIVE WalkBack(_, _, _, _)
WalkBack(inf, p, x, i) ==
  IF x = 0 THEN inf
  ELSE WalkBack(AddElem(inf, p[x], IF x = 1 THEN Bos ELSE p[x - 1], i), p, x - 1, i)

(* fillInfo(an, topN): the loop over the first maxN beam elements, ending *)
(* at the first fake one                                                   *)
RECURSIVE FillLoop(_, _, _, _)
FillLoop(inf, paths, maxN, i) ==
  IF i >= maxN \/ i >= Len(paths) THEN inf
  ELSE FillLoop(WalkBack(inf, paths[i + 1], Len(paths[i + 1]), i), paths, maxN, i + 1)

FillInfo(paths, topN) ==
  FillLoop([x \in {} |-> 0], paths, Min({BeamSize, topN}), 0)

(* mutant: the sort keys swapped *)
NodeLessPositionFirst(a, b) ==
  \/ a.position < b.position
  \/ a.position = b.position /\ a.boundary < b.boundary

(* the order of publishResult's sort and of fixPrevs *)
NodeLess(a, b) ==
  \/ a.boundary < b.boundary
  \/ a.boundary = b.boundary /\ a.position < b.position

(* publishResult: the view in node order, previous nodes sorted, ids from 1 *)
PublishResult(inf) ==
  LET vw == SetToSortSeq(DOMAIN inf, NodeLess) IN
  [view |-> vw,
   info |-> [n \in DOMAIN inf |->
               [inf[n] EXCEPT !.prev = SetToSortSeq(Range(@), NodeLess),
                              !.id = CHOOSE x \in DOMAIN vw : vw[x] = n]]]

(* mutant: -1 as the id of a node not on the output *)
IdOfMinusOne(inf, p) == IF p \in DOMAIN inf THEN inf[p].id ELSE -1

(* idOf(ptr) *)
IdOf(inf, p) == IF p \in DOMAIN inf THEN inf[p].id ELSE 0

(* the MA-SCORE loop: for (i = 0; i < outputN; ++i) reads eosBeam.at(i), *)
(* breaks at a fake element, else prints rank i + 1; a read past the end  *)
(* of the beam is recorded and ends the loop                              *)
RECURSIVE ScoreLoop(_, _, _, _)
ScoreLoop(paths, n, i, acc) ==
  IF i >= n THEN acc
  ELSE LET acc1 == [acc EXCEPT !.reads = @ \cup {i}] IN
       IF i >= BeamSize \/ i >= Len(paths) THEN acc1
       ELSE ScoreLoop(paths, n, i + 1, [acc1 EXCEPT !.ranks = Append(@, i + 1)])

(* mutant: ranks printed 0-based *)
NodeLinesRawRanks(inf, n) ==
  [e \in 1 .. NodeEntries[n] |->
     [node |-> n, id |-> inf[n].id,
      prevs |-> [x \in DOMAIN inf[n].prev |-> IdOf(inf, inf[n].prev[x])],
      start |-> n.boundary - 2,
      end |-> n.boundary - 2 + NodeLen[n] - 1,
      ranks |-> inf[n].ranks]]

(* the lines of one node: one per entry walker.next() yields *)
NodeLines(inf, n) ==
  [e \in 1 .. NodeEntries[n] |->
     [node |-> n, id |-> inf[n].id,
      prevs |-> [x \in DOMAIN inf[n].prev |-> IdOf(inf, inf[n].prev[x])],
      start |-> n.boundary - 2,
      end |-> n.boundary - 2 + NodeLen[n] - 1,
      ranks |-> [x \in DOMAIN inf[n].ranks |-> inf[n].ranks[x] + 1]]]

----------------------------------------------------------------------------
(* a new analysis: its EOS beam and the outputN the format will use *)
Analyze ==
  /\ \E e \in BOOLEAN, b \in Beams, n \in OutputNs :
       /\ empty' = e /\ outputN' = n
       /\ beam' = IF e THEN <<>> ELSE b
  /\ formatted' = FALSE
  /\ UNCHANGED <<info, view, scoreRanks, reads, out>>

(* LatticeFormat::format(analyzer, comment) *)
Format ==
  /\ ~formatted
  /\ \E hasComment \in BOOLEAN :
       IF empty
       THEN /\ scoreRanks' = <<>> /\ reads' = {} /\ out' = <<>>
            /\ UNCHANGED <<info, view>>
       ELSE LET pr == PublishResult(FillInfo(beam, outputN))
                sc == ScoreLoop(beam, outputN, 0, [reads |-> {}, ranks |-> <<>>])
            IN  /\ info' = pr.info /\ view' = pr.view
                /\ scoreRanks' = IF hasComment THEN <<>> ELSE sc.ranks
                /\ reads' = IF hasComment THEN {} ELSE sc.reads
                /\ out' = FlattenSeq([x \in DOMAIN pr.view |->
                                        NodeLines(pr.info, pr.view[x])])
  /\ formatted' = TRUE
  /\ UNCHANGED <<empty, beam, outputN>>

Init ==
  /\ empty = TRUE /\ beam = <<>> /\ outputN = CHOOSE n \in OutputNs : TRUE
  /\ info = [x \in {} |-> 0] /\ view = <<>> /\ scoreRanks = <<>>
  /\ reads = {} /\ out = <<>> /\ formatted = TRUE

Next == Analyze \/ Format

Spec == Init /\ [][Next]_vars

----------------------------------------------------------------------------
(* Properties *)

TypeOK ==
  /\ empty \in BOOLEAN /\ beam \in Beams /\ outputN \in OutputNs
  /\ DOMAIN info \subseteq Nodes /\ \A n \in DOMAIN info : info[n] \in NodeInfo
  /\ view \in Seq(Nodes) /\ scoreRanks \in Seq(Nat) /\ reads \subseteq Nat
  /\ out \in Seq(Line) /\ formatted \in BOOLEAN

(* the real paths fillInfo takes from the beam *)
TopPaths == SubSeq(beam, 1, Min({outputN, BeamSize, Len(beam)}))

OnPath(n, p) == \E x \in DOMAIN p : p[x] = n

(* The printed lattice is well formed and is the top-N lattice: there is *)
(* a line for exactly the nodes on the first min(outputN, beam size)     *)
(* real paths, the lines come in id order, and each line's previous ids  *)
(* are 0 exactly at the start of the input and otherwise name earlier    *)
(* lines ending right before it, namely the nodes that precede it on     *)
(* those paths; its ranks are the 1-based ranks of the paths through it. *)
OutputIsTopLattice ==
  formatted /\ ~empty =>
    /\ {l.node : l \in Range(out)} = {n \in Nodes : \E x \in DOMAIN TopPaths : OnPath(n, TopPaths[x])}
    /\ \A x \in 1 .. Len(out) - 1 : out[x].id <= out[x + 1].id
    /\ \A l \in Range(out) :
         /\ \A p \in Range(l.prevs) :
              /\ p = 0 <=> l.start = 0
              /\ p # 0 => p < l.id /\ \E m \in Range(out) : m.id = p /\ m.end + 1 = l.start
         /\ Len(l.prevs) = Cardinality({p \in NodePtrs :
              \E x \in DOMAIN TopPaths : \E y \in DOMAIN TopPaths[x] :
                 TopPaths[x][y] = l.node /\ p = IF y = 1 THEN Bos ELSE TopPaths[x][y - 1]})
         /\ Range(l.ranks) = {x \in DOMAIN TopPaths : OnPath(l.node, TopPaths[x])}
         /\ Len(l.ranks) = Cardinality(Range(l.ranks))

(* The MA-SCORE line only reads elements of the EOS beam (eosBeam.at(i) *)
(* with i below its size), whatever outputN the format was given.        *)
ScoreLoopInBeam == \A i \in reads : i < BeamSize

=============================================================================
