----------------------------- MODULE UnkMakers -----------------------------
(***************************************************************************)
(* The unknown-word node generators of the analyzer, as they run over one  *)
(* analysis input (src/src/core/analysis/unk_nodes_creator.cc):            *)
(*   ChunkingUnkMaker::spawnNodes  -- for every start i of the configured  *)
(*       character class, walk the dictionary trie codepoint by codepoint  *)
(*       while the class continues;                                        *)
(*   SingleUnkMaker::spawnNodes    -- one trie step per in-class codepoint.*)
(* The configured makers run one after the other; each appends seeds       *)
(* (LatticeBuilder::appendSeed) through UnkNodesContext::makePtr.          *)
(*                                                                         *)
(* Data abstraction: a codepoint is a model value, the trie is its set of  *)
(* surfaces (dic), and an unknown EntryPtr is the record of the maker that *)
(* made it and the notPrefix value written to its placeholder feature.     *)
(* Positions are 0-based codepoint indices as in the code.                 *)
(***************************************************************************)
EXTENDS Naturals, Sequences, SequencesExt, FiniteSets

CONSTANTS
  Alphabet,        \* codepoints of the input (model values)
  Classes,         \* character classes
  ClassOf,         \* ClassOf[c]: the classes codepoint c has (hasClass)
  CandidateWords,  \* surfaces a dictionary of the model may contain
  Makers,          \* the configured unk makers, in order: [kind, cls]
  MaxInputLen      \* bound on the number of codepoints of an input

ASSUME /\ ClassOf \in [Alphabet -> SUBSET Classes]
       /\ CandidateWords \subseteq Seq(Alphabet)
       /\ Makers \in Seq([kind : {"chunking", "single"}, cls : Classes])
       /\ Len(Makers) > 0
       /\ MaxInputLen \in Nat

VARIABLES
  dic,    \* surfaces held by the (immutable) dictionary trie
  input,  \* AnalysisInput::codepoints()
  m,      \* index of the maker whose spawnNodes is running
  pc,     \* "outer" (loop over i), "inner" (loop over j),
          \* "nonode" (the suffix loop of the NoNode case), "done"
  i,      \* start position of the span being grown
  j,      \* end position - 1 of the span being grown
  trav,   \* codepoints fed to the IndexTraversal since it was created
  seeds   \* LatticeBuilder::seeds_, the vector appendSeed grows

vars == <<dic, input, m, pc, i, j, trav, seeds>>

Positions == 0 .. MaxInputLen

UnkPtr == [maker : 1 .. Len(Makers), notPrefix : BOOLEAN]

Seed == [ptr : UnkPtr, start : Positions, end : Positions]

----------------------------------------------------------------------------
(* The darts trie step (DoubleArrayTraversal::step, outside src/): Ok when *)
(* the codepoints stepped so far are a dictionary surface, NoLeaf when     *)
(* they are only a strict prefix of one, NoNode when they are neither.     *)
TraverseStatus(p) ==
  CASE p \in dic                          -> "Ok"
    [] \E w \in dic : IsStrictPrefix(p, w) -> "NoLeaf"
    [] OTHER                               -> "NoNode"

Cls == Makers[m].cls

(* codepoints[p].hasClass(charClass_) *)
HasClass(p) == Cls \in ClassOf[input[p + 1]]

(* input.surface(start, end) *)
Surface(s, e) == SubSeq(input, s + 1, e)

(* UnkNodesContext::makePtr followed by LatticeBuilder::appendSeed: a new   *)
(* unknown node whose placeholder feature is notPrefix, seeded at [s, e).  *)
UnkSeed(s, e, notPrefix) ==
  [ptr |-> [maker |-> m, notPrefix |-> notPrefix], start |-> s, end |-> e]

IsChunking == Makers[m].kind = "chunking"
IsSingle   == Makers[m].kind = "single"

----------------------------------------------------------------------------
(* ChunkingUnkMaker::spawnNodes *)

(* the outer loop skips a codepoint without the class *)
ChunkSkip ==
  /\ pc = "outer" /\ IsChunking
  /\ i < Len(input) /\ ~HasClass(i)
  /\ i' = i + 1
  /\ UNCHANGED <<dic, input, m, pc, j, trav, seeds>>

(* an in-class codepoint starts a fresh traversal and the inner loop *)
ChunkEnter ==
  /\ pc = "outer" /\ IsChunking
  /\ i < Len(input) /\ HasClass(i)
  /\ pc' = "inner" /\ j' = i /\ trav' = <<>>
  /\ UNCHANGED <<dic, input, m, i, seeds>>

(* mutant: the inner loop's exit forgets to advance the start *)
ChunkInnerExitSameStart ==
  /\ pc = "inner"
  /\ ~(j < Len(input) /\ HasClass(j))
  /\ pc' = "outer"
  /\ UNCHANGED <<dic, input, m, i, j, trav, seeds>>

(* the inner loop ends at the end of the input or of the class run *)
ChunkInnerExit ==
  /\ pc = "inner"
  /\ ~(j < Len(input) /\ HasClass(j))
  /\ pc' = "outer" /\ i' = i + 1
  /\ UNCHANGED <<dic, input, m, j, trav, seeds>>

(* trav.step(cp) returned Ok: the span is a dictionary word, emit nothing *)
ChunkStepOk ==
  /\ pc = "inner" /\ j < Len(input) /\ HasClass(j)
  /\ TraverseStatus(Append(trav, input[j + 1])) = "Ok"
  /\ trav' = Append(trav, input[j + 1]) /\ j' = j + 1
  /\ UNCHANGED <<dic, input, m, pc, i, seeds>>

(* NoLeaf: emit the current span [i, j+1) only and keep scanning *)
ChunkStepNoLeaf ==
  /\ pc = "inner" /\ j < Len(input) /\ HasClass(j)
  /\ TraverseStatus(Append(trav, input[j + 1])) = "NoLeaf"
  /\ seeds' = Append(seeds, UnkSeed(i, j + 1, FALSE))
  /\ trav' = Append(trav, input[j + 1]) /\ j' = j + 1
  /\ UNCHANGED <<dic, input, m, pc, i>>

(* mutant: the NoNode loop starts one codepoint late *)
ChunkStepNoNodeSkipFirst ==
  /\ pc = "inner" /\ j < Len(input) /\ HasClass(j)
  /\ TraverseStatus(Append(trav, input[j + 1])) = "NoNode"
  /\ pc' = "nonode" /\ trav' = Append(trav, input[j + 1]) /\ j' = j + 1
  /\ UNCHANGED <<dic, input, m, i, seeds>>

(* NoNode: switch to the loop emitting every remaining span of the run *)
ChunkStepNoNode ==
  /\ pc = "inner" /\ j < Len(input) /\ HasClass(j)
  /\ TraverseStatus(Append(trav, input[j + 1])) = "NoNode"
  /\ pc' = "nonode" /\ trav' = Append(trav, input[j + 1])
  /\ UNCHANGED <<dic, input, m, i, j, seeds>>

(* the NoNode loop emits [i, j+1) while the class continues *)
ChunkNoNodeEmit ==
  /\ pc = "nonode" /\ j < Len(input) /\ HasClass(j)
  /\ seeds' = Append(seeds, UnkSeed(i, j + 1, TRUE))
  /\ j' = j + 1
  /\ UNCHANGED <<dic, input, m, pc, i, trav>>

(* the NoNode loop ends (j = codepoints.size() on a class change, or the  *)
(* input ends); the enclosing loop's ++j then takes j past the input       *)
ChunkNoNodeExit ==
  /\ pc = "nonode"
  /\ ~(j < Len(input) /\ HasClass(j))
  /\ pc' = "inner" /\ j' = Len(input) + 1
  /\ UNCHANGED <<dic, input, m, i, trav, seeds>>

----------------------------------------------------------------------------
(* SingleUnkMaker::spawnNodes *)

SingleSkip ==
  /\ pc = "outer" /\ IsSingle
  /\ i < Len(input) /\ ~HasClass(i)
  /\ i' = i + 1
  /\ UNCHANGED <<dic, input, m, pc, j, trav, seeds>>

(* mutant: notPrefix set on NoLeaf instead of NoNode *)
SingleStepNoLeafFlag ==
  /\ pc = "outer" /\ IsSingle
  /\ i < Len(input) /\ HasClass(i)
  /\ LET st == TraverseStatus(<<input[i + 1]>>)
     IN  seeds' = IF st = "Ok" THEN seeds
                  ELSE Append(seeds, UnkSeed(i, i + 1, st = "NoLeaf"))
  /\ i' = i + 1
  /\ UNCHANGED <<dic, input, m, pc, j, trav>>

(* mutant: only a codepoint that is no prefix of a word gets a seed *)
SingleStepNoNodeOnly ==
  /\ pc = "outer" /\ IsSingle
  /\ i < Len(input) /\ HasClass(i)
  /\ LET st == TraverseStatus(<<input[i + 1]>>)
     IN  seeds' = IF st = "NoNode" THEN Append(seeds, UnkSeed(i, i + 1, TRUE))
                  ELSE seeds
  /\ i' = i + 1
  /\ UNCHANGED <<dic, input, m, pc, j, trav>>

(* one trie step on the codepoint; Ok defers to the dictionary entry,     *)
(* otherwise a length-1 seed with notPrefix = (result is NoNode)           *)
SingleStep ==
  /\ pc = "outer" /\ IsSingle
  /\ i < Len(input) /\ HasClass(i)
  /\ LET st == TraverseStatus(<<input[i + 1]>>)
     IN  seeds' = IF st = "Ok" THEN seeds
                  ELSE Append(seeds, UnkSeed(i, i + 1, st = "NoNode"))
  /\ i' = i + 1
  /\ UNCHANGED <<dic, input, m, pc, j, trav>>

----------------------------------------------------------------------------
(* spawnNodes returns once i reaches the end; the next maker starts *)
MakerDone ==
  /\ pc = "outer" /\ i >= Len(input)
  /\ m' = m + 1 /\ i' = 0
  /\ pc' = IF m = Len(Makers) THEN "done" ELSE "outer"
  /\ UNCHANGED <<dic, input, j, trav, seeds>>

Init ==
  /\ dic \in SUBSET CandidateWords
  /\ input \in BoundedSeq(Alphabet, MaxInputLen)
  /\ m = 1 /\ pc = "outer" /\ i = 0 /\ j = 0 /\ trav = <<>>
  /\ seeds = <<>>

Next ==
  \/ ChunkSkip \/ ChunkEnter \/ ChunkInnerExit
  \/ ChunkStepOk \/ ChunkStepNoLeaf \/ ChunkStepNoNode
  \/ ChunkNoNodeEmit \/ ChunkNoNodeExit
  \/ SingleSkip \/ SingleStep
  \/ MakerDone

Spec == Init /\ [][Next]_vars /\ WF_vars(Next)

----------------------------------------------------------------------------
(* Properties *)

TypeOK ==
  /\ dic \subseteq CandidateWords
  /\ input \in BoundedSeq(Alphabet, MaxInputLen)
  /\ m \in 1 .. Len(Makers) + 1
  /\ pc \in {"outer", "inner", "nonode", "done"}
  /\ i \in Positions /\ j \in 0 .. MaxInputLen + 1
  /\ trav \in BoundedSeq(Alphabet, MaxInputLen)
  /\ seeds \in Seq(Seed)

(* [s, e) lies inside one run of codepoints of class cls *)
InRun(s, e, cls) == \A p \in s .. e - 1 : cls \in ClassOf[input[p + 1]]

(* the spans maker k appended, in the order appendSeed received them *)
SpansOf(k) ==
  LET mine == SelectSeq(seeds, LAMBDA x : x.ptr.maker = k)
  IN  [x \in DOMAIN mine |-> [start |-> mine[x].start, end |-> mine[x].end]]

(* Reference definition of what maker k must produce: the chunking maker  *)
(* every in-class span that is not a dictionary surface (P4 of the spec:  *)
(* all suffix spans of a run without a match, never past the run), the    *)
(* single maker every in-class codepoint that is not a dictionary word.   *)
Reference(k) ==
  LET cls    == Makers[k].cls
      maxLen == IF Makers[k].kind = "chunking" THEN Len(input) ELSE 1
  IN  {sp \in [start : 0 .. Len(input), end : 0 .. Len(input)] :
         /\ sp.start < sp.end /\ sp.end - sp.start <= maxLen
         /\ InRun(sp.start, sp.end, cls)
         /\ Surface(sp.start, sp.end) \notin dic}

(* Every maker that has returned produced exactly its reference spans:    *)
(* the trie-driven loop with its NoNode suffix loop and the j = size exit *)
(* emits a node for every in-class span the dictionary lacks, never one   *)
(* the dictionary has, never one crossing a class boundary, and none of   *)
(* them twice (seeds_ is a vector: a repeated appendSeed is a duplicate   *)
(* lattice node).                                                         *)
UnkSeedsExact ==
  \A k \in 1 .. m - 1 : /\ Range(SpansOf(k)) = Reference(k)
                       /\ Len(SpansOf(k)) = Cardinality(Reference(k))

(* The placeholder feature written by makePtr says "not a prefix of any   *)
(* dictionary word", whichever loop and trie status produced the seed.    *)
NotPrefixSound ==
  \A sd \in Range(seeds) :
    sd.ptr.notPrefix <=> ~\E w \in dic : IsPrefix(Surface(sd.start, sd.end), w)

(* Every spawnNodes loop terminates, whatever the input and dictionary. *)
AllMakersReturn == <>(pc = "done")

=============================================================================
