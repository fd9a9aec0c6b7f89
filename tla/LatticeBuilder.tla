--------------------------- MODULE LatticeBuilder ---------------------------
(***************************************************************************)
(* Seed generation and connectability of one analysis input: the analyzer *)
(* looks the input up in the dictionary trie, runs the configured unk      *)
(* makers (module UnkMakers), sorts the seeds and checks which boundaries  *)
(* lie on a BOS-to-EOS path (LatticeBuilder in                             *)
(* src/src/core/analysis/lattice_builder.h).  The bodies of sortSeeds,     *)
(* checkConnectability and prepare and the dictionary lookup are not in    *)
(* src/ and follow spec sections 4.3 and 8 (Scenario A):                   *)
(*   sortSeeds           -- total order by (start, end, entry pointer);    *)
(*   checkConnectability -- a forward pass marking boundaries reachable    *)
(*                          from BOS and a backward pass marking those     *)
(*                          reaching EOS, over the seed span graph;        *)
(*   prepare             -- fails when no boundary is usable.              *)
(* Boundaries are codepoint positions 0 .. Len(input); a seed [s, e) is an *)
(* edge s -> e of the span graph.                                          *)
(***************************************************************************)
EXTENDS Naturals, Sequences, SequencesExt, FiniteSets

CONSTANTS Alphabet, Classes, ClassOf, CandidateWords, Makers, MaxInputLen

VARIABLES
  dic, input, m, pc, i, j, trav, seeds,  \* state of UnkMakers
  dicSeeds,    \* seeds appended by the dictionary lookup
  phase,       \* "lookup", "unk", "sort", "forward", "backward",
               \* "prepared" or "failed"
  sorted,      \* seeds_ after sortSeeds
  k,           \* index into sorted of the connectability pass
  fromBos,     \* boundaries marked reachable from BOS
  toEos        \* boundaries marked as reaching EOS

unkVars == <<dic, input, m, pc, i, j, trav, seeds>>
vars == <<unkVars, dicSeeds, phase, sorted, k, fromBos, toEos>>

U == INSTANCE UnkMakers

EOS == Len(input)

(* The dictionary pointer of a seed; unknown pointers carry their maker. *)
DicPtr == [maker |-> 0, notPrefix |-> FALSE]

AllSeeds == dicSeeds \cup Range(seeds)

(* LatticeBuilder::isAccessible *)
Connectible == fromBos \cap toEos

----------------------------------------------------------------------------
(* the analyzer's dictionary lookup: one seed for every span of the input *)
(* that is a dictionary surface, at every start position                  *)
LookupDic ==
  /\ phase = "lookup"
  /\ dicSeeds' = {[ptr |-> DicPtr, start |-> s, end |-> e] :
                    <<s, e>> \in {<<s, e>> \in (0 .. EOS) \X (0 .. EOS) :
                                    s < e /\ U!Surface(s, e) \in dic}}
  /\ phase' = "unk"
  /\ UNCHANGED <<unkVars, sorted, k, fromBos, toEos>>

(* the unk makers run, each appending its seeds *)
RunUnkMakers ==
  /\ phase = "unk"
  /\ U!Next
  /\ UNCHANGED <<dicSeeds, phase, sorted, k, fromBos, toEos>>

UnkMakersReturned ==
  /\ phase = "unk" /\ pc = "done"
  /\ phase' = "sort"
  /\ UNCHANGED <<unkVars, dicSeeds, sorted, k, fromBos, toEos>>

(* sortSeeds: (codepointStart, codepointEnd, entryPtr) ascending *)
SeedLess(x, y) ==
  \/ x.start < y.start
  \/ x.start = y.start /\ x.end < y.end
  \/ x.start = y.start /\ x.end = y.end /\ x.ptr.maker < y.ptr.maker
  \/ x.start = y.start /\ x.end = y.end /\ x.ptr.maker = y.ptr.maker
     /\ ~x.ptr.notPrefix /\ y.ptr.notPrefix

(* the dictionary seeds as the vector the lookup appends them to (its     *)
(* order is irrelevant: sortSeeds reorders them)                          *)
SeedList(S) == FoldSet(LAMBDA x, acc : Append(acc, x), <<>>, S)

SortSeeds ==
  /\ phase = "sort"
  /\ sorted' = SortSeq(SeedList(dicSeeds) \o seeds, SeedLess)
  /\ phase' = "forward" /\ k' = 1 /\ fromBos' = {0}
  /\ UNCHANGED <<unkVars, dicSeeds, toEos>>

(* checkConnectability, forward pass: a seed starting at a reachable      *)
(* boundary makes its end reachable                                       *)
(* mutant: the boundary after the seed's end is marked *)
ForwardStepPastEnd ==
  /\ phase = "forward" /\ k <= Len(sorted)
  /\ fromBos' = IF sorted[k].start \in fromBos
                THEN fromBos \cup {sorted[k].end + 1} ELSE fromBos
  /\ k' = k + 1
  /\ UNCHANGED <<unkVars, dicSeeds, phase, sorted, toEos>>

ForwardStep ==
  /\ phase = "forward" /\ k <= Len(sorted)
  /\ fromBos' = IF sorted[k].start \in fromBos
                THEN fromBos \cup {sorted[k].end} ELSE fromBos
  /\ k' = k + 1
  /\ UNCHANGED <<unkVars, dicSeeds, phase, sorted, toEos>>

ForwardDone ==
  /\ phase = "forward" /\ k > Len(sorted)
  /\ phase' = "backward" /\ k' = Len(sorted) /\ toEos' = {EOS}
  /\ UNCHANGED <<unkVars, dicSeeds, sorted, fromBos>>

(* backward pass, from the last seed: a seed ending at a boundary that    *)
(* reaches EOS makes its start reach EOS                                  *)
BackwardStep ==
  /\ phase = "backward" /\ k >= 1
  /\ toEos' = IF sorted[k].end \in toEos
              THEN toEos \cup {sorted[k].start} ELSE toEos
  /\ k' = k - 1
  /\ UNCHANGED <<unkVars, dicSeeds, phase, sorted, fromBos>>

(* prepare: the build fails when no boundary is usable *)
Prepare ==
  /\ phase = "backward" /\ k = 0
  /\ phase' = IF Connectible = {} THEN "failed" ELSE "prepared"
  /\ UNCHANGED <<unkVars, dicSeeds, sorted, k, fromBos, toEos>>

Init ==
  /\ U!Init
  /\ dicSeeds = {} /\ phase = "lookup"
  /\ sorted = <<>> /\ k = 0 /\ fromBos = {} /\ toEos = {}

Next ==
  \/ LookupDic \/ RunUnkMakers \/ UnkMakersReturned \/ SortSeeds
  \/ ForwardStep \/ ForwardDone \/ BackwardStep \/ Prepare

Spec == Init /\ [][Next]_vars /\ WF_vars(Next)

----------------------------------------------------------------------------
(* Properties *)

Built == phase \in {"prepared", "failed"}

TypeOK ==
  /\ U!TypeOK
  /\ phase \in {"lookup", "unk", "sort", "forward", "backward",
                "prepared", "failed"}
  /\ dicSeeds \subseteq [ptr : {DicPtr}, start : U!Positions,
                         end : U!Positions]
  /\ sorted \in Seq(AllSeeds)
  /\ k \in 0 .. Len(sorted) + 1
  /\ fromBos \subseteq 0 .. EOS /\ toEos \subseteq 0 .. EOS

(* Every codepoint of the input has the class of some configured maker.  *)
Covered == \A p \in 1 .. Len(input) :
             \E x \in 1 .. Len(Makers) : Makers[x].cls \in ClassOf[input[p]]

(* When the makers' classes cover the input, the dictionary seeds and the *)
(* unknown seeds together connect every boundary to BOS and EOS: a        *)
(* codepoint whose single-character span is a dictionary word gets no    *)
(* unknown seed (trie status Ok) and relies on the dictionary lookup.     *)
CoveredInputConnects ==
  Built /\ Covered => phase = "prepared" /\ Connectible = 0 .. EOS

(* The unk makers' own properties, checked on the inputs and dictionaries *)
(* of the build (module UnkMakers): each maker that returned appended     *)
(* exactly the spans its loops should spawn, from the trie statuses it met. *)
UnkSeedsExact == U!UnkSeedsExact

(* The notPrefix placeholder of every unknown seed says whether its surface *)
(* is a prefix of some dictionary word, whichever loop produced it.         *)
NotPrefixSound == U!NotPrefixSound

(* Every spawnNodes loop of every maker returns. *)
AllMakersReturn == U!AllMakersReturn

=============================================================================
