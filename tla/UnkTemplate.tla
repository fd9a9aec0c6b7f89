---------------------------- MODULE UnkTemplate ----------------------------
(***************************************************************************)
(* The two readers of the entry store in UnkNodesContext                   *)
(* (src/src/core/analysis/unk_nodes_creator.cc):                           *)
(*   dicPatternMatches(conf, entries): walks the entries of one trie node  *)
(*     and answers whether one of them agrees with the unknown-node        *)
(*     template conf.base on every pattern field;                          *)
(*   makePtr(surface, conf, eptr, feature): an unknown node whose features *)
(*     are copied from the dictionary entry eptr, with the surface-replaced *)
(*     fields then overwritten by the surface hash.                        *)
(* Both fill a default-constructed DicEntryBuffer through                  *)
(* fillFromStorage (src/src/core/dic/dic_entries.h), which can fail when   *)
(* the packed storage ends before the entry does.                          *)
(*                                                                         *)
(* An entry of the store is its feature values, whether it is an alias,   *)
(* and how many ints the storage is short of it ("short", 0 when intact).  *)
(* Only featureBuffer_'s first numFeatures slots are kept: they are all    *)
(* either caller reads; an uninitialised slot holds a value of Garbage.    *)
(* A surface is reduced to the 64-bit murmur hash of its bytes; the hash   *)
(* arithmetic is kept at a width of HashBits for the 32 bits of the code   *)
(* and 2 * HashBits for its 64 (TLC's integers are 32-bit).               *)
(***************************************************************************)
EXTENDS Integers, Sequences, SequencesExt, FiniteSetsExt

CONSTANTS
  NumFeatures,         \* numFeatures of the dictionary
  NumData,             \* numData of the dictionary
  Vals,                \* feature values
  Base,                \* conf.base.data(): the template's feature values
  ReplaceWithSurface,  \* conf.replaceWithSurface: field indices
  Shorts,              \* how many ints the storage may be short of an entry
  PtrShorts,           \* how many pointers a node's pointer list may be short of
  Garbage,             \* values an uninitialised int may hold
  Murmur,              \* murmurhash3 values of the surfaces
  HashBits,            \* width of the trimmed hash (32 in the code)
  MaxEntries           \* entries of one trie node

FSlots == 0 .. NumFeatures - 1

ASSUME /\ NumFeatures \in Nat \ {0} /\ NumData \in Nat
       /\ Base \in [FSlots -> Vals] /\ ReplaceWithSurface \subseteq FSlots
       /\ 0 \in Shorts /\ 0 \in PtrShorts /\ HashBits \in Nat \ {0}
       /\ Murmur \subseteq 0 .. 2^(2 * HashBits) - 1

StoreEntries ==
  [feat : [FSlots -> Vals], alias : BOOLEAN, short : Shorts]

VARIABLES
  list,    \* the entries of the trie node dicPatternMatches was given
  pos,     \* entries readOnePtr has moved past
  avail,   \* pointers readOneCumulative can decode before the list's storage ends
  fb,      \* featureBuffer_ of dicPatternMatches' buffer
  call,    \* "idle", "pattern" (in the loop), "done"
  result,  \* what the last dicPatternMatches returned
  node,    \* the last node makePtr built from a template entry
  made     \* makePtr has built a node

vars == <<list, pos, avail, fb, call, result, node, made>>

(* IndexedEntries::readOnePtr(): false when the list is empty, and false  *)
(* through JPP_RET_CHECK when readOneCumulative cannot decode the next    *)
(* pointer                                                                *)
ReadOnePtr == pos < Len(list) /\ pos < avail

----------------------------------------------------------------------------
(* fillPatternFields(): every field of base not replaced by the surface *)
FillPatternFields == {i \in FSlots : i \notin ReplaceWithSurface}

PatternFields == FillPatternFields

(* numFeatures + 1 ints for an alias (the count), else numFeatures +     *)
(* numData                                                               *)
TotalCnt(e) == IF e.alias THEN NumFeatures + 1 ELSE NumFeatures + NumData

(* fillFromStorage after setCounts: actualData.fill writes the ints the   *)
(* storage still has, up to totalCnt, and the fill fails when it had     *)
(* fewer                                                                  *)
FillFeatures(b, e) ==
  LET num == TotalCnt(e) - e.short IN
  [x \in FSlots |-> IF x < num THEN e.feat[x] ELSE b[x]]

FillOk(e) == e.short = 0

(* mutant: a mismatch on a pattern field ends the walk *)
PatternStepBreak ==
  /\ call = "pattern" /\ ReadOnePtr
  /\ LET e  == list[pos + 1]
         f1 == FillFeatures(fb, e)
     IN  /\ fb' = f1 /\ pos' = pos + 1
         /\ call' = "done"
         /\ result' = (~FillOk(e) \/ \A idx \in PatternFields : f1[idx] = Base[idx])
  /\ UNCHANGED <<list, avail, node, made>>

(* hashUnkString: the low 32 bits of the murmur hash (u32 trimmed), the  *)
(* top bit or-ed in, the result as an i32                                *)
HashUnkString(m) ==
  LET trimmed == m % 2^HashBits
      set     == IF trimmed >= 2^(HashBits - 1) THEN trimmed
                 ELSE trimmed + 2^(HashBits - 1)
  IN  set - 2^HashBits

(* UnkNodeConfig::fillElems (spec 4.2): the surface-replaced fields take *)
(* the surface hash                                                       *)
FillElems(data, h) ==
  [x \in FSlots |-> IF x \in ReplaceWithSurface THEN h ELSE data[x]]

(* makePtr's node features: copy_buffer(buffer.features(), data), then  *)
(* conf.fillElems(data, hashValue); features() has numFeatures_ slots,  *)
(* set by setCounts whether or not the fill succeeded                    *)
TemplateFeatures(b, e, m) == FillElems(FillFeatures(b, e), HashUnkString(m))

----------------------------------------------------------------------------
(* mutant: the entry cursor kept from the last call *)
PatternStartNoReset ==
  /\ call \in {"idle", "done"}
  /\ \E l \in BoundedSeq(StoreEntries, MaxEntries), g \in Garbage :
       /\ list' = l /\ fb' = [x \in FSlots |-> g]
       /\ avail' \in {Len(l) - sh : sh \in PtrShorts} \cap Nat
  /\ call' = "pattern"
  /\ UNCHANGED <<pos, result, node, made>>

(* dicPatternMatches begins: a fresh buffer over the entries of one node *)
PatternStart ==
  /\ call \in {"idle", "done"}
  /\ \E l \in BoundedSeq(StoreEntries, MaxEntries), g \in Garbage :
       /\ list' = l /\ fb' = [x \in FSlots |-> g]
       /\ avail' \in {Len(l) - sh : sh \in PtrShorts} \cap Nat
  /\ pos' = 0 /\ call' = "pattern"
  /\ UNCHANGED <<result, node, made>>

(* one turn of while (entries.readOnePtr()): fillEntryData, then the     *)
(* pattern fields; a failed fill answers true, a match answers true, a   *)
(* mismatch goes on to the next entry (goto nextWord)                    *)
PatternStep ==
  /\ call = "pattern" /\ ReadOnePtr
  /\ LET e  == list[pos + 1]
         f1 == FillFeatures(fb, e)
         hit == \A idx \in PatternFields : f1[idx] = Base[idx]
     IN  /\ fb' = f1 /\ pos' = pos + 1
         /\ call' = IF ~FillOk(e) \/ hit THEN "done" ELSE "pattern"
         /\ result' = IF ~FillOk(e) \/ hit THEN TRUE ELSE result
  /\ UNCHANGED <<list, avail, node, made>>

(* readOnePtr() is false: no entry matched *)
PatternEnd ==
  /\ call = "pattern" /\ ~ReadOnePtr
  /\ result' = FALSE /\ call' = "done"
  /\ UNCHANGED <<list, pos, avail, fb, node, made>>

(* makePtr(surface, conf, eptr, feature): a default-constructed buffer   *)
(* filled by fillBuffer; a failed fill is only logged                     *)
MakeTemplatePtr ==
  /\ \E e \in StoreEntries, m \in Murmur, g \in Garbage :
       node' = [tmpl |-> e, murmur |-> m,
                feat |-> TemplateFeatures([x \in FSlots |-> g], e, m)]
  /\ made' = TRUE
  /\ UNCHANGED <<list, pos, avail, fb, call, result>>

Init ==
  /\ list = <<>> /\ pos = 0 /\ avail = 0 /\ fb = [x \in FSlots |-> 0]
  /\ call = "idle" /\ result = FALSE
  /\ node = [tmpl |-> CHOOSE e \in StoreEntries : TRUE, murmur |-> 0,
             feat |-> [x \in FSlots |-> 0]]
  /\ made = FALSE

Next == PatternStart \/ PatternStep \/ PatternEnd \/ MakeTemplatePtr

Spec == Init /\ [][Next]_vars

----------------------------------------------------------------------------
(* Properties *)

TypeOK ==
  /\ list \in Seq(StoreEntries) /\ pos \in 0 .. Len(list) /\ avail \in 0 .. Len(list)
  /\ fb \in [FSlots -> Vals \cup Garbage]
  /\ call \in {"idle", "pattern", "done"} /\ result \in BOOLEAN
  /\ node.tmpl \in StoreEntries /\ node.feat \in [FSlots -> Int] /\ made \in BOOLEAN

EntryMatches(e) == \A idx \in PatternFields : e.feat[idx] = Base[idx]

(* dicPatternMatches answers exactly whether some entry of the trie node *)
(* that its pointer list lets it reach agrees with the template on every *)
(* pattern field: the buffer it reuses across entries, the goto to the   *)
(* next entry and the early answers give neither a false match nor a     *)
(* missed one (spec 4.2, and spec 7: an entry that cannot be read is a   *)
(* failure, not a match).  A pointer list whose storage ends early stops *)
(* the loop as readOnePtr() false, so the entries past the break count   *)
(* as not matching.                                                      *)
PatternCheckExact ==
  call = "done" => (result <=> \E x \in 1 .. avail : EntryMatches(list[x]))

(* The answer spec 7 asks for: whether some entry of the node matches,   *)
(* with no part of the node's data silently skipped.                     *)
AnswerOverAllEntries ==
  call = "done" => (result <=> \E x \in DOMAIN list : EntryMatches(list[x]))

(* A node made from a template entry carries that entry's features, with *)
(* exactly the surface-replaced fields holding the negative surface hash *)
(* (spec 4.2: the node copies the template's feature data).              *)
TemplateNodeCopiesEntry ==
  made => \A x \in FSlots :
    node.feat[x] = IF x \in ReplaceWithSurface THEN HashUnkString(node.murmur)
                   ELSE node.tmpl.feat[x]

(* Spec section 7: an entry the store cannot deliver in full is a failure *)
(* of the analysis, never a silent fallback: dicPatternMatches does not   *)
(* take it for a match (nor a pointer list it cannot decode for no match) *)
(* and makePtr does not copy it into a node.                              *)
NoSilentFallback == AnswerOverAllEntries /\ TemplateNodeCopiesEntry

=============================================================================
