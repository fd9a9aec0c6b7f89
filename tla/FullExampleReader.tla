------------------------- MODULE FullExampleReader -------------------------
(***************************************************************************)
(* FullExampleReader (src/src/core/training/full_example.cc): reads fully  *)
(* annotated training examples from an in-memory CSV.                      *)
(*   SimpleCsv: one word per line, an example ends at a line that is empty *)
(*              or "EOS"; lines starting with "# " are comments.           *)
(*   DoubleCsv: one example per line, words separated by the token         *)
(*              separator; a token "#" starts the comment.                 *)
(* The client initialises the reader once and passes the same             *)
(* FullyAnnotatedExample object to every readFullExample call.             *)
(*                                                                         *)
(* Data abstraction: a word is its surface (a sequence of codepoints, so   *)
(* that its length is preprocessRawData's codepoint count), the value of   *)
(* its one annotated field and the first failure its parsing meets:       *)
(*   "utf8"   -- preprocessRawData rejects the surface,                    *)
(*   "fields" -- the word has fewer fields than tio_->fields(),            *)
(*   "import" -- the unknown value does not fit charBuffer_.import, which *)
(*               fails only when the import is attempted.                  *)
(* A field value found in str2int is stored as its id (Id), otherwise as   *)
(* ~item, item its index in strings_.  A DoubleCsv token that csv2_ cannot *)
(* read a line from has the failure "empty".                               *)
(*                                                                         *)
(* Quoting (the CsvReader is not in this repository; this is what the      *)
(* import guard of readSingleExampleFragment presupposes of it): a field   *)
(* of an unquoted row is a view into the text the reader was given, a      *)
(* field of a row with a quoted field (rowHadQuoted) is a view into the    *)
(* reader's own row buffer, valid until the reader reads its next row.     *)
(* A word's "quoted" is rowHadQuoted of the reader its fields come from    *)
(* (csv_ in SimpleCsv, csv2_ in DoubleCsv); a DoubleCsv line's "quoted" is *)
(* csv_.rowHadQuoted() for that line.  A strings_ entry records its value  *)
(* and its view: 0 for text that stays (the input, charBuffer_), n for the *)
(* n-th row csv2_ was given.                                               *)
(***************************************************************************)
EXTENDS Integers, Sequences, SequencesExt

CONSTANTS
  Surfs,        \* surfaces (sequences of codepoints)
  Vals,         \* field values
  Id,           \* str2int: the ids of the values it knows
  Comments,     \* comment texts
  Errs,         \* failures a word may meet, "none" included
  MaxLines,     \* lines of one SimpleCsv input
  MaxDblLines,  \* lines of one DoubleCsv input
  MaxTokens     \* words of one DoubleCsv line

Known == DOMAIN Id

ASSUME /\ Id \in [Known -> Nat] /\ Known \subseteq Vals
       /\ "none" \in Errs /\ Errs \subseteq {"none", "utf8", "fields", "import"}

Words == {w \in [surf : Surfs, val : Vals, err : Errs, quoted : BOOLEAN] :
            w.err = "import" => w.val \notin Known}

CsvLines == {[k |-> "eos"]} \cup [k : {"comment"}, text : Comments]
            \cup [k : {"word"}, w : Words]

(* a DoubleCsv token csv2_ reads no line from *)
EmptyToken == [surf |-> <<>>, val |-> CHOOSE v \in Vals : TRUE, err |-> "empty",
               quoted |-> FALSE]

DblLines == [tokens : BoundedSeq(Words \cup {EmptyToken}, MaxTokens),
             hash : {FALSE}, parts : {<<>>}, quoted : BOOLEAN]
            \cup [tokens : BoundedSeq(Words \cup {EmptyToken}, MaxTokens),
                  hash : {TRUE}, parts : BoundedSeq(Comments, 1),
                  quoted : BOOLEAN]

VARIABLES
  mode,      \* mode_: "csv" or "dbl"
  finished,  \* finished_
  stream,    \* the lines csv_ was initialised with
  pos,       \* lines csv_ has consumed
  data,      \* result->data_
  lengths,   \* result->lengths_
  surface,   \* result->surface_
  strings,   \* result->strings_, as [val, view] records
  comment,   \* result->comment_, as the comment texts it is made of
  status,    \* outcome of the last readFullExample: "idle", "ok", "error"
  start,     \* pos when the last readFullExample began
  csv2Rows   \* rows csv2_ has been given by csv2_.initFromMemory

resultVars == <<data, lengths, surface, strings, comment>>
vars == <<mode, finished, stream, pos, resultVars, status, start, csv2Rows>>

----------------------------------------------------------------------------
(* the strings_ entry of an unknown value: imported into charBuffer_ it   *)
(* stays, otherwise it is the view the reader's field is                  *)
StringEntry(w, imp, view) == [val |-> w.val, view |-> IF imp THEN 0 ELSE view]

(* mutant: an unknown value stored as -item instead of ~item *)
FragmentItemOffByOne(r, w, imp, view) ==
  CASE w.err = "utf8"   -> [r EXCEPT !.status = "error"]
    [] w.err = "fields" -> [r EXCEPT !.lengths = Append(@, Len(w.surf)),
                                     !.status = "error"]
    [] w.val \in Known  -> [r EXCEPT !.lengths = Append(@, Len(w.surf)),
                                     !.surface = @ \o w.surf,
                                     !.data = Append(@, Id[w.val])]
    [] w.err = "import" /\ imp ->
                           [r EXCEPT !.lengths = Append(@, Len(w.surf)),
                                     !.surface = @ \o w.surf,
                                     !.status = "error"]
    [] OTHER            -> [r EXCEPT !.lengths = Append(@, Len(w.surf)),
                                     !.surface = @ \o w.surf,
                                     !.strings = Append(@, StringEntry(w, imp, view)),
                                     !.data = Append(@, -Len(r.strings))]

(* mutant: the word length pushed only after the field-count check *)
FragmentLengthAfterCheck(r, w, imp, view) ==
  CASE w.err = "utf8"   -> [r EXCEPT !.status = "error"]
    [] w.err = "fields" -> [r EXCEPT !.status = "error"]
    [] w.val \in Known  -> [r EXCEPT !.lengths = Append(@, Len(w.surf)),
                                     !.surface = @ \o w.surf,
                                     !.data = Append(@, Id[w.val])]
    [] w.err = "import" /\ imp ->
                           [r EXCEPT !.lengths = Append(@, Len(w.surf)),
                                     !.surface = @ \o w.surf,
                                     !.status = "error"]
    [] OTHER            -> [r EXCEPT !.lengths = Append(@, Len(w.surf)),
                                     !.surface = @ \o w.surf,
                                     !.strings = Append(@, StringEntry(w, imp, view)),
                                     !.data = Append(@, -Len(r.strings) - 1)]

(* readSingleExampleFragment for a word with one annotated field; imp is  *)
(* csv_.rowHadQuoted(), the condition of the import, and view what the    *)
(* field of csv (the reader passed in) points into                        *)
Fragment(r, w, imp, view) ==
  CASE w.err = "utf8"   -> [r EXCEPT !.status = "error"]
    [] w.err = "fields" -> [r EXCEPT !.lengths = Append(@, Len(w.surf)),
                                     !.status = "error"]
    [] w.val \in Known  -> [r EXCEPT !.lengths = Append(@, Len(w.surf)),
                                     !.surface = @ \o w.surf,
                                     !.data = Append(@, Id[w.val])]
    [] w.err = "import" /\ imp ->
                           [r EXCEPT !.lengths = Append(@, Len(w.surf)),
                                     !.surface = @ \o w.surf,
                                     !.status = "error"]
    [] OTHER            -> [r EXCEPT !.lengths = Append(@, Len(w.surf)),
                                     !.surface = @ \o w.surf,
                                     !.strings = Append(@, StringEntry(w, imp, view)),
                                     !.data = Append(@, -Len(r.strings) - 1)]

(* a line of one empty field or "EOS" ends a SimpleCsv example *)
IsEosLine(l) == l.k = "eos"

(* startsWith(line, "# ") *)
IsCommentLine(l) == l.k = "comment"

(* mutant: running out of lines does not set finished_ *)
RECURSIVE CsvLoopNoFinish(_)
CsvLoopNoFinish(r) ==
  IF r.pos >= Len(stream)
  THEN [r EXCEPT !.status = "ok"]
  ELSE LET l  == stream[r.pos + 1]
           r1 == [r EXCEPT !.pos = @ + 1]
       IN  CASE IsEosLine(l)     -> [r1 EXCEPT !.status = "ok"]
             [] IsCommentLine(l) -> CsvLoopNoFinish([r1 EXCEPT !.comment = <<l.text>>])
             [] OTHER            -> LET f == Fragment(r1, l.w, l.w.quoted, 0)
                                    IN  IF f.status = "error" THEN f
                                        ELSE CsvLoopNoFinish(f)

(* readFullExampleCsv: the while (csv_.nextLine()) loop from r.pos *)
RECURSIVE CsvLoop(_)
CsvLoop(r) ==
  IF r.pos >= Len(stream)
  THEN [r EXCEPT !.finished = TRUE, !.status = "ok"]
  ELSE LET l  == stream[r.pos + 1]
           r1 == [r EXCEPT !.pos = @ + 1]
       IN  CASE IsEosLine(l)     -> [r1 EXCEPT !.status = "ok"]
             [] IsCommentLine(l) -> CsvLoop([r1 EXCEPT !.comment = <<l.text>>])
             [] OTHER            -> LET f == Fragment(r1, l.w, l.w.quoted, 0)
                                    IN  IF f.status = "error" THEN f
                                        ELSE CsvLoop(f)

(* the loop over the words of a DoubleCsv line whose csv_ row has quoted *)
(* fields when q: csv2_.initFromMemory(content) gives csv2_ its next row   *)
(* before nextLine can fail                                               *)
RECURSIVE DblTokens(_, _, _)
DblTokens(r, toks, q) ==
  IF toks = <<>> THEN r
  ELSE LET w  == Head(toks)
           r1 == [r EXCEPT !.csv2Rows = @ + 1]
       IN  IF w.err = "empty" THEN [r1 EXCEPT !.status = "error"]
           ELSE LET f == Fragment(r1, w, q, IF w.quoted THEN r1.csv2Rows ELSE 0)
                IN  IF f.status = "error" THEN f
                    ELSE DblTokens(f, Tail(toks), q)

(* readFullExampleDblCsv *)
DblLine(r) ==
  IF r.pos >= Len(stream)
  THEN [r EXCEPT !.finished = TRUE, !.status = "ok"]
  ELSE LET l == stream[r.pos + 1]
           f == DblTokens([r EXCEPT !.finished = FALSE, !.pos = @ + 1], l.tokens, l.quoted)
       IN  IF f.status = "error" THEN f
           ELSE [f EXCEPT !.comment = IF l.hash THEN @ \o l.parts ELSE @,
                          !.status = "ok"]

----------------------------------------------------------------------------
(* initCsv(data): a fresh example object and a reader on the input s *)
InitCsv(s) ==
  /\ mode = "csv" /\ stream = s /\ finished = FALSE /\ pos = 0

(* initDoubleCsv(data, tokenSep, fieldSep) *)
InitDoubleCsv(s) ==
  /\ mode = "dbl" /\ stream = s /\ finished = FALSE /\ pos = 0

(* mutant: readFullExample without clearing data_ *)
ReadFullExampleNoClear ==
  /\ ~finished /\ status # "error"
  /\ LET r0 == [data |-> data, lengths |-> <<>>, surface |-> surface,
                strings |-> strings, comment |-> comment, pos |-> pos,
                finished |-> finished, csv2Rows |-> csv2Rows, status |-> "reading"]
         r  == IF mode = "csv" THEN CsvLoop(r0) ELSE DblLine(r0)
     IN  /\ data' = r.data /\ lengths' = r.lengths /\ surface' = r.surface
         /\ strings' = r.strings /\ comment' = r.comment
         /\ pos' = r.pos /\ finished' = r.finished /\ status' = r.status
         /\ csv2Rows' = r.csv2Rows
  /\ start' = pos
  /\ UNCHANGED <<mode, stream>>

(* readFullExample(result): clear data_ and lengths_, read by mode; the   *)
(* client reads again while the reader is not finished and did not fail  *)
ReadFullExample ==
  /\ ~finished /\ status # "error"
  /\ LET r0 == [data |-> <<>>, lengths |-> <<>>, surface |-> surface,
                strings |-> strings, comment |-> comment, pos |-> pos,
                finished |-> finished, csv2Rows |-> csv2Rows, status |-> "reading"]
         r  == IF mode = "csv" THEN CsvLoop(r0) ELSE DblLine(r0)
     IN  /\ data' = r.data /\ lengths' = r.lengths /\ surface' = r.surface
         /\ strings' = r.strings /\ comment' = r.comment
         /\ pos' = r.pos /\ finished' = r.finished /\ status' = r.status
         /\ csv2Rows' = r.csv2Rows
  /\ start' = pos
  /\ UNCHANGED <<mode, stream>>

Init ==
  /\ \/ \E s \in BoundedSeq(CsvLines, MaxLines) : InitCsv(s)
     \/ \E s \in BoundedSeq(DblLines, MaxDblLines) : InitDoubleCsv(s)
  /\ data = <<>> /\ lengths = <<>> /\ surface = <<>> /\ strings = <<>>
  /\ comment = <<>> /\ status = "idle" /\ start = 0 /\ csv2Rows = 0

(* the client calls readFullExample until finished_ or a failure *)
Next == ReadFullExample

Spec == Init /\ [][Next]_vars /\ WF_vars(ReadFullExample)

----------------------------------------------------------------------------
(* Properties *)

TypeOK ==
  /\ mode \in {"csv", "dbl"} /\ finished \in BOOLEAN
  /\ stream \in Seq(CsvLines \cup DblLines) /\ Len(stream) <= MaxLines
  /\ pos \in 0 .. Len(stream) /\ start \in 0 .. pos
  /\ data \in Seq(Range(Id) \cup {-x : x \in 1 .. Len(strings)})
  /\ lengths \in Seq(Nat) /\ strings \in Seq([val : Vals, view : 0 .. csv2Rows])
  /\ comment \in Seq(Comments) /\ status \in {"idle", "ok", "error"}

(* the SimpleCsv example that starts after line p: its lines up to the   *)
(* first EOS line, or to the end of the input                            *)
CsvEnd(p) ==
  LET eos == {x \in p + 1 .. Len(stream) : IsEosLine(stream[x])}
  IN  IF eos = {} THEN Len(stream) ELSE Min(eos)

CsvWords(p) ==
  LET ls == SelectSeq(SubSeq(stream, p + 1, CsvEnd(p)), LAMBDA l : l.k = "word")
  IN  [x \in DOMAIN ls |-> ls[x].w]

(* the words (or unreadable tokens) of the example a call started at p   *)
(* should return, and where the next one starts                          *)
ExampleWords(p) ==
  IF mode = "csv" THEN CsvWords(p)
  ELSE IF p < Len(stream) THEN stream[p + 1].tokens ELSE <<>>

ExampleEnd(p) ==
  IF mode = "csv" THEN CsvEnd(p) ELSE IF p < Len(stream) THEN p + 1 ELSE p

AtEnd(p) ==
  IF mode = "csv" THEN \A x \in p + 1 .. Len(stream) : ~IsEosLine(stream[x])
  ELSE p >= Len(stream)

(* whether readSingleExampleFragment tries to import an unknown value of *)
(* the word t: csv_.rowHadQuoted() for the row csv_ stands on            *)
ImportTried(t) == IF mode = "csv" THEN t.quoted ELSE stream[start + 1].quoted

GoodWord(t) == t.err = "none" \/ (t.err = "import" /\ ~ImportTried(t))

(* the value a data_ entry stands for: an id of str2int or ~item *)
Decode(d) == IF d >= 0 THEN CHOOSE v \in Known : Id[v] = d ELSE strings[-d].val

(* Each readFullExample returns the next example of the input and nothing *)
(* else: it fails exactly when a word of that example is unreadable, and *)
(* otherwise its lengths_ and data_ are those words' codepoint counts and *)
(* field values (ids or indices into strings_, which is never cleared),   *)
(* the reader stands at the start of the following example, and finished_ *)
(* is set exactly when the input ran out (a SimpleCsv example without a   *)
(* closing EOS line is still returned).                                  *)
ReadReturnsNextExample ==
  status \in {"ok", "error"} =>
    LET ws == ExampleWords(start) IN
    /\ status = "ok" <=> \A x \in DOMAIN ws : GoodWord(ws[x])
    /\ status = "ok" =>
         /\ lengths = [x \in DOMAIN ws |-> Len(ws[x].surf)]
         /\ Len(data) = Len(ws)
         /\ \A x \in DOMAIN ws : Decode(data[x]) = ws[x].val
         /\ pos = ExampleEnd(start)
         /\ finished <=> AtEnd(start)

(* What a failed readFullExample leaves in the example it returns with   *)
(* the error: the words before the first unreadable one are stored in    *)
(* full, and lengths_ also holds the failing word's codepoint count when *)
(* it failed after preprocessRawData (too few fields, a failed import),  *)
(* so lengths_ is then one longer than data_ has words.                  *)
ReadFailureLeavesPrefix ==
  status = "error" =>
    LET ws   == ExampleWords(start)
        i    == Min({x \in DOMAIN ws : ~GoodWord(ws[x])})
        good == SubSeq(ws, 1, i - 1)
    IN  /\ Len(data) = i - 1
        /\ lengths = [x \in DOMAIN good |-> Len(good[x].surf)]
                      \o (IF ws[i].err \in {"fields", "import"}
                          THEN <<Len(ws[i].surf)>> ELSE <<>>)

(* Every strings_ entry the example holds names text that is still there: *)
(* the input, charBuffer_, or the row csv2_ holds now.  The import at the  *)
(* end of readSingleExampleFragment is what keeps the views of a quoted    *)
(* row's fields from dangling once their reader moves on; it is decided by *)
(* csv_.rowHadQuoted() even when the fields are csv2_'s.                   *)
StringsStayValid == \A x \in DOMAIN strings : strings[x].view \in {0, csv2Rows}

(* A client that keeps reading until finished_ or a failure gets there: *)
(* no call returns without consuming a line unless the input is over.   *)
ReadingEnds == <>(finished \/ status = "error")

=============================================================================
