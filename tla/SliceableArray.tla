--------------------------- MODULE SliceableArray ---------------------------
(***************************************************************************)
(* Sliceable<T> and ConstSliceable<T> (src/src/util/sliceable_array.h): a  *)
(* flat array slice seen as numRows_ rows of rowSize_ elements.  Views are *)
(* derived with topRows(n) and rows(start, end), through the mutable       *)
(* members of Sliceable, its const members (which return a                 *)
(* ConstSliceable), or those of ConstSliceable, and elements are read      *)
(* with row(i).at(col).                                                    *)
(*                                                                         *)
(* A slice is its offset into the lattice storage and its length; a read *)
(* is the storage index it reaches.                                       *)
(* The checks are those of a debug build: JPP_DCHECK_IN(x, lo, hi)        *)
(* (util/logging.hpp, outside src/) holds when lo <= x < hi, as row(i)    *)
(* relies on, and a failing DCHECK ends the process.                       *)
(***************************************************************************)
EXTENDS Integers

CONSTANTS
  RowSizes,  \* rowSize_ values of the arrays a client builds
  MaxRows    \* largest numRows_ of an array

ASSUME RowSizes \subseteq Nat \ {0} /\ MaxRows \in Nat

VARIABLES
  view,     \* [off, size, rowSize, numRows, kind]: the current view;
            \* kind "mut" (Sliceable) or "const" (ConstSliceable)
  read,     \* the storage index the last read reached, or NoRead
  failed    \* the DCHECK that ended the process, or "none"

vars == <<view, read, failed>>

NoRead == -1

Views == [off : Nat, size : Nat, rowSize : RowSizes, numRows : 0 .. MaxRows,
          kind : {"mut", "const"}]

----------------------------------------------------------------------------
(* the constructors: JPP_DCHECK_EQ(data_.size(), rowSize_ * numRows_) *)
Make(off, size, rs, n, kind) ==
  [off |-> off, size |-> size, rowSize |-> rs, numRows |-> n, kind |-> kind]

SizeOk(v) == v.size = v.rowSize * v.numRows

(* row(i): the slice {data_, rowSize_ * i, rowSize_} *)
RowOffset(v, i) == v.off + v.rowSize * i

(* rows(start, end): {data_, start * rowSize_, rowSize_ * (end - start)} *)
Rows(v, s, e) ==
  Make(v.off + s * v.rowSize, v.rowSize * (e - s), v.rowSize, e - s, v.kind)

(* topRows(nrows): {data_, 0, rowSize_ * nrows} *)
TopRows(v, n) == Make(v.off, v.rowSize * n, v.rowSize, n, v.kind)

(* ConstSliceable(const Sliceable&), and a member called through a const *)
(* reference, which returns a ConstSliceable                              *)
AsConst(v, asConst) == IF asConst THEN [v EXCEPT !.kind = "const"] ELSE v

(* the checks of Sliceable::rows (mutable): start <= numRows_,           *)
(* start <= end, end <= numRows_                                          *)
MutRowsChecks(v, s, e) == s <= v.numRows /\ s <= e /\ e <= v.numRows

(* the checks of ConstSliceable::rows and of Sliceable::rows const:      *)
(* JPP_DCHECK_IN(start, 0, numRows_), start <= end, end <= numRows_      *)
ConstRowsChecks(v, s, e) == s < v.numRows /\ s <= e /\ e <= v.numRows

(* topRows: JPP_DCHECK_LE(nrows, numRows_) (nrows >= 0 holds for size_t) *)
TopRowsChecks(v, n) == n <= v.numRows

(* row(i): JPP_DCHECK_IN(i, 0, numRows_) *)
RowChecks(v, i) == i < v.numRows

----------------------------------------------------------------------------
(* a client builds a fresh array of n rows over the storage *)
NewArray ==
  /\ \E rs \in RowSizes, n \in 0 .. MaxRows :
       view' = Make(0, rs * n, rs, n, "mut")
  /\ read' = NoRead /\ failed' = "none"

(* topRows(n) through the mutable members, the const members of          *)
(* Sliceable (a ConstSliceable results) or those of ConstSliceable; the   *)
(* arguments a caller passes are within the array                         *)
TakeTopRows ==
  /\ failed = "none"
  /\ \E n \in 0 .. view.numRows, asConst \in BOOLEAN :
       /\ TopRowsChecks(view, n)
       /\ view' = AsConst(TopRows(view, n), asConst)
       /\ failed' = IF SizeOk(view') THEN "none" ELSE "topRows"
  /\ UNCHANGED read

(* rows(start, end) with start <= end <= numRows_ *)
TakeRows ==
  /\ failed = "none"
  /\ \E s \in 0 .. view.numRows, e \in 0 .. view.numRows, asConst \in BOOLEAN :
       /\ s <= e
       /\ LET ok == IF view.kind = "mut" /\ ~asConst THEN MutRowsChecks(view, s, e)
                    ELSE ConstRowsChecks(view, s, e)
          IN  /\ view' = AsConst(Rows(view, s, e), asConst)
              /\ failed' = IF ok /\ SizeOk(view') THEN "none" ELSE "rows"
  /\ UNCHANGED read

(* at(row, col): row(row).at(col) *)
ReadAt ==
  /\ failed = "none"
  /\ \E i \in 0 .. view.numRows - 1, c \in 0 .. view.rowSize - 1 :
       /\ RowChecks(view, i)
       /\ read' = RowOffset(view, i) + c
  /\ UNCHANGED <<view, failed>>

Init ==
  /\ \E rs \in RowSizes, n \in 0 .. MaxRows : view = Make(0, rs * n, rs, n, "mut")
  /\ read = NoRead /\ failed = "none"

Next == NewArray \/ TakeTopRows \/ TakeRows \/ ReadAt

Spec == Init /\ [][Next]_vars

----------------------------------------------------------------------------
(* Properties *)

TypeOK ==
  /\ view \in Views
  /\ read \in Int
  /\ failed \in {"none", "topRows", "rows"}

(* The contract Sliceable::rows checks (start <= end <= numRows_) is the  *)
(* contract of every rows overload: a call within it never stops a debug *)
(* build, whether it goes through the mutable member, the const member of *)
(* Sliceable or ConstSliceable::rows, and whatever chain of views it is   *)
(* made on.  The const overloads check JPP_DCHECK_IN(start, 0, numRows_), *)
(* which rejects the empty slice at the end, rows(n, n), and every rows   *)
(* call on an empty array.                                                 *)
RowsContractAgrees == failed # "rows"


=============================================================================
