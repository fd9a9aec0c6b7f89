\* rows of one or two elements, arrays of up to three rows (the empty
\* array and the empty slice at the end included)
CONSTANTS
  RowSizes = {1, 2}
  MaxRows = 3
SPECIFICATION Spec
\* a const view asked for the empty slice at its end, rows(n, n), stops at
\* the const overloads' JPP_DCHECK_IN(start, 0, numRows_)
INVARIANT RowsContractAgrees
