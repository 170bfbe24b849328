------------------------------- MODULE IoPlan -------------------------------
(***************************************************************************)
(* The arithmetic of the I/O handlers: signed numbers from Dokan, unsigned *)
(* ones for the file system (helpers.rs, operations.rs, security.rs).      *)
(* Every plan is a record with ok FALSE where the code answers             *)
(* STATUS_INVALID_PARAMETER.                                               *)
(***************************************************************************)
EXTENDS Integers

CONSTANTS
  I64Max,  \* the largest offset or length that Dokan can send
  U32Max   \* the longest buffer that can be reported

ASSUME WidthsAssumption == I64Max \in Nat /\ U32Max \in Nat

Offsets == -I64Max - 1 .. I64Max

Invalid == [ok |-> FALSE]
Value(n) == [ok |-> TRUE, value |-> n]

Nonnegative(n) == IF n < 0 THEN Invalid ELSE Value(n)
CheckedLen(n) == IF n > U32Max THEN Invalid ELSE Value(n)

\* checked_lock_range: the sum must fit its 64 bits.
LockRange(offset, length) ==
  IF offset < 0 \/ length < 0 \/ offset + length > I64Max THEN Invalid
  ELSE [ok |-> TRUE, start |-> offset, end |-> offset + length]

\* Mutant: the buffer is cut to the size of the file, wherever it starts.
PlanCutsToSize(size, offset, length, toEof, paging) ==
  LET start == IF toEof THEN size ELSE offset IN
  IF ~toEof /\ offset < 0 THEN Invalid
  ELSE [ok |-> TRUE, start |-> start,
        length |-> IF paging /\ size < length THEN size ELSE length]

\* dokan_write_plan.  The size is asked for only when it is needed.
WritePlan(size, offset, length, toEof, paging) ==
  LET start == IF toEof THEN size ELSE offset
      room == IF start >= size THEN 0 ELSE size - start IN
  IF ~toEof /\ offset < 0 THEN Invalid
  ELSE [ok |-> TRUE, start |-> start,
        length |-> IF paging /\ room < length THEN room ELSE length]

\* xattr_reported_len: what the file system says the data is long, a hint
\* before the data itself.
ReportedLength(length, hint) == IF hint.given THEN Value(hint.size) ELSE CheckedLen(length)

\* Mutant: an answer without data is taken for empty data.
NeverFetched(length, hint) == FALSE

\* xattr_needs_data_fetch: an answer without data but with a size.
NeedsFetch(length, hint) == length = 0 /\ hint.given /\ hint.size > 0

=============================================================================
