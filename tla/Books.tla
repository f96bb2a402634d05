------------------------------- MODULE Books --------------------------------
(***************************************************************************)
(* What the general ledger promises, with no transactions, locks or reads   *)
(* in sight: one append-only book per fiscal year, in which the position of *)
(* an entry is its number; an entry is reversed at most once, by a later    *)
(* entry of the same book; a locked book takes no entry but the reversal    *)
(* that unlocks it.                                                         *)
(***************************************************************************)
EXTENDS Naturals, Sequences

CONSTANTS Entry, Years

VARIABLES
  book,       \* book[y]: the entries of year y in the order of their numbers
  reversed,   \* the entries that have been reversed
  locked      \* the years closed by a closing entry

vars == <<book, reversed, locked>>

Entered(y) == {book[y][i] : i \in 1 .. Len(book[y])}

Init ==
  /\ book = [y \in Years |-> <<>>]
  /\ reversed = {}
  /\ locked = {}

Append1(e, y) ==
  /\ \A z \in Years : e \notin Entered(z)
  /\ book' = [book EXCEPT ![y] = Append(@, e)]

Enter(e, y) ==
  /\ y \notin locked
  /\ Append1(e, y)
  /\ UNCHANGED <<reversed, locked>>

Cancel(e, o, y) ==
  /\ o \in Entered(y) \ reversed
  /\ Append1(e, y)
  /\ reversed' = reversed \cup {o}

Reverse(e, o, y) ==
  /\ y \notin locked
  /\ Cancel(e, o, y)
  /\ UNCHANGED locked

Close(e, y) ==
  /\ y \notin locked
  /\ Append1(e, y)
  /\ locked' = locked \cup {y}
  /\ UNCHANGED reversed

Reopen(e, o, y) ==
  /\ Cancel(e, o, y)
  /\ locked' = locked \ {y}

\* A year can lose its lock while its closing entry stays in the book: the
\* unlocked paths of close and reopen overwrite year_end_closings.
Unlock(y) ==
  /\ y \in locked
  /\ locked' = locked \ {y}
  /\ UNCHANGED <<book, reversed>>

Next ==
  \E y \in Years :
    \/ Unlock(y)
    \/ \E e \in Entry :
         \/ Enter(e, y)
         \/ Close(e, y)
         \/ \E o \in Entry : Reverse(e, o, y) \/ Reopen(e, o, y)

Spec == Init /\ [][Next]_vars
=============================================================================
