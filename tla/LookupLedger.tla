----------------------------- MODULE LookupLedger -----------------------------
(***************************************************************************)
(* What an adapter between a file system with lookup counts and callers    *)
(* without them promises: it returns lookups it was granted and has not    *)
(* returned yet, and no others.  held is what it can still return, owed    *)
(* what the file system still counts.  The two are equal as long as no     *)
(* lookup is discarded, which is giving one up without returning it.       *)
(***************************************************************************)
EXTENDS Integers

CONSTANT Inodes

VARIABLES owed, held

Init ==
  /\ owed = [i \in Inodes |-> 0]
  /\ held = [i \in Inodes |-> 0]

\* The file system answers with an entry for i.
Grant(i) ==
  /\ owed' = [owed EXCEPT ![i] = @ + 1]
  /\ held' = [held EXCEPT ![i] = @ + 1]

\* Part of what is held is given up, of any number of inodes at once.
GiveUp ==
  /\ held' = [i \in Inodes |-> held'[i]]
  /\ \A i \in Inodes : held'[i] \in Int /\ 0 <= held'[i] /\ held'[i] <= held[i]

\* It is given up by forgetting it.
Return ==
  /\ GiveUp
  /\ owed' = [i \in Inodes |-> owed[i] - (held[i] - held'[i])]

Discard == GiveUp /\ UNCHANGED owed

Next == (\E i \in Inodes : Grant(i)) \/ Return \/ Discard

Spec == Init /\ [][Next]_<<owed, held>>

\* The ledger of an adapter that discards nothing.
StrictSpec == Init /\ [][(\E i \in Inodes : Grant(i)) \/ Return]_<<owed, held>>

=============================================================================
