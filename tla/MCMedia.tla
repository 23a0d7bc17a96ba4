------------------------------- MODULE MCMedia -------------------------------
EXTENDS MediaSourceProperties

OneSetting(rewinds, stamped, verified, faults) ==
  [rewinds |-> rewinds, stamped |-> stamped, declares |-> TRUE, origin |-> IF stamped THEN 1 ELSE 0,
   verified |-> verified, faults |-> faults]

\* A file that seeks, a raw stream that can only be re-opened, a pipe; on a major
\* whose I/O state can be cleared and on one where it cannot.  A file being
\* written, one that may vanish, and one that declares no duration.
SettledSources ==
  {OneSetting(TRUE, TRUE, TRUE, {"cancel", "seek", "memory"}), OneSetting(TRUE, TRUE, FALSE, {"cancel", "seek"})}
  \cup {OneSetting(FALSE, TRUE, v, {"cancel", "memory"}) : v \in BOOLEAN}
  \cup {OneSetting(TRUE, FALSE, v, {"cancel", "open"}) : v \in BOOLEAN}
  \cup {OneSetting(TRUE, TRUE, v, {"cancel", "grow"}) : v \in BOOLEAN}
  \cup {[OneSetting(TRUE, TRUE, TRUE, {"open", "seek"}) EXCEPT !.declares = FALSE]}
Forgetful == {OneSetting(TRUE, TRUE, TRUE, {"cancel", "seek"})}
Raw == {OneSetting(TRUE, FALSE, TRUE, {"cancel"})}
OnAndPastTheFrames == {0, 1, 3, 5}
FirstAndLast == {0, 2}
NoValue == -1
=============================================================================
