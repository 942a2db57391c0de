--------------------------- MODULE MCKeypadConsole ---------------------------
(* Small instances of KeypadConsole for TLC.                               *)
EXTENDS KeypadConsole, TLC

\* Registrations and functions are interchangeable.
Symmetry == Permutations(Handles) \union Permutations(Fns)

\* Cells that hold no pending key are written before they are read again, and
\* so is the handler's key while it takes the next one; of the key that a reader
\* got, later steps are compared with its number only; and once the handler is
\* lost nothing happens any more.  States that differ in these only are the same
\* for every property.
Ring(q) == <<q.Head, q.Tail, PendingKeys(q)>>
Key == IF pc = "pop" THEN NoKey ELSE KeyData
View ==
    IF pc = "lost"
    THEN <<pc, ready, returned>>
    ELSE <<Ring(EfiKeyQueue), Ring(EfiKeyQueueForNotify), NotifyList, signaled,
           cs, push, pc, Key, Link, CurrentNotify, strayed, lastCall,
           IsSupportPartialKey, ready, returned.key.seq>>

=============================================================================
