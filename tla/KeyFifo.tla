------------------------------- MODULE KeyFifo -------------------------------
(***************************************************************************)
(* What KeypadDxe promises the readers of its keys: a first-in first-out   *)
(* buffer of bounded capacity.  A key that arrives is buffered, and when   *)
(* the buffer is full it takes the place of the OLDEST key.  A reader gets *)
(* the oldest key.  Apart from a reset, a key that is not handed to a      *)
(* reader can be skipped only if it is of the kind that plain readers do   *)
(* not understand.                                                         *)
(***************************************************************************)
EXTENDS Naturals, Sequences

CONSTANTS Elem,       \* the keys that can arrive
          Skippable,  \* the partial keys
          Capacity    \* how many keys can be pending

VARIABLES pending,    \* the buffered keys, oldest first
          arrived,    \* how many keys arrived so far
          got         \* the last key that a reader got

fifoVars == <<pending, arrived, got>>

Init == pending = << >> /\ arrived = 0 /\ got \in Elem \union Skippable

Arrive(e) ==
    LET longer == Append(pending, e)
    IN  /\ arrived' = arrived + 1
        /\ UNCHANGED got
        /\ pending' = IF Len(longer) > Capacity THEN Tail(longer) ELSE longer

Take == /\ pending # << >>
        /\ got' = Head(pending)
        /\ pending' = Tail(pending)
        /\ UNCHANGED arrived

Skip == /\ pending # << >> /\ Head(pending) \in Skippable
        /\ pending' = Tail(pending)
        /\ UNCHANGED <<arrived, got>>

Clear == pending' = << >> /\ UNCHANGED <<arrived, got>>

Next == Take \/ Skip \/ Clear \/ \E e \in Elem : Arrive(e)

Spec == Init /\ [][Next]_fifoVars
=============================================================================
