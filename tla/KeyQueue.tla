------------------------------ MODULE KeyQueue ------------------------------
(***************************************************************************)
(* EFI_KEY_QUEUE of KeypadDxe: a ring of KEYPAD_EFI_KEY_MAX_COUNT cells    *)
(* with a Head and a Tail index.  One cell always stays free, so the ring  *)
(* holds at most KEYPAD_EFI_KEY_MAX_COUNT - 1 keys; a push onto a full     *)
(* ring drops the oldest key.                                              *)
(***************************************************************************)
EXTENDS Naturals

CONSTANT KEYPAD_EFI_KEY_MAX_COUNT

ASSUME QueueSizeAssumption ==
    /\ KEYPAD_EFI_KEY_MAX_COUNT \in Nat
    /\ KEYPAD_EFI_KEY_MAX_COUNT >= 2

Cells == 0 .. (KEYPAD_EFI_KEY_MAX_COUNT - 1)

\* The type of a ring whose cells hold members of Elem.
KeyQueues(Elem) == [Buffer : [Cells -> Elem], Head : Cells, Tail : Cells]

\* AllocateZeroPool and InitKeypad: both indices at zero, the cells hold zero.
NewQueue(zero) == [Buffer |-> [c \in Cells |-> zero], Head |-> 0, Tail |-> 0]

\* InitKeypad clears the indices and leaves the cells alone.
ClearQueue(q) == [q EXCEPT !.Head = 0, !.Tail = 0]

\* Mutant: the index is not reduced.
NextCellNoWrap(c) == c + 1
NextCell(c) == (c + 1) % KEYPAD_EFI_KEY_MAX_COUNT

IsEfikeyBufEmpty(q) == q.Head = q.Tail

\* The key that a pop returns; meaningful on a non-empty ring only.
HeadKey(q) == q.Buffer[q.Head]

PopEfikeyBufHead(q) ==
    IF IsEfikeyBufEmpty(q) THEN q ELSE [q EXCEPT !.Head = NextCell(q.Head)]

\* The last two statements of PushEfikeyBufTail.
StoreAtTail(q, e) == [q EXCEPT !.Buffer[q.Tail] = e, !.Tail = NextCell(q.Tail)]

\* Mutants: the full check is missing; a full ring refuses the new key; the
\* new key is put in front of the others.
PushNoFullCheck(q, e) == StoreAtTail(q, e)
PushDropNewest(q, e) ==
    IF NextCell(q.Tail) = q.Head THEN q ELSE StoreAtTail(q, e)

PushAtHead(q, e) ==
    LET c == (q.Head + KEYPAD_EFI_KEY_MAX_COUNT - 1) % KEYPAD_EFI_KEY_MAX_COUNT
    IN  [q EXCEPT !.Buffer[c] = e, !.Head = c]

PushEfikeyBufTail(q, e) ==
    StoreAtTail(IF NextCell(q.Tail) = q.Head THEN PopEfikeyBufHead(q) ELSE q, e)

-----------------------------------------------------------------------------
(* Views of a ring that the properties use.                                *)

\* How many keys the ring holds.
KeyCount(q) ==
    IF q.Head <= q.Tail
    THEN q.Tail - q.Head
    ELSE q.Tail + KEYPAD_EFI_KEY_MAX_COUNT - q.Head

\* The cell that holds the i-th pending key, i = 0 for the next one popped.
CellOf(q, i) ==
    IF q.Head + i < KEYPAD_EFI_KEY_MAX_COUNT
    THEN q.Head + i
    ELSE q.Head + i - KEYPAD_EFI_KEY_MAX_COUNT

\* The pending keys, oldest first, as a sequence.
PendingKeys(q) == [i \in 1 .. KeyCount(q) |-> q.Buffer[CellOf(q, i - 1)]]
=============================================================================
