--------------------------- MODULE MCConSplitterIn ---------------------------
(* Small instances of ConSplitterIn for TLC.                               *)
EXTENDS ConSplitterIn, TLC

\* One key with any state, and one with a certain state too.
OneKeyData == {[Key |-> "a", State |-> 0]}
TwoKeyDatas == OneKeyData \union {[Key |-> "a", State |-> 1]}
MCSyncKey == [Key |-> "null", State |-> 0]

\* Consoles are interchangeable.
Symmetry == Permutations(Consoles)

\* The places of a handle list after those in use are written before they are
\* read.
UsedHandles(n) == SubSeq(n.NotifyHandleList, 1, NumberOfExConsoles)
Notifies ==
    [i \in DOMAIN NotifyList |->
       <<NotifyList[i].KeyData, NotifyList[i].KeyNotificationFn,
         Len(NotifyList[i].NotifyHandleList), UsedHandles(NotifyList[i])>>]

\* Numbers of keys matter only by their order for each console.
Numbers(d) == {keys[d][i].seq : i \in DOMAIN keys[d]}
                \union {KeyQueue[i].seq : i \in {j \in DOMAIN KeyQueue :
                                                   KeyQueue[j].from = d}}
                \union pending[d]
Rank(d, n) == Cardinality({m \in Numbers(d) : m < n})
Ranked(q) == [i \in DOMAIN q |-> <<q[i].from, Rank(q[i].from, q[i].seq),
                                   q[i].partial>>]

\* call and result say what the last step was, and no step depends on them.
View == <<lists, states, physical, signal, regs, Notifies, Ranked(KeyQueue),
          [d \in Consoles |-> <<Ranked(keys[d]),
                                {Rank(d, n) : n \in pending[d]}>>]>>
=============================================================================
