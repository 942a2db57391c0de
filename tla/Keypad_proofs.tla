----------------------------- MODULE Keypad_proofs -----------------------------
(***************************************************************************)
(* The safety properties of the two parts of the keypad.  KeypadConsole,   *)
(* for a ring of any size, any number of keys and any sets of              *)
(* registrations and functions: the inductive invariant is ConsoleInv.     *)
(* And KeypadDevice, for any list of keys, any times and any number of LED *)
(* timers: every key has its own invariant, KeyInv, which a poll of        *)
(* another key leaves alone; DeviceInv adds the types, the bits and the    *)
(* LED.                                                                    *)
(***************************************************************************)
EXTENDS KeypadConsole, KeypadDevice, SequenceTheorems, TLAPS

-----------------------------------------------------------------------------
(* What PopEfikeyBufHead and PushEfikeyBufTail do to a ring of any size.    *)

N == KEYPAD_EFI_KEY_MAX_COUNT

\* Keypad's (index + 1) % KEYPAD_EFI_KEY_MAX_COUNT, without the remainder.
LEMMA NextCellCases ==
    ASSUME NEW c \in Cells
    PROVE  /\ NextCell(c) \in Cells
           /\ NextCell(c) = IF c + 1 = N THEN 0 ELSE c + 1
  BY QueueSizeAssumption, SMT DEF NextCell, Cells, N

\* The count of a ring and the cell of a pending key are in range.
LEMMA RingViews ==
    ASSUME NEW Elem, NEW q \in KeyQueues(Elem)
    PROVE  /\ KeyCount(q) \in 0 .. (N - 1)
           /\ IsEfikeyBufEmpty(q) <=> KeyCount(q) = 0
           /\ \A i \in 0 .. (N - 1) : CellOf(q, i) \in Cells
           /\ CellOf(q, 0) = q.Head
  BY QueueSizeAssumption
  DEF KeyQueues, KeyCount, CellOf, Cells, IsEfikeyBufEmpty, N

\* Popping a key leaves the others where they were, one place nearer.
LEMMA PopFacts ==
    ASSUME NEW Elem, NEW q \in KeyQueues(Elem), ~IsEfikeyBufEmpty(q)
    PROVE  /\ PopEfikeyBufHead(q) \in KeyQueues(Elem)
           /\ KeyCount(PopEfikeyBufHead(q)) = KeyCount(q) - 1
           /\ PopEfikeyBufHead(q).Buffer = q.Buffer
           /\ \A i \in 0 .. (KeyCount(q) - 2) :
                CellOf(PopEfikeyBufHead(q), i) = CellOf(q, i + 1)
           /\ HeadKey(q) \in Elem
           /\ HeadKey(q) = q.Buffer[CellOf(q, 0)]
  <1> DEFINE p == PopEfikeyBufHead(q)
  <1>1. q.Head \in Cells /\ q.Tail \in Cells /\ q.Buffer \in [Cells -> Elem]
    BY DEF KeyQueues
  <1>2. p = [q EXCEPT !.Head = NextCell(q.Head)]
    BY DEF PopEfikeyBufHead
  <1>3. /\ p \in KeyQueues(Elem)
        /\ p.Buffer = q.Buffer /\ p.Tail = q.Tail /\ p.Head = NextCell(q.Head)
    BY <1>1, <1>2, NextCellCases DEF KeyQueues
  <1>4. p.Head = IF q.Head + 1 = N THEN 0 ELSE q.Head + 1
    BY <1>1, <1>3, NextCellCases
  <1>5. KeyCount(p) = KeyCount(q) - 1
    BY <1>1, <1>3, <1>4, QueueSizeAssumption
    DEF KeyCount, Cells, N, IsEfikeyBufEmpty
  <1>6. ASSUME NEW i \in 0 .. (KeyCount(q) - 2)
        PROVE  CellOf(p, i) = CellOf(q, i + 1)
    <2> HIDE DEF p
    <2>1. KeyCount(q) \in 0 .. (N - 1)
      BY RingViews
    <2>2. i \in Nat /\ i + 1 <= N - 2
      BY <2>1, QueueSizeAssumption DEF N
    <2>3. CellOf(p, i) = IF p.Head + i < N THEN p.Head + i ELSE p.Head + i - N
      BY DEF CellOf, N
    <2>4. CellOf(q, i + 1) = IF q.Head + (i + 1) < N
                             THEN q.Head + (i + 1) ELSE q.Head + (i + 1) - N
      BY DEF CellOf, N
    <2>5. q.Head \in 0 .. (N - 1) /\ N \in Nat
      BY <1>1, QueueSizeAssumption DEF Cells, N
    <2> HIDE DEF N
    <2> QED  BY <1>4, <2>2, <2>3, <2>4, <2>5
  <1>7. HeadKey(q) \in Elem /\ HeadKey(q) = q.Buffer[CellOf(q, 0)]
    BY <1>1, RingViews DEF HeadKey
  <1> QED  BY <1>3, <1>5, <1>6, <1>7

\* Pushing onto a ring with a free cell: the new key is the last one and the
\* others keep their cells.
LEMMA PushRoomFacts ==
    ASSUME NEW Elem, NEW q \in KeyQueues(Elem), NEW e \in Elem,
           NextCell(q.Tail) # q.Head
    PROVE  /\ StoreAtTail(q, e) \in KeyQueues(Elem)
           /\ KeyCount(StoreAtTail(q, e)) = KeyCount(q) + 1
           /\ StoreAtTail(q, e).Buffer[CellOf(StoreAtTail(q, e), KeyCount(q))] = e
           /\ \A i \in 0 .. (KeyCount(q) - 1) :
                StoreAtTail(q, e).Buffer[CellOf(StoreAtTail(q, e), i)]
                    = q.Buffer[CellOf(q, i)]
  <1> DEFINE p == StoreAtTail(q, e)
  <1>1. q.Head \in Cells /\ q.Tail \in Cells /\ q.Buffer \in [Cells -> Elem]
    BY DEF KeyQueues
  <1>2. /\ p \in KeyQueues(Elem)
        /\ p.Buffer = [q.Buffer EXCEPT ![q.Tail] = e]
        /\ p.Head = q.Head /\ p.Tail = NextCell(q.Tail)
    BY <1>1, NextCellCases DEF KeyQueues, StoreAtTail
  <1> HIDE DEF p
  <1>3. p.Tail = IF q.Tail + 1 = N THEN 0 ELSE q.Tail + 1
    BY <1>1, <1>2, NextCellCases
  <1>4. KeyCount(p) = KeyCount(q) + 1
    <2>1. KeyCount(p) = IF q.Head <= p.Tail
                        THEN p.Tail - q.Head ELSE p.Tail + N - q.Head
      BY <1>2 DEF KeyCount, N
    <2>2. p.Tail # q.Head
      BY <1>2
    <2> QED
      BY <1>1, <1>3, <2>1, <2>2, QueueSizeAssumption DEF KeyCount, Cells, N
  <1>5. CellOf(p, KeyCount(q)) = q.Tail
    <2>1. CellOf(p, KeyCount(q)) =
            IF q.Head + KeyCount(q) < N
            THEN q.Head + KeyCount(q) ELSE q.Head + KeyCount(q) - N
      BY <1>2 DEF CellOf, N
    <2> QED  BY <1>1, <2>1, QueueSizeAssumption DEF KeyCount, Cells, N
  <1>6. \A i \in 0 .. (KeyCount(q) - 1) :
           /\ CellOf(p, i) = CellOf(q, i)
           /\ CellOf(q, i) \in Cells \ {q.Tail}
    <2>1. \A i : CellOf(p, i) = CellOf(q, i)
      BY <1>2 DEF CellOf
    <2>2. \A i \in 0 .. (KeyCount(q) - 1) : CellOf(q, i) \in Cells \ {q.Tail}
      BY <1>1, QueueSizeAssumption DEF KeyCount, CellOf, Cells, N
    <2> QED  BY <2>1, <2>2
  <1>7. p.Buffer[q.Tail] = e
    BY <1>1, <1>2
  <1>8. \A c \in Cells \ {q.Tail} : p.Buffer[c] = q.Buffer[c]
    BY <1>1, <1>2
  <1> QED  BY <1>2, <1>4, <1>5, <1>6, <1>7, <1>8 DEF p

\* A ring without a free cell holds N - 1 keys.
LEMMA FullFacts ==
    ASSUME NEW Elem, NEW q \in KeyQueues(Elem)
    PROVE  NextCell(q.Tail) = q.Head <=> KeyCount(q) = N - 1
  <1>1. q.Head \in Cells /\ q.Tail \in Cells
    BY DEF KeyQueues
  <1>2. NextCell(q.Tail) = IF q.Tail + 1 = N THEN 0 ELSE q.Tail + 1
    BY <1>1, NextCellCases
  <1> QED  BY <1>1, <1>2, QueueSizeAssumption DEF KeyCount, Cells, N

\* PushEfikeyBufTail: the new key is the last one; the others move one place
\* nearer if the ring was full, and the oldest of them is gone.
LEMMA PushFacts ==
    ASSUME NEW Elem, NEW q \in KeyQueues(Elem), NEW e \in Elem
    PROVE  LET p == PushEfikeyBufTail(q, e)
               lost == IF KeyCount(q) = N - 1 THEN 1 ELSE 0
           IN  /\ p \in KeyQueues(Elem)
               /\ KeyCount(p) = KeyCount(q) + 1 - lost
               /\ ~IsEfikeyBufEmpty(p)
               /\ p.Buffer[CellOf(p, KeyCount(p) - 1)] = e
               /\ \A i \in 0 .. (KeyCount(p) - 2) :
                    p.Buffer[CellOf(p, i)] = q.Buffer[CellOf(q, i + lost)]
  <1> DEFINE p == PushEfikeyBufTail(q, e)
             room == IF NextCell(q.Tail) = q.Head THEN PopEfikeyBufHead(q) ELSE q
             lost == IF KeyCount(q) = N - 1 THEN 1 ELSE 0
  <1>1. KeyCount(q) \in 0 .. (N - 1) /\ (IsEfikeyBufEmpty(q) <=> KeyCount(q) = 0)
    BY RingViews
  <1>2. lost \in {0, 1}
    OBVIOUS
  <1>3. p = StoreAtTail(room, e)
    BY DEF PushEfikeyBufTail
  <1>4. /\ room \in KeyQueues(Elem)
        /\ KeyCount(room) = KeyCount(q) - lost
        /\ NextCell(room.Tail) # room.Head
        /\ \A i \in 0 .. (KeyCount(room) - 1) :
              room.Buffer[CellOf(room, i)] = q.Buffer[CellOf(q, i + lost)]
    <2>1. CASE NextCell(q.Tail) = q.Head
      <3>1. KeyCount(q) = N - 1 /\ lost = 1 /\ room = PopEfikeyBufHead(q)
        BY <2>1, FullFacts
      <3>2. ~IsEfikeyBufEmpty(q)
        BY <1>1, <3>1, QueueSizeAssumption DEF N
      <3>3. /\ room \in KeyQueues(Elem)
            /\ KeyCount(room) = KeyCount(q) - 1
            /\ room.Buffer = q.Buffer
            /\ \A i \in 0 .. (KeyCount(q) - 2) :
                  CellOf(room, i) = CellOf(q, i + 1)
        BY <3>1, <3>2, PopFacts
      <3>4. NextCell(room.Tail) # room.Head
        <4> HIDE DEF room, lost
        <4>1. KeyCount(room) # N - 1
          BY <3>1, <3>3, QueueSizeAssumption DEF N
        <4> QED  BY <3>3, <4>1, FullFacts
      <3> HIDE DEF room, lost
      <3> QED  BY <1>1, <3>1, <3>3, <3>4
    <2>2. CASE NextCell(q.Tail) # q.Head
      <3>1. KeyCount(q) # N - 1 /\ lost = 0 /\ room = q
        BY <2>2, FullFacts
      <3>2. \A i \in 0 .. (KeyCount(q) - 1) : i + lost = i
        BY <1>1, <3>1
      <3> HIDE DEF room, lost
      <3> QED  BY <1>1, <2>2, <3>1, <3>2
    <2> QED  BY <2>1, <2>2
  <1> HIDE DEF room, p, lost
  <1>5. /\ p \in KeyQueues(Elem)
        /\ KeyCount(p) = KeyCount(room) + 1
        /\ p.Buffer[CellOf(p, KeyCount(room))] = e
        /\ \A i \in 0 .. (KeyCount(room) - 1) :
             p.Buffer[CellOf(p, i)] = room.Buffer[CellOf(room, i)]
    <2>1. room \in KeyQueues(Elem) /\ NextCell(room.Tail) # room.Head
      BY <1>4
    <2> QED  BY <1>3, <2>1, PushRoomFacts
  <1>6. KeyCount(p) = KeyCount(q) + 1 - lost /\ KeyCount(room) = KeyCount(p) - 1
    BY <1>1, <1>2, <1>4, <1>5
  <1>7. ~IsEfikeyBufEmpty(p)
    <2>1. KeyCount(p) # 0
      BY <1>1, <1>2, <1>4, <1>5, RingViews DEF lost
    <2> QED  BY <1>5, <2>1, RingViews
  <1>8. \A i \in 0 .. (KeyCount(p) - 2) :
           p.Buffer[CellOf(p, i)] = q.Buffer[CellOf(q, i + lost)]
    BY <1>1, <1>2, <1>4, <1>5, <1>6
  <1> QED  BY <1>5, <1>6, <1>7, <1>8 DEF p, lost

-----------------------------------------------------------------------------
(* The rings of the keypad console.                                         *)

\* What an empty cell of a ring holds has the type of a queued key.
LEMMA NoKeyType == NoKey \in QueuedKeys
  BY KeypadAssumption DEF NoKey, QueuedKeys, KeyDatas

\* The fields have their types when DriverStart returns.
LEMMA InitTypeOK == Init => TypeOK
  <1> SUFFICES ASSUME Init PROVE TypeOK
    OBVIOUS
  <1>1. NewQueue(NoKey) \in KeyQueues(QueuedKeys)
    BY NoKeyType, QueueSizeAssumption DEF NewQueue, KeyQueues, Cells
  <1>2. << >> \in Seq(Notifies)
    OBVIOUS
  <1>3. returned \in [key : QueuedKeys, plain : BOOLEAN]
    BY NoKeyType DEF Init
  <1>4. lastCall \in [Handles -> Nat]
    BY DEF Init
  <1>5. /\ EfiKeyQueue \in KeyQueues(QueuedKeys)
        /\ EfiKeyQueueForNotify \in KeyQueues(QueuedKeys)
        /\ NotifyList \in Seq(Notifies)
    BY <1>1, <1>2 DEF Init
  <1>6. /\ IsSupportPartialKey \in BOOLEAN /\ signaled \in BOOLEAN
        /\ cs \in {"none", "timer", "read", "readEx", "wait", "waitSkip"}
        /\ pc \in {"idle", "pop", "walk", "fn", "lost"}
        /\ strayed \in BOOLEAN /\ ready \in BOOLEAN
    BY DEF Init
  <1>7. pushing \in QueuedKeys /\ KeyData \in QueuedKeys
    BY NoKeyType DEF Init
  <1>8. /\ pushLink \in Nat \ {0} /\ produced \in Nat
        /\ Link \in Handles \union {NoLink}
        /\ CurrentNotify \in Handles \union {NoLink}
    BY DEF Init
  <1> QED  BY <1>3, <1>4, <1>5, <1>6, <1>7, <1>8 DEF TypeOK

\* A registration that is listed can be found, and so can the one after it.
LEMMA ListFacts ==
    ASSUME TypeOK
    PROVE  /\ LiveHandles \subseteq Handles
           /\ GetFirstNode \in LiveHandles \union {NoLink}
           /\ \A h \in LiveHandles :
                /\ IndexOf(h) \in 1 .. Len(NotifyList)
                /\ NotifyList[IndexOf(h)].Handle = h
                /\ GetNextNode(h) \in LiveHandles \union {NoLink}
  <1>1. NotifyList \in Seq(Notifies) /\ DOMAIN NotifyList = 1 .. Len(NotifyList)
    BY DEF TypeOK
  <1>2. \A i \in DOMAIN NotifyList : NotifyList[i] \in Notifies
    BY <1>1
  <1>3. LiveHandles \subseteq Handles
    BY <1>2 DEF LiveHandles, Notifies
  <1>4. GetFirstNode \in LiveHandles \union {NoLink}
    BY <1>1 DEF GetFirstNode, LiveHandles
  <1>5. ASSUME NEW h \in LiveHandles
        PROVE  /\ IndexOf(h) \in 1 .. Len(NotifyList)
               /\ NotifyList[IndexOf(h)].Handle = h
               /\ GetNextNode(h) \in LiveHandles \union {NoLink}
    <2>1. \E i \in DOMAIN NotifyList : NotifyList[i].Handle = h
      BY DEF LiveHandles
    <2>2. IndexOf(h) \in DOMAIN NotifyList /\ NotifyList[IndexOf(h)].Handle = h
      BY <2>1 DEF IndexOf
    <2>3. CASE IndexOf(h) = Len(NotifyList)
      BY <1>1, <2>2, <2>3 DEF GetNextNode
    <2>4. CASE IndexOf(h) # Len(NotifyList)
      <3>1. IndexOf(h) + 1 \in DOMAIN NotifyList
        BY <1>1, <2>2, <2>4
      <3> QED  BY <1>1, <2>2, <2>4, <3>1 DEF GetNextNode, LiveHandles
    <2> QED  BY <1>1, <2>2, <2>3, <2>4
  <1> QED  BY <1>3, <1>4, <1>5

\* The list without one of its registrations.
LEMMA RemoveFacts ==
    ASSUME TypeOK, NEW h \in LiveHandles,
           NotifyList' = [i \in 1 .. (Len(NotifyList) - 1) |->
                            IF i < IndexOf(h)
                            THEN NotifyList[i]
                            ELSE NotifyList[i + 1]]
    PROVE  /\ NotifyList' \in Seq(Notifies)
           /\ LiveHandles \ {h} \subseteq LiveHandles'
  <1>1. NotifyList \in Seq(Notifies) /\ DOMAIN NotifyList = 1 .. Len(NotifyList)
    BY DEF TypeOK
  <1>2. IndexOf(h) \in 1 .. Len(NotifyList) /\ NotifyList[IndexOf(h)].Handle = h
    BY ListFacts
  <1> DEFINE n == Len(NotifyList) - 1
             k == IndexOf(h)
  <1>3. n \in Nat
    BY <1>1, <1>2
  <1>4. \A i \in 1 .. n : (IF i < k THEN NotifyList[i] ELSE NotifyList[i + 1])
                             \in Notifies
    BY <1>1, <1>2, <1>3
  <1>5. NotifyList' \in [1 .. n -> Notifies]
    BY <1>4
  <1>6. NotifyList' \in Seq(Notifies)
    BY <1>3, <1>5
  <1>7. DOMAIN NotifyList' = 1 .. n
    BY <1>5
  <1>8. ASSUME NEW g \in LiveHandles \ {h} PROVE g \in LiveHandles'
    <2>1. PICK j \in 1 .. Len(NotifyList) : NotifyList[j].Handle = g
      BY <1>1 DEF LiveHandles
    <2>2. j # k
      BY <1>2, <2>1
    <2>3. CASE j < k
      <3>1. j \in 1 .. n /\ NotifyList'[j] = NotifyList[j]
        BY <1>2, <1>3, <2>1, <2>3
      <3> QED  BY <1>7, <2>1, <3>1 DEF LiveHandles
    <2>4. CASE j > k
      <3>1. j - 1 \in 1 .. n /\ NotifyList'[j - 1] = NotifyList[j]
        BY <1>2, <1>3, <2>1, <2>4
      <3> QED  BY <1>7, <2>1, <3>1 DEF LiveHandles
    <2> QED  BY <1>2, <2>1, <2>2, <2>3, <2>4
  <1> QED  BY <1>6, <1>8

\* The rings after a pop (of any ring) and after a clear.
LEMMA RingTypes ==
    ASSUME NEW q \in KeyQueues(QueuedKeys)
    PROVE  /\ PopEfikeyBufHead(q) \in KeyQueues(QueuedKeys)
           /\ ClearQueue(q) \in KeyQueues(QueuedKeys)
           /\ HeadKey(q) \in QueuedKeys
           /\ \A e \in QueuedKeys :
                PushEfikeyBufTail(q, e) \in KeyQueues(QueuedKeys)
  <1>1. PopEfikeyBufHead(q) \in KeyQueues(QueuedKeys)
    <2>1. CASE IsEfikeyBufEmpty(q)
      BY <2>1 DEF PopEfikeyBufHead
    <2>2. CASE ~IsEfikeyBufEmpty(q)
      BY <2>2, PopFacts
    <2> QED  BY <2>1, <2>2
  <1>2. ClearQueue(q) \in KeyQueues(QueuedKeys)
    <2>1. 0 \in Cells
      BY QueueSizeAssumption DEF Cells
    <2> QED  BY <2>1 DEF ClearQueue, KeyQueues
  <1>3. HeadKey(q) \in QueuedKeys
    BY DEF HeadKey, KeyQueues
  <1>4. \A e \in QueuedKeys : PushEfikeyBufTail(q, e) \in KeyQueues(QueuedKeys)
    BY PushFacts
  <1> QED  BY <1>1, <1>2, <1>3, <1>4

\* Where a walk goes from its entry, linked or freed.
LEMMA LinkFacts ==
    ASSUME TypeOK, FollowsLink
    PROVE  /\ Link' \in Handles \union {NoLink}
           /\ pc' \in {"walk", "lost"}
           /\ Link \in LiveHandles =>
                pc' = "walk" /\ Link' \in LiveHandles \union {NoLink}
  <1>1. Link \in Handles \union {NoLink}
    BY DEF TypeOK
  <1> QED  BY <1>1, ListFacts DEF FollowsLink

\* Every step keeps the types.
LEMMA NextTypeOK == TypeOK /\ [Next]_vars => TypeOK'
  <1> SUFFICES ASSUME TypeOK, [Next]_vars PROVE TypeOK'
    OBVIOUS
  <1> USE DEF queues, push, walk, handler, client
  <1>1. CASE KeypadTimerHandler
    BY <1>1 DEF KeypadTimerHandler, TypeOK
  <1>2. ASSUME NEW op \in {"read", "readEx", "wait"}, EnterPoll(op)
        PROVE  TypeOK'
    BY <1>2 DEF EnterPoll, TypeOK
  <1>3. CASE TimerReturn
    BY <1>3 DEF TimerReturn, TypeOK
  <1>4. CASE PushBegin
    <2>1. pushing' \in QueuedKeys
      BY <1>4, KeypadAssumption
      DEF PushBegin, TypeOK, QueuedKeys, DeviceKeys, KeyDatas
    <2>2. /\ UNCHANGED <<EfiKeyQueue, EfiKeyQueueForNotify, NotifyList,
                         signaled, cs, pushLink, produced, pc, KeyData, Link,
                         CurrentNotify, strayed, lastCall>>
          /\ UNCHANGED <<IsSupportPartialKey, ready, returned>>
      BY <1>4 DEF PushBegin
    <2> QED  BY <2>1, <2>2 DEF TypeOK
  <1>5. CASE PushNotify
    <2>1. EfiKeyQueueForNotify' \in KeyQueues(QueuedKeys)
      <3>1. \/ EfiKeyQueueForNotify' = EfiKeyQueueForNotify
            \/ EfiKeyQueueForNotify' =
                 PushEfikeyBufTail(EfiKeyQueueForNotify, pushing)
        BY <1>5 DEF PushNotify, QueueForNotify
      <3>2. /\ EfiKeyQueueForNotify \in KeyQueues(QueuedKeys)
            /\ pushing \in QueuedKeys
        BY DEF TypeOK
      <3> QED  BY <3>1, <3>2, RingTypes
    <2>2. signaled' \in BOOLEAN
      BY <1>5 DEF PushNotify, QueueForNotify, TypeOK
    <2> QED  BY <1>5, <2>1, <2>2 DEF PushNotify, TypeOK
  <1>6. CASE PushEnd
    <2>1. EfiKeyQueue' \in KeyQueues(QueuedKeys)
      BY <1>6, RingTypes DEF PushEnd, TypeOK
    <2> QED  BY <1>6, <2>1, NoKeyType DEF PushEnd, TypeOK
  <1>7. CASE KeypadReadKeyStrokeWorker
    <2>1. EfiKeyQueue' \in KeyQueues(QueuedKeys)
      BY <1>7, RingTypes DEF KeypadReadKeyStrokeWorker, TypeOK
    <2>2. returned' \in [key : QueuedKeys, plain : BOOLEAN]
      BY <1>7, RingTypes DEF KeypadReadKeyStrokeWorker, TypeOK
    <2> QED  BY <1>7, <2>1, <2>2 DEF KeypadReadKeyStrokeWorker, TypeOK
  <1>8. CASE WaitSkipPartial
    <2>1. EfiKeyQueue' \in KeyQueues(QueuedKeys)
      BY <1>8, RingTypes DEF WaitSkipPartial, TypeOK
    <2> QED  BY <1>8, <2>1 DEF WaitSkipPartial, TypeOK
  <1>9. CASE WaitEnd
    BY <1>9 DEF WaitEnd, TypeOK, IsEfikeyBufEmpty
  <1>10. CASE KeypadEfiReset
    <2>1. /\ EfiKeyQueue' \in KeyQueues(QueuedKeys)
          /\ EfiKeyQueueForNotify' \in KeyQueues(QueuedKeys)
      BY <1>10, RingTypes DEF KeypadEfiReset, TypeOK
    <2> QED  BY <1>10, <2>1 DEF KeypadEfiReset, TypeOK
  <1>11. ASSUME NEW exposed \in BOOLEAN, KeypadSetState(exposed)
         PROVE  TypeOK'
    BY <1>11 DEF KeypadSetState, TypeOK
  <1>12. ASSUME NEW k \in KeyDatas, NEW fn \in Fns,
                KeypadRegisterKeyNotify(k, fn)
         PROVE  TypeOK'
    <2>1. NotifyList' \in Seq(Notifies)
      BY <1>12 DEF KeypadRegisterKeyNotify, TypeOK, Notifies
    <2> QED  BY <1>12, <2>1 DEF KeypadRegisterKeyNotify, TypeOK
  <1>13. ASSUME NEW h \in Handles, KeypadUnregisterKeyNotify(h)
         PROVE  TypeOK'
    <2>1. NotifyList' \in Seq(Notifies)
      BY <1>13, RemoveFacts DEF KeypadUnregisterKeyNotify
    <2>2. lastCall' \in [Handles -> Nat]
      BY <1>13 DEF KeypadUnregisterKeyNotify, TypeOK
    <2>3. strayed' \in BOOLEAN
      BY <1>13 DEF KeypadUnregisterKeyNotify, TypeOK
    <2> QED  BY <1>13, <2>1, <2>2, <2>3 DEF KeypadUnregisterKeyNotify, TypeOK
  <1>14. CASE HandlerDispatch
    BY <1>14 DEF HandlerDispatch, TypeOK
  <1>15. CASE HandlerPop
    <2>1. /\ EfiKeyQueueForNotify' \in KeyQueues(QueuedKeys)
          /\ KeyData' \in QueuedKeys
      BY <1>15, RingTypes, NoKeyType DEF HandlerPop, TypeOK
    <2>2. Link' \in Handles \union {NoLink}
      BY <1>15, ListFacts DEF HandlerPop, TypeOK
    <2> QED  BY <1>15, <2>1, <2>2 DEF HandlerPop, TypeOK
  <1>16. CASE HandlerSkip
    <2>1. Link' \in Handles \union {NoLink}
      BY <1>16, ListFacts DEF HandlerSkip
    <2> QED  BY <1>16, <2>1 DEF HandlerSkip, TypeOK
  <1>17. CASE HandlerCall
    <2>1. lastCall' \in [Handles -> Nat]
      BY <1>17 DEF HandlerCall, TypeOK, QueuedKeys
    <2> QED  BY <1>17, <2>1 DEF HandlerCall, TypeOK
  <1>18. CASE HandlerFnReturn
    <2>1. Link' \in Handles \union {NoLink} /\ pc' \in {"walk", "lost"}
      BY <1>18, LinkFacts DEF HandlerFnReturn
    <2> QED  BY <1>18, <2>1 DEF HandlerFnReturn, TypeOK
  <1>19. CASE HandlerOnFreed
    <2>1. /\ Link' \in Handles \union {NoLink}
          /\ CurrentNotify' \in Handles \union {NoLink}
          /\ pc' \in {"walk", "fn", "lost"}
      BY <1>19, LinkFacts DEF HandlerOnFreed, TypeOK
    <2> QED  BY <1>19, <2>1 DEF HandlerOnFreed, TypeOK
  <1>20. CASE HandlerWalkEnd
    BY <1>20 DEF HandlerWalkEnd, TypeOK
  <1>21. CASE UNCHANGED vars
    BY <1>21 DEF vars, TypeOK
  <1> QED
    BY <1>1, <1>2, <1>3, <1>4, <1>5, <1>6, <1>7, <1>8, <1>9, <1>10, <1>11,
       <1>12, <1>13, <1>14, <1>15, <1>16, <1>17, <1>18, <1>19, <1>20, <1>21
    DEF Next, CallPoll, Critical, SetState, Register, Unregister, Handler

\* What follows about a ring whose keys are consecutively numbered up to
\* `last`, when its oldest key is taken and when key last + 1 is added.
Latest(q, last) ==
    \A i \in 0 .. (KeyCount(q) - 1) :
        q.Buffer[CellOf(q, i)].seq = last - KeyCount(q) + i + 1

\* Taking the oldest key leaves the latest ones, and it was the one before.
LEMMA LatestAfterPop ==
    ASSUME NEW q \in KeyQueues(QueuedKeys), NEW last \in Nat, Latest(q, last),
           ~IsEfikeyBufEmpty(q)
    PROVE  /\ Latest(PopEfikeyBufHead(q), last)
           /\ HeadKey(q).seq = last - KeyCount(q) + 1
  <1> DEFINE p == PopEfikeyBufHead(q)
  <1>1. /\ KeyCount(p) = KeyCount(q) - 1
        /\ p.Buffer = q.Buffer
        /\ \A i \in 0 .. (KeyCount(q) - 2) : CellOf(p, i) = CellOf(q, i + 1)
        /\ HeadKey(q) = q.Buffer[CellOf(q, 0)]
    BY PopFacts
  <1>2. KeyCount(q) \in Nat /\ KeyCount(q) # 0
    BY RingViews, QueueSizeAssumption DEF N
  <1>3. HeadKey(q).seq = last - KeyCount(q) + 1
    BY <1>1, <1>2 DEF Latest
  <1> HIDE DEF p
  <1>4. ASSUME NEW i \in 0 .. (KeyCount(p) - 1)
        PROVE  p.Buffer[CellOf(p, i)].seq = last - KeyCount(p) + i + 1
    <2>1. i + 1 \in 0 .. (KeyCount(q) - 1) /\ i \in 0 .. (KeyCount(q) - 2)
      BY <1>1, <1>2
    <2>2. q.Buffer[CellOf(q, i + 1)].seq = last - KeyCount(q) + (i + 1) + 1
      BY <2>1 DEF Latest
    <2> QED  BY <1>1, <1>2, <2>1, <2>2
  <1>5. Latest(p, last)
    BY <1>4 DEF Latest
  <1> QED  BY <1>3, <1>5 DEF p

\* Adding key last + 1, which may push out the oldest, leaves the latest.
LEMMA LatestAfterPush ==
    ASSUME NEW q \in KeyQueues(QueuedKeys), NEW last \in Nat, Latest(q, last),
           NEW e \in QueuedKeys, e.seq = last + 1
    PROVE  /\ Latest(PushEfikeyBufTail(q, e), last + 1)
           /\ KeyCount(PushEfikeyBufTail(q, e)) <= KeyCount(q) + 1
  <1> DEFINE p == PushEfikeyBufTail(q, e)
             lost == IF KeyCount(q) = N - 1 THEN 1 ELSE 0
  <1>1. /\ p \in KeyQueues(QueuedKeys)
        /\ KeyCount(p) = KeyCount(q) + 1 - lost
        /\ p.Buffer[CellOf(p, KeyCount(p) - 1)] = e
        /\ \A i \in 0 .. (KeyCount(p) - 2) :
              p.Buffer[CellOf(p, i)] = q.Buffer[CellOf(q, i + lost)]
    BY PushFacts
  <1>2. lost \in {0, 1} /\ KeyCount(q) \in Nat /\ KeyCount(p) \in Nat
    BY <1>1, RingViews, QueueSizeAssumption DEF N
  <1> HIDE DEF p, lost
  <1>3. ASSUME NEW i \in 0 .. (KeyCount(p) - 1)
        PROVE  p.Buffer[CellOf(p, i)].seq = (last + 1) - KeyCount(p) + i + 1
    <2>1. CASE i = KeyCount(p) - 1
      BY <1>1, <1>2, <2>1
    <2>2. CASE i # KeyCount(p) - 1
      <3>1. i \in 0 .. (KeyCount(p) - 2) /\ i + lost \in 0 .. (KeyCount(q) - 1)
        BY <1>1, <1>2, <2>2
      <3>2. q.Buffer[CellOf(q, i + lost)].seq =
              last - KeyCount(q) + (i + lost) + 1
        BY <3>1 DEF Latest
      <3> QED  BY <1>1, <1>2, <3>1, <3>2
    <2> QED  BY <2>1, <2>2
  <1>4. KeyCount(p) <= KeyCount(q) + 1
    BY <1>1, <1>2
  <1>5. Latest(p, last + 1)
    BY <1>3, Zenon DEF Latest
  <1> QED  BY <1>4, <1>5 DEF p

\* A whole key is pushed out of a ring by as many keys as the ring holds.
LEMMA WholeKeyAfterPush ==
    ASSUME NEW q \in KeyQueues(QueuedKeys), NEW e \in QueuedKeys,
           HasWholeKey(q) \/ IsFull(q)
    PROVE  HasWholeKey(PushEfikeyBufTail(q, e)) \/ IsFull(PushEfikeyBufTail(q, e))
  <1> DEFINE p == PushEfikeyBufTail(q, e)
             lost == IF KeyCount(q) = N - 1 THEN 1 ELSE 0
  <1>1. /\ p \in KeyQueues(QueuedKeys)
        /\ KeyCount(p) = KeyCount(q) + 1 - lost
        /\ p.Buffer[CellOf(p, KeyCount(p) - 1)] = e
        /\ \A i \in 0 .. (KeyCount(p) - 2) :
              p.Buffer[CellOf(p, i)] = q.Buffer[CellOf(q, i + lost)]
    BY PushFacts
  <1>2. KeyCount(q) \in Nat /\ N \in Nat
    BY RingViews, QueueSizeAssumption DEF N
  <1> SUFFICES HasWholeKey(p) \/ IsFull(p)
    OBVIOUS
  <1> HIDE DEF p
  <1>3. CASE IsFull(q)
    BY <1>1, <1>2, <1>3 DEF IsFull, N
  <1>4. CASE ~IsFull(q)
    <2>1. lost = 0 /\ KeyCount(p) = KeyCount(q) + 1
      BY <1>1, <1>2, <1>4 DEF IsFull, N
    <2>2. PICK i \in 0 .. (KeyCount(q) - 1) : ~IsPartial(q.Buffer[CellOf(q, i)])
      BY <1>4 DEF HasWholeKey
    <2>3. i \in 0 .. (KeyCount(p) - 2) /\ i + lost = i
      BY <1>2, <2>1
    <2>4. p.Buffer[CellOf(p, i)] = q.Buffer[CellOf(q, i)]
      BY <1>1, <2>3
    <2> HIDE DEF lost
    <2>5. i \in 0 .. (KeyCount(p) - 1)
      BY <1>2, <2>1
    <2> QED  BY <2>2, <2>4, <2>5 DEF HasWholeKey
  <1> QED  BY <1>3, <1>4

\* The properties that concern the readers' ring, as one inductive invariant.
RingInv == /\ KeysAreLatest /\ PushingIsNext /\ ReturnedIsOlder
           /\ SignalledKeyStays /\ PlainReaderGetsWholeKeys

ringVars == <<EfiKeyQueue, pushing, produced, ready, returned>>

\* Every step keeps them, and a reader gets a later key than the one before.
LEMMA NextRingInv ==
    TypeOK /\ RingInv /\ [Next]_vars
        => /\ RingInv'
           /\ returned' # returned => returned'.key.seq > returned.key.seq
  <1> SUFFICES ASSUME TypeOK, RingInv, [Next]_vars
               PROVE  /\ RingInv'
                      /\ returned' # returned =>
                           returned'.key.seq > returned.key.seq
    OBVIOUS
  <1> DEFINE q == EfiKeyQueue
             Goal == /\ RingInv'
                     /\ returned' # returned =>
                           returned'.key.seq > returned.key.seq
  <1>1. /\ q \in KeyQueues(QueuedKeys) /\ produced \in Nat
        /\ pushing \in QueuedKeys /\ returned \in [key : QueuedKeys, plain : BOOLEAN]
    BY DEF TypeOK
  <1>2. KeyCount(q) \in Nat /\ (IsEfikeyBufEmpty(q) <=> KeyCount(q) = 0)
    BY <1>1, RingViews, QueueSizeAssumption DEF N
  <1>3. Latest(q, produced)
    BY DEF RingInv, KeysAreLatest, Latest
  <1>4. pushing.seq \in Nat /\ returned.key.seq \in Nat
    BY <1>1 DEF QueuedKeys
  <1>5. ~IsEfikeyBufEmpty(q) =>
          /\ Latest(PopEfikeyBufHead(q), produced)
          /\ HeadKey(q).seq = produced - KeyCount(q) + 1
          /\ KeyCount(PopEfikeyBufHead(q)) = KeyCount(q) - 1
    BY <1>1, <1>3, LatestAfterPop, PopFacts
  <1>6. IsEfikeyBufEmpty(q) => PopEfikeyBufHead(q) = q
    BY DEF PopEfikeyBufHead
  <1>7. CASE UNCHANGED ringVars
    BY <1>7 DEF ringVars, RingInv, KeysAreLatest, PushingIsNext,
                ReturnedIsOlder, SignalledKeyStays, PlainReaderGetsWholeKeys,
                HasWholeKey, IsFull, IsPartial, KeyCount, CellOf
  <1>8. CASE PushBegin
    <2>1. UNCHANGED <<EfiKeyQueue, produced, ready, returned>>
      BY <1>8 DEF PushBegin, queues, handler, client
    <2>2. PushingIsNext'
      BY <1>8, <2>1 DEF PushBegin, PushingIsNext
    <2>3. KeysAreLatest' /\ ReturnedIsOlder' /\ SignalledKeyStays'
          /\ PlainReaderGetsWholeKeys'
      BY <2>1 DEF RingInv, KeysAreLatest, ReturnedIsOlder, SignalledKeyStays,
                  PlainReaderGetsWholeKeys, HasWholeKey, IsFull, IsPartial,
                  KeyCount, CellOf
    <2> QED  BY <2>1, <2>2, <2>3 DEF RingInv
  <1>9. CASE PushEnd
    <2>1. /\ EfiKeyQueue' = PushEfikeyBufTail(q, pushing)
          /\ pushing # NoKey /\ pushing' = NoKey /\ produced' = produced + 1
          /\ UNCHANGED <<ready, returned>>
      BY <1>9 DEF PushEnd, handler, client
    <2>2. pushing.seq = produced + 1
      BY <2>1 DEF RingInv, PushingIsNext
    <2>3. /\ Latest(EfiKeyQueue', produced')
          /\ KeyCount(EfiKeyQueue') <= KeyCount(q) + 1
          /\ KeyCount(EfiKeyQueue') \in Nat
      <3>1. EfiKeyQueue' \in KeyQueues(QueuedKeys)
        BY <1>1, <2>1, PushFacts
      <3>2. KeyCount(EfiKeyQueue') \in Nat
        BY <3>1, RingViews, QueueSizeAssumption DEF N
      <3> QED  BY <1>1, <1>3, <2>1, <2>2, <3>2, LatestAfterPush, PushFacts
    <2>4. KeysAreLatest'
      BY <2>3 DEF KeysAreLatest, Latest, KeyCount, CellOf
    <2>5. ReturnedIsOlder'
      <3>1. KeyCount(EfiKeyQueue)' = KeyCount(EfiKeyQueue')
        BY DEF KeyCount
      <3> QED  BY <1>1, <1>2, <1>4, <2>1, <2>3, <3>1 DEF RingInv, ReturnedIsOlder
    <2>6. PushingIsNext' /\ PlainReaderGetsWholeKeys'
      BY <2>1 DEF RingInv, PushingIsNext, NoKey, PlainReaderGetsWholeKeys,
                  IsPartial
    <2>7. ready => HasWholeKey(EfiKeyQueue') \/ IsFull(EfiKeyQueue')
      BY <1>1, <2>1, WholeKeyAfterPush DEF RingInv, SignalledKeyStays
    <2>8. SignalledKeyStays'
      BY <2>1, <2>7 DEF SignalledKeyStays, HasWholeKey, IsFull, IsPartial,
                        KeyCount, CellOf
    <2> QED  BY <2>1, <2>4, <2>5, <2>6, <2>8 DEF RingInv
  <1>10. CASE KeypadReadKeyStrokeWorker
    <2>1. /\ EfiKeyQueue' = PopEfikeyBufHead(q)
          /\ returned' = IF ReaderGetsNoKey(q)
                         THEN returned
                         ELSE [key |-> HeadKey(q), plain |-> cs = "read"]
          /\ ready' = FALSE
          /\ UNCHANGED <<pushing, produced>>
      BY <1>10 DEF KeypadReadKeyStrokeWorker, push
    <2>2. SignalledKeyStays' /\ PushingIsNext'
      BY <2>1 DEF RingInv, SignalledKeyStays, PushingIsNext
    <2>3. Latest(EfiKeyQueue', produced')
      BY <1>3, <1>5, <1>6, <2>1
    <2>4. KeysAreLatest'
      BY <2>3 DEF KeysAreLatest, Latest, KeyCount, CellOf
    <2>5. KeyCount(EfiKeyQueue)' = KeyCount(EfiKeyQueue')
      BY DEF KeyCount
    <2>6. CASE returned' = returned
      <3>1. ReturnedIsOlder'
        BY <1>1, <1>2, <1>4, <1>5, <1>6, <2>1, <2>5, <2>6
        DEF RingInv, ReturnedIsOlder
      <3>2. PlainReaderGetsWholeKeys'
        BY <2>6 DEF RingInv, PlainReaderGetsWholeKeys, IsPartial
      <3> QED  BY <2>2, <2>4, <2>6, <3>1, <3>2 DEF RingInv
    <2>7. CASE returned' # returned
      <3>1. /\ ~IsEfikeyBufEmpty(q)
            /\ cs = "read" => ~IsPartial(HeadKey(q))
            /\ returned'.key = HeadKey(q) /\ returned'.plain = (cs = "read")
        BY <2>1, <2>7 DEF ReaderGetsNoKey
      <3>2. /\ returned'.key.seq = produced - KeyCount(q) + 1
            /\ KeyCount(EfiKeyQueue') = KeyCount(q) - 1
        BY <1>5, <2>1, <3>1
      <3>3. ReturnedIsOlder'
        BY <1>1, <1>2, <2>1, <2>5, <3>2 DEF ReturnedIsOlder
      <3>4. returned'.key.seq > returned.key.seq
        BY <1>1, <1>2, <1>4, <3>2 DEF RingInv, ReturnedIsOlder
      <3>5. PlainReaderGetsWholeKeys'
        BY <3>1 DEF PlainReaderGetsWholeKeys, IsPartial
      <3> QED  BY <2>2, <2>4, <3>3, <3>4, <3>5 DEF RingInv
    <2> QED  BY <2>6, <2>7
  <1>11. CASE WaitSkipPartial
    <2>1. /\ EfiKeyQueue' = PopEfikeyBufHead(q) /\ ~IsEfikeyBufEmpty(q)
          /\ ready' = FALSE
          /\ UNCHANGED <<pushing, produced, returned>>
      BY <1>11 DEF WaitSkipPartial, push
    <2>2. /\ SignalledKeyStays' /\ PushingIsNext' /\ PlainReaderGetsWholeKeys'
      BY <2>1 DEF RingInv, SignalledKeyStays, PushingIsNext,
                  PlainReaderGetsWholeKeys, IsPartial
    <2>3. Latest(EfiKeyQueue', produced')
      BY <1>5, <2>1
    <2>4. KeysAreLatest'
      BY <2>3 DEF KeysAreLatest, Latest, KeyCount, CellOf
    <2>5. KeyCount(EfiKeyQueue)' = KeyCount(EfiKeyQueue')
      BY DEF KeyCount
    <2>6. ReturnedIsOlder'
      BY <1>1, <1>2, <1>4, <1>5, <2>1, <2>5 DEF RingInv, ReturnedIsOlder
    <2> QED  BY <2>1, <2>2, <2>4, <2>6 DEF RingInv
  <1>12. CASE WaitEnd
    <2>1. /\ ready' = ~IsEfikeyBufEmpty(q)
          /\ ~IsEfikeyBufEmpty(q) => ~IsPartial(HeadKey(q))
          /\ UNCHANGED <<EfiKeyQueue, pushing, produced, returned>>
      BY <1>12 DEF WaitEnd, queues, push
    <2>2. SignalledKeyStays'
      <3>1. ASSUME ~IsEfikeyBufEmpty(q) PROVE HasWholeKey(q)
        <4>1. q.Buffer[CellOf(q, 0)] = HeadKey(q)
          BY <1>1, RingViews DEF HeadKey
        <4>2. 0 \in 0 .. (KeyCount(q) - 1)
          BY <1>2, <3>1
        <4> QED  BY <2>1, <3>1, <4>1, <4>2 DEF HasWholeKey
      <3> QED  BY <2>1, <3>1 DEF SignalledKeyStays, HasWholeKey, IsFull,
                                 IsPartial, KeyCount, CellOf
    <2>3. /\ KeysAreLatest' /\ ReturnedIsOlder' /\ PushingIsNext'
          /\ PlainReaderGetsWholeKeys'
      BY <2>1 DEF RingInv, KeysAreLatest, ReturnedIsOlder, PushingIsNext,
                  PlainReaderGetsWholeKeys, IsPartial, KeyCount, CellOf
    <2> QED  BY <2>1, <2>2, <2>3 DEF RingInv
  <1>13. CASE KeypadEfiReset
    <2>1. /\ EfiKeyQueue' = ClearQueue(q) /\ ready' = FALSE
          /\ UNCHANGED <<pushing, produced, returned>>
      BY <1>13 DEF KeypadEfiReset, push
    <2>2. KeyCount(EfiKeyQueue)' = 0
      BY <1>1, <2>1 DEF ClearQueue, KeyCount, KeyQueues
    <2>3. KeysAreLatest' /\ SignalledKeyStays'
      BY <2>1, <2>2 DEF KeysAreLatest, SignalledKeyStays
    <2>4. ReturnedIsOlder'
      BY <1>1, <1>2, <1>4, <2>1, <2>2 DEF RingInv, ReturnedIsOlder
    <2>5. PushingIsNext' /\ PlainReaderGetsWholeKeys'
      BY <2>1 DEF RingInv, PushingIsNext, PlainReaderGetsWholeKeys, IsPartial
    <2> QED  BY <2>1, <2>3, <2>4, <2>5 DEF RingInv
  <1>14. \/ UNCHANGED ringVars \/ PushBegin \/ PushEnd
         \/ KeypadReadKeyStrokeWorker \/ WaitSkipPartial \/ WaitEnd
         \/ KeypadEfiReset
    BY DEF Next, vars, queues, push, handler, client, walk, ringVars, CallPoll,
           Critical, SetState, Register, Unregister, Handler,
           KeypadTimerHandler, EnterPoll, TimerReturn, PushNotify,
           KeypadSetState, KeypadRegisterKeyNotify, KeypadUnregisterKeyNotify,
           HandlerDispatch, HandlerPop, HandlerSkip, HandlerCall,
           HandlerFnReturn, HandlerOnFreed, HandlerWalkEnd
  <1> QED
    BY <1>7, <1>8, <1>9, <1>10, <1>11, <1>12, <1>13, <1>14 DEF ringVars

\* Every step keeps a key that waits for notification attended to.
LEMMA NextNotifyPending ==
    TypeOK /\ NotifyPending /\ [Next]_vars => NotifyPending'
  <1> SUFFICES ASSUME TypeOK, NotifyPending, [Next]_vars PROVE NotifyPending'
    OBVIOUS
  <1>1. CASE UNCHANGED <<EfiKeyQueueForNotify, signaled, pc>>
    BY <1>1 DEF NotifyPending, IsEfikeyBufEmpty
  <1>2. CASE PushNotify
    BY <1>1, <1>2
    DEF PushNotify, QueueForNotify, NotifyPending, handler
  <1>3. CASE KeypadEfiReset
    BY <1>3 DEF KeypadEfiReset, ClearQueue, NotifyPending, IsEfikeyBufEmpty,
                KeyQueues, TypeOK
  <1>4. CASE HandlerPop
    <2>1. CASE IsEfikeyBufEmpty(EfiKeyQueueForNotify)
      BY <1>4, <2>1
      DEF HandlerPop, PopEfikeyBufHead, NotifyPending, IsEfikeyBufEmpty
    <2>2. CASE ~IsEfikeyBufEmpty(EfiKeyQueueForNotify)
      BY <1>4, <2>2 DEF HandlerPop, NotifyPending
    <2> QED  BY <2>1, <2>2
  <1>5. CASE pc' # "idle"
    BY <1>5 DEF NotifyPending
  <1>6. \/ UNCHANGED <<EfiKeyQueueForNotify, signaled, pc>>
        \/ PushNotify \/ KeypadEfiReset \/ HandlerPop \/ pc' # "idle"
    BY DEF Next, vars, queues, push, handler, client, walk, CallPoll,
           Critical, SetState, Register, Unregister, Handler,
           KeypadTimerHandler, EnterPoll, TimerReturn, PushBegin, PushEnd,
           KeypadReadKeyStrokeWorker, WaitSkipPartial, WaitEnd,
           KeypadSetState, KeypadRegisterKeyNotify, KeypadUnregisterKeyNotify,
           HandlerDispatch, HandlerSkip, HandlerCall,
           HandlerFnReturn, HandlerOnFreed, FollowsLink, HandlerWalkEnd
  <1> QED  BY <1>1, <1>2, <1>3, <1>4, <1>5, <1>6

\* Where the handler's walk of NotifyList stands.
WalkInv == CallingLinkedEntry /\ WalkOnLiveEntry

\* Every step keeps the handler's walk on the list.
LEMMA NextWalkInv == TypeOK /\ WalkInv /\ [Next]_vars => WalkInv'
  <1> SUFFICES ASSUME TypeOK, WalkInv, [Next]_vars PROVE WalkInv'
    OBVIOUS
  <1>1. CASE UNCHANGED <<NotifyList, pc, Link, CurrentNotify, strayed>>
    BY <1>1 DEF WalkInv, CallingLinkedEntry, WalkOnLiveEntry, LiveHandles
  <1>2. CASE pc' \in {"idle", "pop"}
    BY <1>2 DEF WalkInv, CallingLinkedEntry, WalkOnLiveEntry
  <1>3. ASSUME NEW k \in KeyDatas, NEW fn \in Fns, KeypadRegisterKeyNotify(k, fn)
        PROVE  WalkInv'
    <2>1. UNCHANGED <<pc, Link, CurrentNotify, strayed>>
      BY <1>3 DEF KeypadRegisterKeyNotify, handler, walk
    <2>2. PICK e \in Notifies : NotifyList' = Append(NotifyList, e)
      BY <1>3 DEF KeypadRegisterKeyNotify, Notifies
    <2>3. LiveHandles \subseteq LiveHandles'
      <3>1. NotifyList \in Seq(Notifies)
        BY DEF TypeOK
      <3>2. /\ DOMAIN NotifyList \subseteq DOMAIN NotifyList'
            /\ \A i \in DOMAIN NotifyList : NotifyList'[i] = NotifyList[i]
        BY <2>2, <3>1
      <3> QED  BY <3>2 DEF LiveHandles
    <2> QED  BY <2>1, <2>3 DEF WalkInv, CallingLinkedEntry, WalkOnLiveEntry
  <1>4. ASSUME NEW h \in Handles, KeypadUnregisterKeyNotify(h) PROVE WalkInv'
    <2>1. /\ UNCHANGED <<pc, Link, CurrentNotify>>
          /\ pc \in {"idle", "fn"}
          /\ strayed' = (strayed \/ (pc = "fn" /\ h = CurrentNotify))
      BY <1>4 DEF KeypadUnregisterKeyNotify, ClientMayCall
    <2>2. LiveHandles \ {h} \subseteq LiveHandles'
      BY <1>4, RemoveFacts DEF KeypadUnregisterKeyNotify
    <2> QED
      BY <2>1, <2>2 DEF WalkInv, CallingLinkedEntry, WalkOnLiveEntry
  <1>5. CASE HandlerPop
    <2>1. pc' \in {"idle", "pop"} \/ (pc' = "walk" /\ Link' = GetFirstNode)
      BY <1>5 DEF HandlerPop
    <2>2. LiveHandles' = LiveHandles /\ strayed' = strayed
      BY <1>5 DEF HandlerPop, LiveHandles
    <2> QED  BY <1>2, <2>1, <2>2, ListFacts
             DEF WalkInv, CallingLinkedEntry, WalkOnLiveEntry
  <1>6. CASE HandlerSkip
    <2>1. /\ pc' = "walk" /\ Link' \in LiveHandles \union {NoLink}
          /\ LiveHandles' = LiveHandles
      BY <1>6, ListFacts DEF HandlerSkip, LiveHandles
    <2> QED  BY <2>1 DEF WalkInv, CallingLinkedEntry, WalkOnLiveEntry
  <1>7. CASE HandlerCall
    <2>1. /\ pc' = "fn" /\ CurrentNotify' = Link /\ Link' = Link /\ Link # NoLink
          /\ pc = "walk"
      BY <1>7, ListFacts, KeypadAssumption DEF HandlerCall
    <2>2. LiveHandles' = LiveHandles /\ strayed' = strayed
      BY <1>7 DEF HandlerCall, LiveHandles
    <2> QED  BY <2>1, <2>2 DEF WalkInv, CallingLinkedEntry, WalkOnLiveEntry
  <1>8. CASE HandlerFnReturn
    <2>1. /\ strayed' = strayed /\ LiveHandles' = LiveHandles
          /\ FollowsLink /\ pc = "fn" /\ Link # NoLink
      BY <1>8 DEF HandlerFnReturn, LiveHandles, WalkInv, CallingLinkedEntry
    <2>2. /\ pc' \in {"walk", "lost"}
          /\ ~strayed => Link' \in LiveHandles \union {NoLink}
      BY <2>1, LinkFacts DEF WalkInv, WalkOnLiveEntry
    <2> QED  BY <2>1, <2>2 DEF WalkInv, CallingLinkedEntry, WalkOnLiveEntry
  <1>9. CASE HandlerOnFreed
    <2>1. strayed /\ strayed'
      BY <1>9 DEF HandlerOnFreed, WalkInv, WalkOnLiveEntry
    <2>2. \/ pc' \in {"walk", "lost"}
          \/ pc' = "fn" /\ Link' = CurrentNotify' /\ Link' # NoLink
      BY <1>9, LinkFacts DEF HandlerOnFreed
    <2> QED  BY <2>1, <2>2 DEF WalkInv, CallingLinkedEntry, WalkOnLiveEntry
  <1>10. \/ UNCHANGED <<NotifyList, pc, Link, CurrentNotify, strayed>>
        \/ pc' \in {"idle", "pop"} \/ Register \/ Unregister
        \/ HandlerPop \/ HandlerSkip \/ HandlerFnReturn \/ HandlerOnFreed
        \/ HandlerCall
    BY DEF Next, vars, queues, push, handler, client, walk, CallPoll,
           Critical, SetState, Handler,
           KeypadTimerHandler, EnterPoll, TimerReturn, PushBegin, PushNotify,
           PushEnd, KeypadReadKeyStrokeWorker, WaitSkipPartial, WaitEnd,
           KeypadEfiReset, KeypadSetState, HandlerDispatch, HandlerWalkEnd
  <1> QED
    BY <1>1, <1>2, <1>3, <1>4, <1>5, <1>6, <1>7, <1>8, <1>9, <1>10
    DEF Register, Unregister

-----------------------------------------------------------------------------
(* The ring for the notification functions.  Its keys need not be numbered *)
(* consecutively, and one of them can be there twice, but they are sorted. *)

KeyAt(q, i) == q.Buffer[CellOf(q, i)]

Sorted(q) == \A i, j \in 0 .. (KeyCount(q) - 1) :
                i <= j => KeyAt(q, i).seq <= KeyAt(q, j).seq
NoneBefore(q, n) == \A i \in 0 .. (KeyCount(q) - 1) : n <= KeyAt(q, i).seq
NoneAfter(q, n) == \A i \in 0 .. (KeyCount(q) - 1) : KeyAt(q, i).seq <= n

\* The keys of a ring after a pop are the ones behind the head.
LEMMA KeysAfterPop ==
    ASSUME NEW q \in KeyQueues(QueuedKeys), ~IsEfikeyBufEmpty(q)
    PROVE  /\ KeyCount(q) \in Nat \ {0}
           /\ KeyCount(PopEfikeyBufHead(q)) = KeyCount(q) - 1
           /\ HeadKey(q) = KeyAt(q, 0)
           /\ \A i \in 0 .. (KeyCount(q) - 2) :
                KeyAt(PopEfikeyBufHead(q), i) = KeyAt(q, i + 1)
  <1>1. KeyCount(q) \in Nat \ {0}
    BY RingViews, QueueSizeAssumption DEF N
  <1>2. /\ KeyCount(PopEfikeyBufHead(q)) = KeyCount(q) - 1
        /\ PopEfikeyBufHead(q).Buffer = q.Buffer
        /\ \A i \in 0 .. (KeyCount(q) - 2) :
             CellOf(PopEfikeyBufHead(q), i) = CellOf(q, i + 1)
        /\ HeadKey(q) = q.Buffer[CellOf(q, 0)]
    BY PopFacts
  <1>3. \A i \in 0 .. (KeyCount(q) - 2) :
          KeyAt(PopEfikeyBufHead(q), i) = KeyAt(q, i + 1)
    BY <1>2 DEF KeyAt
  <1> QED  BY <1>1, <1>2, <1>3 DEF KeyAt

\* The numbers of the keys in a ring are numbers.
LEMMA SeqTypes ==
    ASSUME NEW q \in KeyQueues(QueuedKeys)
    PROVE  /\ KeyCount(q) \in 0 .. (N - 1)
           /\ \A i \in 0 .. (KeyCount(q) - 1) : KeyAt(q, i).seq \in Nat
  <1>1. KeyCount(q) \in 0 .. (N - 1)
    BY RingViews
  <1>2. \A i \in 0 .. (N - 1) : CellOf(q, i) \in Cells
    BY RingViews
  <1>3. \A i \in 0 .. (KeyCount(q) - 1) : i \in 0 .. (N - 1)
    BY <1>1, QueueSizeAssumption DEF N
  <1>4. \A c \in Cells : q.Buffer[c] \in QueuedKeys
    BY DEF KeyQueues
  <1>5. \A e \in QueuedKeys : e.seq \in Nat
    BY DEF QueuedKeys
  <1> QED  BY <1>1, <1>2, <1>3, <1>4, <1>5 DEF KeyAt

\* A pop takes the least key of a sorted ring.
LEMMA SortedAfterPop ==
    ASSUME NEW q \in KeyQueues(QueuedKeys), ~IsEfikeyBufEmpty(q)
    PROVE  /\ Sorted(q) => /\ Sorted(PopEfikeyBufHead(q))
                           /\ NoneBefore(PopEfikeyBufHead(q), HeadKey(q).seq)
           /\ \A n : NoneBefore(q, n) => /\ NoneBefore(PopEfikeyBufHead(q), n)
                                         /\ n <= HeadKey(q).seq
           /\ \A n : NoneAfter(q, n) => /\ NoneAfter(PopEfikeyBufHead(q), n)
                                        /\ HeadKey(q).seq <= n
  <1> DEFINE p == PopEfikeyBufHead(q)
  <1>1. /\ KeyCount(q) \in Nat \ {0} /\ KeyCount(p) = KeyCount(q) - 1
        /\ HeadKey(q) = KeyAt(q, 0)
        /\ \A i \in 0 .. (KeyCount(q) - 2) : KeyAt(p, i) = KeyAt(q, i + 1)
    BY KeysAfterPop
  <1> HIDE DEF p
  <1>2. \A i \in 0 .. (KeyCount(p) - 1) :
          /\ KeyAt(p, i) = KeyAt(q, i + 1)
          /\ i + 1 \in 0 .. (KeyCount(q) - 1)
    BY <1>1
  <1>3. 0 \in 0 .. (KeyCount(q) - 1)
    BY <1>1
  <1>4. ASSUME Sorted(q)
        PROVE  Sorted(p) /\ NoneBefore(p, HeadKey(q).seq)
    <2>1. Sorted(p)
      <3> SUFFICES ASSUME NEW i \in 0 .. (KeyCount(p) - 1),
                          NEW j \in 0 .. (KeyCount(p) - 1), i <= j
                   PROVE  KeyAt(p, i).seq <= KeyAt(p, j).seq
        BY DEF Sorted
      <3>1. i + 1 <= j + 1
        BY <1>1
      <3> QED  BY <1>2, <1>4, <3>1 DEF Sorted
    <2>2. NoneBefore(p, HeadKey(q).seq)
      <3> SUFFICES ASSUME NEW i \in 0 .. (KeyCount(p) - 1)
                   PROVE  HeadKey(q).seq <= KeyAt(p, i).seq
        BY DEF NoneBefore
      <3>1. 0 <= i + 1
        OBVIOUS
      <3> QED  BY <1>1, <1>2, <1>3, <1>4, <3>1 DEF Sorted
    <2> QED  BY <2>1, <2>2
  <1>5. ASSUME NEW n, NoneBefore(q, n)
        PROVE  NoneBefore(p, n) /\ n <= HeadKey(q).seq
    BY <1>1, <1>2, <1>3, <1>5 DEF NoneBefore
  <1>6. ASSUME NEW n, NoneAfter(q, n)
        PROVE  NoneAfter(p, n) /\ HeadKey(q).seq <= n
    BY <1>1, <1>2, <1>3, <1>6 DEF NoneAfter
  <1> QED  BY <1>4, <1>5, <1>6 DEF p

\* A push of a key that is not older than the others keeps a ring sorted.
LEMMA SortedAfterPush ==
    ASSUME NEW q \in KeyQueues(QueuedKeys), NEW e \in QueuedKeys
    PROVE  /\ Sorted(q) /\ NoneAfter(q, e.seq)
                => /\ Sorted(PushEfikeyBufTail(q, e))
                   /\ NoneAfter(PushEfikeyBufTail(q, e), e.seq)
           /\ \A n : NoneBefore(q, n) /\ n <= e.seq
                => NoneBefore(PushEfikeyBufTail(q, e), n)
  <1> DEFINE p == PushEfikeyBufTail(q, e)
             lost == IF KeyCount(q) = N - 1 THEN 1 ELSE 0
  <1>1. /\ p \in KeyQueues(QueuedKeys)
        /\ KeyCount(p) = KeyCount(q) + 1 - lost
        /\ KeyAt(p, KeyCount(p) - 1) = e
        /\ \A i \in 0 .. (KeyCount(p) - 2) : KeyAt(p, i) = KeyAt(q, i + lost)
    BY PushFacts DEF KeyAt
  <1>2. lost \in {0, 1} /\ KeyCount(q) \in Nat /\ KeyCount(p) \in Nat
    BY <1>1, RingViews, QueueSizeAssumption DEF N
  <1>3. e.seq \in Nat
    BY DEF QueuedKeys
  <1> HIDE DEF p, lost
  <1>4. \A i \in 0 .. (KeyCount(p) - 1) :
          \/ i = KeyCount(p) - 1 /\ KeyAt(p, i) = e
          \/ /\ i \in 0 .. (KeyCount(p) - 2)
             /\ KeyAt(p, i) = KeyAt(q, i + lost)
             /\ i + lost \in 0 .. (KeyCount(q) - 1)
    <2> SUFFICES ASSUME NEW i \in 0 .. (KeyCount(p) - 1), i # KeyCount(p) - 1
                 PROVE  /\ i \in 0 .. (KeyCount(p) - 2)
                        /\ KeyAt(p, i) = KeyAt(q, i + lost)
                        /\ i + lost \in 0 .. (KeyCount(q) - 1)
      BY <1>1, Zenon
    <2>1. i \in 0 .. (KeyCount(p) - 2)
      BY <1>2
    <2>2. i + lost \in 0 .. (KeyCount(q) - 1)
      BY <1>1, <1>2, <2>1
    <2> QED  BY <1>1, <2>1, <2>2
  <1>5. ASSUME Sorted(q), NoneAfter(q, e.seq)
        PROVE  Sorted(p) /\ NoneAfter(p, e.seq)
    <2>1. NoneAfter(p, e.seq)
      <3> SUFFICES ASSUME NEW i \in 0 .. (KeyCount(p) - 1)
                   PROVE  KeyAt(p, i).seq <= e.seq
        BY DEF NoneAfter
      <3> QED  BY <1>3, <1>4, <1>5 DEF NoneAfter
    <2>2. Sorted(p)
      <3> SUFFICES ASSUME NEW i \in 0 .. (KeyCount(p) - 1),
                          NEW j \in 0 .. (KeyCount(p) - 1), i <= j
                   PROVE  KeyAt(p, i).seq <= KeyAt(p, j).seq
        BY DEF Sorted
      <3>1. CASE j = KeyCount(p) - 1
        <4>1. KeyAt(p, j) = e
          BY <1>1, <3>1
        <4> QED  BY <2>1, <4>1 DEF NoneAfter
      <3>2. CASE j # KeyCount(p) - 1
        <4>1. i # KeyCount(p) - 1
          BY <1>2, <3>2
        <4>2. /\ KeyAt(p, i) = KeyAt(q, i + lost)
              /\ KeyAt(p, j) = KeyAt(q, j + lost)
              /\ i + lost \in 0 .. (KeyCount(q) - 1)
              /\ j + lost \in 0 .. (KeyCount(q) - 1)
          BY <1>4, <3>2, <4>1
        <4>3. i + lost <= j + lost
          BY <1>2
        <4> QED  BY <1>5, <4>2, <4>3 DEF Sorted
      <3> QED  BY <3>1, <3>2
    <2> QED  BY <2>1, <2>2
  <1>6. ASSUME NEW n, NoneBefore(q, n), n <= e.seq
        PROVE  NoneBefore(p, n)
    <2> SUFFICES ASSUME NEW i \in 0 .. (KeyCount(p) - 1)
                 PROVE  n <= KeyAt(p, i).seq
      BY DEF NoneBefore
    <2> QED  BY <1>4, <1>6 DEF NoneBefore
  <1> QED  BY <1>5, <1>6 DEF p

\* The number of the last key that the device handed over.
Newest == IF pushing = NoKey THEN produced ELSE produced + 1

\* The ring for the functions is sorted and holds nothing newer than Newest;
\* no registration was called for a key newer than one that still waits, or
\* than the one that the handler is delivering.
NotifyInv ==
    /\ Sorted(EfiKeyQueueForNotify) /\ NoneAfter(EfiKeyQueueForNotify, Newest)
    /\ \A h \in Handles : /\ NoneBefore(EfiKeyQueueForNotify, lastCall[h])
                          /\ lastCall[h] <= Newest
    /\ pc \in {"walk", "fn"} =>
         /\ NoneBefore(EfiKeyQueueForNotify, KeyData.seq)
         /\ KeyData.seq <= Newest
         /\ \A h \in Handles : lastCall[h] <= KeyData.seq

OrderedCalls ==
    \A h \in Handles : lastCall'[h] # 0 => lastCall'[h] >= lastCall[h]

notifyVars == <<EfiKeyQueueForNotify, lastCall, KeyData>>

\* A ring without keys is sorted, between any bounds.
LEMMA EmptyIsSorted ==
    ASSUME NEW q, KeyCount(q) = 0
    PROVE  Sorted(q) /\ \A n : NoneBefore(q, n) /\ NoneAfter(q, n)
  <1>1. 0 .. (KeyCount(q) - 1) = {}
    OBVIOUS
  <1> QED  BY <1>1 DEF Sorted, NoneBefore, NoneAfter

\* A bound on the keys of a ring can be relaxed.
LEMMA RelaxNoneAfter ==
    ASSUME NEW q \in KeyQueues(QueuedKeys), NEW m \in Nat, NEW n \in Nat,
           m <= n, NoneAfter(q, m)
    PROVE  NoneAfter(q, n)
  BY SeqTypes DEF NoneAfter

\* Every step keeps the notifications in order.
LEMMA NextNotifyInv ==
    ConsoleInv /\ NotifyInv /\ [Next]_vars => NotifyInv' /\ OrderedCalls
  <1> SUFFICES ASSUME ConsoleInv, NotifyInv, [Next]_vars
               PROVE  NotifyInv' /\ OrderedCalls
    OBVIOUS
  <1> DEFINE q == EfiKeyQueueForNotify
  <1>1. /\ q \in KeyQueues(QueuedKeys) /\ produced \in Nat
        /\ pushing \in QueuedKeys /\ KeyData \in QueuedKeys
        /\ lastCall \in [Handles -> Nat]
        /\ Link \in Handles \union {NoLink}
    BY DEF ConsoleInv, TypeOK
  <1>2. pushing.seq \in Nat /\ KeyData.seq \in Nat /\ Newest \in Nat
    BY <1>1 DEF QueuedKeys, Newest
  <1>3. pushing # NoKey => pushing.seq = Newest
    BY DEF ConsoleInv, PushingIsNext, Newest
  <1>4. /\ Sorted(q) /\ NoneAfter(q, Newest)
        /\ \A h \in Handles : NoneBefore(q, lastCall[h]) /\ lastCall[h] <= Newest
        /\ pc \in {"walk", "fn"} =>
             /\ NoneBefore(q, KeyData.seq) /\ KeyData.seq <= Newest
             /\ \A h \in Handles : lastCall[h] <= KeyData.seq
    BY DEF NotifyInv
  <1>5. ASSUME UNCHANGED lastCall
        PROVE  OrderedCalls
    BY <1>1, <1>5 DEF OrderedCalls
  \* Steps that leave the ring, the calls and the key in delivery alone.
  <1>6. ASSUME UNCHANGED notifyVars, Newest <= Newest', Newest' \in Nat,
               pc' \in {"walk", "fn"} => pc \in {"walk", "fn"}
        PROVE  NotifyInv' /\ OrderedCalls
    <2>1. UNCHANGED <<q, lastCall, KeyData>>
      BY <1>6 DEF notifyVars
    <2>2. NoneAfter(q, Newest')
      BY <1>1, <1>2, <1>4, <1>6, RelaxNoneAfter
    <2>3. (Sorted(q) /\ NoneAfter(q, Newest))'
      BY <1>4, <2>1, <2>2 DEF Sorted, NoneAfter, KeyAt
    <2>4. \A h \in Handles : lastCall'[h] <= Newest'
      BY <1>1, <1>2, <1>4, <1>6, <2>1
    <2>5. (\A h \in Handles : NoneBefore(q, lastCall[h]))'
      BY <1>4, <2>1 DEF NoneBefore, KeyAt
    <2>6. ASSUME pc' \in {"walk", "fn"}
          PROVE  /\ NoneBefore(q, KeyData.seq)'
                 /\ KeyData'.seq <= Newest'
                 /\ \A h \in Handles : lastCall'[h] <= KeyData'.seq
      <3>1. NoneBefore(q, KeyData.seq)'
        BY <1>4, <1>6, <2>1, <2>6 DEF NoneBefore, KeyAt
      <3>2. KeyData.seq <= Newest /\ \A h \in Handles : lastCall[h] <= KeyData.seq
        BY <1>4, <1>6, <2>6
      <3> QED  BY <1>2, <1>6, <2>1, <3>1, <3>2
    <2> QED  BY <1>5, <2>1, <2>3, <2>4, <2>5, <2>6 DEF NotifyInv
  <1>7. CASE PushBegin
    <2>1. /\ UNCHANGED <<q, lastCall, KeyData, pc, produced>>
          /\ pushing = NoKey /\ pushing'.seq = produced + 1
      BY <1>7 DEF PushBegin, Polling, queues, handler, walk
    <2>2. Newest' = Newest + 1
      BY <1>1, <2>1 DEF Newest, NoKey
    <2> QED  BY <1>2, <1>6, <2>1, <2>2 DEF notifyVars
  <1>8. CASE PushEnd
    <2>1. /\ UNCHANGED <<q, lastCall, KeyData, pc>>
          /\ pushing # NoKey /\ pushing' = NoKey /\ produced' = produced + 1
      BY <1>8 DEF PushEnd, handler, walk
    <2>2. Newest' = Newest
      BY <2>1 DEF Newest
    <2> QED  BY <1>2, <1>6, <2>1, <2>2 DEF notifyVars
  <1>9. CASE PushNotify
    <2>1. /\ UNCHANGED <<lastCall, KeyData, pc, pushing, produced>>
          /\ pushing # NoKey
          /\ q' = q \/ q' = PushEfikeyBufTail(q, pushing)
      BY <1>9 DEF PushNotify, QueueForNotify, handler, walk
    <2>2. Newest' = Newest
      BY <2>1 DEF Newest
    <2>3. CASE q' = q
      BY <1>2, <1>6, <2>1, <2>2, <2>3 DEF notifyVars
    <2>4. CASE q' = PushEfikeyBufTail(q, pushing)
      <3>1. pushing.seq = Newest
        BY <1>3, <2>1
      <3>2. Sorted(q') /\ NoneAfter(q', Newest)
        BY <1>1, <1>4, <2>4, <3>1, SortedAfterPush
      <3>3. \A n : NoneBefore(q, n) /\ n <= Newest => NoneBefore(q', n)
        BY <1>1, <2>4, <3>1, SortedAfterPush
      <3>4. \A h \in Handles : NoneBefore(q', lastCall[h])
        BY <1>4, <3>3
      <3>5. pc \in {"walk", "fn"} => NoneBefore(q', KeyData.seq)
        BY <1>4, <3>3
      <3>6. (Sorted(q) /\ NoneAfter(q, Newest))'
        BY <2>2, <3>2 DEF Sorted, NoneAfter, KeyAt
      <3>7. (\A h \in Handles : NoneBefore(q, lastCall[h]) /\ lastCall[h] <= Newest)'
        BY <1>4, <2>1, <2>2, <3>4 DEF NoneBefore, KeyAt
      <3>8. (pc \in {"walk", "fn"} =>
               /\ NoneBefore(q, KeyData.seq) /\ KeyData.seq <= Newest
               /\ \A h \in Handles : lastCall[h] <= KeyData.seq)'
        BY <1>4, <2>1, <2>2, <3>5 DEF NoneBefore, KeyAt
      <3> QED  BY <1>5, <2>1, <3>6, <3>7, <3>8 DEF NotifyInv
    <2> QED  BY <2>1, <2>3, <2>4
  <1>10. CASE KeypadEfiReset
    <2>1. /\ UNCHANGED <<lastCall, KeyData, pc, pushing, produced>>
          /\ q' = ClearQueue(q)
      BY <1>10 DEF KeypadEfiReset, handler, walk, push
    <2>2. Newest' = Newest
      BY <2>1 DEF Newest
    <2>3. KeyCount(q') = 0
      BY <1>1, <2>1 DEF ClearQueue, KeyCount, KeyQueues
    <2>4. Sorted(q') /\ \A n : NoneBefore(q', n) /\ NoneAfter(q', n)
      BY <2>3, EmptyIsSorted
    <2>5. (Sorted(q) /\ NoneAfter(q, Newest))'
      BY <2>4 DEF Sorted, NoneAfter, KeyAt
    <2>6. (\A h \in Handles : NoneBefore(q, lastCall[h]) /\ lastCall[h] <= Newest)'
      BY <1>4, <2>1, <2>2, <2>4 DEF NoneBefore, KeyAt
    <2>7. (pc \in {"walk", "fn"} =>
             /\ NoneBefore(q, KeyData.seq) /\ KeyData.seq <= Newest
             /\ \A h \in Handles : lastCall[h] <= KeyData.seq)'
      BY <1>4, <2>1, <2>2, <2>4 DEF NoneBefore, KeyAt
    <2> QED  BY <1>5, <2>1, <2>5, <2>6, <2>7 DEF NotifyInv
  <1>11. ASSUME NEW g \in Handles, KeypadUnregisterKeyNotify(g)
         PROVE  NotifyInv' /\ OrderedCalls
    <2>1. /\ UNCHANGED <<q, KeyData, pc, pushing, produced>>
          /\ lastCall' = [lastCall EXCEPT ![g] = 0]
      BY <1>11 DEF KeypadUnregisterKeyNotify, queues, push
    <2>2. Newest' = Newest
      BY <2>1 DEF Newest
    <2>3. \A h \in Handles : lastCall'[h] = 0 \/ lastCall'[h] = lastCall[h]
      BY <1>1, <2>1
    <2>4. NoneBefore(q, 0)
      BY <1>1, SeqTypes DEF NoneBefore
    <2>5. (Sorted(q) /\ NoneAfter(q, Newest))'
      BY <1>4, <2>1, <2>2 DEF Sorted, NoneAfter, KeyAt
    <2>6. (\A h \in Handles : NoneBefore(q, lastCall[h]))'
      BY <1>4, <2>1, <2>3, <2>4 DEF NoneBefore, KeyAt
    <2>7. \A h \in Handles : lastCall'[h] <= Newest'
      BY <1>2, <1>4, <2>2, <2>3
    <2>8. (pc \in {"walk", "fn"} =>
             /\ NoneBefore(q, KeyData.seq) /\ KeyData.seq <= Newest
             /\ \A h \in Handles : lastCall[h] <= KeyData.seq)'
      BY <1>2, <1>4, <2>1, <2>2, <2>3 DEF NoneBefore, KeyAt
    <2>9. OrderedCalls
      BY <1>1, <2>3 DEF OrderedCalls
    <2> QED  BY <2>5, <2>6, <2>7, <2>8, <2>9 DEF NotifyInv
  <1>12. CASE HandlerPop
    <2>1. /\ UNCHANGED <<lastCall, pushing, produced>>
          /\ q' = PopEfikeyBufHead(q)
      BY <1>12 DEF HandlerPop, push
    <2>2. Newest' = Newest
      BY <2>1 DEF Newest
    <2>3. CASE IsEfikeyBufEmpty(q)
      <3>1. q' = q /\ pc' = "idle"
        BY <1>12, <2>1, <2>3 DEF HandlerPop, PopEfikeyBufHead
      <3>2. (Sorted(q) /\ NoneAfter(q, Newest))'
        BY <1>4, <2>2, <3>1 DEF Sorted, NoneAfter, KeyAt
      <3>3. (\A h \in Handles : NoneBefore(q, lastCall[h]) /\ lastCall[h] <= Newest)'
        BY <1>4, <2>1, <2>2, <3>1 DEF NoneBefore, KeyAt
      <3> QED  BY <1>5, <2>1, <3>1, <3>2, <3>3 DEF NotifyInv
    <2>4. CASE ~IsEfikeyBufEmpty(q)
      <3>1. pc' = "walk" /\ KeyData' = HeadKey(q)
        BY <1>12, <2>4 DEF HandlerPop
      <3>2. /\ Sorted(q') /\ NoneBefore(q', HeadKey(q).seq)
            /\ NoneAfter(q', Newest) /\ HeadKey(q).seq <= Newest
        BY <1>1, <1>4, <2>1, <2>4, SortedAfterPop
      <3>3. \A h \in Handles : /\ NoneBefore(q', lastCall[h])
                               /\ lastCall[h] <= HeadKey(q).seq
        BY <1>1, <1>4, <2>1, <2>4, SortedAfterPop
      <3>4. (Sorted(q) /\ NoneAfter(q, Newest))'
        BY <2>2, <3>2 DEF Sorted, NoneAfter, KeyAt
      <3>5. (\A h \in Handles : NoneBefore(q, lastCall[h]) /\ lastCall[h] <= Newest)'
        BY <1>4, <2>1, <2>2, <3>3 DEF NoneBefore, KeyAt
      <3>6. (/\ NoneBefore(q, KeyData.seq) /\ KeyData.seq <= Newest
             /\ \A h \in Handles : lastCall[h] <= KeyData.seq)'
        BY <2>1, <2>2, <3>1, <3>2, <3>3 DEF NoneBefore, KeyAt
      <3> QED  BY <1>5, <2>1, <3>4, <3>5, <3>6 DEF NotifyInv
    <2> QED  BY <2>3, <2>4
  <1>13. CASE HandlerCall
    <2>1. /\ UNCHANGED <<q, KeyData, pushing, produced>>
          /\ pc = "walk"
          /\ lastCall' = [lastCall EXCEPT ![Link] = KeyData.seq]
      BY <1>13 DEF HandlerCall, queues, push
    <2>2. Newest' = Newest
      BY <2>1 DEF Newest
    <2>3. \A h \in Handles : lastCall'[h] = KeyData.seq \/ lastCall'[h] = lastCall[h]
      BY <1>1, <2>1
    <2>4. /\ NoneBefore(q, KeyData.seq) /\ KeyData.seq <= Newest
          /\ \A h \in Handles : lastCall[h] <= KeyData.seq
      BY <1>4, <2>1
    <2>5. (Sorted(q) /\ NoneAfter(q, Newest))'
      BY <1>4, <2>1, <2>2 DEF Sorted, NoneAfter, KeyAt
    <2>6. (\A h \in Handles : NoneBefore(q, lastCall[h]) /\ lastCall[h] <= Newest)'
      BY <1>4, <2>1, <2>2, <2>3, <2>4 DEF NoneBefore, KeyAt
    <2>7. (/\ NoneBefore(q, KeyData.seq) /\ KeyData.seq <= Newest
           /\ \A h \in Handles : lastCall[h] <= KeyData.seq)'
      BY <1>2, <2>1, <2>2, <2>3, <2>4 DEF NoneBefore, KeyAt
    <2>8. OrderedCalls
      BY <1>1, <1>2, <2>3, <2>4 DEF OrderedCalls
    <2> QED  BY <2>5, <2>6, <2>7, <2>8 DEF NotifyInv
  <1>14. \/ /\ UNCHANGED <<EfiKeyQueueForNotify, lastCall, KeyData, pushing,
                           produced>>
            /\ pc' \in {"walk", "fn"} => pc \in {"walk", "fn"}
         \/ PushBegin \/ PushNotify \/ PushEnd \/ KeypadEfiReset \/ Unregister
         \/ HandlerPop \/ HandlerCall
    BY DEF Next, vars, queues, push, handler, client, walk, CallPoll,
           Critical, SetState, Register, Handler, KeypadTimerHandler,
           EnterPoll, TimerReturn, KeypadReadKeyStrokeWorker, WaitSkipPartial,
           WaitEnd, KeypadSetState, KeypadRegisterKeyNotify, HandlerDispatch,
           HandlerSkip, HandlerFnReturn, HandlerOnFreed, FollowsLink,
           HandlerWalkEnd
  <1>15. ASSUME UNCHANGED <<EfiKeyQueueForNotify, lastCall, KeyData, pushing,
                            produced>>,
                pc' \in {"walk", "fn"} => pc \in {"walk", "fn"}
         PROVE  NotifyInv' /\ OrderedCalls
    <2>1. Newest' = Newest
      BY <1>15 DEF Newest
    <2> QED  BY <1>2, <1>6, <1>15, <2>1 DEF notifyVars
  <1> QED
    BY <1>7, <1>8, <1>9, <1>10, <1>11, <1>12, <1>13, <1>14, <1>15
    DEF Unregister

-----------------------------------------------------------------------------
(* The readers' ring as a sequence, and the abstract queue it implements.  *)

\* The pending keys of a ring, as a sequence.
LEMMA PendingIsSeq ==
    ASSUME NEW Elem, NEW q \in KeyQueues(Elem)
    PROVE  /\ PendingKeys(q) \in Seq(Elem)
           /\ Len(PendingKeys(q)) = KeyCount(q)
           /\ \A i \in 1 .. KeyCount(q) : PendingKeys(q)[i] = KeyAt(q, i - 1)
           /\ PendingKeys(q) = << >> <=> IsEfikeyBufEmpty(q)
  <1> DEFINE n == KeyCount(q)
  <1>1. n \in Nat /\ n <= N - 1 /\ (IsEfikeyBufEmpty(q) <=> n = 0)
    BY RingViews, QueueSizeAssumption DEF N
  <1>2. \A i \in 0 .. (N - 1) : CellOf(q, i) \in Cells
    BY RingViews
  <1>3. q.Buffer \in [Cells -> Elem]
    BY DEF KeyQueues
  <1>4. \A i \in 1 .. n : i - 1 \in 0 .. (N - 1)
    BY <1>1, QueueSizeAssumption DEF N
  <1>5. \A i \in 1 .. n : q.Buffer[CellOf(q, i - 1)] \in Elem
    BY <1>2, <1>3, <1>4
  <1>6. PendingKeys(q) \in [1 .. n -> Elem]
    BY <1>5 DEF PendingKeys
  <1>7. PendingKeys(q) \in Seq(Elem) /\ Len(PendingKeys(q)) = n
    BY <1>1, <1>6
  <1>8. \A i \in 1 .. n : PendingKeys(q)[i] = KeyAt(q, i - 1)
    BY DEF PendingKeys, KeyAt
  <1>9. PendingKeys(q) = << >> <=> n = 0
    BY <1>7, EmptySeq
  <1> QED  BY <1>1, <1>7, <1>8, <1>9

\* A pop takes the first key of the sequence.
LEMMA PendingAfterPop ==
    ASSUME NEW q \in KeyQueues(QueuedKeys), ~IsEfikeyBufEmpty(q)
    PROVE  /\ PendingKeys(q) # << >>
           /\ Head(PendingKeys(q)) = HeadKey(q)
           /\ PendingKeys(PopEfikeyBufHead(q)) = Tail(PendingKeys(q))
  <1> DEFINE p == PopEfikeyBufHead(q)
             s == PendingKeys(q)
             t == PendingKeys(p)
  <1>1. p \in KeyQueues(QueuedKeys)
    BY PopFacts
  <1>2. /\ KeyCount(q) \in Nat \ {0} /\ KeyCount(p) = KeyCount(q) - 1
        /\ HeadKey(q) = KeyAt(q, 0)
        /\ \A i \in 0 .. (KeyCount(q) - 2) : KeyAt(p, i) = KeyAt(q, i + 1)
    BY KeysAfterPop
  <1> HIDE DEF p
  <1>3. /\ s \in Seq(QueuedKeys) /\ Len(s) = KeyCount(q) /\ s # << >>
        /\ \A i \in 1 .. KeyCount(q) : s[i] = KeyAt(q, i - 1)
    BY PendingIsSeq
  <1>4. /\ t \in Seq(QueuedKeys) /\ Len(t) = KeyCount(p)
        /\ \A i \in 1 .. KeyCount(p) : t[i] = KeyAt(p, i - 1)
    BY <1>1, PendingIsSeq
  <1> HIDE DEF s, t
  <1>5. /\ Tail(s) \in Seq(QueuedKeys) /\ Len(Tail(s)) = Len(s) - 1
        /\ \A i \in 1 .. Len(Tail(s)) : Tail(s)[i] = s[i + 1]
    BY <1>3, HeadTailProperties
  <1>6. Head(s) = HeadKey(q)
    <2>1. Head(s) = s[1]
      BY <1>3
    <2>2. 1 \in 1 .. KeyCount(q)
      BY <1>2
    <2> QED  BY <1>2, <1>3, <2>1, <2>2
  <1>7. ASSUME NEW i \in 1 .. Len(t)
        PROVE  t[i] = Tail(s)[i]
    <2>1. i - 1 \in 0 .. (KeyCount(q) - 2) /\ i + 1 \in 1 .. KeyCount(q)
      BY <1>2, <1>4
    <2>2. t[i] = KeyAt(q, (i - 1) + 1)
      BY <1>2, <1>4, <2>1
    <2>3. Tail(s)[i] = KeyAt(q, (i + 1) - 1)
      BY <1>2, <1>3, <1>4, <1>5, <2>1
    <2>4. (i - 1) + 1 = (i + 1) - 1
      OBVIOUS
    <2> QED  BY <2>2, <2>3, <2>4
  <1>8. t = Tail(s)
    <2>1. Len(t) = Len(Tail(s))
      BY <1>2, <1>3, <1>4, <1>5
    <2> QED  BY <1>4, <1>5, <1>7, <2>1, SeqEqual
  <1> QED  BY <1>3, <1>6, <1>8 DEF p, s, t

\* A push adds a key at the end; a full ring loses the first key for it.
LEMMA PendingAfterPush ==
    ASSUME NEW q \in KeyQueues(QueuedKeys), NEW e \in QueuedKeys
    PROVE  PendingKeys(PushEfikeyBufTail(q, e)) =
             IF Len(Append(PendingKeys(q), e)) > N - 1
             THEN Tail(Append(PendingKeys(q), e))
             ELSE Append(PendingKeys(q), e)
  <1> DEFINE p == PushEfikeyBufTail(q, e)
             s == PendingKeys(q)
             t == PendingKeys(p)
             longer == Append(s, e)
             lost == IF KeyCount(q) = N - 1 THEN 1 ELSE 0
  <1>1. /\ p \in KeyQueues(QueuedKeys)
        /\ KeyCount(p) = KeyCount(q) + 1 - lost
        /\ KeyAt(p, KeyCount(p) - 1) = e
        /\ \A i \in 0 .. (KeyCount(p) - 2) : KeyAt(p, i) = KeyAt(q, i + lost)
    BY PushFacts DEF KeyAt
  <1>2. KeyCount(q) \in Nat /\ KeyCount(q) <= N - 1 /\ N \in Nat
    BY RingViews, QueueSizeAssumption DEF N
  <1>3. lost = IF KeyCount(q) = N - 1 THEN 1 ELSE 0
    OBVIOUS
  <1> HIDE DEF p, lost
  <1>4. /\ s \in Seq(QueuedKeys) /\ Len(s) = KeyCount(q)
        /\ \A i \in 1 .. KeyCount(q) : s[i] = KeyAt(q, i - 1)
    BY PendingIsSeq
  <1>5. /\ t \in Seq(QueuedKeys) /\ Len(t) = KeyCount(p)
        /\ \A i \in 1 .. KeyCount(p) : t[i] = KeyAt(p, i - 1)
    BY <1>1, PendingIsSeq
  <1> HIDE DEF s, t
  <1>6. /\ longer \in Seq(QueuedKeys) /\ Len(longer) = KeyCount(q) + 1
        /\ longer[KeyCount(q) + 1] = e
        /\ \A i \in 1 .. KeyCount(q) : longer[i] = s[i]
    BY <1>2, <1>4
  <1> HIDE DEF longer
  <1>7. CASE KeyCount(q) = N - 1
    <2>1. lost = 1 /\ Len(longer) > N - 1
      BY <1>2, <1>3, <1>6, <1>7
    <2>2. longer # << >>
      BY <1>2, <1>6, EmptySeq
    <2>3. /\ Tail(longer) \in Seq(QueuedKeys) /\ Len(Tail(longer)) = KeyCount(q)
          /\ \A i \in 1 .. Len(Tail(longer)) : Tail(longer)[i] = longer[i + 1]
      BY <1>2, <1>6, <2>2, HeadTailProperties
    <2>4. KeyCount(p) = KeyCount(q)
      BY <1>1, <1>2, <2>1
    <2>5. ASSUME NEW i \in 1 .. Len(t)
          PROVE  t[i] = Tail(longer)[i]
      <3>1. i \in 1 .. KeyCount(q)
        BY <1>5, <2>4
      <3>2. CASE i = KeyCount(q)
        <4>1. t[i] = e
          BY <1>1, <1>5, <2>4, <3>1, <3>2
        <4>2. Tail(longer)[i] = e
          BY <1>6, <2>3, <3>1, <3>2
        <4> QED  BY <4>1, <4>2
      <3>3. CASE i # KeyCount(q)
        <4>1. /\ i - 1 \in 0 .. (KeyCount(p) - 2) /\ i + 1 \in 1 .. KeyCount(q)
              /\ (i - 1) + 1 = (i + 1) - 1
          BY <1>2, <2>4, <3>1, <3>3
        <4>2. t[i] = KeyAt(q, (i - 1) + 1)
          BY <1>1, <1>5, <2>1, <2>4, <3>1, <4>1
        <4>3. Tail(longer)[i] = KeyAt(q, (i + 1) - 1)
          BY <1>4, <1>6, <2>3, <3>1, <4>1
        <4> QED  BY <4>1, <4>2, <4>3
      <3> QED  BY <3>2, <3>3
    <2>6. t = Tail(longer)
      <3>1. Len(t) = Len(Tail(longer))
        BY <1>5, <2>3, <2>4
      <3> QED  BY <1>5, <2>3, <2>5, <3>1, SeqEqual
    <2> QED  BY <2>1, <2>6 DEF p, s, t, longer
  <1>8. CASE KeyCount(q) # N - 1
    <2>1. lost = 0 /\ ~(Len(longer) > N - 1) /\ KeyCount(p) = KeyCount(q) + 1
      BY <1>1, <1>2, <1>3, <1>6, <1>8
    <2>2. ASSUME NEW i \in 1 .. Len(t)
          PROVE  t[i] = longer[i]
      <3>1. CASE i = KeyCount(q) + 1
        BY <1>1, <1>2, <1>5, <1>6, <2>1, <3>1
      <3>2. CASE i # KeyCount(q) + 1
        <4>1. /\ i - 1 \in 0 .. (KeyCount(p) - 2) /\ i \in 1 .. KeyCount(q)
              /\ (i - 1) + lost = i - 1
          BY <1>2, <1>5, <2>1, <3>2
        <4>2. t[i] = KeyAt(q, i - 1)
          BY <1>1, <1>5, <4>1
        <4> QED  BY <1>4, <1>6, <4>1, <4>2
      <3> QED  BY <3>1, <3>2
    <2>3. t = longer
      <3>1. Len(t) = Len(longer)
        BY <1>5, <1>6, <2>1
      <3> QED  BY <1>5, <1>6, <2>2, <3>1, SeqEqual
    <2> QED  BY <2>1, <2>3 DEF p, s, t, longer
  <1> QED  BY <1>7, <1>8

\* The device's bound, on the keys that were handed over and on the one that
\* a reader got.
BoundInv == /\ produced <= MaxKeys
            /\ pushing # NoKey => produced < MaxKeys
            /\ returned.key.seq <= MaxKeys

Delivered == [data : KeyDatas, seq : 0 .. MaxKeys]

\* A queued key within the bound is an element of the abstract queue.
LEMMA DeliveredFacts ==
    /\ NoKey \in Delivered
    /\ \A k \in QueuedKeys : k.seq <= MaxKeys => k \in Delivered
  <1>1. NoKey \in Delivered
    BY KeypadAssumption DEF NoKey, Delivered, KeyDatas
  <1>2. ASSUME NEW k \in QueuedKeys, k.seq <= MaxKeys
        PROVE  k \in Delivered
    BY <1>2, KeypadAssumption DEF QueuedKeys, Delivered
  <1> QED  BY <1>1, <1>2

\* The head of the readers' ring is a key that was delivered.
LEMMA HeadDelivered ==
    ASSUME ConsoleInv, BoundInv, ~IsEfikeyBufEmpty(EfiKeyQueue)
    PROVE  HeadKey(EfiKeyQueue) \in Delivered
  <1> DEFINE q == EfiKeyQueue
  <1>1. q \in KeyQueues(QueuedKeys) /\ produced \in Nat
    BY DEF ConsoleInv, TypeOK
  <1>2. KeyCount(q) \in Nat \ {0}
    BY <1>1, KeysAfterPop
  <1>3. Latest(q, produced)
    BY DEF ConsoleInv, KeysAreLatest, Latest
  <1>4. HeadKey(q).seq = produced - KeyCount(q) + 1
    BY <1>1, <1>3, LatestAfterPop
  <1>5. HeadKey(q) \in QueuedKeys
    BY <1>1, RingTypes
  <1>6. HeadKey(q).seq <= MaxKeys
    BY <1>1, <1>2, <1>4, KeypadAssumption DEF BoundInv
  <1> QED  BY <1>5, <1>6, DeliveredFacts

\* Every step keeps the bound.
LEMMA NextBoundInv ==
    ConsoleInv /\ BoundInv /\ [Next]_vars => BoundInv'
  <1> SUFFICES ASSUME ConsoleInv, BoundInv, [Next]_vars PROVE BoundInv'
    OBVIOUS
  <1>1. CASE UNCHANGED <<produced, pushing, returned>>
    BY <1>1 DEF BoundInv
  <1>2. CASE PushBegin
    BY <1>2 DEF PushBegin, client, BoundInv
  <1>3. CASE PushEnd
    BY <1>3, KeypadAssumption DEF PushEnd, client, BoundInv, ConsoleInv, TypeOK
  <1>4. CASE KeypadReadKeyStrokeWorker
    <2>1. UNCHANGED <<produced, pushing>>
      BY <1>4 DEF KeypadReadKeyStrokeWorker, push
    <2>2. CASE returned' = returned
      BY <1>1, <2>1, <2>2
    <2>3. CASE returned' # returned
      <3>1. /\ ~IsEfikeyBufEmpty(EfiKeyQueue)
            /\ returned'.key = HeadKey(EfiKeyQueue)
        BY <1>4, <2>3 DEF KeypadReadKeyStrokeWorker, ReaderGetsNoKey
      <3>2. returned'.key.seq <= MaxKeys
        BY <3>1, HeadDelivered DEF Delivered
      <3> QED  BY <2>1, <3>2 DEF BoundInv
    <2> QED  BY <2>2, <2>3
  <1>5. \/ UNCHANGED <<produced, pushing, returned>>
        \/ PushBegin \/ PushEnd \/ KeypadReadKeyStrokeWorker
    BY DEF Next, vars, queues, push, handler, client, walk, CallPoll,
           Critical, SetState, Register, Unregister, Handler,
           KeypadTimerHandler, EnterPoll, TimerReturn, PushNotify,
           WaitSkipPartial, WaitEnd, KeypadEfiReset, KeypadSetState,
           KeypadRegisterKeyNotify, KeypadUnregisterKeyNotify,
           HandlerDispatch, HandlerPop, HandlerSkip, HandlerCall,
           HandlerFnReturn, HandlerOnFreed, HandlerWalkEnd
  <1> QED  BY <1>1, <1>2, <1>3, <1>4, <1>5

\* The abstract queue starts empty.
LEMMA FifoInit == Init => ReaderFifo!Init
  <1> SUFFICES ASSUME Init PROVE ReaderFifo!Init
    OBVIOUS
  <1>1. EfiKeyQueue \in KeyQueues(QueuedKeys)
    BY InitTypeOK DEF TypeOK
  <1>2. PendingKeys(EfiKeyQueue) = << >>
    <2>1. IsEfikeyBufEmpty(EfiKeyQueue)
      BY DEF Init, NewQueue, IsEfikeyBufEmpty
    <2> QED  BY <1>1, <2>1, PendingIsSeq
  <1>3. produced = 0 /\ returned.key \in Delivered
    BY DeliveredFacts DEF Init
  <1> QED  BY <1>2, <1>3 DEF ReaderFifo!Init, Delivered

\* Every step is a step of the abstract queue or leaves it alone: PushEnd is
\* its Arrive; a read its Take, or its Skip of a partial key; KeypadWaitForKey
\* skips; a reset clears.
LEMMA FifoStep ==
    ConsoleInv /\ BoundInv /\ [Next]_vars
        => [ReaderFifo!Next]_ReaderFifo!fifoVars
  <1> SUFFICES ASSUME ConsoleInv, BoundInv, [Next]_vars
               PROVE  [ReaderFifo!Next]_ReaderFifo!fifoVars
    OBVIOUS
  <1> DEFINE q == EfiKeyQueue
             pending == PendingKeys(EfiKeyQueue)
  <1>1. q \in KeyQueues(QueuedKeys) /\ produced \in Nat /\ pushing \in QueuedKeys
    BY DEF ConsoleInv, TypeOK
  <1>2. CASE UNCHANGED <<EfiKeyQueue, produced, returned>>
    BY <1>2 DEF ReaderFifo!fifoVars, PendingKeys, KeyCount, CellOf
  <1>3. ~IsEfikeyBufEmpty(q) =>
          /\ pending # << >> /\ Head(pending) = HeadKey(q)
          /\ PendingKeys(PopEfikeyBufHead(q)) = Tail(pending)
    BY <1>1, PendingAfterPop
  <1>4. ASSUME NEW r, q' = r PROVE pending' = PendingKeys(r)
    BY <1>4 DEF PendingKeys, KeyCount, CellOf
  <1>5. CASE PushEnd
    <2>1. /\ q' = PushEfikeyBufTail(q, pushing) /\ pushing # NoKey
          /\ produced' = produced + 1 /\ returned' = returned
      BY <1>5 DEF PushEnd, client
    <2>2. pushing \in Delivered
      <3>1. pushing.seq = produced + 1 /\ produced < MaxKeys
        BY <2>1 DEF ConsoleInv, PushingIsNext, BoundInv
      <3>2. pushing.seq <= MaxKeys
        BY <1>1, <3>1, KeypadAssumption
      <3> QED  BY <1>1, <3>2, DeliveredFacts
    <2>3. pending' = IF Len(Append(pending, pushing)) > N - 1
                     THEN Tail(Append(pending, pushing))
                     ELSE Append(pending, pushing)
      BY <1>1, <1>4, <2>1, PendingAfterPush
    <2>4. ReaderFifo!Arrive(pushing)
      BY <2>1, <2>3 DEF ReaderFifo!Arrive, N
    <2> QED  BY <2>2, <2>4 DEF ReaderFifo!Next, Delivered
  <1>6. CASE KeypadReadKeyStrokeWorker
    <2>1. /\ q' = PopEfikeyBufHead(q) /\ produced' = produced
          /\ returned' = IF ReaderGetsNoKey(q)
                         THEN returned
                         ELSE [key |-> HeadKey(q), plain |-> cs = "read"]
      BY <1>6 DEF KeypadReadKeyStrokeWorker, push
    <2>2. CASE IsEfikeyBufEmpty(q)
      BY <1>2, <2>1, <2>2 DEF PopEfikeyBufHead, ReaderGetsNoKey
    <2>3. CASE ~IsEfikeyBufEmpty(q)
      <3>1. pending' = Tail(pending) /\ pending # << >>
        BY <1>3, <1>4, <2>1, <2>3
      <3>2. CASE ReaderGetsNoKey(q)
        <4>1. IsPartial(HeadKey(q)) /\ returned' = returned
          BY <2>1, <2>3, <3>2 DEF ReaderGetsNoKey
        <4>2. Head(pending) \in {k \in Delivered : IsPartial(k)}
          BY <1>3, <2>3, <4>1, HeadDelivered
        <4>3. ReaderFifo!Skip
          BY <2>1, <3>1, <4>1, <4>2 DEF ReaderFifo!Skip, Delivered
        <4> QED  BY <4>3 DEF ReaderFifo!Next
      <3>3. CASE ~ReaderGetsNoKey(q)
        <4>1. returned'.key = Head(pending)
          BY <1>3, <2>1, <2>3, <3>3
        <4>2. ReaderFifo!Take
          BY <2>1, <3>1, <4>1 DEF ReaderFifo!Take
        <4> QED  BY <4>2 DEF ReaderFifo!Next
      <3> QED  BY <3>2, <3>3
    <2> QED  BY <2>2, <2>3
  <1>7. CASE WaitSkipPartial
    <2>1. /\ q' = PopEfikeyBufHead(q) /\ produced' = produced
          /\ returned' = returned
          /\ ~IsEfikeyBufEmpty(q) /\ IsPartial(HeadKey(q))
      BY <1>7 DEF WaitSkipPartial, push
    <2>2. pending' = Tail(pending) /\ pending # << >>
      BY <1>3, <1>4, <2>1
    <2>3. Head(pending) \in {k \in Delivered : IsPartial(k)}
      BY <1>3, <2>1, HeadDelivered
    <2>4. ReaderFifo!Skip
      BY <2>1, <2>2, <2>3 DEF ReaderFifo!Skip, Delivered
    <2> QED  BY <2>4 DEF ReaderFifo!Next
  <1>8. CASE KeypadEfiReset
    <2>1. q' = ClearQueue(q) /\ produced' = produced /\ returned' = returned
      BY <1>8 DEF KeypadEfiReset, push
    <2>2. ClearQueue(q) \in KeyQueues(QueuedKeys)
      BY <1>1, RingTypes
    <2>3. IsEfikeyBufEmpty(ClearQueue(q))
      BY <1>1 DEF ClearQueue, IsEfikeyBufEmpty, KeyQueues
    <2>4. PendingKeys(ClearQueue(q)) = << >>
      BY <2>2, <2>3, PendingIsSeq
    <2>5. pending' = << >>
      BY <1>4, <2>1, <2>4
    <2>6. ReaderFifo!Clear
      BY <2>1, <2>5 DEF ReaderFifo!Clear
    <2> QED  BY <2>6 DEF ReaderFifo!Next
  <1>9. \/ UNCHANGED <<EfiKeyQueue, produced, returned>> \/ PushEnd
        \/ KeypadReadKeyStrokeWorker \/ WaitSkipPartial \/ KeypadEfiReset
    BY DEF Next, vars, queues, push, handler, client, walk, CallPoll,
           Critical, SetState, Register, Unregister, Handler,
           KeypadTimerHandler, EnterPoll, TimerReturn, PushBegin, PushNotify,
           WaitEnd, KeypadSetState,
           KeypadRegisterKeyNotify, KeypadUnregisterKeyNotify,
           HandlerDispatch, HandlerPop, HandlerSkip, HandlerCall,
           HandlerFnReturn, HandlerOnFreed, HandlerWalkEnd
  <1> QED  BY <1>2, <1>5, <1>6, <1>7, <1>8, <1>9

-----------------------------------------------------------------------------
(* The theorems.                                                           *)

\* ConsoleInv holds when DriverStart returns.
LEMMA InitConsoleInv == Init => ConsoleInv
  <1> SUFFICES ASSUME Init PROVE ConsoleInv
    OBVIOUS
  <1>1. TypeOK
    BY InitTypeOK
  <1>2. EfiKeyQueue.Head = 0 /\ EfiKeyQueue.Tail = 0 /\ KeyCount(EfiKeyQueue) = 0
    BY DEF Init, NewQueue, KeyCount
  <1>3. IsEfikeyBufEmpty(EfiKeyQueueForNotify)
    BY DEF Init, NewQueue, IsEfikeyBufEmpty
  <1>4. KeysAreLatest /\ SignalledKeyStays /\ NotifyPending
    BY <1>2, <1>3 DEF Init, KeysAreLatest, SignalledKeyStays, NotifyPending
  <1>5. PushingIsNext /\ ReturnedIsOlder /\ PlainReaderGetsWholeKeys
    BY <1>2 DEF Init, PushingIsNext, ReturnedIsOlder, PlainReaderGetsWholeKeys,
                NoKey
  <1>6. CallingLinkedEntry /\ WalkOnLiveEntry
    BY DEF Init, CallingLinkedEntry, WalkOnLiveEntry
  <1> QED  BY <1>1, <1>4, <1>5, <1>6 DEF ConsoleInv

\* Every step keeps ConsoleInv, and readers go forward.
LEMMA NextConsoleInv ==
    ConsoleInv /\ [Next]_vars
        => /\ ConsoleInv'
           /\ returned' # returned => returned'.key.seq > returned.key.seq
  BY NextTypeOK, NextRingInv, NextNotifyPending, NextWalkInv
  DEF ConsoleInv, RingInv, WalkInv

\* ConsoleInv holds in every reachable state of the driver.
THEOREM ConsoleInvariant == Spec => []ConsoleInv
  <1>1. Init => ConsoleInv
    BY InitConsoleInv
  <1>2. ConsoleInv /\ [Next]_vars => ConsoleInv'
    BY NextConsoleInv
  <1> QED  BY <1>1, <1>2, PTL DEF Spec

\* The driver's fields keep their types; both rings keep their indices inside
\* the buffer.
THEOREM TypeCorrect == Spec => []TypeOK
  <1>1. ConsoleInv => TypeOK
    BY DEF ConsoleInv
  <1> QED  BY <1>1, ConsoleInvariant, PTL

\* The readers' ring holds the latest keys, in order and without a gap.
THEOREM RingHoldsLatest == Spec => []KeysAreLatest
  <1>1. ConsoleInv => KeysAreLatest
    BY DEF ConsoleInv
  <1> QED  BY <1>1, ConsoleInvariant, PTL

\* A signalled WaitForKey event means that a whole key is there, or that the ring
\* is full of keys that came later.
THEOREM SignalIsHonest == Spec => []SignalledKeyStays
  <1>1. ConsoleInv => SignalledKeyStays
    BY DEF ConsoleInv
  <1> QED  BY <1>1, ConsoleInvariant, PTL

\* No wakeup of the notification handler is lost.
THEOREM NoLostWakeup == Spec => []NotifyPending
  <1>1. ConsoleInv => NotifyPending
    BY DEF ConsoleInv
  <1> QED  BY <1>1, ConsoleInvariant, PTL

\* The handler's walk stands on a freed registration only after a function has
\* unregistered its own entry.
THEOREM WalkIsSafe == Spec => []WalkOnLiveEntry
  <1>1. ConsoleInv => WalkOnLiveEntry
    BY DEF ConsoleInv
  <1> QED  BY <1>1, ConsoleInvariant, PTL

\* ReadKeyStroke returns no partial key.
THEOREM PlainReaderIsSafe == Spec => []PlainReaderGetsWholeKeys
  <1>1. ConsoleInv => PlainReaderGetsWholeKeys
    BY DEF ConsoleInv
  <1> QED  BY <1>1, ConsoleInvariant, PTL

\* Readers get keys in order and none of them twice.
THEOREM ReadersInOrder == Spec => ReadsInOrder
  <1>1. ConsoleInv /\ [Next]_vars
          => [returned' # returned =>
                 returned'.key.seq > returned.key.seq]_vars
    BY NextConsoleInv
  <1> QED  BY <1>1, ConsoleInvariant, PTL DEF Spec, ReadsInOrder

\* The ring for the functions is in order in every reachable state.
LEMMA NotifyInvariant == Spec => []NotifyInv
  <1>1. Init => NotifyInv
    <2> SUFFICES ASSUME Init PROVE NotifyInv
      OBVIOUS
    <2>1. KeyCount(EfiKeyQueueForNotify) = 0
      BY DEF Init, NewQueue, KeyCount
    <2>2. /\ Sorted(EfiKeyQueueForNotify)
          /\ \A n : /\ NoneBefore(EfiKeyQueueForNotify, n)
                    /\ NoneAfter(EfiKeyQueueForNotify, n)
      BY <2>1, EmptyIsSorted
    <2>3. \A h \in Handles : lastCall[h] <= Newest
      BY DEF Init, Newest
    <2>4. pc \notin {"walk", "fn"}
      BY DEF Init
    <2> QED  BY <2>2, <2>3, <2>4 DEF NotifyInv
  <1>2. ConsoleInv /\ NotifyInv /\ [Next]_vars => NotifyInv'
    BY NextNotifyInv
  <1> QED  BY <1>1, <1>2, ConsoleInvariant, PTL DEF Spec

\* Every registration is called for the keys in the order of their delivery.
THEOREM NotificationsInOrder == Spec => NotifiedInOrder
  <1>1. ConsoleInv /\ NotifyInv /\ [Next]_vars
          => [\A h \in Handles :
                lastCall'[h] # 0 => lastCall'[h] >= lastCall[h]]_vars
    BY NextNotifyInv DEF OrderedCalls
  <1> QED
    BY <1>1, ConsoleInvariant, NotifyInvariant, PTL DEF Spec, NotifiedInOrder

\* The device's bound holds in every reachable state.
LEMMA BoundInvariant == Spec => []BoundInv
  <1>1. Init => BoundInv
    BY KeypadAssumption DEF Init, BoundInv, NoKey
  <1>2. ConsoleInv /\ BoundInv /\ [Next]_vars => BoundInv'
    BY NextBoundInv
  <1> QED  BY <1>1, <1>2, ConsoleInvariant, PTL DEF Spec

\* The readers' ring of the driver implements the bounded queue that forgets
\* its oldest key, step by step.
THEOREM RingImplementsFifo == Spec => ReaderQueueIsFifo
  <1>1. Init => ReaderFifo!Init
    BY FifoInit
  <1>2. ConsoleInv /\ BoundInv /\ [Next]_vars
          => [ReaderFifo!Next]_ReaderFifo!fifoVars
    BY FifoStep
  <1> QED
    BY <1>1, <1>2, ConsoleInvariant, BoundInvariant, PTL
    DEF Spec, ReaderQueueIsFifo, ReaderFifo!Spec

-----------------------------------------------------------------------------
(* KeypadDevice: the keys and the LED.                                     *)

KeyTypes ==
    /\ State \in [Keys -> {"RELEASED", "PRESSED", "LONGPRESS_RELEASE"}]
    /\ Time \in [Keys -> 0 .. LongpressTime]
    /\ Repeat \in [Keys -> BOOLEAN] /\ Longpress \in [Keys -> BOOLEAN]
    /\ reports \in [Keys -> 0 .. 2]
    /\ quiet \in [Keys -> 0 .. LongpressTime]
    /\ heard \subseteq Keys

\* What holds of every key: a key that repeats is in its long press, and was
\* reported Time ago; a press without a long press has not been reported.
KeyInv(k) ==
    /\ Longpress[k] => State[k] = "PRESSED"
    /\ Repeat[k] => Longpress[k] /\ Time[k] = quiet[k]
    /\ State[k] = "PRESSED" /\ ~Longpress[k] => reports[k] = 0
    /\ State[k] = "LONGPRESS_RELEASE" => reports[k] = 1
    /\ k = Dial => ~Repeat[k] /\ reports[k] <= 1

DeviceInv ==
    /\ DeviceTypeOK
    /\ \A k \in Keys : KeyInv(k)
    /\ scanBits = sample \intersect ScanKeys
    /\ LedNotStuck

-----------------------------------------------------------------------------
(* One key.                                                                *)

\* The clocks stay in their range, and count as far as the comparisons reach.
LEMMA AfterRange ==
    ASSUME NEW t \in 0 .. LongpressTime, NEW d \in Nat
    PROVE  /\ After(t, d) \in 0 .. LongpressTime
           /\ After(t, d) >= t
BY DeviceAssumption, SMT DEF After

\* The key at Index is one of the keys.
LEMMA PolledIsKey ==
    ASSUME DeviceTypeOK, Index > 0
    PROVE  KeyList[Index] \in Keys
<1>1. Index \in 1 .. Len(KeyList)
  BY DeviceAssumption, SMT DEF DeviceTypeOK
<1>2. DOMAIN KeyList = 1 .. Len(KeyList)
  BY DeviceAssumption, SMT
<1> QED BY <1>1, <1>2 DEF Keys

\* The branches of LibKeyUpdateKeyStatus that report nothing keep the types
\* and the invariant of every key.
LEMMA SilentBranch ==
    ASSUME NEW k \in Keys, NEW pressed \in BOOLEAN, NEW t,
           KeyTypes, Delta \in Nat, t = After(Time[k], Delta),
           \A j \in Keys : KeyInv(j),
           \/ StaysReleased(k, pressed, t) \/ Press(k, pressed, t)
           \/ ComboHold(k, pressed, t) \/ StaysPressed(k, pressed, t)
           \/ SilentRelease(k, pressed, t) \/ Debounce(k, pressed, t)
           \/ TapSettles(k, pressed, t)
    PROVE  KeyTypes' /\ (\A j \in Keys : KeyInv(j)') /\ pushed' = None
<1>1. t \in 0 .. LongpressTime
  BY AfterRange DEF KeyTypes
<1>2. After(quiet[k], Delta) \in 0 .. LongpressTime
  BY AfterRange DEF KeyTypes
<1>3. 0 \in 0 .. LongpressTime
  BY DeviceAssumption, SMT
<1>4. CASE StaysReleased(k, pressed, t)
  BY <1>1, <1>3, <1>4, SMT DEF KeyTypes, KeyInv, StaysReleased, SetContext, Forget
<1>5. CASE Press(k, pressed, t)
  BY <1>3, <1>5, SMT DEF KeyTypes, KeyInv, Press, SetContext, Forget
<1>6. CASE ComboHold(k, pressed, t)
  BY <1>1, <1>2, <1>6, SMT
     DEF KeyTypes, KeyInv, ComboHold, SetContext, NoPush, LongpressDue
<1>7. CASE StaysPressed(k, pressed, t)
  BY <1>1, <1>2, <1>7, SMT
     DEF KeyTypes, KeyInv, StaysPressed, SetContext, NoPush
<1>8. CASE SilentRelease(k, pressed, t)
  BY <1>3, <1>8, SMT DEF KeyTypes, KeyInv, SilentRelease, SetContext, Forget
<1>9. CASE Debounce(k, pressed, t)
  BY <1>1, <1>2, <1>9, SMT DEF KeyTypes, KeyInv, Debounce, SetContext, NoPush
<1>10. CASE TapSettles(k, pressed, t)
  BY <1>3, <1>10, SMT DEF KeyTypes, KeyInv, TapSettles, SetContext, Forget
<1> QED BY <1>4, <1>5, <1>6, <1>7, <1>8, <1>9, <1>10

\* So do the branches that report a key, and they report only a key that has
\* not been reported in this press or that was reported long enough ago.
LEMMA ReportBranch ==
    ASSUME NEW k \in Keys, NEW pressed \in BOOLEAN, NEW t,
           KeyTypes, Delta \in Nat, t = After(Time[k], Delta),
           \A j \in Keys : KeyInv(j),
           \/ KeyRepeat(k, pressed, t) \/ DialLongpress(k, pressed, t)
           \/ FirstRepeat(k, pressed, t) \/ ReportTap(k, pressed, t)
    PROVE  /\ KeyTypes' /\ \A j \in Keys : KeyInv(j)'
           /\ reports[k] > 0 => pressed /\ After(quiet[k], Delta) >= RepeatTime
<1>1. t \in 0 .. LongpressTime
  BY AfterRange DEF KeyTypes
<1>3. 0 \in 0 .. LongpressTime
  BY DeviceAssumption, SMT
<1>4. CASE KeyRepeat(k, pressed, t)
  BY <1>1, <1>3, <1>4, SMT
     DEF KeyTypes, KeyInv, KeyRepeat, SetContext, Push, RepeatDue
<1>5. CASE DialLongpress(k, pressed, t)
  BY <1>1, <1>3, <1>5, SMT
     DEF KeyTypes, KeyInv, DialLongpress, SetContext, Push, LongpressDue
<1>6. CASE FirstRepeat(k, pressed, t)
  BY <1>1, <1>3, <1>6, SMT
     DEF KeyTypes, KeyInv, FirstRepeat, SetContext, Push, LongpressDue
<1>7. CASE ReportTap(k, pressed, t)
  BY <1>1, <1>3, <1>7, SMT DEF KeyTypes, KeyInv, ReportTap, SetContext, Push
<1> QED BY <1>4, <1>5, <1>6, <1>7

-----------------------------------------------------------------------------
(* One round of the loop of GetKeys.                                       *)

\* The bits of the keys with a ScanCode follow what the GPIOs said.
LEMMA BitsFollow ==
    ASSUME NEW k \in Keys, NEW pressed \in BOOLEAN,
           sample \subseteq Keys, scanBits = sample \intersect ScanKeys,
           charBit \in BOOLEAN, KeySetState(k, pressed),
           sample' = IF pressed THEN sample \union {k} ELSE sample \ {k}
    PROVE  /\ sample' \subseteq Keys
           /\ scanBits' = sample' \intersect ScanKeys
           /\ charBit' \in BOOLEAN
BY SMT DEF KeySetState

\* Whatever a branch reports is a key or the character of a combo, and the
\* latter is the one that ComboKey chose.
LEMMA ReportIsKey ==
    ASSUME NEW k \in Keys, NEW pressed \in BOOLEAN, NEW t,
           \/ KeyRepeat(k, pressed, t) \/ DialLongpress(k, pressed, t)
           \/ FirstRepeat(k, pressed, t) \/ ReportTap(k, pressed, t)
    PROVE  \/ pushed' \in Keys
           \/ pushed' = ComboKey
<1>1. pushed' = k \/ pushed' = ComboKey
  BY Zenon DEF KeyRepeat, DialLongpress, FirstRepeat, ReportTap, Push
<1> QED BY <1>1

\* What EnableKeypadLedWithTimer leaves is lit and has a timer.
LEMMA LedStep ==
    ASSUME DeviceTypeOK, LedNotStuck, EnableKeypadLedWithTimer \/ UNCHANGED ledVars
    PROVE  /\ LedNotStuck'
           /\ led' \in BOOLEAN /\ timerRunning' \in BOOLEAN
           /\ current' \in BOOLEAN /\ orphans' \in Nat /\ expired' \in Nat
<1>1. CASE EnableKeypadLedWithTimer
  BY <1>1, SMT DEF DeviceTypeOK, LedNotStuck, EnableKeypadLedWithTimer
<1>2. CASE UNCHANGED ledVars
  BY <1>2, SMT DEF DeviceTypeOK, LedNotStuck, ledVars
<1> QED BY <1>1, <1>2

\* A round of the loop keeps the invariant, and what it reports is due.
LEMMA PollStep ==
    ASSUME DeviceInv, NEW pressed \in BOOLEAN, PollKey(pressed)
    PROVE  /\ DeviceInv'
           /\ pushed' # None /\ reports[Polled] > 0
              => pressed /\ After(quiet[Polled], Delta) >= RepeatTime
           /\ pushed' \in Keys \/ pushed' = ComboKey \/ pushed' = None
<1> DEFINE k == KeyList[Index]
           t == After(Time[k], Delta)
<1>1. k \in Keys
  BY PolledIsKey DEF DeviceInv, PollKey
<1>2. KeyTypes /\ Delta \in Nat /\ \A j \in Keys : KeyInv(j)
  BY DeviceAssumption, SMT DEF DeviceInv, DeviceTypeOK, KeyTypes
<1>3. /\ KeySetState(k, pressed)
      /\ \/ StaysReleased(k, pressed, t) \/ Press(k, pressed, t)
         \/ ComboHold(k, pressed, t) \/ StaysPressed(k, pressed, t)
         \/ SilentRelease(k, pressed, t) \/ Debounce(k, pressed, t)
         \/ TapSettles(k, pressed, t)
         \/ KeyRepeat(k, pressed, t) \/ DialLongpress(k, pressed, t)
         \/ FirstRepeat(k, pressed, t) \/ ReportTap(k, pressed, t)
  BY Zenon DEF PollKey, LibKeyUpdateKeyStatus
<1> DEFINE silent == \/ StaysReleased(k, pressed, t) \/ Press(k, pressed, t)
                     \/ ComboHold(k, pressed, t) \/ StaysPressed(k, pressed, t)
                     \/ SilentRelease(k, pressed, t) \/ Debounce(k, pressed, t)
                     \/ TapSettles(k, pressed, t)
           report == \/ KeyRepeat(k, pressed, t) \/ DialLongpress(k, pressed, t)
                     \/ FirstRepeat(k, pressed, t) \/ ReportTap(k, pressed, t)
<1>4. silent \/ report
  BY <1>3
<1>5. silent => KeyTypes' /\ (\A j \in Keys : KeyInv(j)') /\ pushed' = None
  BY <1>1, <1>2, SilentBranch
<1>6. report => /\ KeyTypes' /\ \A j \in Keys : KeyInv(j)'
                /\ reports[k] > 0
                   => pressed /\ After(quiet[k], Delta) >= RepeatTime
                /\ pushed' \in Keys \/ pushed' = ComboKey
  BY <1>1, <1>2, ReportBranch, ReportIsKey
<1> HIDE DEF silent, report, t
<1>7. /\ KeyTypes' /\ \A j \in Keys : KeyInv(j)'
      /\ pushed' \in Keys \/ pushed' = ComboKey \/ pushed' = None
      /\ pushed' # None /\ reports[k] > 0
         => pressed /\ After(quiet[k], Delta) >= RepeatTime
  BY <1>4, <1>5, <1>6
<1>8. /\ sample' \subseteq Keys
      /\ scanBits' = sample' \intersect ScanKeys
      /\ charBit' \in BOOLEAN
  <2>1. /\ sample \subseteq Keys /\ charBit \in BOOLEAN
        /\ scanBits = sample \intersect ScanKeys
    BY DEF DeviceInv, DeviceTypeOK
  <2>2. sample' = IF pressed THEN sample \union {k} ELSE sample \ {k}
    BY Zenon DEF PollKey
  <2> HIDE DEF k
  <2> QED BY <1>1, <1>3, <2>1, <2>2, BitsFollow
<1>9. /\ LedNotStuck'
      /\ led' \in BOOLEAN /\ timerRunning' \in BOOLEAN
      /\ current' \in BOOLEAN /\ orphans' \in Nat /\ expired' \in Nat
  <2>1. EnableKeypadLedWithTimer \/ UNCHANGED ledVars
    BY Zenon DEF PollKey
  <2> QED BY <2>1, LedStep DEF DeviceInv
<1>10. Index' \in 0 .. Len(KeyList) /\ Delta' \in Deltas \union {0}
  <2>1. /\ Index \in 0 .. Len(KeyList) /\ Delta \in Deltas \union {0}
        /\ Index > 0
    BY DEF DeviceInv, DeviceTypeOK, PollKey
  <2>2. \/ Index = Len(KeyList) /\ Index' = 0 /\ Delta' = 0
        \/ Index # Len(KeyList) /\ Index' = Index + 1 /\ Delta' = Delta
    BY Zenon DEF PollKey
  <2>3. Len(KeyList) \in Nat
    BY DeviceAssumption, SMT
  <2> QED BY <2>1, <2>2, <2>3, SMT
<1>11. pushed' \in Keys \union {Combos[i] : i \in 1 .. 3} \union {None}
  <2>1. ComboKey \in {Combos[i] : i \in 1 .. 3}
    BY SMT DEF ComboKey
  <2> QED BY <1>7, <2>1
<1>12. DeviceTypeOK'
  <2>1. scanBits' \subseteq ScanKeys
    BY <1>8
  <2> HIDE DEF k
  <2> QED BY <1>7, <1>8, <1>9, <1>10, <1>11, <2>1 DEF DeviceTypeOK, KeyTypes
<1>13. DeviceInv'
  BY <1>7, <1>8, <1>9, <1>12 DEF DeviceInv
<1> QED BY <1>7, <1>13 DEF Polled

-----------------------------------------------------------------------------
(* The whole device.                                                       *)

\* The device starts with every key released and the LED off.
LEMMA InitDevice == DeviceInit => DeviceInv
<1> SUFFICES ASSUME DeviceInit PROVE DeviceInv
  OBVIOUS
<1>1. DeviceTypeOK
  <2>1. 0 \in 0 .. Len(KeyList) /\ 0 \in 0 .. LongpressTime /\ 0 \in 0 .. 2
    BY DeviceAssumption, SMT
  <2>2. /\ State \in [Keys -> {"RELEASED", "PRESSED", "LONGPRESS_RELEASE"}]
        /\ Time \in [Keys -> 0 .. LongpressTime]
        /\ Repeat \in [Keys -> BOOLEAN] /\ Longpress \in [Keys -> BOOLEAN]
        /\ reports \in [Keys -> 0 .. 2]
        /\ quiet \in [Keys -> 0 .. LongpressTime]
    BY <2>1, SMT DEF DeviceInit
  <2>3. /\ scanBits \subseteq ScanKeys /\ charBit \in BOOLEAN
        /\ led \in BOOLEAN /\ timerRunning \in BOOLEAN /\ current \in BOOLEAN
        /\ orphans \in Nat /\ expired \in Nat
        /\ sample \subseteq Keys /\ heard \subseteq Keys
        /\ pushed \in Keys \union {Combos[i] : i \in 1 .. 3} \union {None}
    BY Zenon, SMT DEF DeviceInit
  <2>4. Index \in 0 .. Len(KeyList) /\ Delta \in Deltas \union {0}
    BY <2>1 DEF DeviceInit
  <2> QED BY <2>2, <2>3, <2>4 DEF DeviceTypeOK
<1>2. \A k \in Keys : KeyInv(k)
  BY SMT DEF DeviceInit, KeyInv
<1>3. scanBits = sample \intersect ScanKeys /\ LedNotStuck
  BY SMT DEF DeviceInit, LedNotStuck
<1> QED BY <1>1, <1>2, <1>3 DEF DeviceInv

\* Every step of the device keeps the invariant.
LEMMA NextDevice == DeviceInv /\ [DeviceNext]_deviceVars => DeviceInv'
<1> SUFFICES ASSUME DeviceInv, [DeviceNext]_deviceVars PROVE DeviceInv'
  OBVIOUS
<1> USE DEF DeviceInv
<1>1. CASE BeginPoll
  <2>1. 1 \in 0 .. Len(KeyList)
    <3>1. Dial \in Keys /\ Len(KeyList) \in Nat
      BY DeviceAssumption, SMT
    <3>2. PICK i \in DOMAIN KeyList : Dial = KeyList[i]
      BY <3>1, Zenon DEF Keys
    <3>3. i \in 1 .. Len(KeyList)
      BY <3>2, DeviceAssumption, SMT
    <3> QED BY <3>1, <3>3, SMT
  <2>2. DeviceTypeOK'
    BY <1>1, <2>1, SMT DEF BeginPoll, DeviceTypeOK, contexts, bits, ledVars
  <2>3. (\A k \in Keys : KeyInv(k)') /\ LedNotStuck'
    BY <1>1, SMT DEF BeginPoll, KeyInv, LedNotStuck, contexts, ledVars
  <2> QED BY <1>1, <2>2, <2>3 DEF BeginPoll, bits
<1>2. CASE \E pressed \in BOOLEAN : PollKey(pressed)
  BY <1>2, PollStep
<1>3. CASE KeypadDeviceImplReset
  <2>1. DeviceTypeOK'
    BY <1>3, DeviceAssumption, SMT
       DEF KeypadDeviceImplReset, DeviceTypeOK, bits, ledVars
  <2>2. (\A k \in Keys : KeyInv(k)') /\ LedNotStuck'
    BY <1>3, SMT DEF KeypadDeviceImplReset, KeyInv, LedNotStuck, ledVars, DeviceTypeOK
  <2> QED BY <1>3, <2>1, <2>2 DEF KeypadDeviceImplReset, bits
<1>4. CASE TimerExpires
  <2>1. DeviceTypeOK'
    <3>1. orphans' \in Nat /\ expired' \in Nat /\ current' \in BOOLEAN
      <4>1. orphans \in Nat /\ expired \in Nat /\ current \in BOOLEAN
        BY DEF DeviceTypeOK
      <4>2. \/ orphans' = orphans - 1 /\ orphans > 0
            \/ orphans' = orphans
        BY <1>4, Zenon DEF TimerExpires
      <4>3. expired' = expired + 1 /\ (current' = current \/ current' = FALSE)
        BY <1>4, Zenon DEF TimerExpires
      <4>4. orphans' \in Nat /\ expired' \in Nat
        BY <4>1, <4>2, <4>3, SMT
      <4>5. current' \in BOOLEAN
        BY <4>1, <4>3, Zenon
      <4> QED BY <4>4, <4>5
    <3>2. pushed' \in Keys \union {Combos[i] : i \in 1 .. 3} \union {None}
      BY <1>4 DEF TimerExpires
    <3> QED BY <1>4, <3>1, <3>2 DEF TimerExpires, DeviceTypeOK, contexts, bits
  <2>2. (\A k \in Keys : KeyInv(k)') /\ LedNotStuck'
    BY <1>4, SMT DEF TimerExpires, KeyInv, LedNotStuck, contexts, DeviceTypeOK
  <2> QED BY <1>4, <2>1, <2>2 DEF TimerExpires, bits
<1>5. CASE DisableKeyPadLed
  <2>1. DeviceTypeOK'
    <3>1. expired' \in Nat
      BY <1>5, SMT DEF DisableKeyPadLed, DeviceTypeOK
    <3>2. pushed' \in Keys \union {Combos[i] : i \in 1 .. 3} \union {None}
      BY <1>5 DEF DisableKeyPadLed
    <3> QED BY <1>5, <3>1, <3>2 DEF DisableKeyPadLed, DeviceTypeOK, contexts, bits
  <2>2. (\A k \in Keys : KeyInv(k)') /\ LedNotStuck'
    BY <1>5, SMT DEF DisableKeyPadLed, KeyInv, LedNotStuck, contexts, DeviceTypeOK
  <2> QED BY <1>5, <2>1, <2>2 DEF DisableKeyPadLed, bits
<1>6. CASE UNCHANGED deviceVars
  <2>1. DeviceTypeOK'
    BY <1>6 DEF deviceVars, contexts, bits, ledVars, history, DeviceTypeOK
  <2>2. (\A k \in Keys : KeyInv(k)') /\ LedNotStuck'
    BY <1>6 DEF deviceVars, contexts, bits, ledVars, history, KeyInv, LedNotStuck
  <2> QED BY <1>6, <2>1, <2>2 DEF deviceVars, bits, history
<1> QED BY <1>1, <1>2, <1>3, <1>4, <1>5, <1>6 DEF DeviceNext

\* The invariant of the device, for every list of keys.
THEOREM DeviceInvariant == DeviceSpec => []DeviceInv
BY InitDevice, NextDevice, PTL DEF DeviceSpec

\* The contexts of the keys are consistent between any two polls.
THEOREM ContextsConsistent == DeviceSpec => []ContextsOK
<1>1. DeviceInv => ContextsOK
  BY DEF DeviceInv, ContextsOK, KeyInv
<1> QED BY <1>1, DeviceInvariant, PTL

\* A short press is reported once, at its release.
THEOREM TapsReportedOnce == DeviceSpec => []TapReportedOnce
<1>1. DeviceInv => TapReportedOnce
  BY DEF DeviceInv, TapReportedOnce, KeyInv
<1> QED BY <1>1, DeviceInvariant, PTL

\* Holding the dial key reports one character.
THEOREM DialOnce == DeviceSpec => []DialReportsOnce
<1>1. DeviceInv => DialReportsOnce
  BY DeviceAssumption DEF DeviceInv, DialReportsOnce, KeyInv
<1> QED BY <1>1, DeviceInvariant, PTL

\* A lit LED always has a timer or a callback that will switch it off.
THEOREM LedGoesOff == DeviceSpec => []LedNotStuck
<1>1. DeviceInv => LedNotStuck
  BY DEF DeviceInv
<1> QED BY <1>1, DeviceInvariant, PTL

-----------------------------------------------------------------------------
(* What a step may report.                                                 *)

\* Only a round of the loop reports.
LEMMA ReporterPolls ==
    ASSUME DeviceNext, Reports
    PROVE  \E pressed \in BOOLEAN : PollKey(pressed)
BY SMT DEF DeviceNext, Reports, BeginPoll, KeypadDeviceImplReset, TimerExpires,
           DisableKeyPadLed

\* The reports of a press are RepeatTime apart.
THEOREM ReportsArePaced == DeviceSpec => ReportsPaced
<1>1. DeviceInv /\ [DeviceNext]_deviceVars
      => [Reports /\ reports[Polled] > 0
          => After(quiet[Polled], Delta) >= RepeatTime]_deviceVars
  <2> SUFFICES ASSUME DeviceInv, DeviceNext, Reports, reports[Polled] > 0
               PROVE  After(quiet[Polled], Delta) >= RepeatTime
    OBVIOUS
  <2>1. PICK pressed \in BOOLEAN : PollKey(pressed)
    BY ReporterPolls
  <2> QED BY <2>1, PollStep DEF Reports
<1> QED BY <1>1, DeviceInvariant, PTL DEF DeviceSpec, ReportsPaced

\* A release reports only a press that has not been reported.
THEOREM ReleasesReportFirst == DeviceSpec => ReleaseReportsFirst
<1>1. DeviceInv /\ [DeviceNext]_deviceVars
      => [Reports /\ Polled \notin sample' => reports[Polled] = 0]_deviceVars
  <2> SUFFICES ASSUME DeviceInv, DeviceNext, Reports, Polled \notin sample'
               PROVE  reports[Polled] = 0
    OBVIOUS
  <2>1. PICK pressed \in BOOLEAN : PollKey(pressed)
    BY ReporterPolls
  <2>2. ~pressed
    BY <2>1 DEF PollKey, Polled
  <2>3. reports[Polled] \in 0 .. 2
    BY <2>1, PolledIsKey DEF DeviceInv, DeviceTypeOK, PollKey, Polled
  <2>4. ~(reports[Polled] > 0)
    BY <2>1, <2>2, PollStep DEF Reports
  <2> QED BY <2>3, <2>4, SMT
<1> QED BY <1>1, DeviceInvariant, PTL DEF DeviceSpec, ReleaseReportsFirst

\* A combo of the dial key reports the character for the volume keys as they
\* were sampled last.
THEOREM CombosMatch == DeviceSpec => ComboMatchesVolume
<1>1. DeviceInv /\ [DeviceNext]_deviceVars
      => [/\ pushed' = Combos[1] => VolumeDown \in sample'
          /\ pushed' = Combos[2] => sample' \intersect {VolumeUp, VolumeDown}
                                      = {VolumeUp}
          /\ pushed' = Combos[3] => sample' \intersect {VolumeUp, VolumeDown}
                                      = {}]_deviceVars
  <2> SUFFICES ASSUME DeviceInv, DeviceNext, NEW i \in 1 .. 3, pushed' = Combos[i]
               PROVE  /\ i = 1 => VolumeDown \in sample'
                      /\ i = 2 => sample' \intersect {VolumeUp, VolumeDown}
                                    = {VolumeUp}
                      /\ i = 3 => sample' \intersect {VolumeUp, VolumeDown} = {}
    BY SMT
  <2>1. pushed' # None /\ pushed' \notin Keys
    BY ComboAssumption
  <2>2. PICK pressed \in BOOLEAN : PollKey(pressed)
    BY <2>1, SMT DEF DeviceNext, BeginPoll, KeypadDeviceImplReset, TimerExpires,
                     DisableKeyPadLed
  <2>3. pushed' = ComboKey /\ scanBits' = sample' \intersect ScanKeys
    BY <2>1, <2>2, PollStep DEF DeviceInv
  <2>4. /\ VolumeDown \in scanBits' <=> VolumeDown \in sample'
        /\ VolumeUp \in scanBits' <=> VolumeUp \in sample'
    BY <2>3, DeviceAssumption
  <2>5. /\ i = 1 => VolumeDown \in sample'
        /\ i = 2 => VolumeDown \notin sample' /\ VolumeUp \in sample'
        /\ i = 3 => VolumeDown \notin sample' /\ VolumeUp \notin sample'
    <3>1. pushed' = IF VolumeDown \in scanBits' THEN Combos[1]
                    ELSE IF VolumeUp \in scanBits' THEN Combos[2] ELSE Combos[3]
      BY <2>3 DEF ComboKey
    <3>2. i = 1 \/ i = 2 \/ i = 3
      BY SMT
    <3> QED BY <2>4, <3>1, <3>2, ComboAssumption
  <2> QED BY <2>5
<1> QED BY <1>1, DeviceInvariant, PTL DEF DeviceSpec, ComboMatchesVolume
=============================================================================
