---------------------------- MODULE KeypadConsole ----------------------------
(***************************************************************************)
(* The text-input half of KeypadDxe, from the moment DriverStart returned: *)
(* the two key rings, the list of key notifications and every operation of *)
(* SIMPLE_TEXT_INPUT(_EX) on them.                                         *)
(*                                                                         *)
(* Task priority levels decide what can interleave.  The body of every     *)
(* operation runs at TPL_NOTIFY, where nothing else of this driver runs;   *)
(* cs names the operation inside that critical section.  The keypad device *)
(* is called from there and calls back, once per key, so an operation that *)
(* polls the device is a sequence of steps under one cs.                   *)
(* KeyNotifyProcessHandler runs at TPL_CALLBACK and takes the critical     *)
(* section for its pops only: its walk of NotifyList is interrupted by     *)
(* whatever the notification functions it calls do.  The timer event is at *)
(* TPL_CALLBACK too, so it fires only while that handler is not running.   *)
(*                                                                         *)
(* KeypadErr is left out: nothing in the driver sets it.                   *)
(***************************************************************************)
EXTENDS Naturals, Sequences, KeyQueue

CONSTANTS Codes,        \* what a key can be: (ScanCode, UnicodeChar) pairs
          NullCode,     \* the pair (SCAN_NULL, CHAR_NULL) of a partial key
          Shifts,       \* the shift/toggle states, 0 for "no state"
          Handles,      \* the addresses AllocateZeroPool can return
          Fns,          \* the clients' notification functions
          NoLink,       \* the list head, where a walk of NotifyList ends
          MaxKeys       \* bound: how many keys the device delivers

ASSUME KeypadAssumption ==
    /\ NullCode \in Codes
    /\ 0 \in Shifts
    /\ NoLink \notin Handles
    /\ MaxKeys \in Nat

VARIABLES EfiKeyQueue,           \* keys for the readers
          EfiKeyQueueForNotify,  \* keys for the notification functions
          NotifyList,            \* the registrations, in order
          IsSupportPartialKey,
          signaled,   \* KeyNotifyProcessEvent is pending
          cs,         \* the operation that holds TPL_NOTIFY
          pushing,    \* the key the device is handing over, or NoKey
          pushLink,   \* where the walk of NotifyList for that key stands
          pc,         \* where KeyNotifyProcessHandler stands
          KeyData,    \* the key that the handler is delivering
          Link,       \* the list entry the handler's walk stands on
          CurrentNotify,  \* the registration whose function it calls
          strayed,    \* history: in this walk a function unregistered the very
                      \* entry from which it was called
          ready,      \* WaitForKey was signalled and no key was taken since
          produced,   \* history: how many keys went into EfiKeyQueue
          returned,   \* history: the last key a reader got
          lastCall    \* history: the last key each registration was called for

queues == <<EfiKeyQueue, EfiKeyQueueForNotify>>
push == <<pushing, pushLink, produced>>
walk == <<KeyData, Link, CurrentNotify, strayed, lastCall>>
handler == <<pc, walk>>
client == <<IsSupportPartialKey, ready, returned>>
vars == <<queues, NotifyList, signaled, cs, push, handler, client>>

\* EFI_KEY_DATA.  KeyShiftState and KeyToggleState are compared in the same
\* way, so State stands for the two.
KeyDatas == [Key : Codes, State : Shifts]

\* The keypad device reports no shift or toggle state with its keys.
DeviceKeys == [Key : Codes, State : {0}]

\* A queued key carries its number, so that properties can tell equal keys
\* apart; the code has no such field.
QueuedKeys == [data : KeyDatas, seq : Nat]
NoKey == [data |-> [Key |-> NullCode, State |-> 0], seq |-> 0]

Notifies == [Handle : Handles, KeyData : KeyDatas, KeyNotificationFn : Fns]

IsPartial(k) == k.data.Key = NullCode

IsKeyRegistered(RegisteredData, InputData) ==
    /\ RegisteredData.Key = InputData.Key
    /\ RegisteredData.State \in {0, InputData.State}

LiveHandles == {NotifyList[i].Handle : i \in DOMAIN NotifyList}

\* GetFirstNode and GetNextNode, with NoLink for the list head.
GetFirstNode == IF NotifyList = << >> THEN NoLink ELSE NotifyList[1].Handle
IndexOf(h) == CHOOSE i \in DOMAIN NotifyList : NotifyList[i].Handle = h
GetNextNode(h) ==
    IF IndexOf(h) = Len(NotifyList)
    THEN NoLink
    ELSE NotifyList[IndexOf(h) + 1].Handle

Init ==
    /\ EfiKeyQueue = NewQueue(NoKey)
    /\ EfiKeyQueueForNotify = NewQueue(NoKey)
    /\ NotifyList = << >>
    /\ IsSupportPartialKey = FALSE
    /\ signaled = FALSE
    /\ cs = "none"
    /\ pushing = NoKey /\ pushLink = 1
    /\ pc = "idle" /\ KeyData = NoKey
    /\ Link = NoLink /\ CurrentNotify = NoLink /\ strayed = FALSE
    /\ ready = FALSE
    /\ produced = 0
    /\ returned = [key |-> NoKey, plain |-> FALSE]
    /\ lastCall = [h \in Handles |-> 0]

-----------------------------------------------------------------------------
(* Entering and leaving the critical section.  Code that runs below        *)
(* TPL_CALLBACK, or inside a notification function, can call the driver.   *)

ClientMayCall == cs = "none" /\ pc \in {"idle", "fn"}

\* KeypadTimerHandler, dispatched by the timer event.
KeypadTimerHandler ==
    /\ cs = "none" /\ pc = "idle"
    /\ cs' = "timer"
    /\ UNCHANGED <<queues, NotifyList, signaled, push, handler, client>>

\* A client calls ReadKeyStroke, ReadKeyStrokeEx or (through CheckEvent)
\* KeypadWaitForKey: each starts by polling the device.
EnterPoll(op) ==
    /\ ClientMayCall
    /\ cs' = op
    /\ UNCHANGED <<queues, NotifyList, signaled, push, handler, client>>

Polling == cs \in {"timer", "read", "readEx", "wait"} /\ pushing = NoKey

\* GetKeys returned: the timer handler has nothing else to do.
TimerReturn ==
    /\ Polling /\ cs = "timer"
    /\ cs' = "none"
    /\ UNCHANGED <<queues, NotifyList, signaled, push, handler, client>>

-----------------------------------------------------------------------------
(* KeypadReturnApiPushEfikeyBufTail: the device hands over one key.  A     *)
(* partial key is refused unless a client asked for partial keys.          *)

PushBegin ==
    /\ Polling
    /\ produced < MaxKeys
    /\ \E k \in DeviceKeys :
         /\ k.Key = NullCode => IsSupportPartialKey
         /\ pushing' = [data |-> k, seq |-> produced + 1]
    /\ UNCHANGED <<queues, NotifyList, signaled, cs, pushLink, produced,
                   handler, client>>

\* Mutant: the event is not signalled.
QueueSilently ==
    /\ EfiKeyQueueForNotify' = PushEfikeyBufTail(EfiKeyQueueForNotify, pushing)
    /\ UNCHANGED signaled

QueueForNotify ==
    /\ EfiKeyQueueForNotify' = PushEfikeyBufTail(EfiKeyQueueForNotify, pushing)
    /\ signaled' = TRUE

\* One turn of its loop over NotifyList: the key is queued, and the event
\* signalled, once for every registration that it matches.
PushNotify ==
    /\ pushing # NoKey /\ pushLink <= Len(NotifyList)
    /\ IF IsKeyRegistered(NotifyList[pushLink].KeyData, pushing.data)
       THEN QueueForNotify
       ELSE UNCHANGED <<EfiKeyQueueForNotify, signaled>>
    /\ pushLink' = pushLink + 1
    /\ UNCHANGED <<EfiKeyQueue, NotifyList, cs, pushing, produced, handler,
                   client>>

\* Its last statement: the key goes to the readers.
PushEnd ==
    /\ pushing # NoKey /\ pushLink > Len(NotifyList)
    /\ EfiKeyQueue' = PushEfikeyBufTail(EfiKeyQueue, pushing)
    /\ pushing' = NoKey
    /\ pushLink' = 1
    /\ produced' = produced + 1
    /\ UNCHANGED <<EfiKeyQueueForNotify, NotifyList, signaled, cs, handler,
                   client>>

-----------------------------------------------------------------------------
(* The readers.                                                            *)

\* Whether a reader goes on without a key: ReadKeyStroke drops a partial key
\* and calls the worker again, ReadKeyStrokeEx returns any key.
\* Mutant: ReadKeyStroke returns partial keys too.
ReaderDropsNothing(q) == IsEfikeyBufEmpty(q)
ReaderGetsNoKey(q) ==
    IsEfikeyBufEmpty(q) \/ (cs = "read" /\ IsPartial(HeadKey(q)))

\* KeypadReadKeyStrokeWorker after its poll, and the use of its result.
KeypadReadKeyStrokeWorker ==
    /\ Polling /\ cs \in {"read", "readEx"}
    /\ EfiKeyQueue' = PopEfikeyBufHead(EfiKeyQueue)
    /\ returned' = IF ReaderGetsNoKey(EfiKeyQueue)
                   THEN returned
                   ELSE [key |-> HeadKey(EfiKeyQueue), plain |-> cs = "read"]
    /\ ready' = FALSE
    /\ cs' = "none"
    /\ UNCHANGED <<EfiKeyQueueForNotify, NotifyList, IsSupportPartialKey,
                   signaled, push, handler>>

\* KeypadWaitForKey after its poll.  First its loop: partial keys at the head
\* of the ring are dropped, one at a turn.
WaitSkipPartial ==
    /\ (Polling /\ cs = "wait") \/ cs = "waitSkip"
    /\ ~IsEfikeyBufEmpty(EfiKeyQueue)
    /\ IsPartial(HeadKey(EfiKeyQueue))
    /\ EfiKeyQueue' = PopEfikeyBufHead(EfiKeyQueue)
    /\ cs' = "waitSkip"
    /\ ready' = FALSE
    /\ UNCHANGED <<EfiKeyQueueForNotify, NotifyList, IsSupportPartialKey,
                   signaled, push, handler, returned>>

\* Then the event is signalled if a key is left.
WaitEnd ==
    /\ (Polling /\ cs = "wait") \/ cs = "waitSkip"
    /\ ~IsEfikeyBufEmpty(EfiKeyQueue) => ~IsPartial(HeadKey(EfiKeyQueue))
    /\ ready' = ~IsEfikeyBufEmpty(EfiKeyQueue)
    /\ cs' = "none"
    /\ UNCHANGED <<queues, NotifyList, IsSupportPartialKey, signaled, push,
                   handler, returned>>

-----------------------------------------------------------------------------
(* The operations that do not poll: each is one critical section.          *)

\* KeypadEfiReset and InitKeypad.
KeypadEfiReset ==
    /\ ClientMayCall
    /\ EfiKeyQueue' = ClearQueue(EfiKeyQueue)
    /\ EfiKeyQueueForNotify' = ClearQueue(EfiKeyQueueForNotify)
    /\ IsSupportPartialKey' = FALSE
    /\ ready' = FALSE
    /\ UNCHANGED <<NotifyList, signaled, cs, push, handler, returned>>

\* KeypadSetState with EFI_TOGGLE_STATE_VALID set; without it nothing changes.
KeypadSetState(exposed) ==
    /\ ClientMayCall
    /\ IsSupportPartialKey' = exposed
    /\ UNCHANGED <<queues, NotifyList, signaled, cs, push, handler, ready,
                   returned>>

\* KeypadRegisterKeyNotify: a registration that an existing one covers gets
\* that one's handle and changes nothing; with no free memory it fails.
KeypadRegisterKeyNotify(k, fn) ==
    /\ ClientMayCall
    /\ \A i \in DOMAIN NotifyList :
         ~(/\ IsKeyRegistered(NotifyList[i].KeyData, k)
           /\ NotifyList[i].KeyNotificationFn = fn)
    /\ \E h \in Handles \ LiveHandles :
         NotifyList' = Append(NotifyList, [Handle |-> h, KeyData |-> k,
                                           KeyNotificationFn |-> fn])
    /\ UNCHANGED <<queues, signaled, cs, push, handler, client>>

\* KeypadUnregisterKeyNotify: the entry leaves the list and is freed, be it
\* the one whose function the handler is calling.
KeypadUnregisterKeyNotify(h) ==
    /\ ClientMayCall
    /\ h \in LiveHandles
    /\ NotifyList' = [i \in 1 .. (Len(NotifyList) - 1) |->
                        IF i < IndexOf(h)
                        THEN NotifyList[i]
                        ELSE NotifyList[i + 1]]
    /\ lastCall' = [lastCall EXCEPT ![h] = 0]
    /\ strayed' = (strayed \/ (pc = "fn" /\ h = CurrentNotify))
    /\ UNCHANGED <<queues, signaled, cs, push, pc, KeyData, Link,
                   CurrentNotify, client>>

-----------------------------------------------------------------------------
(* KeyNotifyProcessHandler.                                                *)

\* The event is dispatched.
HandlerDispatch ==
    /\ cs = "none" /\ pc = "idle" /\ signaled
    /\ signaled' = FALSE
    /\ pc' = "pop"
    /\ UNCHANGED <<queues, NotifyList, cs, push, walk, client>>

\* One turn of its outer loop: it takes a key, or returns if there is none.
HandlerPop ==
    /\ pc = "pop"
    /\ EfiKeyQueueForNotify' = PopEfikeyBufHead(EfiKeyQueueForNotify)
    /\ IF IsEfikeyBufEmpty(EfiKeyQueueForNotify)
       THEN pc' = "idle" /\ KeyData' = NoKey /\ UNCHANGED Link
       ELSE /\ pc' = "walk"
            /\ KeyData' = HeadKey(EfiKeyQueueForNotify)
            /\ Link' = GetFirstNode
    /\ UNCHANGED <<EfiKeyQueue, NotifyList, signaled, cs, push, CurrentNotify,
                   strayed, lastCall, client>>

\* One turn of its inner loop: the registration at Link does not match, and
\* the walk goes on; or it matches, and its function is called.
HandlerSkip ==
    /\ pc = "walk" /\ Link \in LiveHandles
    /\ ~IsKeyRegistered(NotifyList[IndexOf(Link)].KeyData, KeyData.data)
    /\ Link' = GetNextNode(Link)
    /\ UNCHANGED <<queues, NotifyList, signaled, cs, push, pc, KeyData,
                   CurrentNotify, strayed, lastCall, client>>

\* Mutant: the link to the next entry is read before the function is called.
HandlerCallNextCached ==
    /\ pc = "walk" /\ Link \in LiveHandles
    /\ IsKeyRegistered(NotifyList[IndexOf(Link)].KeyData, KeyData.data)
    /\ pc' = "fn"
    /\ CurrentNotify' = Link
    /\ Link' = IF GetNextNode(Link) = NoLink THEN Link ELSE GetNextNode(Link)
    /\ lastCall' = [lastCall EXCEPT ![Link] = KeyData.seq]
    /\ UNCHANGED <<queues, NotifyList, signaled, cs, push, KeyData, strayed,
                   client>>

HandlerCall ==
    /\ pc = "walk" /\ Link \in LiveHandles
    /\ IsKeyRegistered(NotifyList[IndexOf(Link)].KeyData, KeyData.data)
    /\ pc' = "fn"
    /\ CurrentNotify' = Link
    /\ lastCall' = [lastCall EXCEPT ![Link] = KeyData.seq]
    /\ UNCHANGED <<queues, NotifyList, signaled, cs, push, KeyData, Link,
                   strayed, client>>

\* The walk reads the link of the entry on which it stands.  Of an entry that is
\* freed it reads what the pool holds there: the list head, the address of an
\* entry in or no longer in the list, or an address of nothing, and the system
\* is lost.
FollowsLink ==
    \/ Link \in LiveHandles /\ pc' = "walk" /\ Link' = GetNextNode(Link)
    \/ /\ Link \notin LiveHandles
       /\ pc' = "walk" /\ Link' \in Handles \union {NoLink}
    \/ Link \notin LiveHandles /\ pc' = "lost" /\ UNCHANGED Link

\* The function returns, and the walk reads the link of its entry only now.
HandlerFnReturn ==
    /\ pc = "fn" /\ cs = "none"
    /\ FollowsLink
    /\ CurrentNotify' = NoLink
    /\ UNCHANGED <<queues, NotifyList, signaled, cs, push, KeyData, strayed,
                   lastCall, client>>

\* One turn of the inner loop on a freed entry: what the pool holds there
\* matches the key and is called, or not.
HandlerOnFreed ==
    /\ pc = "walk" /\ Link \notin LiveHandles \union {NoLink}
    /\ \/ FollowsLink /\ UNCHANGED CurrentNotify
       \/ pc' = "fn" /\ CurrentNotify' = Link /\ UNCHANGED Link
    /\ UNCHANGED <<queues, NotifyList, signaled, cs, push, KeyData, strayed,
                   lastCall, client>>

\* Mutant: the handler returns after one key.
HandlerReturnsEarly ==
    /\ pc = "walk" /\ Link = NoLink
    /\ pc' = "idle"
    /\ UNCHANGED <<queues, NotifyList, signaled, cs, push, walk, client>>

HandlerWalkEnd ==
    /\ pc = "walk" /\ Link = NoLink
    /\ pc' = "pop"
    /\ strayed' = FALSE
    /\ UNCHANGED <<queues, NotifyList, signaled, cs, push, KeyData, Link,
                   CurrentNotify, lastCall, client>>

-----------------------------------------------------------------------------
Register == \E k \in KeyDatas, fn \in Fns : KeypadRegisterKeyNotify(k, fn)
Unregister == \E h \in Handles : KeypadUnregisterKeyNotify(h)
SetState == \E exposed \in BOOLEAN : KeypadSetState(exposed)
CallPoll == \E op \in {"read", "readEx", "wait"} : EnterPoll(op)

\* The steps inside a critical section.
Critical ==
    \/ TimerReturn \/ PushBegin \/ PushNotify \/ PushEnd
    \/ KeypadReadKeyStrokeWorker \/ WaitSkipPartial \/ WaitEnd

Handler ==
    \/ HandlerPop \/ HandlerSkip \/ HandlerCall \/ HandlerOnFreed
    \/ HandlerWalkEnd

Next ==
    \/ KeypadTimerHandler \/ CallPoll \/ Critical
    \/ KeypadEfiReset \/ SetState \/ Register \/ Unregister
    \/ HandlerDispatch \/ Handler \/ HandlerFnReturn

Spec == Init /\ [][Next]_vars

\* Code that has started runs on: a critical section ends and so does the
\* handler.  RestoreTPL dispatches a pending event as soon as the level allows
\* it, and a notification function returns after finitely many calls, which
\* is fairness of a step that other calls can disable again and again.
Fairness ==
    /\ WF_vars(Critical) /\ WF_vars(Handler)
    /\ SF_vars(HandlerDispatch) /\ SF_vars(HandlerFnReturn)

FairSpec == Spec /\ Fairness

-----------------------------------------------------------------------------
(* Properties.                                                             *)

\* The types of the driver's fields.
TypeOK ==
    /\ EfiKeyQueue \in KeyQueues(QueuedKeys)
    /\ EfiKeyQueueForNotify \in KeyQueues(QueuedKeys)
    /\ NotifyList \in Seq(Notifies)
    /\ IsSupportPartialKey \in BOOLEAN
    /\ signaled \in BOOLEAN
    /\ cs \in {"none", "timer", "read", "readEx", "wait", "waitSkip"}
    /\ pushing \in QueuedKeys
    /\ pushLink \in Nat \ {0}
    /\ pc \in {"idle", "pop", "walk", "fn", "lost"}
    /\ KeyData \in QueuedKeys
    /\ Link \in Handles \union {NoLink}
    /\ CurrentNotify \in Handles \union {NoLink}
    /\ strayed \in BOOLEAN
    /\ ready \in BOOLEAN
    /\ produced \in Nat
    /\ returned \in [key : QueuedKeys, plain : BOOLEAN]
    /\ lastCall \in [Handles -> Nat]

\* The readers' ring always holds the most recent keys without a gap and in
\* the order in which the device delivered them: whatever mix of polls, reads,
\* waits and resets ran, PushEfikeyBufTail lost old keys only.
KeysAreLatest ==
    \A i \in 0 .. (KeyCount(EfiKeyQueue) - 1) :
        EfiKeyQueue.Buffer[CellOf(EfiKeyQueue, i)].seq
            = produced - KeyCount(EfiKeyQueue) + i + 1

HasWholeKey(q) ==
    \E i \in 0 .. (KeyCount(q) - 1) : ~IsPartial(q.Buffer[CellOf(q, i)])
IsFull(q) == KeyCount(q) = KEYPAD_EFI_KEY_MAX_COUNT - 1

\* Once KeypadWaitForKey has signalled its event, a whole key, which any reader
\* gets, stays pending until a reader asks, the console is reset or a later
\* KeypadWaitForKey looks at the ring again.  Keys that arrive in between make
\* the event a lie in one way only: a client has exposed partial keys, and so
\* many of them came that they fill the ring and have pushed the whole key out.
SignalledKeyStays == ready => HasWholeKey(EfiKeyQueue) \/ IsFull(EfiKeyQueue)

\* No lost wakeup: as long as a key waits for the notification functions,
\* KeyNotifyProcessEvent is pending or its handler is still in its loop.
NotifyPending ==
    ~IsEfikeyBufEmpty(EfiKeyQueueForNotify) => (signaled \/ pc # "idle")

\* The list entry on which KeyNotifyProcessHandler stands, outside any
\* critical section, is never one that was unregistered and freed meanwhile,
\* whatever the functions that it calls register and unregister, with one
\* exception: a function of this walk has unregistered its own entry.
WalkOnLiveEntry ==
    pc \in {"walk", "fn"} /\ ~strayed => Link \in LiveHandles \union {NoLink}

\* KeypadReadKeyStroke never returns a partial key, even if partial keys were
\* queued while they were exposed and are read after exposure was withdrawn.
PlainReaderGetsWholeKeys == returned.plain => ~IsPartial(returned.key)

\* Readers get the keys in the order of their delivery and none of them twice.
ReadsInOrder == [][returned' # returned =>
                     returned'.key.seq > returned.key.seq]_vars

\* A registration is called for the keys in the order of their delivery.
NotifiedInOrder ==
    [][\A h \in Handles : lastCall'[h] # 0 => lastCall'[h] >= lastCall[h]]_vars

\* The inductive invariant: the invariants above, and what they rest on.  The
\* key being handed over has the next number; readers were given older keys
\* than those that are pending; while a notification function runs, the walk
\* stands on its registration.
PushingIsNext == pushing # NoKey => pushing.seq = produced + 1

ReturnedIsOlder == returned.key.seq <= produced - KeyCount(EfiKeyQueue)

CallingLinkedEntry == pc = "fn" => Link = CurrentNotify /\ Link # NoLink

ConsoleInv ==
    /\ TypeOK
    /\ KeysAreLatest /\ PushingIsNext /\ ReturnedIsOlder
    /\ SignalledKeyStays /\ NotifyPending /\ PlainReaderGetsWholeKeys
    /\ CallingLinkedEntry /\ WalkOnLiveEntry

\* The readers' ring, with its polls, overflows, reads, waits and resets,
\* implements the bounded queue that forgets its oldest key.
ReaderFifo == INSTANCE KeyFifo WITH
    Elem <- [data : KeyDatas, seq : 0 .. MaxKeys],
    Skippable <- {k \in [data : KeyDatas, seq : 0 .. MaxKeys] : IsPartial(k)},
    Capacity <- KEYPAD_EFI_KEY_MAX_COUNT - 1,
    pending <- PendingKeys(EfiKeyQueue),
    arrived <- produced,
    got <- returned.key

ReaderQueueIsFifo == ReaderFifo!Spec

\* Every key queued for notification is taken from the queue eventually: the
\* handler goes on until its queue is empty, and is started for what remains.
\* Functions that unregister and register each other for ever would keep its
\* walk of NotifyList from ending, so the promise is for lists that settle; and
\* a walk that has strayed to freed entries may never come back.
NotifyDrained ==
    <>[][NotifyList' = NotifyList]_vars /\ []<>~strayed =>
        (~IsEfikeyBufEmpty(EfiKeyQueueForNotify)
            ~> IsEfikeyBufEmpty(EfiKeyQueueForNotify))
=============================================================================
