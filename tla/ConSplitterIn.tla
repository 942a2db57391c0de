---------------------------- MODULE ConSplitterIn ----------------------------
(***************************************************************************)
(* The text-input half of ConSplitterDxe: the virtual console that merges  *)
(* the physical ones.  It keeps the consoles in two lists, and for each    *)
(* key notification a third one, parallel to TextInExList, with the handle *)
(* that each console gave.  Its operations are calls of one application    *)
(* and do not interleave with each other; but each call of a console ends  *)
(* with RestoreTPL, where ToggleStateSyncKeyNotify may be dispatched.  It  *)
(* touches the toggle states only, so only the loops that set those are    *)
(* sequences of steps.                                                     *)
(*                                                                         *)
(* A physical console is an external part: a queue of keys, a set of       *)
(* registrations and a toggle state; it may refuse to register, to set a   *)
(* state and to reset.  The key state that accompanies a key and the lazy  *)
(* connection of ConIn are left out, since nothing here depends on them.   *)
(***************************************************************************)
EXTENDS Naturals, SequencesExt

CONSTANTS Consoles,
          KeyDatas,     \* keys to register for: Key, and State (0 for any)
          Fns,          \* the clients' notification functions
          SyncKey, SyncFn,   \* the registration for toggle state sync
          NULL,
          Exposed,      \* KEY_STATE_VALID_EXPOSED
          Toggles,      \* toggle states with that bit pattern set
          Off,          \* a state in which partial keys are not reported
          Unit,         \* CONSOLE_SPLITTER_ALLOC_UNIT
          MaxKeys,      \* bound: keys pressed
          AnyOrder      \* whether consoles come and go in any order; else the
                        \* last to come goes first, and stops when it goes

ASSUME SplitterAssumption ==
    /\ Unit \in Nat \ {0} /\ MaxKeys \in Nat /\ AnyOrder \in BOOLEAN
    /\ SyncFn \notin Fns /\ NULL \notin Consoles
    /\ Exposed \in Toggles /\ Off \notin Toggles

VARIABLES TextInList, TextInListCount,
          TextInExList, TextInExListCount,
          KeyQueue,       \* the saved keys; its length is CurrentNumberOfKeys
          KeyQueueCount,  \* how many keys its buffer has room for
          NotifyList,     \* KeyData, KeyNotificationFn, NotifyHandleList
          KeyEventSignalState,
          PhysicalKeyToggleState, VirtualKeyStateExported,
          opened,     \* the consoles that the driver holds open
          leaving,    \* the console that stops next, or NULL
          running, keys, regs, toggle,   \* the physical consoles
          made,       \* the number of the last key
          setting,    \* the loop that sets toggle states
          pending,    \* history: the whole keys that are still to be read
          refused,    \* history: a console refused a state or a reset, and
                      \* no state has been set on all of them since
          raced,      \* history: the last SetState was overtaken by a key
          deserted,   \* history: a console left since WaitForKey was signalled
          call, result   \* history: the last step, and the key it returned

lists == <<TextInList, TextInListCount, TextInExList, TextInExListCount,
           KeyQueueCount, opened, leaving>>
states == <<PhysicalKeyToggleState, VirtualKeyStateExported, toggle, setting,
            refused, raced>>
physical == <<running, made>>
signal == <<KeyEventSignalState, deserted>>
queues == <<KeyQueue, keys, pending>>
notifies == <<NotifyList, regs>>
vars == <<lists, states, physical, signal, queues, notifies, call, result>>

Key == [from : Consoles, seq : 1 .. MaxKeys, partial : BOOLEAN]
NoKey == [from |-> NULL, seq |-> 0, partial |-> FALSE]

\* A handle names its console: what one console gave means nothing to another.
Handles == [console : Consoles, slot : Nat \ {0}]

Whole(q) == {q[i].seq : i \in {j \in DOMAIN q : ~q[j].partial}}
FirstWhole(q) == SelectInSeq(q, LAMBDA k : ~k.partial)
From(q, n) == SubSeq(q, n, Len(q))
NumberOfExConsoles == Len(TextInExList)
Idle == setting.op = "none"

\* The application may call: no loop is under way, no console has to stop.
Ready == Idle /\ leaving = NULL

Returns(name) == call' = name /\ result' = NoKey

NewHandleList(count) == [i \in 1 .. count |-> NULL]

\* ConSplitterGrowBuffer for a list of handles.
Grown(handles) ==
    [i \in 1 .. (TextInExListCount + Unit) |->
        IF i <= TextInExListCount THEN handles[i] ELSE NULL]

Init ==
    /\ TextInList = << >> /\ TextInListCount = Unit
    /\ TextInExList = << >> /\ TextInExListCount = Unit
    /\ KeyQueue = << >> /\ KeyQueueCount = Unit
    /\ NotifyList = <<[KeyData |-> SyncKey, KeyNotificationFn |-> SyncFn,
                       NotifyHandleList |-> NewHandleList(Unit)]>>
    /\ KeyEventSignalState = FALSE
    /\ PhysicalKeyToggleState = Exposed /\ VirtualKeyStateExported = FALSE
    /\ opened = {} /\ leaving = NULL
    /\ running = {}
    /\ keys = [d \in Consoles |-> << >>]
    /\ regs = [d \in Consoles |-> {}]
    /\ toggle = [d \in Consoles |-> Off]
    /\ made = 0
    /\ setting = [op |-> "none"]
    /\ pending = [d \in Consoles |-> {}]
    /\ refused = FALSE /\ raced = FALSE /\ deserted = FALSE
    /\ call = "none" /\ result = NoKey

-----------------------------------------------------------------------------
(* The physical consoles.                                                  *)

ConsoleStarts(d) ==
    /\ Ready /\ d \notin running
    /\ running' = running \union {d}
    /\ Returns("console")
    /\ UNCHANGED <<lists, states, made, signal, queues, notifies>>

\* A console stops only when the driver does not hold it open.
ConsoleStops(d) ==
    /\ Idle /\ leaving \in {d, NULL}
    /\ d \in running \ opened
    /\ running' = running \ {d}
    /\ leaving' = NULL
    /\ regs' = [regs EXCEPT ![d] = {}]
    /\ keys' = [keys EXCEPT ![d] = << >>]
    /\ pending' = [pending EXCEPT ![d] = @ \intersect Whole(KeyQueue)]
    /\ toggle' = [toggle EXCEPT ![d] = Off]
    /\ Returns("console")
    /\ UNCHANGED <<TextInList, TextInListCount, TextInExList,
                   TextInExListCount, KeyQueueCount, opened, made,
                   PhysicalKeyToggleState, VirtualKeyStateExported, setting,
                   refused, raced, signal, KeyQueue, NotifyList>>

\* A key is pressed.  Partial keys are reported unless the state is Off.
KeyPressed(d) ==
    /\ leaving = NULL
    /\ d \in running /\ made < MaxKeys
    /\ made' = made + 1
    /\ \E partial \in IF toggle[d] = Off THEN {FALSE} ELSE BOOLEAN :
         /\ keys' = [keys EXCEPT ![d] =
                       Append(@, [from |-> d, seq |-> made', partial |-> partial])]
         /\ pending' = IF partial THEN pending
                       ELSE [pending EXCEPT ![d] = @ \union {made'}]
    /\ Returns("console")
    /\ UNCHANGED <<lists, states, running, signal, KeyQueue, notifies>>

\* What CheckEvent on the WaitForKey event of a console leaves in its queue:
\* partial keys before the first whole one are dropped.
Checked(q) == IF FirstWhole(q) = 0 THEN << >> ELSE From(q, FirstWhole(q))

IsKeyRegistered(RegisteredData, InputData) ==
    /\ RegisteredData.Key = InputData.Key
    /\ RegisteredData.State \in {0, InputData.State}

\* RegisterKeyNotify of console d with registrations r: the registrations
\* after it and the handle.  An existing registration gives its handle again.
Register(d, r, notify) ==
    LET same == {e \in r : /\ IsKeyRegistered(e.key, notify.KeyData)
                           /\ e.fn = notify.KeyNotificationFn}
        slots == {e.handle.slot : e \in r}
        handle == [console |-> d,
                   slot |-> CHOOSE n \in 1 .. (Cardinality(r) + 1) : n \notin slots]
    IN  IF same # {}
        THEN [regs |-> r, handle |-> (CHOOSE e \in same : TRUE).handle]
        ELSE [regs |-> r \union {[handle |-> handle, key |-> notify.KeyData,
                                  fn |-> notify.KeyNotificationFn]},
              handle |-> handle]

\* UnregisterKeyNotify of a console: an unknown handle changes nothing.
Unregister(r, handle) == {e \in r : e.handle # handle}

-----------------------------------------------------------------------------
(* Consoles come and go.                                                   *)

\* ConSplitterConInDriverBindingStart up to the text input list, for a console
\* that is not held yet: ConSplitterStart opens it, and does not close it
\* again when a later step fails.
Opens(d) ==
    /\ Ready /\ d \in running \ opened
    /\ opened' = opened \union {d}

\* ConSplitterTextInAddDevice.
TextInAddDevice(d) ==
    /\ TextInList' = Append(TextInList, d)
    /\ TextInListCount' = IF Len(TextInList) >= TextInListCount
                          THEN TextInListCount + Unit ELSE TextInListCount

\* There is no memory for a longer text input list.
StartWithoutTextIn(d) ==
    /\ Opens(d)
    /\ Len(TextInList) >= TextInListCount
    /\ Returns("start")
    /\ UNCHANGED <<TextInList, TextInListCount, TextInExList,
                   TextInExListCount, KeyQueueCount, leaving, states, physical,
                   signal, queues, notifies>>

MustGrow == NumberOfExConsoles >= TextInExListCount

\* The notifications after the handle lists of the first n have grown.
GrownUpTo(n) ==
    [i \in DOMAIN NotifyList |->
        IF i <= n THEN [NotifyList[i] EXCEPT !.NotifyHandleList = Grown(@)]
                  ELSE NotifyList[i]]

\* Mutant: the list of consoles grows first.
StartGrowsListFirst(d) ==
    /\ Opens(d) /\ MustGrow
    /\ TextInAddDevice(d)
    /\ TextInExListCount' = TextInExListCount + Unit
    /\ \E n \in 0 .. Len(NotifyList) : NotifyList' = GrownUpTo(n)
    /\ keys' = [keys EXCEPT ![d] = Checked(@)]
    /\ Returns("start")
    /\ UNCHANGED <<TextInExList, KeyQueueCount, leaving, states, physical,
                   signal, KeyQueue, pending, regs>>

\* ConSplitterTextInExAddDevice runs out of memory: n handle lists have grown,
\* the key queue only after all of them, and the list of consoles not.
StartWithoutMemory(d) ==
    /\ Opens(d) /\ MustGrow
    /\ TextInAddDevice(d)
    /\ \E n \in 0 .. Len(NotifyList) :
         /\ NotifyList' = GrownUpTo(n)
         /\ \/ UNCHANGED KeyQueueCount
            \/ /\ n = Len(NotifyList)
               /\ KeyQueueCount' = TextInExListCount + Unit
    /\ keys' = [keys EXCEPT ![d] = Checked(@)]
    /\ Returns("start")
    /\ UNCHANGED <<TextInExList, TextInExListCount, leaving, states, physical,
                   signal, KeyQueue, pending, regs>>

\* Console d after the first n notifications are registered with it.
RegisteredUpTo(d, n) ==
    LET after[i \in 0 .. n] ==
            IF i = 0 THEN [regs |-> regs[d], handles |-> << >>]
            ELSE LET r == Register(d, after[i - 1].regs, NotifyList[i])
                 IN  [regs |-> r.regs,
                      handles |-> Append(after[i - 1].handles, r.handle)]
    IN  after[n]

\* The lists have room, if need be after they grew.
LongEnough(list) == IF MustGrow THEN GrownUpTo(Len(list)) ELSE list

GrowsIfNeeded ==
    /\ TextInExListCount' = IF MustGrow THEN TextInExListCount + Unit
                            ELSE TextInExListCount
    /\ KeyQueueCount' = IF MustGrow THEN TextInExListCount + Unit
                        ELSE KeyQueueCount

\* Mutant: the handles go to the place before.
WithHandlesBefore(list, handles) ==
    [i \in DOMAIN list |->
        IF i \in DOMAIN handles
        THEN [list[i] EXCEPT !.NotifyHandleList[IF NumberOfExConsoles = 0
                                                     THEN 1 ELSE NumberOfExConsoles]
                                 = handles[i]]
        ELSE list[i]]

\* The handles of the new console go to the place after those in use.
WithHandles(list, handles) ==
    [i \in DOMAIN list |->
        IF i \in DOMAIN handles
        THEN [list[i] EXCEPT !.NotifyHandleList[NumberOfExConsoles + 1]
                                 = handles[i]]
        ELSE list[i]]

\* The console refuses a notification: those before it are unregistered.
StartRefused(d) ==
    /\ Opens(d)
    /\ TextInAddDevice(d) /\ GrowsIfNeeded
    /\ \E n \in 0 .. (Len(NotifyList) - 1) :
         LET done == RegisteredUpTo(d, n)
         IN  /\ NotifyList' = WithHandles(LongEnough(NotifyList), done.handles)
             /\ regs' = [regs EXCEPT ![d] =
                   {e \in done.regs : e.handle \notin ToSet(done.handles)}]
    /\ keys' = [keys EXCEPT ![d] = Checked(@)]
    /\ Returns("start")
    /\ UNCHANGED <<TextInExList, leaving, states, physical, signal, KeyQueue,
                   pending>>

\* The console is added: it gets the notifications and the toggle state, which
\* it may refuse.
StartDone(d) ==
    /\ Opens(d)
    /\ TextInAddDevice(d) /\ GrowsIfNeeded
    /\ TextInExList' = Append(TextInExList, d)
    /\ LET all == RegisteredUpTo(d, Len(NotifyList))
       IN  /\ NotifyList' = WithHandles(LongEnough(NotifyList), all.handles)
           /\ regs' = [regs EXCEPT ![d] = all.regs]
    /\ \/ /\ toggle' = [toggle EXCEPT ![d] = PhysicalKeyToggleState]
          /\ UNCHANGED refused
       \/ /\ refused' = TRUE
          /\ UNCHANGED toggle
    /\ keys' = [keys EXCEPT ![d] = Checked(@)]
    /\ Returns("start")
    /\ UNCHANGED <<leaving, PhysicalKeyToggleState, VirtualKeyStateExported,
                   setting, raced, physical, signal, KeyQueue, pending>>

\* ConSplitterTextInExDeleteDevice and its like: the later ones move up.
Deleted(list, d) == RemoveFirst(list, d)

\* ConSplitterConInDriverBindingStop.  For a console that is not in the Ex
\* list it returns EFI_NOT_FOUND before anything is closed or removed.
ConInDriverBindingStop(d) ==
    /\ Ready /\ d \in opened /\ d \in ToSet(TextInExList)
    /\ AnyOrder \/ d = Last(TextInExList)
    /\ TextInExList' = Deleted(TextInExList, d)
    /\ opened' = opened \ {d}
    /\ TextInList' = Deleted(TextInList, d)
    /\ leaving' = IF AnyOrder THEN NULL ELSE d
    /\ deserted' = KeyEventSignalState
    /\ Returns("leave")
    /\ UNCHANGED <<TextInListCount, TextInExListCount, KeyQueueCount, states,
                   physical, KeyEventSignalState, queues, notifies>>

-----------------------------------------------------------------------------
(* Keys.                                                                   *)

\* Mutant: the signal is not cleared.
ReadsKeepingSignal(k) ==
    /\ pending' = IF k = NoKey THEN pending
                  ELSE [pending EXCEPT ![k.from] = @ \ {k.seq}]
    /\ UNCHANGED signal
    /\ call' = "read" /\ result' = k
    /\ UNCHANGED <<lists, states, physical, notifies>>

\* A read that returns k leaves the whole keys that are not k to be read.
Reads(k) ==
    /\ pending' = IF k = NoKey THEN pending
                  ELSE [pending EXCEPT ![k.from] = @ \ {k.seq}]
    /\ KeyEventSignalState' = FALSE /\ deserted' = FALSE
    /\ call' = "read" /\ result' = k
    /\ UNCHANGED <<lists, states, physical, notifies>>

\* ConSplitterTextInPrivateReadKeyStroke: the first whole key that was saved;
\* partial ones before it are dropped.
ReadSavedKeyStroke ==
    LET n == FirstWhole(KeyQueue)
    IN  /\ Ready /\ n # 0
        /\ KeyQueue' = From(KeyQueue, n + 1)
        /\ Reads(KeyQueue[n])
        /\ UNCHANGED keys

\* Mutant: saved keys are not looked at.
ReadKeyStrokeOfConsoles ==
    LET n == SelectInSeq(TextInList, LAMBDA d : FirstWhole(keys[d]) # 0)
    IN  /\ Ready /\ n # 0
        /\ LET d == TextInList[n]
               i == FirstWhole(keys[d])
           IN  /\ keys' = [keys EXCEPT ![d] = From(@, i + 1)]
               /\ Reads(keys[d][i])
        /\ UNCHANGED KeyQueue

\* Else the first whole key of the first console that has one.  It and those
\* before it lose their partial keys.
ReadKeyStroke ==
    LET n == SelectInSeq(TextInList, LAMBDA d : FirstWhole(keys[d]) # 0)
        passed == {TextInList[i] : i \in {j \in DOMAIN TextInList :
                                             n = 0 \/ j < n}}
        last == IF n = 0 THEN NULL ELSE TextInList[n]
    IN  /\ Ready /\ FirstWhole(KeyQueue) = 0
        /\ KeyQueue' = << >>
        /\ keys' = [d \in Consoles |->
                      IF d \in passed THEN << >>
                      ELSE IF d = last
                           THEN From(keys[d], FirstWhole(keys[d]) + 1)
                           ELSE keys[d]]
        /\ Reads(IF n = 0 THEN NoKey ELSE keys[last][FirstWhole(keys[last])])

\* ConSplitterTextInReadKeyStrokeEx returns a saved key,
ReadSavedKeyStrokeEx ==
    /\ Ready /\ KeyQueue # << >>
    /\ KeyQueue' = Tail(KeyQueue)
    /\ Reads(Head(KeyQueue))
    /\ UNCHANGED keys

\* Mutant: the keys of the other consoles are not saved.
ReadFirstConsoleEx ==
    LET read == SelectSeq(TextInExList, LAMBDA d : keys[d] # << >>)
    IN  /\ Ready /\ KeyQueue = << >>
        /\ read # << >>
        /\ keys' = [d \in Consoles |-> IF d \in ToSet(read) THEN Tail(keys[d])
                                       ELSE keys[d]]
        /\ Reads(Head(keys[read[1]]))
        /\ UNCHANGED KeyQueue

\* Mutant: consoles without a key add a zeroed one.
ReadNoKeysEx ==
    LET saved == [i \in DOMAIN TextInExList |->
                    IF keys[TextInExList[i]] # << >>
                    THEN Head(keys[TextInExList[i]])
                    ELSE [from |-> TextInExList[i], seq |-> 0, partial |-> TRUE]]
    IN  /\ Ready /\ KeyQueue = << >> /\ saved # << >>
        /\ keys' = [d \in Consoles |->
                      IF d \in ToSet(TextInExList) /\ keys[d] # << >>
                      THEN Tail(keys[d]) ELSE keys[d]]
        /\ KeyQueue' = Tail(saved)
        /\ Reads(Head(saved))

\* What the loop over the consoles has saved after n of them: one key of each,
\* unless it is a partial key and those are not reported.
SavedUpTo(n) ==
    LET saved[i \in 0 .. n] ==
            IF i = 0 THEN << >>
            ELSE LET q == keys[TextInExList[i]]
                 IN  IF /\ q # << >>
                        /\ VirtualKeyStateExported \/ ~Head(q).partial
                     THEN Append(saved[i - 1], Head(q))
                     ELSE saved[i - 1]
    IN  saved[n]

\* or reads one key of each console, saves those that it reports, and returns
\* the first of them.
ReadKeyStrokeEx ==
    LET saved == SavedUpTo(NumberOfExConsoles)
    IN  /\ Ready /\ KeyQueue = << >>
        /\ keys' = [d \in Consoles |->
                      IF d \in ToSet(TextInExList) /\ keys[d] # << >>
                      THEN Tail(keys[d]) ELSE keys[d]]
        /\ IF saved = << >>
           THEN KeyQueue' = << >> /\ Reads(NoKey)
           ELSE KeyQueue' = Tail(saved) /\ Reads(Head(saved))

\* ConSplitterTextInWaitForKey, when a client checks the event.
WaitForKey ==
    /\ Ready
    /\ IF KeyEventSignalState THEN UNCHANGED <<keys, signal>>
       ELSE /\ keys' = [d \in Consoles |-> IF d \in ToSet(TextInList)
                                           THEN Checked(keys[d]) ELSE keys[d]]
            /\ KeyEventSignalState' =
                 \E d \in ToSet(TextInList) : FirstWhole(keys[d]) # 0
            /\ UNCHANGED deserted
    /\ Returns("wait")
    /\ UNCHANGED <<lists, states, physical, KeyQueue, pending, notifies>>

-----------------------------------------------------------------------------
(* Notifications.                                                          *)

IsRegistered(k, fn) ==
    \E i \in DOMAIN NotifyList :
        /\ IsKeyRegistered(NotifyList[i].KeyData, k)
        /\ NotifyList[i].KeyNotificationFn = fn

NewNotify(k, fn) == [KeyData |-> k, KeyNotificationFn |-> fn,
                     NotifyHandleList |-> NewHandleList(TextInExListCount)]

\* ConSplitterTextInRegisterKeyNotify, for a key and function that are not
\* registered yet (else it returns the handle they have).
RegisterKeyNotify(k, fn) ==
    LET new == NewNotify(k, fn)
        at(d) == Register(d, regs[d], new)
    IN  /\ Ready /\ ~IsRegistered(k, fn)
        /\ regs' = [d \in Consoles |-> IF d \in ToSet(TextInExList)
                                       THEN at(d).regs ELSE regs[d]]
        /\ NotifyList' = Append(NotifyList,
             [new EXCEPT !.NotifyHandleList =
                [j \in DOMAIN @ |-> IF j <= NumberOfExConsoles
                                    THEN at(TextInExList[j]).handle ELSE @[j]]])
        /\ Returns("register")
        /\ UNCHANGED <<lists, states, physical, signal, queues>>

\* Mutant: the first console is forgotten.
RegisterFailsPartly(k, fn) ==
    /\ Ready /\ ~IsRegistered(k, fn)
    /\ \E n \in 1 .. NumberOfExConsoles :
         regs' = [d \in Consoles |->
                    LET r == Register(d, regs[d], NewNotify(k, fn))
                    IN  IF n > 1 /\ d = TextInExList[1] THEN r.regs ELSE regs[d]]
    /\ Returns("register")
    /\ UNCHANGED <<lists, states, physical, signal, queues, NotifyList>>

\* Console n refuses: the others before it are told to unregister.
RegisterFails(k, fn) ==
    /\ Ready /\ ~IsRegistered(k, fn)
    /\ \E n \in 1 .. NumberOfExConsoles :
         regs' = [d \in Consoles |->
                    LET r == Register(d, regs[d], NewNotify(k, fn))
                    IN  IF d \in ToSet(SubSeq(TextInExList, 1, n - 1))
                        THEN Unregister(r.regs, r.handle) ELSE regs[d]]
    /\ Returns("register")
    /\ UNCHANGED <<lists, states, physical, signal, queues, NotifyList>>

\* ConSplitterTextInUnregisterKeyNotify.  The handles are taken by place.
UnregisterKeyNotify(i) ==
    LET handles == NotifyList[i].NotifyHandleList
    IN  /\ Ready /\ NotifyList[i].KeyNotificationFn # SyncFn
        /\ regs' = [d \in Consoles |->
                      IF d \in ToSet(TextInExList)
                      THEN Unregister(regs[d],
                             handles[SelectInSeq(TextInExList, LAMBDA c : c = d)])
                      ELSE regs[d]]
        /\ NotifyList' = RemoveAt(NotifyList, i)
        /\ Returns("unregister")
        /\ UNCHANGED <<lists, states, physical, signal, queues>>

-----------------------------------------------------------------------------
(* Toggle states, and the resets that end with setting them.               *)

\* ConSplitterTextInReset and ConSplitterTextInResetEx: all consoles of a list
\* are reset.  What ToggleStateSyncKeyNotify could do meanwhile, it could as
\* well have done before.
Reset ==
    /\ Ready
    /\ KeyEventSignalState' = FALSE /\ deserted' = FALSE
    /\ \E list \in {TextInList, TextInExList} : \E failed \in SUBSET ToSet(list) :
         LET done == ToSet(list) \ failed
         IN  /\ keys' = [d \in Consoles |-> IF d \in done THEN << >> ELSE keys[d]]
             /\ pending' = [d \in Consoles |->
                              IF d \in done THEN pending[d] \intersect Whole(KeyQueue)
                              ELSE pending[d]]
             /\ toggle' = [d \in Consoles |-> IF d \in done THEN Off ELSE toggle[d]]
             /\ \/ /\ failed = {}
                   /\ PhysicalKeyToggleState' = Exposed
                   /\ VirtualKeyStateExported' = FALSE
                   /\ setting' = [op |-> "Reset", at |-> 1, ok |-> TRUE]
                   /\ raced' = FALSE
                   /\ UNCHANGED refused
                \/ /\ failed # {}
                   /\ refused' = (refused \/ done # {})
                   /\ UNCHANGED <<PhysicalKeyToggleState, setting, raced,
                                  VirtualKeyStateExported>>
    /\ Returns("reset")
    /\ UNCHANGED <<lists, physical, KeyQueue, notifies>>

InLoop(op) == setting.op = op /\ setting.at <= NumberOfExConsoles
LoopEnds(op) == setting.op = op /\ setting.at > NumberOfExConsoles

LoopStep ==
    /\ Returns("loop")
    /\ UNCHANGED <<lists, physical, signal, notifies>>

\* Mutant: every console gets the state of the start of the loop.
ReInitializeExposed ==
    /\ InLoop("Reset")
    /\ toggle' = [toggle EXCEPT ![TextInExList[setting.at]] = Exposed]
    /\ setting' = [setting EXCEPT !.at = @ + 1]
    /\ LoopStep
    /\ UNCHANGED <<PhysicalKeyToggleState, VirtualKeyStateExported, refused,
                   raced, queues>>

\* One console in ToggleStateSyncReInitialization.  It gets the state as it is
\* now, by address, and if it refuses, nobody asks.
ReInitializeOne ==
    /\ InLoop("Reset")
    /\ \/ /\ toggle' = [toggle EXCEPT ![TextInExList[setting.at]] =
                          PhysicalKeyToggleState]
          /\ setting' = [setting EXCEPT !.at = @ + 1]
       \/ /\ setting' = [op |-> "Reset", at |-> setting.at + 1, ok |-> FALSE]
          /\ UNCHANGED toggle
    /\ LoopStep
    /\ UNCHANGED <<PhysicalKeyToggleState, VirtualKeyStateExported, refused,
                   raced, queues>>

\* After that, the resets empty the key queue.
ResetEnds ==
    /\ LoopEnds("Reset")
    /\ KeyQueue' = << >>
    /\ pending' = [d \in Consoles |-> pending[d] \intersect Whole(keys[d])]
    /\ refused' = ~setting.ok
    /\ setting' = [op |-> "none"]
    /\ LoopStep
    /\ UNCHANGED <<PhysicalKeyToggleState, VirtualKeyStateExported, toggle,
                   raced, keys>>

\* ConSplitterTextInSetState with state t, and with EFI_KEY_STATE_EXPOSED or
\* without; the consoles get it in any case.
SetState(t, exported) ==
    /\ Ready
    /\ setting' = [op |-> "SetState", at |-> 1, to |-> t, exported |-> exported]
    /\ raced' = FALSE
    /\ Returns("set")
    /\ UNCHANGED <<lists, PhysicalKeyToggleState, VirtualKeyStateExported,
                   toggle, refused, physical, signal, queues, notifies>>

\* The first console that refuses ends it, and nothing is recorded.
SetStateOne ==
    /\ InLoop("SetState")
    /\ \/ /\ toggle' = [toggle EXCEPT ![TextInExList[setting.at]] = setting.to]
          /\ setting' = [setting EXCEPT !.at = @ + 1]
          /\ UNCHANGED refused
       \/ /\ setting' = [op |-> "none"]
          /\ refused' = TRUE
          /\ UNCHANGED toggle
    /\ LoopStep
    /\ UNCHANGED <<PhysicalKeyToggleState, VirtualKeyStateExported, raced,
                   queues>>

SetStateEnds ==
    /\ LoopEnds("SetState")
    /\ PhysicalKeyToggleState' = setting.to
    /\ VirtualKeyStateExported' = setting.exported
    /\ refused' = FALSE
    /\ setting' = [op |-> "none"]
    /\ LoopStep
    /\ UNCHANGED <<toggle, raced, queues>>

\* The user changes the toggle state of console d to t, which the console
\* reports as a partial key.  ToggleStateSyncKeyNotify sets it on all consoles
\* unless it is known; a refusal goes unnoticed.
ToggleStateSyncKeyNotify(d, t) ==
    /\ leaving = NULL
    /\ d \in running /\ toggle[d] \notin {Off, t}
    /\ \E e \in regs[d] : e.fn = SyncFn
    /\ IF t = PhysicalKeyToggleState
       THEN /\ toggle' = [toggle EXCEPT ![d] = t]
            /\ raced' = (raced \/ setting.op = "SetState")
            /\ UNCHANGED <<PhysicalKeyToggleState, refused, setting>>
       ELSE \E refusing \in SUBSET (ToSet(TextInExList) \ {d}) :
              /\ toggle' = [c \in Consoles |->
                              IF c = d \/ c \in ToSet(TextInExList) \ refusing
                              THEN t ELSE toggle[c]]
              /\ PhysicalKeyToggleState' = t
              /\ refused' = (refusing # {})
              /\ raced' = (setting.op = "SetState")
              /\ setting' = IF setting.op = "Reset"
                            THEN [setting EXCEPT !.ok = @ /\ refusing = {}]
                            ELSE setting
    /\ Returns("sync")
    /\ UNCHANGED <<lists, VirtualKeyStateExported, physical, signal, queues,
                   notifies>>

-----------------------------------------------------------------------------
Next ==
    \/ \E d \in Consoles :
         \/ ConsoleStarts(d) \/ ConsoleStops(d) \/ KeyPressed(d)
         \/ StartWithoutTextIn(d) \/ StartWithoutMemory(d)
         \/ StartRefused(d) \/ StartDone(d) \/ ConInDriverBindingStop(d)
         \/ \E t \in Toggles : ToggleStateSyncKeyNotify(d, t)
    \/ ReadSavedKeyStroke \/ ReadKeyStroke
    \/ ReadSavedKeyStrokeEx \/ ReadKeyStrokeEx \/ WaitForKey
    \/ \E k \in KeyDatas, fn \in Fns :
         RegisterKeyNotify(k, fn) \/ RegisterFails(k, fn)
    \/ \E i \in DOMAIN NotifyList : UnregisterKeyNotify(i)
    \/ Reset \/ ReInitializeOne \/ ResetEnds
    \/ \E t \in Toggles, exported \in BOOLEAN : SetState(t, exported)
    \/ SetStateOne \/ SetStateEnds

Spec == Init /\ [][Next]_vars

-----------------------------------------------------------------------------
(* Properties.                                                             *)

IsNotify(n) ==
    /\ n.KeyData \in KeyDatas \union {SyncKey}
    /\ n.KeyNotificationFn \in Fns \union {SyncFn}
    /\ n.NotifyHandleList \in Seq(Handles \union {NULL})

\* The lists that are parallel to the list of consoles are as long as it, and
\* the key queue has room for a key of each console, whichever allocation
\* failed when they had to grow.
BuffersFit ==
    /\ Len(TextInList) <= TextInListCount
    /\ Len(TextInExList) <= TextInExListCount
    /\ TextInExListCount <= KeyQueueCount
    /\ Len(KeyQueue) <= KeyQueueCount
    /\ \A i \in DOMAIN NotifyList :
         TextInExListCount <= Len(NotifyList[i].NotifyHandleList)

\* The fields have their types; the lists name consoles that run, and the buffers
\* that are used with one count have room for it.
TypeOK ==
    /\ BuffersFit
    /\ TextInList \in Seq(running) /\ TextInExList \in Seq(running)
    /\ {TextInListCount, TextInExListCount, KeyQueueCount} \subseteq Nat \ {0}
    /\ KeyQueue \in Seq(Key)
    /\ \A i \in DOMAIN NotifyList : IsNotify(NotifyList[i])
    /\ PhysicalKeyToggleState \in Toggles
    /\ {KeyEventSignalState, VirtualKeyStateExported} \subseteq BOOLEAN
    /\ opened \subseteq running /\ leaving \in Consoles \union {NULL}
    /\ \A d \in Consoles : /\ keys[d] \in Seq(Key)
                           /\ toggle[d] \in Toggles \union {Off}
                           /\ \A e \in regs[d] : e.handle \in Handles
    /\ setting.op \in {"none", "Reset", "SetState"}

\* Every notification is registered with every console, under the handle that
\* is kept at the place of the console: also with consoles that came later,
\* and after registrations that failed and were undone.
RegisteredEverywhere ==
    \A i \in DOMAIN NotifyList, j \in DOMAIN TextInExList :
        \E e \in regs[TextInExList[j]] :
            /\ e.handle = NotifyList[i].NotifyHandleList[j]
            /\ IsKeyRegistered(e.key, NotifyList[i].KeyData)
            /\ e.fn = NotifyList[i].KeyNotificationFn

\* No console keeps a registration that the splitter does not have (any more):
\* the function that was unregistered will not be called.
UnregisteredNowhere ==
    \A d \in running : \A e \in regs[d] :
        \E i \in DOMAIN NotifyList :
            /\ NotifyList[i].KeyData = e.key
            /\ NotifyList[i].KeyNotificationFn = e.fn

\* A notification is registered with every console that takes part, and with no
\* other once it is unregistered, whatever was refused in between.
RegisteredWithAll == RegisteredEverywhere /\ UnregisteredNowhere

\* A whole key stays with its console or in the key queue until it is read or
\* the console is reset or stops.
NoKeyLost ==
    \A d \in Consoles :
        pending[d] \subseteq Whole(keys[d])
            \union {KeyQueue[i].seq : i \in {j \in DOMAIN KeyQueue :
                        KeyQueue[j].from = d /\ ~KeyQueue[j].partial}}

\* Whichever way keys are read, those of one console come in the order in
\* which they were pressed, and none comes twice.
KeysInOrder ==
    [][result' # NoKey /\ call' = "read" /\ ~result'.partial =>
         /\ result'.seq \in pending[result'.from]
         /\ \A s \in pending[result'.from] : result'.seq <= s]_vars

\* When WaitForKey was signalled, a read finds a key, unless a console left in
\* between.
SignalledKeyStays ==
    KeyEventSignalState /\ ~deserted =>
        \/ KeyQueue # << >>
        \/ \E d \in ToSet(TextInList) : FirstWhole(keys[d]) # 0

\* The consoles have the toggle state that the splitter believes they have,
\* unless one refused it or a sync overtook SetState.
TogglesAgree ==
    Idle /\ ~refused /\ ~raced =>
        \A d \in ToSet(TextInExList) : toggle[d] = PhysicalKeyToggleState

\* When a key can be read, a client that checks WaitForKey finds it signalled.
WaitSeesKeys ==
    [][call' = "wait" /\ (\E d \in ToSet(TextInExList) : pending[d] # {}) =>
         KeyEventSignalState']_vars
=============================================================================
