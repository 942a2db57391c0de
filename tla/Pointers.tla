------------------------------ MODULE Pointers ------------------------------
(***************************************************************************)
(* The pointer half of ConSplitterDxe: simple pointers (relative movement) *)
(* and absolute pointers, each kind with a list of devices, a flag that    *)
(* input was signalled, and one protocol for all the devices of the list.  *)
(* The code of the two kinds is the same but for GetState.                 *)
(*                                                                         *)
(* External: the devices.  A device gathers movement, or a position, until *)
(* its GetState is called, and its event is signalled while it has some.   *)
(* One axis and one button stand for all of them.                          *)
(***************************************************************************)
EXTENDS Integers, Sequences, SequencesExt, FiniteSets, FiniteSetsExt, Functions

CONSTANTS PointerOf,   \* the devices and the kind of each
          Resolution,  \* of each device: counts per unit, 0 for no such axis; or the
                       \* largest position
          VirtualResolution, \* of the splitter's own protocols
          AllocUnit,   \* CONSOLE_SPLITTER_ALLOC_UNIT
          MaxMove      \* bound on the movement that a device gathers

VARIABLES splitter,    \* per kind: list, its capacity, InputEventSignalState, opened
          device,      \* per device: input to be read, and will it report an error
          journal      \* history: movement neither read nor dropped yet, the position
                       \* that was read last, and the kinds with a device removed
                       \* since they were signalled

pointerVars == <<splitter, device, journal>>

Kinds == {"simple", "absolute"}
Devices == DOMAIN PointerOf
Listed(kind) == ToSet(splitter[kind].list)

\* What the code takes for granted of the constants; Platform assumes it.
PointersAssumption ==
    /\ IsFiniteSet(Devices) /\ PointerOf \in [Devices -> Kinds]
    /\ Resolution \in [Devices -> Nat]
    /\ VirtualResolution \in Nat /\ AllocUnit \in Nat \ {0} /\ MaxMove \in Nat

\* Movement in the splitter's units, rounded towards zero when it is read; none on
\* an axis that the device does not have.
Scaled(move, d) ==
    LET size == ((IF move < 0 THEN -move ELSE move) * VirtualResolution) \div Resolution[d]
    IN  IF Resolution[d] = 0 THEN 0 ELSE IF move < 0 THEN -size ELSE size

\* A position: the device's own minimum is not subtracted.
Rescaled(position, d) ==
    IF Resolution[d] = 0 THEN 0 ELSE (position * VirtualResolution) \div Resolution[d]

HasInput(d) == device[d].changed
\* What a read would bring of each device, and of some together.
Movements == [d \in Devices |-> Scaled(device[d].input, d)]
Waiting(ds) == SumFunctionOnSet(Movements, ds)
Emptied(ds) == [d \in Devices |-> IF d \notin ds THEN device[d]
                                 ELSE [device[d] EXCEPT !.input = 0, !.changed = FALSE]]

-----------------------------------------------------------------------------
(* Devices come and go.                                                    *)

\* ConSplitterSimplePointerAddDevice: a full list grows by a unit, or there is no
\* memory: the device stays open and is not in the list.
AddDevice(kind, d, memory) ==
    LET s == splitter[kind]
        full == Len(s.list) >= s.capacity
        grown == IF full THEN [s EXCEPT !.capacity = @ + AllocUnit] ELSE s
    IN  splitter' = [splitter EXCEPT ![kind] =
            IF full /\ ~memory THEN [s EXCEPT !.opened = @ \union {d}]
            ELSE [grown EXCEPT !.opened = @ \union {d}, !.list = Append(@, d)]]

\* Start opens the device for this driver, which can be done once.
DriverBindingStart(d, memory) ==
    LET kind == PointerOf[d]
    IN  /\ d \notin splitter[kind].opened
        /\ AddDevice(kind, d, memory)
        /\ UNCHANGED <<device, journal>>

\* Mutant: the list keeps a device that goes away, if it is the last.
DeleteAllButLast(list, d) ==
    IF list # << >> /\ Last(list) = d THEN list ELSE RemoveFirst(list, d)

\* ConSplitterSimplePointerDeleteDevice: the others move up.
DeleteDevice(list, d) == RemoveFirst(list, d)

DriverBindingStop(d) ==
    LET kind == PointerOf[d]
    IN  /\ d \in splitter[kind].opened
        /\ splitter' = [splitter EXCEPT ![kind].opened = @ \ {d},
                                        ![kind].list = DeleteDevice(@, d)]
        /\ journal' = [journal EXCEPT !.removed = @ \union {kind}]
        /\ UNCHANGED device

-----------------------------------------------------------------------------
(* The protocols of the virtual device.                                    *)

Reset(kind) ==
    /\ splitter' = [splitter EXCEPT ![kind].signalled = FALSE]
    /\ device' = Emptied(Listed(kind))
    /\ journal' = [journal EXCEPT !.removed = @ \ {kind},
                     !.unread = @ - IF kind = "simple" THEN Waiting(Listed(kind)) ELSE 0]

\* The status: an error of one device is the error of the call, whatever the
\* others have to say.
Answers(kind) == {d \in Listed(kind) : HasInput(d) /\ ~device[d].failing}
StatusOf(kind) ==
    IF \E d \in Listed(kind) : device[d].failing THEN "device_error"
    ELSE IF Answers(kind) # {} THEN "success" ELSE "not_ready"

\* Mutant: the movement of one device replaces that of those before it.
LastMovement == LET ds == SelectSeq(splitter["simple"].list, LAMBDA d : d \in Answers("simple"))
                IN  IF ds = << >> THEN 0 ELSE Scaled(device[Last(ds)].input, Last(ds))

\* Simple pointers: the movements add up.
Movement == Waiting(Answers("simple"))

\* Absolute pointers: the last device with a position says where.
Position ==
    LET ds == SelectSeq(splitter["absolute"].list, LAMBDA d : d \in Answers("absolute"))
    IN  IF ds = << >> THEN 0 ELSE Rescaled(device[Last(ds)].input, Last(ds))

\* Mutant: a read leaves the flag as it is.
KeepsFlag(kind) == splitter

ClearsFlag(kind) == [splitter EXCEPT ![kind].signalled = FALSE]

\* A caller looks at the state if the call succeeds.
GetState(kind) ==
    /\ splitter' = ClearsFlag(kind)
    /\ device' = Emptied(Answers(kind))
    /\ LET read == IF kind = "simple" THEN Movement ELSE 0
       IN  journal' = [journal EXCEPT !.removed = @ \ {kind}, !.unread = @ - read,
             !.position = IF kind = "absolute" /\ StatusOf(kind) = "success" THEN Position ELSE @]

\* WaitForInput: the event of every device is asked unless the flag is set; a
\* device that is asked and has input sets it.
WaitForInput(kind) ==
    /\ ~splitter[kind].signalled
    /\ \E d \in Listed(kind) : HasInput(d)
    /\ splitter' = [splitter EXCEPT ![kind].signalled = TRUE]
    /\ journal' = [journal EXCEPT !.removed = @ \ {kind}]
    /\ UNCHANGED device

-----------------------------------------------------------------------------
(* The devices.                                                            *)

Moves(d) ==
    \E step \in {-1, 1} :
        /\ ~device[d].failing
        /\ device[d].input + step \in IF PointerOf[d] = "simple" THEN -MaxMove .. MaxMove
                                      ELSE 0 .. Resolution[d]
        /\ device' = [device EXCEPT
             ![d] = [device[d] EXCEPT !.input = @ + step, !.changed = TRUE]]
        /\ journal' = IF PointerOf[d] = "simple"
                      THEN [journal EXCEPT !.unread =
                                @ + Scaled(device[d].input + step, d) - Movements[d]]
                      ELSE journal
        /\ UNCHANGED splitter

\* Between failing and not failing nothing is lost.
Fails(d) ==
    /\ device' = [device EXCEPT ![d].failing = ~@]
    /\ UNCHANGED <<splitter, journal>>

Init ==
    /\ splitter = [kind \in Kinds |->
                     [list |-> << >>, capacity |-> 0, signalled |-> FALSE, opened |-> {}]]
    /\ device = [d \in Devices |-> [input |-> 0, changed |-> FALSE, failing |-> FALSE]]
    /\ journal = [unread |-> 0, removed |-> {}, position |-> 0]

Next ==
    \/ \E d \in Devices : \/ \E memory \in BOOLEAN : DriverBindingStart(d, memory)
                          \/ DriverBindingStop(d) \/ Moves(d) \/ Fails(d)
    \/ \E kind \in Kinds : Reset(kind) \/ GetState(kind) \/ WaitForInput(kind)

Spec == Init /\ [][Next]_pointerVars

-----------------------------------------------------------------------------
(* Properties.                                                             *)

\* What the simple pointers moved was read, is still to be read, or was dropped by
\* a reset or by a call that reported another device's error.
MovementAddsUp ==
    journal.unread =
        Waiting({d \in Devices : PointerOf[d] = "simple"})

\* While the flag is set WaitForInput signals without asking a device: there is
\* input then, unless a device was removed since.
SignalHasInput ==
    \A kind \in Kinds : splitter[kind].signalled /\ kind \notin journal.removed =>
        \E d \in Listed(kind) : HasInput(d)

\* The list holds devices that are open, once each, and fits its buffer.
ListedAreOpen ==
    \A kind \in Kinds :
        LET s == splitter[kind]
        IN  /\ ToSet(s.list) \subseteq s.opened /\ IsInjective(s.list)
            /\ Len(s.list) <= s.capacity
=============================================================================
