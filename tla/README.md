# Verification of HtcLeoPkg

The repository is a UEFI firmware package (EDK2) for a phone of the HTC Leo
family with a QSD8250: boot shim, PrePi, board libraries and about a dozen DXE
drivers.  This directory models the parts of it that keep state and react to
events: TLA+ modules, TLC configurations, and proofs for TLAPS.  All paths
below are relative to `src/HtcLeoPkg/`.

`PROJECT.json` lists components, runs, findings, hazards (each at its source
line) and theorems, and maps every definition that models code to the lines it
stands for.

To check a run: `tlc -config KeypadConsole.cfg MCKeypadConsole.tla`, and so on
for the configurations in the table of runs.  To check the proofs:
`tlapm Keypad_proofs.tla` (and `SdCard_proofs`, `ConSplitterIn_proofs`,
`ConSplitterOut_proofs`, `Pointers_proofs`, `Platform_proofs`,
`GraphicsConsole_proofs`, `SequenceLemmas`).

## 1. Inventory

UEFI has one processor and no threads here.  What is concurrent are events:
a callback at a task priority level (TPL) interrupts everything that runs below
its level, `RaiseTPL` makes a critical section, and `RestoreTPL` runs what
became pending in between.  Interrupts run above all levels but TPL_HIGH.

| Component | State | Operations | Talks to | What is hard, what must hold |
|---|---|---|---|---|
| **KeypadDxe**, text input (`Drivers/KeypadDxe`) | two key rings, list of notifications, partial-key flag, events | ReadKeyStroke(Ex), WaitForKey, Reset, SetState, (Un)RegisterKeyNotify, timer poll, notification handler | keypad device (GetKeys with a callback per key), ConSplitter above | polls from four places into one ring; handler walks a list that the functions it calls change; keys in order, none twice, no lost wakeup, no freed entry |
| **Keypad device** (`Library/KeypadDeviceImplLib`, `Include/Library/KeypadDeviceHelperLib.h`) | per key: state, time, repeat, long press; two bitmaps; LED and its timer | GetKeys, Reset, LED callback | GPIO, timer events, KeypadDxe | taps, long presses, repeats, combos at poll intervals of any length; a report neither missing nor doubled; LED goes off |
| **SdCardDxe** (`GPLDrivers/SdCardDxe`) | controller registers, RCA, capacity flag, media geometry | initialization, search for the MBR, ReadBlocks, WriteBlocks (does nothing) | SD card over a command line, ClockDxe, pcom, block I/O users | two state machines that only see each other through commands and responses that can get lost; published only if readable |
| **ConSplitterDxe**, input | lists of consoles, key queue, notifications with one handle per console, toggle state | add and delete consoles, read, wait, reset, register, set state | KeypadDxe below, applications above | parallel arrays that grow and shrink; rollback when a console fails |
| **ConSplitterDxe**, output | consoles, mode tables, current mode, cursor | add and delete consoles, SetMode, OutputString, Reset | GraphicsConsoleDxe, GOP | intersection of the modes of all consoles |
| **ConSplitterDxe**, pointers | per kind a list of devices, a flag that input was signalled | add and delete devices, Reset, GetState, WaitForInput | pointer devices, applications | one device fails, the others have given their movement; a signal without input |
| **GraphicsConsoleDxe** | mode, cursor, attribute, line buffer | OutputString, SetMode, SetCursorPosition, Reset, ClearScreen | GOP/UGA, HII font | wrapping and scrolling at the edges of every mode |
| **InterruptDxe, TimerDxe, InterruptsLib** | table of handlers, VIC enable bits, match register, period | register, enable, disable, end of interrupt, SetTimerPeriod | VIC and DGT hardware, DXE core | an interrupt in the middle of each operation; nesting once the TPL is lowered |
| **MsmPcomLib/ClientLib, ClockDxe** | shared-memory mailbox; table of clock ids | one call with two words in and out; regulators, SD power, clocks | modem processor | unbounded waits; retries with arguments that the reply overwrote |
| **GPTTimerLib** | none (32-bit counter) | delays, performance counter | all drivers | a delay over the wrap of a counter that is read now and then |
| MsmTargetGpioLib, GpioDxe | GPIO registers | set, get, configure | keypad device, SD card, LED | nothing: its callers cannot interrupt each other in this build (section 7) |
| **SimpleFbDxe, FrameBufferBltLib** | frame buffer | four Blt operations | GraphicsConsole | overlapping copies, the order of the lines |
| **FrameBufferSerialPortLib** | cursor, colour, state of the interrupts | write, critical write | debug output | writes that interrupt writes; the edge of the frame |
| InMemorySerialPortLib | offset in a log ring | write | debug output | wrap at the end |
| PlatformBootManagerLib | boot options (in variables) | connect consoles, register options | EDK2's boot manager | order of calls |
| PrePi, PlatformPeiLib, MemoryInitPeiLib, HtcLeoPkgLib | HOB list | straight-line start-up | DXE core | none after start |
| GenericKeypadDeviceDxe, HtcLeoPkgDxe, HeartbeatDxe, LogoDxe, SmbiosPlatformDxe, DefaultExceptionHandlerLib, reset, clock and vibration libraries, TetrisApp, BootShim | little or none | | | see `components` in PROJECT.json |

Keys travel from the GPIOs through the keypad device to KeypadDxe, from there
to ConSplitterDxe and to the shell or the boot manager.  SdCardDxe feeds the
FAT file system from which everything is started.

Text goes the other way: from applications through the virtual consoles of
ConSplitterDxe to GraphicsConsoleDxe, and from there through the display's Blt
into the frame.

## 2. Modules

| Module | Models | Checked by, proved in |
|---|---|---|
| `KeyQueue` | `EFI_KEY_QUEUE`: the ring and its four operations, as operators | lemmas in `Keypad_proofs` |
| `KeyFifo` | abstract: a bounded queue that forgets its oldest element, with readers | implemented by `KeypadConsole` |
| `KeypadConsole` | text input of KeypadDxe while it is installed | `MCKeypadConsole`, its liveness in `MCKeypad`; proofs in `Keypad_proofs` |
| `KeypadLife` | DriverStart and DriverStop of KeypadDxe | `MCPlatform`, proofs in `Platform_proofs` |
| `KeypadDevice` | keypad device: key states, combos, LED | `MCKeypad`, and `MCKeypadDevice` for the held key; proofs in `Keypad_proofs` |
| `SdCard` | SdCardDxe and, as an external part, the card | `MCSdCard`, proofs in `SdCard_proofs` |
| `ConSplitterIn` | text input of ConSplitterDxe over several consoles | `MCConSplitterIn`, proofs in `ConSplitterIn_proofs` |
| `ConSplitterOut` | ConOut, StdErr and the virtual graphics output of ConSplitterDxe | `MCConSplitterOut`, proofs in `ConSplitterOut_proofs` |
| `Pointers` | simple and absolute pointers of ConSplitterDxe | `MCPlatform`, proofs in `Pointers_proofs` and `Platform_proofs` |
| `TextScreen` | abstract: a screen on which strings are shown character by character | implemented by `GraphicsConsole` |
| `GraphicsConsole` | GraphicsConsoleDxe | `MCPlatform`, proofs in `GraphicsConsole_proofs` |
| `FrameBuffer` | SimpleFbDxe and FrameBufferBltLib | `MCPlatform`, on its own in one run; proofs in `Platform_proofs` |
| `SerialConsole` | FrameBufferSerialPortLib | `MCPlatform`, proofs in `Platform_proofs` |
| `Interrupts` | InterruptDxe, TimerDxe and the registrations of InterruptsLib | `MCPlatform`, proofs in `Platform_proofs` |
| `ModemCalls` | MsmPcomLib, MsmPcomClientLib, ClockDxe and, external, the modem | `MCPlatform`, proofs in `Platform_proofs` |
| `GptDelay` | the delay of GPTTimerLib | `MCPlatform`, proofs in `Platform_proofs` |
| `Platform` | the modules checked by `MCPlatform`, side by side | `MCPlatform`, proofs in `Platform_proofs` and `GraphicsConsole_proofs` |
| `SequenceLemmas` | lemmas on numbers, sequences and loops, for the proofs | |

The `MC...` modules hold the small instances.  `Platform` puts components
side by side that share no state, as `MCKeypad` does with the keypad device and a small
console: the variable `moving` says which one moves in
a behaviour, so that their states add up instead of multiplying.  What holds of
each in the composition holds of each alone, and each step of the composition is
a step of one component (`ComponentSteps`), which is how its proofs go.

### What is left

The lazy connection of consoles and the key state of ConSplitterDxe, and Blt on
its virtual graphics output.  Of the proofs, nothing that the proof system can do
(section 5).

## 3. How the modules correspond to the code

**KeypadConsole.**  The variables are the fields of `KEYPAD_CONSOLE_IN_DEV`.
All operations run at TPL_NOTIFY from beginning to end, so `cs` names the one
that is inside; the device calls back for each key (`PushBegin`, `PushNotify`
per registration, `PushEnd`), which makes the polling operations sequences of
steps.  `KeyNotifyProcessHandler` runs at TPL_CALLBACK and takes the critical
section for its pops only: `pc`, `Link` and `CurrentNotify` are its position,
and between a call of a notification function and its return every operation
may be called.  The timer event has TPL_CALLBACK too and cannot interrupt the
handler.  Keys carry serial numbers, as history: the code has none.
A notification function may unregister any entry, its own included, as nothing in
`KeypadUnregisterKeyNotify` keeps it from that.  When it has freed its own, the
handler reads a freed link (`KeypadTextIn.c:661`), and the walk goes to whatever
the pool holds there: an entry that is on the list, the end of the list, or
something that is neither (`FollowsLink`).  The handler may read a key and a
function from such memory and go on (`HandlerOnFreed`), or be `lost`.  `strayed`
is history: in this walk a function has unregistered the entry it was called for.
`KeypadErr` is left out, since nothing sets it.

**KeypadDevice.**  `PollKey` is one round of the loop of GetKeys: what the
GPIO says is chosen freely, `LibKeyUpdateKeyStatus` has one definition for each
way through its switch.  Time is an abstract number that stops at
`LongpressTime`, after which no comparison changes.  Each call of
`EnableKeypadLedWithTimer` makes a timer; `current` is the one in
`m_CallbackTimer`, `orphans` are older ones that are still armed, `expired` are
callbacks that wait for the poll to end.

**SdCard.**  `pc` is the next command or phase of `SdCardInit`; `Step`
lists the commands that are only sent and tested.  `mmc_send_cmd` has
three outcomes: done; done, but the response was lost or damaged; not received.
What the card does (`Accepts`, `Performs`, `Readable`) follows the SD protocol
and is external.  `mmc_send_cmd` takes a damaged answer to ACMD41 for an answer
(`SdCardDxe.c:203`), and the driver takes the power-up and capacity bits from it,
so in this case (`garbled`, history) both bits are free, whatever the card is.
`mmc_decode_csd` gives the media's size as the code computes it: of the 22 bits of
C_SIZE 16 are kept, which count `CsdBlocks` blocks, and `LastBlock` is set to the
number of blocks.  Units are blocks of `BLOCK_SIZE` bytes (512);
`AddrBlocks` is how many of them a 32-bit byte address reaches.  A card reads the
block that its own kind of address says (`CardBlock`), which is another one when
driver and card disagree about the kind.  Assumptions: the card starts in idle state
and CMD0, which has no response, is received; the ASSERTs of `mmc_bread` are
taken as compiled out, as in a release build; one read runs at a time.

**ConSplitterIn.**  One action per way through each operation: adding a console
can fail before the text input list grows, while the parallel buffers grow one
by one, or at a notification that the console refuses.  The operations are
calls of one application and atomic, except the two loops that set toggle
states: `ToggleStateSyncKeyNotify` is dispatched by RestoreTPL at the end of
each call of a console, so these are sequences of steps (`setting`).  A console
is KeypadDxe reduced to what its callers see (a queue, registrations, a
toggle state), or one of the consoles outside the repository.  A handle names
the console that gave it, so a handle used with another console finds nothing;
the case that the pool gives a freed address to another console is left out.
`refused` and `raced` are history: a console refused a state or a reset, or a
key changed the toggle state inside SetState; until a state has been set on all
consoles again, they may differ.  With `AnyOrder = FALSE` consoles come and go
as a stack, and one that leaves also stops: this is the precondition of the
passing run, and `con_in_unregister` shows why it is needed.

**ConSplitterOut.**  One step per call, since all calls come from one thread.
Operators take a state of both virtual consoles, the graphics output and the
devices to the next, in the order of the code, so that a call that ends early
leaves what the code leaves.  Only rows of the mode table that are on offer are
kept; `-1` is the code's own mark for a mode that a device does not have.  Two
places of the code are kept as they are: the search for a device behind both
consoles does not set its pointer back between two devices
(`FoundTheSameTextOut`), and the number of the current mode is not changed when
a device leaves, so that it may be -1 or another mode's.

**Pointers.**  The two kinds have the same code except for GetState; a kind is
a parameter.  A device gathers input until GetState is called.  `journal` is
history: the movement that should still be readable.

**GraphicsConsole.**  The screen is a grid of cells, each with a glyph (whole,
or the half of a wide one) and the set of colours in which a cursor has been
drawn over it an odd number of times.  `OutputStringCall` is the loop of
OutputString, a run of glyphs at a time, with the nested calls for a space and
for a line break.  It implements `TextScreen`, which says the same one character
at a time: the runs, the line buffer, the flushing of the cursor and the calls of
itself are what could go wrong in between.  `MemoryRunsOut = FALSE` leaves out
the failure that section 6 describes.

**FrameBuffer.**  Memory is addressed as the code does, and the model has one
line more than the frame, on which a line too far shows.  A stored colour has
half the values of the caller's, as 8-bit components become 5 or 6 bits.

**SerialConsole.**  `writes` is a stack: a handler may write in the midst of a
write while interrupts are on.  The variable `intstate`, which is not set for a
newline, is a free choice (`Garbage`).

**Interrupts.**  `cpu.stack` holds the activations of the interrupt handler,
each with its position; the program's operations are steps between which an
interrupt may come.  The VIC and the TPLs of the DXE core are external: a
source that is latched and enabled is presented while none is in service and
the processor takes interrupts.  A second end-of-interrupt write for an
interrupt that is no longer in service changes nothing in the VIC of the model.
`owed` is history.

**ModemCalls.**  `todo` is the list of commands that the function under way
has still to give, and `call.at` the position in `msm_proc_comm`.  A command
carries what it does with the reply: into the table of clocks, or into the
variable that the retry uses again.  The answer of the modem may
leave the data as it was or bring other data (`Junk`), as no code here says which.
`kept` is history: whether every answer to a command for a regulator has left the
regulator's number where it was.

**KeypadLife.**  `todo` holds the remaining steps of DriverStart, of what follows
its ErrorExit, or of DriverStop; any call of a boot service may fail.  The
reading of a list through a null pointer, when there is no memory, ends well or
not.

**GptDelay.**  The counter advances by any amount up to `MaxGap` between two
reads.

## 4. Runs

| Run | Instance | Shows |
|---|---|---|
| `keypad_console` | ring of 3 cells, 3 keys, partial and whole keys, 2 handles, 2 functions, which may unregister themselves; 2.8 million states | types; the ring holds the latest keys without a gap; after a signalled WaitForKey a whole key is pending, unless it was read or reset, or the ring was full since; no lost wakeup; no walk on freed entries, but for a function that unregisters its own; order for readers and registrations; the ring implements `KeyFifo` |
| `keypad_device` | both volume keys and the dial key, debounce and repeat 2, long press 3, 1 to 3 units between polls, 2 LED timers; beside it a console with a ring of 3 cells, 1 key, 2 handles and 2 functions, under fairness | a tap is reported once, at release; dial key once; reports of a press paced; combos match the volume keys; LED does not stay lit; keys queued for notification are taken in the end |
| `keypad_held_key` | volume up, back and dial key | violated: see findings |
| `sd_card` | five cards (high capacity; a large one, of more blocks than the driver counts; one that will not switch speed, without MBR; version 1; 2 GB with blocks of 1024 bytes), 3 searched blocks, reads of up to 3 blocks, 4 addressable blocks | initialization survives any loss: published only if readable; controller never ahead of the card; if nothing fails, success, and with the card's size unless it is too large; blocks below 4 GB read from their place; initialization ends |
| `sd_last_block` | same | violated: see findings |
| `con_in` | two consoles, allocation unit 1, three keys, one key to register for besides the toggle sync, two toggle states; 1.0 million states | every buffer fits whichever allocation failed; a notification is with all consoles under the right handle or with none; no key lost or out of order; a signal stays true; consoles agree on the toggle state |
| `con_in_wait`, `con_in_unregister` | same, without toggle states, two keys to register for | violated: see findings |
| `con_out` | two graphics devices and a text device, no two with the same modes, allocation unit 2; 116 thousand states | the tables fit; a mode on offer looks the same on every device under the number in the table; a new device ends in the current mode with the others; all graphics devices show the current graphics mode, and a frame buffer is given out for a single one only |
| `platform` | one instance of each of the other components, see `MCPlatform`; 139 thousand states | no tick lost and no interrupt stuck in service, silence after the exit from boot services; a modem's answer belongs to the call that reads it, levels before power as long as answers keep the regulator's number, functions return; pointer movement read, waiting or dropped with an error; pixels, glyphs and text at their place, the cursor shown once, colours and interrupts given back; nothing outlives the keypad console; a delay never too short |
| `modem_level` | one regulator, two clocks | violated: see findings |
| `blt_copy_down` | frame of 2 x 3 pixels | violated: see findings |

**Bounds.**  A ring of 3 cells holds 2 keys, so 3 keys fill it, wrap both
indices and push one out; 2 registrations are the least for a walk that loses
its current or its next entry.  Handles and functions are interchangeable
(symmetry), and ring cells that hold no key are left out of the view, as they
are written before they are read.  Three keys with both volume keys and the
dial key give every combo; with the distances 1, 2, 3 a poll passes no limit,
the first two, or all of them; two LED timers are enough for an expired
callback next to a new timer.  For the SD card, 2 after the first block is
enough for an MBR that is found at once, later, or never, and 6 blocks with 4
addressable ones make the address wrap; 9 blocks with 6 that C_SIZE counts make a
card too large.

For ConSplitterIn, a unit of 1 makes the second console grow every buffer, and
three keys are the least for a saved key of a console next to a later one that
it still has.  Consoles are interchangeable, places of a handle list that are
not in use are written before they are read, and the numbers of keys matter
only by their order (symmetry and view).

For ConSplitterOut, three devices are the least for a mode that two share and a
third lacks, and a unit of 2 makes the third grow the list.  In `MCPlatform`:
three activations of the interrupt handler are one more than two that nest;
one other vector shares its bit with a GPIO group; two clocks, of which one has
no number; two pointers, which is one that fails and one that does not; a frame
of 2 x 3 pixels, with one line below, the least in which two different rectangles
overlap, with two pixel values; a serial console of three columns whose
first new screen comes after three lines; text modes of two to five columns
and two lines, which every string of the instance wraps or scrolls; a counter of
eight values with gaps up to three, and delays of any length below a turn.

**Deadlock** is not checked in the keypad console runs, where `MaxKeys` ends
the supply of keys and a handler that went through a freed entry may be lost, nor in
the SD card runs, where the driver stops for want of
a card or an MBR (`CpuDeadLoop`), as the code does; nor in `platform`, since a
read through a null pointer may end the life of the keypad driver and interrupts
stay off once the system has left the boot services, nor in `modem_level` and
`blt_copy_down`.

**Fairness.**  KeypadConsole: code that has started runs on, hence weak
fairness of the steps of a critical section and of the handler.  `RestoreTPL`
dispatches a pending event as soon as the level allows it, and a notification
function returns after finitely many calls: both are enabled again and again
rather than continuously, hence strong fairness.  `NotifyDrained` is stated for
lists of registrations that settle, since functions that register each other
for ever would keep the walk from ending, and for walks that do not all stray, as
one that has gone through a freed entry may never come back.  SdCard: weak fairness of the driver,
which is one thread of control, and of the card's power-up.  `InitEnds` names
its exception: when the answer to CMD8 is lost, a high capacity card is not
offered support and never reports ready, and the ACMD41 loop has no limit; the
wait for SCR data without a time limit is the state `hang`.
ModemCalls: weak fairness of the processor's own loops and of the modem's start;
strong fairness of a successful answer, that is, the modem does not fail every
time it is asked again.  Without the last a retry loop of
`pcom_vreg_control` never ends, as the code has no limit.

## 5. Proofs

Proved for all values of the constants, under the named assumptions of the
modules (a ring has at least two cells; a partial key is a key; times are
ordered; combo characters differ from each other and from the keys).

`Keypad_proofs`, the console: it begins with what a pop and a push do to a ring of any
size, in terms of its count and the key at each place.  `ConsoleInv` is inductive.  The invariants that the run
checks are not enough by themselves: order needs to know that the key being
pushed has the next number (`PushingIsNext`) and that readers got older ones
than those that are pending (`ReturnedIsOlder`); safety of the walk needs to
know that while a function runs, the walk stands on its entry
(`CallingLinkedEntry`), which stays so until the function unregisters itself: from
there to the end of the walk `strayed` holds, and nothing is claimed of where the
walk stands.  That a signalled whole key stays needs to know that a push only takes
the oldest key off a ring that is full, and leaves it full.  The proof splits into types, ring, wakeup and walk,
each with one step per action that can disturb it.  From it: `TypeOK`,
`KeysAreLatest`, `SignalledKeyStays`, `NotifyPending`, `WalkOnLiveEntry`, the
action property `ReadsInOrder`, and `PlainReaderGetsWholeKeys`, which no run
checks since the proof covers it.  `NotifiedInOrder` needs more: no
registration was called for a key newer than one that still waits, or than the one
that the handler is delivering (`NotifyInv`).  The refinement of `KeyFifo` is
proved step by step: the ring read as a sequence (its keys from Head on) is the
abstract queue, a push is the abstract push that forgets the oldest, and the serial
numbers bound it (`BoundInv`).

`Keypad_proofs`, the device (whose specification is `DeviceSpec`): `DeviceInv` adds to the invariants of the run how the
history of a press (its reports, the time since the last one) goes with the
context of the key, and that the bitmaps are what was sampled last.  From it:
`ContextsOK`, `TapReportedOnce`, `DialReportsOnce`, `LedNotStuck`,
`ReportsPaced`, `ComboMatchesVolume`, and `ReleaseReportsFirst`, again by proof
only.

`SdCard_proofs`: the driver does not keep the state of the card; each label of
the initialization stands for one.  `CardFollowsDriver` says which, and what the
clock and the bus may be there, for any sequence of commands and responses that
got lost; `NothingFailed` says how far a card has come when nothing did.  They
give `ControllerFollowsCard`, `PublishedIsReadable` and `InitSucceeds`: a block is
only read in the state in which the whole initialization has worked, although
SdCardInitialize looks at no result.  Whether driver and card agree about the
capacity is left open after a damaged answer to ACMD41 (`garbled`); that the block
that the card reads exists then too is part of `Readable`, so that the rest of what is
published holds all the same.  What `mmc_decode_csd` returns is used by
what it promises (`CsdTypes`), and `InitSucceeds` claims the size of a card only up to
what C_SIZE can count.  `ReadsInPlace` adds the position of the read
under way, and the lemmas that an address counted in 32 bits is the address
modulo the addressable blocks (`ReadsWrap`), hence the block itself below that number.
Assumed: the card has at least as many blocks as are searched for an MBR, by its
CSD too, and an MBR that is found lies on the card.

`ConSplitterIn_proofs`: lists and buffers of any length, for any allocation unit.
`ListInv` (both lists name running consoles that are open, none twice) and
`ToggleInv` (a loop under way has set every console before its place) give
`TogglesAgree`; `KeysInv` (the pending keys are exactly the whole keys of the
consoles and of the key queue, ascending for each console) gives `NoKeyLost` and
`KeysInOrder`; `SignalInv` gives `SignalledKeyStays`.  `BufferInv` gives `TypeOK`: the
invariant had to bound the key queue by the size of the list of consoles and not
by its own, since an allocation that fails on the way leaves one buffer larger than
the other.  `RegInv`, for consoles that come and go as a stack
(`AnyOrder = FALSE`), gives `RegisteredWithAll`; `con_in_unregister` is the
counterexample without that precondition.

`ConSplitterOut_proofs`, for any devices, text modes, resolutions and allocation unit
that fit together as UEFI asks (`OutAssumption`): `Inv` says of each virtual console
that its list names devices, none twice, those that the driver holds open
(`Listed`); that each column of its mode table belongs to one device and names, for
each mode on offer, the mode of that device which looks the same, or none
(`Column`); that the first column names the modes in the order of the first device,
whose sizes are the query data (`Base`); and that the current mode is on offer or was
removed (`InUse`).  Of the graphics output it says that each device behind ConOut has
every mode on offer and is in the current one, that a resolution which all have is
among them, and how many devices there are (`GraphicsOK`).  The operations are
functions of a state, so most lemmas say what one of them returns: removing modes
is counted with `Below` and `Nth`, which mode comes where (`GetIntersection`); a
column that was filled in by a search is right because a size is that of one mode
(`SyncOutputMode`); deleting a device computes the table again, by an induction on
the list (`RecomputedIs`); while a device is being added there is no current mode
(`NoMode`), so that setting one reaches every device.  From it: `TypeOK`,
`ModesShared`, `GraphicsShared` and the action property `AddSynchronises`.  The proof
showed what of a mode's number has to be assumed: only mode 1, the one that a device
may refuse, needs a size of its own; the others may share theirs.

`SequenceLemmas`: induction over data is stated for sets of numbers instead of
predicates (`UpToInduction`), and a loop that the model writes as a recursive
function exists and has its values (`LoopExists`).  With both, what a loop computes
after any number of turns can be proved: the saved keys and the registrations of
ConSplitterIn, the lines that a Blt copies.

`Pointers_proofs`: `PointersInv` gives `MovementAddsUp`, `SignalHasInput` and
`ListedAreOpen` for any devices, resolutions and allocation unit; what makes it
inductive is that a list holds devices of its kind only, so that what happens to one
kind leaves the flag and the movement of the other alone.  It begins with sums over
a finite set: that the recursion behind `SumFunctionOnSet` has a solution and one
only (`SumsExist`, `SumsUnique`), by an induction on subsets stated for a set of sets
(`SubsetInduction`), that the order does not matter (`SumTake`), and what a sum
becomes when some values change (`SumChange`, `SumZeroed`).  The proof showed that
movement has to be counted as a read would round it: adding up the movement of
each step is right only where a device's resolution divides the splitter's.

`Platform_proofs`, one invariant per component:

- GptDelay: `LongEnough` and `NotTooLong` for a counter of any size, delays
  shorter than a turn and reads closer than a turn (`DelayAssumption`; the counter of
  the run has few values).  `DelayInv` says what the delay may conclude from the count
  it read last: that the count is not ahead of the counter and whether it was read
  before or after the counter began again (`CountIsPast`), and that the second
  loop is not entered before then when the delay ends in the next turn
  (`TurnIsOver`).  `ReadInTime` says that a read comes at most one gap after time is up, and
  that the count tells then that it is: the delay is not too long.
- KeypadLife: `LifeInv` says which resources exist when a given list of steps is
  left of DriverStart, of its error exit, or of DriverStop, and gives
  `NothingOutlivesConsole` whichever boot service fails.
- Interrupts: `NestInv` (only the activation on top may be anywhere but at its
  return, and it has the processor's interrupts off until it lowers the TPL or
  returns), `TickInv` (the timer's source is enabled only with its handler
  registered, and the latch that an activation has seen stays until it clears it) and `StageInv` (what is enabled and
  registered at each stage of the program), for any depth of nesting, give
  `InterruptsServed`.
- ModemCalls: `CallInv` follows one call through the mailbox, for any modem, and
  gives `ReplyIsOwn`.  `EchoInv` and `SupplyInv` hold as long as every answer about
  a regulator has left its number in place (`kept`), and give
  `LevelBeforeOnIfKept`: whatever fails and is repeated, a level is set before power.
  Nothing is assumed of the modem; once an answer has changed the number the property
  is lost, which `modem_level` shows.
- Pointers: `PointersInv` of the simple and of the absolute devices gives
  `PointerInputKept`.
- SerialConsole: `PositionInv` and `ColourInv` (each critical write that is under
  way has kept the colour which the writes below it had made) give `GlyphInFrame`,
  `OnlyNewlineOpens` and `ColorGivenBack`.  The proof found an assumption that the
  run satisfied without saying so: a frame has at least two columns, for on a
  frame of one column the glyph that is drawn again on a new line leaves it.
- FrameBuffer: `WithFacts` turns the addresses of the code into the cells of a
  rectangle; then `RoundTrip` is arithmetic, and `CopyUpIsExact` is an induction on
  the lines: a turn reads its line from behind everything that the turns before it
  have written (`CopyUpLines`).  For frames, colours and rectangles of any size.

`GraphicsConsole_proofs`: `ConsoleInv` says that the settings of an installed console
fit its screen (`SettingsOK`) and that it is known what the screen shows (`Shown`: the
glyph of each cell, and the cursor on one cell or on none).  Most of the proof follows
one OutputString, whose loop is a recursive function (`OutputStringIs`): before each
turn the cursor is off the screen, or at the start of a line that a glyph is about to
cover (`Printing`), a turn takes something off the string or draws the cursor
(`TurnIs`), so that the turns are enough (`TurnAtNext`), and after the last one the
cursor is on the screen and shown (`OutputStringDevice`).  For text modes of any number
and size that have room for mode 0 and a wide glyph (`ConsoleAssumption`), and any
strings, this gives `ConsoleOK`.

The refinement of `TextScreen` goes along with it.  `Abstract` is what `TextScreen`
knows of a device in the middle of an operation.  A control character is one step of
either (`ControlShows`): a backspace is a nested call that prints a space.  A run of
glyphs is as many characters of `TextScreen` as it has glyphs (`RunShows`, by an
induction on the run), the last of which goes to the next line when the run fills its
own.  A wide glyph for which one cell is left is the exception: a turn of the console
wipes the cell and goes to the next line, and the turn after draws the glyph, where
`TextScreen` does both in one step (`WideWraps`).  So before each turn both show the
same, or will with the glyph that comes next (`Follows`), and after the last one they
show the same (`TurnIs`, `PrintedAs`).  With `Sees`, which says what the
refinement mapping makes of a console, each operation is then a step of `TextScreen`
or changes nothing in it (`ConsoleStep`): it prints, moves the cursor, clears the screen,
appears with its greeting or disappears.  This gives `ShowsTheText`, of which
TLC has only seen a few sizes and strings.

Both theorems hold as long as no allocation fails; `MemoryRunsOut = TRUE` is the
counterexample to `ConsoleOK` without that (section 6).

Only model-checked: liveness (`NotifyDrained`, `InitEnds`, `FunctionsReturn`), which under
fairness is beyond what the proof system does.

## 6. Findings

Where the code allows a hazard for which no property can hold, the property next to it
names the case as its exception, and the hazard's note in PROJECT.json says so: an
ACMD41 loop or an SCR wait without an end (`InitEnds`), a modem that never starts or
always fails (`FunctionsReturn`), movement dropped with the error of another device
(`PointerInputKept`), a newline that opens the interrupts (`OnlyNewlineOpens`), a
line buffer for which there is no memory (`ConsoleOK`), and those listed at the end.

Shown by a run:

- **A held back key is never reported** (`keypad_held_key`).
  `KeySetState` picks the bit of a character key by its scan code
  (`KeypadDeviceHelperLib.h:55`), which is 0 for all of them, so a key held
  alone takes itself for the dial key of a combo: nothing at the long press,
  nothing at the release.
- **A failed last block is a success** (`sd_last_block`).  `MmcReadInternal`
  returns 1 whether or not `mmc_bread` read the last block (`SdCardDxe.c:926`).
  The same property fails without any error, too: `Lba * 512` is passed as 32 bits
  (`SdCardDxe.c:991`), so a block beyond 4 GB of a card with byte addresses is read
  from 4 GB before, where the function's comment promises the Lba that was asked for
  (`SdCardDxe.c:939`).
- **WaitForKey does not see a saved key** (`con_in_wait`).
  `ConSplitterTextInWaitForKey` asks the consoles and not `KeyQueue`, where
  `ReadKeyStrokeEx` saved the keys of the other consoles (`ConSplitter.c:3668`).
- **A function stays active after it was unregistered** (`con_in_unregister`).
  A console that leaves the splitter keeps its registrations, and the handles
  of later consoles are at wrong places from then on (`ConSplitter.c:2073`).
- **Power without a level** (`modem_level`).  `pcom_vreg_control` passes its
  argument to both of its commands (`pcom_clients.c:75`), and `msm_proc_comm` copies
  what the modem's answer left in the register over it (`pcom.c:91`).  If an answer
  does not keep the regulator's number, the retry or the next command is for another
  one, and a regulator goes on without a level, where the comment says "If turning it
  ON, set the level first" (`pcom_clients.c:64`).
- **A copy further down in the frame moves the wrong lines** (`blt_copy_down`).
  For a destination after its source, `FrameBufferBltLibVideoToVideo` starts one
  line after the last and copies before it steps back
  (`FrameBufferBltLib.c:526`).  Scrolling copies the other way and is right.

Seen while modelling, as the code is, with no run of their own:

- A key is queued for notification once per registration that matches, and the
  handler calls every matching registration for every queued copy
  (`Keypad.c:173`): with two registrations each function runs twice.
- A notification function that unregisters its own entry frees it, and the handler
  then reads its link (`KeypadTextIn.c:661`): the exception of `WalkOnLiveEntry`.
- With partial keys exposed, a ring full of them pushes the whole key out for which
  WaitForKey was signalled (`KeypadTextIn.c:65`): the exception of
  `SignalledKeyStays`.
- An answer to ACMD41 whose checksum is wrong is used like a right one
  (`SdCardDxe.c:203`), so the driver may take a card for another kind
  (`SdCardDxe.c:294`): the exception of `PublishedIsReadable`.
- `mmc_decode_csd` keeps 16 bits of C_SIZE (`SdCardDxe.c:831`), so a card of more than
  32 GB is published with the wrong size: the exception of `InitSucceeds`.
- `SetTimerPeriod` stores the period after it has enabled the source
  (`Timer.c:199`): a tick in between is reported with the old period.
- The GPIO group's source, 73, and vector 41 have the same enable bit, since
  InterruptDxe has two banks of 32 and takes the number modulo 32.
- SetMode of the graphics console frees the line buffer before it allocates the
  next (`GraphicsConsole.c:1346`); when that fails the pointer stays, and
  `MemoryRunsOut = TRUE` violates `ConsoleOK`.
- An error of one pointer device is the result of GetState, and the movement of
  the others is gone (`ConSplitter.c:4249`); an absolute position is scaled
  without its minimum.
- DriverStop of KeypadDxe closes the timer before it knows that the clients let
  the console go (`Keypad.c:390`): when they do not, it stays installed without
  polling by itself.
- A delay that ends at one of the last values of the counter takes a full turn
  more (36 hours) if no read falls on them, the case that `NotTooLong` excepts.
- When a device leaves a virtual console its current mode may be one that is no
  longer on offer (number -1); `SetCursorPosition` then reads before the table.

## 7. Not modelled

Formatting, device paths and component names; font, logo, SMBIOS and build
data; start-up code without reactive state; the EDK2 core, which is not in the
repository (its TPL and event rules are built into the models); and what the
plan above still lists.  `components` in PROJECT.json gives the reason for each
part.  In particular:

- UGA in the output half of ConSplitterDxe and in GraphicsConsoleDxe: switched off
  by the platform's PCDs.
- GPIO registers are read, modified and written without a lock.  The keypad's
  timer and the LED's callback have the same level, TPL_CALLBACK, and the
  readers of the keypad run at TPL_NOTIFY, so none interrupts another; the
  vibration library, which could be interrupted, has no user.
- `ConSplitterGraphicsOutputQueryMode` (`ConSplitterGraphics.c:62`), which copies one
  entry of the table of graphics modes for its caller and changes nothing.
- The handler of InterruptsLib: its only users register sources beyond the two
  banks of the controller.
- TetrisApp, a sample game, and PlatformBootManagerLib, a script of calls to a
  library of EDK2 that keeps all the state.
