----------------------------- MODULE KeypadLife -----------------------------
(***************************************************************************)
(* The life of KeypadDxe on one keypad device: DriverStart acquires the    *)
(* driver's resources one after the other and gives them back when one     *)
(* fails; DriverStop takes the console away from its clients, who may      *)
(* refuse, and frees it.  KeypadConsole is what happens while the console  *)
(* is installed.                                                           *)
(*                                                                         *)
(* External: the boot services, any call of which may fail.                *)
(***************************************************************************)
EXTENDS Integers, Sequences, SequencesExt

VARIABLES opened,    \* the keypad device protocol, by this driver
          held,      \* what the driver has allocated, created and set
          installed, \* the text input protocols on the controller
          function,  \* which function of the driver binding is under way
          todo,      \* its remaining steps
          crashed    \* a list was read through a null pointer

lifeVars == <<opened, held, installed, function, todo, crashed>>

\* What DriverStart does once it has opened the device.
StartSteps == <<"ConsoleIn", "WaitForKey", "WaitForKeyEx", "TimerEvent", "SetTimer",
                "KeyNotifyProcessEvent", "Reset", "ControllerNameTable", "install">>
\* The only step whose status it does not look at.
MayFail == ToSet(StartSteps) \ {"ControllerNameTable"}

\* Mutant: what ConsoleIn is in is freed before its events are closed.
FreesFirst == <<"ConsoleIn", "WaitForKey", "TimerEvent", "WaitForKeyEx",
                "KeyNotifyProcessEvent", "NotifyList", "ControllerNameTable">>

\* What follows ErrorExit, for whatever is not NULL.
ErrorExit == <<"WaitForKey", "TimerEvent", "WaitForKeyEx", "KeyNotifyProcessEvent",
               "NotifyList", "ControllerNameTable", "ConsoleIn">>

\* Mutant: the timer is closed with the other events.
StopsTimerLate == <<"uninstall", "WaitForKey", "WaitForKeyEx", "KeyNotifyProcessEvent",
                    "TimerEvent", "NotifyList", "ControllerNameTable", "ConsoleIn">>

\* DriverStop: uninstalling asks the clients to let the console go.
StopSteps == <<"TimerEvent", "uninstall", "WaitForKey", "WaitForKeyEx",
               "KeyNotifyProcessEvent", "NotifyList", "ControllerNameTable", "ConsoleIn">>

Without(thing) == held \ ({thing} \union IF thing = "TimerEvent" THEN {"SetTimer"} ELSE {})
Continue(at, steps) == function' = (IF steps = << >> THEN "none" ELSE at) /\ todo' = steps

-----------------------------------------------------------------------------

DriverStart ==
    /\ function = "none" /\ ~opened
    /\ opened' = TRUE /\ Continue("start", StartSteps)
    /\ UNCHANGED <<held, installed, crashed>>

StartStep ==
    /\ function = "start" /\ Continue("start", Tail(todo))
    /\ installed' = (Head(todo) = "install")
    /\ held' = held \union ({Head(todo)} \ {"Reset", "install"})
    /\ UNCHANGED <<opened, crashed>>

\* Without memory for ConsoleIn, its list is freed all the same, which ends well or
\* not.
StartFails ==
    /\ function = "start" /\ Head(todo) \in MayFail
    /\ crashed' \in (IF Head(todo) = "ConsoleIn" THEN BOOLEAN ELSE {FALSE})
    /\ Continue("exit", ErrorExit)
    /\ UNCHANGED <<opened, held, installed>>

\* The device protocol is closed last.
ExitStep ==
    /\ function = "exit" /\ Continue("exit", Tail(todo))
    /\ held' = Without(Head(todo))
    /\ opened' = (Len(todo) > 1)
    /\ UNCHANGED <<installed, crashed>>

DriverStop ==
    /\ function = "none" /\ installed
    /\ Continue("stop", StopSteps)
    /\ UNCHANGED <<opened, held, installed, crashed>>

\* With the protocols gone the device protocol is closed, then the rest follows.
StopStep ==
    /\ function = "stop" /\ Continue("stop", Tail(todo))
    /\ held' = Without(Head(todo))
    /\ IF Head(todo) = "uninstall" THEN installed' = FALSE /\ opened' = FALSE
       ELSE UNCHANGED <<installed, opened>>
    /\ UNCHANGED crashed

StopRefused ==
    /\ function = "stop" /\ Head(todo) = "uninstall"
    /\ Continue("none", << >>)
    /\ UNCHANGED <<opened, held, installed, crashed>>

\* Clients add notifications to the list of the console, and remove them, also when
\* they are asked to let it go.
RegisterKeyNotify ==
    /\ installed /\ held' = held \union {"NotifyList"}
    /\ UNCHANGED <<opened, installed, function, todo, crashed>>
UnregisterKeyNotify ==
    /\ installed /\ held' = held \ {"NotifyList"}
    /\ UNCHANGED <<opened, installed, function, todo, crashed>>

Init == /\ opened = FALSE /\ held = {} /\ installed = FALSE
        /\ function = "none" /\ todo = << >> /\ crashed = FALSE

Next ==
    /\ ~crashed
    /\ \/ DriverStart \/ StartStep \/ StartFails \/ ExitStep
       \/ DriverStop \/ StopStep \/ StopRefused
       \/ RegisterKeyNotify \/ UnregisterKeyNotify

Spec == Init /\ [][Next]_lifeVars

-----------------------------------------------------------------------------
(* Properties.                                                             *)

\* The events call back with ConsoleIn and clients hold its protocols: at no step is
\* one of them left without it, nor a timer that polls for registrations without the
\* event that a key for them signals.  A console that was given back leaves nothing.
NothingOutlivesConsole ==
    /\ "ConsoleIn" \notin held => held = {} /\ ~installed
    /\ {"SetTimer", "NotifyList"} \subseteq held => "KeyNotifyProcessEvent" \in held
    /\ function = "none" => (opened <=> "ConsoleIn" \in held)
=============================================================================
