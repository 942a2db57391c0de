------------------------------ MODULE MCKeypad ------------------------------
(* The keypad device and, beside it, an instance of KeypadConsole under its  *)
(* fairness.  In a behaviour one of the two moves, and the other stays as it *)
(* was initialised.                                                          *)
EXTENDS MCKeypadDevice

CONSTANTS KEYPAD_EFI_KEY_MAX_COUNT, Codes, NullCode, Shifts, Handles, Fns,
          NoLink, MaxKeys

VARIABLES EfiKeyQueue, EfiKeyQueueForNotify, NotifyList, IsSupportPartialKey,
          signaled, cs, pushing, pushLink, pc, KeyData, Link, CurrentNotify,
          strayed, ready, produced, returned, lastCall,
          moving    \* which of the two moves

Console == INSTANCE KeypadConsole

consoleVars ==
    <<EfiKeyQueue, EfiKeyQueueForNotify, NotifyList, IsSupportPartialKey,
      signaled, cs, pushing, pushLink, pc, KeyData, Link, CurrentNotify,
      strayed, ready, produced, returned, lastCall>>
vars == <<moving, deviceVars, consoleVars>>

Init == DeviceInit /\ Console!Init /\ moving \in {"device", "console"}

Next ==
    \/ moving = "device" /\ DeviceNext /\ UNCHANGED <<moving, consoleVars>>
    \/ moving = "console" /\ Console!Next /\ UNCHANGED <<moving, deviceVars>>

Spec == Init /\ [][Next]_vars /\ Console!Fairness

\* Every key queued for notification is taken from the queue in the end; see
\* NotifyDrained of KeypadConsole.
NotifyDrained == Console!NotifyDrained
=============================================================================
