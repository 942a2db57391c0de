---------------------------- MODULE KeypadDevice ----------------------------
(***************************************************************************)
(* The keypad device of the HTC Leo: KeypadDeviceImplLib polls each key    *)
(* and KeypadDeviceHelperLib turns the samples into key reports.  A tap is *)
(* reported when the key is released; a held key is reported after         *)
(* LongpressTime and then repeats every RepeatTime; holding the dial key   *)
(* reports 's', 'e' or a space, depending on the volume keys.  A pressed   *)
(* key that is not a volume key also lights the keypad LED for a while.    *)
(*                                                                         *)
(* GetKeys runs inside KeypadTimerHandler, at TPL_NOTIFY, and its loop is  *)
(* one step per key here; only the LED timer can expire in between, and    *)
(* its callback, at TPL_CALLBACK, waits for the poll to end.  What the     *)
(* GPIOs say is free in every step.  Time counts in an abstract unit and   *)
(* stops at LongpressTime, after which no comparison changes.              *)
(***************************************************************************)
EXTENDS Naturals, Sequences

CONSTANTS KeyList,        \* the keys, in the order in which they are polled
          VolumeUp, VolumeDown, Dial,
          ScanKeys,       \* the keys with a ScanCode; others have a character
          DebounceTime, RepeatTime, LongpressTime,   \* 10, 200 and 500 ms
          Deltas,         \* what can pass between two polls
          Combos,         \* << 's', 'e', ' ' >>
          None,
          MaxTimers       \* bound: LED timers left behind or expired at once

Keys == {KeyList[i] : i \in DOMAIN KeyList}

ASSUME DeviceAssumption ==
    /\ KeyList \in Seq(Keys)
    /\ {VolumeUp, VolumeDown} \subseteq ScanKeys
    /\ Dial \in Keys \ ScanKeys
    /\ DebounceTime \in Nat /\ RepeatTime \in Nat /\ LongpressTime \in Nat
    /\ 0 < DebounceTime /\ DebounceTime <= RepeatTime
    /\ RepeatTime <= LongpressTime
    /\ Deltas \subseteq Nat
    /\ MaxTimers \in Nat

\* The characters of the combos are none of the keys' own.
ASSUME ComboAssumption ==
    /\ Combos[1] # Combos[2] /\ Combos[2] # Combos[3] /\ Combos[1] # Combos[3]
    /\ {Combos[i] : i \in 1 .. 3} \intersect (Keys \union {None}) = {}
    /\ None \notin Keys

VARIABLES State, Time, Repeat, Longpress,   \* KEY_CONTEXT of each key
          scanBits,      \* gBitmapScanCodes: the scan keys seen pressed
          charBit,       \* bit 0 of gBitmapUnicodeChars, see KeySetState
          Index, Delta,  \* the loop of GetKeys; Index = 0 outside
          led, timerRunning,
          current,       \* whether the timer of m_CallbackTimer is armed
          orphans,       \* older LED timers that are still armed
          expired,       \* DisableKeyPadLed calls that wait for the TPL
          pushed,        \* the report of the last step, or None
          sample,        \* history: the keys whose last sample is "pressed"
          reports,       \* history: reports during the current press, up to 2
          quiet,         \* history: time since the key's last report
          heard          \* history: the keys with a report of any key since
                         \* their press began

contexts == <<State, Time, Repeat, Longpress>>
bits == <<scanBits, charBit>>
ledVars == <<led, timerRunning, current, orphans, expired>>
history == <<pushed, sample, reports, quiet, heard>>
deviceVars == <<contexts, bits, Index, Delta, ledVars, history>>

\* After the first KeypadDeviceImplReset.
DeviceInit ==
    /\ State = [k \in Keys |-> "RELEASED"]
    /\ Time = [k \in Keys |-> 0]
    /\ Repeat = [k \in Keys |-> FALSE]
    /\ Longpress = [k \in Keys |-> FALSE]
    /\ scanBits = {} /\ charBit = FALSE
    /\ Index = 0 /\ Delta = 0
    /\ led = FALSE /\ timerRunning = FALSE
    /\ current = FALSE /\ orphans = 0 /\ expired = 0
    /\ pushed = None /\ sample = {} /\ heard = {}
    /\ reports = [k \in Keys |-> 0]
    /\ quiet = [k \in Keys |-> 0]

\* No comparison tells times beyond LongpressTime apart.
After(t, d) == IF t + d > LongpressTime THEN LongpressTime ELSE t + d

-----------------------------------------------------------------------------
(* The bitmaps.                                                            *)

\* KeySetState.  For a key with a character the bit is chosen by the ScanCode,
\* which is 0, so these keys share one bit: the one sampled last decides it.
\* Mutant: a bit is never cleared.
KeySetStateOnly(k, pressed) ==
    IF k \in ScanKeys
    THEN /\ scanBits' = IF pressed THEN scanBits \union {k} ELSE scanBits
         /\ UNCHANGED charBit
    ELSE charBit' = pressed /\ UNCHANGED scanBits

KeySetState(k, pressed) ==
    IF k \in ScanKeys
    THEN /\ scanBits' = IF pressed THEN scanBits \union {k} ELSE scanBits \ {k}
         /\ UNCHANGED charBit
    ELSE charBit' = pressed /\ UNCHANGED scanBits

\* KeyGetState(0, CHAR_CARRIAGE_RETURN) after KeySetState for the key at hand.
\* Mutant: the test for a combo is missing.
NoCombo == FALSE
InCombo == charBit'

\* The character that a long press of the dial key reports.
ComboKey ==
    IF VolumeDown \in scanBits' THEN Combos[1]
    ELSE IF VolumeUp \in scanBits' THEN Combos[2] ELSE Combos[3]

-----------------------------------------------------------------------------
(* LibKeyUpdateKeyStatus for key k, with t as its updated time: one        *)
(* definition for each way through the switch.                             *)

SetContext(k, state, time, repeat, longpress) ==
    /\ State' = [State EXCEPT ![k] = state]
    /\ Time' = [Time EXCEPT ![k] = time]
    /\ Repeat' = [Repeat EXCEPT ![k] = repeat]
    /\ Longpress' = [Longpress EXCEPT ![k] = longpress]

\* PushEfikeyBufTail, or no report at this step.
Push(k, key) ==
    /\ pushed' = key
    /\ reports' = [reports EXCEPT ![k] = IF @ = 2 THEN 2 ELSE @ + 1]
    /\ quiet' = [quiet EXCEPT ![k] = 0]
    /\ heard' = Keys

NoPush(k) ==
    /\ pushed' = None
    /\ UNCHANGED <<reports, heard>>
    /\ quiet' = [quiet EXCEPT ![k] = After(@, Delta)]

\* The press is over, and so is its history.
Forget(k) ==
    /\ pushed' = None
    /\ reports' = [reports EXCEPT ![k] = 0]
    /\ quiet' = [quiet EXCEPT ![k] = 0]
    /\ heard' = heard \ {k}

StaysReleased(k, pressed, t) ==
    /\ State[k] = "RELEASED" /\ ~pressed
    /\ SetContext(k, "RELEASED", t, Repeat[k], Longpress[k])
    /\ Forget(k)

Press(k, pressed, t) ==
    /\ State[k] = "RELEASED" /\ pressed
    /\ SetContext(k, "PRESSED", 0, Repeat[k], Longpress[k])
    /\ Forget(k)

RepeatDue(k, t) == Repeat[k] /\ t >= RepeatTime
LongpressDue(k, t) == ~RepeatDue(k, t) /\ ~Longpress[k] /\ t >= LongpressTime

\* Mutant: the time is not set back.
RepeatForever(k, pressed, t) ==
    /\ State[k] = "PRESSED" /\ pressed /\ RepeatDue(k, t)
    /\ SetContext(k, "PRESSED", t, TRUE, Longpress[k])
    /\ Push(k, k)

KeyRepeat(k, pressed, t) ==
    /\ State[k] = "PRESSED" /\ pressed /\ RepeatDue(k, t)
    /\ SetContext(k, "PRESSED", 0, TRUE, Longpress[k])
    /\ Push(k, k)

\* Mutant: the long press is not noted.
DialForgetsLongpress(k, pressed, t) ==
    /\ State[k] = "PRESSED" /\ pressed /\ LongpressDue(k, t) /\ k = Dial
    /\ SetContext(k, "PRESSED", t, Repeat[k], FALSE)
    /\ Push(k, ComboKey)

DialLongpress(k, pressed, t) ==
    /\ State[k] = "PRESSED" /\ pressed /\ LongpressDue(k, t) /\ k = Dial
    /\ SetContext(k, "PRESSED", t, Repeat[k], TRUE)
    /\ Push(k, ComboKey)

\* Mutant: the long press is not noted.
FirstRepeatForgets(k, pressed, t) ==
    /\ State[k] = "PRESSED" /\ pressed /\ LongpressDue(k, t) /\ k # Dial
    /\ ~InCombo
    /\ SetContext(k, "PRESSED", 0, TRUE, FALSE)
    /\ Push(k, k)

FirstRepeat(k, pressed, t) ==
    /\ State[k] = "PRESSED" /\ pressed /\ LongpressDue(k, t) /\ k # Dial
    /\ ~InCombo
    /\ SetContext(k, "PRESSED", 0, TRUE, TRUE)
    /\ Push(k, k)

\* In a combo the long press is noted and nothing is reported.
ComboHold(k, pressed, t) ==
    /\ State[k] = "PRESSED" /\ pressed /\ LongpressDue(k, t) /\ k # Dial
    /\ InCombo
    /\ SetContext(k, "PRESSED", t, Repeat[k], TRUE)
    /\ NoPush(k)

StaysPressed(k, pressed, t) ==
    /\ State[k] = "PRESSED" /\ pressed
    /\ ~RepeatDue(k, t) /\ ~LongpressDue(k, t)
    /\ SetContext(k, "PRESSED", t, Repeat[k], Longpress[k])
    /\ NoPush(k)

ReportTap(k, pressed, t) ==
    /\ State[k] = "PRESSED" /\ ~pressed /\ ~Longpress[k]
    /\ SetContext(k, "LONGPRESS_RELEASE", t, Repeat[k], Longpress[k])
    /\ Push(k, k)

\* Mutant: a release reports the key, long press or not.
ReportEveryRelease(k, pressed, t) ==
    /\ State[k] = "PRESSED" /\ ~pressed /\ Longpress[k] /\ t >= DebounceTime
    /\ SetContext(k, "RELEASED", 0, FALSE, FALSE)
    /\ Push(k, k)

SilentRelease(k, pressed, t) ==
    /\ State[k] = "PRESSED" /\ ~pressed /\ Longpress[k] /\ t >= DebounceTime
    /\ SetContext(k, "RELEASED", 0, FALSE, FALSE)
    /\ Forget(k)

Debounce(k, pressed, t) ==
    /\ State[k] = "PRESSED" /\ ~pressed /\ Longpress[k] /\ t < DebounceTime
    /\ SetContext(k, "PRESSED", t, Repeat[k], Longpress[k])
    /\ NoPush(k)

\* Mutant: the long press of the last press outlives it.
SettlesInLongpress(k, pressed, t) ==
    /\ State[k] = "LONGPRESS_RELEASE"
    /\ SetContext(k, "RELEASED", 0, FALSE, TRUE)
    /\ Forget(k)

TapSettles(k, pressed, t) ==
    /\ State[k] = "LONGPRESS_RELEASE"
    /\ SetContext(k, "RELEASED", 0, FALSE, FALSE)
    /\ Forget(k)

LibKeyUpdateKeyStatus(k, pressed) ==
    LET t == After(Time[k], Delta)
    IN  /\ KeySetState(k, pressed)
        /\ \/ StaysReleased(k, pressed, t)
           \/ Press(k, pressed, t)
           \/ KeyRepeat(k, pressed, t)
           \/ DialLongpress(k, pressed, t)
           \/ FirstRepeat(k, pressed, t)
           \/ ComboHold(k, pressed, t)
           \/ StaysPressed(k, pressed, t)
           \/ ReportTap(k, pressed, t)
           \/ SilentRelease(k, pressed, t)
           \/ Debounce(k, pressed, t)
           \/ TapSettles(k, pressed, t)

-----------------------------------------------------------------------------
(* The LED.                                                                *)

\* EnableKeypadLedWithTimer.  Every call creates a timer of its own.  The old
\* one is cancelled while timerRunning is set; if it has expired, its callback
\* stays queued, and if a callback has cleared timerRunning, it stays armed.
\* Mutant: a running timer is cancelled and no new one is started.
CancelOnly ==
    /\ orphans + expired < MaxTimers
    /\ led' = TRUE /\ timerRunning' = TRUE
    /\ current' = ~timerRunning
    /\ orphans' = IF current /\ ~timerRunning THEN orphans + 1 ELSE orphans
    /\ UNCHANGED expired

EnableKeypadLedWithTimer ==
    /\ orphans + expired < MaxTimers
    /\ led' = TRUE /\ timerRunning' = TRUE
    /\ current' = TRUE
    /\ orphans' = IF current /\ ~timerRunning THEN orphans + 1 ELSE orphans
    /\ UNCHANGED expired

\* All of them run for the same time, so the oldest timer expires first.
TimerExpires ==
    /\ \/ orphans > 0 /\ orphans' = orphans - 1 /\ UNCHANGED current
       \/ orphans = 0 /\ current /\ current' = FALSE /\ UNCHANGED orphans
    /\ expired' = expired + 1
    /\ pushed' = None
    /\ UNCHANGED <<contexts, bits, Index, Delta, led, timerRunning,
                   sample, reports, quiet, heard>>

DisableKeyPadLed ==
    /\ Index = 0 /\ expired > 0
    /\ expired' = expired - 1
    /\ led' = FALSE /\ timerRunning' = FALSE
    /\ pushed' = None
    /\ UNCHANGED <<contexts, bits, Index, Delta, current, orphans,
                   sample, reports, quiet, heard>>

-----------------------------------------------------------------------------
(* KeypadDeviceImplGetKeys and KeypadDeviceImplReset.                      *)

BeginPoll ==
    /\ Index = 0
    /\ Index' = 1
    /\ Delta' \in Deltas
    /\ pushed' = None
    /\ UNCHANGED <<contexts, bits, ledVars, sample, reports, quiet, heard>>

\* One round of the loop; pressed is what the GPIO says.
PollKey(pressed) ==
    /\ Index > 0
    /\ LET k == KeyList[Index]
       IN  /\ sample' = IF pressed THEN sample \union {k} ELSE sample \ {k}
           /\ IF pressed /\ k \notin {VolumeUp, VolumeDown}
              THEN EnableKeypadLedWithTimer
              ELSE UNCHANGED ledVars
           /\ LibKeyUpdateKeyStatus(k, pressed)
    /\ IF Index = Len(KeyList)
       THEN Index' = 0 /\ Delta' = 0
       ELSE Index' = Index + 1 /\ UNCHANGED Delta

\* The bitmaps and the LED keep what they had.
KeypadDeviceImplReset ==
    /\ Index = 0
    /\ State' = [k \in Keys |-> "RELEASED"]
    /\ Time' = [k \in Keys |-> 0]
    /\ Repeat' = [k \in Keys |-> FALSE]
    /\ Longpress' = [k \in Keys |-> FALSE]
    /\ pushed' = None
    /\ UNCHANGED <<bits, Index, Delta, ledVars, sample, reports, quiet, heard>>

DeviceNext ==
    \/ BeginPoll
    \/ \E pressed \in BOOLEAN : PollKey(pressed)
    \/ KeypadDeviceImplReset
    \/ TimerExpires
    \/ DisableKeyPadLed

DeviceSpec == DeviceInit /\ [][DeviceNext]_deviceVars

-----------------------------------------------------------------------------
(* Properties.                                                             *)

DeviceTypeOK ==
    /\ State \in [Keys -> {"RELEASED", "PRESSED", "LONGPRESS_RELEASE"}]
    /\ Time \in [Keys -> 0 .. LongpressTime]
    /\ Repeat \in [Keys -> BOOLEAN] /\ Longpress \in [Keys -> BOOLEAN]
    /\ scanBits \subseteq ScanKeys /\ charBit \in BOOLEAN
    /\ Index \in 0 .. Len(KeyList) /\ Delta \in Deltas \union {0}
    /\ led \in BOOLEAN /\ timerRunning \in BOOLEAN /\ current \in BOOLEAN
    /\ orphans \in Nat /\ expired \in Nat
    /\ pushed \in Keys \union {Combos[i] : i \in 1 .. 3} \union {None}
    /\ sample \subseteq Keys /\ heard \subseteq Keys
    /\ reports \in [Keys -> 0 .. 2]
    /\ quiet \in [Keys -> 0 .. LongpressTime]

\* The type invariant, and what KEY_CONTEXT keeps between two polls: only a
\* pressed key repeats or is in a long press, and a key repeats only after its
\* long press began (LibKeyUpdateKeyStatus).
ContextsOK ==
    /\ DeviceTypeOK
    /\ \A k \in Keys :
         /\ Longpress[k] => State[k] = "PRESSED"
         /\ Repeat[k] => Longpress[k]

\* The key that a step polls.
Polled == KeyList[Index]
Reports == Index > 0 /\ pushed' # None

\* Two reports of one press are RepeatTime apart or more, however the polls
\* fall and whatever the other keys do.
ReportsPaced ==
    [][Reports /\ reports[Polled] > 0
       => After(quiet[Polled], Delta) >= RepeatTime]_deviceVars

\* A short press is reported once, at its release: nothing is reported before,
\* and a key that waits to settle has had its report.
TapReportedOnce ==
    \A k \in Keys :
      /\ State[k] = "PRESSED" /\ ~Longpress[k] => reports[k] = 0
      /\ State[k] = "LONGPRESS_RELEASE" => reports[k] = 1

\* The end of a press is reported only when the press was not reported before.
ReleaseReportsFirst ==
    [][Reports /\ Polled \notin sample' => reports[Polled] = 0]_deviceVars

\* Holding the dial key reports one character, however long it is held.
DialReportsOnce == reports[Dial] <= 1

\* The character that the dial key reports is the one for the volume keys as
\* they were sampled last, not as they were some polls ago.
ComboMatchesVolume ==
    [][/\ pushed' = Combos[1] => VolumeDown \in sample'
       /\ pushed' = Combos[2] => sample' \intersect {VolumeUp, VolumeDown}
                                   = {VolumeUp}
       /\ pushed' = Combos[3] => sample' \intersect {VolumeUp, VolumeDown}
                                   = {}]_deviceVars

\* The LED does not stay on: while it is lit a timer is armed, or the callback
\* of one that expired is about to run.
LedNotStuck == led => current \/ orphans > 0 \/ expired > 0

\* "we reported another key already", the comment at the release of a key in a
\* long press says: some key was reported since the press began, or the dial
\* key of a combo still is down and will be.
HeldKeyWasReported ==
    [][\A k \in Keys :
         (State[k] = "PRESSED" /\ Longpress[k] /\ State'[k] = "RELEASED"
          /\ Index > 0)
         => k \in heard \/ State[Dial] # "RELEASED"]_deviceVars

=============================================================================
