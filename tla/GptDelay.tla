------------------------------ MODULE GptDelay ------------------------------
(***************************************************************************)
(* MicroSecondDelay of GPTTimerLib: it waits until a counter that begins   *)
(* again at zero comes to a value computed in advance, and reads it as     *)
(* often as interrupts and callbacks let it.                               *)
(***************************************************************************)
EXTENDS Integers

CONSTANTS Turn,   \* number of values of GPT_COUNT_VAL, 2^32
          Delays, \* in ticks
          MaxGap  \* bound on the ticks between two reads

VARIABLES now,     \* GPT_COUNT_VAL
          wait,    \* where the function is, Count, InitCount, Timeout, Ticks
          elapsed, \* history: ticks since the function began, or at least 2 * Turn
          gap      \* ticks since the last read

delayVars == <<now, wait, elapsed, gap>>

\* A delay is shorter than a turn, which takes 36 hours.
DelayAssumption ==
    /\ Turn \in Nat \ {0} /\ Delays \subseteq 0 .. Turn - 1
    /\ MaxGap \in 1 .. Turn - 1

\* The counter has 32 bits.
Turned(n) == n % Turn

Waits == wait.at \in {"wrap", "reach"}

Least(m, n) == IF m < n THEN m ELSE n

Tick(n) ==
    /\ gap + n <= MaxGap
    /\ now' = Turned(now + n)
    /\ IF Waits THEN gap' = gap + n /\ elapsed' = Least(elapsed + n, 2 * Turn)
       ELSE UNCHANGED <<gap, elapsed>>
    /\ UNCHANGED wait

MicroSecondDelay(ticks) ==
    /\ ~Waits
    /\ wait' = [at |-> "wrap", Count |-> now, InitCount |-> now,
                Timeout |-> Turned(now + ticks), Ticks |-> ticks]
    /\ elapsed' = 0 /\ gap' = 0
    /\ UNCHANGED now

\* Mutant: the counter is not expected to begin again.
NeverTurns == FALSE

\* The condition of the first loop: Timeout is in the next turn, which has not begun.
NotTurnedYet == wait.Timeout < wait.Count /\ wait.InitCount <= wait.Count

Read ==
    /\ wait' = [wait EXCEPT !.Count = now] /\ gap' = 0
    /\ UNCHANGED <<now, elapsed>>

WaitForTurn == wait.at = "wrap" /\ NotTurnedYet /\ Read

Goes(at) == wait' = [wait EXCEPT !.at = at] /\ UNCHANGED <<now, elapsed, gap>>

EndOfTurn == wait.at = "wrap" /\ ~NotTurnedYet /\ Goes("reach")

WaitForTimeout == wait.at = "reach" /\ wait.Timeout > wait.Count /\ Read

Return == wait.at = "reach" /\ wait.Timeout <= wait.Count /\ Goes("returned")

Init ==
    /\ now \in 0 .. Turn - 1
    /\ wait = [at |-> "none", Count |-> 0, InitCount |-> 0, Timeout |-> 0, Ticks |-> 0]
    /\ elapsed = 0 /\ gap = 0

Next ==
    \/ \E n \in 1 .. MaxGap : Tick(n)
    \/ \E ticks \in Delays : MicroSecondDelay(ticks)
    \/ WaitForTurn \/ EndOfTurn \/ WaitForTimeout \/ Return

Spec == Init /\ [][Next]_delayVars

-----------------------------------------------------------------------------
(* Properties.                                                             *)

\* A delay is never too short, wherever the counter is when it begins and however
\* seldom it is read.
LongEnough == wait.at = "returned" => elapsed >= wait.Ticks

\* It is too long by one gap between reads at most, unless it ends so near the end
\* of a turn that no read need fall between: then it may take a turn more.
NotTooLong ==
    wait.at = "returned" /\ wait.Timeout + MaxGap <= Turn /\ wait.Ticks + MaxGap <= Turn
        => elapsed < wait.Ticks + 2 * MaxGap
=============================================================================
