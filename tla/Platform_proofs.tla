--------------------------- MODULE Platform_proofs ---------------------------
(***************************************************************************)
(* The invariants of the components of Platform but GraphicsConsole, for   *)
(* all values of their constants.                                          *)
(***************************************************************************)
EXTENDS Platform, SequenceLemmas, FiniteSetTheorems

MiceProofs == INSTANCE Pointers_proofs WITH PointerOf <- [d \in DOMAIN Resolution |-> "simple"]
TouchProofs ==
    INSTANCE Pointers_proofs WITH PointerOf <- [d \in DOMAIN Resolution |-> "absolute"]

-----------------------------------------------------------------------------
(* Each component makes its own steps or none.                             *)

LEMMA ComponentSteps ==
    ASSUME [Next]_vars
    PROVE  /\ [Irq!Next]_irqVars
           /\ [Modem!Next]_pcomVars
           /\ [Life!Next]_lifeVars
           /\ [Delay!Next]_delayVars
           /\ [Frame!Next]_frameVars
           /\ [Serial!Next]_serialVars
  BY DEF Next, InterruptsMove, ModemMoves, PointersMove, FrameMoves, SerialMoves,
         ConsoleMoves, LifeMoves, DelayMoves, vars, irqVars, pcomVars,
         lifeVars, delayVars, frameVars, serialVars

-----------------------------------------------------------------------------
(* GptDelay: a delay is never too short, for a counter of any size, delays *)
(* of any length below a turn, and reads at any distance below a turn.     *)

\* What a counter shows that was at n and has gone on less than a turn.
Later(n, ticks) == IF n + ticks < Turn THEN n + ticks ELSE n + ticks - Turn

\* The counter begins again at most once in less than a turn.
LEMMA TurnedOnce ==
  ASSUME Delay!DelayAssumption, NEW n \in 0 .. Turn - 1, NEW ticks \in 0 .. Turn - 1
  PROVE  Delay!Turned(n + ticks) = Later(n, ticks)
<1>1. Turn \in Nat \ {0}
  BY DEF Delay!DelayAssumption
<1>2. CASE n + ticks < Turn
  BY <1>1, <1>2, SMT DEF Delay!Turned, Later
<1>3. CASE n + ticks >= Turn
  <2>1. (n + ticks) % Turn = (n + ticks - Turn) % Turn
    BY <1>1, <1>3, SMT
  <2> QED
    BY <1>1, <1>3, <2>1, SMT DEF Delay!Turned, Later
<1> QED
  BY <1>1, <1>2, <1>3, SMT

-----------------------------------------------------------------------------

DelayTypes ==
    /\ now \in 0 .. Turn - 1 /\ elapsed \in 0 .. 2 * Turn /\ gap \in Nat
    /\ wait \in [at : {"none", "wrap", "reach", "returned"}, Count : 0 .. Turn - 1,
                 InitCount : 0 .. Turn - 1, Timeout : 0 .. Turn - 1, Ticks : 0 .. Turn - 1]

\* What the counter shows follows from the time that has passed, and what was read
\* last is not after that.  Once time is up nothing more need be known.
CountIsPast ==
    Delay!Waits /\ elapsed < Turn =>
      /\ now = Later(wait.InitCount, elapsed)
      /\ \/ /\ wait.InitCount <= wait.Count
            /\ (wait.InitCount + elapsed < Turn => wait.Count <= now)
         \/ /\ wait.Count < wait.InitCount
            /\ wait.InitCount + elapsed >= Turn
            /\ wait.Count <= now

\* The first loop is left at once if the delay ends in this turn, else after the end
\* of it.
TurnIsOver ==
    /\ Delay!Waits => wait.Timeout = Later(wait.InitCount, wait.Ticks)
    /\ wait.at = "wrap" /\ wait.InitCount + wait.Ticks < Turn
          => wait.Count = wait.InitCount
    /\ wait.at = "reach" /\ wait.InitCount + wait.Ticks >= Turn /\ elapsed < Turn
          => wait.Count < wait.InitCount

DelayInv == DelayTypes /\ CountIsPast /\ TurnIsOver /\ Delay!LongEnough

\* DelayInv: as long as MicroSecondDelay waits, the count it read last, Timeout and the
\* loop it is in agree on whether the counter has begun again.
LEMMA DelayInvariant ==
  ASSUME Delay!DelayAssumption
  PROVE  Delay!Spec => []DelayInv
<1>0. /\ Turn \in Nat \ {0} /\ MaxGap \in 1 .. Turn - 1
      /\ \A d \in Delays : d \in 0 .. Turn - 1
  BY DEF Delay!DelayAssumption
<1>1. Delay!Init => DelayInv
  BY <1>0, SMT DEF Delay!Init, DelayInv, DelayTypes, CountIsPast, TurnIsOver,
                   Delay!LongEnough, Delay!Waits
<1>2. DelayInv /\ [Delay!Next]_delayVars => DelayInv'
  <2> SUFFICES ASSUME DelayInv, [Delay!Next]_delayVars
               PROVE  DelayInv'
    OBVIOUS
  <2> USE <1>0 DEF DelayInv
  <2>1. ASSUME NEW n \in 1 .. MaxGap, Delay!Tick(n)
        PROVE  DelayInv'
    <3>1. now' = Later(now, n)
      BY <2>1, TurnedOnce, SMT DEF Delay!Tick, DelayTypes
    <3>2. /\ n \in Nat /\ wait' = wait
          /\ Delay!Waits => elapsed' = Delay!Least(elapsed + n, 2 * Turn) /\ gap' = gap + n
          /\ ~Delay!Waits => elapsed' = elapsed /\ gap' = gap
      BY <2>1 DEF Delay!Tick
    <3>3. /\ elapsed' \in 0 .. 2 * Turn /\ elapsed' >= elapsed
          /\ elapsed' < Turn /\ Delay!Waits => elapsed' = elapsed + n
      BY <3>2, SMT DEF Delay!Least, DelayTypes
    <3>4. DelayTypes'
      BY <3>1, <3>2, <3>3, SMT DEF DelayTypes, Later
    <3>5. CountIsPast'
      BY <3>1, <3>2, <3>3, SMT DEF DelayTypes, CountIsPast, Later, Delay!Waits
    <3>6. TurnIsOver' /\ Delay!LongEnough'
      BY <3>2, <3>3, SMT DEF DelayTypes, TurnIsOver, Delay!LongEnough, Delay!Waits, Later
    <3> QED
      BY <3>4, <3>5, <3>6
  <2>2. ASSUME NEW ticks \in Delays, Delay!MicroSecondDelay(ticks)
        PROVE  DelayInv'
    <3>1. Delay!Turned(now + ticks) = Later(now, ticks)
      BY TurnedOnce, SMT DEF DelayTypes
    <3> QED
      BY <2>2, <3>1, SMT DEF Delay!MicroSecondDelay, DelayTypes, CountIsPast, TurnIsOver,
                             Delay!LongEnough,
                             Delay!Waits, Later
  <2>3. CASE Delay!WaitForTurn
    BY <2>3, SMT DEF Delay!WaitForTurn, Delay!Read, Delay!NotTurnedYet, DelayTypes,
                     CountIsPast, TurnIsOver,
                     Delay!LongEnough, Delay!Waits, Later
  <2>4. CASE Delay!EndOfTurn
    BY <2>4, SMT DEF Delay!EndOfTurn, Delay!Goes, Delay!NotTurnedYet, DelayTypes,
                     CountIsPast, TurnIsOver,
                     Delay!LongEnough, Delay!Waits, Later
  <2>5. CASE Delay!WaitForTimeout
    <3>1. /\ wait' = [wait EXCEPT !.Count = now] /\ gap' = 0
          /\ UNCHANGED <<now, elapsed>> /\ wait.at = "reach"
      BY <2>5 DEF Delay!WaitForTimeout, Delay!Read
    <3>2. DelayTypes' /\ Delay!LongEnough'
      BY <3>1, SMT DEF DelayTypes, Delay!LongEnough
    <3>3. CountIsPast'
      BY <3>1, SMT DEF DelayTypes, CountIsPast, Delay!Waits, Later
    <3>4. TurnIsOver'
      BY <3>1, SMT DEF DelayTypes, CountIsPast, TurnIsOver, Delay!Waits, Later
    <3> QED
      BY <3>2, <3>3, <3>4
  <2>6. CASE Delay!Return
    <3>1. /\ wait' = [wait EXCEPT !.at = "returned"] /\ wait.at = "reach"
          /\ wait.Timeout <= wait.Count /\ UNCHANGED <<now, elapsed, gap>>
      BY <2>6 DEF Delay!Return, Delay!Goes
    <3>2. elapsed >= wait.Ticks
      <4>1. CASE elapsed >= Turn
        BY <4>1, SMT DEF DelayTypes
      <4>2. CASE elapsed < Turn /\ wait.InitCount + wait.Ticks < Turn
        BY <3>1, <4>2, SMT DEF DelayTypes, CountIsPast, TurnIsOver, Delay!Waits, Later
      <4>3. CASE elapsed < Turn /\ wait.InitCount + wait.Ticks >= Turn
        BY <3>1, <4>3, SMT DEF DelayTypes, CountIsPast, TurnIsOver, Delay!Waits, Later
      <4> QED
        BY <4>1, <4>2, <4>3, SMT DEF DelayTypes
    <3>3. DelayTypes' /\ Delay!LongEnough'
      BY <3>1, <3>2, SMT DEF DelayTypes, Delay!LongEnough
    <3>4. CountIsPast' /\ TurnIsOver'
      BY <3>1, SMT DEF DelayTypes, CountIsPast, TurnIsOver, Delay!Waits
    <3> QED
      BY <3>3, <3>4
  <2>7. CASE UNCHANGED delayVars
    BY <2>7 DEF delayVars, DelayTypes, CountIsPast, TurnIsOver, Delay!LongEnough, Delay!Waits
  <2> QED
    BY <2>1, <2>2, <2>3, <2>4, <2>5, <2>6, <2>7 DEF Delay!Next
<1> QED
  BY <1>1, <1>2, PTL DEF Delay!Spec, Delay!delayVars, delayVars

\* LongEnough: a delay is never too short.
THEOREM DelayLongEnough ==
  ASSUME Delay!DelayAssumption
  PROVE  Delay!Spec => []Delay!LongEnough
<1>1. DelayInv => Delay!LongEnough
  BY DEF DelayInv
<1> QED
  BY <1>1, DelayInvariant, PTL

-----------------------------------------------------------------------------

\* The delays of which NotTooLong speaks: no read need fall after the end of the turn.
EndsInTime == wait.Timeout + MaxGap <= Turn /\ wait.Ticks + MaxGap <= Turn

\* When the counter was read last.
LastRead == elapsed - gap

\* A read comes at most one gap after time is up, and the count tells then that it is:
\* in the second loop it is the one of the turn in which the delay ends.
ReadInTime ==
    /\ gap <= MaxGap
    /\ Delay!Waits /\ EndsInTime =>
         /\ LastRead \in 0 .. wait.Ticks + MaxGap - 1
         /\ wait.Count = Later(wait.InitCount, LastRead)
         /\ wait.at = "reach" /\ wait.InitCount + wait.Ticks >= Turn
              => wait.Count < wait.InitCount

PromptInv == ReadInTime /\ Delay!NotTooLong

\* PromptInv: after time is up, MicroSecondDelay reads the counter once at most.
LEMMA PromptInvariant ==
  ASSUME Delay!DelayAssumption
  PROVE  Delay!Spec => []PromptInv
<1>0. /\ Turn \in Nat \ {0} /\ MaxGap \in 1 .. Turn - 1
      /\ \A d \in Delays : d \in 0 .. Turn - 1
  BY DEF Delay!DelayAssumption
<1>1. Delay!Init => PromptInv
  BY <1>0, SMT DEF Delay!Init, PromptInv, ReadInTime, Delay!NotTooLong, Delay!Waits
<1>2. PromptInv /\ DelayInv /\ [Delay!Next]_delayVars => PromptInv'
  <2> SUFFICES ASSUME PromptInv, DelayInv, [Delay!Next]_delayVars
               PROVE  PromptInv'
    OBVIOUS
  <2> USE <1>0 DEF PromptInv
  <2>0. DelayTypes /\ TurnIsOver
    BY DEF DelayInv
  <2>1. ASSUME NEW n \in 1 .. MaxGap, Delay!Tick(n)
        PROVE  PromptInv'
    <3>1. /\ wait' = wait /\ gap + n <= MaxGap /\ n \in Nat
          /\ Delay!Waits => gap' = gap + n /\ elapsed' = Delay!Least(elapsed + n, 2 * Turn)
          /\ ~Delay!Waits => gap' = gap /\ elapsed' = elapsed
      BY <2>1 DEF Delay!Tick
    <3>2. Delay!NotTooLong'
      BY <3>1 DEF Delay!NotTooLong, Delay!Waits
    <3>3. gap' <= MaxGap
      BY <2>0, <3>1, SMT DEF ReadInTime, DelayTypes
    <3>4. Delay!Waits /\ EndsInTime => LastRead' = LastRead
      BY <2>0, <3>1, SMT DEF ReadInTime, DelayTypes, LastRead, Delay!Least, EndsInTime
    <3>5. ReadInTime'
      BY <3>1, <3>3, <3>4, SMT DEF ReadInTime, Delay!Waits, EndsInTime, Later
    <3> QED
      BY <3>2, <3>5
  <2>2. ASSUME NEW ticks \in Delays, Delay!MicroSecondDelay(ticks)
        PROVE  PromptInv'
    BY <2>0, <2>2, SMT DEF Delay!MicroSecondDelay, DelayTypes, ReadInTime,
                           Delay!NotTooLong, Delay!Waits,
                           LastRead, EndsInTime, Later
  <2>3. CASE Delay!WaitForTurn
    <3>1. /\ wait' = [wait EXCEPT !.Count = now] /\ gap' = 0
          /\ UNCHANGED <<now, elapsed>> /\ wait.at = "wrap"
          /\ wait.Timeout < wait.Count /\ wait.InitCount <= wait.Count
      BY <2>3 DEF Delay!WaitForTurn, Delay!Read, Delay!NotTurnedYet
    <3>2. EndsInTime => elapsed < wait.Ticks + MaxGap
      BY <2>0, <3>1, SMT DEF ReadInTime, DelayTypes, TurnIsOver, LastRead, EndsInTime, Later,
                             Delay!Waits
    <3>3. EndsInTime => now = Later(wait.InitCount, elapsed)
      BY <2>0, <3>1, <3>2, SMT DEF DelayInv, CountIsPast, DelayTypes, EndsInTime, Delay!Waits
    <3> QED
      BY <2>0, <3>1, <3>2, <3>3, SMT DEF ReadInTime, Delay!NotTooLong, DelayTypes, LastRead,
                                         EndsInTime, Delay!Waits
  <2>4. CASE Delay!EndOfTurn
    <3>1. /\ wait' = [wait EXCEPT !.at = "reach"] /\ wait.at = "wrap"
          /\ ~(wait.Timeout < wait.Count /\ wait.InitCount <= wait.Count)
          /\ UNCHANGED <<now, elapsed, gap>>
      BY <2>4 DEF Delay!EndOfTurn, Delay!Goes, Delay!NotTurnedYet
    <3> QED
      BY <2>0, <3>1, SMT DEF ReadInTime, Delay!NotTooLong, DelayTypes, TurnIsOver, LastRead,
                             EndsInTime, Delay!Waits, Later
  <2>5. CASE Delay!WaitForTimeout
    <3>1. /\ wait' = [wait EXCEPT !.Count = now] /\ gap' = 0
          /\ UNCHANGED <<now, elapsed>> /\ wait.at = "reach"
          /\ wait.Timeout > wait.Count
      BY <2>5 DEF Delay!WaitForTimeout, Delay!Read
    <3>2. EndsInTime => LastRead < wait.Ticks
      BY <2>0, <3>1, SMT DEF ReadInTime, DelayTypes, TurnIsOver, LastRead, EndsInTime, Later,
                             Delay!Waits
    <3>3. EndsInTime => elapsed < wait.Ticks + MaxGap
      BY <2>0, <3>2, SMT DEF ReadInTime, DelayTypes, LastRead
    <3>4. EndsInTime => now = Later(wait.InitCount, elapsed)
      BY <2>0, <3>1, <3>3, SMT DEF DelayInv, CountIsPast, DelayTypes, EndsInTime, Delay!Waits
    <3>5. EndsInTime /\ wait.InitCount + wait.Ticks >= Turn => now < wait.InitCount
      BY <2>0, <3>1, <3>3, <3>4, SMT DEF ReadInTime, DelayTypes, LastRead, EndsInTime, Later,
                                         Delay!Waits
    <3> QED
      BY <2>0, <3>1, <3>3, <3>4, <3>5, SMT DEF ReadInTime, Delay!NotTooLong, DelayTypes,
                                               LastRead,
                                               EndsInTime, Delay!Waits
  <2>6. CASE Delay!Return
    <3>1. /\ wait' = [wait EXCEPT !.at = "returned"] /\ wait.at = "reach"
          /\ UNCHANGED <<now, elapsed, gap>>
      BY <2>6 DEF Delay!Return, Delay!Goes
    <3> QED
      BY <2>0, <3>1, SMT DEF ReadInTime, Delay!NotTooLong, DelayTypes, LastRead,
                             EndsInTime, Delay!Waits
  <2>7. CASE UNCHANGED delayVars
    BY <2>7 DEF delayVars, ReadInTime, Delay!NotTooLong, LastRead, EndsInTime, Delay!Waits
  <2> QED
    BY <2>1, <2>2, <2>3, <2>4, <2>5, <2>6, <2>7 DEF Delay!Next
<1> QED
  BY <1>1, <1>2, DelayInvariant, PTL DEF Delay!Spec, Delay!delayVars, delayVars

\* NotTooLong: a delay ends within two gaps between reads after its time, unless it ends
\* near the end of a turn.
THEOREM DelayNotTooLong ==
  ASSUME Delay!DelayAssumption
  PROVE  Delay!Spec => []Delay!NotTooLong
<1>1. PromptInv => Delay!NotTooLong
  BY DEF PromptInv
<1> QED
  BY <1>1, PromptInvariant, PTL

\* DelayKept: a delay is never too short, and too long by little.
THEOREM DelaysKept == Spec => []DelayKept
<1>1. Delay!DelayAssumption
  BY PlatformAssumption
<1>2. Spec => Delay!Spec
  <2>1. Init => Delay!Init
    BY DEF Init
  <2>2. [Next]_vars => [Delay!Next]_delayVars
    BY ComponentSteps
  <2> QED
    BY <2>1, <2>2, PTL DEF Spec, Delay!Spec, Delay!delayVars, delayVars
<1> QED
  BY <1>1, <1>2, DelayLongEnough, DelayNotTooLong, PTL DEF DelayKept

-----------------------------------------------------------------------------
(* Pointers.                                                               *)

LEMMA PointerSteps ==
    ASSUME [Next]_vars
    PROVE  /\ moving' = moving
           /\ moving = "mice" => [Mice!Next]_pointerVars
           /\ moving = "touch" => [Touch!Next]_pointerVars
  BY DEF Next, InterruptsMove, ModemMoves, PointersMove, FrameMoves, SerialMoves,
         ConsoleMoves, LifeMoves, DelayMoves, vars, pointerVars

\* The pointers that were proved about are those of Platform.
LEMMA MiceAreProved ==
    /\ Mice!PointersAssumption => MiceProofs!PointersAssumption
    /\ Mice!Init = MiceProofs!Init /\ Mice!Next = MiceProofs!Next
    /\ pointerVars = MiceProofs!pointerVars
    /\ Mice!MovementAddsUp = MiceProofs!MovementAddsUp
    /\ Mice!SignalHasInput = MiceProofs!SignalHasInput
    /\ Mice!ListedAreOpen = MiceProofs!ListedAreOpen
  BY Zenon DEF pointerVars, Mice!Init, MiceProofs!Init, Mice!Next, MiceProofs!Next,
               Mice!pointerVars,
         MiceProofs!pointerVars, Mice!PointersAssumption, MiceProofs!PointersAssumption,
         Mice!MovementAddsUp, MiceProofs!MovementAddsUp, Mice!SignalHasInput,
         MiceProofs!SignalHasInput, Mice!ListedAreOpen, MiceProofs!ListedAreOpen,
         Mice!DriverBindingStart, MiceProofs!DriverBindingStart, Mice!DriverBindingStop,
         MiceProofs!DriverBindingStop, Mice!AddDevice, MiceProofs!AddDevice,
         Mice!DeleteDevice, MiceProofs!DeleteDevice, Mice!Reset, MiceProofs!Reset,
         Mice!GetState, MiceProofs!GetState, Mice!WaitForInput, MiceProofs!WaitForInput,
         Mice!Moves, MiceProofs!Moves, Mice!Fails, MiceProofs!Fails, Mice!ClearsFlag,
         MiceProofs!ClearsFlag, Mice!Answers, MiceProofs!Answers, Mice!StatusOf,
         MiceProofs!StatusOf, Mice!Movement, MiceProofs!Movement, Mice!Movements,
         MiceProofs!Movements, Mice!Position, MiceProofs!Position, Mice!Waiting,
         MiceProofs!Waiting, Mice!Emptied, MiceProofs!Emptied, Mice!Listed,
         MiceProofs!Listed, Mice!HasInput, MiceProofs!HasInput, Mice!Scaled,
         MiceProofs!Scaled, Mice!Rescaled, MiceProofs!Rescaled, Mice!Devices,
         MiceProofs!Devices, Mice!Kinds, MiceProofs!Kinds, Mice!IsFiniteSet,
         MiceProofs!IsFiniteSet, Mice!ToSet, MiceProofs!ToSet, Mice!Last,
         MiceProofs!Last, Mice!IsInjective, MiceProofs!IsInjective, Mice!RemoveFirst,
         MiceProofs!RemoveFirst, Mice!RemoveAt, MiceProofs!RemoveAt, Mice!SelectInSeq,
         MiceProofs!SelectInSeq, Mice!Min, MiceProofs!Min, Mice!SumFunctionOnSet,
         MiceProofs!SumFunctionOnSet, Mice!FoldFunctionOnSet,
         MiceProofs!FoldFunctionOnSet, Mice!MapThenFoldSet, MiceProofs!MapThenFoldSet

\* The pointers that were proved about are those of Platform.
LEMMA TouchAreProved ==
    /\ Touch!PointersAssumption => TouchProofs!PointersAssumption
    /\ Touch!Init = TouchProofs!Init /\ Touch!Next = TouchProofs!Next
    /\ pointerVars = TouchProofs!pointerVars
    /\ Touch!MovementAddsUp = TouchProofs!MovementAddsUp
    /\ Touch!SignalHasInput = TouchProofs!SignalHasInput
    /\ Touch!ListedAreOpen = TouchProofs!ListedAreOpen
  BY Zenon DEF pointerVars, Touch!Init, TouchProofs!Init, Touch!Next, TouchProofs!Next,
         Touch!pointerVars, TouchProofs!pointerVars, Touch!PointersAssumption,
         TouchProofs!PointersAssumption, Touch!MovementAddsUp,
         TouchProofs!MovementAddsUp, Touch!SignalHasInput, TouchProofs!SignalHasInput,
         Touch!ListedAreOpen, TouchProofs!ListedAreOpen, Touch!DriverBindingStart,
         TouchProofs!DriverBindingStart, Touch!DriverBindingStop,
         TouchProofs!DriverBindingStop, Touch!AddDevice, TouchProofs!AddDevice,
         Touch!DeleteDevice, TouchProofs!DeleteDevice, Touch!Reset, TouchProofs!Reset,
         Touch!GetState, TouchProofs!GetState, Touch!WaitForInput,
         TouchProofs!WaitForInput, Touch!Moves, TouchProofs!Moves, Touch!Fails,
         TouchProofs!Fails, Touch!ClearsFlag, TouchProofs!ClearsFlag, Touch!Answers,
         TouchProofs!Answers, Touch!StatusOf, TouchProofs!StatusOf, Touch!Movement,
         TouchProofs!Movement, Touch!Movements, TouchProofs!Movements, Touch!Position,
         TouchProofs!Position, Touch!Waiting, TouchProofs!Waiting, Touch!Emptied,
         TouchProofs!Emptied, Touch!Listed, TouchProofs!Listed, Touch!HasInput,
         TouchProofs!HasInput, Touch!Scaled, TouchProofs!Scaled, Touch!Rescaled,
         TouchProofs!Rescaled, Touch!Devices, TouchProofs!Devices, Touch!Kinds,
         TouchProofs!Kinds, Touch!IsFiniteSet, TouchProofs!IsFiniteSet, Touch!ToSet,
         TouchProofs!ToSet, Touch!Last, TouchProofs!Last, Touch!IsInjective,
         TouchProofs!IsInjective, Touch!RemoveFirst, TouchProofs!RemoveFirst,
         Touch!RemoveAt, TouchProofs!RemoveAt, Touch!SelectInSeq,
         TouchProofs!SelectInSeq, Touch!Min, TouchProofs!Min, Touch!SumFunctionOnSet,
         TouchProofs!SumFunctionOnSet, Touch!FoldFunctionOnSet,
         TouchProofs!FoldFunctionOnSet, Touch!MapThenFoldSet, TouchProofs!MapThenFoldSet

\* PointerInputKept: for any devices, resolutions and units, movement is read, waiting or
\* was dropped with an error, a signalled event has input, and no list is longer than
\* its buffer.
THEOREM InputIsKept == Spec => []PointerInputKept
<1> DEFINE MiceInv == moving = "mice" => MiceProofs!PointersInv
           TouchInv == moving = "touch" => TouchProofs!PointersInv
<1>1. MiceProofs!PointersAssumption /\ TouchProofs!PointersAssumption
  BY PlatformAssumption, MiceAreProved, TouchAreProved
<1>2. Init => MiceInv /\ TouchInv
  <2> SUFFICES ASSUME Init PROVE MiceInv /\ TouchInv
    OBVIOUS
  <2>1. MiceProofs!Init
    BY MiceAreProved DEF Init
  <2>2. TouchProofs!Init
    <3>1. Mice!Devices = Touch!Devices /\ Mice!Kinds = Touch!Kinds
      BY DEF Mice!Devices, Touch!Devices, Mice!Kinds, Touch!Kinds
    <3>2. Mice!Init
      BY DEF Init
    <3>3. Touch!Init
      BY <3>1, <3>2, Zenon DEF Mice!Init, Touch!Init
    <3> QED
      BY <3>3, TouchAreProved
  <2> QED
    BY <1>1, <2>1, <2>2, MiceProofs!PointersInitInv, TouchProofs!PointersInitInv
<1>3. MiceInv /\ TouchInv /\ [Next]_vars => (MiceInv /\ TouchInv)'
  <2> SUFFICES ASSUME MiceInv, TouchInv, [Next]_vars PROVE (MiceInv /\ TouchInv)'
    OBVIOUS
  <2>1. CASE moving = "mice"
    <3>1. [MiceProofs!Next]_(MiceProofs!pointerVars)
      <4>1. [Mice!Next]_pointerVars
        BY <2>1, PointerSteps
      <4>2. Mice!Next = MiceProofs!Next /\ pointerVars = MiceProofs!pointerVars
        BY MiceAreProved
      <4>3. pointerVars' = MiceProofs!pointerVars'
        BY DEF pointerVars, MiceProofs!pointerVars
      <4> QED
        BY <4>1, <4>2, <4>3, Zenon
    <3>2. MiceProofs!PointersInv'
      BY <1>1, <2>1, <3>1, MiceProofs!PointersStepInv
    <3>3. moving' = "mice"
      BY <2>1, PointerSteps
    <3> QED
      BY <3>2, <3>3
  <2>2. CASE moving = "touch"
    <3>1. [TouchProofs!Next]_(TouchProofs!pointerVars)
      <4>1. [Touch!Next]_pointerVars
        BY <2>2, PointerSteps
      <4>2. Touch!Next = TouchProofs!Next /\ pointerVars = TouchProofs!pointerVars
        BY TouchAreProved
      <4>3. pointerVars' = TouchProofs!pointerVars'
        BY DEF pointerVars, TouchProofs!pointerVars
      <4> QED
        BY <4>1, <4>2, <4>3, Zenon
    <3>2. TouchProofs!PointersInv'
      BY <1>1, <2>2, <3>1, TouchProofs!PointersStepInv
    <3>3. moving' = "touch"
      BY <2>2, PointerSteps
    <3> QED
      BY <3>2, <3>3
  <2>3. CASE moving # "mice" /\ moving # "touch"
    BY <2>3, PointerSteps
  <2> QED
    BY <2>1, <2>2, <2>3
<1>4. MiceInv /\ TouchInv => PointerInputKept
  <2>1. MiceProofs!PointersInv => Mice!MovementAddsUp /\ Mice!SignalHasInput
    BY MiceAreProved DEF MiceProofs!PointersInv
  <2>2. TouchProofs!PointersInv => Touch!ListedAreOpen /\ Touch!SignalHasInput
    BY TouchAreProved DEF TouchProofs!PointersInv
  <2> QED
    BY <2>1, <2>2 DEF PointerInputKept
<1> HIDE DEF MiceInv, TouchInv
<1> QED
  BY <1>2, <1>3, <1>4, PTL DEF Spec

-----------------------------------------------------------------------------
(* KeypadLife.                                                             *)

\* The last n elements of s.
Rest(s, n) == [k \in 1 .. n |-> s[Len(s) - n + k]]

\* A function takes its steps from the front of what is left.
LEMMA RestFacts ==
    ASSUME NEW S, NEW s \in Seq(S)
    PROVE  /\ Rest(s, Len(s)) = s
           /\ Rest(s, 0) = << >>
           /\ \A n \in 1 .. Len(s) : /\ Rest(s, n) # << >>
                                     /\ Len(Rest(s, n)) = n
                                     /\ Head(Rest(s, n)) = s[Len(s) - n + 1]
                                     /\ Tail(Rest(s, n)) = Rest(s, n - 1)
<1>1. ASSUME NEW n \in 0 .. Len(s)
      PROVE  /\ Rest(s, n) \in Seq(S) /\ Len(Rest(s, n)) = n
             /\ \A k \in 1 .. n : Rest(s, n)[k] = s[Len(s) - n + k]
  <2>1. \A k \in 1 .. n : s[Len(s) - n + k] \in S
    OBVIOUS
  <2>2. Rest(s, n) \in [1 .. n -> S]
    BY <2>1 DEF Rest
  <2>3. Rest(s, n) \in Seq(S) /\ Len(Rest(s, n)) = n
    BY <2>2, SeqDef
  <2> QED
    BY <2>3 DEF Rest
<1>2. Rest(s, Len(s)) = s
  <2>1. /\ Rest(s, Len(s)) \in Seq(S) /\ Len(Rest(s, Len(s))) = Len(s)
        /\ \A k \in 1 .. Len(s) : Rest(s, Len(s))[k] = s[k]
    BY <1>1
  <2> QED
    BY <2>1, SeqEqual
<1>3. Rest(s, 0) = << >>
  <2>1. 0 \in 0 .. Len(s)
    BY LenProperties
  <2>2. Rest(s, 0) \in Seq(S) /\ Len(Rest(s, 0)) = 0
    BY <1>1, <2>1
  <2> QED
    BY <2>2
<1>4. ASSUME NEW n \in 1 .. Len(s)
      PROVE  /\ Rest(s, n) # << >>
             /\ Len(Rest(s, n)) = n
             /\ Head(Rest(s, n)) = s[Len(s) - n + 1]
             /\ Tail(Rest(s, n)) = Rest(s, n - 1)
  <2>1. /\ Rest(s, n) \in Seq(S) /\ Len(Rest(s, n)) = n
        /\ \A k \in 1 .. n : Rest(s, n)[k] = s[Len(s) - n + k]
    BY <1>1
  <2>2. /\ Rest(s, n - 1) \in Seq(S) /\ Len(Rest(s, n - 1)) = n - 1
        /\ \A k \in 1 .. n - 1 : Rest(s, n - 1)[k] = s[Len(s) - (n - 1) + k]
    <3>1. n - 1 \in 0 .. Len(s)
      OBVIOUS
    <3> QED
      BY <1>1, <3>1
  <2> HIDE DEF Rest
  <2>3. Rest(s, n) # << >> /\ Head(Rest(s, n)) = s[Len(s) - n + 1]
    BY <2>1
  <2>4. /\ Tail(Rest(s, n)) \in Seq(S) /\ Len(Tail(Rest(s, n))) = n - 1
        /\ \A k \in 1 .. n - 1 : Tail(Rest(s, n))[k] = Rest(s, n)[k + 1]
    BY <2>1, <2>3
  <2>5. ASSUME NEW k \in 1 .. n - 1 PROVE Tail(Rest(s, n))[k] = Rest(s, n - 1)[k]
    <3>1. Rest(s, n)[k + 1] = s[Len(s) - n + (k + 1)]
      BY <2>1
    <3>2. Len(s) - n + (k + 1) = Len(s) - (n - 1) + k
      OBVIOUS
    <3> QED
      BY <2>2, <2>4, <3>1, <3>2
  <2>6. Tail(Rest(s, n)) = Rest(s, n - 1)
    BY <2>2, <2>4, <2>5, SeqEqual
  <2> QED
    BY <2>1, <2>3, <2>6
<1> QED
  BY <1>2, <1>3, <1>4

\* What the driver may hold.
Things == {"ConsoleIn", "WaitForKey", "WaitForKeyEx", "TimerEvent", "SetTimer",
           "KeyNotifyProcessEvent", "ControllerNameTable", "NotifyList"}

StepNames == Things \union {"Reset", "install", "uninstall"}

\* The steps of the functions, by their place.
LEMMA LifeSteps ==
    /\ Life!StartSteps \in Seq(StepNames) /\ Len(Life!StartSteps) = 9
    /\ Life!ErrorExit \in Seq(StepNames) /\ Len(Life!ErrorExit) = 7
    /\ Life!StopSteps \in Seq(StepNames) /\ Len(Life!StopSteps) = 8
    /\ \A n \in 1 .. 9 : /\ Life!StartSteps[n] = "ConsoleIn" <=> n = 1
                         /\ Life!StartSteps[n] = "KeyNotifyProcessEvent" <=> n = 6
                         /\ Life!StartSteps[n] = "install" <=> n = 9
                         /\ Life!StartSteps[n] # "NotifyList"
                         /\ Life!StartSteps[n] \in {"Reset", "install"} \union Things
    /\ \A n \in 1 .. 7 : /\ Life!ErrorExit[n] = "TimerEvent" <=> n = 2
                         /\ Life!ErrorExit[n] = "ConsoleIn" <=> n = 7
    /\ Things \ {"SetTimer"} \subseteq {Life!ErrorExit[n] : n \in 1 .. 7}
    /\ \A n \in 1 .. 8 : /\ Life!StopSteps[n] = "TimerEvent" <=> n = 1
                         /\ Life!StopSteps[n] = "uninstall" <=> n = 2
                         /\ Life!StopSteps[n] = "ConsoleIn" <=> n = 8
                         /\ Life!StopSteps[n] = "KeyNotifyProcessEvent" <=> n = 5
    /\ Things \ {"SetTimer"} \subseteq {Life!StopSteps[n] : n \in 1 .. 8}
    /\ "uninstall" \notin Things
<1>1. /\ Life!StartSteps \in Seq(StepNames) /\ Len(Life!StartSteps) = 9
      /\ Life!ErrorExit \in Seq(StepNames) /\ Len(Life!ErrorExit) = 7
      /\ Life!StopSteps \in Seq(StepNames) /\ Len(Life!StopSteps) = 8
  <2>1. Life!StartSteps \in Seq(StepNames) /\ Len(Life!StartSteps) = 9
    BY DEF Life!StartSteps, StepNames, Things
  <2>2. Life!ErrorExit \in Seq(StepNames) /\ Len(Life!ErrorExit) = 7
    BY DEF Life!ErrorExit, StepNames, Things
  <2>3. Life!StopSteps \in Seq(StepNames) /\ Len(Life!StopSteps) = 8
    BY DEF Life!StopSteps, StepNames, Things
  <2> QED
    BY <2>1, <2>2, <2>3
<1>2. ASSUME NEW n \in 1 .. 9
      PROVE  /\ Life!StartSteps[n] = "ConsoleIn" <=> n = 1
             /\ Life!StartSteps[n] = "KeyNotifyProcessEvent" <=> n = 6
             /\ Life!StartSteps[n] = "install" <=> n = 9
             /\ Life!StartSteps[n] # "NotifyList"
             /\ Life!StartSteps[n] \in {"Reset", "install"} \union Things
  <2>1. n \in {1, 2, 3, 4, 5, 6, 7, 8, 9}
    OBVIOUS
  <2> QED
    BY <2>1 DEF Life!StartSteps, Things
<1>3. ASSUME NEW n \in 1 .. 7
      PROVE  /\ Life!ErrorExit[n] = "TimerEvent" <=> n = 2
             /\ Life!ErrorExit[n] = "ConsoleIn" <=> n = 7
  <2>1. n \in {1, 2, 3, 4, 5, 6, 7}
    OBVIOUS
  <2> QED
    BY <2>1 DEF Life!ErrorExit
<1>4. Things \ {"SetTimer"} \subseteq {Life!ErrorExit[n] : n \in 1 .. 7}
  <2>1. 1 \in 1 .. 7 /\ 2 \in 1 .. 7 /\ 3 \in 1 .. 7 /\ 4 \in 1 .. 7 /\ 5 \in 1 .. 7
        /\ 6 \in 1 .. 7 /\ 7 \in 1 .. 7
    OBVIOUS
  <2>2. /\ Life!ErrorExit[1] = "WaitForKey" /\ Life!ErrorExit[2] = "TimerEvent"
        /\ Life!ErrorExit[3] = "WaitForKeyEx"
        /\ Life!ErrorExit[4] = "KeyNotifyProcessEvent"
        /\ Life!ErrorExit[5] = "NotifyList"
        /\ Life!ErrorExit[6] = "ControllerNameTable" /\ Life!ErrorExit[7] = "ConsoleIn"
    BY DEF Life!ErrorExit
  <2> QED
    BY <2>1, <2>2, Zenon DEF Things
<1>5. ASSUME NEW n \in 1 .. 8
      PROVE  /\ Life!StopSteps[n] = "TimerEvent" <=> n = 1
             /\ Life!StopSteps[n] = "uninstall" <=> n = 2
             /\ Life!StopSteps[n] = "ConsoleIn" <=> n = 8
             /\ Life!StopSteps[n] = "KeyNotifyProcessEvent" <=> n = 5
  <2>1. n \in {1, 2, 3, 4, 5, 6, 7, 8}
    OBVIOUS
  <2> QED
    BY <2>1 DEF Life!StopSteps
<1>6. Things \ {"SetTimer"} \subseteq {Life!StopSteps[n] : n \in 1 .. 8}
  <2>1. 1 \in 1 .. 8 /\ 3 \in 1 .. 8 /\ 4 \in 1 .. 8 /\ 5 \in 1 .. 8
        /\ 6 \in 1 .. 8 /\ 7 \in 1 .. 8 /\ 8 \in 1 .. 8
    OBVIOUS
  <2>2. /\ Life!StopSteps[1] = "TimerEvent" /\ Life!StopSteps[3] = "WaitForKey"
        /\ Life!StopSteps[4] = "WaitForKeyEx"
        /\ Life!StopSteps[5] = "KeyNotifyProcessEvent"
        /\ Life!StopSteps[6] = "NotifyList"
        /\ Life!StopSteps[7] = "ControllerNameTable" /\ Life!StopSteps[8] = "ConsoleIn"
    BY DEF Life!StopSteps
  <2> QED
    BY <2>1, <2>2, Zenon DEF Things
<1> QED
  BY <1>1, <1>2, <1>3, <1>4, <1>5, <1>6 DEF Things

\* DriverStart has n steps to go.
Starting(n) ==
    /\ steps = Rest(Life!StartSteps, n)
    /\ opened /\ ~keypad /\ "NotifyList" \notin held
    /\ IF n = 9 THEN held = {} ELSE "ConsoleIn" \in held
    /\ n <= 3 => "KeyNotifyProcessEvent" \in held

\* What follows ErrorExit has n steps to go: what is held is what they give back.
Exiting(n) ==
    /\ steps = Rest(Life!ErrorExit, n)
    /\ opened /\ ~keypad /\ "NotifyList" \notin held
    /\ held = {} \/ "ConsoleIn" \in held
    /\ held \subseteq {Life!ErrorExit[k] : k \in 8 - n .. 7} \union {"SetTimer"}
    /\ n <= 5 => "SetTimer" \notin held

\* DriverStop has n steps to go; it is the second that takes the console away.
Stopping(n) ==
    /\ steps = Rest(Life!StopSteps, n)
    /\ "ConsoleIn" \in held
    /\ IF n >= 7 THEN opened /\ keypad /\ "KeyNotifyProcessEvent" \in held
       ELSE ~opened /\ ~keypad
    /\ held \subseteq {Life!StopSteps[k] : k \in 9 - n .. 8} \union {"SetTimer"}
    /\ n <= 7 => "SetTimer" \notin held

\* Between its functions the driver has the console, perhaps without its timer, or
\* nothing.
Settled ==
    IF keypad THEN opened /\ {"ConsoleIn", "KeyNotifyProcessEvent"} \subseteq held
    ELSE ~opened /\ held = {}

LifeInv ==
    /\ held \subseteq Things
    /\ \/ function = "none" /\ Settled
       \/ function = "start" /\ \E n \in 1 .. 9 : Starting(n)
       \/ function = "exit" /\ \E n \in 1 .. 7 : Exiting(n)
       \/ function = "stop" /\ \E n \in 1 .. 8 : Stopping(n)

LEMMA LifeInvSuffices == LifeInv => NothingOutlivesConsole
<1> SUFFICES ASSUME LifeInv PROVE Life!NothingOutlivesConsole
  BY DEF NothingOutlivesConsole
<1> USE DEF Life!NothingOutlivesConsole
<1>1. CASE function = "none" /\ Settled
  BY <1>1 DEF LifeInv, Settled
<1>2. CASE function = "start" /\ \E n \in 1 .. 9 : Starting(n)
  BY <1>2 DEF LifeInv, Starting
<1>3. CASE function = "exit" /\ \E n \in 1 .. 7 : Exiting(n)
  BY <1>3 DEF LifeInv, Exiting
<1>4. CASE function = "stop" /\ \E n \in 1 .. 8 : Stopping(n)
  <2>1. PICK n \in 1 .. 8 : Stopping(n)
    BY <1>4
  <2>2. "ConsoleIn" \in held /\ function # "none"
    BY <1>4, <2>1 DEF Stopping
  <2>3. {"SetTimer", "NotifyList"} \subseteq held => "KeyNotifyProcessEvent" \in held
    BY <2>1 DEF Stopping
  <2> QED
    BY <2>2, <2>3
<1> QED
  BY <1>1, <1>2, <1>3, <1>4 DEF LifeInv

LEMMA WholeSteps ==
    /\ Rest(Life!StartSteps, 9) = Life!StartSteps /\ Life!StartSteps # << >>
    /\ Rest(Life!ErrorExit, 7) = Life!ErrorExit /\ Life!ErrorExit # << >>
    /\ Rest(Life!StopSteps, 8) = Life!StopSteps /\ Life!StopSteps # << >>
<1>1. Rest(Life!StartSteps, 9) = Life!StartSteps /\ Life!StartSteps # << >>
  <2>1. Life!StartSteps \in Seq(StepNames) /\ Len(Life!StartSteps) = 9
    BY LifeSteps
  <2>2. Rest(Life!StartSteps, Len(Life!StartSteps)) = Life!StartSteps
    BY <2>1, RestFacts, Zenon
  <2>3. Rest(Life!StartSteps, 9) = Life!StartSteps
    BY <2>1, <2>2, Zenon
  <2>4. Life!StartSteps # << >>
    BY <2>1
  <2> QED
    BY <2>3, <2>4
<1>2. Rest(Life!ErrorExit, 7) = Life!ErrorExit /\ Life!ErrorExit # << >>
  <2>1. Life!ErrorExit \in Seq(StepNames) /\ Len(Life!ErrorExit) = 7
    BY LifeSteps
  <2>2. Rest(Life!ErrorExit, Len(Life!ErrorExit)) = Life!ErrorExit
    BY <2>1, RestFacts
  <2> QED
    BY <2>1, <2>2
<1>3. Rest(Life!StopSteps, 8) = Life!StopSteps /\ Life!StopSteps # << >>
  <2>1. Life!StopSteps \in Seq(StepNames) /\ Len(Life!StopSteps) = 8
    BY LifeSteps
  <2>2. Rest(Life!StopSteps, Len(Life!StopSteps)) = Life!StopSteps
    BY <2>1, RestFacts
  <2> QED
    BY <2>1, <2>2
<1> QED
  BY <1>1, <1>2, <1>3

\* What a step of a function leaves: the rest, or no function.
LEMMA ContinueFacts ==
    ASSUME NEW s \in Seq(StepNames), NEW n \in 1 .. Len(s), steps = Rest(s, n),
           NEW at, at # "none", Life!Continue(at, Tail(steps))
    PROVE  /\ Head(steps) = s[Len(s) - n + 1] /\ Len(steps) = n
           /\ IF n = 1 THEN function' = "none" ELSE function' = at
           /\ steps' = Rest(s, n - 1)
<1>1. /\ Len(steps) = n /\ Head(steps) = s[Len(s) - n + 1]
      /\ Tail(steps) = Rest(s, n - 1)
  BY RestFacts
<1>2. n = 1 => Tail(steps) = << >>
  BY <1>1, RestFacts
<1>3. n # 1 => Tail(steps) # << >>
  <2>1. n # 1 => n - 1 \in 1 .. Len(s)
    OBVIOUS
  <2>2. n # 1 => Rest(s, n - 1) # << >>
    BY <2>1, RestFacts
  <2> QED
    BY <1>1, <2>2
<1> QED
  BY <1>1, <1>2, <1>3 DEF Life!Continue

LEMMA StartStepInv == LifeInv /\ Life!StartStep => LifeInv'
<1> SUFFICES ASSUME LifeInv, Life!StartStep PROVE LifeInv'
  OBVIOUS
<1>1. /\ function = "start" /\ Life!Continue("start", Tail(steps))
      /\ keypad' = (Head(steps) = "install")
      /\ held' = held \union ({Head(steps)} \ {"Reset", "install"})
      /\ opened' = opened
  BY DEF Life!StartStep
<1>2. PICK n \in 1 .. 9 : Starting(n)
  BY <1>1 DEF LifeInv
<1>3. /\ Head(steps) = Life!StartSteps[10 - n]
      /\ IF n = 1 THEN function' = "none" ELSE function' = "start"
      /\ steps' = Rest(Life!StartSteps, n - 1)
  <2>1. /\ Life!StartSteps \in Seq(StepNames) /\ n \in 1 .. Len(Life!StartSteps)
        /\ Len(Life!StartSteps) - n + 1 = 10 - n /\ steps = Rest(Life!StartSteps, n)
    BY <1>2, LifeSteps DEF Starting
  <2> QED
    BY <1>1, <2>1, ContinueFacts
<1> DEFINE step == Life!StartSteps[10 - n]
<1>4. 10 - n \in 1 .. 9
  OBVIOUS
<1>5. /\ step = "ConsoleIn" <=> n = 9
      /\ step = "KeyNotifyProcessEvent" <=> n = 4
      /\ step = "install" <=> n = 1
      /\ step # "NotifyList"
      /\ step \in {"Reset", "install"} \union Things
  BY <1>4, LifeSteps
<1>6. held' = held \union ({step} \ {"Reset", "install"}) /\ (keypad' <=> n = 1)
  BY <1>1, <1>3, <1>5
<1> HIDE DEF step
<1>7. held' \subseteq Things
  BY <1>1, <1>5, <1>6 DEF LifeInv
<1>8. CASE n = 1
  BY <1>1, <1>2, <1>3, <1>6, <1>7, <1>8 DEF LifeInv, Settled, Starting
<1>9. CASE n # 1
  <2>1. n - 1 \in 1 .. 9
    BY <1>9
  <2>2. "ConsoleIn" \in held' /\ "NotifyList" \notin held'
    BY <1>2, <1>5, <1>6 DEF Starting, Things
  <2>3. n - 1 <= 3 => "KeyNotifyProcessEvent" \in held'
    BY <1>2, <1>5, <1>6 DEF Starting
  <2>4. Starting(n - 1)'
    BY <1>1, <1>2, <1>3, <1>6, <1>9, <2>2, <2>3 DEF Starting
  <2> QED
    BY <1>3, <1>7, <1>9, <2>1, <2>4 DEF LifeInv
<1> QED
  BY <1>8, <1>9

LEMMA ExitStepInv == LifeInv /\ Life!ExitStep => LifeInv'
<1> SUFFICES ASSUME LifeInv, Life!ExitStep PROVE LifeInv'
  OBVIOUS
<1>1. /\ function = "exit" /\ Life!Continue("exit", Tail(steps))
      /\ held' = Life!Without(Head(steps))
      /\ opened' <=> Len(steps) > 1
      /\ keypad' = keypad
  BY DEF Life!ExitStep
<1>2. PICK n \in 1 .. 7 : Exiting(n)
  BY <1>1 DEF LifeInv
<1>3. /\ Head(steps) = Life!ErrorExit[8 - n] /\ Len(steps) = n
      /\ IF n = 1 THEN function' = "none" ELSE function' = "exit"
      /\ steps' = Rest(Life!ErrorExit, n - 1)
  <2>1. /\ Life!ErrorExit \in Seq(StepNames) /\ n \in 1 .. Len(Life!ErrorExit)
        /\ Len(Life!ErrorExit) - n + 1 = 8 - n /\ steps = Rest(Life!ErrorExit, n)
    BY <1>2, LifeSteps DEF Exiting
  <2> QED
    BY <1>1, <2>1, ContinueFacts
<1> DEFINE step == Life!ErrorExit[8 - n]
<1>4. step = "TimerEvent" <=> n = 6
  BY LifeSteps
<1>5. /\ held' \subseteq held \ {step}
      /\ held' = held \ ({step} \union IF n = 6 THEN {"SetTimer"} ELSE {})
  BY <1>1, <1>3, <1>4 DEF Life!Without
<1>6. held' \subseteq {Life!ErrorExit[k] : k \in 8 - (n - 1) .. 7} \union {"SetTimer"}
  <2>1. \A k \in 8 - n .. 7 : k = 8 - n \/ k \in 8 - (n - 1) .. 7
    OBVIOUS
  <2> QED
    BY <1>2, <1>5, <2>1 DEF Exiting
<1>7. "SetTimer" \in held' => n - 1 > 5
  BY <1>2, <1>5 DEF Exiting
<1>8. "NotifyList" \notin held' /\ held' \subseteq Things
  BY <1>2, <1>5 DEF Exiting, LifeInv
<1>9. CASE n = 1
  <2>1. \A k \in 8 - (n - 1) .. 7 : FALSE
    BY <1>9
  <2>2. "SetTimer" \notin held'
    BY <1>7, <1>9
  <2>3. held' = {}
    BY <1>6, <2>1, <2>2
  <2> QED
    BY <1>1, <1>2, <1>3, <1>9, <2>3 DEF LifeInv, Settled, Exiting
<1>10. CASE n # 1
  <2>1. step # "ConsoleIn"
    BY <1>10, LifeSteps
  <2>2. held' = {} \/ "ConsoleIn" \in held'
    BY <1>2, <1>5, <2>1 DEF Exiting
  <2>3. n - 1 \in 1 .. 7 /\ opened'
    BY <1>1, <1>3, <1>10
  <2>4. Exiting(n - 1)'
    BY <1>1, <1>2, <1>3, <1>6, <1>7, <1>8, <2>2, <2>3 DEF Exiting
  <2> QED
    BY <1>3, <1>8, <1>10, <2>3, <2>4 DEF LifeInv
<1> QED
  BY <1>9, <1>10

LEMMA StopStepInv == LifeInv /\ Life!StopStep => LifeInv'
<1> SUFFICES ASSUME LifeInv, Life!StopStep PROVE LifeInv'
  OBVIOUS
<1>1. /\ function = "stop" /\ Life!Continue("stop", Tail(steps))
      /\ held' = Life!Without(Head(steps))
      /\ IF Head(steps) = "uninstall" THEN ~keypad' /\ ~opened'
         ELSE keypad' = keypad /\ opened' = opened
  BY DEF Life!StopStep
<1>2. PICK n \in 1 .. 8 : Stopping(n)
  BY <1>1 DEF LifeInv
<1>3. /\ Head(steps) = Life!StopSteps[9 - n]
      /\ IF n = 1 THEN function' = "none" ELSE function' = "stop"
      /\ steps' = Rest(Life!StopSteps, n - 1)
  <2>1. /\ Life!StopSteps \in Seq(StepNames) /\ n \in 1 .. Len(Life!StopSteps)
        /\ Len(Life!StopSteps) - n + 1 = 9 - n /\ steps = Rest(Life!StopSteps, n)
    BY <1>2, LifeSteps DEF Stopping
  <2> QED
    BY <1>1, <2>1, ContinueFacts
<1> DEFINE step == Life!StopSteps[9 - n]
<1>4. /\ step = "TimerEvent" <=> n = 8
      /\ step = "uninstall" <=> n = 7
      /\ step = "ConsoleIn" <=> n = 1
      /\ step = "KeyNotifyProcessEvent" <=> n = 4
  BY LifeSteps
<1>5. held' = held \ ({step} \union IF n = 8 THEN {"SetTimer"} ELSE {})
  BY <1>1, <1>3, <1>4 DEF Life!Without
<1>6. IF n = 7 THEN ~keypad' /\ ~opened' ELSE keypad' = keypad /\ opened' = opened
  BY <1>1, <1>3, <1>4
<1>7. held' \subseteq {Life!StopSteps[k] : k \in 9 - (n - 1) .. 8} \union {"SetTimer"}
  <2>1. \A k \in 9 - n .. 8 : k = 9 - n \/ k \in 9 - (n - 1) .. 8
    OBVIOUS
  <2> QED
    BY <1>2, <1>5, <2>1 DEF Stopping
<1>8. "SetTimer" \notin held' /\ held' \subseteq Things
  BY <1>2, <1>5 DEF Stopping, LifeInv
<1> HIDE DEF step
<1>9. CASE n = 1
  <2>1. \A k \in 9 - (n - 1) .. 8 : FALSE
    BY <1>9
  <2>2. held' = {}
    BY <1>7, <1>8, <2>1
  <2> QED
    BY <1>2, <1>3, <1>6, <1>9, <2>2 DEF LifeInv, Settled, Stopping
<1>10. CASE n # 1
  <2>1. "ConsoleIn" \in held'
    BY <1>2, <1>4, <1>5, <1>10 DEF Stopping
  <2>2. n - 1 >= 7 => opened' /\ keypad' /\ "KeyNotifyProcessEvent" \in held'
    BY <1>2, <1>4, <1>5, <1>6 DEF Stopping
  <2>3. n - 1 < 7 => ~opened' /\ ~keypad'
    BY <1>2, <1>6 DEF Stopping
  <2>4. n - 1 \in 1 .. 8
    BY <1>10
  <2>5. Stopping(n - 1)'
    BY <1>3, <1>7, <1>8, <2>1, <2>2, <2>3, <2>4 DEF Stopping
  <2> QED
    BY <1>3, <1>8, <1>10, <2>4, <2>5 DEF LifeInv
<1> QED
  BY <1>9, <1>10

\* Clients come and go.
LEMMA RegisterInv ==
    ASSUME LifeInv, keypad, UNCHANGED <<opened, keypad, function, steps>>,
           held' = held \union {"NotifyList"} \/ held' = held \ {"NotifyList"}
    PROVE  LifeInv'
<1>1. held' \subseteq Things
  BY DEF LifeInv, Things
<1>2. CASE function = "none" /\ Settled
  BY <1>1, <1>2 DEF LifeInv, Settled
<1>3. CASE function = "stop" /\ \E n \in 1 .. 8 : Stopping(n)
  <2>1. PICK n \in 1 .. 8 : Stopping(n)
    BY <1>3
  <2>2. n >= 7
    BY <2>1 DEF Stopping
  <2>3. 6 \in 9 - n .. 8 /\ Life!StopSteps[6] = "NotifyList"
    BY <2>2 DEF Life!StopSteps
  <2>4. "NotifyList" \in {Life!StopSteps[k] : k \in 9 - n .. 8}
    BY <2>3
  <2>5. held' \subseteq {Life!StopSteps[k] : k \in 9 - n .. 8} \union {"SetTimer"}
    BY <2>1, <2>4 DEF Stopping
  <2>6. n <= 7 => "SetTimer" \notin held'
    BY <2>1 DEF Stopping
  <2>7. "ConsoleIn" \in held' /\ "KeyNotifyProcessEvent" \in held'
    BY <2>1, <2>2 DEF Stopping
  <2>8. Stopping(n)'
    BY <2>1, <2>2, <2>5, <2>6, <2>7 DEF Stopping
  <2> QED
    BY <1>1, <1>3, <2>8 DEF LifeInv
<1> QED
  BY <1>2, <1>3 DEF LifeInv, Starting, Exiting

LEMMA LifeStepInv == LifeInv /\ [Life!Next]_lifeVars => LifeInv'
<1> SUFFICES ASSUME LifeInv, [Life!Next]_lifeVars PROVE LifeInv'
  OBVIOUS
<1>1. CASE UNCHANGED lifeVars
  BY <1>1 DEF lifeVars, LifeInv, Settled, Starting, Exiting, Stopping
<1>2. CASE Life!DriverStart
  <2>1. /\ function = "none" /\ ~opened /\ opened' /\ Life!Continue("start", Life!StartSteps)
        /\ UNCHANGED <<held, keypad>>
    BY <1>2 DEF Life!DriverStart
  <2>2. function' = "start" /\ steps' = Life!StartSteps
    BY <2>1, WholeSteps DEF Life!Continue
  <2>3. Settled
    BY <2>1 DEF LifeInv
  <2>4. steps' = Rest(Life!StartSteps, 9)
    BY <2>2, WholeSteps
  <2>5. Starting(9)'
    BY <2>1, <2>3, <2>4 DEF Settled, Starting
  <2> QED
    BY <2>1, <2>2, <2>5 DEF LifeInv
<1>3. CASE Life!StartFails
  <2>1. /\ function = "start" /\ Life!Continue("exit", Life!ErrorExit)
        /\ UNCHANGED <<opened, held, keypad>>
    BY <1>3 DEF Life!StartFails
  <2>2. PICK n \in 1 .. 9 : Starting(n)
    BY <2>1 DEF LifeInv
  <2>3. function' = "exit" /\ steps' = Life!ErrorExit
    BY <2>1, WholeSteps DEF Life!Continue
  <2>4. steps' = Rest(Life!ErrorExit, 7)
    BY <2>3, WholeSteps
  <2>5. held \subseteq {Life!ErrorExit[k] : k \in 8 - 7 .. 7} \union {"SetTimer"}
    BY LifeSteps DEF LifeInv
  <2>6. Exiting(7)'
    BY <2>1, <2>2, <2>4, <2>5 DEF Starting, Exiting
  <2> QED
    BY <2>1, <2>3, <2>6 DEF LifeInv
<1>4. CASE Life!DriverStop
  <2>1. /\ function = "none" /\ keypad /\ Life!Continue("stop", Life!StopSteps)
        /\ UNCHANGED <<opened, held, keypad>>
    BY <1>4 DEF Life!DriverStop
  <2>2. function' = "stop" /\ steps' = Life!StopSteps
    BY <2>1, WholeSteps DEF Life!Continue
  <2>3. Settled
    BY <2>1 DEF LifeInv
  <2>4. steps' = Rest(Life!StopSteps, 8)
    BY <2>2, WholeSteps
  <2>5. held \subseteq {Life!StopSteps[k] : k \in 9 - 8 .. 8} \union {"SetTimer"}
    BY LifeSteps DEF LifeInv
  <2>6. Stopping(8)'
    BY <2>1, <2>3, <2>4, <2>5 DEF Settled, Stopping
  <2> QED
    BY <2>1, <2>2, <2>6 DEF LifeInv
<1>5. CASE Life!StopRefused
  <2>1. /\ function = "stop" /\ Head(steps) = "uninstall"
        /\ Life!Continue("none", << >>)
        /\ UNCHANGED <<opened, held, keypad>>
    BY <1>5 DEF Life!StopRefused
  <2>2. PICK n \in 1 .. 8 : Stopping(n)
    BY <2>1 DEF LifeInv
  <2>3. /\ Life!StopSteps \in Seq(StepNames) /\ n \in 1 .. Len(Life!StopSteps)
        /\ Len(Life!StopSteps) - n + 1 = 9 - n /\ steps = Rest(Life!StopSteps, n)
    BY <2>2, LifeSteps DEF Stopping
  <2>4. Head(steps) = Life!StopSteps[9 - n]
    BY <2>3, RestFacts
  <2>5. n = 7
    BY <2>1, <2>4, LifeSteps
  <2> QED
    BY <2>1, <2>2, <2>5 DEF LifeInv, Settled, Stopping, Life!Continue
<1>6. CASE Life!RegisterKeyNotify \/ Life!UnregisterKeyNotify
  BY <1>6, RegisterInv DEF Life!RegisterKeyNotify, Life!UnregisterKeyNotify
<1> QED
  BY <1>1, <1>2, <1>3, <1>4, <1>5, <1>6, StartStepInv, ExitStepInv, StopStepInv
     DEF Life!Next

\* NothingOutlivesConsole: at no step of DriverStart, of its error exit or of DriverStop
\* is an event, a timer or a protocol left without the console that it needs.
THEOREM LifeIsSafe == Spec => []NothingOutlivesConsole
<1>1. Init => LifeInv
  BY DEF Init, Life!Init, LifeInv, Settled
<1>2. LifeInv /\ [Next]_vars => LifeInv'
  BY ComponentSteps, LifeStepInv
<1> QED
  BY <1>1, <1>2, LifeInvSuffices, PTL DEF Spec

-----------------------------------------------------------------------------
(* Interrupts: types, and the activations of the handler.                  *)

Ats == {"read", "handler", "notified", "ended", "done"}
Activations == [vector : Irq!Vectors, at : Ats]

IrqTypes ==
    /\ vic \in [latched : SUBSET Irq!Vectors, enabled : SUBSET Irq!Vectors,
                master : BOOLEAN, inService : BOOLEAN]
    /\ handlers \subseteq {TimerVector, GpioGroup}
    /\ cpu \in [on : BOOLEAN, stack : Seq(Activations)]
    /\ timer \in [on : BOOLEAN, milliseconds : Nat, notify : BOOLEAN, period : Nat]
    /\ main \in [stage : {"start", "controller", "off", "registered", "running", "exit"},
                 at : {"none", "begun", "programmed", "enabled"},
                 period : Nat, exited : SUBSET {"timer", "controller"}]
    /\ owed \in Int

LEMMA VectorFacts ==
    /\ TimerVector \in Nat \ {0} /\ TimerVector < 32 /\ GpioGroup \in Nat
    /\ GpioGroup \notin Irq!Vectors /\ TimerVector \in Irq!Vectors
    /\ Irq!BitOf(TimerVector) = TimerVector /\ Irq!BitOf(GpioGroup) # TimerVector
    /\ \A v \in Irq!Vectors : v \in Nat
    /\ DefaultPeriod \in Nat /\ \A p \in Periods : p \in Nat
<1>1. /\ NR_IRQS \in Nat /\ TimerVector \in 1 .. 31 /\ GpioGroup \in 64 .. NR_IRQS
      /\ OtherVectors \subseteq 0 .. 63 \ {TimerVector}
      /\ DefaultPeriod \in Periods \ {0} /\ Periods \subseteq Nat
  BY PlatformAssumption DEF Irq!IrqAssumption
<1>2. Irq!BitOf(TimerVector) = TimerVector /\ Irq!BitOf(GpioGroup) # TimerVector
  BY <1>1 DEF Irq!BitOf
<1>3. /\ GpioGroup \notin Irq!Vectors /\ TimerVector \in Irq!Vectors
      /\ \A v \in Irq!Vectors : v \in Nat
  BY <1>1 DEF Irq!Vectors
<1> QED
  BY <1>1, <1>2, <1>3

\* The next place of the activation on top.
LEMMA StepToFacts ==
    ASSUME IrqTypes, ~Irq!Idle, NEW at \in Ats, Irq!StepTo(at)
    PROVE  /\ cpu' \in [on : BOOLEAN, stack : Seq(Activations)]
           /\ cpu'.on = cpu.on /\ Len(cpu'.stack) = Len(cpu.stack) /\ ~Irq!Idle'
           /\ cpu'.stack[1] = [vector |-> cpu.stack[1].vector, at |-> at]
           /\ \A k \in 2 .. Len(cpu.stack) : cpu'.stack[k] = cpu.stack[k]
<1> DEFINE s == cpu.stack
           top == [vector |-> s[1].vector, at |-> at]
           t == [s EXCEPT ![1] = top]
<1>1. s \in Seq(Activations) /\ s # << >> /\ cpu.on \in BOOLEAN
  BY Zenon DEF IrqTypes, Irq!Idle
<1>2. s[1] \in Activations /\ 1 \in 1 .. Len(s)
  BY <1>1
<1>3. top \in Activations /\ [s[1] EXCEPT !.at = at] = top
  BY <1>2 DEF Activations
<1>4. t \in Seq(Activations) /\ Len(t) = Len(s) /\ t[1] = top
      /\ \A k \in 2 .. Len(s) : t[k] = s[k]
  BY <1>1, <1>2, <1>3
<1>5. cpu' = [cpu EXCEPT !.stack = [s EXCEPT ![1] = [s[1] EXCEPT !.at = at]]]
  BY DEF Irq!StepTo
<1>6. cpu' = [cpu EXCEPT !.stack = t]
  BY <1>3, <1>5
<1>7. cpu = [on |-> cpu.on, stack |-> s]
  BY DEF IrqTypes
<1>8. cpu' = [on |-> cpu.on, stack |-> t]
  BY <1>6, <1>7, Zenon
<1> HIDE DEF t
<1>9. cpu'.on = cpu.on /\ cpu'.stack = t
  BY <1>8, Zenon
<1>10. cpu' \in [on : BOOLEAN, stack : Seq(Activations)]
  BY <1>1, <1>4, <1>8, Zenon
<1>11. t # << >>
  BY <1>1, <1>4
<1> QED
  BY <1>4, <1>9, <1>10, <1>11 DEF Irq!Idle

\* The activation on top has the processor's interrupts off until it lowers the TPL or
\* returns; those below it have nothing left to do but to return.
NestInv ==
    /\ Irq!Idle => cpu.on
    /\ cpu.on /\ ~Irq!Idle => Irq!TopAt("done")
    /\ vic.inService => ~Irq!Idle /\ ~cpu.on
    /\ Irq!TopAt("ended") => ~vic.inService
    /\ \A k \in 2 .. Len(cpu.stack) : cpu.stack[k].at = "done"

\* The timer's source is enabled only with its handler registered, and the latch that
\* an activation has seen stays until it clears it: no tick is cleared without it.
TickInv ==
    /\ TimerVector \in vic.enabled => TimerVector \in handlers
    /\ Irq!TopAt("read") => /\ cpu.stack[1].vector \in vic.latched
                            /\ cpu.stack[1].vector = TimerVector => TimerVector \in handlers
    /\ Irq!TopAt("handler") => cpu.stack[1].vector = TimerVector
    /\ owed = (IF TimerVector \in vic.latched THEN 1 ELSE 0)
                + (IF Irq!TopAt("handler") THEN 1 ELSE 0)

\* What each stage of the program may count on: a period is set only with the handler
\* registered, and nothing turns the timer or the controller on after the exit.
StageInv ==
    /\ main.stage \in {"registered", "running", "exit"} => TimerVector \in handlers
    /\ main.period # 0 => main.stage \in {"registered", "running"}
    /\ main.at = "none" => main.period = 0
    /\ main.exited # {} => main.stage = "exit"
    /\ "controller" \in main.exited => ~vic.master /\ vic.enabled = {}
    /\ main.stage = "exit" /\ (main.at # "none" \/ "timer" \in main.exited) => ~timer.on

IrqInv == IrqTypes /\ NestInv /\ TickInv /\ StageInv

LEMMA SameCardinality == \A S : Irq!Cardinality(S) = Cardinality(S)
  BY Zenon DEF Irq!Cardinality, Cardinality

LEMMA IrqInvSuffices == IrqInv => InterruptsServed
<1> SUFFICES ASSUME IrqInv PROVE InterruptsServed
  OBVIOUS
<1>1. Irq!ServiceEnds
  BY Zenon DEF IrqInv, NestInv, Irq!ServiceEnds
<1>2. Irq!SilentAfterExit
  BY Zenon DEF IrqInv, StageInv, Irq!SilentAfterExit
<1>3. Irq!TicksKept
  <2> DEFINE Before(k) == cpu.stack[k].vector = TimerVector /\ cpu.stack[k].at = "handler"
             before == {k \in DOMAIN cpu.stack : Before(k)}
  <2>1. cpu.stack \in Seq(Activations)
    BY DEF IrqInv, IrqTypes
  <2>2. \A k \in DOMAIN cpu.stack : Before(k) <=> k = 1 /\ Irq!TopAt("handler")
    <3> SUFFICES ASSUME NEW k \in DOMAIN cpu.stack
                 PROVE  Before(k) <=> k = 1 /\ Irq!TopAt("handler")
      OBVIOUS
    <3>1. k \in 1 .. Len(cpu.stack) /\ ~Irq!Idle
      BY <2>1 DEF Irq!Idle
    <3>2. CASE k = 1
      BY <3>1, <3>2 DEF IrqInv, TickInv, Irq!TopAt
    <3>3. CASE k # 1
      <4>1. cpu.stack[k].at = "done"
        BY <3>1, <3>3 DEF IrqInv, NestInv
      <4> QED
        BY <3>3, <4>1
    <3> QED
      BY <3>2, <3>3
  <2>3. Irq!TopAt("handler") => 1 \in DOMAIN cpu.stack
    BY <2>1 DEF Irq!TopAt, Irq!Idle
  <2>4. before = IF Irq!TopAt("handler") THEN {1} ELSE {}
    BY <2>2, <2>3
  <2>5. Cardinality(before) = IF Irq!TopAt("handler") THEN 1 ELSE 0
    BY <2>4, FS_Singleton, FS_EmptySet
  <2>6. vic.latched \intersect {TimerVector}
          = IF TimerVector \in vic.latched THEN {TimerVector} ELSE {}
    OBVIOUS
  <2>7. Cardinality(vic.latched \intersect {TimerVector})
          = IF TimerVector \in vic.latched THEN 1 ELSE 0
    BY <2>6, FS_Singleton, FS_EmptySet
  <2>8. owed = Cardinality(vic.latched \intersect {TimerVector}) + Cardinality(before)
    BY <2>5, <2>7 DEF IrqInv, TickInv
  <2> QED
    BY <2>8, SameCardinality, Zenon DEF Irq!TicksKept
<1> QED
  BY <1>1, <1>2, <1>3 DEF InterruptsServed

LEMMA EdgeInv ==
    ASSUME IrqInv, NEW v \in Irq!Vectors, Irq!Edge(v)
    PROVE  IrqInv'
<1>1. /\ vic' = [vic EXCEPT !.latched = @ \union {v}]
      /\ owed' = IF v = TimerVector /\ v \notin vic.latched THEN owed + 1 ELSE owed
      /\ UNCHANGED <<handlers, cpu, timer, main>>
  BY DEF Irq!Edge
<1>2. /\ vic'.latched = vic.latched \union {v} /\ vic'.enabled = vic.enabled
      /\ vic'.master = vic.master /\ vic'.inService = vic.inService
  <2>1. vic = [latched |-> vic.latched, enabled |-> vic.enabled, master |-> vic.master,
               inService |-> vic.inService]
    BY DEF IrqInv, IrqTypes
  <2>2. vic' = [latched |-> vic.latched \union {v}, enabled |-> vic.enabled,
                master |-> vic.master, inService |-> vic.inService]
    BY <1>1, <2>1
  <2> QED
    BY <2>2, Zenon
<1>3. IrqTypes'
  <2>1. /\ vic.latched \union {v} \in SUBSET Irq!Vectors /\ vic.enabled \in SUBSET Irq!Vectors
        /\ vic.master \in BOOLEAN /\ vic.inService \in BOOLEAN
    BY DEF IrqInv, IrqTypes
  <2>2. vic' \in [latched : SUBSET Irq!Vectors, enabled : SUBSET Irq!Vectors,
                  master : BOOLEAN, inService : BOOLEAN]
    BY <1>1, <2>1 DEF IrqInv, IrqTypes
  <2>3. owed' \in Int
    BY <1>1 DEF IrqInv, IrqTypes
  <2> QED
    BY <1>1, <2>2, <2>3 DEF IrqInv, IrqTypes
<1>4. NestInv'
  BY <1>1, <1>2 DEF IrqInv, NestInv, Irq!TopAt, Irq!Idle
<1>5. TickInv'
  BY <1>1, <1>2 DEF IrqInv, IrqTypes, TickInv, Irq!TopAt, Irq!Idle
<1>6. StageInv'
  BY <1>1, <1>2 DEF IrqInv, StageInv
<1> QED
  BY <1>3, <1>4, <1>5, <1>6 DEF IrqInv

LEMMA IrqEnterInv ==
    ASSUME IrqInv, NEW v \in Irq!Vectors, Irq!IrqEnter(v)
    PROVE  IrqInv'
<1>1. /\ cpu.on /\ v \in vic.latched /\ v \in vic.enabled
      /\ vic' = [vic EXCEPT !.inService = TRUE]
      /\ cpu' = [on |-> FALSE, stack |-> <<[vector |-> v, at |-> "read"]>> \o cpu.stack]
      /\ UNCHANGED <<handlers, timer, main, owed>>
  BY DEF Irq!IrqEnter
<1>2. /\ vic'.latched = vic.latched /\ vic'.enabled = vic.enabled
      /\ vic'.master = vic.master
  BY <1>1 DEF IrqInv, IrqTypes
<1> DEFINE new == [vector |-> v, at |-> "read"]
           s == <<new>> \o cpu.stack
<1>3. new \in Activations /\ cpu.stack \in Seq(Activations)
  BY DEF Activations, Ats, IrqInv, IrqTypes
<1>4. /\ s \in Seq(Activations) /\ Len(s) = Len(cpu.stack) + 1 /\ s[1] = new
      /\ \A k \in 2 .. Len(s) : s[k] = cpu.stack[k - 1]
  BY <1>3
<1>5. cpu'.stack = s /\ cpu'.on = FALSE /\ ~Irq!Idle'
  <2>1. cpu'.stack = s /\ cpu'.on = FALSE
    BY <1>1
  <2>2. s # << >>
    BY <1>3, <1>4
  <2> QED
    BY <2>1, <2>2 DEF Irq!Idle
<1> HIDE DEF s
<1>6. IrqTypes'
  BY <1>1, <1>4, <1>5 DEF IrqInv, IrqTypes, s
<1>7. \A k \in 1 .. Len(cpu.stack) : cpu.stack[k].at = "done"
  BY <1>1, <1>3 DEF IrqInv, NestInv, Irq!TopAt, Irq!Idle
<1>8. NestInv'
  <2>1. cpu'.stack[1].at = "read"
    BY <1>4, <1>5
  <2>2. ~Irq!TopAt("ended")'
    BY <2>1 DEF Irq!TopAt
  <2> QED
    BY <1>3, <1>4, <1>5, <1>7, <2>2 DEF NestInv
<1>9. ~Irq!TopAt("handler") /\ ~Irq!TopAt("handler")'
  BY <1>1, <1>4, <1>5 DEF IrqInv, NestInv, Irq!TopAt
<1>10. TickInv'
  BY <1>1, <1>2, <1>4, <1>5, <1>9 DEF IrqInv, TickInv
<1>11. StageInv'
  BY <1>1, <1>2 DEF IrqInv, StageInv
<1> QED
  BY <1>6, <1>8, <1>10, <1>11 DEF IrqInv

LEMMA IrqClearInv ==
    ASSUME IrqInv, Irq!IrqClear
    PROVE  IrqInv'
<1> DEFINE v == cpu.stack[1].vector
           next == IF v \in handlers THEN "handler" ELSE "done"
<1>1. /\ Irq!TopAt("read") /\ ~Irq!Idle
      /\ vic' = [vic EXCEPT !.latched = @ \ {v}]
      /\ Irq!StepTo(next)
      /\ UNCHANGED <<handlers, timer, main, owed>>
  BY DEF Irq!IrqClear, Irq!TopAt
<1>2. next \in Ats
  BY DEF Ats
<1> HIDE DEF next
<1>3. /\ cpu' \in [on : BOOLEAN, stack : Seq(Activations)]
      /\ cpu'.on = cpu.on /\ Len(cpu'.stack) = Len(cpu.stack) /\ ~Irq!Idle'
      /\ cpu'.stack[1] = [vector |-> v, at |-> next]
      /\ \A k \in 2 .. Len(cpu.stack) : cpu'.stack[k] = cpu.stack[k]
  BY <1>1, <1>2, StepToFacts DEF IrqInv
<1>4. cpu'.stack[1].at = next /\ cpu'.stack[1].vector = v
  BY <1>3
<1>5. /\ vic'.latched = vic.latched \ {v} /\ vic'.enabled = vic.enabled
      /\ vic'.master = vic.master /\ vic'.inService = vic.inService
  BY <1>1 DEF IrqInv, IrqTypes
<1>6. IrqTypes'
  BY <1>1, <1>3 DEF IrqInv, IrqTypes
<1>7. ~cpu.on
  BY <1>1 DEF IrqInv, NestInv, Irq!TopAt
<1>8. NestInv'
  <2>1. ~Irq!TopAt("ended")'
    BY <1>4 DEF Irq!TopAt, next
  <2> QED
    BY <1>1, <1>3, <1>5, <1>7, <2>1 DEF IrqInv, NestInv
<1>9. /\ ~Irq!TopAt("handler") /\ ~Irq!TopAt("read")'
      /\ Irq!TopAt("handler")' <=> v \in handlers
  BY <1>1, <1>3, <1>4 DEF Irq!TopAt, next
<1>10. v \in handlers <=> v = TimerVector
  <2>1. v \in Irq!Vectors
    <3>1. cpu.stack \in Seq(Activations) /\ cpu.stack # << >>
      BY <1>1 DEF IrqInv, IrqTypes, Irq!Idle
    <3>2. cpu.stack[1] \in Activations
      BY <3>1
    <3> QED
      BY <3>2 DEF Activations
  <2>2. v \in handlers => v = TimerVector
    BY <2>1, VectorFacts DEF IrqInv, IrqTypes
  <2> QED
    BY <1>1, <2>2 DEF IrqInv, TickInv
<1>11. v \in vic.latched
  BY <1>1 DEF IrqInv, TickInv
<1>12. TickInv'
  <2>1. (TimerVector \in vic.enabled => TimerVector \in handlers)'
    BY <1>1, <1>5 DEF IrqInv, TickInv
  <2>2. owed = IF TimerVector \in vic.latched THEN 1 ELSE 0
    BY <1>9 DEF IrqInv, TickInv
  <2>3. owed' = (IF TimerVector \in vic'.latched THEN 1 ELSE 0)
                   + (IF Irq!TopAt("handler")' THEN 1 ELSE 0)
    BY <1>1, <1>5, <1>9, <1>10, <1>11, <2>2
  <2> QED
    BY <1>4, <1>9, <1>10, <2>1, <2>3 DEF TickInv
<1>13. StageInv'
  BY <1>1, <1>5 DEF IrqInv, StageInv
<1> QED
  BY <1>6, <1>8, <1>12, <1>13 DEF IrqInv

\* The activation on top goes on, and neither the latch nor the handler is concerned.
LEMMA TopMovesInv ==
    ASSUME IrqInv, NEW at \in {"ended", "done"}, Irq!TopAt("notified") \/ Irq!TopAt("ended"),
           cpu' \in [on : BOOLEAN, stack : Seq(Activations)], ~Irq!Idle',
           Len(cpu'.stack) = Len(cpu.stack), cpu'.stack[1].at = at,
           \A k \in 2 .. Len(cpu.stack) : cpu'.stack[k] = cpu.stack[k],
           cpu'.on => at = "done", ~vic'.inService,
           vic' \in [latched : SUBSET Irq!Vectors, enabled : SUBSET Irq!Vectors,
                     master : BOOLEAN, inService : BOOLEAN],
           vic'.latched = vic.latched, vic'.enabled = vic.enabled,
           vic'.master = vic.master, UNCHANGED <<handlers, timer, main, owed>>
    PROVE  IrqInv'
<1>1. IrqTypes'
  BY DEF IrqInv, IrqTypes
<1>2. NestInv'
  BY DEF IrqInv, NestInv, Irq!TopAt
<1>3. ~Irq!TopAt("handler") /\ ~Irq!TopAt("read") /\ ~Irq!TopAt("handler")'
      /\ ~Irq!TopAt("read")'
  BY DEF Irq!TopAt
<1>4. TickInv'
  BY <1>3 DEF IrqInv, TickInv
<1>5. StageInv'
  BY DEF IrqInv, StageInv
<1> QED
  BY <1>1, <1>2, <1>4, <1>5 DEF IrqInv

LEMMA TimerNotifyInv ==
    ASSUME IrqInv, Irq!TimerNotify
    PROVE  IrqInv'
<1>1. /\ Irq!TopAt("handler") /\ ~Irq!Idle
      /\ owed' = owed - 1
      /\ Irq!StepTo("notified")
      /\ UNCHANGED <<vic, handlers, timer, main>>
  BY DEF Irq!TimerNotify, Irq!TopAt
<1>2. "notified" \in Ats
  BY DEF Ats
<1>3. /\ cpu' \in [on : BOOLEAN, stack : Seq(Activations)]
      /\ cpu'.on = cpu.on /\ Len(cpu'.stack) = Len(cpu.stack) /\ ~Irq!Idle'
      /\ cpu'.stack[1].at = "notified"
      /\ \A k \in 2 .. Len(cpu.stack) : cpu'.stack[k] = cpu.stack[k]
  <2>1. /\ cpu' \in [on : BOOLEAN, stack : Seq(Activations)]
        /\ cpu'.on = cpu.on /\ Len(cpu'.stack) = Len(cpu.stack) /\ ~Irq!Idle'
        /\ cpu'.stack[1] = [vector |-> cpu.stack[1].vector, at |-> "notified"]
        /\ \A k \in 2 .. Len(cpu.stack) : cpu'.stack[k] = cpu.stack[k]
    BY <1>1, <1>2, StepToFacts DEF IrqInv
  <2> QED
    BY <2>1
<1>4. IrqTypes'
  BY <1>1, <1>3 DEF IrqInv, IrqTypes
<1>5. ~cpu.on
  BY <1>1 DEF IrqInv, NestInv, Irq!TopAt
<1>6. NestInv'
  <2>1. ~Irq!TopAt("ended")'
    BY <1>3 DEF Irq!TopAt
  <2> QED
    BY <1>1, <1>3, <1>5, <2>1 DEF IrqInv, NestInv
<1>7. ~Irq!TopAt("handler")' /\ ~Irq!TopAt("read")'
  BY <1>3 DEF Irq!TopAt
<1>8. TickInv'
  BY <1>1, <1>7 DEF IrqInv, IrqTypes, TickInv
<1>9. StageInv'
  BY <1>1 DEF IrqInv, StageInv
<1> QED
  BY <1>4, <1>6, <1>8, <1>9 DEF IrqInv

LEMMA EndOfInterruptInv ==
    ASSUME IrqInv, Irq!EndOfInterrupt
    PROVE  IrqInv'
<1>1. /\ Irq!TopAt("notified") /\ ~Irq!Idle
      /\ vic' = [vic EXCEPT !.inService = FALSE]
      /\ Irq!StepTo("ended")
      /\ UNCHANGED <<handlers, timer, main, owed>>
  BY DEF Irq!EndOfInterrupt, Irq!TopAt
<1>2. "ended" \in Ats
  BY DEF Ats
<1>3. /\ cpu' \in [on : BOOLEAN, stack : Seq(Activations)]
      /\ cpu'.on = cpu.on /\ Len(cpu'.stack) = Len(cpu.stack) /\ ~Irq!Idle'
      /\ cpu'.stack[1].at = "ended"
      /\ \A k \in 2 .. Len(cpu.stack) : cpu'.stack[k] = cpu.stack[k]
  <2>1. /\ cpu' \in [on : BOOLEAN, stack : Seq(Activations)]
        /\ cpu'.on = cpu.on /\ Len(cpu'.stack) = Len(cpu.stack) /\ ~Irq!Idle'
        /\ cpu'.stack[1] = [vector |-> cpu.stack[1].vector, at |-> "ended"]
        /\ \A k \in 2 .. Len(cpu.stack) : cpu'.stack[k] = cpu.stack[k]
    BY <1>1, <1>2, StepToFacts DEF IrqInv
  <2> QED
    BY <2>1
<1>4. /\ vic' \in [latched : SUBSET Irq!Vectors, enabled : SUBSET Irq!Vectors,
                   master : BOOLEAN, inService : BOOLEAN]
      /\ vic'.latched = vic.latched /\ vic'.enabled = vic.enabled
      /\ vic'.master = vic.master /\ ~vic'.inService
  BY <1>1 DEF IrqInv, IrqTypes
<1>5. ~cpu.on
  BY <1>1 DEF IrqInv, NestInv, Irq!TopAt
<1> QED
  BY <1>1, <1>3, <1>4, <1>5, TopMovesInv

LEMMA RestoreTPLInv ==
    ASSUME IrqInv, Irq!RestoreTPL
    PROVE  IrqInv'
<1> DEFINE s == cpu.stack
           top == [vector |-> s[1].vector, at |-> "done"]
           t == [s EXCEPT ![1] = top]
<1>1. /\ Irq!TopAt("ended") /\ ~Irq!Idle
      /\ cpu' = [cpu EXCEPT !.on = TRUE, !.stack[1].at = "done"]
      /\ UNCHANGED <<vic, handlers, timer, main, owed>>
  BY DEF Irq!RestoreTPL, Irq!TopAt
<1>2. s \in Seq(Activations) /\ s # << >>
  BY <1>1 DEF IrqInv, IrqTypes, Irq!Idle
<1>3. s[1] \in Activations /\ 1 \in 1 .. Len(s)
  BY <1>2
<1>4. top \in Activations /\ [s[1] EXCEPT !.at = "done"] = top
  BY <1>3 DEF Activations, Ats
<1>5. t \in Seq(Activations) /\ Len(t) = Len(s) /\ t[1] = top
      /\ \A k \in 2 .. Len(s) : t[k] = s[k]
  BY <1>2, <1>3, <1>4
<1>6. cpu = [on |-> cpu.on, stack |-> s]
  BY DEF IrqInv, IrqTypes
<1>7. cpu' = [on |-> TRUE, stack |-> t]
  BY <1>1, <1>4, <1>6
<1> HIDE DEF t
<1>8. cpu'.stack = t /\ cpu' \in [on : BOOLEAN, stack : Seq(Activations)]
  BY <1>5, <1>7
<1>9. t # << >> /\ t[1].at = "done"
  BY <1>2, <1>5
<1>10. ~Irq!Idle'
  BY <1>8, <1>9 DEF Irq!Idle
<1>11. ~vic.inService
  BY <1>1 DEF IrqInv, NestInv, Irq!TopAt
<1> QED
  BY <1>1, <1>5, <1>8, <1>9, <1>10, <1>11, TopMovesInv DEF IrqInv, IrqTypes

LEMMA IrqReturnInv ==
    ASSUME IrqInv, Irq!IrqReturn
    PROVE  IrqInv'
<1>1. /\ Irq!TopAt("done") /\ ~Irq!Idle
      /\ vic' = [vic EXCEPT !.inService = FALSE]
      /\ cpu' = [on |-> TRUE, stack |-> Tail(cpu.stack)]
      /\ UNCHANGED <<handlers, timer, main, owed>>
  BY DEF Irq!IrqReturn, Irq!TopAt
<1>2. /\ vic' \in [latched : SUBSET Irq!Vectors, enabled : SUBSET Irq!Vectors,
                   master : BOOLEAN, inService : BOOLEAN]
      /\ vic'.latched = vic.latched /\ vic'.enabled = vic.enabled
      /\ vic'.master = vic.master /\ ~vic'.inService
  BY <1>1 DEF IrqInv, IrqTypes
<1>3. cpu.stack \in Seq(Activations) /\ cpu.stack # << >>
  BY <1>1 DEF IrqInv, IrqTypes, Irq!Idle
<1> DEFINE t == Tail(cpu.stack)
<1>4. /\ t \in Seq(Activations) /\ Len(t) = Len(cpu.stack) - 1
      /\ \A k \in 1 .. Len(t) : t[k] = cpu.stack[k + 1]
  BY <1>3
<1>5. cpu'.stack = t /\ cpu'.on
  BY <1>1
<1> HIDE DEF t
<1>6. \A k \in 1 .. Len(t) : t[k].at = "done"
  BY <1>4 DEF IrqInv, NestInv
<1>7. IrqTypes'
  <2>1. cpu' \in [on : BOOLEAN, stack : Seq(Activations)]
    BY <1>1, <1>4 DEF t
  <2> QED
    BY <1>1, <1>2, <2>1 DEF IrqInv, IrqTypes
<1>8. ~Irq!Idle' => cpu'.stack[1].at = "done"
  BY <1>4, <1>5, <1>6 DEF Irq!Idle
<1>9. NestInv'
  BY <1>2, <1>4, <1>5, <1>6, <1>8 DEF NestInv, Irq!TopAt
<1>10. ~Irq!TopAt("handler") /\ ~Irq!TopAt("handler")' /\ ~Irq!TopAt("read")'
  BY <1>1, <1>8 DEF Irq!TopAt
<1>11. TickInv'
  BY <1>1, <1>2, <1>10 DEF IrqInv, TickInv
<1>12. StageInv'
  BY <1>1, <1>2 DEF IrqInv, StageInv
<1> QED
  BY <1>7, <1>9, <1>11, <1>12 DEF IrqInv

-----------------------------------------------------------------------------
(* Interrupts: the program.                                                *)

\* A step of the program leaves the activations, of which there is none, alone.
LEMMA ProgramNests ==
    ASSUME IrqInv, Irq!Idle, cpu' = cpu, vic'.inService = vic.inService
    PROVE  /\ NestInv'
           /\ ~Irq!TopAt("handler") /\ ~Irq!TopAt("handler")' /\ ~Irq!TopAt("read")'
<1>1. Irq!Idle'
  BY DEF Irq!Idle
<1>2. ~vic'.inService
  BY DEF IrqInv, NestInv
<1>3. \A k \in 2 .. Len(cpu.stack) : cpu'.stack[k].at = "done"
  BY DEF IrqInv, NestInv
<1>4. NestInv'
  BY <1>1, <1>2, <1>3 DEF IrqInv, NestInv, Irq!TopAt
<1> QED
  BY <1>1, <1>4 DEF Irq!TopAt

\* The fields of the controller that an operation on its enable bits leaves alone.
LEMMA EnabledFacts ==
    ASSUME IrqTypes, NEW source
    PROVE  /\ Irq!Enabled(source) \in [latched : SUBSET Irq!Vectors, enabled : SUBSET Irq!Vectors,
                                       master : BOOLEAN, inService : BOOLEAN]
           /\ Irq!Enabled(source).latched = vic.latched
           /\ Irq!Enabled(source).master = vic.master
           /\ Irq!Enabled(source).inService = vic.inService
           /\ Irq!Enabled(source).enabled
                = vic.enabled \union ({Irq!BitOf(source)} \intersect Irq!Vectors)
           /\ Irq!Disabled(source) \in [latched : SUBSET Irq!Vectors, enabled : SUBSET Irq!Vectors,
                                        master : BOOLEAN, inService : BOOLEAN]
           /\ Irq!Disabled(source).latched = vic.latched
           /\ Irq!Disabled(source).master = vic.master
           /\ Irq!Disabled(source).inService = vic.inService
           /\ Irq!Disabled(source).enabled = vic.enabled \ {Irq!BitOf(source)}
<1> DEFINE b == Irq!BitOf(source)
           more == vic.enabled \union ({b} \intersect Irq!Vectors)
           less == vic.enabled \ {b}
<1>1. /\ vic = [latched |-> vic.latched, enabled |-> vic.enabled, master |-> vic.master,
                inService |-> vic.inService]
      /\ vic.latched \in SUBSET Irq!Vectors /\ vic.enabled \in SUBSET Irq!Vectors
      /\ vic.master \in BOOLEAN /\ vic.inService \in BOOLEAN
  BY DEF IrqTypes
<1>2. more \in SUBSET Irq!Vectors /\ less \in SUBSET Irq!Vectors
  BY <1>1
<1>3. /\ Irq!Enabled(source) = [vic EXCEPT !.enabled = more]
      /\ Irq!Disabled(source) = [vic EXCEPT !.enabled = less]
  BY DEF Irq!Enabled, Irq!Disabled
<1> HIDE DEF more, less
<1>4. /\ Irq!Enabled(source) = [latched |-> vic.latched, enabled |-> more,
                                master |-> vic.master, inService |-> vic.inService]
      /\ Irq!Disabled(source) = [latched |-> vic.latched, enabled |-> less,
                                 master |-> vic.master, inService |-> vic.inService]
  BY <1>1, <1>3
<1>5. /\ Irq!Enabled(source) \in [latched : SUBSET Irq!Vectors, enabled : SUBSET Irq!Vectors,
                                  master : BOOLEAN, inService : BOOLEAN]
      /\ Irq!Disabled(source) \in [latched : SUBSET Irq!Vectors, enabled : SUBSET Irq!Vectors,
                                   master : BOOLEAN, inService : BOOLEAN]
  BY <1>1, <1>2, <1>4
<1>6. /\ Irq!Enabled(source).latched = vic.latched
      /\ Irq!Enabled(source).master = vic.master
      /\ Irq!Enabled(source).inService = vic.inService
      /\ Irq!Enabled(source).enabled = more
  BY <1>4
<1>7. /\ Irq!Disabled(source).latched = vic.latched
      /\ Irq!Disabled(source).master = vic.master
      /\ Irq!Disabled(source).inService = vic.inService
      /\ Irq!Disabled(source).enabled = less
  BY <1>4
<1> QED
  BY <1>5, <1>6, <1>7 DEF more, less

\* What a step of the program has to show: that nothing is latched without being owed,
\* and that the timer's source is enabled only with its handler registered.
LEMMA ProgramStep ==
    ASSUME IrqInv, Irq!Idle, cpu' = cpu, IrqTypes', vic'.inService = vic.inService,
           TimerVector \in vic'.enabled => TimerVector \in handlers',
           (vic'.latched = vic.latched /\ owed' = owed) \/ (vic'.latched = {} /\ owed' = 0),
           StageInv'
    PROVE  IrqInv'
<1>1. /\ NestInv'
      /\ ~Irq!TopAt("handler") /\ ~Irq!TopAt("handler")' /\ ~Irq!TopAt("read")'
  BY ProgramNests
<1>2. owed' = (IF TimerVector \in vic'.latched THEN 1 ELSE 0)
  BY <1>1 DEF IrqInv, TickInv
<1>3. TickInv'
  BY <1>1, <1>2 DEF TickInv
<1> QED
  BY <1>1, <1>3 DEF IrqInv

LEMMA InterruptDxeInitializeInv ==
    ASSUME IrqInv, Irq!InterruptDxeInitialize
    PROVE  IrqInv'
<1>1. /\ Irq!Idle /\ main.stage = "start" /\ main.at = "none"
      /\ vic' = [vic EXCEPT !.latched = {}, !.enabled = {0, 32} \intersect Irq!Vectors,
                            !.master = TRUE]
      /\ main' = [main EXCEPT !.stage = "controller"]
      /\ owed' = 0 /\ handlers' = handlers /\ cpu' = cpu /\ timer' = timer
  BY DEF Irq!InterruptDxeInitialize, Irq!MainAt
<1>2. /\ vic' \in [latched : SUBSET Irq!Vectors, enabled : SUBSET Irq!Vectors,
                   master : BOOLEAN, inService : BOOLEAN]
      /\ vic'.latched = {} /\ vic'.enabled = {0, 32} \intersect Irq!Vectors
      /\ vic'.inService = vic.inService
  BY <1>1 DEF IrqInv, IrqTypes
<1>3. main'.stage = "controller" /\ main'.at = "none" /\ main'.period = main.period
      /\ main'.exited = main.exited
  BY <1>1 DEF IrqInv, IrqTypes
<1>4. IrqTypes'
  BY <1>1, <1>2 DEF IrqInv, IrqTypes
<1>5. TimerVector \notin vic'.enabled
  BY <1>2, VectorFacts
<1>6. main.exited = {} /\ main.period = 0
  BY <1>1 DEF IrqInv, StageInv
<1>7. StageInv'
  BY <1>3, <1>6 DEF StageInv
<1> QED
  BY <1>1, <1>2, <1>4, <1>5, <1>7, ProgramStep

LEMMA TimerInitializeInv ==
    ASSUME IrqInv, Irq!TimerInitialize
    PROVE  IrqInv'
<1>1. /\ Irq!Idle /\ main.stage = "off" /\ main.at = "none"
      /\ handlers' = handlers \union {TimerVector} /\ vic' = Irq!Enabled(TimerVector)
      /\ main' = [main EXCEPT !.stage = "registered"]
      /\ cpu' = cpu /\ timer' = timer /\ owed' = owed
  BY DEF Irq!TimerInitialize, Irq!MainAt, Irq!RegisterInterruptSource
<1>2. IrqTypes
  BY DEF IrqInv
<1>3. /\ vic' \in [latched : SUBSET Irq!Vectors, enabled : SUBSET Irq!Vectors,
                   master : BOOLEAN, inService : BOOLEAN]
      /\ vic'.latched = vic.latched /\ vic'.inService = vic.inService
  BY <1>1, <1>2, EnabledFacts
<1>4. main'.stage = "registered" /\ main'.at = "none" /\ main'.period = main.period
      /\ main'.exited = main.exited
  BY <1>1 DEF IrqInv, IrqTypes
<1>5. IrqTypes'
  BY <1>1, <1>3 DEF IrqInv, IrqTypes
<1>6. main.exited = {} /\ main.period = 0
  BY <1>1 DEF IrqInv, StageInv
<1>7. StageInv'
  BY <1>1, <1>4, <1>6 DEF StageInv
<1> QED
  BY <1>1, <1>3, <1>5, <1>7, ProgramStep

LEMMA RegisterIntHandlerInv ==
    ASSUME IrqInv, Irq!RegisterIntHandler
    PROVE  IrqInv'
<1>1. /\ Irq!Idle /\ main.stage = "running"
      /\ handlers' = handlers \union {GpioGroup} /\ vic' = Irq!Enabled(GpioGroup)
      /\ main' = main /\ cpu' = cpu /\ timer' = timer /\ owed' = owed
  BY DEF Irq!RegisterIntHandler, Irq!Running, Irq!MainAt, Irq!RegisterInterruptSource
<1>2. IrqTypes
  BY DEF IrqInv
<1>3. /\ vic' \in [latched : SUBSET Irq!Vectors, enabled : SUBSET Irq!Vectors,
                   master : BOOLEAN, inService : BOOLEAN]
      /\ vic'.latched = vic.latched /\ vic'.inService = vic.inService
      /\ vic'.enabled = vic.enabled \union ({Irq!BitOf(GpioGroup)} \intersect Irq!Vectors)
  BY <1>1, <1>2, EnabledFacts
<1>4. IrqTypes'
  BY <1>1, <1>3 DEF IrqInv, IrqTypes
<1>5. TimerVector \in vic'.enabled => TimerVector \in handlers'
  BY <1>1, <1>3, VectorFacts DEF IrqInv, TickInv
<1>6. StageInv'
  BY <1>1 DEF IrqInv, StageInv
<1> QED
  BY <1>1, <1>3, <1>4, <1>5, <1>6, ProgramStep

LEMMA RegisterHandlerInv ==
    ASSUME IrqInv, NEW h \in BOOLEAN, Irq!RegisterHandler(h)
    PROVE  IrqInv'
<1>1. /\ Irq!Idle /\ timer' = [timer EXCEPT !.notify = h]
      /\ vic' = vic /\ handlers' = handlers /\ cpu' = cpu /\ main' = main /\ owed' = owed
  BY DEF Irq!RegisterHandler, Irq!Running, Irq!MainAt
<1>2. /\ timer' \in [on : BOOLEAN, milliseconds : Nat, notify : BOOLEAN, period : Nat]
      /\ timer'.on = timer.on
  BY <1>1 DEF IrqInv, IrqTypes
<1>3. IrqTypes'
  BY <1>1, <1>2 DEF IrqInv, IrqTypes
<1>4. StageInv'
  BY <1>1, <1>2 DEF IrqInv, StageInv
<1>5. TimerVector \in vic'.enabled => TimerVector \in handlers'
  BY <1>1 DEF IrqInv, TickInv
<1> QED
  BY <1>1, <1>3, <1>4, <1>5, ProgramStep

\* The source of the timer is disabled or left alone, and so is the timer.
LEMMA SetTimerPeriodInv ==
    ASSUME IrqInv, NEW p \in Periods \union {0, DefaultPeriod}, Irq!SetTimerPeriod(p)
    PROVE  IrqInv'
<1>1. /\ Irq!Idle /\ main.at = "none" /\ p \in Irq!PeriodsFor(main.stage)
      /\ main' = [main EXCEPT !.at = "begun", !.period = p]
      /\ p = 0 => timer' = [timer EXCEPT !.on = FALSE] /\ vic' = vic
      /\ p # 0 => vic' = Irq!Disabled(TimerVector) /\ timer' = timer
      /\ handlers' = handlers /\ cpu' = cpu /\ owed' = owed
  BY DEF Irq!SetTimerPeriod
<1>2. IrqTypes
  BY DEF IrqInv
<1>3. p \in Nat
  BY VectorFacts
<1>4. /\ vic' \in [latched : SUBSET Irq!Vectors, enabled : SUBSET Irq!Vectors,
                   master : BOOLEAN, inService : BOOLEAN]
      /\ vic'.latched = vic.latched /\ vic'.inService = vic.inService
      /\ vic'.enabled \subseteq vic.enabled /\ (vic'.master <=> vic.master)
  <2>1. CASE p = 0
    BY <1>1, <1>2, <2>1 DEF IrqTypes
  <2>2. CASE p # 0
    BY <1>1, <1>2, <2>2, EnabledFacts
  <2> QED
    BY <2>1, <2>2
<1>5. /\ timer' \in [on : BOOLEAN, milliseconds : Nat, notify : BOOLEAN, period : Nat]
      /\ p = 0 => ~timer'.on
  BY <1>1, <1>2 DEF IrqTypes
<1>6. /\ main'.stage = main.stage /\ main'.at = "begun" /\ main'.period = p
      /\ main'.exited = main.exited
  BY <1>1, <1>2 DEF IrqTypes
<1>7. IrqTypes'
  BY <1>1, <1>2, <1>3, <1>4, <1>5 DEF IrqTypes
<1>8. p # 0 => main.stage \in {"registered", "running"}
  BY <1>1 DEF Irq!PeriodsFor
<1>9. TimerVector \in vic'.enabled => TimerVector \in handlers'
  BY <1>1, <1>4 DEF IrqInv, TickInv
<1>10. StageInv'
  BY <1>1, <1>4, <1>5, <1>6, <1>8 DEF IrqInv, StageInv
<1> QED
  BY <1>1, <1>4, <1>7, <1>9, <1>10, ProgramStep

LEMMA ProgramInv ==
    ASSUME IrqInv, Irq!Program
    PROVE  IrqInv'
<1> DEFINE ms == main.period \div 10000
<1>1. /\ Irq!Idle /\ main.at = "begun"
      /\ main' = [main EXCEPT !.at = "programmed"]
      /\ main.period = 0 => vic' = Irq!Disabled(TimerVector) /\ timer' = timer
      /\ main.period # 0 =>
           /\ timer' = [timer EXCEPT !.on = TRUE, !.milliseconds = ms]
           /\ vic' = vic
      /\ handlers' = handlers /\ cpu' = cpu /\ owed' = owed
  BY DEF Irq!Program
<1>2. IrqTypes
  BY DEF IrqInv
<1>3. ms \in Nat
  <2>1. main.period \in Nat
    BY <1>2 DEF IrqTypes
  <2> QED
    BY <2>1
<1> HIDE DEF ms
<1>4. /\ vic' \in [latched : SUBSET Irq!Vectors, enabled : SUBSET Irq!Vectors,
                   master : BOOLEAN, inService : BOOLEAN]
      /\ vic'.latched = vic.latched /\ vic'.inService = vic.inService
      /\ vic'.enabled \subseteq vic.enabled /\ (vic'.master <=> vic.master)
  <2>1. CASE main.period = 0
    BY <1>1, <1>2, <2>1, EnabledFacts
  <2>2. CASE main.period # 0
    BY <1>1, <1>2, <2>2 DEF IrqTypes
  <2> QED
    BY <2>1, <2>2
<1>5. timer' \in [on : BOOLEAN, milliseconds : Nat, notify : BOOLEAN, period : Nat]
  BY <1>1, <1>2, <1>3 DEF IrqTypes
<1>6. /\ main'.stage = main.stage /\ main'.at = "programmed"
      /\ main'.period = main.period /\ main'.exited = main.exited
  BY <1>1, <1>2 DEF IrqTypes
<1>7. IrqTypes'
  BY <1>1, <1>2, <1>4, <1>5 DEF IrqTypes
<1>8. TimerVector \in vic'.enabled => TimerVector \in handlers'
  BY <1>1, <1>4 DEF IrqInv, TickInv
<1>9. main.stage = "exit" => main.period = 0
  BY DEF IrqInv, StageInv
<1>10. StageInv'
  BY <1>1, <1>4, <1>6, <1>9 DEF IrqInv, StageInv
<1> QED
  BY <1>1, <1>4, <1>7, <1>8, <1>10, ProgramStep

\* A period other than 0 is set in a stage that has the handler registered.
LEMMA EnableTimerInv ==
    ASSUME IrqInv, Irq!EnableTimer
    PROVE  IrqInv'
<1>1. /\ Irq!Idle /\ main.at = "programmed"
      /\ main' = [main EXCEPT !.at = "enabled"]
      /\ vic' = IF main.period = 0 THEN vic ELSE Irq!Enabled(TimerVector)
      /\ handlers' = handlers /\ cpu' = cpu /\ timer' = timer /\ owed' = owed
  BY DEF Irq!EnableTimer
<1>2. IrqTypes
  BY DEF IrqInv
<1>3. /\ vic' \in [latched : SUBSET Irq!Vectors, enabled : SUBSET Irq!Vectors,
                   master : BOOLEAN, inService : BOOLEAN]
      /\ vic'.latched = vic.latched /\ vic'.inService = vic.inService
      /\ (vic'.master <=> vic.master)
      /\ main.period = 0 => vic'.enabled = vic.enabled
  <2>1. CASE main.period = 0
    BY <1>1, <1>2, <2>1 DEF IrqTypes
  <2>2. CASE main.period # 0
    BY <1>1, <1>2, <2>2, EnabledFacts
  <2> QED
    BY <2>1, <2>2
<1>4. /\ main'.stage = main.stage /\ main'.at = "enabled"
      /\ main'.period = main.period /\ main'.exited = main.exited
  BY <1>1, <1>2 DEF IrqTypes
<1>5. IrqTypes'
  BY <1>1, <1>2, <1>3 DEF IrqTypes
<1>6. main.period # 0 => main.stage # "exit" /\ TimerVector \in handlers
  BY DEF IrqInv, StageInv
<1>7. TimerVector \in vic'.enabled => TimerVector \in handlers'
  BY <1>1, <1>3, <1>6 DEF IrqInv, TickInv
<1>8. StageInv'
  BY <1>1, <1>3, <1>4, <1>6 DEF IrqInv, StageInv
<1> QED
  BY <1>1, <1>3, <1>5, <1>7, <1>8, ProgramStep

LEMMA StorePeriodInv ==
    ASSUME IrqInv, Irq!StorePeriod
    PROVE  IrqInv'
<1> DEFINE ends == IF main.stage = "exit" THEN main.exited \union {"timer"} ELSE main.exited
<1>1. /\ Irq!Idle /\ main.at = "enabled"
      /\ timer' = [timer EXCEPT !.period = main.period]
      /\ main' = [main EXCEPT !.at = "none", !.period = 0, !.stage = Irq!StageAfter(@),
                              !.exited = ends]
      /\ vic' = vic /\ handlers' = handlers /\ cpu' = cpu /\ owed' = owed
  BY DEF Irq!StorePeriod
<1>2. IrqTypes /\ ends \in SUBSET {"timer", "controller"}
  BY DEF IrqInv, IrqTypes
<1>3. /\ timer' \in [on : BOOLEAN, milliseconds : Nat, notify : BOOLEAN, period : Nat]
      /\ timer'.on = timer.on
  BY <1>1, <1>2 DEF IrqTypes
<1> HIDE DEF ends
<1>4. /\ main' = [stage |-> Irq!StageAfter(main.stage), at |-> "none", period |-> 0,
                  exited |-> ends]
  BY <1>1, <1>2 DEF IrqTypes
<1>5. /\ main'.stage = Irq!StageAfter(main.stage) /\ main'.at = "none"
      /\ main'.period = 0 /\ main'.exited = ends
  BY <1>4
<1>6. Irq!StageAfter(main.stage) \in {"start", "controller", "off", "registered", "running", "exit"}
  BY <1>2 DEF IrqTypes, Irq!StageAfter
<1>7. IrqTypes'
  BY <1>1, <1>2, <1>3, <1>4, <1>6 DEF IrqTypes
<1>8. /\ main'.stage \in {"registered", "running", "exit"} => TimerVector \in handlers
      /\ main'.stage = "exit" <=> main.stage = "exit"
  BY <1>5 DEF IrqInv, StageInv, Irq!StageAfter
<1>9. TimerVector \in vic'.enabled => TimerVector \in handlers'
  BY <1>1 DEF IrqInv, TickInv
<1>10. StageInv'
  BY <1>1, <1>3, <1>5, <1>8 DEF IrqInv, StageInv, ends
<1> QED
  BY <1>1, <1>7, <1>9, <1>10, ProgramStep

LEMMA ExitBootServicesInv ==
    ASSUME IrqInv, Irq!ExitBootServices
    PROVE  IrqInv'
<1>1. /\ Irq!Idle /\ main.stage = "running" /\ main.at = "none"
      /\ main' = [main EXCEPT !.stage = "exit"]
      /\ vic' = vic /\ handlers' = handlers /\ cpu' = cpu /\ timer' = timer /\ owed' = owed
  BY DEF Irq!ExitBootServices, Irq!Running, Irq!MainAt
<1>2. /\ main'.stage = "exit" /\ main'.at = "none" /\ main'.period = main.period
      /\ main'.exited = main.exited
  BY <1>1 DEF IrqInv, IrqTypes
<1>3. IrqTypes'
  BY <1>1 DEF IrqInv, IrqTypes
<1>4. main.exited = {} /\ main.period = 0 /\ TimerVector \in handlers
  BY <1>1 DEF IrqInv, StageInv
<1>5. StageInv'
  BY <1>1, <1>2, <1>4 DEF StageInv
<1>6. TimerVector \in vic'.enabled => TimerVector \in handlers'
  BY <1>1 DEF IrqInv, TickInv
<1> QED
  BY <1>1, <1>3, <1>5, <1>6, ProgramStep

LEMMA ExitBootServicesEventInv ==
    ASSUME IrqInv, Irq!ExitBootServicesEvent
    PROVE  IrqInv'
<1>1. /\ Irq!Idle /\ main.stage = "exit" /\ main.at = "none"
      /\ main' = [main EXCEPT !.exited = @ \union {"controller"}]
      /\ vic' = [vic EXCEPT !.master = FALSE, !.enabled = {}, !.latched = {}]
      /\ owed' = 0 /\ handlers' = handlers /\ cpu' = cpu /\ timer' = timer
  BY DEF Irq!ExitBootServicesEvent, Irq!MainAt
<1>2. /\ vic' \in [latched : SUBSET Irq!Vectors, enabled : SUBSET Irq!Vectors,
                   master : BOOLEAN, inService : BOOLEAN]
      /\ vic'.latched = {} /\ vic'.enabled = {} /\ ~vic'.master
      /\ vic'.inService = vic.inService
  BY <1>1 DEF IrqInv, IrqTypes
<1>3. /\ main'.stage = "exit" /\ main'.at = "none" /\ main'.period = main.period
      /\ main'.exited = main.exited \union {"controller"}
  BY <1>1 DEF IrqInv, IrqTypes
<1>4. IrqTypes'
  BY <1>1, <1>2 DEF IrqInv, IrqTypes
<1>5. StageInv'
  BY <1>1, <1>2, <1>3 DEF IrqInv, StageInv
<1> QED
  BY <1>1, <1>2, <1>4, <1>5, ProgramStep

LEMMA IrqStepInv == IrqInv /\ [Irq!Next]_irqVars => IrqInv'
<1> SUFFICES ASSUME IrqInv, [Irq!Next]_irqVars PROVE IrqInv'
  OBVIOUS
<1>1. CASE UNCHANGED irqVars
  <2>1. UNCHANGED <<vic, handlers, cpu, timer, main, owed>>
    BY <1>1 DEF irqVars
  <2>2. IrqTypes'
    BY <2>1 DEF IrqInv, IrqTypes
  <2>3. NestInv'
    BY <2>1 DEF IrqInv, NestInv, Irq!TopAt, Irq!Idle
  <2>4. TickInv'
    BY <2>1 DEF IrqInv, TickInv, Irq!TopAt, Irq!Idle
  <2>5. StageInv'
    BY <2>1 DEF IrqInv, StageInv
  <2> QED
    BY <2>2, <2>3, <2>4, <2>5 DEF IrqInv
<1>2. CASE \E v \in Irq!Vectors : Irq!Edge(v) \/ Irq!IrqEnter(v)
  BY <1>2, EdgeInv, IrqEnterInv
<1>3. CASE Irq!IrqClear \/ Irq!TimerNotify \/ Irq!EndOfInterrupt \/ Irq!RestoreTPL
             \/ Irq!IrqReturn
  BY <1>3, IrqClearInv, TimerNotifyInv, EndOfInterruptInv, RestoreTPLInv, IrqReturnInv
<1>4. CASE \/ Irq!InterruptDxeInitialize \/ Irq!TimerInitialize \/ Irq!RegisterIntHandler
           \/ \E h \in BOOLEAN : Irq!RegisterHandler(h)
  BY <1>4, InterruptDxeInitializeInv, TimerInitializeInv, RegisterIntHandlerInv,
     RegisterHandlerInv
<1>5. CASE \/ \E p \in Periods \union {0, DefaultPeriod} : Irq!SetTimerPeriod(p)
           \/ Irq!Program \/ Irq!EnableTimer \/ Irq!StorePeriod
  BY <1>5, SetTimerPeriodInv, ProgramInv, EnableTimerInv, StorePeriodInv
<1>6. CASE Irq!ExitBootServices \/ Irq!ExitBootServicesEvent
  BY <1>6, ExitBootServicesInv, ExitBootServicesEventInv
<1> QED
  BY <1>1, <1>2, <1>3, <1>4, <1>5, <1>6 DEF Irq!Next

\* InterruptsServed: no tick is lost however activations of IrqInterruptHandler nest, an
\* interrupt that is served ends, and after the exit from boot services there is none.
THEOREM TicksAreServed == Spec => []InterruptsServed
<1>1. Init => IrqInv
  <2> SUFFICES ASSUME Init PROVE IrqInv
    OBVIOUS
  <2>1. /\ vic = [latched |-> {}, enabled |-> {}, master |-> FALSE, inService |-> FALSE]
        /\ handlers = {} /\ owed = 0
        /\ cpu = [on |-> TRUE, stack |-> << >>]
        /\ timer = [on |-> FALSE, milliseconds |-> 0, notify |-> FALSE, period |-> 0]
        /\ main = [stage |-> "start", at |-> "none", period |-> 0, exited |-> {}]
    BY DEF Init, Irq!Init
  <2>2. IrqTypes
    BY <2>1 DEF IrqTypes
  <2>3. Irq!Idle /\ cpu.on /\ cpu.stack = << >>
    BY <2>1 DEF Irq!Idle
  <2>4. NestInv
    BY <2>1, <2>3 DEF NestInv, Irq!TopAt
  <2>5. TickInv
    BY <2>1, <2>3 DEF TickInv, Irq!TopAt
  <2>6. StageInv
    BY <2>1 DEF StageInv
  <2> QED
    BY <2>2, <2>4, <2>5, <2>6 DEF IrqInv
<1>2. IrqInv /\ [Next]_vars => IrqInv'
  BY ComponentSteps, IrqStepInv
<1> QED
  BY <1>1, <1>2, IrqInvSuffices, PTL DEF Spec

-----------------------------------------------------------------------------
(* ModemCalls: types, and the commands of the functions.                   *)

SupplyNames == {"set_level", "switch_on", "switch_off"}
PlainNames == {"enable", "disable", "get_rate", "select_speed", "rpc_enable", "rpc_set_rate",
               "tlmm_config"}
Names == SupplyNames \union PlainNames
Statuses == {"success", "fail", "other_failure", "invalid", "none"}
Datas == Clocks \union Regulators
           \union {SdcRegulator, "none", "garbage", "clock_pin", "data_pin"}
Requests == [name : Names, data : Datas, entry : Clocks \union {"none"}, again : BOOLEAN]

ModemTypes == [ready : BOOLEAN, rung : BOOLEAN, kept : BOOLEAN,
               last : [name : Names \union {"idle", "done", "none"}, data : Datas,
                       status : Statuses]]

PcomTypes ==
    /\ mailbox \in [command : Names \union {"idle", "done"}, data : Datas, status : Statuses]
    /\ modem \in ModemTypes
    /\ call \in [at : {"start", "none", "written", "notified", "read"}, data : Datas]
    /\ todo \in Seq(Requests)
    /\ table \in [Clocks -> Datas]
    /\ supply \in [level : SUBSET Datas, on : SUBSET Datas]

\* The call under way is the first command of todo, and its answer is the modem's last.
Answered == call.at = "read" \/ (call.at = "notified" /\ ~modem.rung)

CallInv ==
    /\ call.at \in {"written", "notified", "read"} => todo # << >>
    /\ call.at = "start" => todo = << >>
    /\ call.at = "written" => modem.ready
    /\ modem.rung => call.at = "notified"
    /\ call.at = "written" \/ modem.rung => /\ mailbox.command = todo[1].name
                                            /\ mailbox.data = todo[1].data
    /\ Answered => /\ mailbox.command = "done"
                   /\ modem.last.name = todo[1].name
                   /\ modem.last.data = todo[1].data
                   /\ modem.last.status = mailbox.status

\* Where the answers to the commands of regulators keep the data, such a command that is
\* given again is the same command.
EchoInv ==
    /\ call.at \in {"written", "notified", "read"} /\ todo[1].name \in SupplyNames =>
         call.data = todo[1].data
    /\ Answered /\ todo[1].name \in SupplyNames => mailbox.data = todo[1].data

\* What todo holds for the regulators: nothing; or one switch, on only if the level is
\* set; or a level to set and then the switch of the same regulator.
Plainly == \A k \in 1 .. Len(todo) : todo[k].name \in PlainNames /\ ~todo[k].again
Switching ==
    /\ Len(todo) = 1 /\ todo[1].name \in {"switch_on", "switch_off"}
    /\ todo[1].name = "switch_on" => todo[1].data \in supply.level \union {SdcRegulator}
Levelling ==
    /\ Len(todo) = 2 /\ todo[1].name = "set_level" /\ todo[1].again
    /\ todo[2].name = "switch_on" /\ todo[2].data = todo[1].data
    /\ Answered /\ mailbox.status = "success" => todo[1].data \in supply.level

SupplyInv == Modem!LevelBeforeOn /\ (Plainly \/ Switching \/ Levelling)

PcomInv == PcomTypes /\ CallInv /\ (modem.kept => EchoInv /\ SupplyInv)

LEMMA PcomInvSuffices ==
    ASSUME PcomInv
    PROVE  Modem!ReplyIsOwn /\ Modem!LevelBeforeOnIfKept
<1>1. Modem!ReplyIsOwn
  BY DEF PcomInv, PcomTypes, CallInv, Modem!ReplyIsOwn, Answered
<1>2. Modem!LevelBeforeOnIfKept
  BY DEF PcomInv, SupplyInv, Modem!LevelBeforeOnIfKept
<1> QED
  BY <1>1, <1>2

\* SetToSeq lists the set.
LEMMA SetToSeqFacts ==
    ASSUME NEW S, IsFiniteSet(S)
    PROVE  Modem!Cardinality(S) \in Nat /\ Modem!SetToSeq(S) \in [1 .. Modem!Cardinality(S) -> S]
<1>1. Modem!Cardinality(S) = Cardinality(S)
  BY Zenon DEF Modem!Cardinality, Cardinality
<1>2. Cardinality(S) \in Nat /\ ExistsBijection(1 .. Cardinality(S), S)
  BY FS_CardinalityType
<1>3. \E f \in [1 .. Cardinality(S) -> S] : Modem!IsInjective(f)
  BY <1>2, Zenon DEF ExistsBijection, Bijection, Injection, IsInjective, Modem!IsInjective
<1>4. Modem!SetToSeq(S) \in [1 .. Cardinality(S) -> S]
  BY <1>1, <1>3, Zenon DEF Modem!SetToSeq
<1> QED
  BY <1>1, <1>2, <1>4

\* A step that leaves what the invariant of the calls speaks of alone.
LEMMA SamePcom ==
    ASSUME PcomInv, UNCHANGED <<mailbox, modem, call, todo, supply>>, table' \in [Clocks -> Datas]
    PROVE  PcomInv'
<1>1. PcomTypes'
  BY DEF PcomInv, PcomTypes
<1>2. CallInv'
  BY DEF PcomInv, CallInv, Answered
<1>3. modem'.kept => EchoInv' /\ SupplyInv'
  BY DEF PcomInv, EchoInv, SupplyInv, Plainly, Switching, Levelling, Answered,
         Modem!LevelBeforeOn
<1> QED
  BY <1>1, <1>2, <1>3 DEF PcomInv

\* The fields of a command that an EXCEPT leaves alone.
LEMMA RequestExcept ==
    ASSUME NEW r \in Requests, NEW d \in Datas, NEW e \in Clocks \union {"none"},
           NEW b \in BOOLEAN
    PROVE  /\ r = [name |-> r.name, data |-> r.data, entry |-> r.entry, again |-> r.again]
           /\ [r EXCEPT !.data = d]
                = [name |-> r.name, data |-> d, entry |-> r.entry, again |-> r.again]
           /\ [r EXCEPT !.entry = e]
                = [name |-> r.name, data |-> r.data, entry |-> e, again |-> r.again]
           /\ [r EXCEPT !.again = b]
                = [name |-> r.name, data |-> r.data, entry |-> r.entry, again |-> b]
  BY DEF Requests

LEMMA CommandFacts ==
    ASSUME NEW name \in Names, NEW data \in Datas, NEW c \in Clocks
    PROVE  /\ Modem!Command(name, data)
                = [name |-> name, data |-> data, entry |-> "none", again |-> FALSE]
           /\ Modem!UntilSuccess(name, data)
                = [name |-> name, data |-> data, entry |-> "none", again |-> TRUE]
           /\ [Modem!Command(name, data) EXCEPT !.entry = c]
                = [name |-> name, data |-> data, entry |-> c, again |-> FALSE]
           /\ Modem!Command(name, data) \in Requests
           /\ Modem!UntilSuccess(name, data) \in Requests
           /\ [Modem!Command(name, data) EXCEPT !.entry = c] \in Requests
<1> DEFINE r == Modem!Command(name, data)
<1>1. r = [name |-> name, data |-> data, entry |-> "none", again |-> FALSE] /\ r \in Requests
  BY DEF Modem!Command, Modem!None, Requests
<1>2. Modem!UntilSuccess(name, data) = [r EXCEPT !.again = TRUE]
  BY Zenon DEF Modem!UntilSuccess
<1> HIDE DEF r
<1>3. r.name = name /\ r.data = data /\ r.entry = "none" /\ r.again = FALSE
  BY <1>1, Zenon
<1>4. /\ [r EXCEPT !.again = TRUE]
           = [name |-> name, data |-> data, entry |-> "none", again |-> TRUE]
      /\ [r EXCEPT !.entry = c]
           = [name |-> name, data |-> data, entry |-> c, again |-> FALSE]
  <2>1. /\ [r EXCEPT !.again = TRUE]
             = [name |-> r.name, data |-> r.data, entry |-> r.entry, again |-> TRUE]
        /\ [r EXCEPT !.entry = c]
             = [name |-> r.name, data |-> r.data, entry |-> c, again |-> r.again]
    BY <1>1, RequestExcept
  <2> QED
    BY <1>3, <2>1, Zenon
<1>5. \A e \in Clocks \union {"none"}, again \in BOOLEAN :
        [name |-> name, data |-> data, entry |-> e, again |-> again] \in Requests
  BY DEF Requests
<1>6. /\ [name |-> name, data |-> data, entry |-> "none", again |-> TRUE] \in Requests
      /\ [name |-> name, data |-> data, entry |-> c, again |-> FALSE] \in Requests
  BY <1>5
<1> QED
  BY <1>1, <1>2, <1>4, <1>6, Zenon DEF r

\* A function begins: no command is under way, and its commands keep the shape.
LEMMA DoesInv ==
    ASSUME PcomInv, NEW commands \in Seq(Requests), Modem!Does(commands),
           (Plainly \/ Switching \/ Levelling)'
    PROVE  PcomInv'
<1>1. /\ todo = << >> /\ call.at = "none" /\ todo' = commands
      /\ mailbox' = mailbox /\ modem' = modem /\ call' = call /\ table' = table
      /\ supply' = supply
  BY DEF Modem!Does, Modem!Idle
<1>2. PcomTypes'
  BY <1>1 DEF PcomInv, PcomTypes
<1>3. ~modem.rung /\ ~Answered' /\ call'.at = "none"
  BY <1>1 DEF PcomInv, CallInv, Answered
<1>4. CallInv' /\ EchoInv'
  BY <1>1, <1>3 DEF CallInv, EchoInv
<1>5. modem'.kept => SupplyInv'
  BY <1>1 DEF PcomInv, SupplyInv, Modem!LevelBeforeOn
<1> QED
  BY <1>2, <1>4, <1>5 DEF PcomInv

\* The functions for the clocks and the pins give commands that are not for a regulator.
LEMMA PlainDoesInv ==
    ASSUME PcomInv, NEW commands \in Seq(Requests), Modem!Does(commands),
           \A k \in 1 .. Len(commands) : commands[k].name \in PlainNames /\ ~commands[k].again
    PROVE  PcomInv'
<1>1. todo' = commands
  BY DEF Modem!Does
<1>2. Plainly'
  BY <1>1 DEF Plainly
<1> QED
  BY <1>2, DoesInv

LEMMA ClockFunctionsInv ==
    ASSUME PcomInv, NEW c \in Clocks,
           \/ \E name \in {"enable", "disable", "get_rate"} : Modem!ClkCommand(name, c)
           \/ Modem!ClkSetRate(c)
           \/ \E name \in {"rpc_enable", "rpc_set_rate"} : Modem!ClientCommand(name, c)
    PROVE  PcomInv'
<1>1. c \in Datas /\ table[c] \in Datas
  BY DEF Datas, PcomInv, PcomTypes
<1>2. CASE \E name \in {"enable", "disable", "get_rate", "select_speed"} :
             Modem!Does(<<Modem!OfEntry(name, c)>>)
  <2>1. PICK name \in {"enable", "disable", "get_rate", "select_speed"} :
          Modem!Does(<<Modem!OfEntry(name, c)>>)
    BY <1>2
  <2>2. name \in Names /\ name \in PlainNames
    BY DEF Names, PlainNames
  <2> DEFINE q == Modem!OfEntry(name, c)
  <2>3. q = [name |-> name, data |-> table[c], entry |-> c, again |-> FALSE] /\ q \in Requests
    BY <1>1, <2>2, CommandFacts DEF Modem!OfEntry
  <2>4. q.name \in PlainNames /\ ~q.again
    BY <2>2, <2>3
  <2> HIDE DEF q
  <2>5. <<q>> \in Seq(Requests) /\ Len(<<q>>) = 1 /\ <<q>>[1] = q
    BY <2>3
  <2>6. \A k \in 1 .. Len(<<q>>) : <<q>>[k].name \in PlainNames /\ ~<<q>>[k].again
    BY <2>4, <2>5
  <2> QED
    BY <2>1, <2>5, <2>6, PlainDoesInv DEF q
<1>3. CASE \E name \in {"rpc_enable", "rpc_set_rate"} : Modem!Does(<<Modem!Command(name, c)>>)
  <2>1. PICK name \in {"rpc_enable", "rpc_set_rate"} : Modem!Does(<<Modem!Command(name, c)>>)
    BY <1>3
  <2>2. name \in Names /\ name \in PlainNames
    BY DEF Names, PlainNames
  <2> DEFINE q == Modem!Command(name, c)
  <2>3. q = [name |-> name, data |-> c, entry |-> "none", again |-> FALSE] /\ q \in Requests
    BY <1>1, <2>2, CommandFacts
  <2>4. q.name \in PlainNames /\ ~q.again
    BY <2>2, <2>3
  <2> HIDE DEF q
  <2>5. <<q>> \in Seq(Requests) /\ Len(<<q>>) = 1 /\ <<q>>[1] = q
    BY <2>3
  <2>6. \A k \in 1 .. Len(<<q>>) : <<q>>[k].name \in PlainNames /\ ~<<q>>[k].again
    BY <2>4, <2>5
  <2> QED
    BY <2>1, <2>5, <2>6, PlainDoesInv DEF q
<1> QED
  BY <1>2, <1>3, Zenon DEF Modem!ClkCommand, Modem!ClkSetRate, Modem!ClientCommand

\* A regulator is switched off, or on with its level set first; the SD card's has none.
LEMMA RegulatorFunctionsInv ==
    ASSUME PcomInv,
           \/ \E r \in Regulators, on \in BOOLEAN : Modem!pcom_vreg_control(r, on)
           \/ \E on \in BOOLEAN : Modem!pcom_sdcard_power(on)
    PROVE  PcomInv'
<1>1. \A r \in Regulators \union {SdcRegulator}, name \in SupplyNames :
        /\ Modem!UntilSuccess(name, r)
             = [name |-> name, data |-> r, entry |-> "none", again |-> TRUE]
        /\ Modem!UntilSuccess(name, r) \in Requests
  <2> SUFFICES ASSUME NEW r \in Regulators \union {SdcRegulator}, NEW name \in SupplyNames
               PROVE  /\ Modem!UntilSuccess(name, r)
                           = [name |-> name, data |-> r, entry |-> "none", again |-> TRUE]
                      /\ Modem!UntilSuccess(name, r) \in Requests
    OBVIOUS
  <2>1. r \in Datas /\ name \in Names
    BY DEF Datas, Names
  <2>2. [name |-> name, data |-> r, entry |-> "none", again |-> TRUE] \in Requests
    BY <2>1 DEF Requests
  <2>3. [name |-> name, data |-> r, entry |-> "none", again |-> FALSE] \in Requests
    BY <2>1 DEF Requests
  <2> DEFINE p == Modem!Command(name, r)
  <2>4. p = [name |-> name, data |-> r, entry |-> "none", again |-> FALSE]
    BY DEF Modem!Command, Modem!None
  <2>5. Modem!UntilSuccess(name, r) = [p EXCEPT !.again = TRUE]
    BY Zenon DEF Modem!UntilSuccess
  <2> HIDE DEF p
  <2>6. p \in Requests /\ p.name = name /\ p.data = r /\ p.entry = "none"
    BY <2>3, <2>4
  <2>7. [p EXCEPT !.again = TRUE]
          = [name |-> p.name, data |-> p.data, entry |-> p.entry, again |-> TRUE]
    BY <2>1, <2>6, RequestExcept
  <2> QED
    BY <2>2, <2>5, <2>6, <2>7, Zenon
<1>2. "set_level" \in SupplyNames /\ "switch_on" \in SupplyNames /\ "switch_off" \in SupplyNames
  BY DEF SupplyNames
<1>3. ASSUME NEW r \in Regulators \union {SdcRegulator}, NEW name \in {"switch_on", "switch_off"},
             name = "switch_off" \/ r = SdcRegulator,
             Modem!Does(<<Modem!UntilSuccess(name, r)>>)
      PROVE  PcomInv'
  <2> DEFINE q == Modem!UntilSuccess(name, r)
  <2>1. name \in SupplyNames
    BY <1>2
  <2>2. q = [name |-> name, data |-> r, entry |-> "none", again |-> TRUE] /\ q \in Requests
    BY <1>1, <2>1
  <2> HIDE DEF q
  <2>3. q.name = name /\ q.data = r
    BY <2>2, Zenon
  <2>4. todo' = <<q>> /\ <<q>> \in Seq(Requests)
    BY <1>3, <2>2 DEF Modem!Does, q
  <2>5. Switching'
    BY <1>3, <2>3, <2>4 DEF Switching
  <2> QED
    BY <1>3, <2>4, <2>5, DoesInv DEF q
<1>4. ASSUME NEW r \in Regulators,
             Modem!Does(<<Modem!UntilSuccess("set_level", r), Modem!UntilSuccess("switch_on", r)>>)
      PROVE  PcomInv'
  <2> DEFINE p == Modem!UntilSuccess("set_level", r)
             q == Modem!UntilSuccess("switch_on", r)
  <2>1. /\ p = [name |-> "set_level", data |-> r, entry |-> "none", again |-> TRUE]
        /\ q = [name |-> "switch_on", data |-> r, entry |-> "none", again |-> TRUE]
        /\ p \in Requests /\ q \in Requests
    BY <1>1, <1>2
  <2> HIDE DEF p, q
  <2>2. p.name = "set_level" /\ p.data = r /\ p.again = TRUE /\ q.name = "switch_on" /\ q.data = r
    BY <2>1, Zenon
  <2>3. todo' = <<p, q>> /\ <<p, q>> \in Seq(Requests)
    BY <1>4, <2>1 DEF Modem!Does, p, q
  <2>4. ~Answered'
    BY <1>4 DEF Modem!Does, Modem!Idle, Answered
  <2>5. Levelling'
    BY <2>2, <2>3, <2>4 DEF Levelling
  <2> QED
    BY <1>4, <2>3, <2>5, DoesInv DEF p, q
<1>5. CASE \E r \in Regulators, on \in BOOLEAN : Modem!pcom_vreg_control(r, on)
  <2>1. PICK r \in Regulators, on \in BOOLEAN : Modem!pcom_vreg_control(r, on)
    BY <1>5
  <2>2. CASE on
    BY <1>4, <2>1, <2>2, Zenon DEF Modem!pcom_vreg_control
  <2>3. CASE ~on
    <3>1. Modem!Does(<<Modem!UntilSuccess("switch_off", r)>>)
      BY <2>1, <2>3, Zenon DEF Modem!pcom_vreg_control
    <3> QED
      BY <1>3, <3>1
  <2> QED
    BY <2>2, <2>3
<1>6. CASE \E on \in BOOLEAN : Modem!pcom_sdcard_power(on)
  <2>1. PICK on \in BOOLEAN : Modem!pcom_sdcard_power(on)
    BY <1>6
  <2>2. \E name \in {"switch_on", "switch_off"} :
          Modem!Does(<<Modem!UntilSuccess(name, SdcRegulator)>>)
    BY <2>1, Zenon DEF Modem!pcom_sdcard_power
  <2> QED
    BY <1>3, <2>2
<1> QED
  BY <1>5, <1>6

LEMMA GpioConfigInv ==
    ASSUME PcomInv, Modem!pcom_sdcard_gpio_config
    PROVE  PcomInv'
<1> DEFINE p == Modem!Command("tlmm_config", "clock_pin")
           q == Modem!Command("tlmm_config", "data_pin")
<1>1. /\ p = [name |-> "tlmm_config", data |-> "clock_pin", entry |-> "none", again |-> FALSE]
      /\ q = [name |-> "tlmm_config", data |-> "data_pin", entry |-> "none", again |-> FALSE]
  BY DEF Modem!Command, Modem!None
<1>2. "tlmm_config" \in Names /\ "clock_pin" \in Datas /\ "data_pin" \in Datas
  BY DEF Names, PlainNames, Datas
<1>3. Modem!Does(<<p, q>>)
  BY Zenon DEF Modem!pcom_sdcard_gpio_config
<1> HIDE DEF p, q
<1>4. p \in Requests /\ q \in Requests
  BY <1>1, <1>2 DEF Requests
<1>5. p.name = "tlmm_config" /\ p.again = FALSE /\ q.name = "tlmm_config" /\ q.again = FALSE
  BY <1>1, Zenon
<1>6. <<p, q>> \in Seq(Requests) /\ Len(<<p, q>>) = 2 /\ <<p, q>>[1] = p /\ <<p, q>>[2] = q
  BY <1>4
<1>7. \A k \in 1 .. Len(<<p, q>>) : <<p, q>>[k].name \in PlainNames /\ ~<<p, q>>[k].again
  BY <1>5, <1>6 DEF PlainNames
<1> QED
  BY <1>3, <1>6, <1>7, PlainDoesInv

LEMMA MsmClockInitInv ==
    ASSUME PcomInv, Modem!MsmClockInit
    PROVE  PcomInv'
<1> DEFINE n == Modem!Cardinality(Numbered)
           order == Modem!SetToSeq(Numbered)
           first(k) == [Modem!Command("enable", order[k]) EXCEPT !.entry = order[k]]
           commands == [k \in 1 .. n |-> first(k)]
<1>1. n \in Nat /\ order \in [1 .. n -> Numbered] /\ Numbered \subseteq Clocks
  <2>1. Numbered \subseteq Clocks /\ IsFiniteSet(Clocks)
    BY PlatformAssumption, Zenon DEF Modem!PcomAssumption, Modem!IsFiniteSet, IsFiniteSet
  <2>2. IsFiniteSet(Numbered)
    BY <2>1, FS_Subset
  <2> QED
    BY <2>1, <2>2, SetToSeqFacts
<1>2. /\ call.at = "start" /\ call' = [call EXCEPT !.at = "none"]
      /\ table' = Modem!FillClocksLookup /\ todo' = commands
      /\ mailbox' = mailbox /\ modem' = modem /\ supply' = supply
  BY DEF Modem!MsmClockInit
<1>3. \A k \in 1 .. n :
        /\ first(k) \in Requests
        /\ first(k) = [name |-> "enable", data |-> order[k], entry |-> order[k], again |-> FALSE]
  <2> SUFFICES ASSUME NEW k \in 1 .. n
               PROVE  /\ first(k) \in Requests
                      /\ first(k) = [name |-> "enable", data |-> order[k], entry |-> order[k],
                                     again |-> FALSE]
    OBVIOUS
  <2>1. "enable" \in Names /\ order[k] \in Datas /\ order[k] \in Clocks
    BY <1>1 DEF Names, PlainNames, Datas
  <2> QED
    BY <2>1, CommandFacts
<1>4. \A k \in 1 .. n : first(k).name = "enable" /\ first(k).again = FALSE
  BY <1>3, Zenon
<1> HIDE DEF n, order, first
<1>5. commands \in Seq(Requests) /\ Len(commands) = n /\ \A k \in 1 .. n : commands[k] = first(k)
  BY <1>1, <1>3
<1>6. table' \in [Clocks -> Datas]
  BY <1>2 DEF Modem!FillClocksLookup, Modem!None, Datas
<1>7. /\ call' \in [at : {"start", "none", "written", "notified", "read"}, data : Datas]
      /\ call'.at = "none"
  BY <1>2 DEF PcomInv, PcomTypes
<1> HIDE DEF commands
<1>8. PcomTypes'
  BY <1>2, <1>5, <1>6, <1>7 DEF PcomInv, PcomTypes
<1>9. ~modem.rung /\ ~Answered'
  BY <1>2, <1>7 DEF PcomInv, CallInv, Answered
<1>10. CallInv' /\ EchoInv'
  BY <1>2, <1>7, <1>9 DEF CallInv, EchoInv
<1>11. Plainly'
  BY <1>2, <1>4, <1>5 DEF Plainly, PlainNames
<1>12. modem'.kept => SupplyInv'
  BY <1>2, <1>11 DEF PcomInv, SupplyInv, Modem!LevelBeforeOn
<1> QED
  BY <1>8, <1>10, <1>12 DEF PcomInv

-----------------------------------------------------------------------------
(* ModemCalls: msm_proc_comm and the modem.                                *)

LEMMA BeginInv ==
    ASSUME PcomInv, Modem!Begin
    PROVE  PcomInv'
<1>1. /\ call.at = "none" /\ todo # << >> /\ modem.ready
      /\ mailbox' = [mailbox EXCEPT !.command = todo[1].name, !.data = todo[1].data]
      /\ call' = [at |-> "written", data |-> todo[1].data]
      /\ modem' = modem /\ todo' = todo /\ table' = table /\ supply' = supply
  <2>1. todo \in Seq(Requests) /\ todo # << >>
    BY DEF Modem!Begin, PcomInv, PcomTypes
  <2>2. Head(todo) = todo[1]
    BY <2>1
  <2> QED
    BY <2>2, Zenon DEF Modem!Begin, Modem!Unchanged
<1>2. todo[1] \in Requests
  BY <1>1 DEF PcomInv, PcomTypes
<1>3. todo[1].name \in Names /\ todo[1].data \in Datas
  BY <1>2 DEF Requests
<1>4. /\ mailbox' \in [command : Names \union {"idle", "done"}, data : Datas, status : Statuses]
      /\ mailbox'.command = todo[1].name /\ mailbox'.data = todo[1].data
      /\ mailbox'.status = mailbox.status
  BY <1>1, <1>3 DEF PcomInv, PcomTypes
<1>5. call'.at = "written" /\ call'.data = todo[1].data
  BY <1>1
<1>6. PcomTypes'
  BY <1>1, <1>3, <1>4 DEF PcomInv, PcomTypes
<1>7. ~modem.rung /\ ~Answered'
  BY <1>1, <1>5 DEF PcomInv, CallInv, Answered
<1>8. CallInv' /\ EchoInv'
  BY <1>1, <1>4, <1>5, <1>7 DEF CallInv, EchoInv
<1>9. modem'.kept => SupplyInv'
  BY <1>1, <1>7 DEF PcomInv, SupplyInv, Plainly, Switching, Levelling, Modem!LevelBeforeOn
<1> QED
  BY <1>6, <1>8, <1>9 DEF PcomInv

LEMMA NotifyModemInv ==
    ASSUME PcomInv, Modem!NotifyModem
    PROVE  PcomInv'
<1>1. /\ call.at = "written" /\ call' = [call EXCEPT !.at = "notified"]
      /\ modem' = [modem EXCEPT !.rung = modem.ready]
      /\ mailbox' = mailbox /\ todo' = todo /\ table' = table /\ supply' = supply
  BY DEF Modem!NotifyModem, Modem!Unchanged
<1>2. modem.ready
  BY <1>1 DEF PcomInv, CallInv
<1>3. /\ modem' \in ModemTypes
      /\ modem'.rung /\ (modem'.kept <=> modem.kept) /\ modem'.last = modem.last
  BY <1>1, <1>2 DEF PcomInv, PcomTypes, ModemTypes
<1>4. /\ call' \in [at : {"start", "none", "written", "notified", "read"}, data : Datas]
      /\ call'.at = "notified" /\ call'.data = call.data
  BY <1>1 DEF PcomInv, PcomTypes
<1>5. PcomTypes'
  BY <1>1, <1>3, <1>4 DEF PcomInv, PcomTypes
<1>6. ~Answered'
  BY <1>3, <1>4 DEF Answered
<1>7. CallInv' /\ (modem'.kept => EchoInv')
  BY <1>1, <1>3, <1>4, <1>6 DEF PcomInv, CallInv, EchoInv
<1>8. modem'.kept => SupplyInv'
  BY <1>1, <1>3, <1>6 DEF PcomInv, SupplyInv, Plainly, Switching, Levelling, Modem!LevelBeforeOn
<1> QED
  BY <1>5, <1>7, <1>8 DEF PcomInv

\* An answer is there only when the modem has taken the command: the name of a command
\* is not "done".
LEMMA ReadReplyInv ==
    ASSUME PcomInv, Modem!ReadReply
    PROVE  PcomInv'
<1> DEFINE d == IF mailbox.status # "fail" THEN mailbox.data ELSE call.data
<1>1. /\ call.at = "notified" /\ mailbox.command = "done"
      /\ call' = [at |-> "read", data |-> d]
      /\ mailbox' = mailbox /\ modem' = modem /\ todo' = todo /\ table' = table
      /\ supply' = supply
  BY DEF Modem!ReadReply, Modem!Unchanged
<1>2. todo # << >> /\ todo[1] \in Requests
  BY <1>1 DEF PcomInv, PcomTypes, CallInv
<1>3. todo[1].name # "done"
  BY <1>2 DEF Requests, Names, SupplyNames, PlainNames
<1>4. ~modem.rung /\ Answered /\ Answered'
  BY <1>1, <1>3 DEF PcomInv, CallInv, Answered
<1>5. /\ d \in Datas
      /\ modem.kept /\ todo[1].name \in SupplyNames => d = todo[1].data
  BY <1>1, <1>4 DEF PcomInv, PcomTypes, EchoInv
<1> HIDE DEF d
<1>6. call'.at = "read" /\ call'.data = d
  BY <1>1
<1>7. PcomTypes'
  BY <1>1, <1>5 DEF PcomInv, PcomTypes
<1>8. CallInv' /\ (modem'.kept => EchoInv')
  BY <1>1, <1>2, <1>4, <1>5, <1>6 DEF PcomInv, CallInv, EchoInv
<1>9. modem'.kept => SupplyInv'
  BY <1>1, <1>4 DEF PcomInv, SupplyInv, Plainly, Switching, Levelling, Modem!LevelBeforeOn
<1> QED
  BY <1>7, <1>8, <1>9 DEF PcomInv

LEMMA ModemStartsInv ==
    ASSUME PcomInv, Modem!ModemStarts
    PROVE  PcomInv'
<1>1. /\ ~modem.ready /\ modem' = [modem EXCEPT !.ready = TRUE]
      /\ mailbox' = mailbox /\ call' = call /\ todo' = todo /\ table' = table
      /\ supply' = supply
  BY DEF Modem!ModemStarts, Modem!Unchanged
<1>2. /\ modem' \in ModemTypes
      /\ modem'.ready /\ (modem'.rung <=> modem.rung) /\ (modem'.kept <=> modem.kept)
      /\ modem'.last = modem.last
  BY <1>1 DEF PcomInv, PcomTypes, ModemTypes
<1>3. PcomTypes'
  BY <1>1, <1>2 DEF PcomInv, PcomTypes
<1>4. Answered' <=> Answered
  BY <1>1, <1>2 DEF Answered
<1>5. CallInv' /\ (modem'.kept => EchoInv')
  BY <1>1, <1>2, <1>4 DEF PcomInv, CallInv, EchoInv
<1>6. modem'.kept => SupplyInv'
  BY <1>1, <1>2, <1>4 DEF PcomInv, SupplyInv, Plainly, Switching, Levelling, Modem!LevelBeforeOn
<1> QED
  BY <1>3, <1>5, <1>6 DEF PcomInv

\* What the modem does to the regulators: a level that is set stays unless the regulator
\* goes off, and nothing goes on but what is switched on.
LEMMA PerformedFacts ==
    ASSUME PcomTypes, NEW name, NEW r \in Datas
    PROVE  /\ Modem!Performed(name, r) \in [level : SUBSET Datas, on : SUBSET Datas]
           /\ name = "set_level" => /\ Modem!Performed(name, r).level = supply.level \union {r}
                                    /\ Modem!Performed(name, r).on = supply.on
           /\ name = "switch_on" => /\ Modem!Performed(name, r).level = supply.level
                                    /\ Modem!Performed(name, r).on = supply.on \union {r}
           /\ name = "switch_off" => /\ Modem!Performed(name, r).level = supply.level \ {r}
                                     /\ Modem!Performed(name, r).on = supply.on \ {r}
           /\ name \notin SupplyNames => Modem!Performed(name, r) = supply
<1>1. CASE name = "set_level"
  BY <1>1 DEF PcomTypes, SupplyNames, Modem!Performed
<1>2. CASE name = "switch_on"
  BY <1>2 DEF PcomTypes, SupplyNames, Modem!Performed
<1>3. CASE name = "switch_off"
  BY <1>3 DEF PcomTypes, SupplyNames, Modem!Performed
<1>4. CASE name \notin SupplyNames
  BY <1>4 DEF PcomTypes, SupplyNames, Modem!Performed
<1> QED
  BY <1>1, <1>2, <1>3, <1>4 DEF SupplyNames

LEMMA ModemAnswersInv ==
    ASSUME PcomInv, NEW status \in {"success", "fail", "other_failure"},
           Modem!ModemAnswers(status)
    PROVE  PcomInv'
<1> DEFINE name == mailbox.command
           r == mailbox.data
           last == [name |-> name, data |-> r, status |-> status]
<1>a. PICK d \in {r, "garbage"} :
        /\ mailbox' = [command |-> "done", status |-> status, data |-> d]
        /\ modem' = [modem EXCEPT
                        !.rung = FALSE, !.last = last,
                        !.kept = @ /\ (name \in Modem!RegulatorCommands => d = r)]
  BY Zenon DEF Modem!ModemAnswers, Modem!Junk
<1> DEFINE kept == modem.kept /\ (name \in SupplyNames => d = r)
<1>1. /\ modem.rung
      /\ modem' = [modem EXCEPT !.rung = FALSE, !.last = last, !.kept = kept]
      /\ mailbox' = [command |-> "done", status |-> status, data |-> d]
      /\ supply' = IF status = "success" THEN Modem!Performed(name, r) ELSE supply
      /\ call' = call /\ todo' = todo /\ table' = table
  <2>1. modem.rung
    BY Zenon DEF Modem!ModemAnswers
  <2>2. /\ supply' = IF status = "success" THEN Modem!Performed(name, r) ELSE supply
        /\ call' = call /\ todo' = todo /\ table' = table
    BY Zenon DEF Modem!ModemAnswers
  <2>3. Modem!RegulatorCommands = SupplyNames
    BY Zenon DEF Modem!RegulatorCommands, SupplyNames
  <2> QED
    BY <1>a, <2>1, <2>2, <2>3, Zenon
<1>2. /\ call.at = "notified" /\ todo # << >> /\ name = todo[1].name /\ r = todo[1].data
      /\ r \in Datas /\ d \in Datas /\ todo[1] \in Requests /\ status \in Statuses
  BY <1>a, <1>1 DEF PcomInv, PcomTypes, CallInv, Datas, Statuses
<1>3. name \in Names
  BY <1>2 DEF Requests
<1>4. last \in [name : Names \union {"idle", "done", "none"}, data : Datas, status : Statuses]
  BY <1>2, <1>3
<1>b. kept \in BOOLEAN /\ (kept => modem.kept /\ (name \in SupplyNames => d = r))
  OBVIOUS
<1> HIDE DEF last, kept
<1>5. /\ modem' \in ModemTypes
      /\ ~modem'.rung /\ modem'.last = last
      /\ modem'.kept => modem.kept /\ (name \in SupplyNames => d = r)
  <2>1. modem \in ModemTypes
    BY DEF PcomInv, PcomTypes
  <2>2. /\ modem' \in ModemTypes /\ modem'.rung = FALSE /\ modem'.last = last
        /\ modem'.kept = kept
    BY <1>1, <1>4, <1>b, <2>1 DEF ModemTypes
  <2> QED
    BY <1>b, <2>2, Zenon
<1>6. /\ mailbox' \in [command : Names \union {"idle", "done"}, data : Datas, status : Statuses]
      /\ mailbox'.command = "done" /\ mailbox'.status = status /\ mailbox'.data = d
  BY <1>1, <1>2
<1>7. last.name = todo[1].name /\ last.data = todo[1].data /\ last.status = status
  BY <1>2 DEF last
<1>8. Answered' /\ ~Answered /\ call'.at = "notified"
  BY <1>1, <1>2, <1>5 DEF Answered
<1>9. supply' \in [level : SUBSET Datas, on : SUBSET Datas]
  BY <1>1, <1>2, PerformedFacts DEF PcomInv, PcomTypes
<1>10. PcomTypes'
  BY <1>1, <1>5, <1>6, <1>9 DEF PcomInv, PcomTypes
<1>11. CallInv'
  BY <1>1, <1>2, <1>5, <1>6, <1>7, <1>8 DEF CallInv
<1>12. modem'.kept => EchoInv'
  BY <1>1, <1>2, <1>5, <1>6, <1>8 DEF PcomInv, EchoInv
<1>13. ASSUME modem'.kept PROVE SupplyInv'
  <2>0. EchoInv /\ SupplyInv
    BY <1>5, <1>13 DEF PcomInv
  <2>1. CASE status # "success"
    BY <1>1, <1>6, <1>8, <2>0, <2>1
       DEF PcomInv, SupplyInv, Plainly, Switching, Levelling, Modem!LevelBeforeOn
  <2>2. CASE status = "success" /\ Plainly
    <3>1. name \notin SupplyNames
      BY <1>2, <2>2 DEF PcomInv, PcomTypes, Plainly, PlainNames, SupplyNames
    <3>2. supply' = supply
      BY <1>1, <1>2, <2>2, <3>1, PerformedFacts DEF PcomInv
    <3> QED
      BY <1>1, <2>0, <2>2, <3>2 DEF PcomInv, SupplyInv, Plainly, Modem!LevelBeforeOn
  <2>3. CASE status = "success" /\ Switching
    <3>1. CASE name = "switch_on"
      <4>1. supply'.level = supply.level /\ supply'.on = supply.on \union {r}
        BY <1>1, <1>2, <2>3, <3>1, PerformedFacts DEF PcomInv
      <4> QED
        BY <1>1, <1>2, <2>0, <2>3, <3>1, <4>1
           DEF PcomInv, SupplyInv, Switching, Modem!LevelBeforeOn
    <3>2. CASE name = "switch_off"
      <4>1. supply'.level = supply.level \ {r} /\ supply'.on = supply.on \ {r}
        BY <1>1, <1>2, <2>3, <3>2, PerformedFacts DEF PcomInv
      <4> QED
        BY <1>1, <1>2, <2>0, <2>3, <3>2, <4>1
           DEF PcomInv, SupplyInv, Switching, Modem!LevelBeforeOn
    <3> QED
      BY <1>2, <2>3, <3>1, <3>2 DEF Switching
  <2>4. CASE status = "success" /\ Levelling
    <3>1. name = "set_level"
      BY <1>2, <2>4 DEF Levelling
    <3>2. supply'.level = supply.level \union {r} /\ supply'.on = supply.on
      BY <1>1, <1>2, <2>4, <3>1, PerformedFacts DEF PcomInv
    <3> QED
      BY <1>1, <1>2, <2>0, <2>4, <3>2 DEF PcomInv, SupplyInv, Levelling, Modem!LevelBeforeOn
  <2> QED
    BY <2>0, <2>1, <2>2, <2>3, <2>4 DEF PcomInv, SupplyInv
<1> QED
  BY <1>10, <1>11, <1>12, <1>13 DEF PcomInv

\* The commands that are left: the one that is given again and those after it, all with
\* the data of the answer; or those after it, with that data if the function uses the
\* variable again.
LEMMA WriteIdleFacts ==
    ASSUME PcomInv, Modem!WriteIdle
    PROVE  /\ todo # << >> /\ todo' \in Seq(Requests)
           /\ todo[1].again /\ mailbox.status # "success" =>
                /\ Len(todo') = Len(todo) /\ todo'[1].again
                /\ \A k \in 1 .. Len(todo) : /\ todo'[k].name = todo[k].name
                                             /\ todo'[k].data = call.data
           /\ ~(todo[1].again /\ mailbox.status # "success") =>
                /\ Len(todo') = Len(todo) - 1
                /\ \A k \in 1 .. Len(todo) - 1 :
                     /\ todo'[k].name = todo[k + 1].name
                     /\ todo'[k].again = todo[k + 1].again
                     /\ todo[1].again => todo'[k].data = call.data
<1> DEFINE m == Len(todo) - 1
           q == todo[1]
           kept == [q EXCEPT !.data = call.data]
           with(k) == [todo[k + 1] EXCEPT !.data = call.data]
           rest == IF q.again THEN [k \in 1 .. m |-> with(k)] ELSE Tail(todo)
<1>1. /\ todo \in Seq(Requests) /\ todo # << >> /\ m \in Nat /\ call.data \in Datas
      /\ \A k \in 1 .. Len(todo) : todo[k] \in Requests
  BY DEF Modem!WriteIdle, PcomInv, PcomTypes, CallInv
<1>2. Head(todo) = q /\ q \in Requests
  BY <1>1
<1>3. todo' = IF q.again /\ mailbox.status # "success" THEN <<kept>> \o rest ELSE rest
  <2>1. todo' = LET request == Head(todo)
                    left == IF request.again
                            THEN [k \in 1 .. Len(todo) - 1 |-> [todo[k + 1] EXCEPT !.data = call.data]]
                            ELSE Tail(todo)
                IN  IF request.again /\ mailbox.status # "success"
                    THEN <<[request EXCEPT !.data = call.data]>> \o left ELSE left
    BY DEF Modem!WriteIdle, Modem!GivenAgain
  <2> QED
    BY <1>2, <2>1
<1>4. \A p \in Requests :
        /\ [p EXCEPT !.data = call.data] \in Requests
        /\ [p EXCEPT !.data = call.data].name = p.name
        /\ [p EXCEPT !.data = call.data].data = call.data
        /\ [p EXCEPT !.data = call.data].again = p.again
  <2> SUFFICES ASSUME NEW p \in Requests
               PROVE  /\ [p EXCEPT !.data = call.data] \in Requests
                      /\ [p EXCEPT !.data = call.data].name = p.name
                      /\ [p EXCEPT !.data = call.data].data = call.data
                      /\ [p EXCEPT !.data = call.data].again = p.again
    OBVIOUS
  <2> DEFINE w == [p EXCEPT !.data = call.data]
  <2>1. p.entry \in Clocks \union {"none"} /\ p.again \in BOOLEAN /\ p.name \in Names
    BY DEF Requests
  <2>2. w = [name |-> p.name, data |-> call.data, entry |-> p.entry, again |-> p.again]
    BY <1>1, RequestExcept
  <2> HIDE DEF w
  <2>3. w \in Requests
    BY <1>1, <2>1, <2>2 DEF Requests
  <2>4. w.name = p.name /\ w.data = call.data /\ w.again = p.again
    BY <2>2, Zenon
  <2> QED
    BY <2>3, <2>4 DEF w
<1>5. /\ kept \in Requests /\ kept.name = q.name /\ kept.data = call.data
      /\ kept.again = q.again
  BY <1>2, <1>4
<1>6. \A k \in 1 .. m : /\ with(k) \in Requests /\ with(k).name = todo[k + 1].name
                        /\ with(k).data = call.data /\ with(k).again = todo[k + 1].again
  <2> SUFFICES ASSUME NEW k \in 1 .. m
               PROVE  /\ with(k) \in Requests /\ with(k).name = todo[k + 1].name
                      /\ with(k).data = call.data /\ with(k).again = todo[k + 1].again
    OBVIOUS
  <2>1. todo[k + 1] \in Requests
    BY <1>1
  <2> QED
    BY <1>4, <2>1
<1> HIDE DEF kept, with, m
<1>7. /\ rest \in Seq(Requests) /\ Len(rest) = m
      /\ \A k \in 1 .. m : /\ rest[k].name = todo[k + 1].name
                           /\ rest[k].again = todo[k + 1].again
                           /\ q.again => rest[k].data = call.data
  <2>1. CASE q.again
    <3> DEFINE others == [k \in 1 .. m |-> with(k)]
    <3>1. others \in Seq(Requests) /\ Len(others) = m /\ \A k \in 1 .. m : others[k] = with(k)
      BY <1>1, <1>6
    <3>2. rest = others
      BY <2>1, Zenon
    <3> HIDE DEF others, rest
    <3> QED
      BY <1>6, <3>1, <3>2
  <2>2. CASE ~q.again
    <3>1. rest = Tail(todo)
      BY <2>2, Zenon
    <3> HIDE DEF rest
    <3>2. /\ Tail(todo) \in Seq(Requests) /\ Len(Tail(todo)) = m
          /\ \A k \in 1 .. m : Tail(todo)[k] = todo[k + 1]
      BY <1>1 DEF m
    <3> QED
      BY <2>2, <3>1, <3>2
  <2> QED
    BY <2>1, <2>2
<1> HIDE DEF rest
<1>8. CASE q.again /\ mailbox.status # "success"
  <2> DEFINE all == <<kept>> \o rest
  <2>1. todo' = all
    BY <1>3, <1>8
  <2>2. all \in Seq(Requests) /\ Len(all) = m + 1 /\ all[1] = kept
    BY <1>1, <1>5, <1>7
  <2>3. \A k \in 2 .. m + 1 : all[k] = rest[k - 1]
    BY <1>1, <1>5, <1>7
  <2> HIDE DEF all
  <2>4. \A k \in 1 .. m + 1 : all[k].name = todo[k].name /\ all[k].data = call.data
    <3> SUFFICES ASSUME NEW k \in 1 .. m + 1
                 PROVE  all[k].name = todo[k].name /\ all[k].data = call.data
      OBVIOUS
    <3>1. CASE k = 1
      BY <1>5, <2>2, <3>1
    <3>2. CASE k # 1
      <4>1. k - 1 \in 1 .. m /\ (k - 1) + 1 = k
        BY <1>1, <3>2 DEF m
      <4>2. rest[k - 1].name = todo[k].name /\ rest[k - 1].data = call.data
        BY <1>7, <1>8, <4>1
      <4>3. k \in 2 .. m + 1
        BY <1>1, <3>2 DEF m
      <4> QED
        BY <2>3, <4>2, <4>3
    <3> QED
      BY <3>1, <3>2
  <2>5. all[1].again
    BY <1>5, <1>8, <2>2
  <2>6. m + 1 = Len(todo)
    BY <1>1 DEF m
  <2> QED
    BY <1>1, <1>8, <2>1, <2>2, <2>4, <2>5, <2>6
<1>9. CASE ~(q.again /\ mailbox.status # "success")
  <2>1. todo' = rest
    BY <1>3, <1>9
  <2> QED
    BY <1>1, <1>7, <1>9, <2>1 DEF m
<1> QED
  BY <1>8, <1>9

LEMMA WriteIdleInv ==
    ASSUME PcomInv, Modem!WriteIdle
    PROVE  PcomInv'
<1>1. /\ call.at = "read" /\ call' = [call EXCEPT !.at = "none"]
      /\ mailbox' = [mailbox EXCEPT !.command = "idle"]
      /\ table' = IF Head(todo).entry # "none"
                  THEN [table EXCEPT ![Head(todo).entry] = call.data] ELSE table
      /\ modem' = modem /\ supply' = supply
  BY Zenon DEF Modem!WriteIdle, Modem!None
<1>2. todo # << >> /\ todo' \in Seq(Requests)
  BY WriteIdleFacts
<1>3. table' \in [Clocks -> Datas] /\ call.data \in Datas
  BY <1>1 DEF PcomInv, PcomTypes
<1>4. /\ call' \in [at : {"start", "none", "written", "notified", "read"}, data : Datas]
      /\ call'.at = "none"
  BY <1>1 DEF PcomInv, PcomTypes
<1>5. mailbox' \in [command : Names \union {"idle", "done"}, data : Datas, status : Statuses]
  BY <1>1 DEF PcomInv, PcomTypes
<1>6. PcomTypes'
  BY <1>1, <1>2, <1>3, <1>4, <1>5 DEF PcomInv, PcomTypes
<1>7. ~modem'.rung /\ ~Answered'
  BY <1>1, <1>4 DEF PcomInv, CallInv, Answered
<1>8. CallInv' /\ EchoInv'
  BY <1>4, <1>7 DEF CallInv, EchoInv
<1>9. ASSUME modem'.kept PROVE SupplyInv'
  <2>0. EchoInv /\ SupplyInv
    BY <1>1, <1>9 DEF PcomInv
  <2>1. Answered /\ (todo[1].name \in SupplyNames => call.data = todo[1].data)
    BY <1>1, <2>0 DEF EchoInv, Answered
  <2>2. Modem!LevelBeforeOn'
    BY <1>1, <2>0 DEF SupplyInv, Modem!LevelBeforeOn
  <2>3. Len(todo) \in Nat \ {0}
    BY <1>2 DEF PcomInv, PcomTypes
  <2>4. CASE Plainly
    <3>1. ~todo[1].again
      BY <2>3, <2>4 DEF Plainly
    <3>2. Plainly'
      BY <2>3, <2>4, <3>1, WriteIdleFacts DEF Plainly
    <3> QED
      BY <2>2, <3>2 DEF SupplyInv
  <2>5. CASE Switching
    <3>1. CASE todo[1].again /\ mailbox.status # "success"
      <4>1. Switching'
        BY <1>1, <2>1, <2>5, <3>1, WriteIdleFacts DEF Switching, SupplyNames
      <4> QED
        BY <2>2, <4>1 DEF SupplyInv
    <3>2. CASE ~(todo[1].again /\ mailbox.status # "success")
      <4>1. Plainly'
        BY <2>5, <3>2, WriteIdleFacts DEF Switching, Plainly
      <4> QED
        BY <2>2, <4>1 DEF SupplyInv
    <3> QED
      BY <3>1, <3>2
  <2>6. CASE Levelling
    <3>1. CASE mailbox.status # "success"
      <4>1. Levelling'
        BY <1>7, <2>1, <2>6, <3>1, WriteIdleFacts DEF Levelling, SupplyNames
      <4> QED
        BY <2>2, <4>1 DEF SupplyInv
    <3>2. CASE mailbox.status = "success"
      <4>1. Switching'
        BY <1>1, <2>1, <2>6, <3>2, WriteIdleFacts DEF Levelling, Switching, SupplyNames
      <4> QED
        BY <2>2, <4>1 DEF SupplyInv
    <3> QED
      BY <3>1, <3>2
  <2> QED
    BY <2>0, <2>4, <2>5, <2>6 DEF SupplyInv
<1> QED
  BY <1>6, <1>8, <1>9 DEF PcomInv

LEMMA PcomStepInv == PcomInv /\ [Modem!Next]_pcomVars => PcomInv'
<1> SUFFICES ASSUME PcomInv, [Modem!Next]_pcomVars PROVE PcomInv'
  OBVIOUS
<1>1. CASE UNCHANGED pcomVars
  <2>1. UNCHANGED <<mailbox, modem, call, todo, supply>> /\ table' \in [Clocks -> Datas]
    BY <1>1 DEF pcomVars, PcomInv, PcomTypes
  <2> QED
    BY <2>1, SamePcom
<1>2. CASE Modem!MsmClockInit
  BY <1>2, MsmClockInitInv
<1>3. CASE Modem!Functions
  BY <1>3, ClockFunctionsInv, RegulatorFunctionsInv, GpioConfigInv DEF Modem!Functions
<1>4. CASE Modem!ProcComm
  BY <1>4, BeginInv, NotifyModemInv, ReadReplyInv, WriteIdleInv DEF Modem!ProcComm
<1>5. CASE Modem!ModemStarts \/ \E status \in Modem!Statuses : Modem!ModemAnswers(status)
  BY <1>5, ModemStartsInv, ModemAnswersInv DEF Modem!Statuses
<1> QED
  BY <1>1, <1>2, <1>3, <1>4, <1>5 DEF Modem!Next

LEMMA PcomInitInv == Init => PcomInv
<1> SUFFICES ASSUME Init PROVE PcomInv
  OBVIOUS
<1>1. /\ mailbox = [command |-> "idle", data |-> "none", status |-> "invalid"]
      /\ modem = [ready |-> FALSE, rung |-> FALSE, kept |-> TRUE,
                  last |-> [name |-> "none", data |-> "none", status |-> "none"]]
      /\ call = [at |-> "start", data |-> "none"] /\ todo = << >>
      /\ table = [c \in Clocks |-> "none"]
      /\ supply = [level |-> {}, on |-> {}]
  BY DEF Init, Modem!Init, Modem!None
<1>2. PcomTypes
  BY <1>1 DEF PcomTypes, ModemTypes, Datas, Statuses
<1>3. CallInv /\ EchoInv
  BY <1>1 DEF CallInv, EchoInv, Answered
<1>4. SupplyInv
  BY <1>1 DEF SupplyInv, Plainly, Modem!LevelBeforeOn
<1> QED
  BY <1>2, <1>3, <1>4 DEF PcomInv

\* msm_proc_comm: the answer that a function reads is that to its own command, whatever
\* the answers bring.  pcom_vreg_control: a regulator goes on after its own level was set,
\* however often and wherever the modem fails and whatever the answers to the commands of
\* clocks and pins leave in the registers, as long as those to the commands of regulators
\* leave the regulator's number there, which pcom_vreg_control gives again.
THEOREM CallsAreAnswered == Spec => []CallsAnswered
<1>1. PcomInv /\ [Next]_vars => PcomInv'
  BY ComponentSteps, PcomStepInv
<1>2. PcomInv => CallsAnswered
  BY PcomInvSuffices DEF CallsAnswered
<1> QED
  BY <1>1, <1>2, PcomInitInv, PTL DEF Spec

-----------------------------------------------------------------------------
(* SerialConsole.                                                          *)

Characters == {"glyph", "blank", "newline", "return", "other"}
SerialColors == {"none", "white", "yellow"}
Writes == [text : Seq(Characters), interrupts : BOOLEAN, critical : BOOLEAN,
           color : SerialColors, newline : BOOLEAN]

SerialTypes ==
    /\ position \in [x : Nat, y : Nat] /\ color \in SerialColors
    /\ interrupts \in BOOLEAN /\ initialized \in BOOLEAN
    /\ writes \in Seq(Writes)

\* The next glyph is in a column of the line, and its line is not the last.
PositionInv ==
    /\ position.x < Serial!Columns
    /\ position.y + ScaleFactor < Serial!MaxPositionY \/ position.y = 0

\* The colour after the writes from the k-th on of the stack have begun.
CriticalFrom(k) == \E j \in k .. Len(writes) : writes[j].critical
ColourFrom(k) == IF CriticalFrom(k) THEN "yellow" ELSE "white"

\* A critical write has kept the colour that the writes below it had made.
ColourInv ==
    /\ writes # << >> => initialized
    /\ initialized => color = ColourFrom(1)
    /\ \A k \in 1 .. Len(writes) : writes[k].critical => writes[k].color = ColourFrom(k + 1)

SerialInv == SerialTypes /\ PositionInv /\ Serial!OnlyNewlineOpens /\ ColourInv

LEMMA SerialFacts ==
    /\ {GWidth, GHeight, FontWidth, FontHeight, ScaleFactor} \subseteq Nat \ {0}
    /\ Texts \subseteq Seq(Characters) /\ Garbage \subseteq BOOLEAN
    /\ Serial!MaxPositionX \in Nat /\ Serial!MaxPositionY \in Nat /\ Serial!Columns \in Nat
    /\ Serial!MaxPositionX * (FontWidth + 1) <= GWidth
    /\ Serial!MaxPositionY * FontHeight <= GHeight - 1
    /\ Serial!Columns * ScaleFactor <= Serial!MaxPositionX
    /\ Serial!Columns >= 2 /\ Serial!MaxPositionY > 3 * ScaleFactor
<1>1. /\ {GWidth, GHeight, FontWidth, FontHeight, ScaleFactor} \subseteq Nat \ {0}
      /\ Texts \subseteq Seq(Characters) /\ Garbage \subseteq BOOLEAN
      /\ GWidth \div (FontWidth + 1) >= 2 * ScaleFactor
      /\ (GHeight - 1) \div FontHeight > 3 * ScaleFactor
  BY PlatformAssumption DEF Serial!SerialAssumption, Characters
<1>2. \A n \in Nat, m \in Nat \ {0} : n \div m \in Nat /\ (n \div m) * m <= n
  OBVIOUS
<1>3. \A n \in Nat, m \in Nat \ {0} : n >= 2 * m => n \div m >= 2
  OBVIOUS
<1>4. /\ Serial!MaxPositionX \in Nat /\ Serial!MaxPositionX * (FontWidth + 1) <= GWidth
      /\ Serial!MaxPositionX >= 2 * ScaleFactor
  <2>1. GWidth \in Nat /\ FontWidth + 1 \in Nat \ {0}
    BY <1>1
  <2> QED
    BY <1>1, <1>2, <2>1 DEF Serial!MaxPositionX
<1>5. /\ Serial!MaxPositionY \in Nat /\ Serial!MaxPositionY * FontHeight <= GHeight - 1
      /\ Serial!MaxPositionY > 3 * ScaleFactor
  <2>1. GHeight - 1 \in Nat /\ FontHeight \in Nat \ {0}
    BY <1>1
  <2> QED
    BY <1>1, <1>2, <2>1 DEF Serial!MaxPositionY
<1>6. /\ Serial!Columns \in Nat /\ Serial!Columns * ScaleFactor <= Serial!MaxPositionX
      /\ Serial!Columns >= 2
  <2>1. ScaleFactor \in Nat \ {0}
    BY <1>1
  <2> QED
    BY <1>2, <1>3, <1>4, <2>1 DEF Serial!Columns
<1> QED
  BY <1>1, <1>4, <1>5, <1>6

LEMMA GlyphFitsAt ==
    ASSUME NEW x \in Nat, NEW y \in Nat, x < Serial!Columns,
           y + ScaleFactor < Serial!MaxPositionY \/ y = 0
    PROVE  Serial!GlyphFits([x |-> x, y |-> y])
<1> DEFINE s == ScaleFactor
           w == FontWidth + 1
           h == FontHeight
           c == Serial!Columns
           mx == Serial!MaxPositionX
           my == Serial!MaxPositionY
<1>1. /\ s \in Nat \ {0} /\ w \in Nat \ {0} /\ h \in Nat \ {0} /\ c \in Nat /\ mx \in Nat
      /\ my \in Nat /\ GWidth \in Nat /\ GHeight \in Nat /\ FontWidth = w - 1
      /\ mx * w <= GWidth /\ my * h <= GHeight - 1 /\ c * s <= mx /\ my > 3 * s
  <2>1. s \in Nat \ {0} /\ h \in Nat \ {0} /\ GWidth \in Nat /\ GHeight \in Nat /\ FontWidth \in Nat
    BY SerialFacts
  <2>2. w \in Nat \ {0} /\ FontWidth = w - 1
    BY <2>1
  <2>3. /\ c \in Nat /\ mx \in Nat /\ my \in Nat
        /\ mx * w <= GWidth /\ my * h <= GHeight - 1 /\ c * s <= mx /\ my > 3 * s
    BY SerialFacts, Zenon
  <2> QED
    BY <2>1, <2>2, <2>3
<1> HIDE DEF s, w, h, c, mx, my
<1>2. x + 1 \in Nat /\ x + 1 <= c /\ y + s \in Nat /\ y + s <= my
  BY <1>1 DEF c, s, my
<1>3. \A a, b, d \in Nat : a <= b => a * d <= b * d
  OBVIOUS
<1>4. (x + 1) * s \in Nat /\ (x + 1) * s <= mx
  BY <1>1, <1>2, <1>3
<1>5. ((x + 1) * s) * w <= GWidth /\ (y + s) * h <= GHeight
  BY <1>1, <1>2, <1>3, <1>4
<1>6. x * s * w + s * (w - 1) <= ((x + 1) * s) * w
  BY <1>1
<1>7. y * h + s * h = (y + s) * h
  BY <1>1
<1>8. x * s * w + s * (w - 1) <= GWidth /\ y * h + s * h <= GHeight
  BY <1>1, <1>5, <1>6, <1>7
<1> QED
  BY <1>1, <1>8 DEF Serial!GlyphFits, s, w, h

\* SerialPortWrite and the return of a write: the stack.
LEMMA WriteBegins ==
    ASSUME SerialInv, NEW text \in Texts, NEW critical \in BOOLEAN,
           Serial!SerialPortWrite(text, critical)
    PROVE  SerialInv'
<1> DEFINE top == [text |-> text, interrupts |-> interrupts, critical |-> critical,
                   color |-> color, newline |-> FALSE]
           t == <<top>> \o writes
<1>1. /\ initialized /\ (writes # << >> => interrupts) /\ writes' = t
      /\ color' = IF critical THEN "yellow" ELSE color
      /\ ~interrupts' /\ interrupts' \in BOOLEAN
      /\ position' = position /\ (initialized' <=> initialized)
  BY DEF Serial!SerialPortWrite
<1>2. top \in Writes /\ writes \in Seq(Writes)
  BY SerialFacts DEF SerialInv, SerialTypes, Writes
<1>3. top.critical = critical /\ top.color = color /\ top.newline = FALSE
  OBVIOUS
<1> HIDE DEF top
<1>4. /\ t \in Seq(Writes) /\ Len(t) = Len(writes) + 1 /\ t[1] = top
      /\ \A k \in 1 .. Len(writes) : t[k + 1] = writes[k]
  BY <1>2
<1> HIDE DEF t
<1>5. SerialTypes'
  BY <1>1, <1>4 DEF SerialInv, SerialTypes, SerialColors
<1>6. PositionInv'
  BY <1>1 DEF SerialInv, PositionInv
<1>7. Len(writes) \in Nat
  BY <1>2
<1>8. Serial!OnlyNewlineOpens'
  <2>1. ASSUME NEW k \in 2 .. Len(t) PROVE t[k].newline
    <3>1. k - 1 \in 1 .. Len(writes) /\ t[(k - 1) + 1] = writes[k - 1] /\ (k - 1) + 1 = k
      BY <1>4, <1>7
    <3>2. writes # << >>
      BY <1>2, <3>1
    <3>3. writes[1].newline
      BY <1>1, <3>2 DEF SerialInv, Serial!OnlyNewlineOpens, Serial!Top
    <3> QED
      BY <3>1, <3>3 DEF SerialInv, Serial!OnlyNewlineOpens
  <2> QED
    BY <1>1, <2>1 DEF Serial!OnlyNewlineOpens
<1>9. \A k \in 1 .. Len(writes) + 1 : CriticalFrom(k + 1)' <=> CriticalFrom(k)
  <2> SUFFICES ASSUME NEW k \in 1 .. Len(writes) + 1
               PROVE  CriticalFrom(k + 1)' <=> CriticalFrom(k)
    OBVIOUS
  <2>1. CriticalFrom(k) => CriticalFrom(k + 1)'
    BY <1>1, <1>4, <1>7 DEF CriticalFrom
  <2>2. ASSUME NEW j \in k + 1 .. Len(t), t[j].critical PROVE CriticalFrom(k)
    <3>1. j - 1 \in k .. Len(writes) /\ j - 1 \in 1 .. Len(writes) /\ (j - 1) + 1 = j
      BY <1>4, <1>7
    <3>2. writes[j - 1] = t[j]
      BY <1>4, <3>1
    <3> QED
      BY <2>2, <3>1, <3>2 DEF CriticalFrom
  <2> QED
    BY <1>1, <2>1, <2>2 DEF CriticalFrom
<1>10. CriticalFrom(1)' <=> critical \/ CriticalFrom(1)
  <2>1. CriticalFrom(1)' <=> t[1].critical \/ CriticalFrom(2)'
    BY <1>1, <1>4, <1>7 DEF CriticalFrom
  <2> QED
    BY <1>3, <1>4, <1>7, <1>9, <2>1
<1>11. ColourInv'
  <2>1. color' = ColourFrom(1)'
    BY <1>1, <1>10 DEF SerialInv, ColourInv, ColourFrom
  <2>2. ASSUME NEW k \in 1 .. Len(t), t[k].critical PROVE t[k].color = ColourFrom(k + 1)'
    <3>1. CASE k = 1
      BY <1>1, <1>3, <1>4, <1>7, <1>9, <3>1 DEF SerialInv, ColourInv, ColourFrom
    <3>2. CASE k # 1
      <4>1. k - 1 \in 1 .. Len(writes) /\ (k - 1) + 1 = k
        BY <1>4, <1>7, <3>2
      <4>2. t[k] = writes[k - 1] /\ (CriticalFrom(k + 1)' <=> CriticalFrom(k))
        BY <1>4, <1>7, <1>9, <4>1
      <4>3. writes[k - 1].color = ColourFrom(k)
        BY <2>2, <4>1, <4>2 DEF SerialInv, ColourInv
      <4> QED
        BY <4>2, <4>3 DEF ColourFrom
    <3> QED
      BY <3>1, <3>2
  <2> QED
    BY <1>1, <2>1, <2>2 DEF ColourInv
<1> QED
  BY <1>5, <1>6, <1>8, <1>11 DEF SerialInv

\* The position after a character, wherever the one before it is.
InFrame(p) ==
    /\ p \in [x : Nat, y : Nat] /\ p.x < Serial!Columns
    /\ p.y + ScaleFactor < Serial!MaxPositionY \/ p.y = 0

LEMMA NewLineFacts ==
    ASSUME NEW p \in [x : Nat, y : Nat]
    PROVE  InFrame(Serial!NewLine(p))
<1> DEFINE y == p.y + ScaleFactor
           z == IF y >= Serial!MaxPositionY - ScaleFactor THEN 0 ELSE y
<1>1. Serial!NewLine(p) = [x |-> 0, y |-> z]
  BY Zenon DEF Serial!NewLine
<1>2. z \in Nat /\ (z + ScaleFactor < Serial!MaxPositionY \/ z = 0)
  BY SerialFacts
<1> HIDE DEF z
<1>3. [x |-> 0, y |-> z] \in [x : Nat, y : Nat]
  BY <1>2
<1>4. [x |-> 0, y |-> z].x = 0 /\ [x |-> 0, y |-> z].y = z
  OBVIOUS
<1> QED
  BY <1>1, <1>2, <1>3, <1>4, SerialFacts DEF InFrame

LEMMA CharacterFacts ==
    ASSUME NEW c, NEW p \in [x : Nat, y : Nat], InFrame(p)
    PROVE  /\ InFrame(Serial!AfterGlyph(c, p)) /\ InFrame(Serial!AfterNewline(p))
           /\ InFrame([p EXCEPT !.x = 0])
<1>1. InFrame(Serial!NewLine(p)) /\ InFrame(Serial!NewLine([x |-> 0, y |-> 0]))
  <2>1. [x |-> 0, y |-> 0] \in [x : Nat, y : Nat]
    OBVIOUS
  <2> QED
    BY <2>1, NewLineFacts
<1>2. InFrame(Serial!AfterNewline(p))
  BY <1>1 DEF Serial!AfterNewline
<1>3. ASSUME NEW n \in Nat, n < Serial!Columns PROVE InFrame([p EXCEPT !.x = n])
  <2>1. /\ [p EXCEPT !.x = n] \in [x : Nat, y : Nat]
        /\ [p EXCEPT !.x = n].x = n /\ [p EXCEPT !.x = n].y = p.y
    OBVIOUS
  <2> QED
    BY <1>3, <2>1 DEF InFrame
<1>4. ASSUME ~Serial!LineFull(p) PROVE InFrame([p EXCEPT !.x = @ + 1])
  <2>1. p.x + 1 \in Nat /\ p.x + 1 < Serial!Columns
    BY <1>4, SerialFacts DEF Serial!LineFull
  <2> QED
    BY <1>3, <2>1
<1>5. \A n \in {0, 1} : InFrame([x |-> n, y |-> 0])
  BY SerialFacts DEF InFrame
<1>6. InFrame(Serial!AfterGlyph(c, p))
  BY <1>1, <1>4, <1>5 DEF Serial!AfterGlyph
<1>7. InFrame([p EXCEPT !.x = 0])
  <2>1. 0 \in Nat /\ 0 < Serial!Columns
    BY SerialFacts
  <2> QED
    BY <1>3, <2>1
<1> QED
  BY <1>2, <1>6, <1>7

\* The fields of a write that an EXCEPT leaves alone.
LEMMA WriteExcept ==
    ASSUME NEW w \in Writes, NEW text \in Seq(Characters), NEW b \in BOOLEAN
    PROVE  /\ [w EXCEPT !.text = text]
                = [text |-> text, interrupts |-> w.interrupts, critical |-> w.critical,
                   color |-> w.color, newline |-> w.newline]
           /\ [w EXCEPT !.newline = b]
                = [text |-> w.text, interrupts |-> w.interrupts, critical |-> w.critical,
                   color |-> w.color, newline |-> b]
  BY DEF Writes

\* A write that draws keeps its place in the stack, and turns interrupts on only with a
\* newline.
LEMMA PutCharInv ==
    ASSUME SerialInv, Serial!PutChar
    PROVE  SerialInv'
<1> DEFINE top == writes[1]
           c == Head(top.text)
           drawn == c = "glyph" \/ (c = "blank" /\ position.x # 0)
           after == [text |-> Tail(top.text), interrupts |-> top.interrupts,
                     critical |-> top.critical, color |-> top.color,
                     newline |-> (top.newline \/ c = "newline")]
           t == [writes EXCEPT ![1] = after]
<1>1. /\ writes # << >> /\ top.text # << >>
      /\ position' = CASE drawn -> Serial!AfterGlyph(c, position)
                       [] c = "newline" -> Serial!AfterNewline(position)
                       [] c = "return" -> [position EXCEPT !.x = 0]
                       [] OTHER -> position
      /\ \E intstate \in Serial!IntState(c) : interrupts' = (interrupts \/ intstate)
      /\ writes' = [writes EXCEPT ![1].text = Tail(@), ![1].newline = @ \/ c = "newline"]
      /\ color' = color /\ initialized' = initialized
  BY Zenon DEF Serial!PutChar, Serial!Top
<1>2. writes \in Seq(Writes) /\ Len(writes) \in Nat \ {0} /\ top \in Writes
  BY <1>1 DEF SerialInv, SerialTypes
<1>3. Tail(top.text) \in Seq(Characters)
  BY <1>1, <1>2 DEF Writes
<1>4. after \in Writes
  BY <1>2, <1>3 DEF Writes
<1>5. writes' = t
  <2>1. writes' = [[writes EXCEPT ![1].text = Tail(@)]
                      EXCEPT ![1].newline = @ \/ c = "newline"]
    BY <1>1, <1>2
  <2> DEFINE u == [writes EXCEPT ![1] = [top EXCEPT !.text = Tail(top.text)]]
             m == [top EXCEPT !.text = Tail(top.text)]
  <2>2. m = [text |-> Tail(top.text), interrupts |-> top.interrupts,
             critical |-> top.critical, color |-> top.color, newline |-> top.newline]
    BY <1>2, <1>3, WriteExcept
  <2>3. writes' = [u EXCEPT ![1] = [m EXCEPT !.newline = m.newline \/ c = "newline"]]
    BY <1>1, <1>2
  <2> HIDE DEF m, top
  <2>4. /\ m.text = Tail(top.text) /\ m.interrupts = top.interrupts
        /\ m.critical = top.critical /\ m.color = top.color /\ m.newline = top.newline
    BY <2>2, Zenon
  <2>5. m \in Writes
    BY <1>2, <1>3, <2>2 DEF Writes
  <2>6. m.text \in Seq(Characters)
    BY <1>3, <2>4
  <2>7. [m EXCEPT !.newline = m.newline \/ c = "newline"] = after
    <3> DEFINE b == m.newline \/ c = "newline"
    <3>1. b \in BOOLEAN
      OBVIOUS
    <3> HIDE DEF b
    <3>2. [m EXCEPT !.newline = b]
            = [text |-> m.text, interrupts |-> m.interrupts, critical |-> m.critical,
               color |-> m.color, newline |-> b]
      BY <2>5, <2>6, <3>1, WriteExcept
    <3> QED
      BY <2>4, <3>2, Zenon DEF b
  <2> HIDE DEF after
  <2> QED
    BY <1>2, <2>3, <2>7 DEF m
<1>6. /\ after.critical = top.critical /\ after.color = top.color
      /\ after.newline <=> top.newline \/ c = "newline"
  <2> DEFINE b == top.newline \/ c = "newline"
  <2>1. after = [text |-> Tail(top.text), interrupts |-> top.interrupts,
                 critical |-> top.critical, color |-> top.color, newline |-> b]
    OBVIOUS
  <2> HIDE DEF after, b
  <2>2. after.critical = top.critical /\ after.color = top.color /\ after.newline = b
    BY <2>1, Zenon
  <2> QED
    BY <2>2 DEF b
<1> HIDE DEF after
<1>7. /\ t \in Seq(Writes) /\ Len(t) = Len(writes) /\ t[1] = after
      /\ \A k \in 2 .. Len(writes) : t[k] = writes[k]
  BY <1>2, <1>4
<1> HIDE DEF t
<1>8. interrupts' \in BOOLEAN
  BY <1>1 DEF SerialInv, SerialTypes, Serial!IntState
<1>9. position' \in [x : Nat, y : Nat] /\ PositionInv'
  <2>1. position \in [x : Nat, y : Nat] /\ InFrame(position)
    BY DEF SerialInv, SerialTypes, PositionInv, InFrame
  <2>2. InFrame(position')
    BY <1>1, <2>1, CharacterFacts
  <2> QED
    BY <2>2 DEF InFrame, PositionInv
<1>10. SerialTypes'
  BY <1>1, <1>5, <1>7, <1>8, <1>9 DEF SerialInv, SerialTypes
<1>11. Serial!OnlyNewlineOpens'
  <2>1. \A k \in 2 .. Len(t) : t[k].newline
    BY <1>7 DEF SerialInv, Serial!OnlyNewlineOpens
  <2>2. ASSUME ~after.newline PROVE ~interrupts'
    <3>1. ~top.newline /\ c # "newline"
      BY <1>6, <2>2
    <3>2. ~interrupts
      BY <1>1, <3>1 DEF SerialInv, Serial!OnlyNewlineOpens, Serial!Top
    <3>3. PICK intstate \in {interrupts} : interrupts' = (interrupts \/ intstate)
      BY <1>1, <3>1 DEF Serial!IntState
    <3>4. intstate = interrupts
      OBVIOUS
    <3>5. interrupts' = FALSE
      BY <3>2, <3>3, <3>4
    <3> QED
      BY <3>5
  <2> QED
    BY <1>5, <1>7, <2>1, <2>2 DEF Serial!OnlyNewlineOpens, Serial!Top
<1>12. \A k \in 1 .. Len(writes) : (t[k].critical <=> writes[k].critical) /\ t[k].color = writes[k].color
  BY <1>2, <1>6, <1>7
<1>13. \A k \in Nat \ {0} : CriticalFrom(k)' <=> CriticalFrom(k)
  BY <1>2, <1>5, <1>7, <1>12 DEF CriticalFrom
<1>14. ColourInv'
  <2>1. color' = ColourFrom(1)' \/ ~initialized
    BY <1>1, <1>13 DEF SerialInv, ColourInv, ColourFrom
  <2>2. ASSUME NEW k \in 1 .. Len(t), t[k].critical PROVE t[k].color = ColourFrom(k + 1)'
    <3>1. k \in 1 .. Len(writes) /\ k + 1 \in Nat \ {0}
      BY <1>7
    <3>2. writes[k].color = ColourFrom(k + 1)
      BY <1>12, <2>2, <3>1 DEF SerialInv, ColourInv
    <3> QED
      BY <1>12, <1>13, <3>1, <3>2 DEF ColourFrom
  <2>3. initialized'
    BY <1>1 DEF SerialInv, ColourInv
  <2> QED
    BY <1>1, <1>5, <2>1, <2>2, <2>3 DEF ColourInv
<1> QED
  BY <1>9, <1>10, <1>11, <1>14 DEF SerialInv

LEMMA WriteReturns ==
    ASSUME SerialInv, Serial!Return
    PROVE  SerialInv'
<1> DEFINE top == writes[1]
           t == Tail(writes)
<1>1. /\ writes # << >> /\ writes' = t
      /\ interrupts' = (interrupts \/ top.interrupts)
      /\ color' = IF top.critical THEN top.color ELSE color
      /\ position' = position /\ initialized' = initialized
  BY DEF Serial!Return, Serial!Top
<1>2. writes \in Seq(Writes) /\ Len(writes) \in Nat \ {0} /\ top \in Writes
  BY <1>1 DEF SerialInv, SerialTypes
<1>3. /\ t \in Seq(Writes) /\ Len(t) = Len(writes) - 1
      /\ \A k \in 1 .. Len(t) : t[k] = writes[k + 1]
  BY <1>1, <1>2
<1> HIDE DEF t
<1>4. interrupts' \in BOOLEAN
  BY <1>1
<1>5. SerialTypes'
  BY <1>1, <1>2, <1>3, <1>4 DEF SerialInv, SerialTypes, Writes
<1>6. PositionInv'
  BY <1>1 DEF SerialInv, PositionInv
<1>7. Serial!OnlyNewlineOpens'
  <2>1. \A k \in 1 .. Len(t) : t[k].newline
    BY <1>2, <1>3 DEF SerialInv, Serial!OnlyNewlineOpens
  <2> QED
    BY <1>1, <1>3, <2>1 DEF Serial!OnlyNewlineOpens, Serial!Top
<1>8. \A k \in Nat \ {0} : CriticalFrom(k)' <=> CriticalFrom(k + 1)
  <2> SUFFICES ASSUME NEW k \in Nat \ {0} PROVE CriticalFrom(k)' <=> CriticalFrom(k + 1)
    OBVIOUS
  <2>1. CriticalFrom(k)' => CriticalFrom(k + 1)
    BY <1>1, <1>2, <1>3 DEF CriticalFrom
  <2>2. ASSUME NEW j \in k + 1 .. Len(writes), writes[j].critical PROVE CriticalFrom(k)'
    <3>1. j - 1 \in k .. Len(t) /\ j - 1 \in 1 .. Len(t) /\ (j - 1) + 1 = j
      BY <1>2, <1>3
    <3>2. t[j - 1] = writes[j]
      BY <1>3, <3>1
    <3> QED
      BY <1>1, <2>2, <3>1, <3>2 DEF CriticalFrom
  <2> QED
    BY <2>1, <2>2 DEF CriticalFrom
<1>9. CriticalFrom(1) <=> top.critical \/ CriticalFrom(2)
  BY <1>2 DEF CriticalFrom
<1>10. ColourInv'
  <2>1. initialized'
    BY <1>1 DEF SerialInv, ColourInv
  <2>2. color' = ColourFrom(1)'
    BY <1>1, <1>2, <1>8, <1>9, <2>1 DEF SerialInv, ColourInv, ColourFrom
  <2>3. ASSUME NEW k \in 1 .. Len(t), t[k].critical PROVE t[k].color = ColourFrom(k + 1)'
    <3>1. t[k] = writes[k + 1] /\ k + 1 \in 1 .. Len(writes) /\ k + 1 \in Nat \ {0}
      BY <1>2, <1>3
    <3>2. writes[k + 1].color = ColourFrom(k + 1 + 1)
      BY <2>3, <3>1 DEF SerialInv, ColourInv
    <3> QED
      BY <1>8, <3>1, <3>2 DEF ColourFrom
  <2> QED
    BY <1>1, <2>1, <2>2, <2>3 DEF ColourInv
<1> QED
  BY <1>5, <1>6, <1>7, <1>10 DEF SerialInv

LEMMA SerialStepInv == SerialInv /\ [Serial!Next]_serialVars => SerialInv'
<1> SUFFICES ASSUME SerialInv, [Serial!Next]_serialVars PROVE SerialInv'
  OBVIOUS
<1>1. CASE UNCHANGED serialVars
  <2>1. UNCHANGED <<position, color, interrupts, writes, initialized>>
    BY <1>1 DEF serialVars
  <2>2. SerialTypes' /\ PositionInv'
    BY <2>1 DEF SerialInv, SerialTypes, PositionInv
  <2>3. Serial!OnlyNewlineOpens'
    BY <2>1 DEF SerialInv, Serial!OnlyNewlineOpens, Serial!Top
  <2>4. ColourInv'
    BY <2>1 DEF SerialInv, ColourInv, ColourFrom, CriticalFrom
  <2> QED
    BY <2>2, <2>3, <2>4 DEF SerialInv
<1>2. CASE Serial!SerialPortInitialize
  <2>1. /\ writes = << >> /\ writes' = << >> /\ interrupts' = interrupts /\ initialized'
        /\ initialized' \in BOOLEAN
        /\ initialized => position' = position /\ color' = color
        /\ ~initialized => position' = [x |-> 0, y |-> 0] /\ color' = "white"
    BY <1>2 DEF Serial!SerialPortInitialize
  <2>2. SerialTypes'
    BY <2>1 DEF SerialInv, SerialTypes, SerialColors
  <2>3. PositionInv'
    BY <2>1, SerialFacts DEF SerialInv, PositionInv
  <2>4. Serial!OnlyNewlineOpens'
    BY <2>1 DEF Serial!OnlyNewlineOpens
  <2>5. ColourInv'
    BY <2>1 DEF SerialInv, ColourInv, ColourFrom, CriticalFrom
  <2> QED
    BY <2>2, <2>3, <2>4, <2>5 DEF SerialInv
<1>3. CASE Serial!Program
  <2>1. /\ writes = << >> /\ writes' = << >> /\ interrupts' \in BOOLEAN
        /\ UNCHANGED <<position, color, initialized>>
    BY <1>3 DEF Serial!Program
  <2>2. SerialTypes' /\ PositionInv'
    BY <2>1 DEF SerialInv, SerialTypes, PositionInv
  <2>3. Serial!OnlyNewlineOpens'
    BY <2>1 DEF Serial!OnlyNewlineOpens
  <2>4. ColourInv'
    BY <2>1 DEF SerialInv, ColourInv, ColourFrom, CriticalFrom
  <2> QED
    BY <2>2, <2>3, <2>4 DEF SerialInv
<1>4. CASE \E text \in Texts, critical \in BOOLEAN : Serial!SerialPortWrite(text, critical)
  BY <1>4, WriteBegins
<1> QED
  BY <1>1, <1>2, <1>3, <1>4, PutCharInv, WriteReturns DEF Serial!Next

LEMMA SerialInvSuffices ==
    ASSUME SerialInv
    PROVE  Serial!GlyphInFrame /\ Serial!OnlyNewlineOpens /\ Serial!ColorGivenBack
<1>1. Serial!GlyphInFrame
  <2>1. position = [x |-> position.x, y |-> position.y] /\ position.x \in Nat /\ position.y \in Nat
    BY DEF SerialInv, SerialTypes
  <2>2. Serial!GlyphFits([x |-> position.x, y |-> position.y])
    BY <2>1, GlyphFitsAt DEF SerialInv, PositionInv
  <2> QED
    BY <2>1, <2>2 DEF Serial!GlyphInFrame
<1>2. Serial!ColorGivenBack
  <2>1. DOMAIN writes = 1 .. Len(writes)
    BY DEF SerialInv, SerialTypes
  <2> QED
    BY <2>1 DEF SerialInv, ColourInv, ColourFrom, CriticalFrom, Serial!ColorGivenBack
<1> QED
  BY <1>1, <1>2 DEF SerialInv

LEMMA SerialInitInv == Serial!Init => SerialInv
<1> SUFFICES ASSUME Serial!Init PROVE SerialInv
  OBVIOUS
<1>1. /\ position = [x |-> 0, y |-> 0] /\ color = "none" /\ interrupts \in BOOLEAN
      /\ writes = << >> /\ ~initialized /\ initialized \in BOOLEAN
  BY DEF Serial!Init
<1>2. SerialTypes
  BY <1>1 DEF SerialTypes, SerialColors
<1>3. PositionInv
  BY <1>1, SerialFacts DEF PositionInv
<1>4. Serial!OnlyNewlineOpens /\ ColourInv
  BY <1>1 DEF Serial!OnlyNewlineOpens, ColourInv
<1> QED
  BY <1>2, <1>3, <1>4 DEF SerialInv

-----------------------------------------------------------------------------
(* FrameBuffer: memory by its cells.  The pixel in column c and line l of a *)
(* rectangle is the only one there, which is what turns the addresses that *)
(* With and CopyLine calculate with into places of a rectangle.            *)

FrameInv == video \in [Frame!Memory -> Nat] /\ buffer \in [Frame!Frame -> Nat]

LEMMA FrameFacts ==
    /\ Width \in Nat \ {0} /\ Height \in Nat \ {0}
    /\ PixelValues \subseteq Nat /\ 0 \in PixelValues
    /\ Frame!PixelsPerScanLine = Width
    /\ \A x, y : Frame!PixelAt(x, y) = y * Width + x
  BY PlatformAssumption DEF PlatformAssumption, Frame!FrameAssumption,
     Frame!PixelsPerScanLine, Frame!PixelAt

\* The sides of a rectangle r, and that it lies in a frame's width and height.
LEMMA WholeFacts ==
    ASSUME NEW r \in Frame!Whole
    PROVE  /\ r.w \in 1 .. Width /\ r.h \in 1 .. Height
           /\ r.sx \in 0 .. Width - r.w /\ r.sy \in 0 .. Height - r.h
           /\ r.dx \in 0 .. Width - r.w /\ r.dy \in 0 .. Height - r.h
  BY FrameFacts DEF Frame!Whole, Frame!SourceFits, Frame!DestinationFits

\* A line of pixels, as an address.
LEMMA LineProducts ==
    /\ \A n \in Nat : n * Width \in Nat
    /\ \A n, m \in Nat : n < m => n * Width + Width <= m * Width
    /\ \A n, m \in Nat : n <= m => n * Width <= m * Width
    /\ \A n, m \in Nat : (n + m) * Width = n * Width + m * Width
<1> DEFINE W == Width
<1>1. W \in Nat \ {0}
  BY FrameFacts
<1> HIDE DEF W
<1>2. \A n \in Nat : n * W \in Nat
  BY <1>1
<1>3. ASSUME NEW n \in Nat, NEW m \in Nat, n < m PROVE n * W + W <= m * W
  <2>1. W * n + W <= W * m
    BY <1>1, <1>3, Product
  <2>2. W * n = n * W /\ W * m = m * W
    BY <1>1
  <2> QED
    BY <2>1, <2>2
<1>4. ASSUME NEW n \in Nat, NEW m \in Nat, n <= m PROVE n * W <= m * W
  <2>1. CASE n = m
    BY <1>2, <2>1
  <2>2. CASE n < m
    BY <1>1, <1>2, <1>3, <2>2
  <2> QED
    BY <1>4, <2>1, <2>2
<1>5. \A n, m \in Nat : (n + m) * W = n * W + m * W
  BY <1>1
<1> QED
  BY <1>2, <1>3, <1>4, <1>5 DEF W

\* The column and the line of an address.
LEMMA PixelFacts ==
    ASSUME NEW x \in 0 .. Width - 1, NEW y \in Nat
    PROVE  /\ Frame!PixelAt(x, y) \in Nat
           /\ Frame!PixelAt(x, y) % Width = x /\ Frame!PixelAt(x, y) \div Width = y
           /\ y <= Height => Frame!PixelAt(x, y) \in Frame!Memory
           /\ y < Height => Frame!PixelAt(x, y) \in Frame!Frame
<1>1. /\ Width * y + x = y * Width + x /\ Frame!PixelAt(x, y) = y * Width + x
      /\ Width * Height = Height * Width /\ Width * (Height + 1) = Height * Width + Width
      /\ Width \in Nat \ {0} /\ Height \in Nat
  BY FrameFacts
<1>2. (Width * y + x) % Width = x /\ (Width * y + x) \div Width = y
  BY <1>1, RemainderUnique
<1>3. y * Width \in Nat /\ Height * Width \in Nat
  BY <1>1, LineProducts
<1>4. y <= Height => y * Width <= Height * Width
  BY <1>1, LineProducts
<1>5. y < Height => y * Width + Width <= Height * Width
  BY <1>1, LineProducts
<1>6. y <= Height => y * Width + x \in 0 .. Width * (Height + 1) - 1
  BY <1>1, <1>3, <1>4
<1>7. y < Height => y * Width + x \in 0 .. Width * Height - 1
  BY <1>1, <1>3, <1>5
<1> QED
  BY <1>1, <1>2, <1>3, <1>6, <1>7 DEF Frame!Memory, Frame!Frame

\* With replaces the pixels of the rectangle, and no other.
Replaced(to, m, x, y, r, new) ==
    /\ to = [a \in DOMAIN m |-> to[a]]
    /\ \A c \in 0 .. r.w - 1, l \in 0 .. r.h - 1 :
          Frame!PixelAt(x + c, y + l) \in DOMAIN m =>
             to[Frame!PixelAt(x + c, y + l)] = new[<<c, l>>]
    /\ \A a \in DOMAIN m :
          \/ to[a] = m[a]
          \/ \E c \in 0 .. r.w - 1, l \in 0 .. r.h - 1 :
                a = Frame!PixelAt(x + c, y + l)

LEMMA WithFacts ==
    ASSUME NEW m, DOMAIN m \subseteq Nat, NEW r, NEW new,
           r.w \in Nat, r.h \in Nat,
           NEW x \in Nat, NEW y \in Nat, x + r.w <= Width,
           NEW to, to = Frame!With(m, x, y, r, new)
    PROVE  Replaced(to, m, x, y, r, new)
<1> DEFINE Column(a) == (a % Width) - x
           Line(a) == (a \div Width) - y
<1>1. /\ to = [a \in DOMAIN m |-> IF <<Column(a), Line(a)>> \in Frame!Cells(r)
                                  THEN new[<<Column(a), Line(a)>>] ELSE m[a]]
  BY FrameFacts, Zenon DEF Frame!With
<1>2. \A c, l : <<c, l>> \in Frame!Cells(r) <=> c \in 0 .. r.w - 1 /\ l \in 0 .. r.h - 1
  BY DEF Frame!Cells
<1>3. ASSUME NEW c \in 0 .. r.w - 1, NEW l \in 0 .. r.h - 1,
             NEW a \in DOMAIN m, a = Frame!PixelAt(x + c, y + l)
      PROVE  to[a] = new[<<c, l>>]
  <2>1. x + c \in 0 .. Width - 1 /\ y + l \in Nat
    BY FrameFacts
  <2>2. a % Width = x + c /\ a \div Width = y + l
    BY <1>3, <2>1, PixelFacts
  <2>3. Column(a) = c /\ Line(a) = l
    BY <2>2
  <2> HIDE DEF Column, Line
  <2> QED
    BY <1>1, <1>2, <2>3
<1>4. ASSUME NEW a \in DOMAIN m, to[a] # m[a]
      PROVE  \E c \in 0 .. r.w - 1, l \in 0 .. r.h - 1 : a = Frame!PixelAt(x + c, y + l)
  <2>1. <<Column(a), Line(a)>> \in Frame!Cells(r)
    BY <1>1, <1>4, Zenon
  <2>2. Column(a) \in 0 .. r.w - 1 /\ Line(a) \in 0 .. r.h - 1
    BY <1>2, <2>1, Zenon
  <2> DEFINE W == Width
  <2>3. /\ a \div W \in Nat /\ a % W \in Nat
        /\ a = W * (a \div W) + (a % W)
    <3>1. a \in Nat /\ W \in Nat \ {0}
      BY FrameFacts
    <3> HIDE DEF W
    <3>2. /\ a \div W \in Nat /\ a % W \in 0 .. W - 1
          /\ a = W * (a \div W) + (a % W)
      BY <3>1, Remainder
    <3> QED
      BY <3>1, <3>2
  <2> DEFINE q == a \div Width
             s == a % Width
  <2>4. q \in Nat /\ s \in Nat /\ a = Width * q + s /\ Width * q = q * Width
    BY <2>3, FrameFacts
  <2>5. Column(a) = s - x /\ Line(a) = q - y
    OBVIOUS
  <2> HIDE DEF Column, Line, q, s
  <2>6. x + Column(a) = s /\ y + Line(a) = q
    BY <2>4, <2>5
  <2>7. a = Frame!PixelAt(x + Column(a), y + Line(a))
    BY <2>4, <2>6, FrameFacts
  <2> QED
    BY <2>2, <2>7
<1>5. to = [a \in DOMAIN m |-> to[a]]
  BY <1>1
<1> QED
  BY <1>3, <1>4, <1>5 DEF Replaced

LEMMA FrameInvRoundTrip == FrameInv => Frame!RoundTrip
<1> SUFFICES ASSUME FrameInv, NEW r \in Frame!Whole
             PROVE  LET back == [r EXCEPT !.sx = r.dx, !.sy = r.dy, !.dx = r.sx, !.dy = r.sy]
                    IN  Frame!BufferToVideo(video, Frame!VideoToBltBuffer(video, buffer, r), back)
                          = video
  BY Zenon DEF Frame!RoundTrip
<1> DEFINE back == [r EXCEPT !.sx = r.dx, !.sy = r.dy, !.dx = r.sx, !.dy = r.sy]
           read == [p \in Frame!Cells(r) |->
                      Frame!Loaded(video[Frame!PixelAt(r.sx + p[1], r.sy + p[2])])]
           b == Frame!With(buffer, r.dx, r.dy, r, read)
           written == [p \in Frame!Cells(back) |->
                         Frame!Stored(b[Frame!PixelAt(back.sx + p[1], back.sy + p[2])])]
           v == Frame!With(video, back.dx, back.dy, back, written)
<1>1. /\ r.w \in 1 .. Width /\ r.h \in 1 .. Height
      /\ r.sx \in 0 .. Width - r.w /\ r.sy \in 0 .. Height - r.h
      /\ r.dx \in 0 .. Width - r.w /\ r.dy \in 0 .. Height - r.h
  BY WholeFacts
<1>2. /\ back.sx = r.dx /\ back.sy = r.dy /\ back.dx = r.sx /\ back.dy = r.sy
      /\ back.w = r.w /\ back.h = r.h
  BY DEF Frame!Whole
<1> HIDE DEF back
<1>3. /\ DOMAIN video = Frame!Memory /\ DOMAIN buffer = Frame!Frame
      /\ Frame!Memory \subseteq Nat /\ Frame!Frame \subseteq Nat
      /\ \A a \in Frame!Memory : video[a] \in Nat
  BY DEF FrameInv, Frame!Memory, Frame!Frame
<1>4. /\ r.w \in Nat /\ r.h \in Nat /\ r.sx \in Nat /\ r.sy \in Nat /\ r.dx \in Nat /\ r.dy \in Nat
      /\ r.sx + r.w <= Width /\ r.dx + r.w <= Width
      /\ r.sy + r.h <= Height /\ r.dy + r.h <= Height /\ Width \in Nat /\ Height \in Nat
  BY <1>1, FrameFacts
<1>5. \A c, l : <<c, l>> \in Frame!Cells(r) <=> c \in 0 .. r.w - 1 /\ l \in 0 .. r.h - 1
  BY DEF Frame!Cells
<1>6. Frame!Cells(back) = Frame!Cells(r)
  BY <1>2, Zenon DEF Frame!Cells
<1> DEFINE From(c, l) == Frame!PixelAt(r.sx + c, r.sy + l)
           To(c, l) == Frame!PixelAt(r.dx + c, r.dy + l)
<1>7. \A c, l : <<c, l>> \in Frame!Cells(r) =>
          read[<<c, l>>] = Frame!Loaded(video[From(c, l)])
  BY Zenon
<1>8. \A c, l : <<c, l>> \in Frame!Cells(r) =>
          written[<<c, l>>] = Frame!Stored(b[To(c, l)])
  <2> HIDE DEF b
  <2> QED
    BY <1>2, <1>6, Zenon
<1> HIDE DEF read, written
<1>9. /\ b = [a \in DOMAIN buffer |-> b[a]]
      /\ \A c \in 0 .. r.w - 1, l \in 0 .. r.h - 1 :
            To(c, l) \in DOMAIN buffer => b[To(c, l)] = read[<<c, l>>]
  <2> HIDE DEF b
  <2>1. b = Frame!With(buffer, r.dx, r.dy, r, read)
    BY Zenon DEF b
  <2>2. DOMAIN buffer \subseteq Nat
    BY <1>3
  <2>3. Replaced(b, buffer, r.dx, r.dy, r, read)
    BY <1>4, <2>1, <2>2, WithFacts
  <2> QED
    BY <2>3 DEF Replaced
<1>10. /\ back.w = r.w /\ back.h = r.h /\ back.w \in Nat /\ back.h \in Nat
       /\ back.dx = r.sx /\ back.dy = r.sy
       /\ back.dx \in Nat /\ back.dy \in Nat /\ back.dx + back.w <= Width
  BY <1>2, <1>4
<1>11. /\ v = [a \in DOMAIN video |-> v[a]]
       /\ \A c \in 0 .. r.w - 1, l \in 0 .. r.h - 1 :
             From(c, l) \in DOMAIN video => v[From(c, l)] = written[<<c, l>>]
       /\ \A a \in DOMAIN video :
             \/ v[a] = video[a]
             \/ \E c \in 0 .. r.w - 1, l \in 0 .. r.h - 1 : a = From(c, l)
  <2> HIDE DEF v
  <2>1. v = Frame!With(video, r.sx, r.sy, back, written)
    BY <1>10, Zenon DEF v
  <2>2. v = Frame!With(video, r.sx, r.sy, r, written)
    BY <1>10, <2>1, Zenon DEF Frame!With, Frame!Cells
  <2>3. DOMAIN video \subseteq Nat
    BY <1>3
  <2>4. Replaced(v, video, r.sx, r.sy, r, written)
    BY <1>4, <2>2, <2>3, WithFacts
  <2> QED
    BY <2>4 DEF Replaced
<1> HIDE DEF b, v
<1>12. ASSUME NEW c \in 0 .. r.w - 1, NEW l \in 0 .. r.h - 1
       PROVE  v[From(c, l)] = video[From(c, l)]
  <2>1. /\ r.dx + c \in 0 .. Width - 1 /\ r.dy + l \in Nat /\ r.dy + l < Height
        /\ r.sx + c \in 0 .. Width - 1 /\ r.sy + l \in Nat /\ r.sy + l <= Height
    BY <1>4
  <2>2. To(c, l) \in Frame!Frame /\ From(c, l) \in Frame!Memory
    BY <2>1, PixelFacts
  <2> HIDE DEF From, To
  <2>3. /\ b[To(c, l)] = Frame!Loaded(video[From(c, l)])
        /\ v[From(c, l)] = Frame!Stored(b[To(c, l)])
    BY <1>3, <1>5, <1>7, <1>8, <1>9, <1>11, <2>2
  <2>4. \A n \in Nat : Frame!Stored(Frame!Loaded(n)) = n
    BY DEF Frame!Stored, Frame!Loaded
  <2> QED
    BY <1>3, <2>2, <2>3, <2>4
<1>13. \A a \in DOMAIN video : v[a] = video[a]
  <2> HIDE DEF From
  <2> QED
    BY <1>11, <1>12
<1>14. video = [a \in DOMAIN video |-> video[a]]
  BY DEF FrameInv
<1>15. v = video
  BY <1>11, <1>13, <1>14, Zenon
<1> QED
  BY <1>15, Zenon DEF v, written, b, read, back, Frame!BufferToVideo, Frame!VideoToBltBuffer

\* The line that VideoToVideo copies in its k-th turn, and memory after that turn.
LineIn(r, k) ==
    IF Frame!PixelAt(r.dx, r.dy) > Frame!PixelAt(r.sx, r.sy) THEN r.h + 1 - k ELSE k - 1

CopyTurn(m, r, k) ==
    Frame!CopyLine(m, r, Frame!PixelAt(r.sx, r.sy) + LineIn(r, k) * Width,
                         Frame!PixelAt(r.dx, r.dy) + LineIn(r, k) * Width)

\* Both ends of a line are in memory, the line after the last one included.
LEMMA CopyTurnFacts ==
    ASSUME NEW m \in [Frame!Memory -> Nat], NEW r \in Frame!Whole, NEW k \in 1 .. r.h
    PROVE  /\ CopyTurn(m, r, k) \in [Frame!Memory -> Nat]
           /\ \A a \in Frame!Memory :
                 LET from == Frame!PixelAt(r.sx, r.sy) + LineIn(r, k) * Width
                     to == Frame!PixelAt(r.dx, r.dy) + LineIn(r, k) * Width
                 IN  /\ a \in to .. to + r.w - 1 => /\ a - to + from \in Frame!Memory
                                                    /\ CopyTurn(m, r, k)[a] = m[a - to + from]
                     /\ a \notin to .. to + r.w - 1 => CopyTurn(m, r, k)[a] = m[a]
<1> DEFINE n == LineIn(r, k)
           from == Frame!PixelAt(r.sx, r.sy) + n * Width
           to == Frame!PixelAt(r.dx, r.dy) + n * Width
<1>1. /\ r.w \in 1 .. Width /\ r.h \in 1 .. Height
      /\ r.sx \in 0 .. Width - r.w /\ r.sy \in 0 .. Height - r.h
  BY WholeFacts
<1>2. n \in 0 .. r.h
  BY <1>1, FrameFacts DEF LineIn
<1>3. Width \in Nat \ {0} /\ Height \in Nat \ {0} /\ Width * (Height + 1) = Height * Width + Width
  BY FrameFacts
<1> HIDE DEF n
<1>4. from = (r.sy + n) * Width + r.sx
  <2>1. r.sy \in Nat /\ n \in Nat /\ r.sx \in Nat
    BY <1>1, <1>2, <1>3
  <2>2. (r.sy + n) * Width = r.sy * Width + n * Width /\ r.sy * Width \in Nat /\ n * Width \in Nat
    BY <2>1, LineProducts
  <2> QED
    BY <2>1, <2>2, FrameFacts
<1>5. (r.sy + n) * Width <= Height * Width /\ (r.sy + n) * Width \in Nat /\ Height * Width \in Nat
  <2>1. r.sy + n \in Nat /\ Height \in Nat /\ r.sy + n <= Height
    BY <1>1, <1>2, <1>3
  <2> QED
    BY <2>1, LineProducts
<1> DEFINE L == (r.sy + n) * Width
           E == Height * Width
<1>6. from = L + r.sx /\ L \in Nat /\ E \in Nat /\ L <= E
  BY <1>4, <1>5
<1>7. to \in Int
  <2>1. r.dy \in Nat /\ n \in Nat /\ r.dx \in Nat
    BY <1>2, WholeFacts
  <2>2. n * Width \in Nat /\ r.dy * Width \in Nat
    BY <2>1, LineProducts
  <2> QED
    BY <2>1, <2>2, FrameFacts
<1>8. Frame!Memory = 0 .. E + Width - 1
  BY <1>3 DEF Frame!Memory
<1> HIDE DEF L, E, from, to
<1>9. ASSUME NEW a \in Frame!Memory, a \in to .. to + r.w - 1
      PROVE  a - to + from \in Frame!Memory
  <2>1. r.w \in Nat /\ r.sx \in Nat /\ Width \in Nat /\ r.sx + r.w <= Width
    BY <1>1, FrameFacts
  <2>2. a \in Int /\ to <= a /\ a <= to + r.w - 1
    BY <1>7, <1>9, <2>1
  <2>3. a - to + from >= 0 /\ a - to + from <= E + Width - 1
    BY <1>6, <1>7, <2>1, <2>2
  <2> QED
    BY <1>6, <1>7, <1>8, <2>1, <2>2, <2>3
<1>10. \A a \in Frame!Memory :
          (IF a \in to .. to + r.w - 1 THEN m[a - to + from] ELSE m[a]) \in Nat
  BY <1>9
<1>11. CopyTurn(m, r, k)
         = [a \in Frame!Memory |-> IF a \in to .. to + r.w - 1 THEN m[a - to + from] ELSE m[a]]
  <2>1. DOMAIN m = Frame!Memory
    OBVIOUS
  <2> QED
    BY <2>1, Zenon DEF CopyTurn, Frame!CopyLine, from, to, n
<1>12. /\ \A a \in Frame!Memory : a \in to .. to + r.w - 1 =>
            a - to + from \in Frame!Memory /\ CopyTurn(m, r, k)[a] = m[a - to + from]
       /\ \A a \in Frame!Memory : a \notin to .. to + r.w - 1 => CopyTurn(m, r, k)[a] = m[a]
  BY <1>9, <1>11, Zenon
<1>13. CopyTurn(m, r, k) \in [Frame!Memory -> Nat]
  BY <1>10, <1>11, Zenon
<1> QED
  BY <1>12, <1>13, Zenon DEF from, to, n

IsCopy(f, v, r) ==
    /\ f \in [0 .. r.h -> [Frame!Memory -> Nat]] /\ f[0] = v
    /\ \A k \in 1 .. r.h : f[k] = CopyTurn(f[k - 1], r, k)

LEMMA VideoToVideoIsLoop ==
    ASSUME NEW v \in [Frame!Memory -> Nat], NEW r \in Frame!Whole
    PROVE  \E f : IsCopy(f, v, r) /\ Frame!VideoToVideo(v, r) = f[r.h]
<1> DEFINE n == r.h
           S == [Frame!Memory -> Nat]
           T == [k \in 1 .. n |-> [m \in S |-> CopyTurn(m, r, k)]]
           source == Frame!PixelAt(r.sx, r.sy)
           destination == Frame!PixelAt(r.dx, r.dy)
           LineOf(k) == (IF destination > source THEN r.h + 1 - k ELSE k - 1)
                           * Frame!PixelsPerScanLine
           Body(f, k) == IF k = 0 THEN v
                         ELSE Frame!CopyLine(f[k - 1], r, source + LineOf(k),
                                             destination + LineOf(k))
<1>1. n \in Nat
  BY WholeFacts, FrameFacts
<1>2. \A f, k : k # 0 => Body(f, k) = CopyTurn(f[k - 1], r, k)
  BY FrameFacts, Zenon DEF CopyTurn, LineIn
<1>3. T \in [1 .. n -> [S -> S]]
  <2>1. \A k \in 1 .. n : [m \in S |-> CopyTurn(m, r, k)] \in [S -> S]
    BY CopyTurnFacts
  <2> HIDE DEF n, S
  <2> QED
    BY <2>1
<1>4. \A k \in 1 .. n, m \in S : T[k][m] = CopyTurn(m, r, k)
  <2> HIDE DEF n, S
  <2> QED
    OBVIOUS
<1> HIDE DEF T
<1>5. PICK f : IsLoop(f, n, S, v, T)
  <2>1. v \in S
    OBVIOUS
  <2> HIDE DEF n, S
  <2> QED
    BY <1>1, <1>3, <2>1, LoopExists
<1>6. f \in [0 .. n -> S] /\ f[0] = v /\ \A k \in 1 .. n : f[k] = CopyTurn(f[k - 1], r, k)
  <2>1. \A k \in 1 .. n : k - 1 \in 0 .. n
    BY <1>1
  <2> HIDE DEF n, S
  <2> QED
    BY <1>4, <1>5, <2>1 DEF IsLoop
<1>7. \A k \in 1 .. n : k \in 0 .. n /\ k # 0
  BY <1>1
<1>8. f = [k \in 0 .. n |-> Body(f, k)]
  <2>1. f = [k \in 0 .. n |-> f[k]]
    BY <1>6
  <2>2. \A k \in 0 .. n : k # 0 => k \in 1 .. n
    BY <1>1
  <2>3. \A k \in 0 .. n : f[k] = Body(f, k)
    <3>1. \A k : k = 0 => Body(f, k) = v
      BY Zenon
    <3> HIDE DEF n, S, Body
    <3> QED
      BY <1>2, <1>6, <2>2, <3>1, Zenon
  <2> HIDE DEF n, Body
  <2> QED
    BY <2>1, <2>3, Zenon
<1>9. PICK h : Frame!VideoToVideo(v, r) = h[n] /\ h = [k \in 0 .. n |-> Body(h, k)]
  BY <1>8, Zenon DEF Frame!VideoToVideo
<1>10. h[0] = v /\ \A k \in 1 .. n : h[k] = CopyTurn(h[k - 1], r, k)
  <2>1. 0 \in 0 .. n
    BY <1>1
  <2>2. \A k \in 0 .. n : h[k] = Body(h, k)
    <3> HIDE DEF n, Body
    <3> QED
      BY <1>9, Zenon
  <2>3. Body(h, 0) = v
    BY Zenon
  <2> HIDE DEF n, Body
  <2> QED
    BY <1>2, <1>7, <2>1, <2>2, <2>3, Zenon
<1>11. \A k \in 0 .. n : h[k] \in S
  <2> DEFINE K == {k \in 0 .. n : h[k] \in S}
  <2>1. 0 \in K
    BY <1>1, <1>10
  <2>2. ASSUME NEW k \in 1 .. n, k - 1 \in K PROVE k \in K
    BY <1>7, <1>10, <2>2, CopyTurnFacts
  <2>3. 0 .. n \subseteq K
    <3> HIDE DEF K, n
    <3> QED
      BY <1>1, <2>1, <2>2, UpToInduction
  <2> QED
    BY <2>3
<1>12. h \in [0 .. n -> S]
  <2>1. h = [k \in 0 .. n |-> h[k]]
    <3> HIDE DEF n, Body
    <3> QED
      BY <1>9
  <2> HIDE DEF n, S
  <2> QED
    BY <1>11, <2>1
<1> QED
  BY <1>9, <1>10, <1>12, Zenon DEF IsCopy

LEMMA PixelSum ==
    ASSUME NEW x \in Nat, NEW y \in Nat, NEW c \in Nat, NEW l \in Nat
    PROVE  /\ Frame!PixelAt(x, y) \in Nat /\ l * Width \in Nat
           /\ Frame!PixelAt(x + c, y + l) = Frame!PixelAt(x, y) + l * Width + c
<1>1. y * Width \in Nat /\ l * Width \in Nat /\ (y + l) * Width = y * Width + l * Width
  BY LineProducts
<1> QED
  BY <1>1, FrameFacts

\* After k turns of a copy towards the start of memory the first k lines are copied: a
\* turn reads its line from behind all that the turns before it have written.
LEMMA CopyUpLines ==
    ASSUME NEW v \in [Frame!Memory -> Nat], NEW r \in Frame!Whole, NEW f, IsCopy(f, v, r),
           Frame!PixelAt(r.dx, r.dy) <= Frame!PixelAt(r.sx, r.sy),
           NEW D, D = Frame!PixelAt(r.dx, r.dy), NEW S, S = Frame!PixelAt(r.sx, r.sy),
           NEW a \in Frame!Memory
    PROVE  /\ \A j \in 0 .. r.h - 1 :
                 a \in D + j * Width .. D + j * Width + r.w - 1 => f[r.h][a] = v[a - D + S]
           /\ (\A j \in 0 .. r.h - 1 : a \notin D + j * Width .. D + j * Width + r.w - 1)
                 => f[r.h][a] = v[a]
<1> DEFINE n == r.h
           Line(j) == D + j * Width .. D + j * Width + r.w - 1
           Copied(k) == \A b \in Frame!Memory :
                           /\ \A j \in 0 .. k - 1 : b \in Line(j) => f[k][b] = v[b - D + S]
                           /\ (\A j \in 0 .. k - 1 : b \notin Line(j)) => f[k][b] = v[b]
           K == {k \in 0 .. n : Copied(k)}
<1>1. /\ r.w \in Nat \ {0} /\ r.w <= Width /\ Width \in Nat \ {0} /\ n \in Nat
      /\ r.sx \in Nat /\ r.sy \in Nat /\ r.dx \in Nat /\ r.dy \in Nat
  BY WholeFacts, FrameFacts
<1>2. D \in Nat /\ S \in Nat /\ D <= S
  BY <1>1, PixelSum
<1>3. /\ f[0] = v
      /\ \A k \in 1 .. n : f[k] = CopyTurn(f[k - 1], r, k) /\ f[k - 1] \in [Frame!Memory -> Nat]
  <2>1. \A k \in 1 .. n : k - 1 \in 0 .. n
    BY <1>1
  <2> QED
    BY <2>1 DEF IsCopy
<1>4. Frame!Memory \subseteq Int
  BY DEF Frame!Memory
<1>5. ASSUME NEW k \in 1 .. n, NEW b \in Frame!Memory
      PROVE  /\ b \in Line(k - 1) => /\ b - D + S \in Frame!Memory
                                     /\ f[k][b] = f[k - 1][b - D + S]
             /\ b \notin Line(k - 1) => f[k][b] = f[k - 1][b]
  <2>1. LineIn(r, k) = k - 1
    BY <1>2 DEF LineIn
  <2> DEFINE p == (k - 1) * Width
             m == f[k - 1]
  <2>2. p \in Nat
    BY <1>1, LineProducts
  <2>3. f[k] = CopyTurn(m, r, k) /\ m \in [Frame!Memory -> Nat]
    BY <1>3
  <2> HIDE DEF p, m
  <2>4. LET from == Frame!PixelAt(r.sx, r.sy) + LineIn(r, k) * Width
            to == Frame!PixelAt(r.dx, r.dy) + LineIn(r, k) * Width
        IN  /\ b \in to .. to + r.w - 1 => /\ b - to + from \in Frame!Memory
                                           /\ CopyTurn(m, r, k)[b] = m[b - to + from]
            /\ b \notin to .. to + r.w - 1 => CopyTurn(m, r, k)[b] = m[b]
    <3>1. m \in [Frame!Memory -> Nat] /\ r \in Frame!Whole /\ k \in 1 .. r.h
      BY <2>3
    <3> HIDE DEF n
    <3> QED
      BY <3>1, CopyTurnFacts
  <2>5. /\ Frame!PixelAt(r.sx, r.sy) + LineIn(r, k) * Width = S + p
        /\ Frame!PixelAt(r.dx, r.dy) + LineIn(r, k) * Width = D + p
    BY <2>1, Zenon DEF p
  <2>6. /\ b \in D + p .. D + p + r.w - 1 => /\ b - (D + p) + (S + p) \in Frame!Memory
                                             /\ f[k][b] = m[b - (D + p) + (S + p)]
        /\ b \notin D + p .. D + p + r.w - 1 => f[k][b] = m[b]
    BY <2>3, <2>4, <2>5, Zenon
  <2>7. b - (D + p) + (S + p) = b - D + S
    BY <1>2, <1>4, <2>2
  <2> QED
    BY <2>6, <2>7, Zenon DEF p, m
<1>6. ASSUME NEW i \in Nat, NEW j \in Nat, i < j
      PROVE  D + i * Width + Width <= D + j * Width
  <2> DEFINE P == i * Width
             Q == j * Width
  <2>1. P \in Nat /\ Q \in Nat /\ P + Width <= Q
    BY <1>6, LineProducts
  <2> HIDE DEF P, Q
  <2>2. D + P + Width <= D + Q
    BY <1>1, <1>2, <2>1
  <2> QED
    BY <2>2 DEF P, Q
<1>7. \A j \in Nat : j * Width \in Nat
  BY LineProducts
<1>8. 0 \in K
  <2>1. \A j \in 0 .. 0 - 1 : FALSE
    OBVIOUS
  <2>2. Copied(0)
    BY <1>3, <2>1, Zenon
  <2> HIDE DEF Copied
  <2> QED
    BY <1>1, <2>2
<1>9. ASSUME NEW k \in 1 .. n, k - 1 \in K PROVE k \in K
  <2>1. Copied(k - 1)
    <3> HIDE DEF Copied
    <3> QED
      BY <1>9
  <2>2. ASSUME NEW b \in Frame!Memory, NEW j \in 0 .. k - 1, b \in Line(j)
        PROVE  f[k][b] = v[b - D + S]
    <3>1. CASE j = k - 1
      <4> DEFINE from == b - D + S
      <4>1. f[k][b] = f[k - 1][from] /\ from \in Frame!Memory
        BY <1>5, <2>2, <3>1, Zenon
      <4>2. ASSUME NEW i \in 0 .. (k - 1) - 1 PROVE from \notin Line(i)
        <5> DEFINE P == i * Width
                   Q == j * Width
        <5>1. P \in Nat /\ Q \in Nat /\ D + P + Width <= D + Q
          BY <1>6, <1>7, <3>1
        <5>2. b \in D + Q .. D + Q + r.w - 1
          BY <2>2
        <5> HIDE DEF P, Q
        <5>3. from \notin D + P .. D + P + r.w - 1
          BY <1>1, <1>2, <5>1, <5>2
        <5> QED
          BY <5>3 DEF P
      <4> HIDE DEF from, Line
      <4>3. f[k - 1][from] = v[from]
        BY <2>1, <4>1, <4>2, Zenon
      <4> QED
        BY <4>1, <4>3, Zenon DEF from
    <3>2. CASE j # k - 1
      <4> DEFINE P == (k - 1) * Width
                 Q == j * Width
      <4>0. j \in 0 .. (k - 1) - 1 /\ k - 1 \in Nat
        BY <3>2
      <4>1. P \in Nat /\ Q \in Nat /\ D + Q + Width <= D + P
        BY <1>6, <1>7, <4>0
      <4>2. b \in D + Q .. D + Q + r.w - 1
        BY <2>2
      <4> HIDE DEF P, Q
      <4>3. b \notin D + P .. D + P + r.w - 1
        BY <1>1, <1>2, <4>1, <4>2
      <4>4. b \notin Line(k - 1)
        BY <4>3 DEF P
      <4> HIDE DEF Line
      <4>5. f[k][b] = f[k - 1][b]
        BY <1>5, <4>4, Zenon
      <4>6. f[k - 1][b] = v[b - D + S]
        BY <2>1, <2>2, <4>0, Zenon
      <4> QED
        BY <4>5, <4>6, Zenon
    <3> QED
      BY <3>1, <3>2
  <2>3. ASSUME NEW b \in Frame!Memory, \A j \in 0 .. k - 1 : b \notin Line(j)
        PROVE  f[k][b] = v[b]
    <3>1. k - 1 \in 0 .. k - 1 /\ \A j \in 0 .. (k - 1) - 1 : j \in 0 .. k - 1
      BY <1>1
    <3> HIDE DEF Line
    <3> QED
      BY <1>5, <2>1, <2>3, <3>1, Zenon
  <2>4. Copied(k)
    <3> HIDE DEF Line
    <3> QED
      BY <2>2, <2>3, Zenon
  <2>5. k \in 0 .. n
    BY <1>1
  <2> HIDE DEF Copied
  <2> QED
    BY <2>4, <2>5
<1>10. n \in K
  <2>1. n \in 0 .. n
    BY <1>1
  <2> HIDE DEF K, n
  <2> QED
    BY <1>1, <1>8, <1>9, <2>1, UpToInduction
<1>11. Copied(n)
  <2> HIDE DEF Copied
  <2> QED
    BY <1>10
<1> QED
  BY <1>11, Zenon

LEMMA FrameInvCopies == FrameInv => Frame!CopyUpIsExact
<1> SUFFICES ASSUME FrameInv, NEW r \in Frame!Whole,
                    Frame!PixelAt(r.dx, r.dy) <= Frame!PixelAt(r.sx, r.sy)
             PROVE  Frame!VideoToVideo(video, r) = Frame!Copied(video, r)
  BY Zenon DEF Frame!CopyUpIsExact
<1> DEFINE D == Frame!PixelAt(r.dx, r.dy)
           S == Frame!PixelAt(r.sx, r.sy)
           new == [p \in Frame!Cells(r) |-> video[Frame!PixelAt(r.sx + p[1], r.sy + p[2])]]
           copied == Frame!Copied(video, r)
           moved == Frame!VideoToVideo(video, r)
<1>1. /\ r.w \in Nat /\ r.h \in Nat /\ Width \in Nat /\ r.dx + r.w <= Width
      /\ r.sx \in Nat /\ r.sy \in Nat /\ r.dx \in Nat /\ r.dy \in Nat
  BY WholeFacts, FrameFacts
<1>2. /\ video \in [Frame!Memory -> Nat] /\ DOMAIN video = Frame!Memory
      /\ Frame!Memory \subseteq Nat
  BY DEF FrameInv, Frame!Memory
<1>3. PICK f : IsCopy(f, video, r) /\ moved = f[r.h]
  BY <1>2, VideoToVideoIsLoop
<1>4. \A c \in 0 .. r.w - 1, l \in 0 .. r.h - 1 :
         new[<<c, l>>] = video[Frame!PixelAt(r.sx + c, r.sy + l)]
  <2>1. \A c \in 0 .. r.w - 1, l \in 0 .. r.h - 1 : <<c, l>> \in Frame!Cells(r)
    BY DEF Frame!Cells
  <2> QED
    BY <2>1, Zenon
<1>5. copied = Frame!With(video, r.dx, r.dy, r, new)
  BY Zenon DEF Frame!Copied
<1> HIDE DEF new, copied, moved
<1>6. Replaced(copied, video, r.dx, r.dy, r, new)
  <2>1. DOMAIN video \subseteq Nat
    BY <1>2
  <2> QED
    BY <1>1, <1>5, <2>1, WithFacts
<1>7. moved \in [Frame!Memory -> Nat]
  <2>1. r.h \in 0 .. r.h
    BY <1>1
  <2> QED
    BY <1>3, <2>1 DEF IsCopy
<1>8. D \in Nat /\ S \in Nat
  BY <1>1, PixelSum
<1>9. ASSUME NEW a \in Frame!Memory PROVE moved[a] = copied[a]
  <2> DEFINE Line(j) == D + j * Width .. D + j * Width + r.w - 1
  <2>1. /\ \A j \in 0 .. r.h - 1 : a \in Line(j) => moved[a] = video[a - D + S]
        /\ (\A j \in 0 .. r.h - 1 : a \notin Line(j)) => moved[a] = video[a]
    BY <1>2, <1>3, CopyUpLines
  <2>2. ASSUME NEW c \in 0 .. r.w - 1, NEW l \in 0 .. r.h - 1,
               a = Frame!PixelAt(r.dx + c, r.dy + l)
        PROVE  moved[a] = copied[a]
    <3> DEFINE P == l * Width
    <3>1. c \in Nat /\ l \in Nat
      BY <1>1
    <3>2. a = D + P + c /\ Frame!PixelAt(r.sx + c, r.sy + l) = S + P + c /\ P \in Nat
      <4>1. Frame!PixelAt(r.dx + c, r.dy + l) = D + P + c /\ P \in Nat
        BY <1>1, <3>1, PixelSum
      <4>2. Frame!PixelAt(r.sx + c, r.sy + l) = S + P + c
        BY <1>1, <3>1, PixelSum
      <4> QED
        BY <2>2, <4>1, <4>2, Zenon
    <3> DEFINE d == D
               s == S
    <3>3. a = d + P + c /\ Frame!PixelAt(r.sx + c, r.sy + l) = s + P + c /\ d \in Nat /\ s \in Nat
      BY <1>8, <3>2
    <3> HIDE DEF P, d, s
    <3>4. a \in d + P .. d + P + r.w - 1 /\ a - d + s = Frame!PixelAt(r.sx + c, r.sy + l)
      BY <1>1, <3>2, <3>3
    <3>5. a \in Line(l)
      BY <3>4 DEF P, d
    <3>6. moved[a] = video[Frame!PixelAt(r.sx + c, r.sy + l)]
      <4> HIDE DEF Line
      <4> QED
        BY <2>1, <3>4, <3>5, Zenon DEF d, s
    <3>7. copied[a] = new[<<c, l>>]
      BY <1>2, <1>6, <2>2 DEF Replaced
    <3> QED
      BY <1>4, <3>6, <3>7, Zenon
  <2>3. ASSUME \A c \in 0 .. r.w - 1, l \in 0 .. r.h - 1 : a # Frame!PixelAt(r.dx + c, r.dy + l)
        PROVE  moved[a] = copied[a]
    <3>1. copied[a] = video[a]
      BY <1>2, <1>6, <2>3 DEF Replaced
    <3>2. ASSUME NEW l \in 0 .. r.h - 1, a \in Line(l) PROVE FALSE
      <4> DEFINE P == l * Width
                 d == D
                 c == a - d - P
      <4>1. P \in Nat /\ d \in Nat /\ l \in Nat
        BY <1>1, <1>8, PixelSum
      <4>2. a \in d + P .. d + P + r.w - 1
        BY <3>2
      <4> HIDE DEF P, d
      <4>3. c \in 0 .. r.w - 1 /\ a = d + P + c
        BY <1>1, <4>1, <4>2
      <4> HIDE DEF c
      <4>4. c \in Nat
        BY <1>1, <4>3
      <4>5. a = Frame!PixelAt(r.dx + c, r.dy + l)
        BY <1>1, <4>1, <4>3, <4>4, PixelSum DEF P, d
      <4> QED
        BY <2>3, <4>3, <4>5
    <3> QED
      BY <2>1, <3>1, <3>2
  <2> QED
    BY <2>2, <2>3
<1>10. /\ moved = [a \in Frame!Memory |-> moved[a]]
       /\ copied = [a \in Frame!Memory |-> copied[a]]
  BY <1>2, <1>6, <1>7 DEF Replaced
<1>11. moved = copied
  BY <1>9, <1>10, Zenon
<1> QED
  BY <1>11 DEF moved, copied

LEMMA WithTypes ==
    ASSUME NEW A, A \subseteq Nat, NEW m \in [A -> Nat], NEW r, NEW x, NEW y,
           NEW new \in [Frame!Cells(r) -> Nat]
    PROVE  Frame!With(m, x, y, r, new) \in [A -> Nat]
<1> DEFINE place(a) == <<(a % Width) - x, (a \div Width) - y>>
<1>1. Frame!With(m, x, y, r, new)
        = [a \in A |-> IF place(a) \in Frame!Cells(r) THEN new[place(a)] ELSE m[a]]
  <2>1. DOMAIN m = A
    OBVIOUS
  <2> QED
    BY <2>1, FrameFacts, Zenon DEF Frame!With
<1> HIDE DEF place
<1>2. \A a \in A : (IF place(a) \in Frame!Cells(r) THEN new[place(a)] ELSE m[a]) \in Nat
  OBVIOUS
<1> QED
  BY <1>1, <1>2, Zenon

LEMMA FrameStepInv == FrameInv /\ [Frame!Next]_frameVars => FrameInv'
<1> SUFFICES ASSUME FrameInv, [Frame!Next]_frameVars PROVE FrameInv'
  OBVIOUS
<1>1. /\ video \in [Frame!Memory -> Nat] /\ buffer \in [Frame!Frame -> Nat]
      /\ Frame!Memory \subseteq Nat /\ Frame!Frame \subseteq Nat
  BY DEF FrameInv, Frame!Memory, Frame!Frame
<1>2. \A n \in Nat : Frame!Stored(n) \in Nat /\ Frame!Loaded(n) \in Nat
  BY DEF Frame!Stored, Frame!Loaded
<1>3. ASSUME NEW r \in Frame!Whole
      PROVE  /\ \A p \in Frame!Cells(r) :
                   /\ Frame!PixelAt(r.sx + p[1], r.sy + p[2]) \in Frame!Memory
                   /\ Frame!PixelAt(r.sx + p[1], r.sy + p[2]) \in Frame!Frame
  <2>1. \A p \in Frame!Cells(r) : r.sx + p[1] \in 0 .. Width - 1 /\ r.sy + p[2] \in 0 .. Height - 1
    BY WholeFacts, FrameFacts DEF Frame!Cells
  <2>2. \A p \in Frame!Cells(r) : /\ r.sy + p[2] \in Nat /\ r.sy + p[2] < Height
                                 /\ r.sy + p[2] <= Height
    BY <2>1, FrameFacts
  <2> QED
    BY <2>1, <2>2, PixelFacts
<1>4. Frame!InPlace \subseteq Frame!Whole
  BY DEF Frame!InPlace
<1>5. CASE UNCHANGED frameVars
  BY <1>1, <1>5 DEF frameVars, FrameInv
<1>6. CASE Frame!SimpleFbDxeInitialize
  <2>1. /\ buffer' = buffer
        /\ video' = [a \in Frame!Memory |-> IF a \in Frame!Frame THEN 0 ELSE video[a]]
    BY <1>6 DEF Frame!SimpleFbDxeInitialize
  <2> QED
    BY <1>1, <2>1 DEF FrameInv
<1>7. ASSUME NEW r \in Frame!Whole, Frame!BltVideoToVideo(r) PROVE FrameInv'
  <2>1. buffer' = buffer /\ video' = Frame!VideoToVideo(video, r)
    BY <1>7 DEF Frame!BltVideoToVideo
  <2>2. PICK f : IsCopy(f, video, r) /\ Frame!VideoToVideo(video, r) = f[r.h]
    BY <1>1, VideoToVideoIsLoop
  <2>3. r.h \in 0 .. r.h
    BY WholeFacts
  <2>4. f[r.h] \in [Frame!Memory -> Nat]
    BY <2>2, <2>3 DEF IsCopy
  <2> QED
    BY <1>1, <2>1, <2>2, <2>4 DEF FrameInv
<1>8. ASSUME NEW r \in Frame!InPlace, Frame!BltBufferToVideo(r) PROVE FrameInv'
  <2> DEFINE new == [p \in Frame!Cells(r) |->
                       Frame!Stored(buffer[Frame!PixelAt(r.sx + p[1], r.sy + p[2])])]
  <2>1. buffer' = buffer /\ video' = Frame!With(video, r.dx, r.dy, r, new)
    BY <1>8, Zenon DEF Frame!BltBufferToVideo, Frame!BufferToVideo
  <2>2. new \in [Frame!Cells(r) -> Nat]
    BY <1>1, <1>2, <1>3, <1>4
  <2> HIDE DEF new
  <2>3. video' \in [Frame!Memory -> Nat]
    BY <1>1, <2>1, <2>2, WithTypes
  <2> QED
    BY <1>1, <2>1, <2>3 DEF FrameInv
<1>9. ASSUME NEW r \in Frame!InPlace, Frame!BltVideoToBltBuffer(r) PROVE FrameInv'
  <2> DEFINE new == [p \in Frame!Cells(r) |->
                       Frame!Loaded(video[Frame!PixelAt(r.sx + p[1], r.sy + p[2])])]
  <2>1. video' = video /\ buffer' = Frame!With(buffer, r.dx, r.dy, r, new)
    BY <1>9, Zenon DEF Frame!BltVideoToBltBuffer, Frame!VideoToBltBuffer
  <2>2. new \in [Frame!Cells(r) -> Nat]
    BY <1>1, <1>2, <1>3, <1>4
  <2> HIDE DEF new
  <2>3. buffer' \in [Frame!Frame -> Nat]
    BY <1>1, <2>1, <2>2, WithTypes
  <2> QED
    BY <1>1, <2>1, <2>3 DEF FrameInv
<1>10. ASSUME NEW r \in Frame!InPlace, NEW colour \in PixelValues,
              Frame!BltVideoFill(r, colour)
       PROVE  FrameInv'
  <2> DEFINE new == [p \in Frame!Cells(r) |-> Frame!Stored(colour)]
  <2>1. buffer' = buffer /\ video' = Frame!With(video, r.dx, r.dy, r, new)
    BY <1>10, Zenon DEF Frame!BltVideoFill, Frame!VideoFill
  <2>2. new \in [Frame!Cells(r) -> Nat]
    BY <1>2, FrameFacts
  <2> HIDE DEF new
  <2>3. video' \in [Frame!Memory -> Nat]
    BY <1>1, <2>1, <2>2, WithTypes
  <2> QED
    BY <1>1, <2>1, <2>3 DEF FrameInv
<1>11. ASSUME NEW x \in 0 .. Width - 1, NEW y \in 0 .. Height - 1, NEW colour \in PixelValues,
              Frame!Draw(x, y, colour)
       PROVE  FrameInv'
  <2>1. video' = video /\ buffer' = [buffer EXCEPT ![Frame!PixelAt(x, y)] = colour]
    BY <1>11 DEF Frame!Draw
  <2> QED
    BY <1>1, <2>1, FrameFacts DEF FrameInv
<1>12. CASE Frame!Next
  BY <1>6, <1>7, <1>8, <1>9, <1>10, <1>11, <1>12, Zenon DEF Frame!Next
<1> QED
  BY <1>5, <1>12

\* What the display and the serial console draw is where it should be: whole glyphs in
\* the frame, copies towards its start that are exact, and a rectangle read and written
\* back that leaves it as it was.
THEOREM DrawsInPlace == Spec => []DrawnInPlace
<1> DEFINE I == FrameInv /\ SerialInv
<1>1. Init => I
  <2> SUFFICES ASSUME Init PROVE I
    OBVIOUS
  <2>1. FrameInv
    <3>1. /\ video \in [Frame!Memory -> {Frame!Stored(c) : c \in PixelValues}]
             \/ video = [a \in Frame!Memory |-> 0]
          /\ buffer = [a \in Frame!Frame |-> 0]
      BY DEF Init, Frame!Init
    <3>2. {Frame!Stored(c) : c \in PixelValues} \subseteq Nat
      BY FrameFacts DEF Frame!Stored
    <3> QED
      BY <3>1, <3>2 DEF FrameInv
  <2>2. SerialInv
    <3>1. Serial!Init
      BY DEF Init
    <3> QED
      BY <3>1, SerialInitInv
  <2> QED
    BY <2>1, <2>2
<1>2. I /\ [Next]_vars => I'
  <2> SUFFICES ASSUME I, [Next]_vars PROVE I'
    OBVIOUS
  <2>1. [Frame!Next]_frameVars /\ [Serial!Next]_serialVars
    BY ComponentSteps
  <2> QED
    BY <2>1, FrameStepInv, SerialStepInv
<1>3. I => DrawnInPlace
  BY FrameInvCopies, FrameInvRoundTrip, SerialInvSuffices DEF DrawnInPlace
<1> QED
  BY <1>1, <1>2, <1>3, PTL DEF Spec
=============================================================================
