----------------------------- MODULE ModemCalls -----------------------------
(***************************************************************************)
(* MsmPcomLib, MsmPcomClientLib and ClockDxe: commands that the            *)
(* applications processor gives to the modem processor through four shared *)
(* registers, and the functions that are built from them.  One command is  *)
(* under way at a time and both processors run on their own.               *)
(*                                                                         *)
(* External: the modem.  It starts some time after the program, takes a    *)
(* command when it is notified and answers it in its own time; a command   *)
(* may fail.  The answer may leave other data in the registers than the    *)
(* command had, as the rate of a clock that pcom_clock_get_rate asks for.  *)
(***************************************************************************)
EXTENDS Integers, Sequences, SequencesExt, FiniteSets

CONSTANTS Clocks,    \* the SDCn_CLK of Chipset/clock.h
          Numbered,  \* those that FillClocksLookup gives a number of the modem's
          Regulators, SdcRegulator  \* those with a level to set, and the SD card's

VARIABLES mailbox,   \* APP_COMMAND, APP_DATA1, APP_STATUS
          modem,     \* the modem: is it ready, was it notified, what it did last;
                     \* history: kept, whether each answer to a command of a
                     \* regulator left the regulator's number in its register
          call,      \* where msm_proc_comm is, and its data1
          todo,      \* the commands which the function under way still has to give
          table,     \* ClocksLookup
          supply     \* regulators: the ones with their level set, the ones on

pcomVars == <<mailbox, modem, call, todo, table, supply>>

\* What the code takes for granted of the constants; Platform assumes it.
PcomAssumption == Numbered \subseteq Clocks /\ IsFiniteSet(Clocks)

None == "none"
Junk == "garbage"  \* data of an answer that is no number of a clock or regulator

\* FillClocksLookup: -1 stands for a clock without a number.
FillClocksLookup == [c \in Clocks |-> IF c \in Numbered THEN c ELSE None]

\* A command, with the address of its data if that is an entry of the table, and
\* whether the function gives it again until the status is success.
Command(name, data) == [name |-> name, data |-> data, entry |-> None, again |-> FALSE]
OfEntry(name, c) == [Command(name, table[c]) EXCEPT !.entry = c]
UntilSuccess(name, data) == [Command(name, data) EXCEPT !.again = TRUE]

-----------------------------------------------------------------------------
(* The functions of the two libraries and of ClockDxe.                     *)

Idle == todo = << >> /\ call.at = "none"
Does(commands) ==
    /\ Idle /\ todo' = commands
    /\ UNCHANGED <<mailbox, modem, call, table, supply>>

\* ClkEnable, ClkDisable and ClkGetRate give the command if the table has a
\* number.
ClkCommand(name, c) == table[c] # None /\ Does(<<OfEntry(name, c)>>)

\* CotullaClkSetRate knows two of the four clocks, whatever the table says.
ClkSetRate(c) == c \in Numbered /\ Does(<<OfEntry("select_speed", c)>>)

\* pcom_set_sdcard_clk, pcom_enable_sdcard_clk and their like.
ClientCommand(name, c) == Does(<<Command(name, c)>>)

\* A level is set before the regulator is switched on, not before it goes off.
pcom_vreg_control(r, on) ==
    Does(IF on THEN <<UntilSuccess("set_level", r), UntilSuccess("switch_on", r)>>
         ELSE <<UntilSuccess("switch_off", r)>>)

pcom_sdcard_power(on) ==
    Does(<<UntilSuccess(IF on THEN "switch_on" ELSE "switch_off", SdcRegulator)>>)

\* One command for each pin, and none is given again.
pcom_sdcard_gpio_config ==
    Does(<<Command("tlmm_config", "clock_pin"), Command("tlmm_config", "data_pin")>>)

\* MsmClockInit at the start of ClockDxe.
MsmClockInit ==
    /\ call.at = "start" /\ call' = [call EXCEPT !.at = "none"]
    /\ table' = FillClocksLookup
    /\ todo' = [k \in 1 .. Cardinality(Numbered) |->
                  [Command("enable", SetToSeq(Numbered)[k])
                     EXCEPT !.entry = SetToSeq(Numbered)[k]]]
    /\ UNCHANGED <<mailbox, modem, supply>>

-----------------------------------------------------------------------------
(* msm_proc_comm.                                                          *)

Unchanged == UNCHANGED <<table, supply>>

\* Mutant: the command is given before the modem is ready for it.
BeginAtOnce ==
    /\ call.at = "none" /\ todo # << >>
    /\ mailbox' = [mailbox EXCEPT !.command = Head(todo).name, !.data = Head(todo).data]
    /\ call' = [at |-> "written", data |-> Head(todo).data]
    /\ UNCHANGED <<modem, todo>> /\ Unchanged

Begin ==
    /\ call.at = "none" /\ todo # << >>
    /\ modem.ready
    /\ mailbox' = [mailbox EXCEPT !.command = Head(todo).name, !.data = Head(todo).data]
    /\ call' = [at |-> "written", data |-> Head(todo).data]
    /\ UNCHANGED <<modem, todo>> /\ Unchanged

NotifyModem ==
    /\ call.at = "written" /\ call' = [call EXCEPT !.at = "notified"]
    /\ modem' = [modem EXCEPT !.rung = modem.ready]
    /\ UNCHANGED <<mailbox, todo>> /\ Unchanged

\* Mutant: the answer is read without waiting for it.
ReadAtOnce ==
    /\ call.at = "notified"
    /\ call' = [at |-> "read", data |-> IF mailbox.status # "fail" THEN mailbox.data ELSE call.data]
    /\ UNCHANGED <<mailbox, modem, todo>> /\ Unchanged

\* The answer replaces the data unless the status is PCOM_CMD_FAIL; the ten other
\* failures count as success here.
ReadReply ==
    /\ call.at = "notified" /\ mailbox.command = "done"
    /\ call' = [at |-> "read", data |-> IF mailbox.status # "fail" THEN mailbox.data ELSE call.data]
    /\ UNCHANGED <<mailbox, modem, todo>> /\ Unchanged

\* Mutant: the function goes on whatever the status.
NeverAgain(request) == FALSE

\* The loops of pcom_vreg_control and pcom_sdcard_power read the status again.
GivenAgain(request) == request.again /\ mailbox.status # "success"

\* APP_COMMAND is idle.  The data is written back through its address: to the
\* table, or to a variable that the next command of the function uses as well.
WriteIdle ==
    /\ call.at = "read" /\ call' = [call EXCEPT !.at = "none"]
    /\ mailbox' = [mailbox EXCEPT !.command = "idle"]
    /\ LET request == Head(todo)
           kept == [request EXCEPT !.data = call.data]
           rest == IF request.again THEN [k \in 1 .. Len(todo) - 1 |-> [todo[k + 1] EXCEPT !.data = call.data]]
                   ELSE Tail(todo)
       IN  /\ todo' = IF GivenAgain(request) THEN <<kept>> \o rest ELSE rest
           /\ table' = IF request.entry # None THEN [table EXCEPT ![request.entry] = call.data]
                       ELSE table
    /\ UNCHANGED <<modem, supply>>

-----------------------------------------------------------------------------
(* The modem.                                                              *)

\* It starts with nothing to do.
ModemStarts ==
    /\ ~modem.ready /\ modem' = [modem EXCEPT !.ready = TRUE]
    /\ UNCHANGED <<mailbox, call, todo>> /\ Unchanged

Performed(name, r) ==
    CASE name = "set_level"  -> [supply EXCEPT !.level = @ \union {r}]
      [] name = "switch_on"  -> [supply EXCEPT !.on = @ \union {r}]
      [] name = "switch_off" -> [level |-> supply.level \ {r}, on |-> supply.on \ {r}]
      [] OTHER -> supply

RegulatorCommands == {"set_level", "switch_on", "switch_off"}

\* It takes the command and answers it.
ModemAnswers(status) ==
    /\ modem.rung
    /\ \E data \in {mailbox.data, Junk} :
         /\ mailbox' = [command |-> "done", status |-> status, data |-> data]
         /\ modem' = [modem EXCEPT
              !.rung = FALSE,
              !.last = [name |-> mailbox.command, data |-> mailbox.data, status |-> status],
              !.kept = @ /\ (mailbox.command \in RegulatorCommands => data = mailbox.data)]
    /\ supply' = IF status = "success" THEN Performed(mailbox.command, mailbox.data) ELSE supply
    /\ UNCHANGED <<call, todo, table>>

\* msm_pcom_init.
Init ==
    /\ mailbox = [command |-> "idle", data |-> None, status |-> "invalid"]
    /\ modem = [ready |-> FALSE, rung |-> FALSE, kept |-> TRUE,
                last |-> [name |-> None, data |-> None, status |-> None]]
    /\ call = [at |-> "start", data |-> None] /\ todo = << >>
    /\ table = [c \in Clocks |-> None]
    /\ supply = [level |-> {}, on |-> {}]

Functions ==
    \/ \E c \in Clocks : \/ \E name \in {"enable", "disable", "get_rate"} : ClkCommand(name, c)
                         \/ ClkSetRate(c)
                         \/ \E name \in {"rpc_enable", "rpc_set_rate"} : ClientCommand(name, c)
    \/ \E r \in Regulators, on \in BOOLEAN : pcom_vreg_control(r, on)
    \/ \E on \in BOOLEAN : pcom_sdcard_power(on)
    \/ pcom_sdcard_gpio_config

ProcComm == Begin \/ NotifyModem \/ ReadReply \/ WriteIdle
Statuses == {"success", "fail", "other_failure"}

Next ==
    \/ MsmClockInit \/ Functions \/ ProcComm
    \/ ModemStarts \/ \E status \in Statuses : ModemAnswers(status)

\* The processor's loops go on, the modem starts and answers what it was notified
\* of, and does not fail forever.
Fairness ==
    /\ WF_pcomVars(ProcComm) /\ WF_pcomVars(ModemStarts)
    /\ SF_pcomVars(ModemAnswers("success"))

Spec == Init /\ [][Next]_pcomVars
FairSpec == Spec /\ Fairness

-----------------------------------------------------------------------------
(* Properties.                                                             *)

\* The answer which a function reads, the status that it reads after the command
\* register is idle again included, is the answer to its own command.
ReplyIsOwn ==
    call.at = "read" => /\ modem.last.name = Head(todo).name
                        /\ modem.last.data = Head(todo).data
                        /\ modem.last.status = mailbox.status

\* pcom_vreg_control: "If turning it ON, set the level first."  A regulator goes on
\* after its own level has been set.
LevelBeforeOn == supply.on \ {SdcRegulator} \subseteq supply.level

\* It does so, however often the modem fails and whatever the answers to other
\* commands bring, as long as the answers to the commands of regulators leave the
\* regulator's number where msm_proc_comm reads it back.
LevelBeforeOnIfKept == modem.kept => LevelBeforeOn

\* A function that is under way returns.
FunctionsReturn == todo # << >> ~> Idle
=============================================================================
