--------------------------- MODULE DebugFirmware ----------------------------
(***************************************************************************)
(* debug-firmware/debug-firmware.ino: the Arduino sketch that clocks and   *)
(* resets a 6502 target over two pins and reports its bus over a serial    *)
(* line.  The sketch is one thread (setup, then loop for ever); characters *)
(* arrive in the serial receive buffer at any moment, and what the target  *)
(* makes of the two pins is modelled as far as the properties need it.     *)
(***************************************************************************)
EXTENDS Naturals, Sequences

CONSTANTS
    Bus,            \* what the target may have on its buses in a cycle
    BufferSize,     \* characters the serial receive buffer holds
    MaxArrivals     \* how many characters are sent in all

ASSUME BusAssumption == Bus # {}
ASSUME SerialAssumption == BufferSize \in Nat \ {0} /\ MaxArrivals \in Nat

(* Commands; case is ignored, and any other character does nothing. *)
Commands == {"r", "c", "s", "p", "f"}
Other == "other"

(* Cycles resetTarget gives before, during and after the low pulse. *)
BeforeReset == 4
(* Mutant: RESET is low for one cycle. *)
DuringResetShort == 1

DuringReset == 20
AfterReset == 20
ResetCycles == BeforeReset + DuringReset + AfterReset

(* Cycles of RESB low a 6502 needs (comment at lines 156-160). *)
MinLow == 2

VARIABLES
    pc,             \* where the sketch is
    n,              \* clock cycles left in the loop it is in
    command,        \* the character this round of loop() acts on, or "none"
    continuousMode, freeRunMode,
    prev,           \* prevAddr, prevData and prevRW together
    clk, resb,      \* CLK_PIN and RESET_PIN
    buffer,         \* received characters: <<character, it came mid-command>>
    arrivals,       \* how many characters were sent so far
    bus,            \* what the target has on its buses
    lowCycles,      \* full clock cycles since RESB went low
    target,         \* "unknown" or, once properly reset, "running"
    cycles,         \* clock cycles given in this round of loop()
    report          \* what this round printed of the bus: <<>>, or <<bus>>

sketchVars == <<pc, n, command, continuousMode, freeRunMode, prev>>
pinVars == <<clk, resb, bus, lowCycles, target, cycles>>
serialVars == <<buffer, arrivals>>
vars == <<sketchVars, pinVars, serialVars, report>>

(* A command is being carried out. *)
ResetLoops == {"reset_before", "reset_during", "reset_after"}
InCommand == pc \in ResetLoops \cup {"step_low", "step_high"}

-----------------------------------------------------------------------------
Init ==
    /\ pc = "setup" /\ n = 0 /\ command = "none"
    /\ continuousMode = FALSE /\ freeRunMode = FALSE
    /\ clk = "low" /\ resb = "low"
    /\ bus \in Bus /\ prev \in Bus
    /\ buffer = << >> /\ arrivals = 0
    /\ lowCycles = 0 /\ target = "unknown"
    /\ cycles = 0 /\ report = << >>

(* Mutant: the buffer has no end. *)
ArriveUnbounded(ch) ==
    /\ arrivals < MaxArrivals /\ arrivals' = arrivals + 1
    /\ buffer' = Append(buffer, <<ch, InCommand>>)
    /\ UNCHANGED <<sketchVars, pinVars, report>>

(* A character arrives; a full buffer drops it. *)
Arrive(ch) ==
    /\ arrivals < MaxArrivals /\ arrivals' = arrivals + 1
    /\ buffer' = IF Len(buffer) < BufferSize
                 THEN Append(buffer, <<ch, InCommand>>) ELSE buffer
    /\ UNCHANGED <<sketchVars, pinVars, report>>

-----------------------------------------------------------------------------
(* The pins, as the target sees them.  Its buses change when PHI2 falls;   *)
(* a low phase on RESB resets it if it lasted MinLow cycles.               *)
ClockLow ==
    /\ clk = "high" /\ clk' = "low"
    /\ bus' \in Bus
    /\ UNCHANGED <<resb, lowCycles, target, cycles>>

ClockHigh ==
    /\ clk = "low" /\ clk' = "high"
    /\ lowCycles' = IF resb = "low" THEN lowCycles + 1 ELSE lowCycles
    /\ cycles' = cycles + 1
    /\ UNCHANGED <<resb, bus, target>>

ResetLow ==
    /\ resb' = "low"
    /\ lowCycles' = 0 /\ target' = "unknown"
    /\ UNCHANGED <<clk, bus, cycles>>

ResetHigh ==
    /\ resb' = "high"
    /\ target' = IF lowCycles >= MinLow THEN "running" ELSE "unknown"
    /\ UNCHANGED <<clk, bus, lowCycles, cycles>>

(* setup() raises both pins, RESB with CLK already high, and takes the     *)
(* first sample; the target saw no clock cycle with RESB low.              *)
Setup ==
    /\ pc = "setup" /\ pc' = "loop"
    /\ clk' = "high" /\ resb' = "high"
    /\ prev' = bus
    /\ UNCHANGED <<n, command, continuousMode, freeRunMode, bus, lowCycles,
                   target, cycles, serialVars, report>>

-----------------------------------------------------------------------------
(* loop(): take a command if one has arrived, else go on to the modes.     *)
EntryOf == [r |-> "reset_before", f |-> "reset_before", s |-> "step_low"]
CyclesOf == [r |-> BeforeReset, f |-> BeforeReset, s |-> 0]

Available == buffer # << >>

ReadCommand ==
    /\ pc = "loop" /\ Available
    /\ LET ch == Head(buffer)[1]
       IN  /\ command' = ch
           /\ pc' = IF ch \in DOMAIN EntryOf THEN EntryOf[ch] ELSE "drop"
           /\ n' = IF ch \in DOMAIN CyclesOf THEN CyclesOf[ch] ELSE 0
           /\ \/ /\ ch = "c"
                 /\ continuousMode' = ~continuousMode
                 /\ freeRunMode' = FALSE
              \/ ch # "c" /\ UNCHANGED <<continuousMode, freeRunMode>>
           /\ report' = IF ch = "p" THEN <<bus>> ELSE << >>
    /\ buffer' = Tail(buffer)
    /\ cycles' = 0
    /\ UNCHANGED <<prev, clk, resb, bus, lowCycles, target, arrivals>>

(* Mutant: what arrives while the sketch idles is dropped. *)
NoCommandDrops ==
    /\ pc = "loop" /\ ~Available /\ pc' = "drop"
    /\ command' = "none" /\ cycles' = 0 /\ report' = << >>
    /\ UNCHANGED <<n, continuousMode, freeRunMode, prev, clk, resb, bus,
                   lowCycles, target, serialVars>>

NoCommand ==
    /\ pc = "loop" /\ ~Available /\ pc' = "modes"
    /\ command' = "none" /\ cycles' = 0 /\ report' = << >>
    /\ UNCHANGED <<n, continuousMode, freeRunMode, prev, clk, resb, bus,
                   lowCycles, target, serialVars>>

(* resetTarget(): three loops of clock cycles, the middle one with RESET   *)
(* low.  Every iteration drives CLK low and then high.                     *)
LoopLow ==
    /\ pc \in ResetLoops /\ n > 0
    /\ ClockLow
    /\ UNCHANGED <<sketchVars, serialVars, report>>

LoopHigh ==
    /\ pc \in ResetLoops
    /\ ClockHigh
    /\ n' = n - 1
    /\ UNCHANGED <<pc, command, continuousMode, freeRunMode, prev, serialVars, report>>

PullReset ==
    /\ pc = "reset_before" /\ clk = "high" /\ n = 0
    /\ pc' = "reset_during" /\ n' = DuringReset
    /\ ResetLow
    /\ UNCHANGED <<command, continuousMode, freeRunMode, prev, serialVars, report>>

(* Mutant: a cycle too few after the pulse. *)
ReleaseResetOff ==
    /\ pc = "reset_during" /\ clk = "high" /\ n = 0
    /\ pc' = "reset_after" /\ n' = AfterReset - 1
    /\ ResetHigh
    /\ UNCHANGED <<command, continuousMode, freeRunMode, prev, serialVars, report>>

ReleaseReset ==
    /\ pc = "reset_during" /\ clk = "high" /\ n = 0
    /\ pc' = "reset_after" /\ n' = AfterReset
    /\ ResetHigh
    /\ UNCHANGED <<command, continuousMode, freeRunMode, prev, serialVars, report>>

(* Mutant: free run leaves continuous mode on. *)
ResetDoneBoth ==
    /\ pc = "reset_after" /\ clk = "high" /\ n = 0
    /\ pc' = "drop"
    /\ freeRunMode' = (freeRunMode \/ command = "f")
    /\ UNCHANGED <<n, command, continuousMode, prev, pinVars, serialVars, report>>

(* ... and what case 'f' does after it. *)
ResetDone ==
    /\ pc = "reset_after" /\ clk = "high" /\ n = 0
    /\ pc' = "drop"
    /\ \/ /\ command = "f"
          /\ freeRunMode' = TRUE /\ continuousMode' = FALSE
       \/ command # "f" /\ UNCHANGED <<continuousMode, freeRunMode>>
    /\ UNCHANGED <<n, command, prev, pinVars, serialVars, report>>

(* Characters that arrived while the command ran are dropped. *)
DropOne ==
    /\ pc = "drop" /\ Available
    /\ buffer' = Tail(buffer)
    /\ UNCHANGED <<sketchVars, pinVars, arrivals, report>>

(* Mutant: what arrived meanwhile stays in the buffer. *)
DropDoneEarly ==
    /\ pc = "drop" /\ pc' = "modes"
    /\ UNCHANGED <<n, command, continuousMode, freeRunMode, prev, pinVars,
                   serialVars, report>>

DropDone ==
    /\ pc = "drop" /\ ~Available /\ pc' = "modes"
    /\ UNCHANGED <<n, command, continuousMode, freeRunMode, prev, pinVars,
                   serialVars, report>>

(* stepClock(), from case 's' or from continuous mode: one cycle, then the *)
(* buses are read, printed and remembered while CLK is high.               *)
StepLow ==
    /\ pc \in {"step_low", "run_low"}
    /\ pc' = IF pc = "step_low" THEN "step_high" ELSE "run_high"
    /\ ClockLow
    /\ UNCHANGED <<n, command, continuousMode, freeRunMode, prev, serialVars, report>>

(* Mutant: the buses are printed before they are read. *)
StepHighStale ==
    /\ pc \in {"step_high", "run_high"}
    /\ pc' = IF pc = "step_high" THEN "drop" ELSE "loop"
    /\ ClockHigh
    /\ report' = <<prev>> /\ prev' = bus
    /\ UNCHANGED <<n, command, continuousMode, freeRunMode, serialVars>>

StepHigh ==
    /\ pc \in {"step_high", "run_high"}
    /\ pc' = IF pc = "step_high" THEN "drop" ELSE "loop"
    /\ ClockHigh
    /\ report' = <<bus>> /\ prev' = bus
    /\ UNCHANGED <<n, command, continuousMode, freeRunMode, serialVars>>

(* stepClockFast() prints and remembers nothing. *)
FastHigh ==
    /\ pc = "fast_high" /\ pc' = "loop"
    /\ ClockHigh
    /\ UNCHANGED <<n, command, continuousMode, freeRunMode, prev, serialVars, report>>

(* Mutant: free run is never acted on. *)
ModesStepOnly ==
    /\ pc = "modes"
    /\ \/ continuousMode /\ pc' = "run_low" /\ UNCHANGED pinVars
       \/ ~continuousMode /\ pc' = "loop" /\ UNCHANGED pinVars
    /\ UNCHANGED <<n, command, continuousMode, freeRunMode, prev, serialVars, report>>

Modes ==
    /\ pc = "modes"
    /\ \/ freeRunMode /\ pc' = "fast_high" /\ ClockLow
       \/ ~freeRunMode /\ continuousMode /\ pc' = "run_low" /\ UNCHANGED pinVars
       \/ ~freeRunMode /\ ~continuousMode /\ pc' = "loop" /\ UNCHANGED pinVars
    /\ UNCHANGED <<n, command, continuousMode, freeRunMode, prev, serialVars, report>>

Sketch ==
    \/ Setup \/ ReadCommand \/ NoCommand
    \/ LoopLow \/ LoopHigh \/ PullReset \/ ReleaseReset \/ ResetDone
    \/ DropOne \/ DropDone
    \/ StepLow \/ StepHigh \/ FastHigh \/ Modes

Serial == \E ch \in Commands \cup {Other} : Arrive(ch)

Next == Sketch \/ Serial

Spec == Init /\ [][Next]_vars
FairSpec == Spec /\ WF_vars(Sketch)

-----------------------------------------------------------------------------
Points == ResetLoops \cup {"setup", "loop", "drop", "modes", "step_low",
              "step_high", "run_low", "run_high", "fast_high"}

TypeOK ==
    /\ pc \in Points /\ n \in 0 .. DuringReset
    /\ command \in Commands \cup {Other, "none"}
    /\ continuousMode \in BOOLEAN /\ freeRunMode \in BOOLEAN
    /\ prev \in Bus /\ bus \in Bus
    /\ clk \in {"low", "high"} /\ resb \in {"low", "high"}
    /\ buffer \in Seq((Commands \cup {Other}) \X BOOLEAN)
    /\ Len(buffer) <= BufferSize
    /\ arrivals \in 0 .. MaxArrivals
    /\ lowCycles \in 0 .. DuringReset
    /\ target \in {"unknown", "running"}
    /\ cycles \in 0 .. ResetCycles + 1
    /\ report \in {<< >>} \cup {<<b>> : b \in Bus}

(* The two modes exclude each other, whatever is typed (lines 243-244 and  *)
(* 267-268 are the only places that set them).                             *)
ModesExclusive == ~(continuousMode /\ freeRunMode)

(* The clock runs free only over a target that was properly reset: 'f'     *)
(* resets before it sets the mode, and a later 'r' holds RESB low for the  *)
(* two cycles a 6502 needs (lines 156-160).                                *)
FreeRunReset ==
    freeRunMode /\ pc # "reset_during" => target = "running"

(* The target gets exactly the cycles that were asked for: a round of      *)
(* loop() gives one for 's', the reset's 44 for 'r' and 'f', one for an    *)
(* active mode, and none for anything else, garbage included (line 290).   *)
RoundCycles ==
    pc = "loop" =>
        cycles = (CASE command \in {"r", "f"} -> ResetCycles
                    [] command = "s" -> 1
                    [] OTHER -> 0)
                 + (IF continuousMode \/ freeRunMode THEN 1 ELSE 0)

(* Between rounds both lines idle high (comment at line 196), so the buses *)
(* can be read and the target is not held in reset.                        *)
IdleHigh == pc = "loop" => clk = "high" /\ resb = "high"

(* What was printed last is still on the buses after a round that steps or *)
(* prints, unless the clock runs free.                                     *)
ReportCurrent ==
    pc = "loop" /\ ~freeRunMode /\ (continuousMode \/ command \in {"s", "p"})
        => report = <<bus>>

(* A character that arrived while a command was carried out is never taken *)
(* for the next command (line 294, "DROP any remaining characters").       *)
NoBacklog == pc = "loop" => \A i \in DOMAIN buffer : ~buffer[i][2]

(* Only those are dropped: a character that waits while no command is      *)
(* carried out becomes the command, in every mode, free run included.      *)
CarryingOut(ch) == command = ch /\ (InCommand \/ pc = "drop")
Waits(ch) ==
    /\ buffer # << >> /\ Head(buffer)[1] = ch
    /\ \A c \in Commands \cup {Other} : ~CarryingOut(c)
Responsive == \A ch \in Commands \cup {Other} : Waits(ch) ~> CarryingOut(ch)

(* 'c' leads from free run to continuous mode, never to standstill, so 'f' *)
(* has to turn continuous mode off, however the modes were entered (lines  *)
(* 243-244 and 267-268).                                                   *)
LeavesFreeRun == [][freeRunMode /\ ~freeRunMode' => continuousMode']_vars

(* RESB is released only after the two cycles the comment at lines 156-160 *)
(* asks for.                                                               *)
ResetLongEnough ==
    [][resb = "low" /\ resb' = "high" /\ pc # "setup" => lowCycles >= MinLow]_vars
=============================================================================
