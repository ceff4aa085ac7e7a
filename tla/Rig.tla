-------------------------------- MODULE Rig ---------------------------------
(***************************************************************************)
(* The board with the sketch as its clock: debug-firmware.ino drives CLK   *)
(* and RESB (DebugFirmware), and the program in the ROM (LcdBlind) gets no *)
(* other cycles and no other resets.  Time passes as the sketch's delays   *)
(* let it; what passes beyond them (serial output, nobody typing, RESB     *)
(* low) only helps the LCD and is left out.                                *)
(***************************************************************************)
EXTENDS LcdBlind

CONSTANTS BufferSize, MaxArrivals      \* as in DebugFirmware

VARIABLES
    place,        \* the sketch's pc
    n, command, continuousMode, freeRunMode, clk, resb, buffer, arrivals,
    lowCycles, target, cycles, report  \* as in DebugFirmware

sketchVars == <<place, n, command, continuousMode, freeRunMode, clk, resb,
                buffer, arrivals, lowCycles, target, cycles, report>>

(* What is on the buses does not matter here. *)
Firmware == INSTANCE DebugFirmware WITH pc <- place, Bus <- {0}, bus <- 0, prev <- 0

(* Mutant: a tenth of the delay. *)
CLK_DELAY_SHORT == 10

CLK_DELAY_US == 100

(* stepClock() delays four times, the other loops twice a cycle. *)
Duration == IF place \in {"step_high", "run_high"} THEN 4 * CLK_DELAY_US
                                                    ELSE 2 * CLK_DELAY_US

RigInit == Init /\ Firmware!Init

(* A rising edge of CLK ends a cycle; the target counts it once it has     *)
(* been reset and while it is not held in reset.                           *)
Clocked == clk = "low" /\ clk' = "high" /\ resb = "high" /\ target = "running"
Pulled  == resb = "high" /\ resb' = "low"

SketchStep ==
    /\ wait > 0    \* the access that ends a cycle comes before what follows
    /\ Firmware!Sketch
    /\ \/ Clocked /\ Cycle(Duration)
       \/ Pulled /\ Reset
       \/ ~Clocked /\ ~Pulled /\ UNCHANGED vars

Typing == Firmware!Serial /\ UNCHANGED vars

ProgramStep == target = "running" /\ Cpu /\ UNCHANGED sketchVars

Disturbance == Noise /\ UNCHANGED sketchVars

RigNext == SketchStep \/ Typing \/ ProgramStep \/ Disturbance

rigVars == <<vars, sketchVars>>
RigSpec == RigInit /\ [][RigNext]_rigVars /\ WF_rigVars(SketchStep \/ ProgramStep)

-----------------------------------------------------------------------------
(* Where 'r' leaves the program (lines 185-191): 20 cycles after RESB      *)
(* rose it has made port B outputs and is three cycles short of making E,  *)
(* R/W and RS outputs.  There it stays, with port B driven and the LCD's   *)
(* control pins floating, until somebody steps it or lets it run.          *)
ResetParks ==
    place = "drop" /\ command = "r" =>
        pc = "ddra" /\ wait = 3 /\ ddrb = 255 /\ ~Driven

(* In free run (line 300) the program gets to its end, unless the mode is  *)
(* left.                                                                   *)
FreeRunCompletes == freeRunMode ~> (pc = "loop" \/ ~freeRunMode)
=============================================================================
