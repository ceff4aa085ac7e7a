----------------------------- MODULE Rig_proofs -----------------------------
(***************************************************************************)
(* Whatever is typed, the sketch gives the program a clock and resets the  *)
(* program is proved for: the rig implements LcdBlind.                     *)
(***************************************************************************)
EXTENDS Rig, LcdBlind_proofs

LEMMA StepMaps ==
    ASSUME {2 * CLK_DELAY_US, 4 * CLK_DELAY_US} \subseteq CycleTimes,
           [RigNext]_rigVars
    PROVE  [Next]_vars
  <1>1. CASE SketchStep
    <2>1. Duration \in CycleTimes
      BY DEF Duration
    <2>2. Cycle(Duration) => Tick
      BY <2>1 DEF Tick
    <2> QED BY <1>1, <2>2 DEF SketchStep, Next
  <1>2. CASE Typing
    BY <1>2 DEF Typing
  <1>3. CASE ProgramStep
    BY <1>3 DEF ProgramStep, Next
  <1>4. CASE Disturbance
    BY <1>4 DEF Disturbance, Next
  <1>5. CASE UNCHANGED rigVars
    BY <1>5 DEF rigVars
  <1> QED BY <1>1, <1>2, <1>3, <1>4, <1>5 DEF RigNext

(* The sketch drives the program as LcdBlind has it (lines 163-227). *)
THEOREM RigImplementsProgram ==
    ASSUME {2 * CLK_DELAY_US, 4 * CLK_DELAY_US} \subseteq CycleTimes
    PROVE  RigSpec => Spec
  <1>1. RigInit => Init
    BY DEF RigInit
  <1>2. [RigNext]_rigVars => [Next]_vars
    BY StepMaps
  <1> QED BY <1>1, <1>2, PTL DEF RigSpec, Spec

(* The shortest way to an edge of E takes 4.8 ms at least. *)
LEMMA SketchIsSlow ==
    ASSUME CycleTimes = {2 * CLK_DELAY_US, 4 * CLK_DELAY_US},
           \A t \in ClearTimes \cup OtherTimes : t <= 4800
    PROVE  SlowEnough(200)
  <1>1. ShortestWay \in Nat /\ 4800 <= ShortestWay * 200
    BY DEF ShortestWay
  <1>2. CycleTimes = {200, 400}
    BY DEF CLK_DELAY_US
  <1>3. \A t \in ClearTimes \cup OtherTimes : t <= ShortestWay * 200
    BY <1>1, TimesAssumption
  <1> QED BY <1>2, <1>3 DEF SlowEnough

(* On the rig, with CLK_DELAY_US as it is (line 9), no program of the kind *)
(* loses a byte as long as the LCD needs no more than 4.8 ms for anything. *)
THEOREM RigIsSafe ==
    ASSUME CycleTimes = {2 * CLK_DELAY_US, 4 * CLK_DELAY_US},
           \A t \in ClearTimes \cup OtherTimes : t <= 4800
    PROVE  RigSpec => []NoLostByte
  <1>1. SlowEnough(200)
    BY SketchIsSlow
  <1>2. Spec => []NoLostByte
    BY <1>1, BlindIsSafe
  <1> QED BY <1>2, RigImplementsProgram

(* The display is driven on the rig as Console has it, with the same       *)
(* bound on what the LCD needs.                                            *)
THEOREM RigImplementsConsole ==
    ASSUME CycleTimes = {2 * CLK_DELAY_US, 4 * CLK_DELAY_US},
           \A t \in ClearTimes \cup OtherTimes : t <= 4800
    PROVE  RigSpec => ImplementsConsole
  <1>1. Spec => ImplementsConsole
    BY SketchIsSlow, BlindImplementsConsole
  <1> QED BY <1>1, RigImplementsProgram

(* And the sketch is the one DebugFirmware describes: waiting for the      *)
(* program's accesses takes nothing away from it and adds nothing.         *)
THEOREM RigImplementsFirmware == RigSpec => Firmware!Spec
  <1>1. RigInit => Firmware!Init
    BY DEF RigInit
  <1>2. [RigNext]_rigVars => [Firmware!Next]_(Firmware!vars)
    BY DEF RigNext, SketchStep, Typing, ProgramStep, Disturbance, rigVars,
       sketchVars, Firmware!Next, Firmware!vars, Firmware!sketchVars,
       Firmware!pinVars, Firmware!serialVars
  <1> QED BY <1>1, <1>2, PTL DEF RigSpec, Firmware!Spec

-----------------------------------------------------------------------------
(* n of the 20 cycles after the pulse are left: the program is on its way  *)
(* to line 22 (17 cycles), or past it on its way to line 23 (6 more).      *)
OnItsWay ==
    \/ pc = "reset" /\ wait + 3 = n
    \/ pc = "ddra" /\ wait = n + 3 /\ ddrb = 255

(* RESB is high but for the pulse, which lasts 20 cycles and holds the     *)
(* program where a reset puts it.                                          *)
Pulse ==
    /\ place \in {"step_low", "step_high"} => command = "s"
    /\ place \notin {"setup", "reset_during"} => resb = "high"
    /\ place \in {"reset_before", "reset_during", "reset_after"} =>
           n \in Nat /\ (clk # "high" => n > 0)
    /\ place = "reset_during" =>
           /\ resb = "low" /\ target = "unknown"
           /\ lowCycles \in Nat /\ lowCycles + n = 20
           /\ pc = "reset" /\ wait = 17
    /\ place = "reset_after" => target = "running" /\ OnItsWay
    /\ place = "drop" /\ command = "r" =>
           pc = "ddra" /\ wait = 3 /\ ddrb = 255

LEMMA PulseInit == RigInit => Pulse
  BY DEF RigInit, Firmware!Init, Pulse

(* What the sketch does with the program, besides nothing. *)
LEMMA SketchCases ==
    ASSUME SketchStep
    PROVE  /\ wait > 0
           /\ Firmware!Sketch
           /\ Clocked /\ ~Pulled => pc' = pc /\ wait' = wait - 1 /\ ddrb' = ddrb
           /\ Pulled /\ ~Clocked => pc' = "reset" /\ wait' = 7 + Cost("reset")
           /\ ~Clocked /\ ~Pulled => pc' = pc /\ wait' = wait /\ ddrb' = ddrb
  BY DEF SketchStep, Cycle, Reset, ResetSequence, vars, cpuVars, busVars

LEMMA PulseSketch ==
    ASSUME ~Inline, TInv, Pulse, SketchStep PROVE Pulse'
  <1> USE SketchCases DEF Pulse, Clocked, Pulled
  <1>1. CASE Firmware!Setup
    BY <1>1 DEF Firmware!Setup, Firmware!serialVars
  <1>2. CASE Firmware!ReadCommand
    BY <1>2 DEF Firmware!ReadCommand, Firmware!EntryOf, Firmware!CyclesOf,
       Firmware!BeforeReset
  <1>3. CASE Firmware!NoCommand
    BY <1>3 DEF Firmware!NoCommand, Firmware!serialVars
  <1>4. CASE Firmware!LoopLow
    BY <1>4 DEF Firmware!LoopLow, Firmware!ClockLow, Firmware!sketchVars,
       Firmware!serialVars, Firmware!ResetLoops, OnItsWay
  <1>5. CASE Firmware!LoopHigh
    <2>1. place \in {"reset_before", "reset_during", "reset_after"}
      BY <1>5 DEF Firmware!LoopHigh, Firmware!ResetLoops
    <2>2. /\ clk = "low" /\ clk' = "high" /\ n' = n - 1
          /\ lowCycles' = IF resb = "low" THEN lowCycles + 1 ELSE lowCycles
          /\ UNCHANGED <<place, command, resb, target>>
      BY <1>5 DEF Firmware!LoopHigh, Firmware!ClockHigh
    <2>3. n \in Nat /\ n > 0 /\ n' \in Nat /\ wait \in Nat
      BY <2>1, <2>2 DEF TInv, TypeOK
    <2>4. CASE place = "reset_before"
      BY <2>2, <2>3, <2>4
    <2>5. CASE place = "reset_during"
      <3>1. pc' = pc /\ wait' = wait
        BY <2>2, <2>5
      <3>2. lowCycles' = lowCycles + 1 /\ lowCycles' + n' = 20
        BY <2>2, <2>3, <2>5
      <3> QED BY <2>2, <2>3, <2>5, <3>1, <3>2
    <2>6. CASE place = "reset_after"
      <3>1. resb = "high" /\ target = "running" /\ OnItsWay
        BY <2>6
      <3>2. pc' = pc /\ wait' = wait - 1 /\ ddrb' = ddrb
        BY <2>2, <3>1
      <3>3. OnItsWay'
        BY <2>2, <2>3, <3>1, <3>2 DEF OnItsWay
      <3> QED BY <2>2, <2>3, <2>6, <3>1, <3>3
    <2> QED BY <2>1, <2>4, <2>5, <2>6
  <1>6. CASE Firmware!PullReset
    BY <1>6 DEF Firmware!PullReset, Firmware!ResetLow, Firmware!serialVars,
       Firmware!DuringReset, Cost
  <1>7. CASE Firmware!ReleaseReset
    BY <1>7 DEF Firmware!ReleaseReset, Firmware!ResetHigh, Firmware!serialVars,
       Firmware!AfterReset, Firmware!MinLow, OnItsWay
  <1>8. CASE Firmware!ResetDone
    BY <1>8 DEF Firmware!ResetDone, Firmware!pinVars, Firmware!serialVars,
       OnItsWay, TInv, TypeOK
  <1>9. CASE Firmware!DropOne \/ Firmware!DropDone
    BY <1>9 DEF Firmware!DropOne, Firmware!DropDone, Firmware!sketchVars,
       Firmware!pinVars, Firmware!serialVars
  <1>10. CASE Firmware!StepLow
    BY <1>10 DEF Firmware!StepLow, Firmware!ClockLow, Firmware!serialVars
  <1>11. CASE Firmware!StepHigh
    BY <1>11 DEF Firmware!StepHigh, Firmware!ClockHigh, Firmware!serialVars
  <1>12. CASE Firmware!FastHigh
    BY <1>12 DEF Firmware!FastHigh, Firmware!ClockHigh, Firmware!serialVars
  <1>13. CASE Firmware!Modes
    BY <1>13 DEF Firmware!Modes, Firmware!ClockLow, Firmware!pinVars,
       Firmware!serialVars
  <1> QED BY <1>1, <1>2, <1>3, <1>4, <1>5, <1>6, <1>7, <1>8, <1>9, <1>10,
             <1>11, <1>12, <1>13 DEF Firmware!Sketch

(* With no cycle left the program makes its access before anything else    *)
(* happens: line 22 with three cycles of the 20 to go.                     *)
LEMMA PulseProgram ==
    ASSUME ~Inline, TInv, Pulse, ProgramStep PROVE Pulse'
  <1>1. target = "running" /\ UNCHANGED sketchVars /\ wait = 0
    BY DEF ProgramStep, Cpu, SetDDRB, SetDDRA, Call, Data, Setup, Enable,
       Disable, Return, Loop, At
  <1>2. CASE place = "reset_after"
    <2>1. pc = "reset" /\ n = 3
      BY <1>1, <1>2 DEF Pulse, OnItsWay
    <2>2. SetDDRB
      BY <2>1 DEF ProgramStep, Cpu, SetDDRB, SetDDRA, Call, Data, Setup, Enable,
         Disable, Return, Loop, At
    <2>3. pc' = "ddra" /\ wait' = 6 /\ ddrb' = 255
      BY <2>2 DEF SetDDRB, GoTo, Cost, StoreDDRB
    <2> QED BY <1>1, <1>2, <2>1, <2>3 DEF Pulse, OnItsWay, sketchVars
  <1>3. CASE place # "reset_after"
    BY <1>1, <1>3 DEF Pulse, sketchVars
  <1> QED BY <1>2, <1>3

LEMMA PulseStep ==
    ASSUME ~Inline, TInv, Pulse, [RigNext]_rigVars PROVE Pulse'
  <1>1. CASE Typing
    BY <1>1 DEF Typing, Firmware!Serial, Firmware!Arrive, Firmware!sketchVars,
       Firmware!pinVars, vars, cpuVars, busVars, Pulse, OnItsWay
  <1>2. CASE Disturbance
    BY <1>2 DEF Disturbance, Noise, LcdNoise, cpuVars, sketchVars, Pulse, OnItsWay
  <1>3. CASE UNCHANGED rigVars
    BY <1>3 DEF rigVars, vars, cpuVars, busVars, sketchVars, Pulse, OnItsWay
  <1> QED BY <1>1, <1>2, <1>3, PulseSketch, PulseProgram DEF RigNext

(* Where 'r' (debug-firmware.ino, lines 163-193) leaves lcd_w_ram.s: at    *)
(* line 23, three cycles short of it, its port B driven and the LCD's      *)
(* control pins floating, whenever it is typed and whatever else is.       *)
THEOREM ResetAlwaysParks ==
    ASSUME ~Inline,
           {2 * CLK_DELAY_US, 4 * CLK_DELAY_US} \subseteq CycleTimes
    PROVE  RigSpec => []ResetParks
  <1>1. RigInit => TInv /\ Pulse
    BY TypesInit, PulseInit DEF RigInit
  <1>2. TInv /\ Pulse /\ [RigNext]_rigVars => TInv' /\ Pulse'
    BY TypesStep, StepMaps, PulseStep
  <1>3. TInv /\ Pulse => ResetParks
    BY Pins DEF TInv, Pulse, Lines, Driven, ResetParks
  <1> QED BY <1>1, <1>2, <1>3, PTL DEF RigSpec
=============================================================================
