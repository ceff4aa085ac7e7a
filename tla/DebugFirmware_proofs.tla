------------------------ MODULE DebugFirmware_proofs ------------------------
(***************************************************************************)
(* The safety properties of the sketch, for any number of characters, any  *)
(* buffer and any bus values.                                              *)
(***************************************************************************)
EXTENDS DebugFirmware, TLAPS

Between == {"loop", "drop", "modes", "step_low", "run_low"}
Mid == {"step_high", "run_high", "fast_high"}

(* CLK idles high; RESB is low before setup and in the middle loop only.   *)
Pins ==
    /\ pc \in Between => clk = "high"
    /\ pc \in Mid => clk = "low"
    /\ clk = "low" => pc \notin ResetLoops \/ n > 0
    /\ resb = IF pc \in {"setup", "reset_during"} THEN "low" ELSE "high"

(* What is left of a reset loop, and the commands it belongs to.           *)
Loops ==
    /\ pc = "reset_before" => n \in 0 .. BeforeReset
    /\ pc = "reset_during" => n \in 0 .. DuringReset /\ lowCycles = DuringReset - n
    /\ pc = "reset_after" => n \in 0 .. AfterReset /\ target = "running"
    /\ pc \in ResetLoops => command \in {"r", "f"}
    /\ pc \in {"step_low", "step_high"} => command = "s"

(* Which mode leads where; free run follows a proper reset.                *)
InModes ==
    /\ ModesExclusive
    /\ pc = "setup" => ~continuousMode /\ ~freeRunMode
    /\ pc \in {"run_low", "run_high"} => continuousMode
    /\ pc = "fast_high" => freeRunMode
    /\ freeRunMode /\ pc # "reset_during" => target = "running"

(* Cycles the command calls for, and those given at each point.            *)
Asked == IF command \in {"r", "f"} THEN ResetCycles
         ELSE IF command = "s" THEN 1 ELSE 0
ModeCycles == IF continuousMode \/ freeRunMode THEN 1 ELSE 0

Counted ==
    /\ pc = "setup" => cycles = 0 /\ command = "none"
    /\ pc = "reset_before" => cycles = BeforeReset - n
    /\ pc = "reset_during" => cycles = BeforeReset + DuringReset - n
    /\ pc = "reset_after" => cycles = ResetCycles - n
    /\ pc \in {"step_low", "step_high"} => cycles = 0
    /\ pc \in {"drop", "modes", "run_low", "run_high", "fast_high"} => cycles = Asked
    /\ pc = "loop" => cycles = Asked + ModeCycles

(* What was printed is on the buses while nothing clocks.                  *)
Reported ==
    /\ pc \in {"drop", "modes"} /\ command \in {"s", "p"} => report = <<bus>>
    /\ ReportCurrent

(* Characters from the middle of a command are gone once it is over.       *)
Dropped ==
    InCommand \/ pc = "drop" \/ \A i \in DOMAIN buffer : ~buffer[i][2]

IInv == TypeOK /\ Pins /\ Loops /\ InModes /\ Counted /\ Reported /\ Dropped

LEMMA InitInv == ASSUME Init PROVE IInv
  <1>1. TypeOK
    <2>1. buffer \in Seq((Commands \cup {Other}) \X BOOLEAN) /\ Len(buffer) <= BufferSize
      BY SerialAssumption DEF Init
    <2>2. report \in {<< >>} \cup {<<b>> : b \in Bus}
      BY DEF Init
    <2>3. /\ pc \in Points /\ n \in 0 .. DuringReset /\ command \in Commands \cup {Other, "none"}
          /\ prev \in Bus /\ bus \in Bus
          /\ clk \in {"low", "high"} /\ resb \in {"low", "high"}
          /\ target \in {"unknown", "running"}
      BY DEF Init, Points, DuringReset
    <2>5. continuousMode \in BOOLEAN /\ freeRunMode \in BOOLEAN
      BY Zenon DEF Init
    <2>4. /\ arrivals \in 0 .. MaxArrivals /\ lowCycles \in 0 .. DuringReset
          /\ cycles \in 0 .. ResetCycles + 1
      BY SerialAssumption DEF Init, DuringReset, BeforeReset, AfterReset, ResetCycles
    <2> QED BY <2>1, <2>2, <2>3, <2>4, <2>5 DEF TypeOK
  <1>2. Pins /\ Loops /\ InModes
    BY DEF Init, Pins, Between, Mid, ResetLoops, Loops, InModes, ModesExclusive
  <1>3. Counted /\ Reported /\ Dropped
    BY DEF Init, Counted, Reported, ReportCurrent, Dropped
  <1> QED BY <1>1, <1>2, <1>3 DEF IInv

(* A character at the end of the buffer. *)
LEMMA Appended ==
    ASSUME TypeOK, NEW ch \in Commands \cup {Other}, Arrive(ch)
    PROVE  /\ buffer' \in Seq((Commands \cup {Other}) \X BOOLEAN)
           /\ Len(buffer') <= BufferSize
           /\ \A i \in DOMAIN buffer' :
                  \/ i \in DOMAIN buffer /\ buffer'[i] = buffer[i]
                  \/ buffer'[i] = <<ch, InCommand>>
  <1> DEFINE item == <<ch, InCommand>>
             Items == (Commands \cup {Other}) \X BOOLEAN
  <1>1. item \in Items /\ buffer \in Seq(Items) /\ Len(buffer) <= BufferSize
    <2>1. InCommand \in BOOLEAN
      BY DEF InCommand
    <2> QED BY <2>1, Zenon DEF TypeOK
  <1>2. buffer' = IF Len(buffer) < BufferSize THEN Append(buffer, item) ELSE buffer
    BY Zenon DEF Arrive
  <1> HIDE DEF item, Items
  <1>3. /\ buffer' \in Seq(Items) /\ Len(buffer') <= BufferSize
        /\ \A i \in DOMAIN buffer' :
              \/ i \in DOMAIN buffer /\ buffer'[i] = buffer[i]
              \/ buffer'[i] = item
    BY <1>1, <1>2, SerialAssumption
  <1> QED BY <1>3 DEF item, Items

(* ... and one taken from its front. *)
LEMMA Taken ==
    ASSUME TypeOK, buffer # << >>, buffer' = Tail(buffer)
    PROVE  /\ buffer' \in Seq((Commands \cup {Other}) \X BOOLEAN)
           /\ Len(buffer') <= BufferSize
           /\ Head(buffer)[1] \in Commands \cup {Other}
  <1> DEFINE Items == (Commands \cup {Other}) \X BOOLEAN
  <1>1. buffer \in Seq(Items) /\ Len(buffer) <= BufferSize
    BY DEF TypeOK
  <1>2. \A item \in Items : item[1] \in Commands \cup {Other}
    OBVIOUS
  <1> HIDE DEF Items
  <1>3. buffer' \in Seq(Items) /\ Head(buffer) \in Items /\ Len(buffer') <= BufferSize
    BY <1>1, SerialAssumption
  <1> QED BY <1>2, <1>3 DEF Items

-----------------------------------------------------------------------------
(* The pins. *)
LEMMA PinsStep == ASSUME IInv, [Next]_vars PROVE Pins'
  <1> USE DEF IInv, Pins, Loops, TypeOK, Points, ResetLoops, Between, Mid,
          BeforeReset, DuringReset, AfterReset
  <1>1. ASSUME NEW ch \in Commands \cup {Other}, Arrive(ch) PROVE Pins'
    BY <1>1 DEF Arrive, sketchVars, pinVars, serialVars
  <1>2. CASE Setup
    BY <1>2 DEF Setup, sketchVars, pinVars, serialVars
  <1>3. CASE ReadCommand
    BY <1>3 DEF ReadCommand, Available, EntryOf, CyclesOf, sketchVars, pinVars, serialVars
  <1>4. CASE NoCommand
    BY <1>4 DEF NoCommand, Available, sketchVars, pinVars, serialVars
  <1>5. CASE LoopLow
    BY <1>5 DEF LoopLow, ClockLow, sketchVars, pinVars, serialVars
  <1>6. CASE LoopHigh
    BY <1>6 DEF LoopHigh, ClockHigh, sketchVars, pinVars, serialVars
  <1>7. CASE PullReset
    BY <1>7 DEF PullReset, ResetLow, sketchVars, pinVars, serialVars
  <1>8. CASE ReleaseReset
    BY <1>8 DEF ReleaseReset, ResetHigh, sketchVars, pinVars, serialVars
  <1>9. CASE ResetDone
    BY <1>9 DEF ResetDone, sketchVars, pinVars, serialVars
  <1>10. CASE DropOne
    BY <1>10 DEF DropOne, Available, sketchVars, pinVars, serialVars
  <1>11. CASE DropDone
    BY <1>11 DEF DropDone, Available, sketchVars, pinVars, serialVars
  <1>12. CASE StepLow
    BY <1>12 DEF StepLow, ClockLow, sketchVars, pinVars, serialVars
  <1>13. CASE StepHigh
    BY <1>13 DEF StepHigh, ClockHigh, sketchVars, pinVars, serialVars
  <1>14. CASE FastHigh
    BY <1>14 DEF FastHigh, ClockHigh, sketchVars, pinVars, serialVars
  <1>15. CASE Modes
    BY <1>15 DEF Modes, ClockLow, sketchVars, pinVars, serialVars
  <1>16. CASE UNCHANGED vars
    BY <1>16 DEF vars, sketchVars, pinVars, serialVars
  <1> QED
    BY <1>1, <1>2, <1>3, <1>4, <1>5, <1>6, <1>7, <1>8, <1>9,
       <1>10, <1>11, <1>12, <1>13, <1>14, <1>15, <1>16
    DEF Next, Sketch, Serial

-----------------------------------------------------------------------------
(* The loops of resetTarget. *)
LEMMA LoopsStep == ASSUME IInv, [Next]_vars PROVE Loops'
  <1> USE DEF IInv, Pins, Loops, TypeOK, Points, ResetLoops, Between, Mid,
          Commands, Other, MinLow, BeforeReset, DuringReset, AfterReset
  <1>1. ASSUME NEW ch \in Commands \cup {Other}, Arrive(ch) PROVE Loops'
    BY <1>1 DEF Arrive, sketchVars, pinVars, serialVars
  <1>2. CASE Setup
    BY <1>2 DEF Setup, sketchVars, pinVars, serialVars
  <1>3. CASE ReadCommand
    BY <1>3 DEF ReadCommand, Available, EntryOf, CyclesOf, sketchVars, pinVars, serialVars
  <1>4. CASE NoCommand
    BY <1>4 DEF NoCommand, Available, sketchVars, pinVars, serialVars
  <1>5. CASE LoopLow
    BY <1>5 DEF LoopLow, ClockLow, sketchVars, pinVars, serialVars
  <1>6. CASE LoopHigh
    BY <1>6 DEF LoopHigh, ClockHigh, sketchVars, pinVars, serialVars
  <1>7. CASE PullReset
    BY <1>7 DEF PullReset, ResetLow, sketchVars, pinVars, serialVars
  <1>8. CASE ReleaseReset
    BY <1>8 DEF ReleaseReset, ResetHigh, sketchVars, pinVars, serialVars
  <1>9. CASE ResetDone
    BY <1>9 DEF ResetDone, sketchVars, pinVars, serialVars
  <1>10. CASE DropOne
    BY <1>10 DEF DropOne, Available, sketchVars, pinVars, serialVars
  <1>11. CASE DropDone
    BY <1>11 DEF DropDone, Available, sketchVars, pinVars, serialVars
  <1>12. CASE StepLow
    BY <1>12 DEF StepLow, ClockLow, sketchVars, pinVars, serialVars
  <1>13. CASE StepHigh
    BY <1>13 DEF StepHigh, ClockHigh, sketchVars, pinVars, serialVars
  <1>14. CASE FastHigh
    BY <1>14 DEF FastHigh, ClockHigh, sketchVars, pinVars, serialVars
  <1>15. CASE Modes
    BY <1>15 DEF Modes, ClockLow, sketchVars, pinVars, serialVars
  <1>16. CASE UNCHANGED vars
    BY <1>16 DEF vars, sketchVars, pinVars, serialVars
  <1> QED
    BY <1>1, <1>2, <1>3, <1>4, <1>5, <1>6, <1>7, <1>8, <1>9,
       <1>10, <1>11, <1>12, <1>13, <1>14, <1>15, <1>16
    DEF Next, Sketch, Serial

-----------------------------------------------------------------------------
(* The modes. *)
LEMMA InModesStep == ASSUME IInv, [Next]_vars PROVE InModes'
  <1> USE DEF IInv, Loops, InModes, ModesExclusive, TypeOK, Points, ResetLoops, MinLow,
          BeforeReset, DuringReset, AfterReset
  <1>1. ASSUME NEW ch \in Commands \cup {Other}, Arrive(ch) PROVE InModes'
    BY <1>1 DEF Arrive, sketchVars, pinVars, serialVars
  <1>2. CASE Setup
    BY <1>2 DEF Setup, sketchVars, pinVars, serialVars
  <1>3. CASE ReadCommand
    BY <1>3 DEF ReadCommand, Available, EntryOf, CyclesOf, sketchVars, pinVars, serialVars
  <1>4. CASE NoCommand
    BY <1>4 DEF NoCommand, Available, sketchVars, pinVars, serialVars
  <1>5. CASE LoopLow
    BY <1>5 DEF LoopLow, ClockLow, sketchVars, pinVars, serialVars
  <1>6. CASE LoopHigh
    BY <1>6 DEF LoopHigh, ClockHigh, sketchVars, pinVars, serialVars
  <1>7. CASE PullReset
    BY <1>7 DEF PullReset, ResetLow, sketchVars, pinVars, serialVars
  <1>8. CASE ReleaseReset
    BY <1>8 DEF ReleaseReset, ResetHigh, sketchVars, pinVars, serialVars
  <1>9. CASE ResetDone
    BY <1>9 DEF ResetDone, sketchVars, pinVars, serialVars
  <1>10. CASE DropOne
    BY <1>10 DEF DropOne, Available, sketchVars, pinVars, serialVars
  <1>11. CASE DropDone
    BY <1>11 DEF DropDone, Available, sketchVars, pinVars, serialVars
  <1>12. CASE StepLow
    BY <1>12 DEF StepLow, ClockLow, sketchVars, pinVars, serialVars
  <1>13. CASE StepHigh
    BY <1>13 DEF StepHigh, ClockHigh, sketchVars, pinVars, serialVars
  <1>14. CASE FastHigh
    BY <1>14 DEF FastHigh, ClockHigh, sketchVars, pinVars, serialVars
  <1>15. CASE Modes
    BY <1>15 DEF Modes, ClockLow, sketchVars, pinVars, serialVars
  <1>16. CASE UNCHANGED vars
    BY <1>16 DEF vars, sketchVars, pinVars, serialVars
  <1> QED
    BY <1>1, <1>2, <1>3, <1>4, <1>5, <1>6, <1>7, <1>8, <1>9,
       <1>10, <1>11, <1>12, <1>13, <1>14, <1>15, <1>16
    DEF Next, Sketch, Serial

-----------------------------------------------------------------------------
(* The cycles. *)
LEMMA CountedStep == ASSUME IInv, [Next]_vars PROVE Counted'
  <1> USE DEF IInv, Pins, Loops, InModes, ModesExclusive, Counted, Asked, ModeCycles,
          TypeOK, Points, ResetLoops, ResetCycles, BeforeReset, DuringReset, AfterReset
  <1>1. ASSUME NEW ch \in Commands \cup {Other}, Arrive(ch) PROVE Counted'
    BY <1>1 DEF Arrive, sketchVars, pinVars, serialVars
  <1>2. CASE Setup
    BY <1>2 DEF Setup, sketchVars, pinVars, serialVars
  <1>3. CASE ReadCommand
    BY <1>3 DEF ReadCommand, Available, EntryOf, CyclesOf, sketchVars, pinVars, serialVars
  <1>4. CASE NoCommand
    BY <1>4 DEF NoCommand, Available, sketchVars, pinVars, serialVars
  <1>5. CASE LoopLow
    BY <1>5 DEF LoopLow, ClockLow, sketchVars, pinVars, serialVars
  <1>6. CASE LoopHigh
    BY <1>6 DEF LoopHigh, ClockHigh, sketchVars, pinVars, serialVars
  <1>7. CASE PullReset
    BY <1>7 DEF PullReset, ResetLow, sketchVars, pinVars, serialVars
  <1>8. CASE ReleaseReset
    BY <1>8 DEF ReleaseReset, ResetHigh, sketchVars, pinVars, serialVars
  <1>9. CASE ResetDone
    BY <1>9 DEF ResetDone, sketchVars, pinVars, serialVars
  <1>10. CASE DropOne
    BY <1>10 DEF DropOne, Available, sketchVars, pinVars, serialVars
  <1>11. CASE DropDone
    BY <1>11 DEF DropDone, Available, sketchVars, pinVars, serialVars
  <1>12. CASE StepLow
    BY <1>12 DEF StepLow, ClockLow, sketchVars, pinVars, serialVars
  <1>13. CASE StepHigh
    BY <1>13 DEF StepHigh, ClockHigh, sketchVars, pinVars, serialVars
  <1>14. CASE FastHigh
    BY <1>14 DEF FastHigh, ClockHigh, sketchVars, pinVars, serialVars
  <1>15. CASE Modes
    BY <1>15 DEF Modes, ClockLow, sketchVars, pinVars, serialVars
  <1>16. CASE UNCHANGED vars
    BY <1>16 DEF vars, sketchVars, pinVars, serialVars
  <1> QED
    BY <1>1, <1>2, <1>3, <1>4, <1>5, <1>6, <1>7, <1>8, <1>9,
       <1>10, <1>11, <1>12, <1>13, <1>14, <1>15, <1>16
    DEF Next, Sketch, Serial

-----------------------------------------------------------------------------
(* The reports. *)
LEMMA ReportedStep == ASSUME IInv, [Next]_vars PROVE Reported'
  <1> USE DEF IInv, Loops, InModes, ModesExclusive, Reported, ReportCurrent, Points, ResetLoops, TypeOK
  <1>1. ASSUME NEW ch \in Commands \cup {Other}, Arrive(ch) PROVE Reported'
    BY <1>1 DEF Arrive, sketchVars, pinVars, serialVars
  <1>2. CASE Setup
    BY <1>2 DEF Counted, InModes, Setup, sketchVars, pinVars, serialVars
  <1>3. CASE ReadCommand
    BY <1>3 DEF ReadCommand, Available, EntryOf, CyclesOf, sketchVars, pinVars, serialVars
  <1>4. CASE NoCommand
    BY <1>4 DEF NoCommand, Available, sketchVars, pinVars, serialVars
  <1>5. CASE LoopLow
    BY <1>5 DEF LoopLow, ClockLow, sketchVars, pinVars, serialVars
  <1>6. CASE LoopHigh
    BY <1>6 DEF LoopHigh, ClockHigh, sketchVars, pinVars, serialVars
  <1>7. CASE PullReset
    BY <1>7 DEF PullReset, ResetLow, sketchVars, pinVars, serialVars
  <1>8. CASE ReleaseReset
    BY <1>8 DEF ReleaseReset, ResetHigh, sketchVars, pinVars, serialVars
  <1>9. CASE ResetDone
    BY <1>9 DEF ResetDone, sketchVars, pinVars, serialVars
  <1>10. CASE DropOne
    BY <1>10 DEF DropOne, Available, sketchVars, pinVars, serialVars
  <1>11. CASE DropDone
    BY <1>11 DEF DropDone, Available, sketchVars, pinVars, serialVars
  <1>12. CASE StepLow
    BY <1>12 DEF StepLow, ClockLow, sketchVars, pinVars, serialVars
  <1>13. CASE StepHigh
    BY <1>13 DEF StepHigh, ClockHigh, sketchVars, pinVars, serialVars
  <1>14. CASE FastHigh
    BY <1>14 DEF FastHigh, ClockHigh, sketchVars, pinVars, serialVars
  <1>15. CASE Modes
    BY <1>15 DEF Modes, ClockLow, sketchVars, pinVars, serialVars
  <1>16. CASE UNCHANGED vars
    BY <1>16 DEF vars, sketchVars, pinVars, serialVars
  <1> QED
    BY <1>1, <1>2, <1>3, <1>4, <1>5, <1>6, <1>7, <1>8, <1>9,
       <1>10, <1>11, <1>12, <1>13, <1>14, <1>15, <1>16
    DEF Next, Sketch, Serial

-----------------------------------------------------------------------------
(* The buffer. *)
LEMMA DroppedStep == ASSUME IInv, [Next]_vars PROVE Dropped'
  <1> USE DEF IInv, Dropped, InCommand, ResetLoops, TypeOK
  <1>1. ASSUME NEW ch \in Commands \cup {Other}, Arrive(ch) PROVE Dropped'
    <2>1. CASE InCommand \/ pc = "drop"
      BY <1>1, <2>1 DEF Arrive, sketchVars, pinVars
    <2>2. CASE ~InCommand /\ pc # "drop"
      <3>1. \A i \in DOMAIN buffer' : ~buffer'[i][2]
        BY <1>1, <2>2, Appended
      <3> QED BY <3>1
    <2> QED BY <2>1, <2>2
  <1>2. CASE Setup
    BY <1>2 DEF Setup, sketchVars, pinVars, serialVars
  <1>3. CASE ReadCommand
    BY <1>3 DEF ReadCommand, Available, EntryOf, CyclesOf, sketchVars, pinVars, serialVars
  <1>4. CASE NoCommand
    BY <1>4 DEF NoCommand, Available, sketchVars, pinVars, serialVars
  <1>5. CASE LoopLow
    BY <1>5 DEF LoopLow, ClockLow, sketchVars, pinVars, serialVars
  <1>6. CASE LoopHigh
    BY <1>6 DEF LoopHigh, ClockHigh, sketchVars, pinVars, serialVars
  <1>7. CASE PullReset
    BY <1>7 DEF PullReset, ResetLow, sketchVars, pinVars, serialVars
  <1>8. CASE ReleaseReset
    BY <1>8 DEF ReleaseReset, ResetHigh, sketchVars, pinVars, serialVars
  <1>9. CASE ResetDone
    BY <1>9 DEF ResetDone, sketchVars, pinVars, serialVars
  <1>10. CASE DropOne
    BY <1>10 DEF DropOne, Available, sketchVars, pinVars, serialVars
  <1>11. CASE DropDone
    BY <1>11 DEF DropDone, Available, sketchVars, pinVars, serialVars
  <1>12. CASE StepLow
    BY <1>12 DEF StepLow, ClockLow, sketchVars, pinVars, serialVars
  <1>13. CASE StepHigh
    BY <1>13 DEF StepHigh, ClockHigh, sketchVars, pinVars, serialVars
  <1>14. CASE FastHigh
    BY <1>14 DEF FastHigh, ClockHigh, sketchVars, pinVars, serialVars
  <1>15. CASE Modes
    BY <1>15 DEF Modes, ClockLow, sketchVars, pinVars, serialVars
  <1>16. CASE UNCHANGED vars
    BY <1>16 DEF vars, sketchVars, pinVars, serialVars
  <1> QED
    BY <1>1, <1>2, <1>3, <1>4, <1>5, <1>6, <1>7, <1>8, <1>9,
       <1>10, <1>11, <1>12, <1>13, <1>14, <1>15, <1>16
    DEF Next, Sketch, Serial

-----------------------------------------------------------------------------
(* The types. *)
LEMMA TypeStep == ASSUME IInv, [Next]_vars PROVE TypeOK'
  <1> USE DEF IInv, TypeOK, Points, ResetLoops, Pins, Loops, Counted, Asked, ModeCycles,
          Commands, Other, ResetCycles, BeforeReset, DuringReset, AfterReset
  <1>1. ASSUME NEW ch \in Commands \cup {Other}, Arrive(ch) PROVE TypeOK'
    <2>1. buffer' \in Seq((Commands \cup {Other}) \X BOOLEAN) /\ Len(buffer') <= BufferSize
      BY <1>1, Appended DEF IInv
    <2>2. arrivals' \in 0 .. MaxArrivals /\ UNCHANGED <<sketchVars, pinVars, report>>
      BY <1>1, SerialAssumption DEF Arrive, IInv, TypeOK
    <2> HIDE DEF IInv
    <2> QED BY <2>1, <2>2 DEF IInv, TypeOK, sketchVars, pinVars
  <1>2. CASE Setup
    BY <1>2 DEF Setup, sketchVars, pinVars, serialVars
  <1>3. CASE ReadCommand
    <2>1. /\ buffer' \in Seq((Commands \cup {Other}) \X BOOLEAN)
          /\ Len(buffer') <= BufferSize
          /\ command' \in Commands \cup {Other}
      BY <1>3, Taken DEF ReadCommand, Available, IInv
    <2>2. pc' \in Points /\ n' \in 0 .. DuringReset
      <3> DEFINE ch == command'
      <3>1. /\ pc' = IF ch \in DOMAIN EntryOf THEN EntryOf[ch] ELSE "drop"
            /\ n' = IF ch \in DOMAIN CyclesOf THEN CyclesOf[ch] ELSE 0
        BY <1>3 DEF ReadCommand
      <3> HIDE DEF ch, IInv, TypeOK
      <3>2. pc' \in {"reset_before", "step_low", "drop"} /\ n' \in {0, BeforeReset}
        BY <3>1 DEF EntryOf, CyclesOf
      <3> QED BY <3>2
    <2>3. continuousMode' \in BOOLEAN /\ freeRunMode' \in BOOLEAN
      BY <1>3 DEF ReadCommand
    <2>4. report' \in {<< >>} \cup {<<b>> : b \in Bus}
      BY <1>3 DEF ReadCommand
    <2> QED BY <1>3, <2>1, <2>2, <2>3, <2>4 DEF ReadCommand
  <1>4. CASE NoCommand
    BY <1>4 DEF NoCommand, Available, sketchVars, pinVars, serialVars
  <1>5. CASE LoopLow
    BY <1>5 DEF LoopLow, ClockLow, sketchVars, pinVars, serialVars
  <1>6. CASE LoopHigh
    <2>1. n > 0 /\ clk = "low"
      BY <1>6 DEF LoopHigh, ClockHigh
    <2>2. n' \in 0 .. DuringReset /\ cycles' \in 0 .. ResetCycles + 1
      BY <1>6, <2>1 DEF LoopHigh, ClockHigh
    <2>3. lowCycles' \in 0 .. DuringReset
      BY <1>6, <2>1 DEF LoopHigh, ClockHigh
    <2> QED BY <1>6, <2>2, <2>3 DEF LoopHigh, ClockHigh, serialVars
  <1>7. CASE PullReset
    BY <1>7 DEF PullReset, ResetLow, sketchVars, pinVars, serialVars
  <1>8. CASE ReleaseReset
    BY <1>8 DEF ReleaseReset, ResetHigh, sketchVars, pinVars, serialVars
  <1>9. CASE ResetDone
    BY <1>9 DEF ResetDone, sketchVars, pinVars, serialVars
  <1>10. CASE DropOne
    BY <1>10, Taken DEF DropOne, Available, sketchVars, pinVars, serialVars
  <1>11. CASE DropDone
    BY <1>11 DEF DropDone, Available, sketchVars, pinVars, serialVars
  <1>12. CASE StepLow
    BY <1>12 DEF StepLow, ClockLow, sketchVars, pinVars, serialVars
  <1>13. CASE StepHigh
    BY <1>13 DEF StepHigh, ClockHigh, sketchVars, pinVars, serialVars
  <1>14. CASE FastHigh
    BY <1>14 DEF FastHigh, ClockHigh, sketchVars, pinVars, serialVars
  <1>15. CASE Modes
    BY <1>15 DEF Modes, ClockLow, sketchVars, pinVars, serialVars
  <1>16. CASE UNCHANGED vars
    BY <1>16 DEF vars, sketchVars, pinVars, serialVars
  <1> QED
    BY <1>1, <1>2, <1>3, <1>4, <1>5, <1>6, <1>7, <1>8, <1>9,
       <1>10, <1>11, <1>12, <1>13, <1>14, <1>15, <1>16
    DEF Next, Sketch, Serial

-----------------------------------------------------------------------------
LEMMA Invariance == Spec => []IInv
  <1>1. Init => IInv
    BY InitInv
  <1>2. IInv /\ [Next]_vars => IInv'
    BY PinsStep, LoopsStep, InModesStep, CountedStep, ReportedStep,
       DroppedStep, TypeStep DEF IInv
  <1> QED BY <1>1, <1>2, PTL DEF Spec

(* Types (globals and locals of the sketch). *)
THEOREM SketchTypes == Spec => []TypeOK
  <1>1. IInv => TypeOK
    BY DEF IInv
  <1> QED BY <1>1, Invariance, PTL

(* Continuous and free-run mode exclude each other (lines 243, 267).       *)
THEOREM SketchModes == Spec => []ModesExclusive
  <1>1. IInv => ModesExclusive
    BY DEF IInv, InModes
  <1> QED BY <1>1, Invariance, PTL

(* The clock runs free only over a properly reset target (line 264).       *)
THEOREM SketchFreeRunReset == Spec => []FreeRunReset
  <1>1. IInv => FreeRunReset
    BY DEF IInv, InModes, FreeRunReset
  <1> QED BY <1>1, Invariance, PTL

(* Exactly the cycles asked for (lines 163-219).                           *)
THEOREM SketchCycles == Spec => []RoundCycles
  <1>1. IInv => RoundCycles
    BY DEF IInv, Counted, Asked, ModeCycles, RoundCycles, ResetCycles,
           BeforeReset, DuringReset, AfterReset
  <1> QED BY <1>1, Invariance, PTL

(* Both lines idle high (line 196).                                        *)
THEOREM SketchIdle == Spec => []IdleHigh
  <1>1. IInv => IdleHigh
    BY DEF IInv, Pins, Between, IdleHigh
  <1> QED BY <1>1, Invariance, PTL

(* The report is of the cycle that is on the buses (lines 208-215).        *)
THEOREM SketchReports == Spec => []ReportCurrent
  <1>1. IInv => ReportCurrent
    BY DEF IInv, Reported
  <1> QED BY <1>1, Invariance, PTL

(* What arrives during a command never becomes one (line 294).             *)
THEOREM SketchDrops == Spec => []NoBacklog
  <1>1. IInv => NoBacklog
    BY DEF IInv, Dropped, InCommand, ResetLoops, NoBacklog
  <1> QED BY <1>1, Invariance, PTL

(* RESB is low for two cycles at least (lines 156-179).                    *)
THEOREM SketchResets == Spec => ResetLongEnough
  <1>1. IInv /\ [Next]_vars =>
            [resb = "low" /\ resb' = "high" /\ pc # "setup" => lowCycles >= MinLow]_vars
    <2> SUFFICES ASSUME IInv, [Next]_vars, resb = "low", resb' = "high", pc # "setup"
                 PROVE  lowCycles >= MinLow
      OBVIOUS
    <2>1. pc = "reset_during" /\ (n = 0 => lowCycles = DuringReset)
      BY DEF IInv, Pins, Loops, TypeOK, DuringReset
    <2>2. n = 0
      BY <2>1, PinsStep
      DEF Next, Sketch, Serial, Arrive, Setup, ReadCommand, NoCommand, LoopLow,
          LoopHigh, PullReset, ReleaseReset, ResetDone, DropOne, DropDone, StepLow,
          StepHigh, FastHigh, Modes, ClockLow, ClockHigh, ResetLow, ResetHigh,
          vars, sketchVars, pinVars, serialVars
    <2> QED BY <2>1, <2>2 DEF DuringReset, MinLow
  <1> QED BY <1>1, Invariance, PTL DEF Spec, ResetLongEnough

(* 'c' leads from free run to continuous mode (lines 243-244, 267-268).    *)
THEOREM SketchLeavesFreeRun == Spec => LeavesFreeRun
  <1>1. IInv /\ [Next]_vars => [freeRunMode /\ ~freeRunMode' => continuousMode']_vars
    <2> SUFFICES ASSUME IInv, [Next]_vars, freeRunMode, ~freeRunMode'
                 PROVE  continuousMode'
      OBVIOUS
    <2>1. ~continuousMode
      BY DEF IInv, InModes, ModesExclusive
    <2>2. CASE ReadCommand
      BY <2>1, <2>2, Zenon DEF ReadCommand
    <2>3. CASE ~ReadCommand
      <3>1. freeRunMode'
        BY <2>3, Zenon
        DEF Next, Sketch, Serial, Arrive, Setup, NoCommand, LoopLow, LoopHigh, PullReset,
            ReleaseReset, ResetDone, DropOne, DropDone, StepLow, StepHigh, FastHigh,
            Modes, vars, sketchVars
      <3> QED BY <3>1
    <2> QED BY <2>2, <2>3
  <1> QED BY <1>1, Invariance, PTL DEF Spec, LeavesFreeRun
=============================================================================
