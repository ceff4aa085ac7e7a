-------------------------- MODULE LcdDriver_proofs --------------------------
(***************************************************************************)
(* Proofs about roms/prog.s for every ROM page and every number of resets. *)
(*                                                                         *)
(* The inductive invariant says, for each point of the program, what the   *)
(* 65C22's registers hold (Registers), from where on the busy flag is      *)
(* known to be clear (Clear), and which frames are on the stack (Frames).  *)
(***************************************************************************)
EXTENDS LcdDriver, SequenceTheorems, TLAPS

Outputs == E + RW + RS

(* Points where port B is an output and E is low, R/W low as well.         *)
Resting == (MainPoints \ {"reset", "ddra"}) \cup
               {"lcd_instruction", "print_char", "lcd_wait"}
(* Points between the successful poll and the pulse on E. *)
Granted == {"wait_rts", "li_data", "li_clear", "pc_data", "pc_select"}
Polling == {"busy_read", "busy_test", "wait_disable"}

Registers ==
    /\ pc = "reset" => ddra = 0 /\ ora = 0 /\ ddrb = 0
    /\ pc = "ddra" => ddra = 0 /\ ora = 0
    /\ pc \notin {"reset", "ddra"} => ddra = Outputs
    /\ pc \in {"lcd_busy", "busy_enable", "wait_output"} \cup Polling => ddrb = 0
    /\ pc \notin {"reset", "lcd_busy", "busy_enable", "wait_output"} \cup Polling
           => ddrb = 255
    /\ pc \in Resting \cup {"li_enable", "li_rts", "pc_enable", "pc_rts"}
           => ora \in {0, RS}
    /\ pc = "lcd_busy" => ora \in {0, RS, RW, RW + E}
    /\ pc \in {"busy_enable", "wait_output"} \cup Granted => ora = RW
    /\ pc \in Polling => ora = RW + E
    /\ pc = "li_enable" => ora = 0
    /\ pc = "li_disable" => ora = E
    /\ pc = "pc_enable" => ora = RS
    /\ pc = "pc_disable" => ora = RS + E

Clear ==
    /\ ~lost
    /\ pc = "busy_test" /\ a = 0 => ~busy
    /\ pc \in Granted \cup {"wait_disable", "wait_output", "li_enable",
                            "li_disable", "pc_enable", "pc_disable"} => ~busy

Callers == {"cmd2", "cmd3", "cmd4", "data"}

(* A return address in the cells i and j. *)
Address(i, j, point) == stack[i] = RetCell(point) /\ stack[j] = RetCell(point)

(* What is above the stack pointer in each of the routines. *)
InstructionFrame == \E r \in Callers : Address(255, 254, r)
PrintFrame == Address(255, 254, "printed")
WaitFrame ==
    \/ InstructionFrame /\ Address(253, 252, "li_data")
    \/ PrintFrame /\ Address(253, 252, "pc_data")

Frames ==
    /\ pc \in MainPoints \ {"reset"} => sp = 255
    /\ pc \in InstructionPoints => sp = 253 /\ InstructionFrame
    /\ pc \in PrintPoints => sp = 253 /\ PrintFrame
    /\ pc = "lcd_wait" => sp = 251 /\ WaitFrame
    /\ pc \in WaitPoints \ {"lcd_wait"} =>
           /\ sp = 250 /\ WaitFrame
           /\ \E v \in Byte : stack[251] = ByteCell(v)

IInv == TypeOK /\ Registers /\ Clear /\ Frames

-----------------------------------------------------------------------------
(* The levels of the control pins for the values the program writes. *)
LEMMA PinTable ==
    /\ \A v \in Byte, b \in {E, RW, RS} : Pin(0, v, b) = "floating"
    /\ \A v \in Byte, b \in {E, RW, RS} : Pin(Outputs, v, b) # "floating"
    /\ \A v \in {0, RS, RW} : Pin(Outputs, v, E) = "low"
    /\ \A v \in {E, RW + E, RS + E} : Pin(Outputs, v, E) = "high"
    /\ \A v \in {0, RS, E, RS + E} : Pin(Outputs, v, RW) = "low"
    /\ \A v \in {RW, RW + E} : Pin(Outputs, v, RW) = "high"
    /\ \A v \in {0, E, RW, RW + E} : Pin(Outputs, v, RS) = "low"
    /\ \A v \in {RS, RS + E} : Pin(Outputs, v, RS) = "high"
  BY DEF Pin, High, Outputs, E, RW, RS, Byte

(* The invariant holds when power comes on. *)
LEMMA InitIInv == Init => IInv
<1> SUFFICES ASSUME Init PROVE IInv
  OBVIOUS
<1>1. received \in Seq({0, 1} \X (Byte \cup {Garbage}))
  BY EmptySeq DEF Init, BusInit
<1>2. stack \in [Byte -> Cell]
  <2>1. ByteCell(0) \in Cell
    BY DEF ByteCell, Cell, Byte
  <2> QED BY <2>1 DEF Init
<1>3. TypeOK
  <2>1. busy \in BOOLEAN /\ lost \in BOOLEAN
    BY DEF Init, BusInit
  <2>2. pc \in Points /\ resets \in 0 .. MaxResets
    BY MaxResetsAssumption DEF Init, Points, MainPoints
  <2>3. /\ orb \in Byte /\ ora \in Byte /\ ddrb \in Byte /\ ddra \in Byte
        /\ a \in Byte /\ x \in Byte /\ sp \in Byte
    BY DEF Init, BusInit, Byte
  <2> QED BY <1>1, <1>2, <2>1, <2>2, <2>3 DEF TypeOK
<1>4. Registers /\ Clear
  BY DEF Init, BusInit, Registers, Clear, Resting, Granted, Polling, MainPoints
<1>5. Frames
  BY DEF Init, Frames, MainPoints, InstructionPoints, PrintPoints, WaitPoints
<1> QED BY <1>3, <1>4, <1>5 DEF IInv

(* The stack pointer at each depth the program reaches. *)
LEMMA Depths ==
    /\ Down(255, 1) = 254 /\ Down(255, 2) = 253
    /\ Down(253, 1) = 252 /\ Down(253, 2) = 251 /\ Down(251, 1) = 250
    /\ Up(250, 1) = 251 /\ Up(250, 2) = 252 /\ Up(250, 3) = 253
    /\ Up(253, 1) = 254 /\ Up(253, 2) = 255
  BY DEF Down, Up

(* Every rts finds the address its jsr pushed. *)
LEMMA Returns ==
  ASSUME Frames
  PROVE  /\ WaitReturn => pc' \in {"li_data", "pc_data"}
         /\ InstructionReturn => pc' \in Callers
         /\ PrintReturn => pc' = "printed"
<1> USE Depths DEF Frames, Address, RetCell, ReturnTo
<1>1. WaitReturn => pc' \in {"li_data", "pc_data"}
  BY DEF WaitReturn, WaitFrame, WaitPoints
<1>2. InstructionReturn => pc' \in Callers
  BY DEF InstructionReturn, Return1, Return, InstructionFrame, InstructionPoints
<1>3. PrintReturn => pc' = "printed"
  BY DEF PrintReturn, Return1, Return, PrintFrame, PrintPoints
<1> QED BY <1>1, <1>2, <1>3

(* What the 65C22's registers hold moves with the program. *)
LEMMA RegistersStep == IInv /\ [Next]_vars => Registers'
<1> SUFFICES ASSUME IInv, [Next]_vars PROVE Registers'
  OBVIOUS
<1> USE DEF IInv, Registers, Resting, Granted, Polling, MainPoints
<1>1. CASE SetStack
  BY <1>1 DEF SetStack, StoreDDRB
<1>2. CASE SetDDRA
  BY <1>2 DEF SetDDRA, Load, StoreDDRA, Outputs
<1>3. CASE Configure
  BY <1>3 DEF Configure, Command, Call, busVars
<1>4. CASE WriteData \/ PrintNext \/ PrintEnd \/ Printed
  BY <1>4 DEF WriteData, PrintNext, PrintEnd, Printed, Load, Call, busVars
<1>5. CASE Wait
  BY <1>5, Returns DEF Wait, WaitInput, BusySetup, BusyEnable, BusyRead, BusyTest,
     WaitDisable, WaitOutput, WaitReturn, StorePORTA, StoreDDRB, Load, busVars
<1>6. CASE Instruction
  BY <1>6, Returns DEF Instruction, InstructionWait, InstructionData, InstructionClear,
     InstructionEnable, InstructionDisable, InstructionReturn, CallWait, Present,
     Return1, Call, StorePORTA, StorePORTB, Load, busVars, Callers
<1>7. CASE PrintChar
  BY <1>7, Returns DEF PrintChar, PrintWait, PrintData, PrintSelect, PrintEnable,
     PrintDisable, PrintReturn, CallWait, Present, Return1, Call, StorePORTA, StorePORTB,
     Load, busVars
<1>8. CASE Lcd
  BY <1>8 DEF Lcd, LcdFinish, LcdNoise, cpuVars
<1>9. CASE Reset
  BY <1>9 DEF Reset, ResetVia
<1>10. CASE Loop \/ UNCHANGED vars
  BY <1>10 DEF Loop, vars, busVars, cpuVars
<1> QED
  BY <1>1, <1>2, <1>3, <1>4, <1>5, <1>6, <1>7, <1>8, <1>9, <1>10
     DEF Next, Cpu, Main

(* Only a latch, which the program follows with a new poll, and floating    *)
(* pins make the LCD busy.                                                 *)
LEMMA ClearStep == IInv /\ [Next]_vars => Clear'
<1> SUFFICES ASSUME IInv, [Next]_vars PROVE Clear'
  OBVIOUS
<1> USE DEF IInv, Clear, Granted, Polling
<1>1. CASE SetStack
  BY <1>1 DEF SetStack, StoreDDRB
<1>2. CASE SetDDRA
  BY <1>2 DEF SetDDRA, Load, StoreDDRA
<1>3. CASE Configure
  BY <1>3 DEF Configure, Command, Call, busVars
<1>4. CASE WriteData \/ PrintNext \/ PrintEnd \/ Printed
  BY <1>4 DEF WriteData, PrintNext, PrintEnd, Printed, Load, Call, busVars
<1>5. CASE Wait
  <2> USE DEF Load, busVars
  <2>1. CASE WaitInput
    BY <2>1 DEF WaitInput, StoreDDRB, Push
  <2>2. CASE BusySetup \/ BusyEnable
    BY <2>2, PinTable DEF BusySetup, BusyEnable, StorePORTA, FallsTo, EnableUp, Reading,
       Registers, Byte, E, RW, RS
  <2>3. CASE BusyRead
    BY <2>3, PinTable DEF BusyRead, Bit7OfPORTB, LcdDrives, EnableUp, Reading, DataReg,
       Registers, High
  <2>4. CASE BusyTest
    BY <2>4 DEF BusyTest
  <2>5. CASE WaitDisable
    BY <2>5, PinTable DEF WaitDisable, StorePORTA, FallsTo, EnableUp, Reading, Registers
  <2>6. CASE WaitOutput
    BY <2>6 DEF WaitOutput, StoreDDRB
  <2>7. CASE WaitReturn
    BY <2>7, Returns DEF WaitReturn
  <2> QED BY <1>5, <2>1, <2>2, <2>3, <2>4, <2>5, <2>6, <2>7 DEF Wait
<1>6. CASE Instruction
  BY <1>6, PinTable, Returns DEF Instruction, InstructionWait, InstructionData,
     InstructionClear, InstructionEnable, InstructionDisable, InstructionReturn, CallWait,
     Present, Return1, Call, StorePORTA, StorePORTB, Load, busVars, FallsTo, EnableUp,
     Reading, Latch, Registers, Callers
<1>7. CASE PrintChar
  BY <1>7, PinTable, Returns DEF PrintChar, PrintWait, PrintData, PrintSelect, PrintEnable,
     PrintDisable, PrintReturn, CallWait, Present, Return1, Call, StorePORTA, StorePORTB,
     FallsTo, EnableUp, Reading, Latch, Registers, Load, busVars
<1>8. CASE Lcd
  BY <1>8, PinTable DEF Lcd, LcdFinish, LcdNoise, Driven, Registers, TypeOK, cpuVars
<1>9. CASE Reset
  BY <1>9 DEF Reset, ResetVia
<1>10. CASE Loop \/ UNCHANGED vars
  BY <1>10 DEF Loop, vars, busVars, cpuVars
<1> QED
  BY <1>1, <1>2, <1>3, <1>4, <1>5, <1>6, <1>7, <1>8, <1>9, <1>10
     DEF Next, Cpu, Main

(* A call stores its return address and leaves the rest of the stack. *)
LEMMA CallStores ==
  ASSUME NEW sub, NEW ret \in Points, stack \in [Byte -> Cell], sp \in Byte,
         Call(sub, ret)
  PROVE  /\ stack' \in [Byte -> Cell]
         /\ stack'[sp] = RetCell(ret) /\ stack'[Down(sp, 1)] = RetCell(ret)
         /\ \A i \in Byte : i # sp /\ i # Down(sp, 1) => stack'[i] = stack[i]
<1>1. RetCell(ret) \in Cell
  BY DEF RetCell, Cell
<1>2. Down(sp, 1) \in Byte /\ Down(sp, 1) # sp
  BY DEF Down, Byte
<1> QED BY <1>1, <1>2 DEF Call

(* Every call and return moves the stack from one frame to the next. *)
LEMMA FramesStep == IInv /\ [Next]_vars => Frames'
<1> SUFFICES ASSUME IInv, [Next]_vars PROVE Frames'
  OBVIOUS
<1> USE DEF IInv, Frames, WaitFrame, InstructionFrame, PrintFrame, Address,
            MainPoints, InstructionPoints, PrintPoints, WaitPoints
<1>t. stack \in [Byte -> Cell] /\ sp \in Byte /\ a \in Byte
  BY DEF TypeOK
<1>1. CASE SetStack \/ SetDDRA
  BY <1>1 DEF SetStack, SetDDRA, Load
<1>2. CASE Configure
  <2>1. PICK ret \in Callers : sp = 255 /\ pc' = "lcd_instruction" /\ Call("lcd_instruction", ret)
    BY <1>2 DEF Configure, Command, Callers, Call
  <2>2. stack'[sp] = RetCell(ret) /\ stack'[Down(sp, 1)] = RetCell(ret)
    <3>1. ret \in Points
      BY DEF Callers, Points
    <3> QED BY <2>1, <3>1, <1>t, CallStores
  <2>3. sp' = 253
    BY <2>1, Depths DEF Call
  <2> QED BY <2>1, <2>2, <2>3, Depths
<1>3. CASE PrintNext
  <2>1. sp = 255 /\ pc' = "print_char" /\ Call("print_char", "printed")
    BY <1>3 DEF PrintNext, Call
  <2>2. stack'[sp] = RetCell("printed") /\ stack'[Down(sp, 1)] = RetCell("printed")
    <3>1. "printed" \in Points
      BY DEF Points
    <3> QED BY <2>1, <3>1, <1>t, CallStores
  <2>3. sp' = 253
    BY <2>1, Depths DEF Call
  <2> QED BY <2>1, <2>2, <2>3, Depths
<1>4. CASE WriteData \/ PrintEnd \/ Printed
  BY <1>4 DEF WriteData, PrintEnd, Printed, Load
<1>5. CASE WaitInput
  <2>1. /\ sp' = 250 /\ stack'[251] = ByteCell(a)
        /\ stack'[252] = stack[252] /\ stack'[253] = stack[253]
        /\ stack'[254] = stack[254] /\ stack'[255] = stack[255]
    BY <1>5, <1>t, Depths DEF WaitInput, Push, Byte
  <2> QED BY <1>5, <1>t, <2>1 DEF WaitInput
<1>6. CASE BusySetup \/ BusyEnable \/ BusyRead \/ BusyTest \/ WaitDisable \/ WaitOutput
  BY <1>6 DEF BusySetup, BusyEnable, BusyRead, BusyTest, WaitDisable, WaitOutput, Load
<1>7. CASE WaitReturn
  BY <1>7, Depths DEF WaitReturn, ReturnTo, RetCell
<1>8. CASE InstructionWait
  <2>1. sp = 253 /\ pc' = "lcd_wait" /\ Call("lcd_wait", "li_data") /\ InstructionFrame
    BY <1>8 DEF InstructionWait, CallWait, Call
  <2>2. /\ 255 \in Byte /\ 255 # sp /\ 255 # Down(sp, 1)
        /\ 254 \in Byte /\ 254 # sp /\ 254 # Down(sp, 1)
    BY <2>1, Depths DEF Byte
  <2>3. /\ stack'[sp] = RetCell("li_data") /\ stack'[Down(sp, 1)] = RetCell("li_data")
        /\ \A i \in Byte : i # sp /\ i # Down(sp, 1) => stack'[i] = stack[i]
    <3>1. "li_data" \in Points
      BY DEF Points
    <3> QED BY <2>1, <3>1, <1>t, CallStores
  <2>4. /\ stack'[253] = RetCell("li_data") /\ stack'[252] = RetCell("li_data")
        /\ stack'[254] = stack[254] /\ stack'[255] = stack[255]
    BY <2>1, <2>2, <2>3, Depths
  <2>5. sp' = 251
    BY <2>1, Depths DEF Call
  <2>6. WaitFrame'
    BY <2>1, <2>4
  <2> QED BY <2>1, <2>5, <2>6
<1>9. CASE PrintWait
  <2>1. sp = 253 /\ pc' = "lcd_wait" /\ Call("lcd_wait", "pc_data") /\ PrintFrame
    BY <1>9 DEF PrintWait, CallWait, Call
  <2>2. /\ 255 \in Byte /\ 255 # sp /\ 255 # Down(sp, 1)
        /\ 254 \in Byte /\ 254 # sp /\ 254 # Down(sp, 1)
    BY <2>1, Depths DEF Byte
  <2>3. /\ stack'[sp] = RetCell("pc_data") /\ stack'[Down(sp, 1)] = RetCell("pc_data")
        /\ \A i \in Byte : i # sp /\ i # Down(sp, 1) => stack'[i] = stack[i]
    <3>1. "pc_data" \in Points
      BY DEF Points
    <3> QED BY <2>1, <3>1, <1>t, CallStores
  <2>4. /\ stack'[253] = RetCell("pc_data") /\ stack'[252] = RetCell("pc_data")
        /\ stack'[254] = stack[254] /\ stack'[255] = stack[255]
    BY <2>1, <2>2, <2>3, Depths
  <2>5. sp' = 251
    BY <2>1, Depths DEF Call
  <2>6. WaitFrame'
    BY <2>1, <2>4
  <2> QED BY <2>1, <2>5, <2>6
<1>10. CASE \/ InstructionData \/ InstructionClear \/ InstructionEnable \/ InstructionDisable
            \/ PrintData \/ PrintSelect \/ PrintEnable \/ PrintDisable
  BY <1>10 DEF InstructionData, InstructionClear, InstructionEnable, InstructionDisable,
               PrintData, PrintSelect, PrintEnable, PrintDisable, Present, Load
<1>11. CASE InstructionReturn \/ PrintReturn
  BY <1>11, Depths DEF InstructionReturn, PrintReturn, Return1, Return, ReturnTo, RetCell,
                       Callers
<1>12. CASE Lcd
  BY <1>12 DEF Lcd, cpuVars
<1>13. CASE Reset
  BY <1>13 DEF Reset
<1>14. CASE Loop \/ UNCHANGED vars
  BY <1>14 DEF Loop, vars, cpuVars
<1> QED
  BY <1>1, <1>2, <1>3, <1>4, <1>5, <1>6, <1>7, <1>8, <1>9, <1>10, <1>11, <1>12,
     <1>13, <1>14 DEF Next, Cpu, Main, Wait, Instruction, PrintChar

(* The part of TypeOK that LcdBus owns; every store of a byte keeps it. *)
BusTypes ==
    /\ orb \in Byte /\ ora \in Byte /\ ddrb \in Byte /\ ddra \in Byte
    /\ busy \in BOOLEAN /\ lost \in BOOLEAN
    /\ received \in Seq({0, 1} \X (Byte \cup {Garbage}))

LEMMA StoreTypes ==
  ASSUME BusTypes, NEW v \in Byte,
         StorePORTA(v) \/ StorePORTB(v) \/ StoreDDRA(v) \/ StoreDDRB(v)
  PROVE  BusTypes'
<1>1. CASE StorePORTB(v) \/ StoreDDRB(v)
  BY <1>1 DEF StorePORTB, StoreDDRB, BusTypes
<1>2. CASE StoreDDRA(v)
  BY <1>2 DEF StoreDDRA, BusTypes
<1>3. CASE StorePORTA(v)
  <2>1. CASE Latch
    <3>1. <<IF DataReg THEN 1 ELSE 0, DataBus>> \in {0, 1} \X (Byte \cup {Garbage})
      BY DEF DataBus, BusTypes
    <3>2. received' \in Seq({0, 1} \X (Byte \cup {Garbage}))
      <4> DEFINE item == <<IF DataReg THEN 1 ELSE 0, DataBus>>
      <4>1. received' = received \/ received' = Append(received, item)
        BY <2>1 DEF Latch
      <4>2. item \in {0, 1} \X (Byte \cup {Garbage})
        BY <3>1
      <4> HIDE DEF item
      <4> QED BY <4>1, <4>2 DEF BusTypes
    <3>3. busy' \in BOOLEAN /\ lost' \in BOOLEAN
      BY <2>1 DEF Latch, BusTypes
    <3> QED BY <1>3, <3>2, <3>3 DEF StorePORTA, BusTypes
  <2>2. CASE UNCHANGED <<busy, received, lost>>
    BY <1>3, <2>2 DEF StorePORTA, BusTypes
  <2> QED BY <1>3, <2>1, <2>2 DEF StorePORTA
<1> QED BY <1>1, <1>2, <1>3

(* Every access the program makes stores a byte. *)
LEMMA BusTypesStep == IInv /\ [Next]_vars => BusTypes'
<1> SUFFICES ASSUME IInv, [Next]_vars PROVE BusTypes'
  OBVIOUS
<1>1. BusTypes /\ a \in Byte
  BY DEF IInv, TypeOK, BusTypes
<1>2. CASE \E v \in Byte : StorePORTA(v) \/ StorePORTB(v) \/ StoreDDRA(v) \/ StoreDDRB(v)
  BY <1>1, <1>2, StoreTypes
<1>3. CASE UNCHANGED busVars
  BY <1>1, <1>3 DEF BusTypes, busVars
<1>4. CASE Lcd
  BY <1>1, <1>4 DEF BusTypes, Lcd, LcdFinish, LcdNoise
<1>5. CASE Reset
  <2>1. (received \in Seq({0, 1} \X (Byte \cup {Garbage})))'
    BY <1>5, EmptySeq DEF Reset, ResetVia
  <2>2. (busy \in BOOLEAN /\ lost \in BOOLEAN)'
    BY <1>1, <1>5 DEF Reset, ResetVia, BusTypes
  <2> QED BY <1>1, <1>5, <2>1, <2>2 DEF BusTypes, Reset, ResetVia, Byte
<1>6. CASE Main
  BY <1>2, <1>3, <1>6 DEF Main, SetStack, SetDDRA, Configure, Command, WriteData,
     PrintNext, PrintEnd, Printed, Loop, vars, E, RW, RS, Byte
<1>7. CASE Wait
  BY <1>2, <1>3, <1>7 DEF Wait, WaitInput, BusySetup, BusyEnable, BusyRead, BusyTest,
     WaitDisable, WaitOutput, WaitReturn, E, RW, RS, Byte
<1>8. CASE Instruction
  BY <1>1, <1>2, <1>3, <1>8 DEF Instruction, InstructionWait, InstructionData,
     InstructionClear, InstructionEnable, InstructionDisable, InstructionReturn,
     CallWait, Present, Return1, E, RW, RS, Byte
<1>9. CASE PrintChar
  BY <1>1, <1>2, <1>3, <1>9 DEF PrintChar, PrintWait, PrintData, PrintSelect, PrintEnable,
     PrintDisable, PrintReturn, CallWait, Present, Return1, E, RW, RS, Byte
<1> QED
  BY <1>3, <1>4, <1>5, <1>6, <1>7, <1>8, <1>9 DEF Next, Cpu, vars

(* Types are preserved: returns go to points of the program, pla gets a byte. *)
LEMMA TypeStep == IInv /\ [Next]_vars => TypeOK'
<1> SUFFICES ASSUME IInv, [Next]_vars PROVE TypeOK'
  OBVIOUS
<1>1. TypeOK /\ Frames /\ BusTypes'
  BY BusTypesStep DEF IInv
<1>2. (pc \in Points)'
  <2>1. CASE WaitReturn \/ InstructionReturn \/ PrintReturn
    BY <1>1, <2>1, Returns DEF Callers, Points, MainPoints, InstructionPoints, PrintPoints
  <2>2. CASE Main
    BY <1>1, <2>2 DEF Main, SetStack, SetDDRA, Configure, Command, WriteData, PrintNext,
       PrintEnd, Printed, Loop, Load, Call, vars, cpuVars, TypeOK, Points, MainPoints,
       InstructionPoints, PrintPoints, WaitPoints
  <2>3. CASE Wait /\ ~WaitReturn
    BY <1>1, <2>3 DEF Wait, WaitInput, BusySetup, BusyEnable, BusyRead, BusyTest,
       WaitDisable, WaitOutput, Load, Points, MainPoints, InstructionPoints,
       PrintPoints, WaitPoints
  <2>4. CASE (Instruction /\ ~InstructionReturn) \/ (PrintChar /\ ~PrintReturn)
    BY <1>1, <2>4 DEF Instruction, InstructionWait, InstructionData, InstructionClear,
       InstructionEnable, InstructionDisable, PrintChar, PrintWait, PrintData, PrintSelect,
       PrintEnable, PrintDisable, CallWait, Present, Load, Call, Points, MainPoints,
       InstructionPoints, PrintPoints, WaitPoints
  <2>5. CASE Lcd \/ Reset \/ UNCHANGED vars
    BY <1>1, <2>5 DEF Lcd, Reset, vars, cpuVars, TypeOK, Points, MainPoints
  <2> QED BY <2>1, <2>2, <2>3, <2>4, <2>5 DEF Next, Cpu, Wait, Instruction, PrintChar
<1>3. (a \in Byte)'
  <2>1. a \in Byte /\ \A v \in Byte : Page[v] \in Byte
    BY <1>1, PageAssumption DEF TypeOK
  <2>2. {0, 1, 6, 14, 56, 128, 255, E, RW, RS, RW + E, RS + E, E + RW + RS} \subseteq Byte
    BY DEF Byte, E, RW, RS
  <2>3. CASE PrintNext \/ PrintEnd
    BY <1>1, <2>1, <2>3 DEF PrintNext, PrintEnd, Load, TypeOK
  <2>4. CASE BusyRead
    BY <2>2, <2>4 DEF BusyRead, Load, Bit7OfPORTB
  <2>5. CASE WaitReturn
    BY <1>1, <2>5, Depths DEF WaitReturn, Frames, WaitPoints, ByteCell
  <2>6. CASE Lcd \/ Reset \/ UNCHANGED vars
    BY <2>1, <2>6 DEF Lcd, Reset, vars, cpuVars
  <2>7. CASE SetStack \/ SetDDRA \/ Configure \/ WriteData \/ Printed \/ Loop
    BY <2>1, <2>2, <2>7 DEF SetStack, SetDDRA, Configure, Command, WriteData, Printed, Loop,
       Load, vars, cpuVars
  <2>8. CASE WaitInput \/ BusySetup \/ BusyEnable \/ BusyTest \/ WaitDisable \/ WaitOutput
    BY <2>1, <2>2, <2>8 DEF WaitInput, BusySetup, BusyEnable, BusyTest, WaitDisable,
       WaitOutput, Load
  <2>9. CASE Instruction \/ PrintChar
    BY <2>1, <2>2, <2>9 DEF Instruction, InstructionWait, InstructionData, InstructionClear,
       InstructionEnable, InstructionDisable, InstructionReturn, PrintChar, PrintWait,
       PrintData, PrintSelect, PrintEnable, PrintDisable, PrintReturn, CallWait, Present,
       Return1, Load
  <2> QED BY <2>3, <2>4, <2>5, <2>6, <2>7, <2>8, <2>9 DEF Next, Cpu, Main, Wait
<1>4. (x \in Byte /\ sp \in Byte)'
  <2>1. \A s \in Byte : /\ Down(s, 1) \in Byte /\ Down(s, 2) \in Byte /\ Down(s, 3) \in Byte
                       /\ Up(s, 1) \in Byte /\ Up(s, 2) \in Byte /\ Up(s, 3) \in Byte
    BY DEF Down, Up, Byte
  <2>2. x' \in {x, 255, Up(x, 1)}
    BY DEF Next, Cpu, Main, SetStack, SetDDRA, Configure, Command, WriteData, PrintNext,
       PrintEnd, Printed, Loop, Wait, WaitInput, BusySetup, BusyEnable, BusyRead, BusyTest,
       WaitDisable, WaitOutput, WaitReturn, Instruction, InstructionWait, InstructionData,
       InstructionClear, InstructionEnable, InstructionDisable, InstructionReturn, PrintChar,
       PrintWait, PrintData, PrintSelect, PrintEnable, PrintDisable, PrintReturn, CallWait,
       Present, Return1, Load, Lcd, Reset, vars, cpuVars
  <2>3. sp' \in {sp, 255, Down(sp, 1), Down(sp, 2), Down(sp, 3), Up(sp, 2), Up(sp, 3)}
    BY DEF Next, Cpu, Main, SetStack, SetDDRA, Configure, Command, WriteData, PrintNext,
       PrintEnd, Printed, Loop, Wait, WaitInput, BusySetup, BusyEnable, BusyRead, BusyTest,
       WaitDisable, WaitOutput, WaitReturn, Instruction, InstructionWait, InstructionData,
       InstructionClear, InstructionEnable, InstructionDisable, InstructionReturn, PrintChar,
       PrintWait, PrintData, PrintSelect, PrintEnable, PrintDisable, PrintReturn, CallWait,
       Present, Return1, Return, Call, Push, Load, Lcd, Reset, vars, cpuVars
  <2>4. x \in Byte /\ sp \in Byte /\ 255 \in Byte
    BY <1>1 DEF TypeOK, Byte
  <2> QED BY <2>1, <2>2, <2>3, <2>4
<1>5. (stack \in [Byte -> Cell])'
  <2>1. CASE \E sub, ret \in Points : Call(sub, ret)
    BY <1>1, <2>1, CallStores DEF TypeOK
  <2>2. CASE WaitInput
    <3>1. ByteCell(a) \in Cell
      BY <1>1 DEF ByteCell, Cell, TypeOK
    <3> QED BY <1>1, <2>2, <3>1 DEF WaitInput, Push, TypeOK
  <2>3. CASE UNCHANGED stack
    BY <1>1, <2>3 DEF TypeOK
  <2>4. CASE Configure \/ PrintNext \/ InstructionWait \/ PrintWait
    BY <2>1, <2>4 DEF Configure, Command, PrintNext, InstructionWait, PrintWait, CallWait,
       Points, MainPoints, InstructionPoints, PrintPoints, WaitPoints
  <2> QED
    BY <2>2, <2>3, <2>4 DEF Next, Cpu, Main, SetStack, SetDDRA, WriteData, PrintEnd,
       Printed, Loop, Wait, BusySetup, BusyEnable, BusyRead, BusyTest, WaitDisable,
       WaitOutput, WaitReturn, Instruction, InstructionData, InstructionClear,
       InstructionEnable, InstructionDisable, InstructionReturn, PrintChar, PrintData,
       PrintSelect, PrintEnable, PrintDisable, PrintReturn, Present, Return1, Return,
       Load, Lcd, Reset, vars, cpuVars
<1>6. (resets \in 0 .. MaxResets)'
  <2>1. resets' = resets \/ (resets < MaxResets /\ resets' = resets + 1)
    BY DEF Next, Cpu, Main, SetStack, SetDDRA, Configure, Command, WriteData, PrintNext,
       PrintEnd, Printed, Loop, Wait, WaitInput, BusySetup, BusyEnable, BusyRead, BusyTest,
       WaitDisable, WaitOutput, WaitReturn, Instruction, InstructionWait, InstructionData,
       InstructionClear, InstructionEnable, InstructionDisable, InstructionReturn, PrintChar,
       PrintWait, PrintData, PrintSelect, PrintEnable, PrintDisable, PrintReturn, CallWait,
       Present, Return1, Load, Lcd, Reset, vars, cpuVars
  <2> QED BY <1>1, <2>1, MaxResetsAssumption DEF TypeOK
<1> QED
  BY <1>1, <1>2, <1>3, <1>4, <1>5, <1>6 DEF TypeOK, BusTypes

(* The invariant is inductive. *)
LEMMA StepIInv == IInv /\ [Next]_vars => IInv'
  BY TypeStep, RegistersStep, ClearStep, FramesStep DEF IInv

(* IInv holds of every reachable state of prog.s on the board. *)
THEOREM Invariance == Spec => []IInv
  BY InitIInv, StepIInv, PTL DEF Spec

(* Every register holds a byte and every return finds a return address.    *)
THEOREM TypeCorrect == Spec => []TypeOK
<1>1. IInv => TypeOK
  BY DEF IInv
<1> QED BY <1>1, Invariance, PTL

(* The 65C22 and the LCD never drive the data bus together.                *)
THEOREM BusNeverContended == Spec => []NoContention
<1>1. IInv => NoContention
  BY PinTable DEF IInv, Registers, NoContention, LcdDrives, EnableUp, Reading, TypeOK,
     Resting, Granted, Polling, Points, MainPoints, InstructionPoints, PrintPoints,
     WaitPoints
<1> QED BY <1>1, Invariance, PTL

(* No byte is given to a busy LCD, however long it takes and whenever the  *)
(* reset button is pressed.                                                *)
THEOREM NoByteLost == Spec => []NoLostByte
<1>1. IInv => NoLostByte
  BY DEF IInv, Clear, NoLostByte
<1> QED BY <1>1, Invariance, PTL

(* The poll in lcd_busy always reads the LCD's busy flag.                  *)
THEOREM PollSound == Spec => []PollReadsFlag
<1>1. IInv => PollReadsFlag
  BY PinTable DEF IInv, Registers, Polling, PollReadsFlag, LcdDrives, EnableUp, Reading,
     DataReg
<1> QED BY <1>1, Invariance, PTL

(* Port B is driven over floating control pins only between lines 20 and 23. *)
THEOREM ExposureIsBrief == Spec => []ExposedBriefly
<1>1. IInv => ExposedBriefly
  <2> SUFFICES ASSUME IInv, pc # "ddra" PROVE ddrb = 0 \/ Driven
    BY DEF ExposedBriefly
  <2>1. CASE pc = "reset"
    BY <2>1 DEF IInv, Registers
  <2>2. CASE pc # "reset"
    <3>1. ddra = Outputs /\ ora \in Byte
      BY <2>2 DEF IInv, Registers, TypeOK
    <3>2. High(Outputs, E)
      BY DEF High, Outputs, E, RW, RS
    <3> QED BY <3>1, <3>2 DEF Driven, Pin
  <2> QED BY <2>1, <2>2
<1> QED BY <1>1, Invariance, PTL

(* Calls and returns match and five bytes of stack are enough.             *)
THEOREM StackIsBalanced == Spec => []StackBalanced
<1>1. IInv => StackBalanced
  BY DEF IInv, Frames, StackBalanced, TypeOK, Points, MainPoints, InstructionPoints,
     PrintPoints, WaitPoints
<1> QED BY <1>1, Invariance, PTL

(* A step that moves E is one of the stores to PORTA that changes only E,   *)
(* and E is low wherever another of the port's registers is stored to.      *)
LEMMA EdgeStep == IInv /\ [Next]_vars => StillWhileEnabled
<1> SUFFICES ASSUME IInv, [Next]_vars PROVE StillWhileEnabled
  OBVIOUS
<1> USE DEF IInv, StillWhileEnabled, EnableUp, Driven
<1>1. CASE UNCHANGED <<orb, ora, ddrb, ddra>>
  BY <1>1
<1>2. CASE SetDDRA \/ Reset
  <2>1. Pin(0, ora, E) = "floating" /\ Pin(0, 0, E) = "floating"
    <3>1. ora \in Byte /\ 0 \in Byte
      BY DEF TypeOK, Byte
    <3> QED BY <3>1, PinTable
  <2>2. CASE SetDDRA
    BY <2>1, <2>2 DEF SetDDRA, Load, Registers
  <2>3. CASE Reset
    BY <2>1, <2>3 DEF Reset, ResetVia
  <2> QED BY <1>2, <2>2, <2>3
<1>3. CASE \/ BusySetup \/ BusyEnable \/ WaitDisable
           \/ InstructionClear \/ InstructionEnable \/ InstructionDisable
           \/ PrintSelect \/ PrintEnable \/ PrintDisable
  <2> USE PinTable DEF Registers, Load, StorePORTA
  <2>1. CASE BusySetup
    <3>1. ora \in {0, RS, RW} => ~EnableUp /\ ~EnableUp'
      BY <2>1 DEF BusySetup
    <3>2. ora = RW + E => UNCHANGED <<orb, ddrb, ddra>> /\ ora' = RW /\ ddra = Outputs
      BY <2>1 DEF BusySetup
    <3> QED BY <2>1, <3>1, <3>2 DEF BusySetup
  <2>2. CASE BusyEnable
    BY <2>2 DEF BusyEnable
  <2>3. CASE WaitDisable
    BY <2>3 DEF WaitDisable, Polling
  <2>4. CASE InstructionClear \/ PrintSelect
    BY <2>4 DEF InstructionClear, PrintSelect, Granted
  <2>5. CASE InstructionEnable \/ InstructionDisable
    BY <2>5 DEF InstructionEnable, InstructionDisable
  <2>6. CASE PrintEnable \/ PrintDisable
    BY <2>6 DEF PrintEnable, PrintDisable
  <2> QED BY <1>3, <2>1, <2>2, <2>3, <2>4, <2>5, <2>6
<1>4. CASE SetStack \/ WaitInput \/ WaitOutput \/ InstructionData \/ PrintData
  <2>1. UNCHANGED <<ora, ddra>>
    BY <1>4 DEF SetStack, WaitInput, WaitOutput, InstructionData, PrintData, Present, Load,
       StoreDDRB, StorePORTB
  <2>2. CASE SetStack
    <3>1. ddra = 0 /\ ora \in Byte
      BY <2>2 DEF SetStack, Registers, TypeOK
    <3> QED BY <2>1, <3>1, PinTable
  <2>3. CASE WaitInput \/ WaitOutput \/ InstructionData \/ PrintData
    <3>1. ddra = Outputs /\ ora \in {0, RS, RW}
      BY <2>3 DEF WaitInput, WaitOutput, InstructionData, PrintData, Present, Load,
         Registers, Resting, Granted
    <3> QED BY <2>1, <3>1, PinTable
  <2> QED BY <1>4, <2>2, <2>3
<1> QED
  BY <1>1, <1>2, <1>3, <1>4 DEF Next, Cpu, Main, Configure, Command, WriteData,
     PrintNext, PrintEnd, Printed, Loop, Wait, BusyRead, BusyTest,
     WaitReturn, Instruction, InstructionWait, InstructionReturn,
     PrintChar, PrintWait, PrintReturn, CallWait, Return1, Load,
     Lcd, LcdFinish, LcdNoise, vars, busVars

(* RS, R/W and the data bus hold still from the rise of E to its fall.     *)
THEOREM EdgesAreClean == Spec => CleanEdge
  BY Invariance, EdgeStep, PTL DEF CleanEdge, Spec

-----------------------------------------------------------------------------
(***************************************************************************)
(* roms/prog.s implements Console: for every ROM page and every number of  *)
(* resets, the LCD executes the script and nothing else.  The invariant    *)
(* Content follows the next byte of the script through A, the stack and    *)
(* port B.                                                                 *)
(***************************************************************************)
(* The main program's points between the four instructions. *)
CallerOf == <<"cmd2", "cmd3", "cmd4", "data">>
N == Len(received)

(* b is the byte of the entry to be executed next, on its way in           *)
(* lcd_instruction or in print_char.                                       *)
InstructionDue(b) ==
    /\ N \in 0 .. 3 /\ x = 255
    /\ stack[255] = RetCell(CallerOf[N + 1])
    /\ b = ScriptBytes[N + 1]
PrintDue(b) ==
    /\ N >= 4 /\ x = (251 + N) % 256
    /\ Page[x] # 0 /\ b = Page[x]
WaitDue(b) ==
    \/ stack[253] = RetCell("li_data") /\ InstructionDue(b)
    \/ stack[253] = RetCell("pc_data") /\ PrintDue(b)

MainContent ==
    /\ pc \in {"reset", "ddra"} => received = << >>
    /\ pc \in {"ddra", "cmd1", "cmd2", "cmd3", "cmd4", "data"} => x = 255
    /\ pc = "cmd1" => N = 0
    /\ pc = "cmd2" => N = 1
    /\ pc = "cmd3" => N = 2
    /\ pc = "cmd4" => N = 3
    /\ pc = "data" => N = 4
    /\ pc \in {"print", "loop"} => N >= 4 /\ x = (251 + N) % 256
    /\ pc \in {"pc_rts", "printed"} => N >= 5 /\ x = (250 + N) % 256
    /\ pc = "li_rts" => N \in 1 .. 4 /\ x = 255 /\ stack[255] = RetCell(CallerOf[N])

Content ==
    /\ MainContent
    /\ pc \in {"lcd_instruction", "li_data"} => InstructionDue(a)
    /\ pc \in {"li_clear", "li_enable", "li_disable"} => InstructionDue(orb)
    /\ pc \in {"print_char", "pc_data"} => PrintDue(a)
    /\ pc \in {"pc_select", "pc_enable", "pc_disable"} => PrintDue(orb)
    /\ pc = "lcd_wait" => WaitDue(a)
    /\ pc \in WaitPoints \ {"lcd_wait"} =>
           \E v \in Byte : stack[251] = ByteCell(v) /\ WaitDue(v)

-----------------------------------------------------------------------------
Entries == {0, 1} \X (Byte \cup {Garbage})

(* The number of entries shown grows by one with each of them. *)
LEMMA Lengths ==
  ASSUME TypeOK
  PROVE  /\ N \in Nat
         /\ \A e \in Entries : Len(Append(received, e)) = N + 1
         /\ received = << >> => N = 0
BY LenProperties, AppendProperties DEF N, TypeOK, Entries

(* The LCD takes a byte at the two falling edges of E in a write cycle,    *)
(* and there it is ready, RS says which register is meant and the bus      *)
(* carries port B.                                                         *)
LEMMA Latches ==
  ASSUME IInv, InstructionDisable \/ PrintDisable
  PROVE  /\ busy = FALSE /\ busy' = TRUE
         /\ received' = Append(received, <<IF InstructionDisable THEN 0 ELSE 1, orb>>)
         /\ N' = N + 1
<1> USE DEF IInv, InstructionDisable, PrintDisable, Load
<1>1. busy = FALSE
  BY DEF Clear, TypeOK
<1>2. EnableUp /\ ~Reading /\ DataBus = orb /\ (DataReg <=> pc = "pc_disable")
  BY PinTable DEF Registers, EnableUp, Reading, DataReg, DataBus, Polling
<1>3. Pin(ddra, 0, E) = "low" /\ Pin(ddra, RS, E) = "low"
  BY PinTable DEF Registers
<1>4. Latch
  BY <1>2, <1>3 DEF StorePORTA, FallsTo
<1>5. received' = Append(received, <<IF InstructionDisable THEN 0 ELSE 1, orb>>) /\ busy' = TRUE
  BY <1>1, <1>2, <1>4 DEF Latch
<1>6. <<IF InstructionDisable THEN 0 ELSE 1, orb>> \in Entries
  BY DEF Entries, TypeOK
<1> QED BY <1>1, <1>5, <1>6, Lengths DEF N

(* No other store to PORTA is seen by the LCD as the end of a write. *)
LEMMA NoLatch ==
  ASSUME IInv,
         \/ BusySetup \/ BusyEnable \/ WaitDisable \/ InstructionClear
         \/ InstructionEnable \/ PrintSelect \/ PrintEnable
  PROVE  UNCHANGED <<received, busy, orb>>
<1> USE PinTable DEF IInv, Load, StorePORTA, FallsTo, EnableUp, Reading, Registers
<1>1. CASE BusySetup
  BY <1>1 DEF BusySetup
<1>2. CASE BusyEnable
  BY <1>2 DEF BusyEnable
<1>3. CASE WaitDisable
  BY <1>3 DEF WaitDisable, Polling
<1>4. CASE InstructionClear \/ PrintSelect
  BY <1>4 DEF InstructionClear, PrintSelect, Granted
<1>5. CASE InstructionEnable \/ PrintEnable
  BY <1>5 DEF InstructionEnable, PrintEnable
<1> QED BY <1>1, <1>2, <1>3, <1>4, <1>5

-----------------------------------------------------------------------------
LEMMA InitContent == Init => Content
  BY DEF Init, BusInit, Content, MainContent, WaitPoints

(* The cells above the stack pointer survive a push and a call. *)
LEMMA PushKeeps ==
  ASSUME IInv
  PROVE  /\ WaitInput => /\ stack'[251] = ByteCell(a)
                         /\ stack'[253] = stack[253] /\ stack'[255] = stack[255]
         /\ InstructionWait => /\ stack'[253] = RetCell("li_data")
                               /\ stack'[255] = stack[255]
         /\ PrintWait => stack'[253] = RetCell("pc_data")
         /\ \A ret \in Points : pc \in MainPoints \ {"reset"} /\ Call("lcd_instruction", ret)
                 => stack'[255] = RetCell(ret)
<1> USE Depths DEF IInv, TypeOK, Frames, Byte
<1>1. WaitInput => /\ stack'[251] = ByteCell(a)
                   /\ stack'[253] = stack[253] /\ stack'[255] = stack[255]
  BY DEF WaitInput, Push
<1>2. ASSUME InstructionWait
      PROVE  stack'[253] = RetCell("li_data") /\ stack'[255] = stack[255]
  <2> HIDE DEF IInv, TypeOK, Frames, Byte
  <2>1. sp = 253 /\ Down(sp, 1) = 252 /\ Call("lcd_wait", "li_data")
    BY <1>2 DEF InstructionWait, CallWait, InstructionPoints, IInv, TypeOK, Frames
  <2>2. "li_data" \in Points
    BY DEF Points, InstructionPoints
  <2>3. stack \in [Byte -> Cell] /\ sp \in Byte
    BY DEF IInv, TypeOK
  <2>4. /\ stack'[sp] = RetCell("li_data")
        /\ \A i \in Byte : i # sp /\ i # Down(sp, 1) => stack'[i] = stack[i]
    BY <2>1, <2>2, <2>3, CallStores
  <2>5. 255 \in Byte /\ 255 # sp /\ 255 # Down(sp, 1)
    BY <2>1 DEF Byte
  <2> QED BY <2>1, <2>4, <2>5
<1>3. PrintWait => stack'[253] = RetCell("pc_data")
  BY DEF PrintWait, CallWait, Call, PrintPoints
<1>4. \A ret \in Points : pc \in MainPoints \ {"reset"} /\ Call("lcd_instruction", ret)
                 => stack'[255] = RetCell(ret)
  BY DEF Call
<1> QED BY <1>1, <1>2, <1>3, <1>4

(* The next byte of the script stays due until the LCD has it. *)
LEMMA ContentStep == IInv /\ Content /\ [Next]_vars => Content'
<1> SUFFICES ASSUME IInv, Content, [Next]_vars PROVE Content'
  OBVIOUS
<1> USE DEF Content, MainContent, InstructionDue, PrintDue, WaitPoints
<1>t. TypeOK /\ N \in Nat /\ (received = << >> => N = 0)
  BY Lengths DEF IInv
<1>n. received' = received => N' = N
  BY DEF N
<1>1. CASE SetStack
  BY <1>1, <1>t DEF SetStack, StoreDDRB
<1>2. CASE SetDDRA
  BY <1>2, <1>t, <1>n DEF SetDDRA, Load, StoreDDRA
<1>3. CASE Configure
  <2>1. /\ pc' = "lcd_instruction" /\ N' = N /\ x' = 255 /\ N \in 0 .. 3
        /\ a' = ScriptBytes[N + 1] /\ Call("lcd_instruction", CallerOf[N + 1])
    BY <1>3, <1>n DEF Configure, Command, Call, busVars, CallerOf, ScriptBytes
  <2>2. CallerOf[N + 1] \in Points /\ pc \in MainPoints \ {"reset"}
    BY <1>3, <2>1 DEF Configure, Command, CallerOf, Points, MainPoints
  <2>3. stack'[255] = RetCell(CallerOf[N + 1])
    BY <2>1, <2>2, PushKeeps
  <2> QED BY <2>1, <2>3
<1>4. CASE WriteData
  BY <1>4, <1>n DEF WriteData, Load, busVars
<1>5. CASE PrintNext
  BY <1>5, <1>n DEF PrintNext, Call, busVars
<1>6. CASE PrintEnd
  BY <1>6, <1>n DEF PrintEnd, Load, busVars
<1>7. CASE Printed
  BY <1>7, <1>n, <1>t DEF Printed, Up, busVars
<1>8. CASE WaitInput
  <2>1. /\ pc' = "lcd_busy" /\ N' = N /\ x' = x /\ stack'[251] = ByteCell(a)
        /\ stack'[253] = stack[253] /\ stack'[255] = stack[255] /\ a \in Byte
    BY <1>8, <1>n, <1>t, PushKeeps DEF WaitInput, StoreDDRB, TypeOK
  <2>2. WaitDue(a)
    BY <1>8 DEF WaitInput
  <2> QED BY <2>1, <2>2 DEF WaitDue
<1>9. CASE BusySetup \/ BusyEnable \/ BusyRead \/ BusyTest \/ WaitDisable \/ WaitOutput
  <2>1. /\ pc \in WaitPoints \ {"lcd_wait"} /\ pc' \in WaitPoints \ {"lcd_wait"}
        /\ received' = received /\ x' = x /\ stack' = stack
    BY <1>9, NoLatch DEF BusySetup, BusyEnable, BusyRead, BusyTest, WaitDisable,
       WaitOutput, Load, StoreDDRB, busVars
  <2> QED BY <2>1, <1>n DEF WaitDue
<1>10. CASE WaitReturn
  <2>1. PICK v \in Byte : stack[251] = ByteCell(v) /\ WaitDue(v)
    BY <1>10 DEF WaitReturn
  <2>2. sp = 250 /\ stack[252] = stack[253]
    BY <1>10 DEF IInv, Frames, WaitFrame, Address, WaitReturn
  <2>3. a' = v /\ RetCell(pc') = stack[253]
    BY <1>10, <2>1, <2>2, Depths DEF WaitReturn, ReturnTo, WaitDue, ByteCell, RetCell
  <2>4. N' = N /\ x' = x /\ stack' = stack
    BY <1>10, <1>n DEF WaitReturn, busVars
  <2>5. CASE pc' = "li_data" /\ InstructionDue(v)
    BY <2>3, <2>4, <2>5
  <2>6. CASE pc' = "pc_data" /\ PrintDue(v)
    BY <2>3, <2>4, <2>6
  <2> QED BY <2>1, <2>3, <2>5, <2>6 DEF WaitDue, RetCell
<1>11. CASE InstructionWait \/ PrintWait
  BY <1>11, <1>n, PushKeeps DEF InstructionWait, PrintWait, CallWait, Call, busVars, WaitDue
<1>12. CASE InstructionData \/ PrintData
  BY <1>12, <1>n DEF InstructionData, PrintData, Present, StorePORTB
<1>13. CASE InstructionClear \/ InstructionEnable \/ PrintSelect \/ PrintEnable
  BY <1>13, <1>n, NoLatch DEF InstructionClear, InstructionEnable, PrintSelect, PrintEnable,
     Load
<1>14. CASE InstructionDisable
  BY <1>14, <1>t, Latches DEF InstructionDisable, Load
<1>15. CASE PrintDisable
  BY <1>15, <1>t, Latches DEF PrintDisable, Load
<1>16. CASE InstructionReturn
  <2>1. sp = 253 /\ stack[254] = stack[255]
    BY <1>16 DEF IInv, Frames, InstructionFrame, Address, InstructionReturn, Return1,
       InstructionPoints
  <2>2. pc' = CallerOf[N]
    BY <1>16, <2>1, Depths DEF InstructionReturn, Return1, Return, ReturnTo, RetCell
  <2>3. N \in 1 .. 4 /\ N' = N /\ x' = 255
    BY <1>16, <1>n DEF InstructionReturn, Return1, busVars
  <2> QED BY <2>2, <2>3 DEF CallerOf
<1>17. CASE PrintReturn
  BY <1>17, <1>n, Returns DEF IInv, PrintReturn, Return1, busVars
<1>18. CASE Lcd
  BY <1>18, <1>n DEF Lcd, LcdFinish, LcdNoise, cpuVars, WaitDue
<1>19. CASE Reset
  BY <1>19 DEF Reset, ResetVia
<1>20. CASE Loop \/ UNCHANGED vars
  BY <1>20, <1>n DEF Loop, vars, busVars, cpuVars, WaitDue
<1> QED
  BY <1>1, <1>2, <1>3, <1>4, <1>5, <1>6, <1>7, <1>8, <1>9, <1>10, <1>11, <1>12, <1>13,
     <1>14, <1>15, <1>16, <1>17, <1>18, <1>19, <1>20
     DEF Next, Cpu, Main, Wait, Instruction, PrintChar

-----------------------------------------------------------------------------
(* Each step of prog.s is a step of Console or changes nothing it shows:   *)
(* a latch accepts the entry that is due, noise on a floating E comes only *)
(* before the first entry, and the reset button restarts the script.       *)
LEMMA RefineStep == IInv /\ Content /\ [Next]_vars => [Display!Next]_(Display!vars)
<1> SUFFICES ASSUME IInv, Content, [Next]_vars PROVE [Display!Next]_(Display!vars)
  OBVIOUS
<1> USE DEF Display!vars, Display!Next
<1>t. busy \in BOOLEAN /\ N \in Nat
  BY Lengths DEF IInv, TypeOK
<1>1. CASE InstructionDisable \/ PrintDisable
  <2>1. /\ busy = FALSE /\ busy' = TRUE
        /\ received' = Append(received, <<IF InstructionDisable THEN 0 ELSE 1, orb>>)
    BY <1>1, Latches
  <2>2. CASE InstructionDisable
    <3>1. N \in 0 .. 3 /\ orb = ScriptBytes[N + 1]
      BY <2>2 DEF InstructionDisable, Load, Content, InstructionDue
    <3>2. N \notin Ends /\ Expected[N + 1] = <<0, orb>>
      BY <3>1 DEF Ends, Expected
    <3> QED BY <2>1, <2>2, <3>2 DEF Display!Accept, Display!Finished, N
  <2>3. CASE PrintDisable
    <3>1. N >= 4 /\ x = (251 + N) % 256 /\ Page[x] # 0 /\ orb = Page[x]
      BY <2>3 DEF PrintDisable, Load, Content, PrintDue
    <3>2. CharAt(N - 4) = Page[x]
      BY <1>t, <3>1 DEF CharAt, FirstX
    <3>3. N \notin Ends /\ Expected[N + 1] = <<1, orb>>
      BY <1>t, <3>1, <3>2 DEF Ends, Expected
    <3>4. ~InstructionDisable
      BY <2>3 DEF InstructionDisable, PrintDisable, Load
    <3> QED BY <2>1, <3>3, <3>4 DEF Display!Accept, Display!Finished, N
  <2> QED BY <1>1, <2>2, <2>3
<1>2. CASE LcdFinish
  BY <1>2 DEF LcdFinish, Display!Finish
<1>3. CASE LcdNoise \/ SetDDRA
  <2>1. received = << >> /\ received' = received /\ (busy' = busy \/ (~busy /\ busy'))
    <3>1. CASE LcdNoise
      <4>1. pc \in {"reset", "ddra"}
        BY <3>1, PinTable DEF LcdNoise, Driven, IInv, Registers, TypeOK
      <4> QED BY <3>1, <4>1 DEF LcdNoise, Content, MainContent
    <3>2. CASE SetDDRA
      BY <1>t, <3>2 DEF SetDDRA, Load, StoreDDRA, Content, MainContent
    <3> QED BY <1>3, <3>1, <3>2
  <2> QED BY <1>t, <2>1 DEF Display!Disturb
<1>4. CASE Reset
  BY <1>t, <1>4 DEF Reset, ResetVia, Display!Restart
<1>5. CASE UNCHANGED <<received, busy>>
  BY <1>5
<1> QED
  BY <1>1, <1>2, <1>3, <1>4, <1>5, NoLatch DEF Next, Cpu, Main, SetStack, Configure,
     Command, WriteData, PrintNext, PrintEnd, Printed, Loop, Wait, WaitInput, BusyRead,
     BusyTest, WaitOutput, WaitReturn, Instruction, InstructionWait, InstructionData,
     InstructionReturn, PrintChar, PrintWait, PrintData, PrintReturn, CallWait, Present,
     Return1, Load, StoreDDRB, StorePORTB, Lcd, vars, busVars

(* Content holds of every reachable state: the next byte of the script is  *)
(* never lost on its way through A, the stack and port B.                  *)
THEOREM ContentInvariance == Spec => []Content
  BY Invariance, InitContent, ContentStep, PTL DEF Spec

(* prog.s implements Console, for every ROM page and every number of       *)
(* resets: the LCD executes the script, in order, nothing else, and ends   *)
(* only at the byte 0 of the page.                                         *)
THEOREM Implementation == Spec => ImplementsConsole
<1>1. Init => Display!Init
  BY DEF Init, BusInit, Display!Init
<1> QED BY <1>1, RefineStep, Invariance, ContentInvariance, PTL
       DEF Spec, ImplementsConsole, Display!Spec
=============================================================================
