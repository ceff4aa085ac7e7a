----------------------------- MODULE LcdDriver ------------------------------
(***************************************************************************)
(* roms/prog.s, the program of the board: it configures the LCD, prints    *)
(* the string "message" and halts in a loop, waiting before every byte     *)
(* until the LCD's busy flag is clear.                                     *)
(*                                                                         *)
(* A value of pc is a point of the program.  An action runs from there up  *)
(* to and including the next access to the 65C22, call, return or branch;  *)
(* the LCD and the reset button may act between any two of them.           *)
(***************************************************************************)
EXTENDS LcdBus

CONSTANTS
    Page,        \* Page[x] is the byte of the ROM image at message + x
    MaxResets    \* how often the reset button is pressed

ASSUME PageAssumption == Page \in [Byte -> Byte]
ASSUME MaxResetsAssumption == MaxResets \in Nat

VARIABLES
    pc,        \* the point the CPU has reached
    a, x,      \* the registers A and X
    sp,        \* the stack pointer
    stack,     \* the stack page $0100-$01ff
    resets     \* how often the reset button was pressed

cpuVars == <<pc, a, x, sp, stack, resets>>
vars == <<busVars, cpuVars>>

MainPoints == {"reset", "ddra", "cmd1", "cmd2", "cmd3", "cmd4", "data",
               "print", "printed", "loop"}
InstructionPoints == {"lcd_instruction", "li_data", "li_clear", "li_enable",
                      "li_disable", "li_rts"}
PrintPoints == {"print_char", "pc_data", "pc_select", "pc_enable",
                "pc_disable", "pc_rts"}
WaitPoints == {"lcd_wait", "lcd_busy", "busy_enable", "busy_read",
               "busy_test", "wait_disable", "wait_output", "wait_rts"}
Points == MainPoints \cup InstructionPoints \cup PrintPoints \cup WaitPoints

-----------------------------------------------------------------------------
(* The stack page holds return addresses, two bytes each, and bytes. *)
RetCell(point) == <<"ret", point>>
ByteCell(v) == <<"byte", v>>
Cell == ({"ret"} \X Points) \cup ({"byte"} \X Byte)

Down(s, n) == (s + 256 - n) % 256
Up(s, n) == (s + n) % 256

Call(sub, ret) ==
    /\ pc' = sub
    /\ stack' = [stack EXCEPT ![sp] = RetCell(ret), ![Down(sp, 1)] = RetCell(ret)]
    /\ sp' = Down(sp, 2)

(* The address whose low byte is n cells above the stack pointer.  Two     *)
(* bytes that are not the halves of one address lead astray.               *)
ReturnTo(n) ==
    LET low  == stack[Up(sp, n)]
        high == stack[Up(sp, n + 1)]
    IN  IF low = high /\ low[1] = "ret" THEN low[2] ELSE "astray"

Return ==
    /\ pc' = ReturnTo(1)
    /\ sp' = Up(sp, 2)
    /\ UNCHANGED stack

Push(v) ==
    /\ stack' = [stack EXCEPT ![sp] = ByteCell(v)]
    /\ sp' = Down(sp, 1)

-----------------------------------------------------------------------------
Init ==
    /\ BusInit
    /\ pc = "reset"
    /\ a = 0 /\ x = 0
    /\ sp \in {0, 253}
    /\ stack = [i \in Byte |-> ByteCell(0)]
    /\ resets = 0

(* Straight-line code: at one point, to the next, with v loaded into A. *)
Load(at, to, v) ==
    /\ pc = at /\ pc' = to
    /\ a' = v
    /\ UNCHANGED <<x, sp, stack, resets>>

(* Mutant: txs is missing. *)
SetStackNoTxs ==
    /\ pc = "reset" /\ pc' = "ddra"
    /\ x' = 255 /\ a' = 255
    /\ StoreDDRB(255)
    /\ UNCHANGED <<sp, stack, resets>>

SetStack ==
    /\ pc = "reset" /\ pc' = "ddra"
    /\ x' = 255 /\ sp' = 255 /\ a' = 255
    /\ StoreDDRB(255)
    /\ UNCHANGED <<stack, resets>>

SetDDRA == Load("ddra", "cmd1", E + RW + RS) /\ StoreDDRA(E + RW + RS)

Command(at, v, ret) ==
    /\ pc = at /\ a' = v
    /\ Call("lcd_instruction", ret)
    /\ UNCHANGED <<busVars, x, resets>>

Configure ==
    \/ Command("cmd1", 56, "cmd2")     \* %00111000: 8 bits, 2 lines, 5x8
    \/ Command("cmd2", 14, "cmd3")     \* %00001110: display and cursor on
    \/ Command("cmd3", 6, "cmd4")      \* %00000110: entry mode
    \/ Command("cmd4", 1, "data")      \* %00000001: clear

WriteData == Load("data", "print", 0) /\ UNCHANGED busVars

PrintNext ==
    /\ pc = "print" /\ Page[x] # 0
    /\ a' = Page[x]
    /\ Call("print_char", "printed")
    /\ UNCHANGED <<busVars, x, resets>>

PrintEnd ==
    /\ Page[x] = 0
    /\ Load("print", "loop", Page[x]) /\ UNCHANGED busVars

(* Mutant: inx is missing. *)
PrintedNoInx ==
    /\ pc = "printed" /\ pc' = "print"
    /\ UNCHANGED <<busVars, a, x, sp, stack, resets>>

Printed ==
    /\ pc = "printed" /\ pc' = "print"
    /\ x' = Up(x, 1)
    /\ UNCHANGED <<busVars, a, sp, stack, resets>>

Loop == pc = "loop" /\ UNCHANGED vars

-----------------------------------------------------------------------------
(* Mutant: port B is left an output. *)
WaitInputNoDDRB ==
    /\ pc = "lcd_wait" /\ pc' = "lcd_busy"
    /\ Push(a) /\ a' = 0
    /\ UNCHANGED <<busVars, x, resets>>

(* lcd_wait: port B becomes an input while the busy flag is polled. *)
WaitInput ==
    /\ pc = "lcd_wait" /\ pc' = "lcd_busy"
    /\ Push(a) /\ a' = 0
    /\ StoreDDRB(0)
    /\ UNCHANGED <<x, resets>>

BusySetup  == Load("lcd_busy", "busy_enable", RW) /\ StorePORTA(RW)
BusyEnable == Load("busy_enable", "busy_read", RW + E) /\ StorePORTA(RW + E)

BusyRead ==
    /\ \E v \in Bit7OfPORTB : Load("busy_read", "busy_test", v)
    /\ UNCHANGED busVars

(* Mutant: the branch is missing. *)
BusyTestOnce ==
    /\ pc = "busy_test" /\ pc' = "wait_disable"
    /\ UNCHANGED <<busVars, a, x, sp, stack, resets>>

BusyTest ==
    /\ pc = "busy_test"
    /\ pc' = IF a # 0 THEN "lcd_busy" ELSE "wait_disable"
    /\ UNCHANGED <<busVars, a, x, sp, stack, resets>>

(* Mutant: port B turns round before E falls. *)
WaitDisableLate == Load("wait_disable", "wait_output", 255) /\ StoreDDRB(255)

WaitDisable == Load("wait_disable", "wait_output", RW) /\ StorePORTA(RW)
WaitOutput  == Load("wait_output", "wait_rts", 255) /\ StoreDDRB(255)

(* Mutant: pla is missing. *)
WaitReturnNoPla ==
    /\ pc = "wait_rts"
    /\ Return
    /\ UNCHANGED <<busVars, a, x, resets>>

(* pla and rts: the byte pushed at WaitInput, then the return address. *)
WaitReturn ==
    LET saved == stack[Up(sp, 1)]
    IN  /\ pc = "wait_rts"
        /\ pc' = ReturnTo(2)
        /\ a' = IF saved[1] = "byte" THEN saved[2] ELSE Garbage
        /\ sp' = Up(sp, 3)
        /\ UNCHANGED <<busVars, x, stack, resets>>

-----------------------------------------------------------------------------
(* lcd_instruction and print_char: wait, present the byte, pulse E. *)
CallWait(at, ret) ==
    /\ pc = at
    /\ Call("lcd_wait", ret)
    /\ UNCHANGED <<busVars, a, x, resets>>

Present(at, to) ==
    /\ pc = at /\ pc' = to
    /\ StorePORTB(a)
    /\ UNCHANGED <<a, x, sp, stack, resets>>

Return1(at) ==
    /\ pc = at
    /\ Return
    /\ UNCHANGED <<busVars, a, x, resets>>

InstructionWait    == CallWait("lcd_instruction", "li_data")
InstructionData    == Present("li_data", "li_clear")
InstructionClear   == Load("li_clear", "li_enable", 0) /\ StorePORTA(0)
InstructionEnable  == Load("li_enable", "li_disable", E) /\ StorePORTA(E)
InstructionDisable == Load("li_disable", "li_rts", 0) /\ StorePORTA(0)
InstructionReturn  == Return1("li_rts")

PrintWait    == CallWait("print_char", "pc_data")
PrintData    == Present("pc_data", "pc_select")
(* Mutant: RS and E rise in one store. *)
PrintSelectWithE == Load("pc_select", "pc_enable", RS + E) /\ StorePORTA(RS + E)

PrintSelect  == Load("pc_select", "pc_enable", RS) /\ StorePORTA(RS)
PrintEnable  == Load("pc_enable", "pc_disable", RS + E) /\ StorePORTA(RS + E)
PrintDisable == Load("pc_disable", "pc_rts", RS) /\ StorePORTA(RS)
PrintReturn  == Return1("pc_rts")

-----------------------------------------------------------------------------
(* The button, at any moment: the CPU restarts at the vector in $fffc.    *)
(* A and X keep what they held; sp moves down by the three bytes the reset *)
(* sequence pretends to push.                                              *)
Reset ==
    /\ resets < MaxResets /\ resets' = resets + 1
    /\ pc' = "reset"
    /\ sp' = Down(sp, 3)
    /\ ResetVia
    /\ UNCHANGED <<a, x, stack>>

Main == SetStack \/ SetDDRA \/ Configure \/ WriteData
           \/ PrintNext \/ PrintEnd \/ Printed \/ Loop
Wait == WaitInput \/ BusySetup \/ BusyEnable \/ BusyRead \/ BusyTest
           \/ WaitDisable \/ WaitOutput \/ WaitReturn
Instruction == InstructionWait \/ InstructionData \/ InstructionClear
           \/ InstructionEnable \/ InstructionDisable \/ InstructionReturn
PrintChar == PrintWait \/ PrintData \/ PrintSelect
           \/ PrintEnable \/ PrintDisable \/ PrintReturn

Cpu == Main \/ Wait \/ Instruction \/ PrintChar
Lcd == (LcdFinish \/ LcdNoise) /\ UNCHANGED cpuVars

Next == Cpu \/ Lcd \/ Reset

Spec == Init /\ [][Next]_vars

(* The CPU is clocked and the LCD finishes what it started. *)
Fairness == WF_vars(Cpu) /\ WF_vars(LcdFinish /\ UNCHANGED cpuVars)
FairSpec == Spec /\ Fairness

-----------------------------------------------------------------------------
(* Types: every register holds a byte, the CPU is at a point of the         *)
(* program, and only the stack page's own cells are on the stack.           *)
TypeOK ==
    /\ orb \in Byte /\ ora \in Byte /\ ddrb \in Byte /\ ddra \in Byte
    /\ busy \in BOOLEAN /\ lost \in BOOLEAN
    /\ received \in Seq({0, 1} \X (Byte \cup {Garbage}))
    /\ pc \in Points
    /\ a \in Byte /\ x \in Byte /\ sp \in Byte
    /\ stack \in [Byte -> Cell]
    /\ resets \in 0 .. MaxResets

(* The 65C22 and the LCD never drive the data bus at the same time: port B *)
(* is turned round only while E is low (lcd_wait, lines 55-78).            *)
NoContention == ~(LcdDrives /\ ddrb # 0)

(* No byte reaches the LCD while it is busy: the busy flag read in         *)
(* lcd_busy is still true of the LCD when E falls ten instructions later,  *)
(* whatever the LCD, and a reset in the middle, did in between.            *)
NoLostByte == ~lost

(* The poll reads the LCD's busy flag and nothing else: when PORTB is      *)
(* loaded (line 66) the LCD is driving port B and shows its status.        *)
PollReadsFlag == pc = "busy_read" => ddrb = 0 /\ LcdDrives /\ ~DataReg

(* Calls and returns match: outside the subroutines the stack is empty,    *)
(* inside them it holds at most five bytes, so the stack page the reset    *)
(* code sets up (lines 15-16) is never left and no return goes astray.     *)
StackBalanced ==
    /\ pc \in MainPoints \ {"reset"} => sp = 255
    /\ pc # "reset" => sp >= 250

(* Port B is driven while E floats, and the LCD may take any level of it,  *)
(* at one point only: between lines 20 and 23, after every reset.          *)
ExposedBriefly == ddrb # 0 /\ ~Driven => pc = "ddra"

(* From the store that raises E to the one that lets it fall, both         *)
(* included, RS, R/W, the data and the direction of port B hold still: no  *)
(* store of lcd_wait, lcd_instruction or print_char moves them together    *)
(* with E or while it is high (lines 64-74, 86-88, 97-99).                 *)
StillWhileEnabled ==
    (EnableUp \/ EnableUp') /\ Driven /\ Driven' =>
        /\ Pin(ddra, ora, RW) = Pin(ddra, ora, RW)'
        /\ Pin(ddra, ora, RS) = Pin(ddra, ora, RS)'
        /\ orb' = orb /\ ddrb' = ddrb
CleanEdge == [][StillWhileEnabled]_vars

(***************************************************************************)
(* What the display is to execute: four instructions, then the bytes the   *)
(* print loop walks over.  X is still $ff when the loop starts, because    *)
(* line 42 loads A and not X.                                              *)
(***************************************************************************)
FirstX == 255
ScriptBytes == <<56, 14, 6, 1>>
CharAt(k) == Page[(FirstX + k) % 256]

Expected == [k \in Nat |-> IF k <= 4 THEN <<0, ScriptBytes[k]>>
                                     ELSE <<1, CharAt(k - 5)>>]
Ends == {n \in Nat : n >= 4 /\ CharAt(n - 4) = 0}

Display == INSTANCE Console WITH
    Script <- Expected, Stops <- Ends, shown <- received, ready <- ~busy

(* prog.s implements Console: the LCD executes exactly the script.         *)
ImplementsConsole == Display!Spec
(* ... and every entry of it, when the CPU is clocked and the LCD finishes.*)
ImplementsFairConsole == Display!FairSpec
=============================================================================
