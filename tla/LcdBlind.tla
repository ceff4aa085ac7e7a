------------------------------ MODULE LcdBlind ------------------------------
(***************************************************************************)
(* roms/complete/lcd_w_ram.s (the program roms/rom.bin holds) and          *)
(* LCD_simple_text.s: they write a fixed script to the LCD and never look  *)
(* at its busy flag, so that whether the LCD is ready is a matter of time. *)
(* The LCD's execution times and the length of a clock cycle are given in  *)
(* microseconds; the program's instructions take the cycles of a 6502.     *)
(*                                                                         *)
(* Calls are one deep, so the stack is left out: pc and k say where the    *)
(* program is, in a subroutine too.                                        *)
(***************************************************************************)
EXTENDS LcdBus

CONSTANTS
    Script,        \* <<RS, byte>> pairs, in the order the program sends them
    Inline,        \* LCD_simple_text.s: no subroutines and no stack
    CycleTimes,    \* how long a clock cycle may take
    ClearTimes,    \* how long the LCD may take to clear the display
    OtherTimes,    \* ... and for anything else
    MaxResets      \* how often the reset button is pressed

ASSUME ScriptAssumption == Script \in Seq({0, 1} \X Byte) /\ Script # << >>
ASSUME InlineAssumption == Inline \in BOOLEAN
ASSUME TimesAssumption ==
    /\ CycleTimes \subseteq Nat \ {0}
    /\ ClearTimes \subseteq Nat \ {0} /\ OtherTimes \subseteq Nat \ {0}
    /\ OtherTimes # {}
ASSUME ResetsAssumption == MaxResets \in Nat

VARIABLES
    pc,        \* the access the program makes next
    k,         \* the script entry it is about
    wait,      \* clock cycles until that access is made
    work,      \* how long the LCD goes on executing what it executes
    resets     \* how often the reset button was pressed

cpuVars == <<pc, k, wait, resets>>
vars == <<busVars, work, cpuVars>>

Points == {"reset", "ddra", "call", "data", "setup", "enable", "disable",
           "rts", "loop"}

(* Clock cycles from the access before up to and including the one at p:   *)
(* lda # and ldx # take 2, txs 2, sta 4, jsr 6, rts 6 and jmp 3.           *)
Cost(p) ==
    CASE p = "reset" -> IF Inline THEN 6 ELSE 10
      [] p = "call" -> 8
      [] p = "data" -> IF Inline THEN 6 ELSE 4
      [] p = "loop" -> 3
      [] OTHER -> 6

(* The reset sequence of the CPU comes before its first instruction. *)
ResetSequence == 7

Init ==
    /\ BusInit
    /\ pc = "reset" /\ k = 1 /\ wait = ResetSequence + Cost("reset")
    /\ work \in IF busy THEN OtherTimes ELSE {0}
    /\ resets = 0

(* Going on to the access at p. *)
GoTo(p) == pc' = p /\ wait' = Cost(p)

At(p) == pc = p /\ wait = 0

FirstOfEntry == IF Inline THEN "data" ELSE "call"

(* RS as the entry has it; instructions and characters differ in no more.  *)
Select == IF Script[k][1] = 1 THEN RS ELSE 0

-----------------------------------------------------------------------------
(* A cycle of length d passes, for the program and for the LCD. *)
Cycle(d) ==
    /\ wait > 0 /\ wait' = wait - 1
    /\ work' = IF d < work THEN work - d ELSE 0
    /\ busy' = (work' > 0)
    /\ UNCHANGED <<orb, ora, ddrb, ddra, received, lost, pc, k, resets>>

Tick == \E d \in CycleTimes : Cycle(d)

(* What keeps the LCD busy once noise or a reset made an edge of E. *)
Stray == work' \in IF busy' /\ ~busy THEN ClearTimes \cup OtherTimes ELSE {work}

SetDDRB ==
    /\ At("reset") /\ GoTo("ddra")
    /\ StoreDDRB(255)
    /\ UNCHANGED <<work, k, resets>>

SetDDRA ==
    /\ At("ddra") /\ GoTo(FirstOfEntry)
    /\ StoreDDRA(E + RW + RS) /\ Stray
    /\ UNCHANGED <<k, resets>>

Call ==
    /\ At("call") /\ GoTo("data")
    /\ UNCHANGED <<busVars, work, k, resets>>

Data ==
    /\ At("data") /\ GoTo("setup")
    /\ StorePORTB(Script[k][2])
    /\ UNCHANGED <<work, k, resets>>

Setup ==
    /\ At("setup") /\ GoTo("enable")
    /\ StorePORTA(Select)
    /\ UNCHANGED <<work, k, resets>>

Enable ==
    /\ At("enable") /\ GoTo("disable")
    /\ StorePORTA(Select + E)
    /\ UNCHANGED <<work, k, resets>>

(* Mutants: one entry too many, one too few. *)
NextEntryBeyond ==
    IF k <= Len(Script) THEN k' = k + 1 /\ GoTo(FirstOfEntry)
                        ELSE k' = k /\ GoTo("loop")

NextEntryShort ==
    IF k + 1 < Len(Script) THEN k' = k + 1 /\ GoTo(FirstOfEntry)
                           ELSE k' = k /\ GoTo("loop")

NextEntry ==
    IF k < Len(Script) THEN k' = k + 1 /\ GoTo(FirstOfEntry)
                       ELSE k' = k /\ GoTo("loop")

(* Mutant: the writes follow one another without calls and returns.        *)
DisableUnrolled ==
    /\ At("disable")
    /\ StorePORTA(Select)
    /\ work' \in IF busy THEN {work}
                 ELSE IF Script[k] = <<0, 1>> THEN ClearTimes ELSE OtherTimes
    /\ IF k < Len(Script) THEN k' = k + 1 /\ GoTo("data")
                          ELSE k' = k /\ GoTo("loop")
    /\ UNCHANGED resets

(* E falls: the LCD takes the byte and, if it did, works on it. *)
Disable ==
    /\ At("disable")
    /\ StorePORTA(Select)
    /\ work' \in IF busy THEN {work}
                 ELSE IF Script[k] = <<0, 1>> THEN ClearTimes ELSE OtherTimes
    /\ IF Inline THEN NextEntry ELSE k' = k /\ GoTo("rts")
    /\ UNCHANGED resets

Return ==
    /\ At("rts") /\ NextEntry
    /\ UNCHANGED <<busVars, work, resets>>

Loop ==
    /\ At("loop") /\ GoTo("loop")
    /\ UNCHANGED <<busVars, work, k, resets>>

-----------------------------------------------------------------------------
Noise == LcdNoise /\ Stray /\ UNCHANGED cpuVars

(* The button, at any moment, held down for a moment or for long. *)
Reset ==
    /\ resets < MaxResets /\ resets' = resets + 1
    /\ pc' = "reset" /\ k' = 1 /\ wait' = ResetSequence + Cost("reset")
    /\ ResetVia /\ Stray

Cpu == SetDDRB \/ SetDDRA \/ Call \/ Data \/ Setup \/ Enable \/ Disable
          \/ Return \/ Loop

Next == Tick \/ Cpu \/ Noise \/ Reset

Spec == Init /\ [][Next]_vars
FairSpec == Spec /\ WF_vars(Tick \/ Cpu)
-----------------------------------------------------------------------------
(* Types; the LCD is busy exactly while it has work left.                  *)
TypeOK ==
    /\ orb \in Byte /\ ora \in Byte /\ ddrb \in Byte /\ ddra \in Byte
    /\ busy \in BOOLEAN /\ lost \in BOOLEAN
    /\ received \in Seq({0, 1} \X (Byte \cup {Garbage}))
    /\ pc \in Points /\ k \in 1 .. Len(Script) /\ wait \in 0 .. 17
    /\ work \in Nat /\ busy = (work > 0)
    /\ resets \in 0 .. MaxResets

(* No byte reaches the LCD while it is busy, although nobody asks it: the  *)
(* way from one falling edge of E to the next (lines 79-80, the next lda   *)
(* and jsr, 73-79), and from line 23 to the first one, takes longer than   *)
(* anything the LCD does.  Resets come at any time, when it clears too.    *)
NoLostByte == ~lost

Display == INSTANCE Console WITH
    Stops <- {Len(Script)}, shown <- received, ready <- ~busy

(* The display executes the script of the program (lines 25-67), each byte *)
(* once and in order, and with a clock that runs all of it.                *)
ImplementsConsole == Display!Spec
ImplementsFairConsole == Display!FairSpec

(* A cycle takes at least m, and the LCD is done sooner than the shortest  *)
(* way to an edge of E takes, in cycles of that length.                    *)
ShortestWay == IF Inline THEN 24 ELSE 30
SlowEnough(m) ==
    /\ m \in Nat
    /\ \A d \in CycleTimes : m <= d
    /\ \A t \in ClearTimes \cup OtherTimes : t <= ShortestWay * m
=============================================================================
