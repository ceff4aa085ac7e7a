------------------------------- MODULE LcdBus -------------------------------
(***************************************************************************)
(* The ports of the 65C22 and the character LCD behind them, as the        *)
(* programs under src/roms drive them and as src/6502-schem.png wires      *)
(* them: PA7, PA6 and PA5 are the LCD's E, R/W and RS, port B is its data  *)
(* bus, and the 65C22's RESET pin is on the board's reset line (the LCD    *)
(* has none).  The module owns the chips' state and offers one operator    *)
(* per access a program can make; a program module extends it and says     *)
(* which access happens when.                                              *)
(***************************************************************************)
EXTENDS Naturals, Sequences

VARIABLES
    orb, ora,      \* 65C22 output registers of ports B and A
    ddrb, ddra,    \* 65C22 data direction registers (a 1 bit is an output)
    busy,          \* the LCD is executing something (its busy flag)
    received,      \* <<RS, byte>> pairs the LCD accepted since the last reset
    lost           \* the LCD was given a byte while it was busy

busVars == <<orb, ora, ddrb, ddra, busy, received, lost>>

Byte == 0 .. 255

E  == 128    \* %10000000
RW == 64     \* %01000000
RS == 32     \* %00100000

(* Bit b (a power of two) of the byte v. *)
High(v, b) == (v \div b) % 2 = 1

(* What the LCD sees on control pin b for direction dir and output out. *)
Pin(dir, out, b) ==
    IF ~High(dir, b) THEN "floating" ELSE IF High(out, b) THEN "high" ELSE "low"

Driven   == Pin(ddra, ora, E) # "floating"
EnableUp == Pin(ddra, ora, E) = "high"
Reading  == Pin(ddra, ora, RW) = "high"
DataReg  == Pin(ddra, ora, RS) = "high"

(* The LCD drives the data bus during a read cycle. *)
LcdDrives == EnableUp /\ Reading

(* The byte a write puts on the data bus: port B must be all outputs. *)
Garbage == 256
DataBus == IF ddrb = 255 THEN orb ELSE Garbage

BusInit ==
    /\ orb = 0 /\ ora = 0 /\ ddrb = 0 /\ ddra = 0
    /\ busy \in BOOLEAN
    /\ received = << >>
    /\ lost = FALSE

(***************************************************************************)
(* The LCD latches a byte on the falling edge of E of a write cycle.  A    *)
(* byte that arrives while it is busy is not executed.                     *)
(***************************************************************************)
FallsTo(v) == EnableUp /\ Pin(ddra, v, E) = "low"

Latch ==
    \/ /\ ~busy
       /\ received' = Append(received, <<IF DataReg THEN 1 ELSE 0, DataBus>>)
       /\ busy' = TRUE
       /\ UNCHANGED lost
    \/ /\ busy
       /\ lost' = TRUE
       /\ UNCHANGED <<busy, received>>

StorePORTA(v) ==
    /\ ora' = v
    /\ \/ FallsTo(v) /\ ~Reading /\ Latch
       \/ ~(FallsTo(v) /\ ~Reading) /\ UNCHANGED <<busy, received, lost>>
    /\ UNCHANGED <<orb, ddrb, ddra>>

StorePORTB(v) ==
    /\ orb' = v
    /\ UNCHANGED <<ora, ddrb, ddra, busy, received, lost>>

StoreDDRB(v) ==
    /\ ddrb' = v
    /\ UNCHANGED <<orb, ora, ddra, busy, received, lost>>

(* Driving E low for the first time may be a falling edge to the LCD. *)
StoreDDRA(v) ==
    /\ ddra' = v
    /\ busy' \in IF Driven THEN {busy} ELSE {busy, TRUE}
    /\ UNCHANGED <<orb, ora, ddrb, received, lost>>

(***************************************************************************)
(* Bit 7 of a read of port B: the output register's on output pins, the    *)
(* busy flag's when the LCD drives the bus with RS low, anything else      *)
(* (display data, an undriven pin) otherwise.                              *)
(***************************************************************************)
Bit7OfPORTB ==
    IF High(ddrb, 128) THEN {IF High(orb, 128) THEN 128 ELSE 0}
    ELSE IF LcdDrives /\ ~DataReg THEN {IF busy THEN 128 ELSE 0}
    ELSE {0, 128}

(* The LCD finishes what it is executing, in its own time. *)
LcdFinish ==
    /\ busy
    /\ busy' = FALSE
    /\ UNCHANGED <<orb, ora, ddrb, ddra, received, lost>>

(* While E floats, noise on it can clock something into the LCD. *)
LcdNoise ==
    /\ ~Driven /\ ~busy
    /\ busy' = TRUE
    /\ UNCHANGED <<orb, ora, ddrb, ddra, received, lost>>

(***************************************************************************)
(* The reset line clears the 65C22's registers, so every port pin floats.  *)
(* The LCD is not reset; E going from high to floating may clock it.       *)
(***************************************************************************)
ResetVia ==
    /\ orb' = 0 /\ ora' = 0 /\ ddrb' = 0 /\ ddra' = 0
    /\ busy' \in IF EnableUp THEN {busy, TRUE} ELSE {busy}
    /\ received' = << >>
    /\ UNCHANGED lost
=============================================================================
