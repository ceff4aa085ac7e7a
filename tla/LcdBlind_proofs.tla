-------------------------- MODULE LcdBlind_proofs ---------------------------
(***************************************************************************)
(* A clock slow enough makes the blind programs safe: whatever their       *)
(* script, no byte reaches a busy LCD, and the display executes it as      *)
(* Console has it.                                                         *)
(***************************************************************************)
EXTENDS LcdBlind, SequenceTheorems, TLAPS

(* Cycles from the access at p to the next falling edge of E after it.     *)
Beyond(p) ==
    CASE p = "disable" -> 0
      [] p = "enable" -> 6
      [] p = "setup" -> 12
      [] p = "data" -> 18
      [] p = "call" -> 22
      [] p = "rts" -> 30
      [] p = "ddra" -> ShortestWay
      [] OTHER -> ShortestWay + 6

Types ==
    /\ pc \in Points /\ wait \in Nat /\ k \in 1 .. Len(Script)
    /\ busy \in BOOLEAN /\ work \in Nat /\ busy = (work > 0)
    /\ Inline => pc \notin {"call", "rts"}

(* The control pins float until line 23; E is up only before it falls.     *)
Lines ==
    /\ ddra = IF pc \in {"reset", "ddra"} THEN 0 ELSE E + RW + RS
    /\ ora \in IF pc = "disable" THEN {E, E + RS} ELSE {0, RS}
    /\ pc \in {"reset", "ddra"} => ora = 0

(* The work left is done before E falls again, with cycles of length m. *)
Ready(m) ==
    /\ work <= ShortestWay * m
    /\ pc # "loop" => work <= (wait + Beyond(pc)) * m

IInv(m) == Types /\ Lines /\ Ready(m) /\ ~lost

-----------------------------------------------------------------------------
(* What the pins are for the values the programs give them. *)
LEMMA Pins ==
    /\ \A v \in {0, RS, E, E + RS}, b \in {E, RW, RS} : Pin(0, v, b) = "floating"
    /\ \A b \in {E, RW} : \A v \in {0, RS} : Pin(E + RW + RS, v, b) = "low"
    /\ \A v \in {E, E + RS} : Pin(E + RW + RS, v, E) = "high"
                              /\ Pin(E + RW + RS, v, RW) = "low"
  BY DEF Pin, High, E, RW, RS

(* A longer way takes longer. *)
LEMMA Monotone ==
    ASSUME NEW m \in Nat, NEW i \in Nat, NEW j \in Nat, i <= j
    PROVE  i * m <= j * m
  OBVIOUS

(* One cycle less is m less. *)
LEMMA OneLess ==
    ASSUME NEW m \in Nat, NEW i \in Nat, i > 0
    PROVE  (i - 1) * m = i * m - m
  OBVIOUS

LEMMA CostType == ASSUME NEW p \in Points PROVE Cost(p) \in Nat
  BY InlineAssumption DEF Cost, Points

LEMMA BeyondType == ASSUME NEW p \in Points PROVE Beyond(p) \in Nat
  BY InlineAssumption DEF Beyond, ShortestWay, Points

LEMMA EntryType ==
    ASSUME k \in 1 .. Len(Script)
    PROVE  Script[k] \in {0, 1} \X Byte /\ Select \in {0, RS}
           /\ Script # << >> /\ Len(Script) \in Nat \ {0}
  BY ScriptAssumption DEF Select, RS

(* Strays and entries take one of the LCD's times. *)
LEMMA TimesBounded ==
    ASSUME NEW m, SlowEnough(m), NEW t \in ClearTimes \cup OtherTimes
    PROVE  t \in Nat \ {0} /\ t <= ShortestWay * m
  BY TimesAssumption DEF SlowEnough

-----------------------------------------------------------------------------
LEMMA InitInv == ASSUME NEW m, SlowEnough(m), Init PROVE IInv(m)
  <1>1. Types
    BY EntryType, ScriptAssumption, TimesAssumption, InlineAssumption
    DEF Init, BusInit, Types, Points, ResetSequence, Cost
  <1>2. Lines
    BY DEF Init, BusInit, Lines
  <1>3. work = 0 \/ work \in OtherTimes
    BY DEF Init
  <1>4. ShortestWay \in Nat /\ m \in Nat
    BY DEF ShortestWay, SlowEnough
  <1>5. work <= ShortestWay * m
    BY <1>1, <1>3, <1>4, TimesBounded DEF Types
  <1>6. wait + Beyond(pc) \in Nat /\ ShortestWay <= wait + Beyond(pc)
    BY <1>4, InlineAssumption DEF Init, ResetSequence, Cost, Beyond
  <1>7. ShortestWay * m <= (wait + Beyond(pc)) * m
    BY <1>4, <1>6, Monotone
  <1>8. Ready(m)
    BY <1>1, <1>4, <1>5, <1>6, <1>7 DEF Ready, Types
  <1> QED BY <1>1, <1>2, <1>8 DEF IInv, Init, BusInit

-----------------------------------------------------------------------------
(* A point that lies no nearer to the next edge than the cycles spent, and *)
(* no new work: what was enough is enough.                                 *)
LEMMA Onward ==
    ASSUME NEW m \in Nat, Types, Ready(m), wait = 0, pc # "loop",
           pc' \in Points, wait' = Cost(pc'), work' = work,
           pc' # "loop" => Beyond(pc) <= Cost(pc') + Beyond(pc')
    PROVE  Ready(m)'
  <1>1. Beyond(pc) \in Nat /\ Beyond(pc') \in Nat /\ Cost(pc') \in Nat
    BY BeyondType, CostType DEF Types
  <1>2. ASSUME pc' # "loop"
        PROVE  work' <= (wait' + Beyond(pc')) * m
    <2>1. Beyond(pc) * m <= (wait' + Beyond(pc')) * m
      BY <1>1, <1>2, Monotone
    <2>2. work <= Beyond(pc) * m
      BY <1>1 DEF Ready
    <2> QED BY <1>1, <2>1, <2>2 DEF Types
  <1> QED BY <1>2 DEF Ready

(* New work, with the whole way ahead. *)
LEMMA Afresh ==
    ASSUME NEW m, SlowEnough(m), pc' \in Points, wait' \in Nat,
           work' \in {0} \cup ClearTimes \cup OtherTimes,
           pc' # "loop" => ShortestWay <= wait' + Beyond(pc')
    PROVE  Ready(m)' /\ work' \in Nat
  <1>1. m \in Nat /\ ShortestWay \in Nat
    BY DEF SlowEnough, ShortestWay
  <1>2. work' \in Nat /\ work' <= ShortestWay * m
    BY <1>1, TimesBounded
  <1>3. Beyond(pc') \in Nat
    BY BeyondType
  <1>4. pc' # "loop" => ShortestWay * m <= (wait' + Beyond(pc')) * m
    BY <1>1, <1>3, Monotone
  <1> QED BY <1>1, <1>2, <1>3, <1>4 DEF Ready

LEMMA TickStep == ASSUME NEW m, SlowEnough(m), IInv(m), Tick PROVE IInv(m)'
  <1>1. PICK d \in CycleTimes : Cycle(d)
    BY DEF Tick
  <1>2. m \in Nat /\ d \in Nat /\ m <= d
    BY TimesAssumption DEF SlowEnough
  <1>3. Types'
    BY <1>1, <1>2 DEF IInv, Types, Cycle
  <1>4. Lines' /\ ~lost'
    BY <1>1 DEF IInv, Lines, Cycle
  <1>5. work' <= ShortestWay * m
    BY <1>1, <1>2 DEF IInv, Ready, Types, ShortestWay, Cycle
  <1>6. ASSUME pc # "loop"
        PROVE  work' <= (wait' + Beyond(pc)) * m
    <2>1. Beyond(pc) \in Nat /\ wait \in Nat /\ work \in Nat /\ wait > 0
      BY <1>1, BeyondType DEF IInv, Types, Cycle
    <2>2. (wait + Beyond(pc) - 1) * m = (wait + Beyond(pc)) * m - m
      BY <1>2, <2>1, OneLess
    <2>3. wait' + Beyond(pc) = wait + Beyond(pc) - 1 /\ wait' + Beyond(pc) \in Nat
      BY <1>1, <2>1 DEF Cycle
    <2>4. work <= (wait + Beyond(pc)) * m
      BY <1>6 DEF IInv, Ready
    <2>5. (wait' + Beyond(pc)) * m \in Nat /\ (wait + Beyond(pc)) * m \in Nat
      BY <1>2, <2>1, <2>3
    <2> QED BY <1>1, <1>2, <2>1, <2>2, <2>3, <2>4, <2>5 DEF Cycle
  <1> QED BY <1>1, <1>3, <1>4, <1>5, <1>6 DEF IInv, Ready, Cycle

(* Where E may have an edge by accident, busy and work still agree. *)
LEMMA StrayBusy ==
    ASSUME NEW m, SlowEnough(m), Types, Stray, busy' = busy \/ busy' = TRUE
    PROVE  busy' = (work' > 0) /\ work' \in Nat /\ busy' \in BOOLEAN
  <1>1. CASE busy' /\ ~busy
    <2>1. work' \in ClearTimes \cup OtherTimes
      BY <1>1 DEF Stray
    <2>2. work' \in Nat /\ work' > 0
      BY <2>1, TimesBounded
    <2>3. busy' = TRUE /\ (work' > 0) = TRUE
      BY <1>1, <2>2
    <2> QED BY <2>2, <2>3
  <1>2. CASE ~(busy' /\ ~busy)
    <2>1. work' = work /\ busy' = busy
      BY <1>2 DEF Stray, Types
    <2>2. busy = (work > 0) /\ work \in Nat /\ busy \in BOOLEAN
      BY DEF Types
    <2>3. (work' > 0) = (work > 0)
      BY <2>1
    <2> QED BY <2>1, <2>2, <2>3, Zenon
  <1> QED BY <1>1, <1>2

LEMMA ResetStep ==
    ASSUME NEW m, SlowEnough(m), IInv(m), Reset PROVE IInv(m)'
  <1>1. pc' = "reset" /\ wait' \in Nat /\ k' \in 1 .. Len(Script)
    BY CostType, EntryType DEF Reset, ResetSequence, Points, IInv, Types
  <1>2. work' = work \/ work' \in ClearTimes \cup OtherTimes
    BY DEF Reset, Stray
  <1>3. busy' = (work' > 0) /\ work' \in Nat /\ busy' \in BOOLEAN
    BY StrayBusy DEF Reset, ResetVia, IInv
  <1>4. Types' /\ Lines' /\ ~lost'
    BY <1>1, <1>3 DEF Reset, ResetVia, IInv, Types, Lines, Points
  <1>5. ShortestWay \in Nat /\ Beyond("reset") = ShortestWay + 6 /\ m \in Nat
    BY DEF Beyond, ShortestWay, SlowEnough
  <1>6. work' <= ShortestWay * m
    BY <1>2, TimesBounded DEF IInv, Ready
  <1>7. ShortestWay * m <= (wait' + Beyond(pc')) * m
    BY <1>1, <1>5, Monotone
  <1>8. Ready(m)'
    BY <1>1, <1>3, <1>5, <1>6, <1>7 DEF Ready
  <1> QED BY <1>4, <1>8 DEF IInv

LEMMA NoiseStep ==
    ASSUME NEW m, SlowEnough(m), IInv(m), Noise PROVE IInv(m)'
  <1>1. pc \in {"reset", "ddra"}
    BY Pins DEF Noise, LcdNoise, Driven, IInv, Lines
  <1>2. work' \in ClearTimes \cup OtherTimes /\ busy'
    BY DEF Noise, LcdNoise, Stray
  <1>3. pc' = pc /\ wait' = wait /\ wait \in Nat /\ pc \in Points
    BY DEF Noise, cpuVars, IInv, Types
  <1>4. ShortestWay <= wait' + Beyond(pc')
    BY <1>1, <1>3 DEF Beyond, ShortestWay
  <1>5. Ready(m)' /\ work' \in Nat /\ work' > 0
    BY <1>2, <1>3, <1>4, Afresh, TimesBounded
  <1> QED BY <1>2, <1>5 DEF IInv, Types, Lines, Noise, LcdNoise, cpuVars

-----------------------------------------------------------------------------
(* Stores that make no falling edge of E in a write cycle leave the LCD be *)
LEMMA Setting ==
    ASSUME Lines, NEW v, StorePORTA(v), pc \notin {"reset", "ddra"},
           pc # "disable" \/ v \notin {0, RS}, v \in {0, RS, E, E + RS}
    PROVE  UNCHANGED <<busy, received, lost>>
  BY Pins DEF Lines, StorePORTA, FallsTo, EnableUp, E, RS, RW

LEMMA SetDDRBStep ==
    ASSUME NEW m, SlowEnough(m), IInv(m), SetDDRB PROVE IInv(m)'
  <1>1. Types' /\ Lines' /\ ~lost'
    BY CostType DEF SetDDRB, At, GoTo, StoreDDRB, IInv, Types, Lines, Points
  <1>2. Beyond("reset") <= Cost("ddra") + Beyond("ddra")
    BY DEF Beyond, Cost, ShortestWay
  <1>3. Ready(m)'
    BY <1>2, Onward DEF SetDDRB, At, GoTo, IInv, SlowEnough, Points
  <1> QED BY <1>1, <1>3 DEF IInv

LEMMA SetDDRAStep ==
    ASSUME NEW m, SlowEnough(m), IInv(m), SetDDRA PROVE IInv(m)'
  <1>1. pc = "ddra" /\ wait = 0 /\ pc' = FirstOfEntry /\ wait' = Cost(pc')
        /\ k' = k /\ FirstOfEntry \in Points /\ FirstOfEntry # "loop"
    BY DEF SetDDRA, At, GoTo, FirstOfEntry, Points
  <1>2. busy' = (work' > 0) /\ work' \in Nat /\ busy' \in BOOLEAN
    BY StrayBusy DEF SetDDRA, StoreDDRA, IInv, Types
  <1>3. Types'
    BY <1>1, <1>2, CostType DEF IInv, Types, FirstOfEntry
  <1>4. Lines' /\ ~lost'
    BY <1>1 DEF SetDDRA, StoreDDRA, IInv, Lines, FirstOfEntry
  <1>5. ShortestWay <= Cost(FirstOfEntry) + Beyond(FirstOfEntry)
        /\ Beyond("ddra") = ShortestWay
    BY InlineAssumption DEF FirstOfEntry, Beyond, Cost, ShortestWay
  <1>6. ASSUME work' = work PROVE Ready(m)'
    BY <1>1, <1>5, <1>6, Onward DEF IInv, SlowEnough
  <1>7. ASSUME work' \in ClearTimes \cup OtherTimes PROVE Ready(m)'
    BY <1>1, <1>5, <1>7, Afresh, CostType
  <1> QED BY <1>3, <1>4, <1>6, <1>7 DEF IInv, SetDDRA, Stray

LEMMA CallStep ==
    ASSUME NEW m, SlowEnough(m), IInv(m), Call PROVE IInv(m)'
  <1>1. ~Inline /\ Types' /\ Lines' /\ ~lost'
    BY CostType DEF Call, At, GoTo, busVars, IInv, Types, Lines, Points
  <1>2. Beyond("call") <= Cost("data") + Beyond("data")
    BY <1>1 DEF Beyond, Cost
  <1>3. Ready(m)'
    BY <1>2, Onward DEF Call, At, GoTo, IInv, SlowEnough, Points
  <1> QED BY <1>1, <1>3 DEF IInv

LEMMA DataStep ==
    ASSUME NEW m, SlowEnough(m), IInv(m), Data PROVE IInv(m)'
  <1>1. Types' /\ Lines' /\ ~lost'
    BY CostType DEF Data, At, GoTo, StorePORTB, IInv, Types, Lines, Points
  <1>2. Beyond("data") <= Cost("setup") + Beyond("setup")
    BY DEF Beyond, Cost
  <1>3. Ready(m)'
    BY <1>2, Onward DEF Data, At, GoTo, IInv, SlowEnough, Points
  <1> QED BY <1>1, <1>3 DEF IInv

LEMMA SetupStep ==
    ASSUME NEW m, SlowEnough(m), IInv(m), Setup PROVE IInv(m)'
  <1>1. Select \in {0, RS}
    BY EntryType DEF IInv, Types
  <1>2. UNCHANGED <<busy, received, lost>>
    BY <1>1, Setting DEF Setup, At, IInv
  <1>3. Types' /\ Lines' /\ ~lost'
    BY <1>1, <1>2, CostType
    DEF Setup, At, GoTo, StorePORTA, IInv, Types, Lines, Points
  <1>4. Beyond("setup") <= Cost("enable") + Beyond("enable")
    BY DEF Beyond, Cost
  <1>5. Ready(m)'
    BY <1>4, Onward DEF Setup, At, GoTo, IInv, SlowEnough, Points
  <1> QED BY <1>3, <1>5 DEF IInv

LEMMA EnableStep ==
    ASSUME NEW m, SlowEnough(m), IInv(m), Enable PROVE IInv(m)'
  <1>1. Select + E \in {E, E + RS}
    BY EntryType DEF IInv, Types, E, RS
  <1>2. UNCHANGED <<busy, received, lost>>
    BY <1>1, Setting DEF Enable, At, IInv
  <1>3. Types' /\ Lines' /\ ~lost'
    BY <1>1, <1>2, CostType
    DEF Enable, At, GoTo, StorePORTA, IInv, Types, Lines, Points
  <1>4. Beyond("enable") <= Cost("disable") + Beyond("disable")
    BY DEF Beyond, Cost
  <1>5. Ready(m)'
    BY <1>4, Onward DEF Enable, At, GoTo, IInv, SlowEnough, Points
  <1> QED BY <1>3, <1>5 DEF IInv

(* The step all this is for: E falls, and no work is left. *)
LEMMA InTime ==
    ASSUME NEW m, SlowEnough(m), IInv(m), Disable PROVE work = 0 /\ ~busy
  <1>1. pc = "disable" /\ wait = 0 /\ m \in Nat
    BY DEF Disable, At, SlowEnough
  <1>2. wait + Beyond(pc) = 0
    BY <1>1 DEF Beyond
  <1>3. work <= 0 * m
    BY <1>1, <1>2 DEF IInv, Ready
  <1>4. 0 * m = 0
    BY <1>1
  <1>5. work = 0
    BY <1>3, <1>4 DEF IInv, Types
  <1>6. busy = (work > 0) /\ ~(work > 0)
    BY <1>5 DEF IInv, Types
  <1> QED BY <1>5, <1>6, Zenon

LEMMA DisableStep ==
    ASSUME NEW m, SlowEnough(m), IInv(m), Disable PROVE IInv(m)'
  <1>1. Select \in {0, RS} /\ pc = "disable" /\ wait = 0 /\ m \in Nat
    BY EntryType DEF IInv, Types, Disable, At, SlowEnough
  <1>2. work = 0 /\ ~busy
    BY InTime
  <1>3. FallsTo(Select) /\ ~Reading
    BY <1>1, Pins DEF FallsTo, EnableUp, Reading, IInv, Lines
  <1>4. busy' = TRUE /\ lost' = lost
    BY <1>2, <1>3 DEF Disable, StorePORTA, Latch
  <1>5. work' \in ClearTimes \cup OtherTimes
    BY <1>2 DEF Disable
  <1>6. work' \in Nat /\ work' > 0
    BY <1>5, TimesBounded
  <1>7. /\ k' \in 1 .. Len(Script) /\ pc' \in Points /\ wait' = Cost(pc')
        /\ pc' \notin {"reset", "ddra", "disable"}
        /\ Inline => pc' \notin {"call", "rts"}
    BY EntryType
    DEF Disable, NextEntry, GoTo, FirstOfEntry, Points, IInv, Types
  <1>8. Types'
    BY <1>4, <1>6, <1>7, CostType DEF Types
  <1>9. Lines'
    BY <1>1, <1>7 DEF Disable, StorePORTA, IInv, Lines
  <1>10. pc' # "loop" => ShortestWay <= wait' + Beyond(pc')
    BY <1>7, InlineAssumption
    DEF Disable, NextEntry, GoTo, FirstOfEntry, Cost, Beyond, ShortestWay
  <1>11. Ready(m)'
    BY <1>5, <1>7, <1>10, Afresh, CostType
  <1> QED BY <1>4, <1>8, <1>9, <1>11 DEF IInv

LEMMA ReturnStep ==
    ASSUME NEW m, SlowEnough(m), IInv(m), Return PROVE IInv(m)'
  <1>1. ~Inline /\ pc = "rts" /\ wait = 0
    BY DEF Return, At, IInv, Types
  <1>2. /\ k' \in 1 .. Len(Script) /\ pc' \in {"call", "loop"}
        /\ wait' = Cost(pc') /\ UNCHANGED <<busVars, work>>
    BY <1>1, EntryType DEF Return, NextEntry, GoTo, FirstOfEntry, IInv, Types
  <1>3. Types' /\ Lines' /\ ~lost'
    BY <1>1, <1>2, CostType DEF busVars, IInv, Types, Lines, Points
  <1>4. Beyond("rts") <= Cost("call") + Beyond("call")
    BY DEF Beyond, Cost
  <1>5. Ready(m)'
    BY <1>1, <1>2, <1>4, Onward DEF IInv, SlowEnough, Points
  <1> QED BY <1>3, <1>5 DEF IInv

LEMMA LoopStep ==
    ASSUME NEW m, SlowEnough(m), IInv(m), Loop PROVE IInv(m)'
  BY CostType DEF Loop, At, GoTo, busVars, IInv, Types, Lines, Ready, Points

-----------------------------------------------------------------------------
LEMMA NextStep ==
    ASSUME NEW m, SlowEnough(m), IInv(m), [Next]_vars PROVE IInv(m)'
  <1>1. CASE UNCHANGED vars
    BY <1>1 DEF vars, busVars, cpuVars, IInv, Types, Lines, Ready
  <1>2. CASE Cpu
    BY <1>2, SetDDRBStep, SetDDRAStep, CallStep, DataStep, SetupStep,
       EnableStep, DisableStep, ReturnStep, LoopStep DEF Cpu
  <1> QED BY <1>1, <1>2, TickStep, ResetStep, NoiseStep DEF Next

(* lcd_w_ram.s and LCD_simple_text.s (lines 72-90 and 21-95): whatever the *)
(* script, with a clock slow enough no byte reaches a busy LCD, although   *)
(* the program never asks and resets strike at any moment.                 *)
THEOREM BlindIsSafe ==
    ASSUME NEW CONSTANT m, SlowEnough(m)
    PROVE  Spec => []NoLostByte
  <1>1. Init => IInv(m)
    BY InitInv
  <1>2. IInv(m) /\ [Next]_vars => IInv(m)'
    BY NextStep
  <1>3. IInv(m) => NoLostByte
    BY DEF IInv, NoLostByte
  <1> QED BY <1>1, <1>2, <1>3, PTL DEF Spec

-----------------------------------------------------------------------------
(* How fast the clock is does not matter for the types: E is up only while *)
(* it is about to fall, so only noise, a reset and Disable start work.     *)
TInv == TypeOK /\ Lines /\ (Inline => pc \notin {"call", "rts"})

LEMMA CostSmall == ASSUME NEW p \in Points PROVE Cost(p) \in 0 .. 10
  BY InlineAssumption DEF Cost, Points

LEMMA BitsAreBytes ==
    /\ {0, E, RW, RS, E + RS, E + RW + RS, 255} \subseteq Byte
    /\ E > 0 /\ RS > 0
  BY DEF Byte, E, RW, RS

LEMMA TypesInit == Init => TInv
  <1>1. ASSUME Init PROVE TInv
    <2>1. work \in Nat /\ busy = (work > 0)
      BY <1>1, TimesAssumption DEF Init, BusInit
    <2>2. k \in 1 .. Len(Script) /\ resets \in 0 .. MaxResets
      BY <1>1, ScriptAssumption, ResetsAssumption DEF Init
    <2>3. pc \in Points /\ wait \in 0 .. 17
      BY <1>1, InlineAssumption DEF Init, ResetSequence, Cost, Points
    <2>4. Lines
      BY <1>1 DEF Init, BusInit, Lines
    <2>5. /\ orb \in Byte /\ ora \in Byte /\ ddrb \in Byte /\ ddra \in Byte
          /\ received \in Seq({0, 1} \X (Byte \cup {Garbage}))
      BY <1>1, BitsAreBytes DEF Init, BusInit
    <2>6. busy \in BOOLEAN /\ lost \in BOOLEAN /\ pc = "reset"
      BY <1>1 DEF Init, BusInit
    <2>7. TypeOK
      BY <2>1, <2>2, <2>3, <2>5, <2>6, Zenon DEF TypeOK
    <2> QED BY <2>4, <2>6, <2>7 DEF TInv
  <1> QED BY <1>1

(* A stray edge leaves work and the busy flag in step. *)
LEMMA StrayTypes ==
    ASSUME TypeOK, Stray, busy' = busy \/ busy' = TRUE
    PROVE  work' \in Nat /\ busy' = (work' > 0) /\ busy' \in BOOLEAN
  <1>1. CASE busy' /\ ~busy
    <2>1. work' \in ClearTimes \cup OtherTimes
      BY <1>1 DEF Stray
    <2>2. work' \in Nat /\ work' > 0
      BY <2>1, TimesAssumption
    <2> QED BY <1>1, <2>2
  <1>2. CASE ~(busy' /\ ~busy)
    <2>1. work' = work /\ busy' = busy
      BY <1>2 DEF Stray, TypeOK
    <2> QED BY <2>1 DEF TypeOK
  <1> QED BY <1>1, <1>2

(* Accesses that leave the LCD alone. *)
LEMMA QuietTypes ==
    ASSUME TInv, UNCHANGED <<busy, received, lost, work, resets>>,
           pc' \in Points, wait' = Cost(pc'), k' \in 1 .. Len(Script),
           orb' \in Byte, ora' \in Byte, ddrb' \in Byte, ddra' \in Byte
    PROVE  TypeOK'
  <1>1. wait' \in 0 .. 17
    BY CostSmall
  <1> QED BY <1>1 DEF TInv, TypeOK

LEMMA DisableFalls ==
    ASSUME TInv, Disable
    PROVE  /\ Select \in {0, RS} /\ FallsTo(Select) /\ ~Reading
           /\ pc = "disable" /\ wait = 0 /\ Latch
  <1>1. Select \in {0, RS} /\ pc = "disable" /\ wait = 0
    BY EntryType DEF TInv, TypeOK, Disable, At
  <1>2. FallsTo(Select) /\ ~Reading
    BY <1>1, Pins DEF FallsTo, EnableUp, Reading, TInv, Lines
  <1> QED BY <1>1, <1>2 DEF Disable, StorePORTA

LEMMA DisableGoesTo ==
    ASSUME TInv, Disable
    PROVE  /\ k' \in 1 .. Len(Script) /\ pc' \in Points /\ wait' = Cost(pc')
           /\ pc' \notin {"reset", "ddra", "setup", "enable", "disable"}
           /\ Inline => pc' \notin {"call", "rts"}
           /\ pc' \in {"rts", "loop"} => k' = k
           /\ pc' = "loop" => k = Len(Script)
           /\ pc' \notin {"rts", "loop"} => k' = k + 1
  BY EntryType
  DEF Disable, NextEntry, GoTo, FirstOfEntry, Points, TInv, TypeOK

LEMMA DisableTypes == ASSUME TInv, Disable PROVE TInv'
  <1>1. /\ k' \in 1 .. Len(Script) /\ pc' \in Points /\ wait' = Cost(pc')
        /\ pc' \notin {"reset", "ddra", "disable"}
        /\ Inline => pc' \notin {"call", "rts"}
    BY DisableGoesTo
  <1>2. Select \in {0, RS} /\ Latch /\ pc = "disable"
    BY DisableFalls
  <1>3. work' \in Nat /\ busy' = (work' > 0) /\ busy' \in BOOLEAN
        /\ lost' \in BOOLEAN
    <2>1. CASE busy
      BY <1>2, <2>1 DEF Latch, Disable, TInv, TypeOK
    <2>2. CASE ~busy
      <3>1. work' \in ClearTimes \cup OtherTimes /\ busy' = TRUE /\ lost' = lost
        BY <1>2, <2>2 DEF Latch, Disable
      <3>2. work' \in Nat /\ work' > 0
        BY <3>1, TimesAssumption
      <3> QED BY <3>1, <3>2 DEF TInv, TypeOK
    <2> QED BY <2>1, <2>2
  <1>4. received' \in Seq({0, 1} \X (Byte \cup {Garbage}))
    <2>1. <<IF DataReg THEN 1 ELSE 0, DataBus>> \in {0, 1} \X (Byte \cup {Garbage})
      BY DEF DataBus, TInv, TypeOK
    <2> DEFINE item == <<IF DataReg THEN 1 ELSE 0, DataBus>>
    <2>2. received' = received \/ received' = Append(received, item)
      BY <1>2 DEF Latch
    <2>3. item \in {0, 1} \X (Byte \cup {Garbage})
      BY <2>1
    <2> HIDE DEF item
    <2> QED BY <2>2, <2>3 DEF TInv, TypeOK
  <1>5. wait' \in 0 .. 17
    BY <1>1, CostSmall
  <1>6. TypeOK'
    BY <1>1, <1>2, <1>3, <1>4, <1>5, BitsAreBytes
    DEF Disable, StorePORTA, TInv, TypeOK
  <1>7. Lines'
    BY <1>1, <1>2 DEF Disable, StorePORTA, TInv, Lines
  <1> QED BY <1>1, <1>6, <1>7 DEF TInv

LEMMA SettingTypes ==
    ASSUME TInv, Setup \/ Enable PROVE TInv' /\ UNCHANGED <<busy, received>>
  <1>1. Select \in {0, RS} /\ Select + E \in {E, E + RS}
    BY EntryType DEF TInv, TypeOK, E, RS
  <1>2. CASE Setup
    <2>1. UNCHANGED <<busy, received, lost>>
      BY <1>1, <1>2, Setting DEF Setup, At, TInv
    <2>2. TypeOK'
      BY <1>1, <1>2, <2>1, QuietTypes, BitsAreBytes
      DEF Setup, At, GoTo, StorePORTA, TInv, TypeOK, Points
    <2> QED BY <1>1, <1>2, <2>1, <2>2
            DEF Setup, At, GoTo, StorePORTA, TInv, Lines
  <1>3. CASE Enable
    <2>1. UNCHANGED <<busy, received, lost>>
      BY <1>1, <1>3, Setting DEF Enable, At, TInv
    <2>2. TypeOK'
      BY <1>1, <1>3, <2>1, QuietTypes, BitsAreBytes
      DEF Enable, At, GoTo, StorePORTA, TInv, TypeOK, Points
    <2> QED BY <1>1, <1>3, <2>1, <2>2
            DEF Enable, At, GoTo, StorePORTA, TInv, Lines
  <1> QED BY <1>2, <1>3

LEMMA TypesStep == ASSUME TInv, [Next]_vars PROVE TInv'
  <1>1. CASE Tick
    <2>1. PICK d \in CycleTimes : Cycle(d)
      BY <1>1 DEF Tick
    <2>2. work' \in Nat /\ busy' = (work' > 0) /\ busy' \in BOOLEAN
          /\ wait' \in 0 .. 17
      BY <2>1, TimesAssumption DEF Cycle, TInv, TypeOK
    <2> QED BY <2>1, <2>2 DEF Cycle, TInv, TypeOK, Lines
  <1>2. CASE SetDDRB
    <2>1. TypeOK'
      BY <1>2, QuietTypes, BitsAreBytes
      DEF SetDDRB, At, GoTo, StoreDDRB, TInv, TypeOK, Points
    <2> QED BY <1>2, <2>1 DEF SetDDRB, At, GoTo, StoreDDRB, TInv, Lines
  <1>3. CASE SetDDRA
    <2>1. /\ pc = "ddra" /\ pc' = FirstOfEntry /\ wait' = Cost(pc')
          /\ FirstOfEntry \in Points /\ FirstOfEntry \in {"data", "call"}
          /\ Inline => FirstOfEntry # "call"
      BY <1>3 DEF SetDDRA, At, GoTo, FirstOfEntry, Points
    <2>2. work' \in Nat /\ busy' = (work' > 0) /\ busy' \in BOOLEAN
      BY <1>3, StrayTypes DEF SetDDRA, StoreDDRA, TInv
    <2>3. wait' \in 0 .. 17
      BY <2>1, CostSmall
    <2>4. TypeOK'
      BY <1>3, <2>1, <2>2, <2>3, BitsAreBytes DEF SetDDRA, StoreDDRA, TInv, TypeOK
    <2>5. Lines'
      BY <1>3, <2>1 DEF SetDDRA, StoreDDRA, TInv, Lines
    <2> QED BY <2>1, <2>4, <2>5 DEF TInv
  <1>4. CASE Call \/ Loop
    <2>1. TypeOK'
      BY <1>4, QuietTypes
      DEF Call, Loop, At, GoTo, busVars, TInv, TypeOK, Points
    <2> QED BY <1>4, <2>1 DEF Call, Loop, At, GoTo, busVars, TInv, Lines
  <1>5. CASE Data
    <2>1. Script[k][2] \in Byte
      BY EntryType DEF TInv, TypeOK
    <2>2. TypeOK'
      BY <1>5, <2>1, QuietTypes
      DEF Data, At, GoTo, StorePORTB, TInv, TypeOK, Points
    <2> QED BY <1>5, <2>2 DEF Data, At, GoTo, StorePORTB, TInv, Lines
  <1>6. CASE Setup \/ Enable
    BY <1>6, SettingTypes
  <1>7. CASE Disable
    BY <1>7, DisableTypes
  <1>8. CASE Return
    <2>1. /\ ~Inline /\ pc = "rts" /\ k' \in 1 .. Len(Script)
          /\ pc' \in {"call", "loop"} /\ wait' = Cost(pc')
          /\ UNCHANGED <<busVars, work, resets>>
      BY <1>8, EntryType
      DEF Return, At, NextEntry, GoTo, FirstOfEntry, TInv, TypeOK
    <2>2. TypeOK'
      BY <2>1, QuietTypes DEF busVars, TInv, TypeOK, Points
    <2> QED BY <2>1, <2>2 DEF busVars, TInv, Lines
  <1>9. CASE Noise
    <2>1. work' \in Nat /\ busy' = (work' > 0) /\ busy' \in BOOLEAN
      BY <1>9, StrayTypes DEF Noise, LcdNoise, TInv
    <2> QED BY <1>9, <2>1 DEF Noise, LcdNoise, cpuVars, TInv, TypeOK, Lines
  <1>10. CASE Reset
    <2>1. work' \in Nat /\ busy' = (work' > 0) /\ busy' \in BOOLEAN
      BY <1>10, StrayTypes DEF Reset, ResetVia, TInv
    <2>2. k' \in 1 .. Len(Script) /\ resets' \in 0 .. MaxResets
      BY <1>10, ScriptAssumption, ResetsAssumption DEF Reset, TInv, TypeOK
    <2>3. pc' = "reset" /\ pc' \in Points /\ wait' \in 0 .. 17
      BY <1>10, InlineAssumption DEF Reset, ResetSequence, Cost, Points
    <2>4. TypeOK'
      BY <1>10, <2>1, <2>2, <2>3, BitsAreBytes DEF Reset, ResetVia, TInv, TypeOK
    <2> QED BY <1>10, <2>3, <2>4 DEF Reset, ResetVia, TInv, Lines
  <1>11. CASE UNCHANGED vars
    BY <1>11 DEF vars, busVars, cpuVars, TInv, TypeOK, Lines
  <1> QED BY <1>1, <1>2, <1>3, <1>4, <1>5, <1>6, <1>7, <1>8, <1>9, <1>10, <1>11
          DEF Next, Cpu

(* The types, with whatever clock; the LCD is busy exactly while it has    *)
(* work left, so nothing but an accepted byte, noise and a reset starts    *)
(* work.                                                                   *)
THEOREM BlindTypes == Spec => []TypeOK
  <1>1. TInv => TypeOK
    BY DEF TInv
  <1>2. TInv /\ [Next]_vars => TInv'
    BY TypesStep
  <1> QED BY <1>1, <1>2, TypesInit, PTL DEF Spec

-----------------------------------------------------------------------------
(* How many entries the LCD has got when the program is at pc. *)
Sent ==
    CASE pc = "rts" -> k
      [] pc = "loop" -> Len(Script)
      [] OTHER -> k - 1

(* Where the entry k is: its byte in port B, RS on its pin while E is up.  *)
Placed ==
    /\ Len(received) = Sent
    /\ pc \in {"reset", "ddra"} => k = 1
    /\ pc # "reset" => ddrb = 255
    /\ pc \in {"setup", "enable", "disable"} => orb = Script[k][2]
    /\ pc = "disable" => ora = Select + E

Entries == {0, 1} \X (Byte \cup {Garbage})

LEMMA Lengths ==
    ASSUME TypeOK
    PROVE  /\ Len(received) \in Nat
           /\ \A e \in Entries : Len(Append(received, e)) = Len(received) + 1
           /\ Len(received) = 0 => received = << >>
  <1>1. received \in Seq(Entries)
    BY DEF TypeOK, Entries
  <1> QED BY <1>1, LenProperties, AppendProperties, EmptySeq

(* What the falling edge of E gives the LCD: the entry, as it is.          *)
LEMMA Delivered ==
    ASSUME NEW m, SlowEnough(m), IInv(m), TInv, Placed, Disable
    PROVE  /\ ~busy /\ busy' = TRUE
           /\ Script[k] \in Entries
           /\ received' = Append(received, Script[k])
           /\ Len(received) = k - 1
  <1>1. ~busy /\ Latch /\ pc = "disable"
    BY InTime, DisableFalls
  <1>2. k \in 1 .. Len(Script) /\ ddrb = 255 /\ orb = Script[k][2]
        /\ ora = Select + E /\ ddra = E + RW + RS /\ Len(received) = k - 1
    BY <1>1 DEF Placed, Sent, TInv, TypeOK, Lines
  <1>3. Script[k] \in {0, 1} \X Byte
    BY <1>2, EntryType
  <1>4. DataReg <=> Script[k][1] = 1
    BY <1>2, <1>3 DEF DataReg, Pin, High, Select, E, RW, RS
  <1>5. Script[k] = <<IF DataReg THEN 1 ELSE 0, DataBus>>
    BY <1>2, <1>3, <1>4 DEF DataBus
  <1> QED BY <1>1, <1>2, <1>3, <1>5 DEF Latch, Entries

LEMMA PlacedInit == Init => Placed
  BY EmptySeq DEF Init, BusInit, Placed, Sent

LEMMA PlacedStep ==
    ASSUME NEW m, SlowEnough(m), IInv(m), TInv, Placed, [Next]_vars
    PROVE  Placed'
  <1>1. CASE Tick \/ Noise \/ UNCHANGED vars
    BY <1>1
    DEF Tick, Cycle, Noise, LcdNoise, cpuVars, vars, busVars, Placed, Sent, Select
  <1>2. CASE SetDDRB
    BY <1>2 DEF SetDDRB, At, GoTo, StoreDDRB, Placed, Sent
  <1>3. CASE SetDDRA
    BY <1>3 DEF SetDDRA, At, GoTo, StoreDDRA, FirstOfEntry, Placed, Sent
  <1>4. CASE Call
    BY <1>4 DEF Call, At, GoTo, busVars, Placed, Sent
  <1>5. CASE Data
    BY <1>5 DEF Data, At, GoTo, StorePORTB, Placed, Sent
  <1>6. CASE Setup
    BY <1>6, SettingTypes DEF Setup, At, GoTo, StorePORTA, Placed, Sent
  <1>7. CASE Enable
    BY <1>7, SettingTypes DEF Enable, At, GoTo, StorePORTA, Placed, Sent, Select
  <1>8. CASE Disable
    <2>1. Len(received') = k
      <3>1. Len(Append(received, Script[k])) = Len(received) + 1
        BY <1>8, Delivered, Lengths DEF TInv
      <3>2. received' = Append(received, Script[k]) /\ Len(received) = k - 1
        BY <1>8, Delivered
      <3>3. k \in Nat
        BY DEF TInv, TypeOK
      <3> QED BY <3>1, <3>2, <3>3
    <2>2. Sent' = k
      BY <1>8, DisableGoesTo DEF Sent, TInv, TypeOK, Points
    <2>3. ddrb' = ddrb /\ pc = "disable"
      BY <1>8 DEF Disable, At, StorePORTA
    <2> QED BY <1>8, <2>1, <2>2, <2>3, DisableGoesTo DEF Placed
  <1>9. CASE Return
    <2>1. pc = "rts" /\ ~Inline /\ k \in 1 .. Len(Script)
      BY <1>9 DEF Return, At, TInv, TypeOK
    <2>2. \/ k' = k + 1 /\ pc' = "call"
          \/ k' = k /\ pc' = "loop" /\ k = Len(Script)
      BY <1>9, <2>1, EntryType DEF Return, NextEntry, GoTo, FirstOfEntry
    <2> QED BY <1>9, <2>1, <2>2 DEF Return, busVars, Placed, Sent
  <1>10. CASE Loop
    BY <1>10 DEF Loop, At, GoTo, busVars, Placed, Sent
  <1>11. CASE Reset
    BY <1>11, EmptySeq DEF Reset, ResetVia, Placed, Sent
  <1> QED BY <1>1, <1>2, <1>3, <1>4, <1>5, <1>6, <1>7, <1>8, <1>9, <1>10, <1>11
          DEF Next, Cpu

(* Each step is a step of Console or shows nothing. *)
LEMMA Quiet == UNCHANGED <<received, busy>> => [Display!Next]_(Display!vars)
  BY DEF Display!vars

LEMMA ConsoleStep ==
    ASSUME NEW m, SlowEnough(m), IInv(m), TInv, Placed, [Next]_vars
    PROVE  [Display!Next]_(Display!vars)
  <1> USE DEF Display!vars, Display!Next
  <1>1. CASE Tick
    <2>1. PICK d \in CycleTimes : Cycle(d)
      BY <1>1 DEF Tick
    <2>2. received' = received /\ busy' = (work' > 0)
      BY <2>1 DEF Cycle
    <2>3. ~busy => ~busy'
      BY <2>1, TimesAssumption DEF Cycle, TInv, TypeOK
    <2>4. busy' \in BOOLEAN /\ busy \in BOOLEAN
      BY <2>2 DEF TInv, TypeOK
    <2> QED BY <2>2, <2>3, <2>4 DEF Display!Finish
  <1>2. CASE SetDDRB \/ Call \/ Data \/ Return \/ Loop \/ UNCHANGED vars
    BY <1>2, Quiet
    DEF SetDDRB, StoreDDRB, Call, Data, StorePORTB, Return, Loop, vars, busVars
  <1>3. CASE Setup \/ Enable
    BY <1>3, SettingTypes, Quiet
  <1>4. CASE SetDDRA \/ Noise
    <2>1. pc \in {"reset", "ddra"}
      BY <1>4, Pins DEF SetDDRA, At, Noise, LcdNoise, Driven, IInv, Lines
    <2>2. received = << >>
      BY <2>1, Lengths DEF Placed, Sent, TInv
    <2>3. received' = received /\ busy' \in {busy, TRUE} /\ busy \in BOOLEAN
      BY <1>4 DEF SetDDRA, StoreDDRA, Noise, LcdNoise, TInv, TypeOK
    <2> QED BY <2>2, <2>3 DEF Display!Disturb
  <1>5. CASE Disable
    <2>1. /\ ~busy /\ busy' = TRUE /\ Len(received) = k - 1
          /\ received' = Append(received, Script[k])
      BY <1>5, Delivered
    <2>2. k \in 1 .. Len(Script) /\ Len(Script) \in Nat
      BY EntryType DEF TInv, TypeOK
    <2>3. Len(received) + 1 = k /\ Len(received) # Len(Script)
      BY <2>1, <2>2
    <2> QED BY <2>1, <2>3 DEF Display!Accept, Display!Finished
  <1>6. CASE Reset
    BY <1>6 DEF Reset, ResetVia, Display!Restart, TInv, TypeOK
  <1> QED BY <1>1, <1>2, <1>3, <1>4, <1>5, <1>6 DEF Next, Cpu

(* lcd_w_ram.s and LCD_simple_text.s: with a clock slow enough the display *)
(* executes the program's script, each entry once, in order and as it is   *)
(* written, only when it is ready, and from the start after a reset.       *)
THEOREM BlindImplementsConsole ==
    ASSUME NEW CONSTANT m, SlowEnough(m)
    PROVE  Spec => ImplementsConsole
  <1> DEFINE Inv == IInv(m) /\ TInv /\ Placed
  <1>1. Init => Inv
    BY InitInv, TypesInit, PlacedInit
  <1>2. Inv /\ [Next]_vars => Inv'
    BY NextStep, TypesStep, PlacedStep
  <1>3. Init => Display!Init
    BY DEF Init, BusInit, Display!Init
  <1>4. Inv /\ [Next]_vars => [Display!Next]_(Display!vars)
    BY ConsoleStep
  <1> QED BY <1>1, <1>2, <1>3, <1>4, PTL DEF Spec, ImplementsConsole, Display!Spec
=============================================================================
