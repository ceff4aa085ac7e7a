--------------------------- MODULE CondAsm_proofs ---------------------------
(***************************************************************************)
(* Proofs about CondAsm, for any limits, macros and counts: the level stays*)
(* in its array, macros are counted exactly, __RPTCNT is the counter of the*)
(* inner loop; and for sources in which every text closes only what it     *)
(* opened, that all levels around one that assembles assemble and that it  *)
(* behaves as Blocks says.                                                 *)
(***************************************************************************)
EXTENDS CondAsm, FiniteSetTheorems, SequenceTheorems, TLAPS

Depth == Len(srcs)

(* The texts of the stack, k being one of them: the counter of each is that*)
(* of the innermost repetition at or below it, and only repetitions are    *)
(* read more than once.                                                    *)
CounterOf(k) ==
    \/ /\ \A j \in 1 .. k : srcs[j].kind # "repeat"
       /\ srcs[k].reptn = -1
    \/ \E r \in 1 .. k :
          /\ srcs[r].kind = "repeat"
          /\ \A j \in r + 1 .. k : srcs[j].kind # "repeat"
          /\ srcs[k].reptn = srcs[r].reptn

Counters ==
    /\ rptcnt = srcs[Depth].reptn
    /\ \A k \in 1 .. Depth : CounterOf(k)
    /\ \A k \in 1 .. Depth : srcs[k].repeat > 1 => srcs[k].kind = "repeat"

TextsOf(m) == {k \in DOMAIN srcs : srcs[k].macro = m}

IInv == TypeOK /\ RecursionsCounted /\ Counters

-----------------------------------------------------------------------------
(* The stack after a push, a pop and a change to its top.                  *)
LEMMA Pushed ==
    ASSUME NEW src \in SourceType, srcs \in Seq(SourceType), srcs' = Append(srcs, src)
    PROVE  /\ srcs' \in Seq(SourceType) /\ srcs' # << >> /\ Depth' = Depth + 1
           /\ DOMAIN srcs = 1 .. Depth /\ DOMAIN srcs' = 1 .. Depth + 1
           /\ \A k \in 1 .. Depth : srcs'[k] = srcs[k]
           /\ srcs'[Depth + 1] = src
  BY AppendProperties DEF Depth

LEMMA Popped ==
    ASSUME srcs \in Seq(SourceType), Depth > 1, srcs' = Front(srcs)
    PROVE  /\ srcs' \in Seq(SourceType) /\ srcs' # << >> /\ Depth' = Depth - 1
           /\ DOMAIN srcs = 1 .. Depth /\ DOMAIN srcs' = 1 .. Depth - 1
           /\ \A k \in 1 .. Depth - 1 : srcs'[k] = srcs[k]
  <1>1. Depth \in Nat /\ DOMAIN srcs = 1 .. Depth
        /\ \A k \in 1 .. Depth : srcs[k] \in SourceType
    BY DEF Depth
  <1>2. \A k \in 1 .. Depth - 1 : srcs[k] \in SourceType
    BY <1>1
  <1>3. srcs' = SubSeq(srcs, 1, Depth - 1)
    BY DEF Front, Depth
  <1>4. /\ SubSeq(srcs, 1, Depth - 1) \in Seq(SourceType)
        /\ Len(SubSeq(srcs, 1, Depth - 1)) = Depth - 1
        /\ \A k \in 1 .. Depth - 1 : SubSeq(srcs, 1, Depth - 1)[k] = srcs[k]
    <2> DEFINE n == Depth - 1
    <2>1. n \in Nat /\ 1 <= n /\ 1 \in Int
      BY <1>1
    <2>2. \A k \in 1 .. n : srcs[k] \in SourceType
      BY <1>2
    <2> HIDE DEF n
    <2>3. /\ SubSeq(srcs, 1, n) \in Seq(SourceType)
          /\ Len(SubSeq(srcs, 1, n)) = IF 1 <= n THEN n - 1 + 1 ELSE 0
          /\ \A k \in 1 .. n - 1 + 1 : SubSeq(srcs, 1, n)[k] = srcs[1 + k - 1]
      BY <2>1, <2>2, SubSeqProperties
    <2>4. Len(SubSeq(srcs, 1, n)) = n /\ n - 1 + 1 = n
      BY <2>1, <2>3
    <2>5. \A k \in 1 .. n : SubSeq(srcs, 1, n)[k] = srcs[k]
      BY <2>1, <2>3
    <2> QED BY <2>3, <2>4, <2>5 DEF n
  <1>5. Depth' = Depth - 1
    BY <1>3, <1>4 DEF Depth
  <1>6. DOMAIN srcs' = 1 .. Depth - 1
    BY <1>3, <1>4, LenProperties
  <1>7. \A k \in 1 .. Depth - 1 : srcs'[k] = srcs[k]
    BY <1>3, <1>4
  <1>8. srcs' # << >>
    BY <1>5, <1>1 DEF Depth
  <1> QED BY <1>1, <1>3, <1>4, <1>5, <1>6, <1>7, <1>8

LEMMA TopChanged ==
    ASSUME NEW src \in SourceType, srcs \in Seq(SourceType), srcs # << >>,
           srcs' = [srcs EXCEPT ![Len(srcs)] = src]
    PROVE  /\ srcs' \in Seq(SourceType) /\ srcs' # << >> /\ Depth' = Depth
           /\ DOMAIN srcs = 1 .. Depth /\ DOMAIN srcs' = 1 .. Depth
           /\ Depth \in Nat \ {0}
           /\ \A k \in 1 .. Depth - 1 : srcs'[k] = srcs[k]
           /\ srcs'[Depth] = src
  BY DEF Depth

-----------------------------------------------------------------------------
(* The texts that begin, in any of the three ways.                         *)
LEMMA NewSource ==
    ASSUME TypeOK, NEW kind \in {"file", "macro", "repeat"},
           NEW m \in Macros \cup {NoMacro}, NEW n \in Nat \ {0}, NEW c \in Nat \cup {-1}
    PROVE  Source(kind, m, n, c) \in SourceType
  BY DEF Source, SourceType, TypeOK

LEMMA Current ==
    ASSUME TypeOK
    PROVE  /\ Depth \in Nat \ {0} /\ DOMAIN srcs = 1 .. Depth
           /\ \A k \in 1 .. Depth : srcs[k] \in SourceType
           /\ cur_src = srcs[Depth] /\ cur_src \in SourceType
  BY DEF TypeOK, Depth, cur_src, Last

LEMMA Ended ==
    ASSUME NEW src \in SourceType
    PROVE  /\ EndOf(src) \in SourceType
           /\ EndOf(src).kind = src.kind /\ EndOf(src).macro = src.macro
           /\ EndOf(src).cond_level = src.cond_level
           /\ EndOf(src).reptn = src.reptn
           /\ EndOf(src).repeat = 1 /\ EndOf(src).left = TRUE
  <1>1. [src EXCEPT !.left = TRUE] \in SourceType
    BY DEF SourceType
  <1>2. \A s \in SourceType : [s EXCEPT !.repeat = 1] \in SourceType
    BY DEF SourceType
  <1>3. EndOf(src) = [[src EXCEPT !.left = TRUE] EXCEPT !.repeat = 1]
    BY DEF SourceType, EndOf
  <1>4. EndOf(src) \in SourceType
    BY <1>1, <1>2, <1>3
  <1>5. /\ EndOf(src).kind = src.kind /\ EndOf(src).macro = src.macro
        /\ EndOf(src).cond_level = src.cond_level
        /\ EndOf(src).reptn = src.reptn
    BY DEF SourceType, EndOf
  <1>6. EndOf(src).repeat = 1 /\ EndOf(src).left = TRUE
    BY DEF SourceType, EndOf
  <1> QED BY <1>4, <1>5, <1>6

LEMMA Repeated ==
    ASSUME NEW src \in SourceType, src.repeat > 1
    PROVE  /\ Iterated(src) \in SourceType
           /\ Iterated(src).kind = src.kind /\ Iterated(src).macro = src.macro
           /\ Iterated(src).cond_level = src.cond_level
           /\ Iterated(src).reptn = src.reptn + 1
           /\ Iterated(src).left = src.left
  <1>1. src.repeat - 1 \in Nat \ {0} /\ src.reptn + 1 \in Nat \cup {-1}
    BY DEF SourceType
  <1>2. [src EXCEPT !.repeat = src.repeat - 1] \in SourceType
    BY <1>1 DEF SourceType
  <1>3. [[src EXCEPT !.repeat = src.repeat - 1] EXCEPT !.reptn = src.reptn + 1]
            \in SourceType
    BY <1>1, <1>2 DEF SourceType
  <1>4. Iterated(src) =
            [[src EXCEPT !.repeat = src.repeat - 1] EXCEPT !.reptn = src.reptn + 1]
    BY DEF SourceType, Iterated
  <1>5. Iterated(src) \in SourceType
    BY <1>3, <1>4
  <1>6. /\ Iterated(src).kind = src.kind /\ Iterated(src).macro = src.macro
        /\ Iterated(src).cond_level = src.cond_level
        /\ Iterated(src).left = src.left
    BY DEF SourceType, Iterated
  <1>7. Iterated(src).reptn = src.reptn + 1
    BY DEF SourceType, Iterated
  <1> QED BY <1>5, <1>6, <1>7

-----------------------------------------------------------------------------
LEMMA InitInv == Init => IInv
  <1> SUFFICES ASSUME Init PROVE IInv
    OBVIOUS
  <1>1. Source("file", NoMacro, 1, -1) \in SourceType
    BY LimitAssumption DEF Init, Source, SourceType
  <1>2. /\ srcs \in Seq(SourceType) /\ srcs # << >> /\ Depth = 1
        /\ DOMAIN srcs = {1} /\ srcs[1] = Source("file", NoMacro, 1, -1)
    BY <1>1 DEF Init, Depth
  <1>3. /\ srcs[1].kind = "file" /\ srcs[1].macro = NoMacro
        /\ srcs[1].repeat = 1 /\ srcs[1].reptn = -1
    BY <1>2 DEF Source
  <1>4. recursions \in [Macros -> 0 .. MaxRecursions]
    BY LimitAssumption DEF Init
  <1>5. cond \in [0 .. MaxCondLevel - 1 -> {-1, 0, 1}]
    BY DEF Init
  <1>6. TypeOK
    <2>1. /\ clev \in 0 .. MaxCondLevel - 1 /\ ifnesting \in Nat
          /\ rptcnt \in Nat \cup {-1} /\ phase \in {"reading", "done", "fatal"}
          /\ errors \subseteq {36, 56, 63, 64, 65, 66}
      BY LimitAssumption DEF Init
    <2>2. parse_end \in BOOLEAN
      BY DEF Init
    <2> QED BY <2>1, <2>2, <1>2, <1>4, <1>5 DEF TypeOK
  <1>7. ASSUME NEW m \in Macros
        PROVE  recursions[m] = Cardinality(TextsOf(m))
    <2>1. TextsOf(m) = {}
      BY <1>2, <1>3, MacroAssumption DEF TextsOf
    <2> QED BY <2>1, FS_EmptySet DEF Init
  <1>8. Counters
    <2>1. CounterOf(1)
      BY <1>3 DEF CounterOf
    <2> QED BY <1>2, <1>3, <2>1 DEF Counters, Init
  <1> QED BY <1>6, <1>7, <1>8 DEF IInv, RecursionsCounted, TextsOf

(* How many texts of a macro there are, after each change to the stack.    *)
LEMMA Counted ==
    ASSUME TypeOK, NEW m \in Macros
    PROVE  TextsOf(m) \subseteq 1 .. Depth /\ IsFiniteSet(TextsOf(m))
           /\ Cardinality(TextsOf(m)) \in Nat
  <1>1. TextsOf(m) \subseteq 1 .. Depth /\ Depth \in Nat
    BY Current DEF TextsOf
  <1>2. IsFiniteSet(1 .. Depth)
    BY <1>1, FS_Interval
  <1>3. IsFiniteSet(TextsOf(m))
    BY <1>1, <1>2, FS_Subset
  <1> QED BY <1>1, <1>3, FS_CardinalityType

LEMMA CountedPush ==
    ASSUME TypeOK, NEW m \in Macros, NEW src \in SourceType, srcs' = Append(srcs, src)
    PROVE  /\ src.macro # m => Cardinality(TextsOf(m)') = Cardinality(TextsOf(m))
           /\ src.macro = m => Cardinality(TextsOf(m)') = Cardinality(TextsOf(m)) + 1
  <1>1. /\ DOMAIN srcs = 1 .. Depth /\ DOMAIN srcs' = 1 .. Depth + 1
        /\ \A k \in 1 .. Depth : srcs'[k] = srcs[k]
        /\ srcs'[Depth + 1] = src
    BY Pushed DEF TypeOK
  <1>2. Depth \in Nat /\ 1 .. Depth + 1 = (1 .. Depth) \cup {Depth + 1}
        /\ Depth + 1 \notin 1 .. Depth
    BY Current
  <1>3. CASE src.macro # m
    <2>1. TextsOf(m)' = TextsOf(m)
      BY <1>1, <1>2, <1>3 DEF TextsOf
    <2> QED BY <2>1, <1>3
  <1>4. CASE src.macro = m
    <2>1. TextsOf(m)' = TextsOf(m) \cup {Depth + 1} /\ Depth + 1 \notin TextsOf(m)
      BY <1>1, <1>2, <1>4 DEF TextsOf
    <2>2. Cardinality(TextsOf(m) \cup {Depth + 1}) = Cardinality(TextsOf(m)) + 1
      BY <2>1, Counted, FS_AddElement
    <2> QED BY <2>1, <2>2, <1>4
  <1> QED BY <1>3, <1>4

LEMMA CountedPop ==
    ASSUME TypeOK, NEW m \in Macros, Depth > 1, srcs' = Front(srcs)
    PROVE  /\ cur_src.macro # m => Cardinality(TextsOf(m)') = Cardinality(TextsOf(m))
           /\ cur_src.macro = m =>
                /\ Cardinality(TextsOf(m)') = Cardinality(TextsOf(m)) - 1
                /\ Cardinality(TextsOf(m)) > 0
  <1>1. /\ DOMAIN srcs = 1 .. Depth /\ DOMAIN srcs' = 1 .. Depth - 1
        /\ \A k \in 1 .. Depth - 1 : srcs'[k] = srcs[k]
    BY Popped DEF TypeOK
  <1>2. Depth \in Nat /\ 1 .. Depth = (1 .. Depth - 1) \cup {Depth}
        /\ Depth \notin 1 .. Depth - 1 /\ cur_src = srcs[Depth] /\ Depth \in 1 .. Depth
    BY Current
  <1>3. CASE cur_src.macro # m
    <2>1. TextsOf(m)' = TextsOf(m)
      BY <1>1, <1>2, <1>3 DEF TextsOf
    <2> QED BY <2>1, <1>3
  <1>4. CASE cur_src.macro = m
    <2>1. TextsOf(m)' = TextsOf(m) \ {Depth} /\ Depth \in TextsOf(m)
      BY <1>1, <1>2, <1>4 DEF TextsOf
    <2>2. Cardinality(TextsOf(m) \ {Depth}) = Cardinality(TextsOf(m)) - 1
      BY <2>1, Counted, FS_RemoveElement
    <2>3. IsFiniteSet(TextsOf(m)')
      BY <2>1, Counted, FS_RemoveElement
    <2>4. Cardinality(TextsOf(m)') \in Nat
      BY <2>3, FS_CardinalityType
    <2> QED BY <2>1, <2>2, <2>4, Counted, <1>4
  <1> QED BY <1>3, <1>4

LEMMA CountedTop ==
    ASSUME TypeOK, NEW m \in Macros, NEW src \in SourceType, ChangeTop(src),
           src.macro = cur_src.macro
    PROVE  TextsOf(m)' = TextsOf(m)
  <1>1. /\ DOMAIN srcs = 1 .. Depth /\ DOMAIN srcs' = 1 .. Depth
        /\ Depth \in Nat \ {0}
        /\ \A k \in 1 .. Depth - 1 : srcs'[k] = srcs[k]
        /\ srcs'[Depth] = src
    BY TopChanged DEF TypeOK, ChangeTop
  <1>2. \A k \in 1 .. Depth : srcs'[k].macro = srcs[k].macro
    BY <1>1, Current
  <1> QED BY <1>1, <1>2 DEF TextsOf

-----------------------------------------------------------------------------
(* The types of what each step writes.                                     *)
LEMMA TypeStep == ASSUME IInv, [Next]_vars PROVE TypeOK'
  <1> USE DEF IInv
  <1> DEFINE SourcesTyped ==
          /\ srcs \in Seq(SourceType) /\ srcs # << >>
          /\ recursions \in [Macros -> 0 .. MaxRecursions]
          /\ rptcnt \in Nat \cup {-1}
      LevelsTyped ==
          /\ clev \in 0 .. MaxCondLevel - 1
          /\ cond \in [0 .. MaxCondLevel - 1 -> {-1, 0, 1}]
          /\ ifnesting \in Nat
      RestTyped ==
          /\ phase \in {"reading", "done", "fatal"}
          /\ errors \subseteq {36, 56, 63, 64, 65, 66}
  <1>1. SourcesTyped /\ LevelsTyped /\ RestTyped /\ parse_end \in BOOLEAN
    BY DEF TypeOK
  <1>2. UNCHANGED sourceVars => SourcesTyped'
    BY <1>1 DEF sourceVars
  <1>3. UNCHANGED condVars => LevelsTyped'
    BY <1>1 DEF condVars
  <1>4. UNCHANGED <<phase, errors>> => RestTyped'
    BY <1>1
  <1>5. UNCHANGED parse_end => parse_end' \in BOOLEAN
    BY <1>1, Zenon
  <1>6. SUFFICES SourcesTyped' /\ LevelsTyped' /\ RestTyped' /\ parse_end' \in BOOLEAN
    BY DEF TypeOK
  <1>7. CASE UNCHANGED vars
    <2>1. UNCHANGED sourceVars /\ UNCHANGED condVars /\ UNCHANGED <<phase, errors>>
          /\ UNCHANGED parse_end
      BY <1>7 DEF vars
    <2> QED BY <2>1, <1>2, <1>3, <1>4, <1>5
  <1>8. CASE \E holds \in BOOLEAN : If(holds)
    <2>1. PICK holds \in BOOLEAN : If(holds)
      BY <1>8
    <2>2. UNCHANGED sourceVars /\ UNCHANGED parse_end /\ UNCHANGED ifnesting
      BY <2>1 DEF If
    <2>3. LevelsTyped'
      <3>1. CASE TooDeep(clev + 1)
        BY <2>1, <2>2, <1>1, <3>1 DEF If
      <3>2. CASE ~TooDeep(clev + 1)
        <4>1. clev' = clev + 1 /\ clev + 1 \in 0 .. MaxCondLevel - 1
          BY <2>1, <3>2, <1>1, LimitAssumption DEF If, TooDeep
        <4>2. cond' = [cond EXCEPT ![clev + 1] = IF holds THEN 1 ELSE 0]
          BY <2>1, <3>2 DEF If
        <4>3. (IF holds THEN 1 ELSE 0) \in {-1, 0, 1}
          OBVIOUS
        <4> QED BY <4>1, <4>2, <4>3, <2>2, <1>1
      <3> QED BY <3>1, <3>2
    <2>4. RestTyped'
      BY <2>1, <1>1 DEF If, Fatal, Report
    <2> QED BY <2>2, <2>3, <2>4, <1>2, <1>5
  <1>9. CASE SkipIf
    <2>1. LevelsTyped'
      BY <1>9, <1>1 DEF SkipIf
    <2> QED BY <2>1, <1>9, <1>2, <1>4, <1>5 DEF SkipIf
  <1>10. CASE ElseEnds
    <2>1. LevelsTyped'
      BY <1>10, <1>1 DEF ElseEnds
    <2>2. RestTyped'
      BY <1>10, <1>1 DEF ElseEnds, Report
    <2> QED BY <2>1, <2>2, <1>10, <1>2, <1>5 DEF ElseEnds
  <1>11. CASE ElseStarts
    <2>1. LevelsTyped'
      BY <1>11, <1>1 DEF ElseStarts
    <2> QED BY <2>1, <1>11, <1>2, <1>4, <1>5 DEF ElseStarts
  <1>12. CASE Endif
    <2>1. LevelsTyped'
      <3>1. /\ cond' = cond
            /\ \/ ifnesting' = ifnesting
               \/ ifnesting > 0 /\ ifnesting' = ifnesting - 1
        BY <1>12 DEF Endif
      <3>2. \/ clev' = clev
            \/ clev > 0 /\ clev' = clev - 1
        BY <1>12 DEF Endif
      <3> QED BY <3>1, <3>2, <1>1, LimitAssumption
    <2>2. RestTyped'
      BY <1>12, <1>1 DEF Endif, Report
    <2> QED BY <2>1, <2>2, <1>12, <1>2, <1>5 DEF Endif
  <1>13. CASE Include
    <2> DEFINE src == Source("file", NoMacro, 1, cur_src.reptn)
    <2>1. src \in SourceType
      <3>1. cur_src.reptn \in Nat \cup {-1} /\ 1 \in Nat \ {0}
        BY Current DEF SourceType
      <3>2. NoMacro \in Macros \cup {NoMacro} /\ "file" \in {"file", "macro", "repeat"}
        OBVIOUS
      <3> QED BY <3>1, <3>2, NewSource
    <2>2. srcs' = Append(srcs, src)
      BY <1>13 DEF Include, Push
    <2> HIDE DEF src
    <2>3. SourcesTyped'
      BY <1>13, <1>1, <2>1, <2>2, Pushed DEF Include
    <2> QED BY <2>3, <1>13, <1>3, <1>4, <1>5 DEF Include
  <1>14. CASE \E m \in Macros : Call(m)
    <2>1. PICK m \in Macros : Call(m)
      BY <1>14
    <2> DEFINE src == Source("macro", m, 1, cur_src.reptn)
    <2>2. src \in SourceType
      <3>1. cur_src.reptn \in Nat \cup {-1} /\ 1 \in Nat \ {0}
        BY Current DEF SourceType
      <3>2. m \in Macros \cup {NoMacro} /\ "macro" \in {"file", "macro", "repeat"}
        OBVIOUS
      <3> QED BY <3>1, <3>2, NewSource
    <2>3. SourcesTyped'
      <3>1. CASE recursions[m] >= MaxRecursions
        BY <2>1, <3>1, <1>1, LimitAssumption DEF Call
      <3>2. CASE recursions[m] < MaxRecursions
        <4>1. srcs' = Append(srcs, src)
          BY <2>1, <3>2, <1>1, LimitAssumption DEF Call, Push
        <4>2. recursions' = [recursions EXCEPT ![m] = @ + 1]
          BY <2>1, <3>2, <1>1, LimitAssumption DEF Call
        <4>3. recursions[m] + 1 \in 0 .. MaxRecursions
          BY <3>2, <1>1, LimitAssumption
        <4>4. recursions' \in [Macros -> 0 .. MaxRecursions]
          BY <4>2, <4>3, <1>1
        <4>5. UNCHANGED rptcnt
          BY <2>1 DEF Call
        <4> HIDE DEF src
        <4> QED BY <4>1, <4>4, <4>5, <2>2, <1>1, Pushed
      <3> QED BY <3>1, <3>2, <1>1, LimitAssumption
    <2>4. RestTyped'
      BY <2>1, <1>1 DEF Call, Fatal, Report
    <2> QED BY <2>1, <2>3, <2>4, <1>3, <1>5 DEF Call
  <1>15. CASE \E n \in 1 .. MaxRepeat : Rept(n)
    <2>1. PICK n \in 1 .. MaxRepeat : Rept(n)
      BY <1>15
    <2> DEFINE src == Source("repeat", NoMacro, n, 0)
    <2>2. src \in SourceType
      BY NewSource, LimitAssumption
    <2>3. srcs' = Append(srcs, src)
      BY <2>1 DEF Rept, Push
    <2> HIDE DEF src
    <2>4. SourcesTyped'
      BY <2>1, <1>1, <2>2, <2>3, Pushed DEF Rept
    <2> QED BY <2>1, <2>4, <1>3, <1>4, <1>5 DEF Rept
  <1>16. CASE ExitMacro
    <2>1. SourcesTyped'
      <3>1. CASE cur_src.macro # NoMacro
        <4>1. ChangeTop(EndOf(cur_src)) /\ EndOf(cur_src) \in SourceType
          BY <1>16, <3>1, Current, Ended DEF ExitMacro
        <4> QED BY <4>1, <1>16, <1>1, TopChanged DEF ExitMacro, ChangeTop
      <3>2. CASE cur_src.macro = NoMacro
        BY <1>16, <3>2, <1>1 DEF ExitMacro
      <3> QED BY <3>1, <3>2
    <2>2. cur_src.cond_level \in 0 .. MaxCondLevel - 1
      BY Current DEF SourceType
    <2>3. LevelsTyped'
      BY <1>16, <1>1, <2>2 DEF ExitMacro, ExitLevel
    <2>4. RestTyped'
      BY <1>16, <1>1 DEF ExitMacro, Report
    <2> QED BY <2>1, <2>3, <2>4, <1>16, <1>5 DEF ExitMacro
  <1>17. CASE End
    <2>1. parse_end' \in BOOLEAN
      BY <1>17, Zenon DEF End
    <2> QED BY <2>1, <1>17, <1>2, <1>3, <1>4 DEF End
  <1>18. CASE Again
    <2>1. ChangeTop(Iterated(cur_src)) /\ Iterated(cur_src) \in SourceType
      BY <1>18, Current, Repeated DEF Again
    <2>2. cur_src.reptn + 1 \in Nat \cup {-1}
      BY Current DEF SourceType
    <2>3. SourcesTyped'
      BY <1>18, <1>1, <2>1, <2>2, TopChanged DEF Again, ChangeTop
    <2> QED BY <2>3, <1>18, <1>3, <1>4, <1>5 DEF Again
  <1>19. CASE Return
    <2>1. Depth > 1 /\ srcs' = Front(srcs)
      BY <1>19 DEF Return, Depth
    <2>2. srcs' \in Seq(SourceType) /\ srcs' # << >> /\ Depth' \in Nat \ {0}
          /\ \A k \in 1 .. Depth' : srcs'[k] \in SourceType
      BY <2>1, <1>1, Popped, Current DEF Depth
    <2>3. Last(Front(srcs)) = srcs'[Depth'] /\ Depth' \in 1 .. Depth'
      BY <2>1, <2>2 DEF Last, Depth
    <2>4. Last(Front(srcs)) \in SourceType
      BY <2>2, <2>3
    <2>5. rptcnt' \in Nat \cup {-1}
      BY <2>4, <1>19 DEF Return, ParentCounter, SourceType
    <2>6. \A m \in Macros :
              (IF m = cur_src.macro THEN recursions[m] - 1 ELSE recursions[m])
                  \in 0 .. MaxRecursions
      <3> SUFFICES ASSUME NEW m \in Macros
          PROVE  (IF m = cur_src.macro THEN recursions[m] - 1 ELSE recursions[m])
                     \in 0 .. MaxRecursions
        OBVIOUS
      <3>1. cur_src.macro = m => recursions[m] > 0
        BY <2>1, CountedPop DEF RecursionsCounted, TextsOf
      <3> QED BY <3>1, <1>1, LimitAssumption
    <2>7. recursions' \in [Macros -> 0 .. MaxRecursions]
      BY <2>6, <1>19 DEF Return, Release
    <2> QED BY <2>2, <2>5, <2>7, <1>19, <1>3, <1>4, <1>5 DEF Return
  <1>20. CASE Finish
    <2>1. RestTyped'
      BY <1>20, <1>1 DEF Finish
    <2> QED BY <2>1, <1>20, <1>2, <1>3, <1>5 DEF Finish
  <1> QED BY <1>7, <1>8, <1>9, <1>10, <1>11, <1>12, <1>13, <1>14, <1>15, <1>16,
             <1>17, <1>18, <1>19, <1>20 DEF Next

-----------------------------------------------------------------------------
(* What each step does to the stack: nothing, or it begins a text, which   *)
(* is a repetition or has the counter of its parent; cuts short or repeats *)
(* the last text; or ends it.                                              *)
Keeps == UNCHANGED sourceVars

Begins(m) ==
    \E kind \in {"file", "macro"} :
        /\ srcs' = Append(srcs, Source(kind, m, 1, cur_src.reptn))
        /\ recursions' = IF m = NoMacro THEN recursions
                         ELSE [recursions EXCEPT ![m] = @ + 1]
        /\ UNCHANGED rptcnt

LEMMA StackSteps ==
    ASSUME TypeOK, [Next]_vars
    PROVE  \/ Keeps
           \/ \E m \in Macros \cup {NoMacro} : Begins(m)
           \/ \E n \in 1 .. MaxRepeat : Rept(n)
           \/ ExitMacro /\ cur_src.macro # NoMacro
           \/ Again
           \/ Return
  <1>1. CASE UNCHANGED vars
    BY <1>1 DEF vars, Keeps
  <1>2. CASE \E holds \in BOOLEAN : If(holds)
    BY <1>2 DEF If, Keeps
  <1>3. CASE SkipIf \/ ElseEnds \/ ElseStarts \/ Endif \/ End \/ Finish
    BY <1>3 DEF SkipIf, ElseEnds, ElseStarts, Endif, End, Finish, Keeps
  <1>4. CASE Include
    <2>1. Begins(NoMacro)
      BY <1>4 DEF Include, Push, Begins
    <2> QED BY <2>1
  <1>5. CASE \E m \in Macros : Call(m)
    <2>1. PICK m \in Macros : Call(m)
      BY <1>5
    <2>2. m # NoMacro
      BY MacroAssumption
    <2>3. Keeps \/ Begins(m)
      BY <2>1, <2>2 DEF Call, Push, Keeps, Begins, sourceVars
    <2> QED BY <2>3
  <1>6. CASE ExitMacro
    BY <1>6 DEF ExitMacro, Keeps, sourceVars
  <1> QED BY <1>1, <1>2, <1>3, <1>4, <1>5, <1>6 DEF Next

(* A text of a macro begins and ends together with its count.              *)
LEMMA CountStep == ASSUME IInv, [Next]_vars PROVE RecursionsCounted'
  <1>1. TypeOK /\ \A m \in Macros : recursions[m] = Cardinality(TextsOf(m))
    BY DEF IInv, RecursionsCounted, TextsOf
  <1>2. SUFFICES ASSUME NEW m \in Macros
                 PROVE  recursions'[m] = Cardinality(TextsOf(m)')
    BY DEF RecursionsCounted, TextsOf
  <1>3. recursions[m] = Cardinality(TextsOf(m)) /\ recursions[m] \in Nat
    BY <1>1, LimitAssumption DEF TypeOK
  <1>4. CASE Keeps
    <2>1. TextsOf(m)' = TextsOf(m) /\ recursions' = recursions
      BY <1>4 DEF Keeps, sourceVars, TextsOf
    <2> QED BY <2>1, <1>3
  <1>5. CASE \E n \in Macros \cup {NoMacro} : Begins(n)
    <2>1. PICK n \in Macros \cup {NoMacro} : Begins(n)
      BY <1>5
    <2>2. PICK kind \in {"file", "macro"} :
              srcs' = Append(srcs, Source(kind, n, 1, cur_src.reptn))
      BY <2>1 DEF Begins
    <2> DEFINE src == Source(kind, n, 1, cur_src.reptn)
    <2>3. src \in SourceType
      <3>1. cur_src.reptn \in Nat \cup {-1} /\ 1 \in Nat \ {0}
        BY <1>1, Current DEF SourceType
      <3> QED BY <3>1, <1>1, NewSource
    <2>4. src.macro = n
      BY DEF Source
    <2>5. /\ n # m => Cardinality(TextsOf(m)') = Cardinality(TextsOf(m))
          /\ n = m => Cardinality(TextsOf(m)') = Cardinality(TextsOf(m)) + 1
      <3> HIDE DEF src
      <3>1. srcs' = Append(srcs, src)
        BY <2>2 DEF src
      <3> QED BY <3>1, <2>3, <2>4, <1>1, CountedPush
    <2>6. /\ n # m => recursions'[m] = recursions[m]
          /\ n = m => recursions'[m] = recursions[m] + 1
      BY <2>1, <1>1, MacroAssumption DEF Begins, TypeOK
    <2> QED BY <2>5, <2>6, <1>3
  <1>6. CASE \E n \in 1 .. MaxRepeat : Rept(n)
    <2>1. PICK n \in 1 .. MaxRepeat : Rept(n)
      BY <1>6
    <2> DEFINE src == Source("repeat", NoMacro, n, 0)
    <2>2. src \in SourceType
      BY <1>1, NewSource, LimitAssumption
    <2>3. src.macro # m
      BY MacroAssumption DEF Source
    <2>4. srcs' = Append(srcs, src) /\ UNCHANGED recursions
      BY <2>1 DEF Rept, Push
    <2> HIDE DEF src
    <2>5. Cardinality(TextsOf(m)') = Cardinality(TextsOf(m))
      BY <2>2, <2>3, <2>4, <1>1, CountedPush
    <2> QED BY <2>4, <2>5, <1>3
  <1>7. CASE ExitMacro /\ cur_src.macro # NoMacro
    <2>1. ChangeTop(EndOf(cur_src)) /\ UNCHANGED recursions
      BY <1>7 DEF ExitMacro
    <2>2. TextsOf(m)' = TextsOf(m)
      BY <2>1, <1>1, Current, Ended, CountedTop
    <2> QED BY <2>1, <2>2, <1>3
  <1>8. CASE Again
    <2>1. ChangeTop(Iterated(cur_src)) /\ UNCHANGED recursions /\ cur_src.repeat > 1
      BY <1>8 DEF Again
    <2>2. TextsOf(m)' = TextsOf(m)
      BY <2>1, <1>1, Current, Repeated, CountedTop
    <2> QED BY <2>1, <2>2, <1>3
  <1>9. CASE Return
    <2>1. Depth > 1 /\ srcs' = Front(srcs) /\ recursions' = Release
      BY <1>9 DEF Return, Depth
    <2>2. recursions'[m] =
              IF m = cur_src.macro THEN recursions[m] - 1 ELSE recursions[m]
      BY <2>1 DEF Release
    <2>3. /\ cur_src.macro # m => Cardinality(TextsOf(m)') = Cardinality(TextsOf(m))
          /\ cur_src.macro = m =>
                Cardinality(TextsOf(m)') = Cardinality(TextsOf(m)) - 1
      BY <2>1, <1>1, CountedPop
    <2> QED BY <2>2, <2>3, <1>3
  <1> QED BY <1>1, <1>4, <1>5, <1>6, <1>7, <1>8, <1>9, StackSteps

(* The counter of a text depends on the texts up to it only.               *)
LEMMA SameCounter ==
    ASSUME NEW k \in Nat, \A j \in 1 .. k : /\ srcs'[j].kind = srcs[j].kind
                                           /\ srcs'[j].reptn = srcs[j].reptn,
           CounterOf(k), k > 0
    PROVE  CounterOf(k)'
  <1>1. CASE (\A j \in 1 .. k : srcs[j].kind # "repeat") /\ srcs[k].reptn = -1
    BY <1>1 DEF CounterOf
  <1>2. CASE \E r \in 1 .. k : /\ srcs[r].kind = "repeat"
                               /\ \A j \in r + 1 .. k : srcs[j].kind # "repeat"
                               /\ srcs[k].reptn = srcs[r].reptn
    <2>1. PICK r \in 1 .. k : /\ srcs[r].kind = "repeat"
                             /\ \A j \in r + 1 .. k : srcs[j].kind # "repeat"
                             /\ srcs[k].reptn = srcs[r].reptn
      BY <1>2
    <2>2. \A j \in r + 1 .. k : j \in 1 .. k
      BY <2>1
    <2>3. /\ srcs'[r].kind = "repeat"
          /\ \A j \in r + 1 .. k : srcs'[j].kind # "repeat"
          /\ srcs'[k].reptn = srcs'[r].reptn
      BY <2>1, <2>2
    <2> QED BY <2>3 DEF CounterOf
  <1> QED BY <1>1, <1>2 DEF CounterOf

(* A text put on the stack is a repetition, or has the counter of the text *)
(* below it.                                                               *)
LEMMA CounterPush ==
    ASSUME TypeOK, Counters, NEW src \in SourceType, srcs' = Append(srcs, src),
           \/ src.kind # "repeat" /\ src.reptn = cur_src.reptn
           \/ src.kind = "repeat",
           src.repeat > 1 => src.kind = "repeat",
           rptcnt' = src.reptn
    PROVE  Counters'
  <1>1. /\ Depth' = Depth + 1 /\ Depth \in Nat \ {0}
        /\ \A k \in 1 .. Depth : srcs'[k] = srcs[k]
        /\ srcs'[Depth + 1] = src /\ cur_src = srcs[Depth]
    BY Pushed, Current DEF TypeOK
  <1>2. ASSUME NEW k \in 1 .. Depth + 1 PROVE CounterOf(k)'
    <2>1. CASE k \in 1 .. Depth
      <3>1. k \in Nat /\ k > 0 /\ CounterOf(k)
        BY <2>1, <1>1 DEF Counters
      <3>2. \A j \in 1 .. k : j \in 1 .. Depth
        BY <2>1, <1>1
      <3>3. \A j \in 1 .. k : /\ srcs'[j].kind = srcs[j].kind
                              /\ srcs'[j].reptn = srcs[j].reptn
        BY <3>2, <1>1
      <3> QED BY <3>1, <3>3, SameCounter
    <2>2. CASE k = Depth + 1 /\ src.kind = "repeat"
      <3>1. k \in 1 .. k /\ srcs'[k].kind = "repeat" /\ k + 1 .. k = {}
        BY <2>2, <1>1
      <3> QED BY <3>1 DEF CounterOf
    <2>3. CASE k = Depth + 1 /\ src.kind # "repeat" /\ src.reptn = srcs[Depth].reptn
      <3>1. CounterOf(Depth)
        BY <1>1 DEF Counters
      <3>2. CASE (\A j \in 1 .. Depth : srcs[j].kind # "repeat") /\ srcs[Depth].reptn = -1
        <4>1. \A j \in 1 .. k : j \in 1 .. Depth \/ j = k
          BY <2>3, <1>1
        <4>2. \A j \in 1 .. k : srcs'[j].kind # "repeat"
          BY <4>1, <3>2, <2>3, <1>1
        <4> QED BY <4>2, <3>2, <2>3, <1>1 DEF CounterOf
      <3>3. CASE \E r \in 1 .. Depth :
                    /\ srcs[r].kind = "repeat"
                    /\ \A j \in r + 1 .. Depth : srcs[j].kind # "repeat"
                    /\ srcs[Depth].reptn = srcs[r].reptn
        <4>1. PICK r \in 1 .. Depth :
                    /\ srcs[r].kind = "repeat"
                    /\ \A j \in r + 1 .. Depth : srcs[j].kind # "repeat"
                    /\ srcs[Depth].reptn = srcs[r].reptn
          BY <3>3
        <4>2. r \in 1 .. k /\ srcs'[r] = srcs[r] /\ srcs'[k] = src
          <5>1. r \in 1 .. Depth /\ k = Depth + 1 /\ Depth \in Nat
            BY <4>1, <2>3, <1>1
          <5>2. r \in 1 .. k
            BY <5>1
          <5> QED BY <5>1, <5>2, <1>1
        <4>5. srcs'[r].kind = "repeat" /\ srcs'[k].reptn = srcs'[r].reptn
          BY <4>1, <4>2, <2>3
        <4>3. \A j \in r + 1 .. k :
                  \/ j \in r + 1 .. Depth /\ j \in 1 .. Depth
                  \/ j = k
          BY <4>1, <2>3, <1>1
        <4>4. \A j \in r + 1 .. k : srcs'[j].kind # "repeat"
          BY <4>1, <4>3, <2>3, <1>1
        <4> QED BY <4>2, <4>4, <4>5 DEF CounterOf
      <3> QED BY <3>1, <3>2, <3>3 DEF CounterOf
    <2>4. k \in 1 .. Depth \/ k = Depth + 1
      BY <1>1
    <2> QED BY <2>1, <2>2, <2>3, <2>4, <1>1
  <1>3. ASSUME NEW k \in 1 .. Depth + 1, srcs'[k].repeat > 1
        PROVE  srcs'[k].kind = "repeat"
    <2>1. k \in 1 .. Depth \/ k = Depth + 1
      BY <1>1
    <2> QED BY <2>1, <1>1, <1>3 DEF Counters
  <1> QED BY <1>1, <1>2, <1>3 DEF Counters

LEMMA CounterStep == ASSUME IInv, [Next]_vars PROVE Counters'
  <1>1. TypeOK /\ Counters
    BY DEF IInv
  <1>2. CASE Keeps
    BY <1>1, <1>2 DEF Keeps, sourceVars, Counters, CounterOf, Depth
  <1>3. CASE \E m \in Macros \cup {NoMacro} : Begins(m)
    <2>1. PICK m \in Macros \cup {NoMacro}, kind \in {"file", "macro"} :
              /\ srcs' = Append(srcs, Source(kind, m, 1, cur_src.reptn))
              /\ UNCHANGED rptcnt
      BY <1>3 DEF Begins
    <2> DEFINE src == Source(kind, m, 1, cur_src.reptn)
    <2>2. src \in SourceType
      <3>1. cur_src.reptn \in Nat \cup {-1} /\ 1 \in Nat \ {0}
        BY <1>1, Current DEF SourceType
      <3> QED BY <3>1, <1>1, NewSource
    <2>3. src.kind # "repeat" /\ src.reptn = cur_src.reptn /\ src.repeat = 1
      BY DEF Source
    <2>4. rptcnt' = cur_src.reptn
      BY <2>1, <1>1, Current DEF Counters
    <2>5. srcs' = Append(srcs, src)
      BY <2>1
    <2> HIDE DEF src
    <2> QED BY <2>2, <2>3, <2>4, <2>5, <1>1, CounterPush
  <1>4. CASE \E n \in 1 .. MaxRepeat : Rept(n)
    <2>1. PICK n \in 1 .. MaxRepeat : Rept(n)
      BY <1>4
    <2> DEFINE src == Source("repeat", NoMacro, n, 0)
    <2>2. src \in SourceType
      BY <1>1, NewSource, LimitAssumption
    <2>3. src.kind = "repeat" /\ src.reptn = 0
      BY DEF Source
    <2>4. srcs' = Append(srcs, src) /\ rptcnt' = 0
      BY <2>1 DEF Rept, Push
    <2> HIDE DEF src
    <2> QED BY <2>2, <2>3, <2>4, <1>1, CounterPush
  <1>5. CASE ExitMacro /\ cur_src.macro # NoMacro
    <2>1. ChangeTop(EndOf(cur_src)) /\ UNCHANGED rptcnt
      BY <1>5 DEF ExitMacro
    <2>2. /\ Depth' = Depth /\ Depth \in Nat \ {0} /\ srcs'[Depth] = EndOf(cur_src)
          /\ \A k \in 1 .. Depth - 1 : srcs'[k] = srcs[k]
      BY <2>1, <1>1, Current, Ended, TopChanged DEF ChangeTop, TypeOK
    <2>3. \A k \in 1 .. Depth : /\ srcs'[k].kind = srcs[k].kind
                                /\ srcs'[k].reptn = srcs[k].reptn
      <3>1. /\ EndOf(cur_src).kind = srcs[Depth].kind
            /\ EndOf(cur_src).reptn = srcs[Depth].reptn
        BY <1>1, Current, Ended
      <3>2. \A k \in 1 .. Depth : k = Depth \/ k \in 1 .. Depth - 1
        BY <2>2
      <3> QED BY <3>1, <3>2, <2>2
    <2>4. ASSUME NEW k \in 1 .. Depth PROVE CounterOf(k)'
      <3>1. k \in Nat /\ k > 0 /\ CounterOf(k)
        BY <1>1, <2>2 DEF Counters
      <3>2. \A j \in 1 .. k : j \in 1 .. Depth
        BY <2>2
      <3>3. \A j \in 1 .. k : /\ srcs'[j].kind = srcs[j].kind
                              /\ srcs'[j].reptn = srcs[j].reptn
        BY <3>2, <2>3
      <3> QED BY <3>1, <3>3, SameCounter
    <2>5. ASSUME NEW k \in 1 .. Depth, srcs'[k].repeat > 1
          PROVE  srcs'[k].kind = "repeat"
      <3>1. srcs'[Depth].repeat = 1
        BY <2>2, <1>1, Current, Ended
      <3>2. k \in 1 .. Depth - 1
        BY <3>1, <2>5, <2>2
      <3> QED BY <3>2, <2>2, <2>5, <1>1 DEF Counters
    <2>6. rptcnt' = srcs'[Depth].reptn
      BY <2>1, <2>2, <2>3, <1>1 DEF Counters
    <2> QED BY <2>2, <2>4, <2>5, <2>6 DEF Counters
  <1>6. CASE Again
    <2>1. ChangeTop(Iterated(cur_src)) /\ rptcnt' = cur_src.reptn + 1 /\ cur_src.repeat > 1
      BY <1>6 DEF Again
    <2>2. /\ Depth' = Depth /\ Depth \in Nat \ {0} /\ srcs'[Depth] = Iterated(cur_src)
          /\ \A k \in 1 .. Depth - 1 : srcs'[k] = srcs[k]
      BY <2>1, <1>1, Current, Repeated, TopChanged DEF ChangeTop, TypeOK
    <2>3. cur_src.kind = "repeat"
      BY <2>1, <1>1, Current DEF Counters
    <2>4. srcs'[Depth].kind = "repeat" /\ srcs'[Depth].reptn = cur_src.reptn + 1
      BY <2>1, <2>2, <2>3, <1>1, Current, Repeated
    <2>5. ASSUME NEW k \in 1 .. Depth PROVE CounterOf(k)'
      <3>1. CASE k = Depth
        <4>1. k \in 1 .. k /\ srcs'[k].kind = "repeat" /\ k + 1 .. k = {}
          BY <3>1, <2>2, <2>4
        <4> QED BY <4>1 DEF CounterOf
      <3>2. CASE k \in 1 .. Depth - 1
        <4>1. k \in Nat /\ k > 0 /\ CounterOf(k)
          BY <1>1, <2>2 DEF Counters
        <4>2. \A j \in 1 .. k : j \in 1 .. Depth - 1
          BY <3>2, <2>2
        <4>3. \A j \in 1 .. k : /\ srcs'[j].kind = srcs[j].kind
                                /\ srcs'[j].reptn = srcs[j].reptn
          BY <4>2, <2>2
        <4> QED BY <4>1, <4>3, SameCounter
      <3> QED BY <3>1, <3>2, <2>2
    <2>6. ASSUME NEW k \in 1 .. Depth, srcs'[k].repeat > 1
          PROVE  srcs'[k].kind = "repeat"
      <3>1. k = Depth \/ k \in 1 .. Depth - 1
        BY <2>2
      <3> QED BY <3>1, <2>2, <2>4, <2>6, <1>1 DEF Counters
    <2> QED BY <2>1, <2>2, <2>4, <2>5, <2>6 DEF Counters
  <1>7. CASE Return
    <2>1. Depth > 1 /\ srcs' = Front(srcs) /\ rptcnt' = Last(Front(srcs)).reptn
      BY <1>7 DEF Return, Depth, ParentCounter
    <2>2. /\ Depth' = Depth - 1 /\ Depth \in Nat
          /\ \A k \in 1 .. Depth - 1 : srcs'[k] = srcs[k]
      BY <2>1, <1>1, Current, Popped DEF TypeOK
    <2>3. rptcnt' = srcs'[Depth'].reptn
      BY <2>1 DEF Last, Depth
    <2>4. ASSUME NEW k \in 1 .. Depth - 1 PROVE CounterOf(k)'
      <3>1. k \in Nat /\ k > 0 /\ CounterOf(k)
        BY <1>1, <2>2 DEF Counters
      <3>2. \A j \in 1 .. k : j \in 1 .. Depth - 1
        BY <2>2
      <3>3. \A j \in 1 .. k : /\ srcs'[j].kind = srcs[j].kind
                              /\ srcs'[j].reptn = srcs[j].reptn
        BY <3>2, <2>2
      <3> QED BY <3>1, <3>3, SameCounter
    <2>5. ASSUME NEW k \in 1 .. Depth - 1, srcs'[k].repeat > 1
          PROVE  srcs'[k].kind = "repeat"
      BY <2>2, <2>5, <1>1 DEF Counters
    <2> QED BY <2>2, <2>3, <2>4, <2>5 DEF Counters
  <1> QED BY <1>1, <1>2, <1>3, <1>4, <1>5, <1>6, <1>7, StackSteps

LEMMA CounterIsInner == ASSUME IInv PROVE RptcntIsInner
  <1>1. /\ DOMAIN srcs = 1 .. Depth /\ Depth \in Nat \ {0}
        /\ rptcnt = srcs[Depth].reptn /\ CounterOf(Depth)
    BY Current DEF IInv, Counters
  <1>2. CASE (\A j \in 1 .. Depth : srcs[j].kind # "repeat") /\ srcs[Depth].reptn = -1
    <2>1. Repeats = {}
      BY <1>1, <1>2 DEF Repeats
    <2> QED BY <2>1, <1>1, <1>2 DEF RptcntIsInner, InnerCounter
  <1>3. CASE \E r \in 1 .. Depth :
                /\ srcs[r].kind = "repeat"
                /\ \A j \in r + 1 .. Depth : srcs[j].kind # "repeat"
                /\ srcs[Depth].reptn = srcs[r].reptn
    <2>1. PICK r \in 1 .. Depth :
                /\ srcs[r].kind = "repeat"
                /\ \A j \in r + 1 .. Depth : srcs[j].kind # "repeat"
                /\ srcs[Depth].reptn = srcs[r].reptn
      BY <1>3
    <2>2. r \in Repeats /\ Repeats \subseteq 1 .. Depth
      BY <2>1, <1>1 DEF Repeats
    <2>3. ASSUME NEW j \in Repeats PROVE j <= r
      <3>1. j \in 1 .. Depth /\ srcs[j].kind = "repeat"
        BY <2>2 DEF Repeats
      <3>2. j \notin r + 1 .. Depth
        BY <3>1, <2>1
      <3> QED BY <3>1, <3>2, <1>1
    <2>4. ASSUME NEW k \in Repeats, \A j \in Repeats : j <= k PROVE k = r
      BY <2>2, <2>3, <2>4, <1>1
    <2>5. (CHOOSE k \in Repeats : \A j \in Repeats : j <= k) = r
      BY <2>2, <2>3, <2>4
    <2>6. Repeats # {}
      BY <2>2
    <2> QED BY <2>5, <2>6, <2>1, <1>1 DEF RptcntIsInner, InnerCounter
  <1> QED BY <1>1, <1>2, <1>3 DEF CounterOf

LEMMA Inductive == Spec => []IInv
  <1>1. IInv /\ [Next]_vars => IInv'
    BY TypeStep, CountStep, CounterStep DEF IInv
  <1> QED BY InitInv, <1>1, PTL DEF Spec

-----------------------------------------------------------------------------
(* The level never leaves its array, at any limit.                         *)
THEOREM TypesHold == Spec => []TypeOK
  <1>1. IInv => TypeOK
    BY DEF IInv
  <1> QED BY Inductive, <1>1, PTL

(* The recursion limit counts exactly the texts of a macro being read:     *)
(* neither its end, nor exitmacro, nor a repetition inside it loses one.   *)
THEOREM RecursionsExact == Spec => []RecursionsCounted
  <1>1. IInv => RecursionsCounted
    BY DEF IInv
  <1> QED BY Inductive, <1>1, PTL

(* __RPTCNT is the counter of the innermost loop around the line read.     *)
THEOREM RptcntExact == Spec => []RptcntIsInner
  <1>1. IInv => RptcntIsInner
    BY CounterIsInner
  <1> QED BY Inductive, <1>1, PTL

-----------------------------------------------------------------------------
(* In sources in which every text closes only what it opened, no text goes *)
(* below the level it, or any text that reads it, began at.                *)
Began(k) == srcs[k].cond_level

LevelsKept ==
    /\ cond[0] = 1 /\ OuterLevelsAssemble
    /\ \A k \in 1 .. Depth : Began(k) <= clev
    /\ \A j, k \in 1 .. Depth : j <= k => Began(j) <= Began(k)

LEMMA InitLevels == Init => LevelsKept
  <1> SUFFICES ASSUME Init PROVE LevelsKept
    OBVIOUS
  <1>1. Depth = 1 /\ srcs[1].cond_level = 0 /\ clev = 0 /\ ifnesting = 0
    BY DEF Init, Depth, Source
  <1>2. cond[0] = 1
    BY LimitAssumption DEF Init
  <1> QED BY <1>1, <1>2 DEF LevelsKept, OuterLevelsAssemble, Began

(* The stack changes under a level that stays.                             *)
LEMMA BeganPush ==
    ASSUME TypeOK, LevelsKept, NEW src \in SourceType, srcs' = Append(srcs, src),
           src.cond_level = clev, UNCHANGED <<clev, cond, ifnesting>>
    PROVE  LevelsKept'
  <1>1. /\ Depth' = Depth + 1 /\ Depth \in Nat /\ srcs'[Depth + 1] = src
        /\ \A k \in 1 .. Depth : srcs'[k] = srcs[k]
    BY Pushed, Current DEF TypeOK
  <1>2. clev \in Nat
    BY LimitAssumption DEF TypeOK
  <1>3. \A k \in 1 .. Depth + 1 : k \in 1 .. Depth \/ k = Depth + 1
    BY <1>1
  <1>4. \A k \in 1 .. Depth + 1 : Began(k)' <= clev'
    <2>1. \A k \in 1 .. Depth + 1 : k = Depth + 1 => Began(k)' = clev
      BY <1>1 DEF Began
    <2>2. \A k \in 1 .. Depth : Began(k)' = Began(k) /\ Began(k) <= clev
      BY <1>1 DEF LevelsKept, Began
    <2>3. ASSUME NEW k \in 1 .. Depth + 1 PROVE Began(k)' <= clev
      BY <2>1, <2>2, <1>2, <1>3
    <2> QED BY <2>3
  <1>5. ASSUME NEW j \in 1 .. Depth + 1, NEW k \in 1 .. Depth + 1, j <= k
        PROVE  Began(j)' <= Began(k)'
    <2>1. CASE k = Depth + 1
      <3>1. Began(k)' = clev'
        BY <1>1, <2>1 DEF Began
      <3> QED BY <3>1, <1>4
    <2>2. CASE k \in 1 .. Depth
      <3>1. j \in 1 .. Depth
        BY <2>2, <1>5, <1>1
      <3> QED BY <3>1, <2>2, <1>1, <1>5 DEF LevelsKept, Began
    <2> QED BY <2>1, <2>2, <1>3
  <1>6. cond'[0] = 1 /\ OuterLevelsAssemble'
    BY DEF LevelsKept, OuterLevelsAssemble, cond_state
  <1> QED BY <1>1, <1>4, <1>5, <1>6 DEF LevelsKept

LEMMA BeganSame ==
    ASSUME Depth' \in Nat, Depth \in Nat, Depth' <= Depth, LevelsKept,
           \A k \in 1 .. Depth' : srcs'[k].cond_level = srcs[k].cond_level
    PROVE  /\ \A k \in 1 .. Depth' : Began(k)' <= clev
           /\ \A j, k \in 1 .. Depth' : j <= k => Began(j)' <= Began(k)'
  <1>1. \A k \in 1 .. Depth' : k \in 1 .. Depth
    OBVIOUS
  <1> QED BY <1>1 DEF LevelsKept, Began

LEMMA LevelStep ==
    ASSUME IInv, LevelsKept, Balanced, [Next]_vars
    PROVE  LevelsKept'
  <1>1. /\ clev \in 0 .. MaxCondLevel - 1 /\ ifnesting \in Nat /\ TypeOK
        /\ cond \in [0 .. MaxCondLevel - 1 -> {-1, 0, 1}]
        /\ MaxCondLevel \in Nat \ {0}
    BY LimitAssumption DEF IInv, TypeOK
  <1>2. /\ Depth \in Nat \ {0} /\ cur_src = srcs[Depth] /\ Depth \in 1 .. Depth
        /\ cur_src.cond_level \in 0 .. MaxCondLevel - 1
        /\ \A k \in 1 .. Depth : Began(k) \in 0 .. MaxCondLevel - 1
    BY <1>1, Current DEF SourceType, Began
  <1>3. /\ cond[0] = 1 /\ \A l \in 0 .. clev - 1 : cond[l] = 1
        /\ ifnesting > 0 => ~(cond[clev] > 0)
        /\ \A k \in 1 .. Depth : Began(k) <= cur_src.cond_level
        /\ cur_src.cond_level <= clev
    BY <1>2 DEF LevelsKept, OuterLevelsAssemble, cond_state, Began
  <1> DEFINE Same == srcs' = srcs
      Levels2 == /\ cond'[0] = 1
                 /\ \A l \in 0 .. clev' - 1 : cond'[l] = 1
                 /\ ifnesting' > 0 => ~(cond'[clev'] > 0)
                 /\ clev' \in Nat /\ cur_src.cond_level <= clev'
  <1>4. ASSUME Same, Levels2 PROVE LevelsKept'
    <2>1. Depth' = Depth /\ \A k \in 1 .. Depth : Began(k)' = Began(k)
      BY <1>4 DEF Depth, Began
    <2>2. \A k \in 1 .. Depth : Began(k)' <= clev'
      BY <2>1, <1>4, <1>2, <1>3
    <2>3. \A j, k \in 1 .. Depth : j <= k => Began(j)' <= Began(k)'
      BY <2>1 DEF LevelsKept
    <2> QED BY <2>1, <2>2, <2>3, <1>4 DEF LevelsKept, OuterLevelsAssemble, cond_state
  <1>5. CASE UNCHANGED condVars /\ Same
    <2>1. Levels2
      BY <1>5, <1>1, <1>3 DEF condVars
    <2> QED BY <2>1, <1>5, <1>4
  <1>6. CASE UNCHANGED vars \/ End \/ Finish
    BY <1>5, <1>6 DEF vars, End, Finish, sourceVars
  <1>7. CASE \E holds \in BOOLEAN : If(holds)
    <2>1. PICK holds \in BOOLEAN : If(holds)
      BY <1>7
    <2>2. Same /\ UNCHANGED ifnesting /\ cond[clev] > 0
      BY <2>1 DEF If, sourceVars, Assembled, cond_state
    <2>3. CASE UNCHANGED <<clev, cond>>
      BY <2>2, <2>3, <1>5 DEF condVars
    <2>4. CASE ~TooDeep(clev + 1) /\ clev' = clev + 1
               /\ cond' = [cond EXCEPT ![clev + 1] = IF holds THEN 1 ELSE 0]
      <3>1. ifnesting = 0 /\ cond[clev] = 1
        BY <2>2, <1>1, <1>3
      <3>2. \A l \in 0 .. clev : cond'[l] = cond[l]
        BY <2>4, <1>1
      <3>3. \A l \in 0 .. clev : cond[l] = 1
        BY <3>1, <1>1, <1>3
      <3>4. Levels2
        BY <3>1, <3>2, <3>3, <2>2, <2>4, <1>1, <1>2, <1>3
      <3> QED BY <3>4, <2>2, <1>4
    <2> QED BY <2>1, <2>3, <2>4 DEF If
  <1>8. CASE SkipIf
    <2>1. Same /\ UNCHANGED <<clev, cond>> /\ ~(cond[clev] > 0)
      BY <1>8 DEF SkipIf, sourceVars, Skipped, cond_state
    <2>2. Levels2
      BY <2>1, <1>1, <1>3
    <2> QED BY <2>1, <2>2, <1>4
  <1>9. CASE ElseEnds
    <2>1. Same /\ UNCHANGED <<clev, ifnesting>> /\ cond[clev] > 0
      BY <1>9 DEF ElseEnds, sourceVars, Assembled, cond_state
    <2>2. CASE clev = 0 /\ UNCHANGED cond
      BY <2>1, <2>2, <1>5 DEF condVars
    <2>3. CASE clev > 0 /\ cond' = [cond EXCEPT ![clev] = -1]
      <3>1. \A l \in 0 .. clev - 1 : cond'[l] = cond[l]
        BY <2>3, <1>1
      <3>2. 0 \in 0 .. clev - 1 /\ cond'[clev] = -1
        BY <2>3, <1>1
      <3>3. Levels2
        BY <3>1, <3>2, <2>1, <1>1, <1>3
      <3> QED BY <3>3, <2>1, <1>4
    <2> QED BY <1>9, <2>2, <2>3 DEF ElseEnds
  <1>10. CASE ElseStarts
    <2>1. Same /\ UNCHANGED <<clev, ifnesting>> /\ ifnesting = 0 /\ ~(cond[clev] > 0)
          /\ cond' = [cond EXCEPT ![clev] = IF @ = 0 THEN 1 ELSE -1]
      BY <1>10 DEF ElseStarts, sourceVars, Skipped, cond_state
    <2>2. clev # 0
      BY <2>1, <1>3
    <2>3. \A l \in 0 .. clev - 1 : cond'[l] = cond[l]
      BY <2>1, <1>1
    <2>4. 0 \in 0 .. clev - 1
      BY <2>2, <1>1
    <2>5. Levels2
      BY <2>1, <2>3, <2>4, <1>1, <1>3
    <2> QED BY <2>1, <2>5, <1>4
  <1>11. CASE Endif
    <2>1. Same /\ UNCHANGED cond /\ clev + ifnesting > cur_src.cond_level
      BY <1>11 DEF Endif, sourceVars, OwnBlock
    <2>2. CASE ifnesting > 0 /\ ifnesting' = ifnesting - 1 /\ UNCHANGED clev
      <3>1. Levels2
        BY <2>1, <2>2, <1>1, <1>3
      <3> QED BY <3>1, <2>1, <1>4
    <2>3. CASE ifnesting = 0 /\ clev > 0 /\ clev' = clev - 1 /\ UNCHANGED ifnesting
      <3>1. Levels2
        BY <2>1, <2>3, <1>1, <1>2, <1>3
      <3> QED BY <3>1, <2>1, <1>4
    <2>4. CASE UNCHANGED <<clev, ifnesting>>
      BY <2>1, <2>4, <1>5 DEF condVars
    <2> QED BY <1>11, <2>2, <2>3, <2>4 DEF Endif
  <1>12. CASE \E m \in Macros \cup {NoMacro} : Begins(m) /\ UNCHANGED condVars
    <2>1. PICK m \in Macros \cup {NoMacro}, kind \in {"file", "macro"} :
              srcs' = Append(srcs, Source(kind, m, 1, cur_src.reptn))
              /\ UNCHANGED condVars
      BY <1>12 DEF Begins
    <2> DEFINE src == Source(kind, m, 1, cur_src.reptn)
    <2>2. src \in SourceType
      <3>1. cur_src.reptn \in Nat \cup {-1} /\ 1 \in Nat \ {0}
        BY <1>1, Current DEF SourceType
      <3> QED BY <3>1, <1>1, NewSource
    <2>3. src.cond_level = clev
      BY DEF Source
    <2>4. srcs' = Append(srcs, src) /\ UNCHANGED <<clev, cond, ifnesting>>
      BY <2>1 DEF condVars
    <2> HIDE DEF src
    <2> QED BY <2>2, <2>3, <2>4, <1>1, BeganPush
  <1>13. CASE Include
    <2>1. Begins(NoMacro) /\ UNCHANGED condVars
      BY <1>13 DEF Include, Push, Begins
    <2> QED BY <2>1, <1>12
  <1>14. CASE \E m \in Macros : Call(m)
    <2>1. PICK m \in Macros : Call(m)
      BY <1>14
    <2>2. UNCHANGED condVars
      BY <2>1 DEF Call
    <2>3. Same \/ Begins(m)
      BY <2>1, MacroAssumption DEF Call, Push, Begins
    <2> QED BY <2>2, <2>3, <1>5, <1>12
  <1>15. CASE \E n \in 1 .. MaxRepeat : Rept(n)
    <2>1. PICK n \in 1 .. MaxRepeat : Rept(n)
      BY <1>15
    <2> DEFINE src == Source("repeat", NoMacro, n, 0)
    <2>2. src \in SourceType
      BY <1>1, NewSource, LimitAssumption
    <2>3. src.cond_level = clev
      BY DEF Source
    <2>4. srcs' = Append(srcs, src) /\ UNCHANGED <<clev, cond, ifnesting>>
      BY <2>1 DEF Rept, Push, condVars
    <2> HIDE DEF src
    <2> QED BY <2>2, <2>3, <2>4, <1>1, BeganPush
  <1>16. CASE ExitMacro
    <2>1. UNCHANGED <<cond, ifnesting>> /\ cond[clev] > 0
      BY <1>16 DEF ExitMacro, Assembled, cond_state
    <2>2. CASE Same /\ UNCHANGED clev
      BY <2>1, <2>2, <1>5 DEF condVars
    <2>3. CASE ChangeTop(EndOf(cur_src)) /\ clev' = cur_src.cond_level
      <3>1. /\ Depth' = Depth /\ srcs'[Depth] = EndOf(cur_src)
            /\ \A k \in 1 .. Depth - 1 : srcs'[k] = srcs[k]
        BY <2>3, <1>1, Current, Ended, TopChanged DEF ChangeTop, TypeOK
      <3>2. EndOf(cur_src).cond_level = srcs[Depth].cond_level
        BY <1>1, Current, Ended
      <3>3. \A k \in 1 .. Depth : k = Depth \/ k \in 1 .. Depth - 1
        BY <1>2
      <3>4. \A k \in 1 .. Depth' : srcs'[k].cond_level = srcs[k].cond_level
        BY <3>1, <3>2, <3>3
      <3>5. \A j, k \in 1 .. Depth : j <= k => Began(j)' <= Began(k)'
        BY <3>1, <3>4, <1>2, BeganSame
      <3>6. \A k \in 1 .. Depth : Began(k)' <= clev'
        BY <3>1, <3>4, <2>3, <1>3 DEF Began
      <3>7. ifnesting' = 0 /\ cond'[0] = 1
        BY <2>1, <1>1, <1>3
      <3>8. \A l \in 0 .. clev' - 1 : cond'[l] = 1
        BY <2>1, <2>3, <1>1, <1>2, <1>3
      <3> QED BY <3>1, <3>5, <3>6, <3>7, <3>8 DEF LevelsKept, OuterLevelsAssemble
    <2> QED BY <1>16, <2>2, <2>3 DEF ExitMacro, ExitLevel
  <1>17. ASSUME UNCHANGED condVars, Depth' \in Nat, Depth' <= Depth,
                \A k \in 1 .. Depth' : srcs'[k].cond_level = srcs[k].cond_level
         PROVE  LevelsKept'
    <2>1. /\ \A k \in 1 .. Depth' : Began(k)' <= clev
          /\ \A j, k \in 1 .. Depth' : j <= k => Began(j)' <= Began(k)'
      BY <1>17, <1>2, BeganSame
    <2> QED BY <2>1, <1>17, <1>3 DEF LevelsKept, OuterLevelsAssemble, cond_state, condVars
  <1>18. CASE Again
    <2>1. ChangeTop(Iterated(cur_src)) /\ cur_src.repeat > 1 /\ UNCHANGED condVars
      BY <1>18 DEF Again
    <2>2. /\ Depth' = Depth /\ srcs'[Depth] = Iterated(cur_src)
          /\ \A k \in 1 .. Depth - 1 : srcs'[k] = srcs[k]
      BY <2>1, <1>1, Current, Repeated, TopChanged DEF ChangeTop, TypeOK
    <2>3. Iterated(cur_src).cond_level = srcs[Depth].cond_level
      BY <2>1, <1>1, Current, Repeated
    <2>4. \A k \in 1 .. Depth : k = Depth \/ k \in 1 .. Depth - 1
      BY <1>2
    <2>5. \A k \in 1 .. Depth' : srcs'[k].cond_level = srcs[k].cond_level
      BY <2>2, <2>3, <2>4
    <2> QED BY <2>1, <2>2, <2>5, <1>2, <1>17
  <1>19. CASE Return
    <2>1. Depth > 1 /\ srcs' = Front(srcs) /\ UNCHANGED condVars
      BY <1>19 DEF Return, Depth
    <2>2. Depth' = Depth - 1 /\ \A k \in 1 .. Depth - 1 : srcs'[k] = srcs[k]
      BY <2>1, <1>1, Popped DEF TypeOK
    <2> QED BY <2>1, <2>2, <1>2, <1>17
  <1> QED BY <1>6, <1>7, <1>8, <1>9, <1>10, <1>11, <1>13, <1>14, <1>15, <1>16,
             <1>18, <1>19 DEF Next

(* Looking at the current level is enough: while every text closes only    *)
(* what it opened, the levels around a line that is assembled assemble.    *)
THEOREM LevelsNest == Balanced /\ Spec => []OuterLevelsAssemble
  <1> SUFFICES ASSUME Balanced PROVE Spec => []OuterLevelsAssemble
    OBVIOUS
  <1>1. IInv /\ LevelsKept /\ [Next]_vars => LevelsKept'
    BY LevelStep
  <1>2. LevelsKept => OuterLevelsAssemble
    BY DEF LevelsKept
  <1> QED BY InitLevels, Inductive, <1>1, <1>2, PTL DEF Spec

-----------------------------------------------------------------------------
(* CondAsm implements Blocks, for any limits, macros and counts and every  *)
(* source in which each text closes only what it opened.  A level whose    *)
(* text waits for an else may be changed only by the text on top, and the  *)
(* levels the others began at lie below it (LevelsKept): that is why the   *)
(* number a text remembers is enough to restore its blocks.                *)

Statuses == {"open", "waiting", "finished", "ignored"}

(* What the steps need of the levels and of the text on top.               *)
LEMMA LevelFacts ==
    ASSUME IInv, LevelsKept
    PROVE  /\ clev \in Nat /\ clev \in 0 .. MaxCondLevel - 1 /\ ifnesting \in Nat
           /\ cond \in [0 .. MaxCondLevel - 1 -> {-1, 0, 1}]
           /\ cond[clev] \in {-1, 0, 1} /\ cond_state \in BOOLEAN
           /\ \A l \in 0 .. clev - 1 : cond[l] = 1
           /\ clev = 0 => cond_state
           /\ ifnesting > 0 => ~cond_state
           /\ Depth \in Nat \ {0} /\ cur_src = srcs[Depth]
           /\ \A k \in 1 .. Depth : Began(k) \in 0 .. MaxCondLevel - 1
                                    /\ Began(k) <= Began(Depth) /\ Began(k) <= clev
  <1>1. TypeOK
    BY DEF IInv
  <1>2. MaxCondLevel \in Nat \ {0}
    BY LimitAssumption
  <1>3. clev \in Nat /\ clev \in 0 .. MaxCondLevel - 1 /\ ifnesting \in Nat
        /\ cond \in [0 .. MaxCondLevel - 1 -> {-1, 0, 1}]
    BY <1>1, <1>2 DEF TypeOK
  <1>4. cond[clev] \in {-1, 0, 1} /\ cond_state \in BOOLEAN
    BY <1>3 DEF cond_state
  <1>5. \A l \in 0 .. clev - 1 : cond[l] = 1
    BY DEF LevelsKept, OuterLevelsAssemble
  <1>6. clev = 0 => cond_state
    BY DEF LevelsKept, cond_state
  <1>7. ifnesting > 0 => ~cond_state
    BY DEF LevelsKept, OuterLevelsAssemble
  <1>8. /\ Depth \in Nat \ {0} /\ cur_src = srcs[Depth]
        /\ \A k \in 1 .. Depth : srcs[k] \in SourceType
    BY <1>1, Current
  <1>9. \A k \in 1 .. Depth : Began(k) \in 0 .. MaxCondLevel - 1
    BY <1>8 DEF Began, SourceType
  <1>10. \A k \in 1 .. Depth : Began(k) <= Began(Depth) /\ Began(k) <= clev
    BY <1>8 DEF LevelsKept
  <1> QED BY <1>3, <1>4, <1>5, <1>6, <1>7, <1>8, <1>9, <1>10

LEMMA StatusOfState ==
    /\ StatusOf(1) = "open" /\ StatusOf(0) = "waiting" /\ StatusOf(-1) = "finished"
    /\ \A s \in {-1, 0, 1} : StatusOf(s) \in Statuses /\ (StatusOf(s) = "open" <=> s > 0)
  BY DEF StatusOf, Statuses

(* The blocks are a sequence, of one entry per level or ignored if.        *)
BlockShape ==
    /\ clev \in Nat /\ ifnesting \in Nat
    /\ BlocksNow \in Seq(Statuses) /\ Len(BlocksNow) = clev + ifnesting
    /\ DOMAIN BlocksNow = 1 .. clev + ifnesting
    /\ \A l \in 1 .. clev : BlocksNow[l] = StatusOf(cond[l])
    /\ \A l \in clev + 1 .. clev + ifnesting : BlocksNow[l] = "ignored"

LEMMA BlockSeq == IInv /\ LevelsKept => BlockShape
  <1> SUFFICES ASSUME IInv, LevelsKept PROVE BlockShape
    OBVIOUS
  <1>1. clev + ifnesting \in Nat
    BY LevelFacts
  <1>2. \A l \in 1 .. clev : StatusOf(cond[l]) \in Statuses
    <2>1. \A l \in 1 .. clev : cond[l] \in {-1, 0, 1}
      BY LevelFacts, LimitAssumption
    <2> QED BY <2>1, StatusOfState
  <1>3. \A l \in 1 .. clev + ifnesting : l <= clev => l \in 1 .. clev
    BY LevelFacts
  <1>4. BlocksNow \in [1 .. clev + ifnesting -> Statuses]
    BY <1>2, <1>3 DEF BlocksNow, Statuses
  <1>5. BlocksNow \in Seq(Statuses) /\ Len(BlocksNow) = clev + ifnesting
    BY <1>1, <1>4
  <1>6. \A l \in 1 .. clev : BlocksNow[l] = StatusOf(cond[l])
    BY LevelFacts DEF BlocksNow
  <1>7. \A l \in clev + 1 .. clev + ifnesting : BlocksNow[l] = "ignored"
    BY LevelFacts DEF BlocksNow
  <1> QED BY <1>4, <1>5, <1>6, <1>7, LevelFacts DEF BlockShape

(* One text on the stack is one call.                                      *)
LEMMA CallSeq ==
    ASSUME IInv
    PROVE  /\ DOMAIN CallsNow = 1 .. Depth /\ Len(CallsNow) = Depth
           /\ \A k \in 1 .. Depth : CallsNow[k] = [blocks |-> Levels(Began(k)),
                                                   left |-> srcs[k].left]
           /\ Last(CallsNow) = [blocks |-> Levels(Began(Depth)), left |-> cur_src.left]
           /\ Promise!Reading <=> ~cur_src.left
  <1>1. Depth \in Nat \ {0} /\ DOMAIN srcs = 1 .. Depth /\ cur_src = srcs[Depth]
    BY Current DEF IInv
  <1>2. DOMAIN CallsNow = 1 .. Depth
    BY <1>1 DEF CallsNow
  <1>3. Len(CallsNow) = Depth
    BY <1>1 DEF CallsNow
  <1>4. \A k \in 1 .. Depth : CallsNow[k] = [blocks |-> Levels(Began(k)),
                                             left |-> srcs[k].left]
    BY <1>1 DEF CallsNow, Began
  <1>5. Last(CallsNow) = [blocks |-> Levels(Began(Depth)), left |-> cur_src.left]
    BY <1>1, <1>3, <1>4 DEF Last
  <1>6. Promise!Reading <=> ~cur_src.left
    <2>1. Last(CallsNow).left = cur_src.left
      BY <1>5
    <2>2. Promise!Last(CallsNow) = Last(CallsNow)
      BY DEF Promise!Last, Last
    <2> QED BY <2>1, <2>2, Zenon DEF Promise!Reading
  <1> QED BY <1>2, <1>3, <1>4, <1>5, <1>6

(* A line is assembled exactly where all blocks are open.                  *)
LEMMA AssemblesWhereOpen ==
    ASSUME IInv, LevelsKept
    PROVE  Promise!Assembling <=> cond_state
  <1>1. CASE cond_state
    <2>1. ifnesting = 0
      BY <1>1, LevelFacts
    <2>2. \A l \in 1 .. clev : cond[l] = 1
      BY <1>1, LevelFacts DEF cond_state
    <2>3. \A i \in DOMAIN BlocksNow : BlocksNow[i] = "open"
      BY <2>1, <2>2, BlockSeq, StatusOfState, LevelFacts DEF BlockShape
    <2> QED BY <1>1, <2>3 DEF Promise!Assembling
  <1>2. CASE ~cond_state
    <2>1. clev \in 1 .. clev /\ clev \in DOMAIN BlocksNow
      BY <1>2, BlockSeq, LevelFacts DEF BlockShape
    <2>2. ~(cond[clev] > 0) /\ cond[clev] \in {-1, 0, 1}
      BY <1>2, LevelFacts DEF cond_state
    <2>3. BlocksNow[clev] # "open"
      BY <2>1, <2>2, BlockSeq, StatusOfState DEF BlockShape
    <2> QED BY <1>2, <2>1, <2>3 DEF Promise!Assembling
  <1> QED BY <1>1, <1>2

-----------------------------------------------------------------------------
(* How the sequence of blocks changes.                                     *)
LEMMA GrowsByOne ==
    ASSUME NEW S, NEW s \in Seq(S), NEW t \in Seq(S), NEW x \in S,
           Len(t) = Len(s) + 1, \A i \in 1 .. Len(s) : t[i] = s[i],
           t[Len(s) + 1] = x
    PROVE  t = Append(s, x)
  <1>1. /\ Append(s, x) \in Seq(S) /\ Len(Append(s, x)) = Len(t)
        /\ \A i \in 1 .. Len(s) : Append(s, x)[i] = t[i]
        /\ Append(s, x)[Len(s) + 1] = t[Len(s) + 1]
    BY AppendProperties
  <1>2. Len(s) \in Nat
    BY LenProperties
  <1>3. \A i \in 1 .. Len(t) : i \in 1 .. Len(s) \/ i = Len(s) + 1
    BY <1>2
  <1>4. \A i \in 1 .. Len(t) : t[i] = Append(s, x)[i]
    BY <1>1, <1>3
  <1> QED BY <1>1, <1>4, SeqEqual

LEMMA FrontOf ==
    ASSUME NEW S, NEW s \in Seq(S), s # << >>
    PROVE  /\ Promise!Front(s) = Front(s) /\ Front(s) \in Seq(S)
           /\ Len(s) \in Nat \ {0} /\ Len(Front(s)) = Len(s) - 1
           /\ \A i \in 1 .. Len(s) - 1 : Front(s)[i] = s[i]
  <1>1. Len(s) \in Nat \ {0} /\ DOMAIN s = 1 .. Len(s) /\ \A i \in 1 .. Len(s) : s[i] \in S
    BY LenProperties, EmptySeq, ElementOfSeq
  <1> DEFINE n == Len(s) - 1
  <1>2. n \in Nat /\ n \in Int /\ 1 \in Int /\ \A i \in 1 .. n : s[i] \in S
    BY <1>1
  <1> HIDE DEF n
  <1>3. /\ SubSeq(s, 1, n) \in Seq(S)
        /\ Len(SubSeq(s, 1, n)) = IF 1 <= n THEN n - 1 + 1 ELSE 0
        /\ \A i \in 1 .. n - 1 + 1 : SubSeq(s, 1, n)[i] = s[1 + i - 1]
    BY <1>2, SubSeqProperties
  <1>4. Len(SubSeq(s, 1, n)) = n /\ \A i \in 1 .. n : SubSeq(s, 1, n)[i] = s[i]
    BY <1>2, <1>3
  <1>5. Front(s) = SubSeq(s, 1, n) /\ Promise!Front(s) = SubSeq(s, 1, n)
    BY DEF Front, Promise!Front, n
  <1> QED BY <1>1, <1>3, <1>4, <1>5 DEF n

(* The blocks depend on the levels in use only.                            *)
LEMMA BlocksStay ==
    ASSUME IInv, LevelsKept, IInv', LevelsKept', UNCHANGED <<clev, ifnesting>>,
           \A l \in 1 .. clev : cond'[l] = cond[l]
    PROVE  BlocksNow' = BlocksNow
  <1>1. clev' + ifnesting' = clev + ifnesting /\ clev' = clev
    OBVIOUS
  <1>2. \A l \in 1 .. clev + ifnesting : l <= clev => l \in 1 .. clev
    BY LevelFacts
  <1>3. \A l \in 1 .. clev + ifnesting : l <= clev => StatusOf(cond'[l]) = StatusOf(cond[l])
    BY <1>2
  <1> QED BY <1>1, <1>3 DEF BlocksNow

(* What a text remembers stays, as long as no level it began below changes.*)
LEMMA CallsStay ==
    ASSUME IInv, LevelsKept, IInv', Depth' = Depth,
           \A k \in 1 .. Depth : srcs'[k].cond_level = srcs[k].cond_level
                                 /\ srcs'[k].left = srcs[k].left,
           \A l \in 1 .. Began(Depth) : cond'[l] = cond[l]
    PROVE  CallsNow' = CallsNow
  <1>1. DOMAIN srcs = 1 .. Depth /\ DOMAIN srcs' = 1 .. Depth
    <2>1. srcs' \in Seq(SourceType) /\ srcs \in Seq(SourceType)
      BY DEF IInv, TypeOK
    <2> QED BY <2>1 DEF Depth
  <1> DEFINE Seen(k) == [blocks |-> Levels(srcs[k].cond_level), left |-> srcs[k].left]
  <1>2. ASSUME NEW k \in 1 .. Depth PROVE Seen(k)' = Seen(k)
    <2>1. srcs'[k].cond_level = srcs[k].cond_level /\ srcs'[k].left = srcs[k].left
      OBVIOUS
    <2>2. \A l \in 1 .. Began(k) : l \in 1 .. Began(Depth)
      BY LevelFacts
    <2>3. \A l \in 1 .. srcs[k].cond_level : StatusOf(cond'[l]) = StatusOf(cond[l])
      BY <2>2 DEF Began
    <2>4. Levels(srcs[k].cond_level)' = Levels(srcs[k].cond_level)
      BY <2>1, <2>3 DEF Levels
    <2> QED BY <2>1, <2>4
  <1>3. CallsNow = [k \in 1 .. Depth |-> Seen(k)]
    BY <1>1 DEF CallsNow
  <1>4. CallsNow' = [k \in 1 .. Depth |-> Seen(k)']
    BY <1>1 DEF CallsNow
  <1> HIDE DEF Seen
  <1> QED BY <1>2, <1>3, <1>4

-----------------------------------------------------------------------------
(* An if is one more block, assembled or not.                              *)
LEMMA IfMaps ==
    ASSUME IInv, LevelsKept, BlockShape, IInv', LevelsKept', BlockShape',
           NEW holds \in BOOLEAN, If(holds)
    PROVE  [Promise!Next]_(Promise!vars)
  <1>1. /\ srcs' = srcs /\ ifnesting' = ifnesting /\ cond_state
        /\ ~cur_src.left
    BY DEF If, sourceVars, Assembled, Reading
  <1>2. ifnesting = 0 /\ Promise!Assembling /\ Promise!Reading
    BY <1>1, LevelFacts, AssemblesWhereOpen, CallSeq
  <1>3. CASE UNCHANGED <<clev, cond>>
    <2>1. BlocksNow' = BlocksNow /\ CallsNow' = CallsNow
      BY <1>1, <1>3, BlocksStay, CallsStay DEF Depth
    <2> QED BY <2>1 DEF Promise!vars
  <1>4. CASE /\ ~TooDeep(clev + 1) /\ clev' = clev + 1
             /\ cond' = [cond EXCEPT ![clev + 1] = IF holds THEN 1 ELSE 0]
    <2> DEFINE x == IF holds THEN "open" ELSE "waiting"
    <2>1. \A l \in 0 .. clev : cond'[l] = cond[l]
      BY <1>4, LevelFacts
    <2>2. clev + 1 \in 0 .. MaxCondLevel - 1
      BY <1>4, LevelFacts, LimitAssumption DEF TooDeep
    <2>3. cond'[clev + 1] = IF holds THEN 1 ELSE 0
      BY <1>4, <2>2, LevelFacts
    <2>4. /\ Len(BlocksNow) = clev /\ Len(BlocksNow') = clev + 1
          /\ BlocksNow \in Seq(Statuses) /\ BlocksNow' \in Seq(Statuses)
      BY <1>1, <1>2, <1>4, LevelFacts DEF BlockShape
    <2>5. \A l \in 1 .. clev : BlocksNow'[l] = BlocksNow[l]
      <3>1. \A l \in 1 .. clev : l \in 1 .. clev + 1 /\ cond'[l] = cond[l]
        BY <2>1, LevelFacts
      <3> QED BY <3>1, <1>4 DEF BlockShape
    <2>6. BlocksNow'[clev + 1] = x
      <3>1. clev + 1 \in 1 .. clev'
        BY <1>4, LevelFacts
      <3>2. BlocksNow'[clev + 1] = StatusOf(cond'[clev + 1])
        BY <3>1 DEF BlockShape
      <3> QED BY <3>2, <2>3, StatusOfState
    <2>7. x \in Statuses
      BY DEF Statuses
    <2> HIDE DEF x
    <2>8. BlocksNow' = Append(BlocksNow, x)
      BY <2>4, <2>5, <2>6, <2>7, GrowsByOne
    <2>9. CallsNow' = CallsNow
      <3>1. \A l \in 1 .. Began(Depth) : l \in 0 .. clev
        BY LevelFacts
      <3> QED BY <1>1, <2>1, <3>1, CallsStay DEF Depth
    <2>10. Promise!If(holds)
      BY <1>2, <2>8, <2>9 DEF Promise!If, x
    <2> QED BY <2>10 DEF Promise!Next
  <1> QED BY <1>3, <1>4 DEF If

(* So is one that is only counted.                                         *)
LEMMA SkipIfMaps ==
    ASSUME IInv, LevelsKept, BlockShape, IInv', LevelsKept', BlockShape', SkipIf
    PROVE  Promise!If(TRUE)
  <1>1. /\ srcs' = srcs /\ clev' = clev /\ cond' = cond /\ ifnesting' = ifnesting + 1
        /\ ~cond_state /\ ~cur_src.left
    BY DEF SkipIf, sourceVars, Skipped, Reading
  <1>2. ~Promise!Assembling /\ Promise!Reading
    BY <1>1, AssemblesWhereOpen, CallSeq
  <1>3. /\ Len(BlocksNow) = clev + ifnesting /\ Len(BlocksNow') = clev + ifnesting + 1
        /\ BlocksNow \in Seq(Statuses) /\ BlocksNow' \in Seq(Statuses)
        /\ clev \in Nat /\ ifnesting \in Nat
    BY <1>1 DEF BlockShape
  <1>4. \A l \in 1 .. clev + ifnesting : BlocksNow'[l] = BlocksNow[l]
    <2>1. \A l \in 1 .. clev + ifnesting :
              \/ l \in 1 .. clev
              \/ l \in clev + 1 .. clev + ifnesting /\ l \in clev + 1 .. clev + (ifnesting + 1)
      BY <1>3
    <2> QED BY <2>1, <1>1 DEF BlockShape
  <1>5. BlocksNow'[clev + ifnesting + 1] = "ignored"
    <2>1. clev + ifnesting + 1 \in clev + 1 .. clev + (ifnesting + 1)
      BY <1>3
    <2> QED BY <2>1, <1>1 DEF BlockShape
  <1>6. BlocksNow' = Append(BlocksNow, "ignored")
    <2>1. "ignored" \in Statuses
      BY DEF Statuses
    <2> QED BY <1>3, <1>4, <1>5, <2>1, GrowsByOne
  <1>7. CallsNow' = CallsNow
    BY <1>1, CallsStay DEF Depth
  <1> QED BY <1>2, <1>6, <1>7 DEF Promise!If

(* The last block becomes another.                                         *)
LEMMA LastBecomes ==
    ASSUME IInv, LevelsKept, BlockShape, IInv', LevelsKept', BlockShape',
           clev > cur_src.cond_level, ifnesting = 0, UNCHANGED <<clev, ifnesting, srcs>>,
           NEW s \in {-1, 0, 1}, cond' = [cond EXCEPT ![clev] = s]
    PROVE  /\ BlocksNow # << >> /\ Promise!Last(BlocksNow) = StatusOf(cond[clev])
           /\ BlocksNow' = Append(Promise!Front(BlocksNow), StatusOf(s))
           /\ CallsNow' = CallsNow
  <1>1. clev \in Nat \ {0} /\ cur_src.cond_level = Began(Depth) /\ Began(Depth) \in Nat
    <2>1. Began(Depth) \in 0 .. MaxCondLevel - 1 /\ clev \in Nat
      BY LevelFacts
    <2>2. cur_src.cond_level = Began(Depth)
      BY LevelFacts DEF Began
    <2> QED BY <2>1, <2>2
  <1>2. /\ Len(BlocksNow) = clev /\ Len(BlocksNow') = clev
        /\ BlocksNow \in Seq(Statuses) /\ BlocksNow' \in Seq(Statuses)
    BY <1>1 DEF BlockShape
  <1>3. BlocksNow # << >>
    BY <1>1, <1>2
  <1>4. cond'[clev] = s /\ \A l \in 1 .. clev - 1 : cond'[l] = cond[l]
    BY <1>1, LevelFacts
  <1>5. clev \in 1 .. clev /\ clev' = clev
    BY <1>1
  <1>6. Promise!Last(BlocksNow) = StatusOf(cond[clev])
    BY <1>2, <1>5 DEF Promise!Last, BlockShape
  <1>7. BlocksNow'[clev] = StatusOf(s) /\ StatusOf(s) \in Statuses
    BY <1>4, <1>5, StatusOfState DEF BlockShape
  <1>8. \A l \in 1 .. clev - 1 : BlocksNow'[l] = BlocksNow[l]
    <2>1. \A l \in 1 .. clev - 1 : l \in 1 .. clev /\ StatusOf(cond'[l]) = StatusOf(cond[l])
      BY <1>1, <1>4
    <2> QED BY <2>1, <1>5 DEF BlockShape
  <1>9. BlocksNow' = Append(Promise!Front(BlocksNow), StatusOf(s))
    <2> DEFINE f == Promise!Front(BlocksNow)
    <2>1. /\ f \in Seq(Statuses) /\ Len(f) = clev - 1
          /\ \A l \in 1 .. clev - 1 : f[l] = BlocksNow[l]
      BY <1>2, <1>3, FrontOf
    <2> HIDE DEF f
    <2>2. Len(BlocksNow') = Len(f) + 1 /\ BlocksNow'[Len(f) + 1] = StatusOf(s)
      BY <1>1, <1>2, <1>7, <2>1
    <2>3. BlocksNow' = Append(f, StatusOf(s))
      BY <2>1, <2>2, <1>2, <1>7, <1>8, GrowsByOne
    <2> QED BY <2>3 DEF f
  <1>10. CallsNow' = CallsNow
    <2>1. \A l \in 1 .. Began(Depth) : l \in 1 .. clev - 1
      BY <1>1
    <2> QED BY <2>1, <1>4, CallsStay DEF Depth
  <1> QED BY <1>3, <1>6, <1>9, <1>10

LEMMA ElseMaps ==
    ASSUME IInv, LevelsKept, BlockShape, IInv', LevelsKept', BlockShape', Balanced,
           ElseEnds \/ ElseStarts
    PROVE  [Promise!Next]_(Promise!vars)
  <1>1. /\ UNCHANGED <<clev, ifnesting, srcs>> /\ ~cur_src.left
        /\ clev + ifnesting > cur_src.cond_level
    BY DEF ElseEnds, ElseStarts, sourceVars, Assembled, Skipped, Reading, OwnBlock
  <1>2. Promise!Reading
    BY <1>1, CallSeq
  <1>3. CASE ElseEnds
    <2>1. cond_state /\ ifnesting = 0 /\ cond[clev] = 1 /\ clev > cur_src.cond_level
      <3>1. cond_state
        BY <1>3 DEF ElseEnds, Assembled
      <3> QED BY <1>1, <3>1, LevelFacts DEF cond_state
    <2>2. cond' = [cond EXCEPT ![clev] = -1]
      <3>1. cur_src.cond_level \in Nat
        BY Current DEF IInv, SourceType
      <3> QED BY <1>3, <2>1, <3>1, LevelFacts DEF ElseEnds
    <2>3. /\ BlocksNow # << >> /\ Promise!Last(BlocksNow) = "open"
          /\ BlocksNow' = Append(Promise!Front(BlocksNow), "finished")
          /\ CallsNow' = CallsNow
      <3>1. -1 \in {-1, 0, 1}
        OBVIOUS
      <3> QED BY <3>1, <1>1, <2>1, <2>2, LastBecomes, StatusOfState
    <2> QED BY <1>2, <2>3 DEF Promise!Next, Promise!Else, Promise!AfterElse
  <1>4. CASE ElseStarts
    <2>1. /\ ~cond_state /\ ifnesting = 0 /\ clev > cur_src.cond_level
          /\ cond[clev] \in {-1, 0}
      <3>1. ~cond_state /\ ifnesting = 0
        BY <1>4 DEF ElseStarts, Skipped
      <3> QED BY <1>1, <3>1, LevelFacts DEF cond_state
    <2> DEFINE s == IF cond[clev] = 0 THEN 1 ELSE -1
    <2>2. cond' = [cond EXCEPT ![clev] = s] /\ s \in {-1, 0, 1}
      BY <1>4, LevelFacts DEF ElseStarts
    <2>3. StatusOf(s) = Promise!AfterElse(StatusOf(cond[clev]))
      BY <2>1, StatusOfState DEF Promise!AfterElse
    <2> HIDE DEF s
    <2>4. /\ BlocksNow # << >> /\ Promise!Last(BlocksNow) = StatusOf(cond[clev])
          /\ BlocksNow' = Append(Promise!Front(BlocksNow), StatusOf(s))
          /\ CallsNow' = CallsNow
      BY <1>1, <2>1, <2>2, LastBecomes
    <2> QED BY <1>2, <2>3, <2>4 DEF Promise!Next, Promise!Else
  <1> QED BY <1>3, <1>4

LEMMA BeyondLevels ==
    ASSUME NEW c \in Nat, NEW i \in Nat, NEW c1 \in Nat, NEW i1 \in Nat,
           c1 + i1 = c + i - 1, i1 > 0 => c1 = c,
           NEW l \in Int, l > c1, l <= c + i - 1
    PROVE  c1 = c /\ l \in c + 1 .. c + i /\ l \in c1 + 1 .. c1 + i1
  <1>1. l <= c1 + i1
    OBVIOUS
  <1>2. i1 > 0
    BY <1>1
  <1> QED BY <1>1, <1>2

(* The innermost block is closed, be it a level or only counted.           *)
LEMMA EndifMaps ==
    ASSUME IInv, LevelsKept, BlockShape, IInv', LevelsKept', BlockShape', Balanced, Endif
    PROVE  Promise!Endif
  <1>1. /\ srcs' = srcs /\ cond' = cond /\ ~cur_src.left
        /\ clev + ifnesting > cur_src.cond_level
    BY DEF Endif, sourceVars, Reading, OwnBlock
  <1>2. Promise!Reading
    BY <1>1, CallSeq
  <1>3. clev \in Nat /\ ifnesting \in Nat /\ cur_src.cond_level \in Nat
    BY Current DEF BlockShape, IInv, SourceType
  <1>4. /\ clev' + ifnesting' = clev + ifnesting - 1 /\ clev' <= clev
        /\ clev' \in Nat /\ ifnesting' \in Nat
        /\ ifnesting' > 0 => clev' = clev
    BY <1>1, <1>3 DEF Endif
  <1>5. /\ Len(BlocksNow) = clev + ifnesting /\ Len(BlocksNow') = clev + ifnesting - 1
        /\ BlocksNow \in Seq(Statuses) /\ BlocksNow' \in Seq(Statuses)
    BY <1>4 DEF BlockShape
  <1>6. BlocksNow # << >>
    BY <1>1, <1>3, <1>5
  <1>7. ASSUME NEW l \in 1 .. clev + ifnesting - 1 PROVE BlocksNow'[l] = BlocksNow[l]
    <2>1. CASE l <= clev'
      <3>1. l \in 1 .. clev /\ l \in 1 .. clev'
        BY <2>1, <1>3, <1>4
      <3> QED BY <3>1, <1>1 DEF BlockShape
    <2>2. CASE l > clev'
      <3>a. l \in Int /\ 1 <= l /\ l <= clev + ifnesting - 1
        <4>1. clev + ifnesting - 1 \in Int
          BY <1>3
        <4> QED BY <4>1, <1>7
      <3>1. clev' = clev /\ l \in clev + 1 .. clev + ifnesting
            /\ l \in clev' + 1 .. clev' + ifnesting'
        BY <3>a, <2>2, <1>3, <1>4, BeyondLevels
      <3>3. BlocksNow[l] = "ignored"
        BY <3>1 DEF BlockShape
      <3>4. BlocksNow'[l] = "ignored"
        BY <3>1 DEF BlockShape
      <3> QED BY <3>3, <3>4
    <2> QED BY <2>1, <2>2, <1>3, <1>4
  <1>8. BlocksNow' = Promise!Front(BlocksNow)
    <2> DEFINE f == Promise!Front(BlocksNow)
    <2>1. /\ f \in Seq(Statuses) /\ Len(f) = clev + ifnesting - 1
          /\ \A l \in 1 .. clev + ifnesting - 1 : f[l] = BlocksNow[l]
      <3>1. Len(BlocksNow) - 1 = clev + ifnesting - 1
        BY <1>3, <1>5
      <3>2. /\ f = Front(BlocksNow) /\ Front(BlocksNow) \in Seq(Statuses)
            /\ Len(Front(BlocksNow)) = Len(BlocksNow) - 1
            /\ \A l \in 1 .. Len(BlocksNow) - 1 : Front(BlocksNow)[l] = BlocksNow[l]
        BY <1>5, <1>6, FrontOf
      <3> HIDE DEF f
      <3> QED BY <3>1, <3>2
    <2> HIDE DEF f
    <2>2. BlocksNow' = f
      BY <2>1, <1>5, <1>7, SeqEqual
    <2> QED BY <2>2 DEF f
  <1>9. CallsNow' = CallsNow
    BY <1>1, CallsStay DEF Depth
  <1> QED BY <1>2, <1>6, <1>8, <1>9 DEF Promise!Endif

-----------------------------------------------------------------------------
LEMMA CallsAfter ==
    ASSUME UNCHANGED cond
    PROVE  CallsNow' = [k \in DOMAIN srcs' |-> [blocks |-> Levels(srcs'[k].cond_level),
                                                left   |-> srcs'[k].left]]
  BY DEF CallsNow, Levels

(* A text begins, in assembled text, and remembers the blocks around it.   *)
LEMMA BeginMaps ==
    ASSUME IInv, LevelsKept, IInv', LevelsKept', Reading, cond_state,
           UNCHANGED condVars, NEW src \in SourceType, srcs' = Append(srcs, src),
           src.cond_level = clev, src.left = FALSE
    PROVE  Promise!Begin
  <1>1. Promise!Reading /\ Promise!Assembling
    BY CallSeq, AssemblesWhereOpen DEF Reading
  <1>2. UNCHANGED <<clev, cond, ifnesting>>
    BY DEF condVars
  <1>3. BlocksNow' = BlocksNow
    BY <1>2, BlocksStay
  <1>4. BlocksNow = Levels(clev)
    <2>1. ifnesting = 0 /\ clev \in Nat
      BY LevelFacts
    <2> QED BY <2>1 DEF BlocksNow, Levels
  <1>5. /\ Depth \in Nat /\ Depth' = Depth + 1 /\ DOMAIN srcs = 1 .. Depth
        /\ DOMAIN srcs' = 1 .. Depth + 1 /\ srcs'[Depth + 1] = src
        /\ \A k \in 1 .. Depth : srcs'[k] = srcs[k]
    BY Pushed, Current DEF IInv, TypeOK
  <1> DEFINE call(k) == [blocks |-> Levels(srcs[k].cond_level), left |-> srcs[k].left]
             new == [blocks |-> BlocksNow, left |-> FALSE]
             S == {call(k) : k \in 1 .. Depth} \cup {new}
  <1>7. CallsNow = [k \in 1 .. Depth |-> call(k)]
    BY <1>5 DEF CallsNow
  <1>8. CallsNow' = [k \in 1 .. Depth + 1 |-> IF k = Depth + 1 THEN new ELSE call(k)]
    <2>1. \A k \in 1 .. Depth + 1 : k = Depth + 1 \/ k \in 1 .. Depth
      BY <1>5
    <2>2. \A k \in 1 .. Depth :
              [blocks |-> Levels(srcs'[k].cond_level), left |-> srcs'[k].left] = call(k)
      BY <1>5
    <2>3. [blocks |-> Levels(srcs'[Depth + 1].cond_level), left |-> srcs'[Depth + 1].left] = new
      BY <1>4, <1>5
    <2> HIDE DEF call, new
    <2> QED BY <1>2, <1>5, <2>1, <2>2, <2>3, CallsAfter
  <1> HIDE DEF call, new
  <1>9. CallsNow \in Seq(S) /\ CallsNow' \in Seq(S) /\ new \in S
    <2>1. \A k \in 1 .. Depth : call(k) \in S
      OBVIOUS
    <2>2. \A k \in 1 .. Depth + 1 : k = Depth + 1 \/ k \in 1 .. Depth
      BY <1>5
    <2>3. new \in S
      OBVIOUS
    <2> HIDE DEF S
    <2>4. CallsNow \in [1 .. Depth -> S] /\ CallsNow' \in [1 .. Depth + 1 -> S]
      BY <1>7, <1>8, <2>1, <2>2, <2>3
    <2> QED BY <2>3, <2>4, <1>5
  <1> HIDE DEF S
  <1>10. /\ Len(CallsNow) = Depth /\ Len(CallsNow') = Depth + 1
         /\ CallsNow'[Depth + 1] = new
         /\ \A k \in 1 .. Depth : CallsNow'[k] = CallsNow[k]
    BY <1>5, <1>7, <1>8
  <1>11. CallsNow' = Append(CallsNow, new)
    BY <1>9, <1>10, GrowsByOne
  <1> QED BY <1>1, <1>3, <1>11 DEF Promise!Begin, new

(* A text that begins with its level is not left.                          *)
LEMMA SourceFields ==
    ASSUME NEW kind, NEW m, NEW n, NEW c
    PROVE  Source(kind, m, n, c).cond_level = clev /\ Source(kind, m, n, c).left = FALSE
  BY DEF Source

LEMMA LeftSet ==
    \A b, x, t : [[blocks |-> b, left |-> x] EXCEPT !.left = t] = [blocks |-> b, left |-> t]
  OBVIOUS

(* exitmacro is Leave.                                                     *)
LEMMA LeaveMaps ==
    ASSUME IInv, LevelsKept, BlockShape, IInv', LevelsKept', BlockShape', Assembled,
           ChangeTop(EndOf(cur_src)), clev' = cur_src.cond_level,
           UNCHANGED <<cond, ifnesting>>
    PROVE  Promise!Leave
  <1>1. Promise!Reading /\ Promise!Assembling
    BY CallSeq, AssemblesWhereOpen DEF Assembled, Reading
  <1>2. ifnesting = 0 /\ cur_src = srcs[Depth] /\ Depth \in Nat \ {0}
    BY LevelFacts DEF Assembled
  <1>3. /\ Depth' = Depth /\ DOMAIN srcs = 1 .. Depth /\ DOMAIN srcs' = 1 .. Depth
        /\ \A k \in 1 .. Depth - 1 : srcs'[k] = srcs[k]
        /\ srcs'[Depth] = EndOf(cur_src)
    BY TopChanged, Ended, Current DEF ChangeTop, IInv, TypeOK
  <1>4. srcs'[Depth].cond_level = srcs[Depth].cond_level /\ srcs'[Depth].left = TRUE
    BY <1>2, <1>3, Ended, Current DEF IInv
  <1>5. BlocksNow' = Levels(cur_src.cond_level)
    <2>1. clev' \in Nat /\ ifnesting' = 0
      BY <1>2 DEF BlockShape
    <2>2. BlocksNow' = [l \in 1 .. clev' |-> StatusOf(cond'[l])]
      BY <2>1 DEF BlocksNow
    <2> QED BY <2>2 DEF Levels
  <1>6. Promise!Last(CallsNow) = [blocks |-> Levels(cur_src.cond_level), left |-> cur_src.left]
    <2>1. Promise!Last(CallsNow) = Last(CallsNow)
      BY DEF Promise!Last, Last
    <2> QED BY <2>1, <1>2, CallSeq DEF Began
  <1>7. CallsNow' = [CallsNow EXCEPT ![Len(CallsNow)].left = TRUE]
    <2> DEFINE call(k) == [blocks |-> Levels(srcs[k].cond_level), left |-> srcs[k].left]
    <2>1. CallsNow = [k \in 1 .. Depth |-> call(k)] /\ Len(CallsNow) = Depth
      BY <1>3, CallSeq DEF CallsNow
    <2>2. \A k \in 1 .. Depth : k = Depth \/ k \in 1 .. Depth - 1
      BY <1>2
    <2>3. \A k \in 1 .. Depth - 1 :
              [blocks |-> Levels(srcs'[k].cond_level), left |-> srcs'[k].left] = call(k)
      BY <1>3
    <2>4. [blocks |-> Levels(srcs'[Depth].cond_level), left |-> srcs'[Depth].left]
              = [call(Depth) EXCEPT !.left = TRUE]
      <3>1. [call(Depth) EXCEPT !.left = TRUE]
                = [blocks |-> Levels(srcs[Depth].cond_level), left |-> TRUE]
        BY LeftSet
      <3> QED BY <3>1, <1>4
    <2> HIDE DEF call
    <2>5. CallsNow' = [k \in 1 .. Depth |-> IF k = Depth THEN [call(Depth) EXCEPT !.left = TRUE]
                                                         ELSE call(k)]
      BY <1>3, <2>2, <2>3, <2>4, CallsAfter
    <2>6. [CallsNow EXCEPT ![Depth].left = TRUE] =
              [k \in 1 .. Depth |-> IF k = Depth THEN [CallsNow[Depth] EXCEPT !.left = TRUE]
                                                 ELSE CallsNow[k]]
      BY <1>2, <2>1
    <2>7. \A k \in 1 .. Depth : CallsNow[k] = call(k)
      BY <2>1
    <2> QED BY <1>2, <2>1, <2>5, <2>6, <2>7
  <1> QED BY <1>1, <1>5, <1>6, <1>7 DEF Promise!Leave

-----------------------------------------------------------------------------
(* Every step of CondAsm is one of Blocks or changes nothing it shows.     *)
LEMMA RefineStep ==
    ASSUME IInv, LevelsKept, BlockShape, IInv', LevelsKept', BlockShape', Balanced,
           [Next]_vars
    PROVE  [Promise!Next]_(Promise!vars)
  <1>1. ASSUME UNCHANGED condVars, Depth' = Depth,
               \A k \in 1 .. Depth : srcs'[k].cond_level = srcs[k].cond_level
                                     /\ srcs'[k].left = srcs[k].left
        PROVE  UNCHANGED Promise!vars
    <2>1. UNCHANGED <<clev, ifnesting, cond>>
      BY <1>1 DEF condVars
    <2>2. BlocksNow' = BlocksNow
      BY <2>1, BlocksStay
    <2>3. CallsNow' = CallsNow
      BY <2>1, <1>1, CallsStay
    <2> QED BY <2>2, <2>3 DEF Promise!vars
  <1>2. CASE UNCHANGED condVars /\ srcs' = srcs
    <2>1. UNCHANGED Promise!vars
      BY <1>1, <1>2 DEF Depth
    <2> QED BY <2>1
  <1>3. CASE UNCHANGED vars \/ End \/ Finish
    BY <1>2, <1>3 DEF vars, End, Finish, sourceVars
  <1>4. CASE \E holds \in BOOLEAN : If(holds)
    BY <1>4, IfMaps
  <1>5. CASE SkipIf
    BY <1>5, SkipIfMaps DEF Promise!Next
  <1>6. CASE ElseEnds \/ ElseStarts
    BY <1>6, ElseMaps
  <1>7. CASE Endif
    BY <1>7, EndifMaps DEF Promise!Next
  <1>8. cur_src.reptn \in Nat \cup {-1} /\ TypeOK
    BY Current DEF IInv, SourceType
  <1>9. ASSUME Assembled, UNCHANGED condVars, NEW kind \in {"file", "macro", "repeat"},
               NEW m \in Macros \cup {NoMacro}, NEW n \in Nat \ {0}, NEW c \in Nat \cup {-1},
               srcs' = Append(srcs, Source(kind, m, n, c))
        PROVE  Promise!Begin
    <2> DEFINE src == Source(kind, m, n, c)
    <2>1. src \in SourceType
      BY <1>8, NewSource
    <2>2. src.cond_level = clev /\ src.left = FALSE
      BY SourceFields
    <2>3. srcs' = Append(srcs, src) /\ Reading /\ cond_state
      BY <1>9 DEF Assembled
    <2> HIDE DEF src
    <2> QED BY <2>1, <2>2, <2>3, <1>9, BeginMaps
  <1>10. CASE Include
    <2>1. /\ Assembled /\ UNCHANGED condVars
          /\ srcs' = Append(srcs, Source("file", NoMacro, 1, cur_src.reptn))
      BY <1>10 DEF Include, Push
    <2> QED BY <2>1, <1>8, <1>9 DEF Promise!Next
  <1>11. CASE \E m \in Macros : Call(m)
    <2>1. PICK m \in Macros : Call(m)
      BY <1>11
    <2>2. Assembled /\ UNCHANGED condVars
      BY <2>1 DEF Call
    <2>3. srcs' = srcs \/ srcs' = Append(srcs, Source("macro", m, 1, cur_src.reptn))
      BY <2>1 DEF Call, Push
    <2>4. CASE srcs' = Append(srcs, Source("macro", m, 1, cur_src.reptn))
      BY <2>2, <2>4, <1>8, <1>9 DEF Promise!Next
    <2> QED BY <2>2, <2>3, <2>4, <1>2
  <1>12. CASE \E n \in 1 .. MaxRepeat : Rept(n)
    <2>1. PICK n \in 1 .. MaxRepeat : Rept(n)
      BY <1>12
    <2>2. /\ Assembled /\ UNCHANGED condVars /\ n \in Nat \ {0}
          /\ srcs' = Append(srcs, Source("repeat", NoMacro, n, 0))
      BY <2>1, LimitAssumption DEF Rept, Push
    <2> QED BY <2>2, <1>9 DEF Promise!Next
  <1>13. CASE ExitMacro
    <2>1. CASE srcs' = srcs /\ clev' = clev
      BY <1>13, <2>1, <1>2 DEF ExitMacro, condVars
    <2>2. CASE ChangeTop(EndOf(cur_src)) /\ clev' = ExitLevel
      <3>1. Promise!Leave
        BY <1>13, <2>2, LeaveMaps DEF ExitMacro, ExitLevel
      <3> QED BY <3>1 DEF Promise!Next
    <2> QED BY <1>13, <2>1, <2>2 DEF ExitMacro
  <1>14. CASE Again
    <2>1. /\ cur_src.repeat > 1 /\ ChangeTop(Iterated(cur_src)) /\ UNCHANGED condVars
      BY <1>14 DEF Again
    <2>2. /\ Depth' = Depth /\ Depth \in Nat \ {0} /\ srcs'[Depth] = Iterated(cur_src)
          /\ \A k \in 1 .. Depth - 1 : srcs'[k] = srcs[k]
      BY <2>1, <1>8, Current, Repeated, TopChanged DEF ChangeTop, TypeOK
    <2>3. /\ srcs'[Depth].cond_level = srcs[Depth].cond_level
          /\ srcs'[Depth].left = srcs[Depth].left
      BY <2>1, <2>2, <1>8, Current, Repeated
    <2>4. \A k \in 1 .. Depth : k = Depth \/ k \in 1 .. Depth - 1
      BY <2>2
    <2>5. UNCHANGED Promise!vars
      BY <1>1, <2>1, <2>2, <2>3, <2>4
    <2> QED BY <2>5
  <1>15. CASE Return
    <2>1. Depth > 1 /\ srcs' = Front(srcs) /\ UNCHANGED <<clev, ifnesting, cond>>
      BY <1>15 DEF Return, condVars, Depth
    <2>2. BlocksNow' = BlocksNow
      BY <2>1, BlocksStay
    <2>3. /\ DOMAIN srcs = 1 .. Depth /\ DOMAIN srcs' = 1 .. Depth - 1
          /\ \A k \in 1 .. Depth - 1 : srcs'[k] = srcs[k]
      BY <2>1, <1>8, Popped DEF TypeOK
    <2>4. CallsNow' = [k \in 1 .. Depth - 1 |-> CallsNow[k]]
      <3>1. CallsNow' = [k \in 1 .. Depth - 1 |-> [blocks |-> Levels(srcs'[k].cond_level),
                                                   left   |-> srcs'[k].left]]
        BY <2>1, <2>3, CallsAfter
      <3>2. \A k \in 1 .. Depth - 1 : k \in 1 .. Depth
        BY <1>8, Current
      <3> QED BY <3>1, <3>2, <2>3 DEF CallsNow
    <2>5. Len(CallsNow) = Depth /\ Depth \in Nat
      BY CallSeq, LevelFacts
    <2>6. Promise!Front(CallsNow) = [k \in 1 .. Depth - 1 |-> CallsNow[k]]
      BY <2>1, <2>5 DEF Promise!Front
    <2>7. Promise!Return
      BY <2>1, <2>2, <2>4, <2>5, <2>6 DEF Promise!Return
    <2> QED BY <2>7 DEF Promise!Next
  <1> QED BY <1>3, <1>4, <1>5, <1>6, <1>7, <1>10, <1>11, <1>12, <1>13, <1>14, <1>15
          DEF Next

(* In a source in which every text closes only the blocks it opened, text  *)
(* is assembled where the blocks say so, and leaving a macro early restores*)
(* them, for any limits, macros and counts.                                *)
THEOREM Implementation == Balanced /\ Spec => ImplementsBlocks
  <1> SUFFICES ASSUME Balanced PROVE Spec => ImplementsBlocks
    OBVIOUS
  <1>1. Init => Promise!Init
    <2> SUFFICES ASSUME Init PROVE Promise!Init
      OBVIOUS
    <2>1. clev = 0 /\ ifnesting = 0 /\ srcs = <<Source("file", NoMacro, 1, -1)>>
      BY DEF Init
    <2>2. BlocksNow = << >>
      BY <2>1 DEF BlocksNow
    <2>3. Source("file", NoMacro, 1, -1).cond_level = 0
          /\ Source("file", NoMacro, 1, -1).left = FALSE
      BY <2>1, SourceFields
    <2>4. Levels(0) = << >>
      BY DEF Levels
    <2>5. CallsNow = <<[blocks |-> << >>, left |-> FALSE]>>
      <3> DEFINE first == Source("file", NoMacro, 1, -1)
                 call == [blocks |-> << >>, left |-> FALSE]
      <3>1. first.cond_level = 0 /\ first.left = FALSE /\ srcs = <<first>>
        BY <2>1, <2>3
      <3> HIDE DEF first
      <3>2. DOMAIN srcs = {1} /\ srcs[1] = first
        BY <3>1
      <3>3. [blocks |-> Levels(srcs[1].cond_level), left |-> srcs[1].left] = call
        BY <3>1, <3>2, <2>4
      <3> HIDE DEF call
      <3>4. CallsNow = [k \in {1} |-> call]
        BY <3>2, <3>3 DEF CallsNow
      <3>5. CallsNow = <<call>>
        BY <3>4
      <3> QED BY <3>5 DEF call
    <2> QED BY <2>2, <2>5 DEF Promise!Init
  <1>2. IInv /\ LevelsKept /\ [Next]_vars => LevelsKept'
    BY LevelStep
  <1>3. IInv /\ LevelsKept /\ BlockShape /\ IInv' /\ LevelsKept' /\ BlockShape' /\ [Next]_vars
            => [Promise!Next]_(Promise!vars)
    BY RefineStep
  <1> QED BY InitLevels, Inductive, BlockSeq, <1>1, <1>2, <1>3, PTL
          DEF Spec, ImplementsBlocks, Promise!Spec
=============================================================================
