-------------------------- MODULE OutputBin_proofs --------------------------
(***************************************************************************)
(* Proofs about OutputBin: for any sections, the file holds each byte      *)
(* where the labels say, in each kind of format.                           *)
(***************************************************************************)
EXTENDS OutputBin, SequenceTheorems, WellFoundedInduction, TLAPS

AtomType == [size : Nat, align : Nat, uninit : BOOLEAN]

-----------------------------------------------------------------------------
(* A natural number that has a property has a least one. *)
LEMMA Least ==
    ASSUME NEW T, T \subseteq Nat, T # {}
    PROVE  \E x \in T : \A y \in T : x <= y
  <1>1. PICK x \in T : \A y \in T : ~ (<<y, x>> \in OpToRel(<, Nat))
    BY NatLessThanWellFounded, WFMin
  <1>2. \A y \in T : ~ (y < x)
    BY <1>1 DEF OpToRel
  <1>3. \A y \in T : x <= y
    BY <1>2
  <1> QED BY <1>3

(* A value that changes from step to step is a function of their number:   *)
(* the form of every recursive function here.                              *)
Iterate(f, n, V, v, F) ==
    /\ f \in [0 .. n -> V]
    /\ f[0] = v
    /\ \A j \in 1 .. n : f[j] = F[<<j, f[j - 1]>>]

LEMMA Iterates ==
    ASSUME NEW n \in Nat, NEW V, NEW v \in V, NEW F \in [(1 .. n) \X V -> V]
    PROVE  \E f : Iterate(f, n, V, v, F)
  <1> DEFINE Upto(m) == \E f \in [0 .. m -> V] :
                 f[0] = v /\ \A j \in 1 .. m : f[j] = F[<<j, f[j - 1]>>]
             T == {m \in 0 .. n : ~Upto(m)}
  <1>1. SUFFICES Upto(n)
    BY DEF Iterate
  <1>2. SUFFICES ASSUME T # {} PROVE FALSE
    <2> HIDE DEF Upto
    <2> QED BY <1>2
  <1>3. PICK m \in T : \A y \in T : m <= y
    <2> HIDE DEF Upto
    <2>1. T \subseteq Nat
      OBVIOUS
    <2> HIDE DEF T
    <2> QED BY <1>2, <2>1, Least
  <1>a. m \in 0 .. n /\ ~Upto(m)
    OBVIOUS
  <1>4. CASE m = 0
    <2> DEFINE g == [x \in 0 .. 0 |-> v]
    <2>1. g \in [0 .. 0 -> V] /\ g[0] = v
      OBVIOUS
    <2> HIDE DEF g
    <2>2. Upto(0)
      BY <2>1
    <2> QED BY <1>a, <1>4, <2>2
  <1>5. CASE m > 0
    <2>1. m - 1 \in 0 .. n /\ m - 1 < m
      BY <1>a, <1>5
    <2>2. Upto(m - 1)
      BY <1>3, <2>1
    <2>3. PICK f \in [0 .. m - 1 -> V] :
             f[0] = v /\ \A j \in 1 .. m - 1 : f[j] = F[<<j, f[j - 1]>>]
      BY <2>2
    <2> DEFINE g == [j \in 0 .. m |-> IF j = m THEN F[<<m, f[m - 1]>>] ELSE f[j]]
    <2>4. f[m - 1] \in V /\ F[<<m, f[m - 1]>>] \in V
      BY <1>a, <1>5
    <2>5. g \in [0 .. m -> V]
      BY <2>4
    <2>6. g[0] = v /\ \A j \in 1 .. m : g[j] = F[<<j, g[j - 1]>>]
      <3>1. g[0] = f[0]
        BY <1>a, <1>5
      <3>2. ASSUME NEW j \in 1 .. m PROVE g[j] = F[<<j, g[j - 1]>>]
        <4>1. g[j - 1] = f[j - 1]
          BY <1>a, <1>5
        <4>2. CASE j = m
          <5>1. m \in 0 .. m /\ g[m] = F[<<m, f[m - 1]>>]
            BY <1>a
          <5> HIDE DEF g
          <5> QED BY <4>1, <4>2, <5>1
        <4>3. CASE j # m
          <5>1. j \in 1 .. m - 1 /\ j \in 0 .. m
            BY <1>a, <4>3
          <5>2. g[j] = f[j]
            BY <4>3, <5>1
          <5> QED BY <2>3, <4>1, <5>1, <5>2
        <4> QED BY <4>2, <4>3
      <3> QED BY <2>3, <3>1, <3>2
    <2> QED BY <1>a, <2>5, <2>6
  <1> QED BY <1>a, <1>4, <1>5

(* What one step after another preserves. *)
LEMMA Inherited ==
    ASSUME NEW n \in Nat, NEW V, NEW g, g[0] \in V,
           \A j \in 1 .. n : g[j - 1] \in V => g[j] \in V
    PROVE  \A j \in 0 .. n : g[j] \in V
  <1> DEFINE T == {j \in 0 .. n : g[j] \notin V}
  <1>1. SUFFICES ASSUME T # {} PROVE FALSE
    BY <1>1
  <1>2. PICK j \in T : \A y \in T : j <= y
    <2>1. T \subseteq Nat
      OBVIOUS
    <2> HIDE DEF T
    <2> QED BY <1>1, <2>1, Least
  <1>3. j \in 0 .. n /\ g[j] \notin V /\ j # 0
    OBVIOUS
  <1>4. j - 1 \in 0 .. n /\ j \in 1 .. n /\ ~(j <= j - 1)
    BY <1>3
  <1>5. g[j - 1] \in V
    BY <1>2, <1>4
  <1> QED BY <1>3, <1>4, <1>5

-----------------------------------------------------------------------------
(* Remainders. *)
LEMMA RemainderUnique ==
    ASSUME NEW a \in Nat \ {0}, NEW q \in Nat, NEW r \in 0 .. a - 1, NEW x \in Nat,
           x = a * q + r
    PROVE  x % a = r
  OBVIOUS

LEMMA Quotient ==
    ASSUME NEW a \in Nat \ {0}, NEW x \in Nat
    PROVE  x \div a \in Nat /\ x % a \in 0 .. a - 1 /\ x = a * (x \div a) + (x % a)
  OBVIOUS

(* A multiple of a changes no remainder, ...                               *)
LEMMA AddMultiple ==
    ASSUME NEW a \in Nat \ {0}, NEW x \in Nat, NEW y \in Nat, y % a = 0
    PROVE  (x + y) % a = x % a
  <1>1. PICK q \in Nat, q2 \in Nat, r \in 0 .. a - 1 :
           x = a * q + r /\ y = a * q2 /\ x % a = r
    <2>1. y = a * (y \div a) /\ y \div a \in Nat
      BY Quotient
    <2> QED BY <2>1, Quotient
  <1>2. x + y = a * (q + q2) + r /\ q + q2 \in Nat
    BY <1>1
  <1> QED BY <1>1, <1>2, RemainderUnique

(* ... and a multiple of a multiple of a is one of a. *)
LEMMA MultipleOfMultiple ==
    ASSUME NEW a \in Nat \ {0}, NEW b \in Nat \ {0}, NEW y \in Nat,
           y % b = 0, b % a = 0
    PROVE  y % a = 0
  <1>1. PICK q \in Nat, q2 \in Nat : y = b * q /\ b = a * q2
    <2>1. y = b * (y \div b) /\ y \div b \in Nat
      BY Quotient
    <2>2. b = a * (b \div a) /\ b \div a \in Nat
      BY Quotient
    <2> QED BY <2>1, <2>2
  <1>2. y = a * (q2 * q) + 0 /\ q2 * q \in Nat
    BY <1>1
  <1> QED BY <1>2, RemainderUnique

-----------------------------------------------------------------------------
(* Alignment. *)
LEMMA BalignType ==
    ASSUME NEW addr \in Nat, NEW a \in Nat PROVE balign(addr, a) \in Nat
  BY DEF balign

LEMMA BalignAligns ==
    ASSUME NEW addr \in Nat, NEW a \in Nat \ {0}
    PROVE  (addr + balign(addr, a)) % a = 0
  <1>1. CASE addr % a = 0
    BY <1>1 DEF balign
  <1>2. CASE addr % a # 0
    <2>1. PICK q \in Nat, r \in 1 .. a - 1 : addr = a * q + r /\ addr % a = r
      <3>1. addr \div a \in Nat /\ addr % a \in 1 .. a - 1
            /\ addr = a * (addr \div a) + (addr % a)
        BY <1>2, Quotient
      <3> QED BY <3>1
    <2>2. addr + balign(addr, a) = a * q + a
      BY <1>2, <2>1 DEF balign
    <2>3. a * q + a = a * (q + 1) + 0 /\ q + 1 \in Nat
      OBVIOUS
    <2>4. addr + balign(addr, a) \in Nat
      BY BalignType
    <2> QED BY <2>2, <2>3, <2>4, RemainderUnique
  <1> QED BY <1>1, <1>2

(* An address moved by a multiple of the alignment needs the same padding. *)
LEMMA BalignShift ==
    ASSUME NEW addr \in Nat, NEW a \in Nat, NEW y \in Nat, a = 0 \/ y % a = 0
    PROVE  balign(addr + y, a) = balign(addr, a)
  <1>1. CASE a = 0
    BY <1>1 DEF balign
  <1>2. CASE a # 0
    BY <1>2, AddMultiple DEF balign
  <1> QED BY <1>1, <1>2

-----------------------------------------------------------------------------
(* EndOf is the function it is defined by. *)
EndStep(atoms, k, from) == pcalign(atoms[k], from) + atoms[k].size

LEMMA EndStepType ==
    ASSUME NEW atoms \in Seq(AtomType), NEW k \in 1 .. Len(atoms), NEW from \in Nat
    PROVE  EndStep(atoms, k, from) \in Nat /\ from <= pcalign(atoms[k], from)
           /\ pcalign(atoms[k], from) + atoms[k].size = EndStep(atoms, k, from)
           /\ pcalign(atoms[k], from) \in Nat /\ atoms[k] \in AtomType
  <1>1. atoms[k] \in AtomType
    OBVIOUS
  <1>2. atoms[k].size \in Nat /\ atoms[k].align \in Nat
    BY <1>1 DEF AtomType
  <1>3. balign(from, atoms[k].align) \in Nat
    BY <1>2, BalignType
  <1>4. pcalign(atoms[k], from) = from + balign(from, atoms[k].align)
    BY DEF pcalign
  <1> QED BY <1>1, <1>2, <1>3, <1>4 DEF EndStep

LEMMA EndOfSteps ==
    ASSUME NEW atoms \in Seq(AtomType), NEW org \in Nat
    PROVE  /\ EndOf(atoms, 0, org) = org
           /\ \A k \in 0 .. Len(atoms) : EndOf(atoms, k, org) \in Nat
           /\ \A k \in 1 .. Len(atoms) :
                 EndOf(atoms, k, org) = EndStep(atoms, k, EndOf(atoms, k - 1, org))
  <1> DEFINE n == Len(atoms)
             F == [x \in (1 .. n) \X Nat |-> EndStep(atoms, x[1], x[2])]
             G(g) == [j \in 0 .. n |-> IF j = 0 THEN org
                          ELSE pcalign(atoms[j], g[j - 1]) + atoms[j].size]
             end == CHOOSE g : g = G(g)
  <1>1. n \in Nat
    OBVIOUS
  <1>2. F \in [(1 .. n) \X Nat -> Nat]
    BY EndStepType
  <1>3. PICK f : Iterate(f, n, Nat, org, F)
    <2> HIDE DEF n, F
    <2> QED BY <1>1, <1>2, Iterates
  <1> USE DEF Iterate
  <1>4. ASSUME NEW j \in 1 .. n
        PROVE  f[j - 1] \in Nat /\ f[j] = EndStep(atoms, j, f[j - 1])
    <2>1. j - 1 \in 0 .. n
      BY <1>1
    <2>2. f[j - 1] \in Nat
      BY <1>3, <2>1
    <2>3. <<j, f[j - 1]>> \in (1 .. n) \X Nat
      BY <2>2
    <2>4. F[<<j, f[j - 1]>>] = EndStep(atoms, j, f[j - 1])
      BY <2>3
    <2> QED BY <1>3, <2>2, <2>4
  <1>5. f = G(f)
    <2>1. f = [j \in 0 .. n |-> f[j]]
      BY <1>3
    <2>2. ASSUME NEW j \in 0 .. n
          PROVE  f[j] = IF j = 0 THEN org
                        ELSE pcalign(atoms[j], f[j - 1]) + atoms[j].size
      <3>1. CASE j = 0
        BY <1>3, <3>1
      <3>2. CASE j # 0
        BY <1>1, <1>4, <3>2 DEF EndStep
      <3> QED BY <3>1, <3>2
    <2> QED BY <2>1, <2>2
  <1>6. end = G(end)
    BY <1>5
  <1>7. \A k : EndOf(atoms, k, org) = end[k]
    BY DEF EndOf
  <1> HIDE DEF end
  <1>8. end[0] = org /\ \A j \in 1 .. n : end[j] = EndStep(atoms, j, end[j - 1])
    BY <1>1, <1>6 DEF EndStep
  <1> HIDE DEF G
  <1>9. \A k \in 0 .. n : end[k] \in Nat
    <2>1. \A j \in 1 .. n : end[j - 1] \in Nat => end[j] \in Nat
      BY <1>8, EndStepType
    <2> HIDE DEF n
    <2> QED BY <1>1, <1>8, <2>1, Inherited
  <1> QED BY <1>7, <1>8, <1>9

(* Addresses grow along a section. *)
LEMMA PlaceOfType ==
    ASSUME NEW atoms \in Seq(AtomType), NEW org \in Nat, NEW k \in 1 .. Len(atoms)
    PROVE  /\ PlaceOf(atoms, k, org) \in Nat
           /\ EndOf(atoms, k - 1, org) \in Nat
           /\ EndOf(atoms, k - 1, org) <= PlaceOf(atoms, k, org)
           /\ EndOf(atoms, k, org) = PlaceOf(atoms, k, org) + atoms[k].size
           /\ PlaceOf(atoms, k, org) = EndOf(atoms, k - 1, org)
                  + balign(EndOf(atoms, k - 1, org), atoms[k].align)
           /\ balign(EndOf(atoms, k - 1, org), atoms[k].align) \in Nat
           /\ atoms[k].size \in Nat
  <1>1. k - 1 \in 0 .. Len(atoms) /\ atoms[k] \in AtomType
    OBVIOUS
  <1>2. atoms[k].size \in Nat /\ atoms[k].align \in Nat
    BY <1>1 DEF AtomType
  <1> QED BY <1>1, <1>2, EndOfSteps, EndStepType, BalignType
          DEF PlaceOf, EndStep, pcalign

LEMMA EndOfGrows ==
    ASSUME NEW atoms \in Seq(AtomType), NEW org \in Nat,
           NEW j \in 0 .. Len(atoms), NEW k \in j .. Len(atoms)
    PROVE  EndOf(atoms, j, org) <= EndOf(atoms, k, org)
  <1> DEFINE T == {m \in j .. Len(atoms) : EndOf(atoms, j, org) > EndOf(atoms, m, org)}
  <1>n. Len(atoms) \in Nat
    OBVIOUS
  <1>e. \A m \in 0 .. Len(atoms) : EndOf(atoms, m, org) \in Nat
    BY EndOfSteps
  <1>1. SUFFICES ASSUME T # {} PROVE FALSE
    BY <1>1, <1>e
  <1>2. PICK m \in T : \A y \in T : m <= y
    <2>1. T \subseteq Nat
      OBVIOUS
    <2> HIDE DEF T
    <2> QED BY <1>1, <2>1, Least
  <1>3. m \in j .. Len(atoms) /\ EndOf(atoms, j, org) > EndOf(atoms, m, org)
    OBVIOUS
  <1>4. m # j /\ m \in 1 .. Len(atoms) /\ m - 1 \in j .. Len(atoms)
    BY <1>n, <1>e, <1>3
  <1>5. EndOf(atoms, m - 1, org) <= EndOf(atoms, m, org)
    <2>1. /\ EndOf(atoms, m - 1, org) \in Nat /\ PlaceOf(atoms, m, org) \in Nat
          /\ EndOf(atoms, m - 1, org) <= PlaceOf(atoms, m, org)
          /\ EndOf(atoms, m, org) = PlaceOf(atoms, m, org) + atoms[m].size
          /\ atoms[m].size \in Nat
      BY <1>4, PlaceOfType
    <2> QED BY <2>1
  <1>6. EndOf(atoms, j, org) > EndOf(atoms, m - 1, org)
    BY <1>n, <1>e, <1>3, <1>4, <1>5
  <1>7. m - 1 \in T
    BY <1>4, <1>6
  <1> QED BY <1>2, <1>4, <1>7

(* A section moved by a multiple of its alignments keeps its layout. *)
LEMMA EndOfShift ==
    ASSUME NEW atoms \in Seq(AtomType), NEW org \in Nat,
           \A k \in 1 .. Len(atoms) : atoms[k].align = 0 \/ org % atoms[k].align = 0,
           NEW k \in 0 .. Len(atoms)
    PROVE  EndOf(atoms, k, org) = EndOf(atoms, k, 0) + org
  <1> DEFINE T == {m \in 0 .. Len(atoms) : EndOf(atoms, m, org) # EndOf(atoms, m, 0) + org}
  <1>1. SUFFICES ASSUME T # {} PROVE FALSE
    BY <1>1
  <1>2. PICK m \in T : \A y \in T : m <= y
    <2>1. T \subseteq Nat
      OBVIOUS
    <2> HIDE DEF T
    <2> QED BY <1>1, <2>1, Least
  <1>3. m \in 0 .. Len(atoms) /\ EndOf(atoms, m, org) # EndOf(atoms, m, 0) + org
    OBVIOUS
  <1>4. m \in 1 .. Len(atoms) /\ m - 1 \in 0 .. Len(atoms) /\ ~(m <= m - 1)
    <2>1. EndOf(atoms, 0, org) = org /\ EndOf(atoms, 0, 0) = 0
      BY EndOfSteps
    <2>2. m # 0
      BY <1>3, <2>1
    <2> QED BY <1>3, <2>2
  <1>5. EndOf(atoms, m - 1, org) = EndOf(atoms, m - 1, 0) + org
    BY <1>2, <1>4
  <1> DEFINE e == EndOf(atoms, m - 1, 0)
             a == atoms[m].align
  <1>6. e \in Nat /\ a \in Nat /\ (a = 0 \/ org % a = 0)
    BY <1>4, EndOfSteps, EndStepType DEF AtomType
  <1>7. balign(e + org, a) = balign(e, a)
    BY <1>6, BalignShift
  <1>8. /\ EndOf(atoms, m, org) = PlaceOf(atoms, m, org) + atoms[m].size
        /\ PlaceOf(atoms, m, org) = e + org + balign(e + org, a)
    BY <1>4, <1>5, PlaceOfType
  <1>9. /\ EndOf(atoms, m, 0) = PlaceOf(atoms, m, 0) + atoms[m].size
        /\ PlaceOf(atoms, m, 0) = e + balign(e, a)
        /\ balign(e, a) \in Nat /\ atoms[m].size \in Nat
    BY <1>4, PlaceOfType
  <1> HIDE DEF e, a
  <1>10. EndOf(atoms, m, org) = e + org + balign(e, a) + atoms[m].size
    BY <1>7, <1>8
  <1>11. EndOf(atoms, m, 0) = e + balign(e, a) + atoms[m].size
    BY <1>9
  <1>12. EndOf(atoms, m, org) = EndOf(atoms, m, 0) + org
    BY <1>6, <1>9, <1>10, <1>11
  <1> QED BY <1>3, <1>12

-----------------------------------------------------------------------------
(* Where joined sections begin is an address. *)
LEMMA SizeSumType ==
    ASSUME NEW atoms \in Seq(AtomType) PROVE SizeSum(atoms) \in Nat
  <1> DEFINE n == Len(atoms)
             F == [x \in (1 .. n) \X Nat |-> x[2] + atoms[x[1]].size]
             G(g) == [j \in 0 .. n |-> IF j = 0 THEN 0 ELSE g[j - 1] + atoms[j].size]
             sum == CHOOSE g : g = G(g)
  <1>1. n \in Nat /\ \A j \in 1 .. n : atoms[j].size \in Nat
    <2>1. \A j \in 1 .. n : atoms[j] \in AtomType
      OBVIOUS
    <2> QED BY <2>1 DEF AtomType
  <1>2. F \in [(1 .. n) \X Nat -> Nat]
    BY <1>1
  <1>3. PICK f : Iterate(f, n, Nat, 0, F)
    <2> HIDE DEF n, F
    <2> QED BY <1>1, <1>2, Iterates
  <1>4. ASSUME NEW j \in 1 .. n
        PROVE  f[j] = f[j - 1] + atoms[j].size
    <2>1. j - 1 \in 0 .. n
      BY <1>1
    <2>2. <<j, f[j - 1]>> \in (1 .. n) \X Nat
      BY <1>3, <2>1 DEF Iterate
    <2>3. F[<<j, f[j - 1]>>] = f[j - 1] + atoms[j].size
      BY <2>2
    <2> QED BY <1>3, <2>3 DEF Iterate
  <1>5. f = G(f)
    <2>1. f = [j \in 0 .. n |-> f[j]]
      BY <1>3 DEF Iterate
    <2>2. \A j \in 0 .. n : f[j] = IF j = 0 THEN 0 ELSE f[j - 1] + atoms[j].size
      BY <1>1, <1>3, <1>4 DEF Iterate
    <2> QED BY <2>1, <2>2
  <1>6. sum = G(sum)
    BY <1>5
  <1>7. SizeSum(atoms) = sum[n]
    BY DEF SizeSum
  <1> HIDE DEF sum
  <1>8. sum[0] = 0 /\ \A j \in 1 .. n : sum[j] = sum[j - 1] + atoms[j].size
    BY <1>1, <1>6
  <1> HIDE DEF G
  <1>9. \A j \in 0 .. n : sum[j] \in Nat
    <2>1. \A j \in 1 .. n : sum[j - 1] \in Nat => sum[j] \in Nat
      BY <1>1, <1>8
    <2>2. sum[0] \in Nat
      BY <1>8
    <2> HIDE DEF n
    <2> QED BY <1>1, <2>1, <2>2, Inherited
  <1> QED BY <1>1, <1>7, <1>9

(* A section as it may be in the list. *)
SectionType ==
    [org : Nat, pc : Nat, absolute : BOOLEAN, align : Nat \ {0}, atoms : Bodies,
     last : Nat]

LEMMA BodyType == ASSUME NEW atoms \in Bodies PROVE atoms \in Seq(AtomType)
  BY BodyAssumption DEF AtomType

LEMMA BehindType ==
    ASSUME NEW s \in SectionType, NEW addr \in Nat PROVE Behind(addr, s) \in Nat
  <1>1. s.align \in Nat /\ s.atoms \in Seq(AtomType)
    BY BodyType DEF SectionType
  <1>2. balign(addr, s.align) \in Nat /\ SizeSum(s.atoms) \in Nat
    BY <1>1, BalignType, SizeSumType
  <1> QED BY <1>2 DEF Behind, SectionOrg

LEMMA BeforeType ==
    ASSUME NEW n \in Nat, secs \in [1 .. n -> SectionType], NEW i \in 1 .. n
    PROVE  Before(i) \in Nat
  <1> DEFINE F == [x \in (1 .. n) \X Nat |-> Behind(x[2], secs[x[1]])]
             G(g) == [j \in 0 .. n |->
                          IF j = 0 THEN JoinOrg ELSE Behind(g[j - 1], secs[j])]
             at == CHOOSE g : g = G(g)
  <1>1. JoinOrg \in Nat /\ \A j \in 1 .. n : secs[j] \in SectionType
    BY OriginAssumption
  <1>2. F \in [(1 .. n) \X Nat -> Nat]
    BY <1>1, BehindType
  <1>3. PICK f : Iterate(f, n, Nat, JoinOrg, F)
    <2> HIDE DEF F
    <2> QED BY <1>1, <1>2, Iterates
  <1>4. ASSUME NEW j \in 1 .. n
        PROVE  f[j] = Behind(f[j - 1], secs[j])
    <2>1. j - 1 \in 0 .. n
      OBVIOUS
    <2>2. <<j, f[j - 1]>> \in (1 .. n) \X Nat
      BY <1>3, <2>1 DEF Iterate
    <2>3. F[<<j, f[j - 1]>>] = Behind(f[j - 1], secs[j])
      BY <2>2
    <2> QED BY <1>3, <2>3 DEF Iterate
  <1>5. f = G(f)
    <2>1. f = [j \in 0 .. n |-> f[j]]
      BY <1>3 DEF Iterate
    <2>2. \A j \in 0 .. n : f[j] = IF j = 0 THEN JoinOrg ELSE Behind(f[j - 1], secs[j])
      BY <1>1, <1>3, <1>4 DEF Iterate
    <2> QED BY <2>1, <2>2
  <1>6. at = G(at)
    BY <1>5
  <1>7. Before(i) = at[i - 1]
    <2>1. Len(secs) = n
      OBVIOUS
    <2> QED BY <2>1 DEF Before
  <1> HIDE DEF at
  <1>8. at[0] = JoinOrg /\ \A j \in 1 .. n : at[j] = Behind(at[j - 1], secs[j])
    BY <1>1, <1>6
  <1> HIDE DEF G
  <1>9. \A j \in 0 .. n : at[j] \in Nat
    <2>1. \A j \in 1 .. n : at[j - 1] \in Nat => at[j] \in Nat
      BY <1>1, <1>8, BehindType
    <2> QED BY <1>1, <1>8, <2>1, Inherited
  <1> QED BY <1>7, <1>9

-----------------------------------------------------------------------------
(* Largest elements. *)
LEMMA MaxOf ==
    ASSUME NEW S, S \subseteq Nat, S # {}, NEW u \in Nat, \A x \in S : x <= u
    PROVE  Max(S) \in S /\ \A x \in S : x <= Max(S)
  <1> DEFINE T == {v \in Nat : \A x \in S : x <= v}
  <1>1. PICK v \in T : \A y \in T : v <= y
    <2>1. T \subseteq Nat /\ T # {}
      OBVIOUS
    <2> HIDE DEF T
    <2> QED BY <2>1, Least
  <1>2. v \in Nat /\ \A x \in S : x <= v
    OBVIOUS
  <1>3. v \in S
    <2>1. SUFFICES ASSUME v \notin S PROVE FALSE
      OBVIOUS
    <2>2. v # 0
      <3>1. PICK x \in S : TRUE
        OBVIOUS
      <3>2. x \in Nat /\ x <= v /\ x # v
        BY <1>2, <2>1
      <3> QED BY <1>2, <3>2
    <2>3. v - 1 \in Nat /\ \A x \in S : x <= v - 1
      BY <1>2, <2>1, <2>2
    <2>4. v - 1 \in T
      BY <2>3
    <2> QED BY <1>1, <1>2, <2>4
  <1>4. \A x \in S : v >= x
    BY <1>2
  <1> HIDE DEF T
  <1>5. Max(S) \in S /\ \A x \in S : Max(S) >= x
    BY <1>3, <1>4 DEF Max
  <1> QED BY <1>2, <1>5

LEMMA Larger ==
    ASSUME NEW a \in Nat, NEW u \in Nat
    PROVE  \E v \in Nat : u <= v /\ a <= v /\ \A c \in Nat : c <= u => c <= v
  <1>1. CASE a <= u
    BY <1>1
  <1>2. CASE ~(a <= u)
    BY <1>2
  <1> QED BY <1>1, <1>2

LEMMA AlignType ==
    ASSUME NEW atoms \in Seq(AtomType) PROVE Align(atoms) \in Nat \ {0}
  <1> DEFINE n == Len(atoms)
             Bounded(j) == \E u \in Nat : \A k \in 1 .. j : atoms[k].align <= u
             T == {j \in 0 .. n : ~Bounded(j)}
  <1>1. n \in Nat /\ DOMAIN atoms = 1 .. n /\ \A j \in 1 .. n : atoms[j].align \in Nat
    <2>1. \A j \in 1 .. n : atoms[j] \in AtomType
      OBVIOUS
    <2> QED BY <2>1 DEF AtomType
  <1> HIDE DEF n
  <1>2. Bounded(n)
    <2>1. SUFFICES ASSUME T # {} PROVE FALSE
      <3> HIDE DEF Bounded
      <3> QED BY <1>1, <2>1
    <2>2. PICK j \in T : \A y \in T : j <= y
      <3> HIDE DEF Bounded
      <3>1. T \subseteq Nat
        OBVIOUS
      <3> HIDE DEF T
      <3> QED BY <2>1, <3>1, Least
    <2>3. j \in 0 .. n /\ ~Bounded(j) /\ j # 0
      BY <1>1
    <2>4. j - 1 \in 0 .. n /\ j \in 1 .. n /\ ~(j <= j - 1)
      BY <1>1, <2>3
    <2>5. Bounded(j - 1)
      BY <2>2, <2>4
    <2>6. PICK u \in Nat : \A k \in 1 .. j - 1 : atoms[k].align <= u
      BY <2>5
    <2>7. j \in Nat /\ atoms[j].align \in Nat
      BY <1>1, <2>4
    <2>8. PICK v \in Nat : /\ u <= v /\ atoms[j].align <= v
                           /\ \A c \in Nat : c <= u => c <= v
      <3> HIDE DEF T, Bounded
      <3> QED BY <2>7, Larger
    <2>9. ASSUME NEW k \in 1 .. j PROVE atoms[k].align <= v
      <3>1. CASE k = j
        BY <2>8, <3>1
      <3>2. CASE k # j
        <4>1. k \in 1 .. j - 1 /\ k \in 1 .. n
          <5>1. n \in Nat /\ j <= n
            BY <1>1, <2>4
          <5> HIDE DEF T, Bounded
          <5> QED BY <2>7, <3>2, <5>1
        <4>2. atoms[k].align <= u /\ atoms[k].align \in Nat
          BY <1>1, <2>6, <4>1
        <4> HIDE DEF T, Bounded
        <4> QED BY <2>8, <4>2
      <3> QED BY <3>1, <3>2
    <2> QED BY <2>3, <2>8, <2>9
  <1>3. PICK u \in Nat : \A k \in 1 .. n : atoms[k].align <= u
    BY <1>2
  <1> DEFINE S == {1} \cup {atoms[k].align : k \in DOMAIN atoms}
  <1>4. S \subseteq Nat /\ 1 \in S /\ u + 1 \in Nat /\ \A x \in S : x <= u + 1
    BY <1>1, <1>3
  <1>5. Align(atoms) = Max(S)
    BY DEF Align
  <1> HIDE DEF S
  <1>6. Max(S) \in S /\ 1 <= Max(S)
    BY <1>4, MaxOf
  <1>7. Max(S) \in Nat
    BY <1>4, <1>6
  <1> QED BY <1>5, <1>6, <1>7

LEMMA LastOfType ==
    ASSUME NEW atoms \in Seq(AtomType) PROVE LastOf(atoms) \in 0 .. Len(atoms)
  <1> DEFINE S == {0} \cup {k \in DOMAIN atoms : ~atoms[k].uninit}
  <1>1. Len(atoms) \in Nat /\ S \subseteq 0 .. Len(atoms) /\ S # {}
    OBVIOUS
  <1>2. LastOf(atoms) = Max(S)
    BY DEF LastOf
  <1> HIDE DEF S
  <1>3. S \subseteq Nat /\ \A x \in S : x <= Len(atoms)
    BY <1>1
  <1> QED BY <1>1, <1>2, <1>3, MaxOf

(* The address a joined section gets suits each of its atoms. *)
LEMMA JoinedAligned ==
    ASSUME NEW addr \in Nat, NEW s \in SectionType, s.align = Align(s.atoms)
    PROVE  /\ SectionOrg(addr, s) \in Nat
           /\ \A k \in 1 .. Len(s.atoms) :
                 s.atoms[k].align = 0 \/ SectionOrg(addr, s) % s.atoms[k].align = 0
  <1>1. /\ s.atoms \in Bodies /\ s.atoms \in Seq(AtomType)
        /\ s.align \in Nat \ {0}
    BY BodyType DEF SectionType
  <1>2. SectionOrg(addr, s) \in Nat /\ SectionOrg(addr, s) % s.align = 0
    <2>1. balign(addr, s.align) \in Nat /\ (addr + balign(addr, s.align)) % s.align = 0
      BY <1>1, BalignType, BalignAligns
    <2> QED BY <2>1 DEF SectionOrg
  <1>3. ASSUME NEW k \in 1 .. Len(s.atoms), s.atoms[k].align # 0
        PROVE  SectionOrg(addr, s) % s.atoms[k].align = 0
    <2>1. s.atoms[k] \in AtomType /\ k \in DOMAIN s.atoms
      BY <1>1
    <2>2. s.atoms[k].align \in Nat \ {0}
      BY <1>3, <2>1 DEF AtomType
    <2>3. s.align % s.atoms[k].align = 0
      BY <1>1, <1>3, <2>1, AlignAssumption
    <2> QED BY <1>1, <1>2, <2>2, <2>3, MultipleOfMultiple
  <1> QED BY <1>2, <1>3

-----------------------------------------------------------------------------
(* What may be in a file. *)
Out == {pad} \cup (Nat \X Nat \X Nat)

LEMMA NamesAreNotPad == ASSUME NEW x \in Nat \X Nat \X Nat PROVE x # pad
  BY DEF pad

LEMMA PaddingType ==
    ASSUME NEW n \in Nat
    PROVE  /\ Padding(n) \in Seq(Out) /\ Len(Padding(n)) = n
           /\ \A p \in 1 .. n : Padding(n)[p] = pad
  BY DEF Padding, Out

LEMMA AtomBytes ==
    ASSUME NEW i \in Nat, NEW k \in Nat, secs[i].atoms[k].size \in Nat
    PROVE  /\ Atom(i, k) \in Seq(Out) /\ Len(Atom(i, k)) = secs[i].atoms[k].size
           /\ \A b \in 1 .. secs[i].atoms[k].size : Atom(i, k)[b] = <<i, k, b>>
  <1>1. PICK n \in Nat : n = secs[i].atoms[k].size
    OBVIOUS
  <1>2. Atom(i, k) = [b \in 1 .. n |-> <<i, k, b>>]
    BY <1>1 DEF Atom
  <1>3. \A b \in 1 .. n : <<i, k, b>> \in Out
    BY DEF Out
  <1> HIDE DEF Out
  <1> QED BY <1>1, <1>2, <1>3

PadTo(i, j) ==
    Padding(balign(EndOf(secs[i].atoms, j - 1, secs[i].org), secs[i].atoms[j].align))

(* The section with index i, as the lemmas need it. *)
Laid(i) ==
    /\ i \in Nat
    /\ secs[i].atoms \in Seq(AtomType) /\ secs[i].org \in Nat
    /\ secs[i].last \in 0 .. Len(secs[i].atoms)

LEMMA PadToType ==
    ASSUME NEW i, Laid(i), NEW j \in 1 .. secs[i].last
    PROVE  /\ PadTo(i, j) \in Seq(Out) /\ Atom(i, j) \in Seq(Out)
           /\ Len(Atom(i, j)) = secs[i].atoms[j].size
           /\ \A b \in 1 .. secs[i].atoms[j].size : Atom(i, j)[b] = <<i, j, b>>
           /\ \A p \in 1 .. Len(PadTo(i, j)) : PadTo(i, j)[p] = pad
           /\ Len(PadTo(i, j)) \in Nat /\ secs[i].atoms[j].size \in Nat
           /\ EndOf(secs[i].atoms, j - 1, secs[i].org) + Len(PadTo(i, j))
                = PlaceOf(secs[i].atoms, j, secs[i].org)
  <1> DEFINE from == EndOf(secs[i].atoms, j - 1, secs[i].org)
             n == balign(from, secs[i].atoms[j].align)
  <1>1. secs[i].atoms \in Seq(AtomType) /\ secs[i].org \in Nat
        /\ j \in 1 .. Len(secs[i].atoms) /\ i \in Nat /\ j \in Nat
    BY DEF Laid
  <1>2. /\ from \in Nat /\ n \in Nat /\ secs[i].atoms[j].size \in Nat
        /\ PlaceOf(secs[i].atoms, j, secs[i].org) = from + n
    BY <1>1, PlaceOfType
  <1>3. PadTo(i, j) = Padding(n)
    BY DEF PadTo
  <1> HIDE DEF n, from
  <1>4. /\ PadTo(i, j) \in Seq(Out) /\ Len(PadTo(i, j)) = n
        /\ \A p \in 1 .. n : PadTo(i, j)[p] = pad
    BY <1>2, <1>3, PaddingType
  <1>5. /\ Atom(i, j) \in Seq(Out) /\ Len(Atom(i, j)) = secs[i].atoms[j].size
        /\ \A b \in 1 .. secs[i].atoms[j].size : Atom(i, j)[b] = <<i, j, b>>
    BY <1>1, <1>2, AtomBytes
  <1> QED BY <1>2, <1>4, <1>5 DEF from

LEMMA TextSteps ==
    ASSUME NEW i, Laid(i)
    PROVE  /\ Text(i, 0) = << >>
           /\ \A k \in 0 .. secs[i].last : Text(i, k) \in Seq(Out)
           /\ \A k \in 1 .. secs[i].last :
                 Text(i, k) = Text(i, k - 1) \o PadTo(i, k) \o Atom(i, k)
  <1> DEFINE n == secs[i].last
             F == [x \in (1 .. n) \X Seq(Out) |-> x[2] \o PadTo(i, x[1]) \o Atom(i, x[1])]
             G(g) == [j \in 0 .. n |-> IF j = 0 THEN << >>
                          ELSE g[j - 1] \o PadTo(i, j) \o Atom(i, j)]
             text == CHOOSE g : g = G(g)
  <1>1. n \in Nat
    BY DEF Laid
  <1>2. ASSUME NEW j \in 1 .. n, NEW t \in Seq(Out)
        PROVE  t \o PadTo(i, j) \o Atom(i, j) \in Seq(Out)
    <2>1. PadTo(i, j) \in Seq(Out) /\ Atom(i, j) \in Seq(Out)
      BY PadToType
    <2>2. t \o PadTo(i, j) \in Seq(Out)
      BY <2>1, ConcatProperties
    <2> QED BY <2>1, <2>2, ConcatProperties
  <1>3. F \in [(1 .. n) \X Seq(Out) -> Seq(Out)]
    BY <1>2
  <1>4. << >> \in Seq(Out)
    OBVIOUS
  <1>5. PICK f : Iterate(f, n, Seq(Out), << >>, F)
    <2> HIDE DEF n, F
    <2> QED BY <1>1, <1>3, <1>4, Iterates
  <1>6. ASSUME NEW j \in 1 .. n
        PROVE  f[j] = f[j - 1] \o PadTo(i, j) \o Atom(i, j)
    <2>1. j - 1 \in 0 .. n
      BY <1>1
    <2>2. <<j, f[j - 1]>> \in (1 .. n) \X Seq(Out)
      BY <1>5, <2>1 DEF Iterate
    <2>3. F[<<j, f[j - 1]>>] = f[j - 1] \o PadTo(i, j) \o Atom(i, j)
      BY <2>2
    <2> QED BY <1>5, <2>3 DEF Iterate
  <1>7. f = G(f)
    <2>1. f = [j \in 0 .. n |-> f[j]]
      BY <1>5 DEF Iterate
    <2>2. ASSUME NEW j \in 0 .. n
          PROVE  f[j] = IF j = 0 THEN << >>
                        ELSE f[j - 1] \o PadTo(i, j) \o Atom(i, j)
      <3>1. CASE j = 0
        BY <1>5, <3>1 DEF Iterate
      <3>2. CASE j # 0
        <4>1. j \in 1 .. n
          BY <1>1, <3>2
        <4> HIDE DEF n
        <4> QED BY <1>6, <3>2, <4>1
      <3> QED BY <3>1, <3>2
    <2> HIDE DEF n
    <2> QED BY <2>1, <2>2
  <1>8. text = G(text)
    BY <1>7
  <1>9. \A k : Text(i, k) = text[k]
    BY DEF Text, PadTo
  <1> HIDE DEF text
  <1>10. /\ text[0] = << >>
         /\ \A j \in 1 .. n : text[j] = text[j - 1] \o PadTo(i, j) \o Atom(i, j)
    <2> HIDE DEF n
    <2>1. \A j \in 0 .. n : G(text)[j] = IF j = 0 THEN << >>
                          ELSE text[j - 1] \o PadTo(i, j) \o Atom(i, j)
      OBVIOUS
    <2> HIDE DEF G
    <2>2. 0 \in 0 .. n /\ \A j \in 1 .. n : j \in 0 .. n /\ j # 0
      BY <1>1
    <2>3. \A j \in 0 .. n : text[j] = IF j = 0 THEN << >>
                          ELSE text[j - 1] \o PadTo(i, j) \o Atom(i, j)
      BY <1>8, <2>1
    <2> QED BY <2>2, <2>3
  <1> HIDE DEF G
  <1>11. \A j \in 0 .. n : text[j] \in Seq(Out)
    <2>1. \A j \in 1 .. n : text[j - 1] \in Seq(Out) => text[j] \in Seq(Out)
      BY <1>2, <1>10
    <2>2. text[0] \in Seq(Out)
      BY <1>4, <1>10
    <2> HIDE DEF n
    <2> QED BY <1>1, <2>1, <2>2, Inherited
  <1> QED BY <1>9, <1>10, <1>11

(* Three sequences in a row. *)
LEMMA Row ==
    ASSUME NEW S, NEW t \in Seq(S), NEW u \in Seq(S), NEW v \in Seq(S)
    PROVE  /\ t \o u \o v \in Seq(S)
           /\ Len(t \o u \o v) = Len(t) + Len(u) + Len(v)
           /\ Len(t) \in Nat /\ Len(u) \in Nat /\ Len(v) \in Nat
           /\ \A p \in 1 .. Len(t) : (t \o u \o v)[p] = t[p]
           /\ \A p \in 1 .. Len(u) : (t \o u \o v)[Len(t) + p] = u[p]
           /\ \A p \in 1 .. Len(v) : (t \o u \o v)[Len(t) + Len(u) + p] = v[p]
  <1>1. /\ t \o u \in Seq(S) /\ Len(t \o u) = Len(t) + Len(u)
        /\ \A p \in 1 .. Len(t) + Len(u) :
              (t \o u)[p] = IF p <= Len(t) THEN t[p] ELSE u[p - Len(t)]
    BY ConcatProperties
  <1>2. /\ t \o u \o v \in Seq(S) /\ Len(t \o u \o v) = Len(t \o u) + Len(v)
        /\ \A p \in 1 .. Len(t \o u) + Len(v) :
              (t \o u \o v)[p] = IF p <= Len(t \o u) THEN (t \o u)[p]
                                 ELSE v[p - Len(t \o u)]
    BY <1>1, ConcatProperties
  <1>3. Len(t) \in Nat /\ Len(u) \in Nat /\ Len(v) \in Nat
    OBVIOUS
  <1> DEFINE w == t \o u \o v
             x == t \o u
             l == Len(t)
             m == Len(u)
             n == Len(v)
  <1>4. /\ Len(x) = l + m /\ Len(w) = l + m + n /\ l \in Nat /\ m \in Nat /\ n \in Nat
        /\ \A p \in 1 .. l + m : x[p] = IF p <= l THEN t[p] ELSE u[p - l]
        /\ \A p \in 1 .. l + m + n : w[p] = IF p <= l + m THEN x[p] ELSE v[p - (l + m)]
    BY <1>1, <1>2, <1>3
  <1>5. w \in Seq(S)
    BY <1>2
  <1> HIDE DEF w, x, l, m, n
  <1>6. \A p \in 1 .. l : w[p] = t[p]
    BY <1>4
  <1>7. \A p \in 1 .. m : w[l + p] = u[p]
    BY <1>4
  <1>8. \A p \in 1 .. n : w[l + m + p] = v[p]
    BY <1>4
  <1> QED BY <1>4, <1>5, <1>6, <1>7, <1>8 DEF w, l, m, n

(* Where in the text of section i the byte b of atom j is. *)
Spot(i, j, b) == PlaceOf(secs[i].atoms, j, secs[i].org) - secs[i].org + b

(* The first k atoms are in the text, each byte at its spot and nothing else. *)
Image(i, k) ==
    /\ Len(Text(i, k)) = EndOf(secs[i].atoms, k, secs[i].org) - secs[i].org
    /\ \A j \in 1 .. k : \A b \in 1 .. secs[i].atoms[j].size :
          Spot(i, j, b) \in 1 .. Len(Text(i, k)) /\ Text(i, k)[Spot(i, j, b)] = <<i, j, b>>
    /\ \A p \in 1 .. Len(Text(i, k)) :
          \/ Text(i, k)[p] = pad
          \/ \E j \in 1 .. k : \E b \in 1 .. secs[i].atoms[j].size :
                p = Spot(i, j, b) /\ Text(i, k)[p] = <<i, j, b>>

LEMMA ImageStep ==
    ASSUME NEW i, Laid(i), NEW k \in 1 .. secs[i].last, Image(i, k - 1)
    PROVE  Image(i, k)
  <1> DEFINE t == Text(i, k - 1)
             u == PadTo(i, k)
             v == Atom(i, k)
             w == Text(i, k)
             org == secs[i].org
             size == secs[i].atoms[k].size
             from == EndOf(secs[i].atoms, k - 1, org)
             place == PlaceOf(secs[i].atoms, k, org)
  <1>1. /\ secs[i].last \in Nat /\ k - 1 \in 0 .. secs[i].last
        /\ k \in 1 .. Len(secs[i].atoms) /\ Len(secs[i].atoms) \in Nat
    BY DEF Laid
  <1>2. w = t \o u \o v /\ t \in Seq(Out)
    BY <1>1, TextSteps
  <1>3. /\ u \in Seq(Out) /\ v \in Seq(Out) /\ Len(v) = size
        /\ \A b \in 1 .. size : v[b] = <<i, k, b>>
        /\ \A p \in 1 .. Len(u) : u[p] = pad
        /\ Len(u) \in Nat /\ size \in Nat /\ from + Len(u) = place
    BY PadToType
  <1>4. /\ Len(w) = Len(t) + Len(u) + Len(v) /\ Len(t) \in Nat
        /\ \A p \in 1 .. Len(t) : w[p] = t[p]
        /\ \A p \in 1 .. Len(u) : w[Len(t) + p] = u[p]
        /\ \A p \in 1 .. Len(v) : w[Len(t) + Len(u) + p] = v[p]
    <2> HIDE DEF t, u, v, w
    <2>1. t \in Seq(Out) /\ u \in Seq(Out) /\ v \in Seq(Out) /\ w = t \o u \o v
      BY <1>2, <1>3
    <2>2. /\ Len(t \o u \o v) = Len(t) + Len(u) + Len(v) /\ Len(t) \in Nat
          /\ \A p \in 1 .. Len(t) : (t \o u \o v)[p] = t[p]
          /\ \A p \in 1 .. Len(u) : (t \o u \o v)[Len(t) + p] = u[p]
          /\ \A p \in 1 .. Len(v) : (t \o u \o v)[Len(t) + Len(u) + p] = v[p]
      BY <2>1, Row
    <2> QED BY <2>1, <2>2
  <1>5. /\ org \in Nat /\ from \in Nat /\ place \in Nat
        /\ EndOf(secs[i].atoms, k, org) = place + size
    BY <1>1, PlaceOfType DEF Laid
  <1>6. Len(t) = from - org
    BY DEF Image
  <1>7. Len(w) = EndOf(secs[i].atoms, k, org) - org
    <2> HIDE DEF t, u, v, w, from, place, size, org
    <2>1. Len(w) = from - org + Len(u) + size
      BY <1>3, <1>4, <1>6
    <2> QED BY <1>3, <1>5, <2>1
  <1>8. \A b : Spot(i, k, b) = place - org + b
    BY DEF Spot
  <1>9. Len(t) + Len(u) = place - org
    <2> HIDE DEF t, u, v, w, from, place, size, org
    <2> QED BY <1>3, <1>5, <1>6
  <1>10. \A b \in 1 .. size :
            /\ Spot(i, k, b) = Len(t) + Len(u) + b
            /\ Spot(i, k, b) \in 1 .. Len(w) /\ w[Spot(i, k, b)] = <<i, k, b>>
    <2> HIDE DEF t, u, v, w, from, place, size, org
    <2> SUFFICES ASSUME NEW b \in 1 .. size
                 PROVE  /\ Spot(i, k, b) = Len(t) + Len(u) + b
                        /\ Spot(i, k, b) \in 1 .. Len(w) /\ w[Spot(i, k, b)] = <<i, k, b>>
      OBVIOUS
    <2>1. b \in Int /\ place \in Int /\ org \in Int /\ Spot(i, k, b) = place - org + b
      BY <1>3, <1>5, <1>8
    <2>2. Spot(i, k, b) = Len(t) + Len(u) + b
      BY <1>9, <2>1
    <2>3. Spot(i, k, b) \in 1 .. Len(w)
      BY <1>3, <1>4, <2>2
    <2>4. w[Len(t) + Len(u) + b] = <<i, k, b>>
      BY <1>3, <1>4
    <2> QED BY <2>2, <2>3, <2>4
  <1>11. ASSUME NEW j \in 1 .. k, NEW b \in 1 .. secs[i].atoms[j].size
         PROVE  Spot(i, j, b) \in 1 .. Len(w) /\ w[Spot(i, j, b)] = <<i, j, b>>
    <2>1. CASE j = k
      <3>1. b \in 1 .. size
        BY <2>1
      <3> HIDE DEF t, u, v, w, from, place, size, org
      <3> QED BY <1>10, <2>1, <3>1
    <2>2. CASE j # k
      <3>1. j \in 1 .. k - 1
        BY <1>1, <2>2
      <3>2. Spot(i, j, b) \in 1 .. Len(t) /\ t[Spot(i, j, b)] = <<i, j, b>>
        BY <3>1 DEF Image
      <3> HIDE DEF t, u, v, w, from, place, size, org
      <3> QED BY <1>3, <1>4, <3>2
    <2> QED BY <2>1, <2>2
  <1>12. ASSUME NEW p \in 1 .. Len(w)
         PROVE  \/ w[p] = pad
                \/ \E j \in 1 .. k : \E b \in 1 .. secs[i].atoms[j].size :
                      p = Spot(i, j, b) /\ w[p] = <<i, j, b>>
    <2>1. \/ p \in 1 .. Len(t)
          \/ \E q \in 1 .. Len(u) : p = Len(t) + q
          \/ \E q \in 1 .. size : p = Len(t) + Len(u) + q
      <3> DEFINE lt == Len(t)
                 lu == Len(u)
      <3>1. p \in 1 .. lt + lu + size /\ lt \in Nat /\ lu \in Nat /\ size \in Nat
        BY <1>3, <1>4
      <3> HIDE DEF t, u, v, w, from, place, size, org, lt, lu
      <3>2. \/ p \in 1 .. lt
            \/ p - lt \in 1 .. lu /\ p = lt + (p - lt)
            \/ p - (lt + lu) \in 1 .. size /\ p = lt + lu + (p - (lt + lu))
        BY <3>1
      <3> QED BY <3>2 DEF lt, lu
    <2>2. CASE p \in 1 .. Len(t)
      <3>1. w[p] = t[p]
        BY <1>4, <2>2
      <3>2. \/ t[p] = pad
            \/ \E j \in 1 .. k - 1 : \E b \in 1 .. secs[i].atoms[j].size :
                  p = Spot(i, j, b) /\ t[p] = <<i, j, b>>
        BY <2>2 DEF Image
      <3>3. \A j \in 1 .. k - 1 : j \in 1 .. k
        BY <1>1
      <3> QED BY <3>1, <3>2, <3>3
    <2>3. CASE \E q \in 1 .. Len(u) : p = Len(t) + q
      <3> HIDE DEF t, u, v, w, from, place, size, org
      <3> QED BY <1>3, <1>4, <2>3
    <2>4. CASE \E q \in 1 .. size : p = Len(t) + Len(u) + q
      <3>1. PICK q \in 1 .. secs[i].atoms[k].size : p = Len(t) + Len(u) + q
        BY <2>4
      <3>2. q \in 1 .. size /\ p = Spot(i, k, q) /\ w[p] = <<i, k, q>>
        <4>1. q \in 1 .. size
          OBVIOUS
        <4> HIDE DEF t, u, v, w, from, place, size, org
        <4> QED BY <1>10, <3>1, <4>1
      <3>3. k \in 1 .. k
        BY <1>1
      <3> QED BY <3>2, <3>3
    <2> QED BY <2>1, <2>2, <2>3, <2>4
  <1> HIDE DEF t, u, v, from, place, size
  <1> QED BY <1>7, <1>11, <1>12 DEF Image

LEMMA ImageOf ==
    ASSUME NEW i, Laid(i)
    PROVE  Image(i, secs[i].last)
  <1> DEFINE T == {k \in 0 .. secs[i].last : ~Image(i, k)}
  <1>1. secs[i].last \in Nat /\ secs[i].org \in Nat /\ secs[i].atoms \in Seq(AtomType)
    BY DEF Laid
  <1>2. SUFFICES ASSUME T # {} PROVE FALSE
    BY <1>1
  <1>3. PICK k \in T : \A y \in T : k <= y
    <2>1. T \subseteq Nat
      OBVIOUS
    <2> HIDE DEF T
    <2> QED BY <1>2, <2>1, Least
  <1>4. k \in 0 .. secs[i].last /\ ~Image(i, k)
    OBVIOUS
  <1>5. k # 0
    <2>1. Text(i, 0) = << >> /\ EndOf(secs[i].atoms, 0, secs[i].org) = secs[i].org
      BY <1>1, TextSteps, EndOfSteps
    <2>2. Image(i, 0)
      BY <1>1, <2>1 DEF Image
    <2> QED BY <1>4, <2>2
  <1>6. k \in 1 .. secs[i].last /\ k - 1 \in 0 .. secs[i].last /\ ~(k <= k - 1)
    BY <1>1, <1>4, <1>5
  <1>7. Image(i, k - 1)
    BY <1>3, <1>6
  <1> QED BY <1>4, <1>6, <1>7, ImageStep

-----------------------------------------------------------------------------
(* A joined section's labels move with it. *)
LEMMA PlaceOfShift ==
    ASSUME NEW atoms \in Seq(AtomType), NEW org \in Nat,
           \A k \in 1 .. Len(atoms) : atoms[k].align = 0 \/ org % atoms[k].align = 0,
           NEW k \in 1 .. Len(atoms)
    PROVE  PlaceOf(atoms, k, org) = PlaceOf(atoms, k, 0) + org
  <1> DEFINE e == EndOf(atoms, k - 1, 0)
             a == atoms[k].align
  <1>1. k - 1 \in 0 .. Len(atoms) /\ atoms[k] \in AtomType
    OBVIOUS
  <1>2. e \in Nat /\ a \in Nat /\ (a = 0 \/ org % a = 0)
    BY <1>1, EndOfSteps DEF AtomType
  <1>3. EndOf(atoms, k - 1, org) = e + org
    BY <1>1, EndOfShift
  <1>4. PlaceOf(atoms, k, org) = e + org + balign(e + org, a)
    BY <1>3, PlaceOfType
  <1>5. PlaceOf(atoms, k, 0) = e + balign(e, a) /\ balign(e, a) \in Nat
    BY PlaceOfType
  <1> HIDE DEF e, a
  <1>6. balign(e + org, a) = balign(e, a)
    BY <1>2, BalignShift
  <1> QED BY <1>2, <1>4, <1>5, <1>6

(* A section of the list: its atoms end at or below pc, and exactly there  *)
(* when nothing was cut off that pc still counts.                          *)
Sized(s) ==
    /\ s.last \in 0 .. Len(s.atoms) /\ s.align = Align(s.atoms)
    /\ EndOf(s.atoms, s.last, s.org) <= s.pc
Filled(s) ==
    \/ s.last = Len(s.atoms)
    \/ s.last > 0 /\ (phase = "join" \/ ~joinsecs)
Exact(s) == s.pc = EndOf(s.atoms, s.last, s.org)

Shape ==
    /\ secs \in Seq(SectionType)
    /\ labels = [i \in DOMAIN secs |-> Places(secs[i].atoms, secs[i].org)]
    /\ \A i \in DOMAIN secs :
          /\ Sized(secs[i])
          /\ phase \in {"trim", "join"} => secs[i].absolute \/ secs[i].org = 0
          /\ phase = "trim" => secs[i].last = Len(secs[i].atoms)
          /\ Filled(secs[i]) => Exact(secs[i])
    /\ phase \notin {"trim", "done"} => secs # << >>
    /\ binfmt \in Formats /\ joinsecs \in BOOLEAN
    /\ phase \in {"trim", "join", "check", "write", "done", "fatal"}

LEMMA SectionLaid ==
    ASSUME NEW s \in SectionType, Sized(s)
    PROVE  /\ s.atoms \in Seq(AtomType) /\ s.atoms \in Bodies
           /\ s.org \in Nat /\ s.pc \in Nat /\ s.last \in 0 .. Len(s.atoms)
           /\ Len(s.atoms) \in Nat /\ EndOf(s.atoms, s.last, s.org) \in Nat
           /\ s.org <= EndOf(s.atoms, s.last, s.org)
           /\ EndOf(s.atoms, s.last, s.org) <= s.pc
  <1>1. s.atoms \in Seq(AtomType) /\ s.atoms \in Bodies /\ s.org \in Nat /\ s.pc \in Nat
    BY BodyType DEF SectionType
  <1>2. Len(s.atoms) \in Nat /\ s.last \in 0 .. Len(s.atoms)
    BY <1>1 DEF Sized
  <1>3. 0 \in 0 .. Len(s.atoms) /\ s.last \in 0 .. Len(s.atoms)
    BY <1>2
  <1>4. EndOf(s.atoms, 0, s.org) = s.org /\ EndOf(s.atoms, s.last, s.org) \in Nat
    BY <1>1, <1>2, EndOfSteps
  <1>5. EndOf(s.atoms, 0, s.org) <= EndOf(s.atoms, s.last, s.org)
    BY <1>1, <1>3, EndOfGrows
  <1> QED BY <1>1, <1>2, <1>4, <1>5 DEF Sized

LEMMA NewShape ==
    ASSUME NEW s, NEW org \in Nat, NEW atoms \in Bodies, NEW absolute \in BOOLEAN,
           s = [org |-> org, pc |-> EndOf(atoms, Len(atoms), org),
                absolute |-> absolute, align |-> Align(atoms), atoms |-> atoms,
                last |-> Len(atoms)]
    PROVE  /\ s \in SectionType /\ Sized(s) /\ Exact(s)
           /\ s.last = Len(s.atoms) /\ s.atoms = atoms /\ s.org = org
  <1>1. atoms \in Seq(AtomType)
    BY BodyType
  <1>2. Len(atoms) \in Nat /\ Len(atoms) \in 0 .. Len(atoms)
    BY <1>1
  <1>3. Align(atoms) \in Nat \ {0} /\ EndOf(atoms, Len(atoms), org) \in Nat
    BY <1>1, <1>2, AlignType, EndOfSteps
  <1> DEFINE e == EndOf(atoms, Len(atoms), org)
             n == Len(atoms)
             l == Align(atoms)
  <1>4. s = [org |-> org, pc |-> e, absolute |-> absolute,
             align |-> l, atoms |-> atoms, last |-> n]
    OBVIOUS
  <1>5. e \in Nat /\ n \in Nat /\ l \in Nat \ {0} /\ n \in 0 .. n
    BY <1>2, <1>3
  <1>6. e = EndOf(atoms, n, org) /\ n = Len(atoms) /\ l = Align(atoms)
    OBVIOUS
  <1> HIDE DEF e, n, l
  <1>7. s \in SectionType
    BY <1>4, <1>5 DEF SectionType
  <1> QED BY <1>4, <1>5, <1>6, <1>7 DEF Sized, Exact

LEMMA ShapeInit == Init => Shape
  <1> SUFFICES ASSUME Init PROVE Shape
    OBVIOUS
  <1>1. ASSUME NEW s \in Sections
        PROVE  /\ s \in SectionType /\ Sized(s) /\ Exact(s)
               /\ s.last = Len(s.atoms)
               /\ s.absolute \/ s.org = 0
    <2>1. CASE s \in {NewOrg(org, atoms) : org \in Origins, atoms \in Bodies}
      <3>1. PICK org \in Origins, atoms \in Bodies : s = NewOrg(org, atoms)
        BY <2>1
      <3>2. org \in Nat
        BY OriginAssumption
      <3>3. s = [org |-> org, pc |-> EndOf(atoms, Len(atoms), org),
                 absolute |-> TRUE, align |-> Align(atoms), atoms |-> atoms,
                 last |-> Len(atoms)]
        BY <3>1 DEF NewOrg, NewSection
      <3>4. s.absolute
        BY <3>3
      <3> QED BY <3>2, <3>3, <3>4, NewShape
    <2>2. CASE s \in {NewSection(atoms) : atoms \in Bodies}
      <3>1. PICK atoms \in Bodies : s = NewSection(atoms)
        BY <2>2
      <3>2. s = [org |-> 0, pc |-> EndOf(atoms, Len(atoms), 0),
                 absolute |-> FALSE, align |-> Align(atoms), atoms |-> atoms,
                 last |-> Len(atoms)]
        BY <3>1 DEF NewSection
      <3> QED BY <3>2, NewShape
    <2> QED BY <2>1, <2>2 DEF Sections
  <1>2. PICK n \in 0 .. MaxSections : secs \in [1 .. n -> Sections]
    BY DEF Init
  <1>3. n \in Nat /\ DOMAIN secs = 1 .. n /\ \A i \in 1 .. n : secs[i] \in Sections
    BY <1>2, CountAssumption
  <1>4. secs \in [1 .. n -> SectionType]
    BY <1>1, <1>2, <1>3
  <1>5. secs \in Seq(SectionType)
    BY <1>3, <1>4
  <1> QED BY <1>1, <1>3, <1>5 DEF Init, Shape

LEMMA TrimmedShape ==
    ASSUME NEW s \in SectionType, Sized(s), s.last = Len(s.atoms), Exact(s)
    PROVE  /\ Trimmed(s) \in SectionType /\ Sized(Trimmed(s))
           /\ Trimmed(s).org = s.org /\ Trimmed(s).atoms = s.atoms
           /\ Trimmed(s).absolute = s.absolute
           /\ (Trimmed(s).last = Len(s.atoms) \/ Trimmed(s).last > 0) => Exact(Trimmed(s))
  <1> DEFINE last == LastOf(s.atoms)
             n == Len(s.atoms)
             e == EndOf(s.atoms, last, s.org)
             newpc == IF last = 0 THEN s.pc ELSE e
  <1>1. /\ s.atoms \in Seq(AtomType) /\ s.org \in Nat /\ s.pc \in Nat
        /\ n \in Nat /\ s.pc = EndOf(s.atoms, n, s.org)
    BY SectionLaid DEF Exact
  <1>2. last \in 0 .. n /\ n \in last .. n /\ last \in Nat
    BY <1>1, LastOfType
  <1>3. e \in Nat /\ e <= s.pc
    BY <1>1, <1>2, EndOfSteps, EndOfGrows
  <1>4. newpc \in Nat /\ e <= newpc /\ ((last = n \/ last > 0) => newpc = e)
    BY <1>1, <1>2, <1>3
  <1>5. Trimmed(s) = [s EXCEPT !.last = last, !.pc = newpc]
    BY DEF Trimmed
  <1>6. e = EndOf(s.atoms, last, s.org) /\ n = Len(s.atoms)
    OBVIOUS
  <1>7. s.align = Align(s.atoms)
    BY DEF Sized
  <1> HIDE DEF last, newpc, e, n
  <1>8. /\ Trimmed(s) \in SectionType
        /\ Trimmed(s).last = last /\ Trimmed(s).pc = newpc /\ Trimmed(s).org = s.org
        /\ Trimmed(s).atoms = s.atoms /\ Trimmed(s).absolute = s.absolute
        /\ Trimmed(s).align = s.align
    BY <1>2, <1>4, <1>5 DEF SectionType
  <1>9. Sized(Trimmed(s))
    BY <1>2, <1>4, <1>6, <1>7, <1>8 DEF Sized
  <1> QED BY <1>4, <1>6, <1>8, <1>9 DEF Exact

LEMMA ShapeTrim == ASSUME Shape, Trim PROVE Shape'
  <1>1. /\ phase = "trim" /\ secs' = [i \in DOMAIN secs |-> Trimmed(secs[i])]
        /\ phase' = IF secs = << >> THEN "done" ELSE "join"
        /\ labels' = labels /\ binfmt' = binfmt /\ joinsecs' = joinsecs
    BY DEF Trim
  <1>2. ASSUME NEW i \in DOMAIN secs
        PROVE  /\ Trimmed(secs[i]) \in SectionType /\ Sized(Trimmed(secs[i]))
               /\ Trimmed(secs[i]).org = secs[i].org
               /\ Trimmed(secs[i]).atoms = secs[i].atoms
               /\ Trimmed(secs[i]).absolute = secs[i].absolute
               /\ \/ Trimmed(secs[i]).last = Len(secs[i].atoms)
                  \/ Trimmed(secs[i]).last > 0
                  => Exact(Trimmed(secs[i]))
               /\ secs[i].absolute \/ secs[i].org = 0
    <2>1. /\ secs[i] \in SectionType /\ Sized(secs[i])
          /\ secs[i].last = Len(secs[i].atoms) /\ Exact(secs[i])
          /\ secs[i].absolute \/ secs[i].org = 0
      BY <1>1 DEF Shape, Filled
    <2> QED BY <2>1, TrimmedShape
  <1>3. secs' \in Seq(SectionType) /\ DOMAIN secs' = DOMAIN secs
        /\ (secs' = << >> <=> secs = << >>)
    <2>1. secs \in Seq(SectionType)
      BY DEF Shape
    <2>2. DOMAIN secs = 1 .. Len(secs) /\ Len(secs) \in Nat
      BY <2>1
    <2>3. secs' \in [1 .. Len(secs) -> SectionType]
      BY <1>1, <1>2, <2>2
    <2>4. secs' \in Seq(SectionType) /\ Len(secs') = Len(secs)
      BY <2>2, <2>3
    <2> QED BY <1>1, <2>1, <2>4
  <1>4. labels' = [i \in DOMAIN secs' |-> Places(secs'[i].atoms, secs'[i].org)]
    <2>1. labels = [i \in DOMAIN secs |-> Places(secs[i].atoms, secs[i].org)]
      BY DEF Shape
    <2> QED BY <1>1, <1>2, <1>3, <2>1
  <1>5. ASSUME NEW i \in DOMAIN secs'
        PROVE  /\ Sized(secs'[i])
               /\ secs'[i].absolute \/ secs'[i].org = 0
               /\ (Filled(secs[i]))' => Exact(secs'[i])
    <2>1. i \in DOMAIN secs /\ secs'[i] = Trimmed(secs[i])
      BY <1>1, <1>3
    <2>2. /\ Sized(secs'[i]) /\ (secs'[i].absolute \/ secs'[i].org = 0)
          /\ secs'[i].atoms = secs[i].atoms
          /\ (secs'[i].last = Len(secs[i].atoms) \/ secs'[i].last > 0) => Exact(secs'[i])
      BY <1>2, <2>1
    <2>3. (Filled(secs[i]))' => secs'[i].last = Len(secs'[i].atoms) \/ secs'[i].last > 0
      BY DEF Filled
    <2> QED BY <2>2, <2>3
  <1>6. /\ phase' \notin {"trim", "done"} => secs' # << >>
        /\ phase' # "trim"
        /\ phase' \in {"trim", "join", "check", "write", "done", "fatal"}
    BY <1>1, <1>3
  <1>7. binfmt' \in Formats /\ joinsecs' \in BOOLEAN
    BY <1>1, Zenon DEF Shape
  <1> QED BY <1>3, <1>4, <1>5, <1>6, <1>7 DEF Shape, Sized, Exact

(* What joining makes of a section without an address. *)
LEMMA JoinedShape ==
    ASSUME NEW i, secs \in Seq(SectionType), i \in DOMAIN secs, Sized(secs[i]),
           ~secs[i].absolute
    PROVE  /\ Joined(i) \in SectionType /\ Sized(Joined(i))
           /\ Joined(i).atoms = secs[i].atoms
           /\ Joined(i).last = Len(secs[i].atoms) => Exact(Joined(i))
           /\ Joined(i).last = secs[i].last
           /\ \A k \in 1 .. Len(secs[i].atoms) :
                 PlaceOf(secs[i].atoms, k, Joined(i).org)
                    = PlaceOf(secs[i].atoms, k, 0) + Joined(i).org
  <1> DEFINE org == SectionOrg(Before(i), secs[i])
             n == Len(secs[i].atoms)
             e == EndOf(secs[i].atoms, n, org)
             z == EndOf(secs[i].atoms, secs[i].last, org)
             s == secs[i]
  <1>1. secs \in [1 .. Len(secs) -> SectionType] /\ Len(secs) \in Nat /\ i \in 1 .. Len(secs)
    OBVIOUS
  <1>2. Before(i) \in Nat
    BY <1>1, BeforeType
  <1>3. /\ s \in SectionType /\ s.align = Align(s.atoms) /\ s.atoms \in Seq(AtomType)
        /\ s.last \in 0 .. n /\ n \in Nat
    BY <1>1, SectionLaid DEF Sized
  <1>4. /\ org \in Nat
        /\ \A k \in 1 .. n : s.atoms[k].align = 0 \/ org % s.atoms[k].align = 0
    BY <1>2, <1>3, JoinedAligned
  <1>5. e \in Nat /\ z \in Nat /\ z <= e
    <2>1. n \in s.last .. n /\ n \in 0 .. n
      BY <1>3
    <2> QED BY <1>3, <1>4, <2>1, EndOfSteps, EndOfGrows
  <1>6. Joined(i) = [s EXCEPT !.org = org, !.pc = e, !.absolute = TRUE]
    BY DEF Joined
  <1>7. \A k \in 1 .. n : PlaceOf(s.atoms, k, org) = PlaceOf(s.atoms, k, 0) + org
    BY <1>3, <1>4, PlaceOfShift
  <1>8. s.last = n => z = e
    OBVIOUS
  <1>9. z = EndOf(s.atoms, s.last, org) /\ n = Len(s.atoms) /\ s = secs[i]
    OBVIOUS
  <1> HIDE DEF org, e, n, z, s
  <1>10. /\ Joined(i) \in SectionType
         /\ Joined(i).org = org /\ Joined(i).pc = e /\ Joined(i).atoms = s.atoms
         /\ Joined(i).align = s.align /\ Joined(i).last = s.last
    BY <1>3, <1>4, <1>5, <1>6 DEF SectionType
  <1>11. Sized(Joined(i))
    BY <1>3, <1>5, <1>9, <1>10 DEF Sized
  <1>12. Joined(i).last = n => Exact(Joined(i))
    BY <1>8, <1>9, <1>10 DEF Exact
  <1> QED BY <1>7, <1>9, <1>10, <1>11, <1>12

LEMMA ShapeJoin == ASSUME Shape, Join PROVE Shape'
  <1>1. /\ phase = "join" /\ phase' = "check"
        /\ binfmt' = binfmt /\ joinsecs' = joinsecs
        /\ secs \in Seq(SectionType)
        /\ labels = [i \in DOMAIN secs |-> Places(secs[i].atoms, secs[i].org)]
        /\ secs # << >>
    BY DEF Join, Shape
  <1>2. binfmt' \in Formats /\ joinsecs' \in BOOLEAN
    BY <1>1, Zenon DEF Shape
  <1>3. ASSUME NEW i \in DOMAIN secs
        PROVE  /\ Sized(secs[i]) /\ secs[i] \in SectionType
               /\ Filled(secs[i]) => Exact(secs[i])
    BY <1>1 DEF Shape
  <1>a. ASSUME NEW i \in DOMAIN secs, ~secs[i].absolute PROVE secs[i].org = 0
    BY <1>1, <1>a DEF Shape
  <1>4. CASE ~joinsecs /\ UNCHANGED <<secs, labels>>
    <2>1. secs' = secs /\ labels' = labels
      BY <1>4
    <2>2. \A i \in DOMAIN secs' : (Filled(secs[i]))' => Filled(secs[i])
      BY <1>1, <2>1 DEF Filled
    <2>3. \A i \in DOMAIN secs' : (Filled(secs[i]))' => Exact(secs'[i])
      BY <1>3, <2>1, <2>2
    <2> QED BY <1>1, <1>2, <1>3, <2>1, <2>3 DEF Shape, Exact
  <1>5. CASE /\ joinsecs
             /\ secs' = [i \in DOMAIN secs |-> Joined(i)]
             /\ labels' = [i \in DOMAIN secs |->
                    IF secs[i].absolute THEN labels[i]
                    ELSE [k \in DOMAIN labels[i] |-> labels[i][k] + Joined(i).org]]
    <2>1. DOMAIN secs = 1 .. Len(secs) /\ Len(secs) \in Nat
      BY <1>1
    <2>2. ASSUME NEW i \in DOMAIN secs
          PROVE  /\ Joined(i) \in SectionType /\ Sized(Joined(i))
                 /\ Joined(i).last = Len(Joined(i).atoms) => Exact(Joined(i))
      <3>1. CASE secs[i].absolute
        <4>1. Joined(i) = secs[i] /\ secs[i] \in SectionType /\ Sized(secs[i])
          BY <1>1, <1>3, <3>1 DEF Joined
        <4>2. Filled(secs[i]) => Exact(secs[i])
          BY <1>3
        <4>3. secs[i].last = Len(secs[i].atoms) => Filled(secs[i])
          BY DEF Filled
        <4> QED BY <4>1, <4>2, <4>3
      <3>2. CASE ~secs[i].absolute
        BY <1>1, <1>3, <3>2, JoinedShape
      <3> QED BY <3>1, <3>2
    <2>3. secs' \in Seq(SectionType) /\ DOMAIN secs' = DOMAIN secs /\ secs' # << >>
      <3>1. secs' \in [1 .. Len(secs) -> SectionType]
        BY <1>5, <2>1, <2>2
      <3>2. secs' \in Seq(SectionType) /\ Len(secs') = Len(secs)
        BY <2>1, <3>1
      <3> QED BY <1>1, <1>5, <3>2
    <2>4. ASSUME NEW i \in DOMAIN secs
          PROVE  labels'[i] = Places(secs'[i].atoms, secs'[i].org)
      <3>1. secs'[i] = Joined(i) /\ labels[i] = Places(secs[i].atoms, secs[i].org)
        BY <1>1, <1>5
      <3>2. CASE secs[i].absolute
        BY <1>5, <3>1, <3>2 DEF Joined
      <3>3. CASE ~secs[i].absolute
        <4>1. /\ Joined(i).atoms = secs[i].atoms
              /\ \A k \in 1 .. Len(secs[i].atoms) :
                    PlaceOf(secs[i].atoms, k, Joined(i).org)
                       = PlaceOf(secs[i].atoms, k, 0) + Joined(i).org
          BY <1>1, <1>3, <3>3, JoinedShape
        <4>2. secs[i].org = 0 /\ DOMAIN secs[i].atoms = 1 .. Len(secs[i].atoms)
          <5>1. secs[i].atoms \in Seq(AtomType)
            BY <1>1, <1>3, SectionLaid
          <5> QED BY <1>a, <3>3, <5>1
        <4>3. labels[i] = [k \in 1 .. Len(secs[i].atoms) |-> PlaceOf(secs[i].atoms, k, 0)]
          BY <3>1, <4>2 DEF Places
        <4>4. labels'[i] = [k \in 1 .. Len(secs[i].atoms) |->
                                PlaceOf(secs[i].atoms, k, 0) + Joined(i).org]
          BY <1>5, <3>3, <4>3
        <4> QED BY <3>1, <4>1, <4>2, <4>4 DEF Places
      <3> QED BY <3>2, <3>3
    <2>5. labels' = [i \in DOMAIN secs' |-> Places(secs'[i].atoms, secs'[i].org)]
      BY <1>5, <2>3, <2>4
    <2>6. ASSUME NEW i \in DOMAIN secs'
          PROVE  Sized(secs'[i]) /\ ((Filled(secs[i]))' => Exact(secs'[i]))
      <3>1. secs'[i] = Joined(i) /\ i \in DOMAIN secs
        BY <1>5, <2>3
      <3>2. (Filled(secs[i]))' => secs'[i].last = Len(secs'[i].atoms)
        BY <1>1, <1>5 DEF Filled
      <3> QED BY <2>2, <3>1, <3>2
    <2> QED BY <1>1, <1>2, <2>3, <2>5, <2>6 DEF Shape, Sized, Exact
  <1> QED BY <1>4, <1>5 DEF Join

LEMMA ShapeStep == ASSUME Shape, [Next]_vars PROVE Shape'
  <1>1. CASE Trim
    BY <1>1, ShapeTrim
  <1>2. CASE Join
    BY <1>2, ShapeJoin
  <1>3. CASE Reject \/ Sort \/ Write \/ Patch
    <2>1. /\ secs' = secs /\ labels' = labels /\ binfmt' = binfmt
          /\ joinsecs' = joinsecs
          /\ phase \in {"check", "write"} /\ phase' \in {"fatal", "write", "done"}
      BY <1>3 DEF Reject, Sort, Write, Patch
    <2>2. binfmt' \in Formats /\ joinsecs' \in BOOLEAN
      BY <2>1, Zenon DEF Shape
    <2>3. \A i \in DOMAIN secs : (Filled(secs[i]))' => Filled(secs[i])
      BY <2>1 DEF Filled
    <2>4. secs \in Seq(SectionType)
          /\ labels = [i \in DOMAIN secs |-> Places(secs[i].atoms, secs[i].org)]
          /\ \A i \in DOMAIN secs : Sized(secs[i]) /\ (Filled(secs[i]) => Exact(secs[i]))
          /\ secs # << >>
      BY <2>1 DEF Shape
    <2> QED BY <2>1, <2>2, <2>3, <2>4 DEF Shape, Sized, Exact
  <1>4. CASE UNCHANGED vars
    BY <1>4 DEF vars, Shape, Sized, Exact, Filled
  <1> QED BY <1>1, <1>2, <1>3, <1>4 DEF Next

-----------------------------------------------------------------------------
(* The sections still to be written, in ascending order, none twice, and   *)
(* those already written, all of them below.                               *)
Left == Range(seclist)
Gone == DOMAIN secs \ Left
EndAt(i) == EndOf(secs[i].atoms, secs[i].last, secs[i].org)

Queue ==
    /\ seclist \in Seq(DOMAIN secs)
    /\ \A p, q \in DOMAIN seclist : p # q => seclist[p] # seclist[q]
    /\ Ascending(seclist)
    /\ \A g \in Gone, r \in Left : secs[g].org <= secs[r].org
    /\ Gone = {} => Len(seclist) = Len(secs) /\ pc = 0
    /\ Gone # {} => Len(seclist) < Len(secs) /\ \E g \in Gone : pc = EndAt(g)

Writing == phase = "write" \/ (phase = "done" /\ secs # << >>)

Order ==
    /\ ~Writing => seclist = << >> /\ pc = 0 /\ file = << >>
    /\ Writing => Queue
    /\ phase = "done" => seclist = << >>

LEMMA Tails ==
    ASSUME NEW S, NEW s \in Seq(S), s # << >>,
           \A p, q \in DOMAIN s : p # q => s[p] # s[q]
    PROVE  /\ Tail(s) \in Seq(S) /\ Len(Tail(s)) = Len(s) - 1 /\ Len(s) \in Nat \ {0}
           /\ Head(s) = s[1] /\ 1 \in DOMAIN s /\ DOMAIN s = 1 .. Len(s)
           /\ Head(s) \in S /\ Head(s) \in Range(s)
           /\ DOMAIN Tail(s) = 1 .. Len(s) - 1
           /\ \A p \in 1 .. Len(s) - 1 : Tail(s)[p] = s[p + 1] /\ p + 1 \in DOMAIN s
           /\ Range(Tail(s)) = Range(s) \ {Head(s)}
  <1>1. /\ Tail(s) \in Seq(S) /\ Len(Tail(s)) = Len(s) - 1 /\ Len(s) \in Nat \ {0}
        /\ Head(s) = s[1] /\ 1 \in DOMAIN s /\ DOMAIN s = 1 .. Len(s)
        /\ Head(s) \in S
        /\ DOMAIN Tail(s) = 1 .. Len(s) - 1
    OBVIOUS
  <1>2. \A p \in 1 .. Len(s) - 1 : Tail(s)[p] = s[p + 1] /\ p + 1 \in DOMAIN s
    OBVIOUS
  <1>3. ASSUME NEW x PROVE x \in Range(Tail(s)) <=> x \in Range(s) \ {Head(s)}
    <2>1. x \in Range(Tail(s)) <=> \E p \in 1 .. Len(s) - 1 : x = s[p + 1]
      <3> DEFINE t == Tail(s)
                 n == Len(s)
      <3>1. DOMAIN t = 1 .. n - 1 /\ \A p \in 1 .. n - 1 : t[p] = s[p + 1]
        BY <1>1, <1>2
      <3> HIDE DEF t, n
      <3>2. x \in Range(t) <=> \E p \in 1 .. n - 1 : x = s[p + 1]
        BY <3>1 DEF Range
      <3> QED BY <3>2 DEF t, n
    <2>2. x \in Range(s) \ {Head(s)} <=> \E p \in 1 .. Len(s) : x = s[p] /\ p # 1
      BY <1>1 DEF Range
    <2>3. ASSUME NEW p \in 1 .. Len(s) - 1
          PROVE  p + 1 \in 1 .. Len(s) /\ p + 1 # 1
      BY <1>1
    <2>4. ASSUME NEW p \in 1 .. Len(s), p # 1
          PROVE  p - 1 \in 1 .. Len(s) - 1 /\ (p - 1) + 1 = p
      BY <1>1, <2>4
    <2>5. (\E p \in 1 .. Len(s) - 1 : x = s[p + 1])
            <=> \E p \in 1 .. Len(s) : x = s[p] /\ p # 1
      BY <2>3, <2>4
    <2> QED BY <2>1, <2>2, <2>5
  <1>4. Head(s) \in Range(s)
    BY <1>1 DEF Range
  <1> QED BY <1>1, <1>2, <1>3, <1>4

(* The section written next. *)
LEMMA NextSection ==
    ASSUME Shape, Queue, Write
    PROVE  LET i == Head(seclist)
           IN  /\ i \in DOMAIN secs /\ i \in Left /\ i \notin Gone
               /\ Left' = Left \ {i} /\ Gone' = Gone \cup {i}
               /\ \A r \in Left : secs[i].org <= secs[r].org
               /\ Len(seclist') < Len(secs)
               /\ seclist' \in Seq(DOMAIN secs)
               /\ \A p, q \in DOMAIN seclist' : p # q => seclist'[p] # seclist'[q]
               /\ (Ascending(seclist))'
               /\ seclist[1] = i
  <1> DEFINE i == Head(seclist)
  <1>1. /\ seclist # << >> /\ seclist' = Tail(seclist) /\ secs' = secs
        /\ seclist \in Seq(DOMAIN secs)
        /\ \A p, q \in DOMAIN seclist : p # q => seclist[p] # seclist[q]
    BY DEF Write, Queue
  <1>2. /\ Tail(seclist) \in Seq(DOMAIN secs)
        /\ Len(Tail(seclist)) = Len(seclist) - 1 /\ Len(seclist) \in Nat \ {0}
        /\ i = seclist[1] /\ 1 \in DOMAIN seclist /\ DOMAIN seclist = 1 .. Len(seclist)
        /\ i \in DOMAIN secs /\ i \in Range(seclist)
        /\ DOMAIN Tail(seclist) = 1 .. Len(seclist) - 1
        /\ \A p \in 1 .. Len(seclist) - 1 :
              Tail(seclist)[p] = seclist[p + 1] /\ p + 1 \in DOMAIN seclist
        /\ Range(Tail(seclist)) = Range(seclist) \ {i}
    BY <1>1, Tails
  <1>3. /\ i \in DOMAIN secs /\ i \in Left /\ i \notin Gone
        /\ Left' = Left \ {i} /\ Gone' = Gone \cup {i}
    BY <1>1, <1>2 DEF Left, Gone
  <1>4. \A r \in Left : secs[i].org <= secs[r].org
    <2> SUFFICES ASSUME NEW r \in Left PROVE secs[i].org <= secs[r].org
      OBVIOUS
    <2>1. PICK p \in DOMAIN seclist : r = seclist[p]
      BY DEF Left, Range
    <2>2. CASE p = 1
      <3>1. secs[i] \in SectionType
        BY <1>2 DEF Shape
      <3>2. secs[i].org \in Nat
        BY <3>1 DEF SectionType
      <3> QED BY <1>2, <2>1, <2>2, <3>2
    <2>3. CASE p # 1
      <3>1. 1 < p
        BY <1>2, <2>3
      <3> QED BY <1>2, <2>1, <3>1 DEF Queue, Ascending
    <2> QED BY <2>2, <2>3
  <1>5. Len(seclist') < Len(secs)
    <2>1. Len(seclist) = Len(secs) \/ Len(seclist) < Len(secs)
      BY DEF Queue
    <2>2. Len(secs) \in Nat
      BY DEF Shape
    <2> QED BY <1>1, <1>2, <2>1, <2>2
  <1>6. \A p, q \in DOMAIN seclist' : p # q => seclist'[p] # seclist'[q]
    <2> SUFFICES ASSUME NEW p \in 1 .. Len(seclist) - 1, NEW q \in 1 .. Len(seclist) - 1,
                        p # q
                 PROVE  Tail(seclist)[p] # Tail(seclist)[q]
      BY <1>1, <1>2
    <2>1. p + 1 # q + 1
      BY <1>2
    <2> QED BY <1>1, <1>2, <2>1
  <1>7. (Ascending(seclist))'
    <2> SUFFICES ASSUME NEW p \in 1 .. Len(seclist) - 1, NEW q \in 1 .. Len(seclist) - 1,
                        p < q
                 PROVE  secs[Tail(seclist)[p]].org <= secs[Tail(seclist)[q]].org
      BY <1>1, <1>2 DEF Ascending
    <2>1. p + 1 < q + 1
      BY <1>2
    <2> QED BY <1>2, <2>1 DEF Queue, Ascending
  <1> QED BY <1>1, <1>2, <1>3, <1>4, <1>5, <1>6, <1>7

LEMMA OrderSort == ASSUME Shape, Order, Sort PROVE Order'
  <1>1. /\ phase = "check" /\ phase' = "write" /\ secs' = secs /\ pc' = pc
        /\ \E order \in Bijection(DOMAIN secs, DOMAIN secs) :
              Ascending(order) /\ seclist' = order
    BY DEF Sort
  <1>2. PICK order \in Bijection(DOMAIN secs, DOMAIN secs) :
           Ascending(order) /\ seclist' = order
    BY <1>1
  <1>3. /\ order \in [DOMAIN secs -> DOMAIN secs]
        /\ \A p, q \in DOMAIN secs : order[p] = order[q] => p = q
        /\ \A x \in DOMAIN secs : \E p \in DOMAIN secs : order[p] = x
    BY DEF Bijection, Injection, Surjection, IsInjective
  <1>4. DOMAIN secs = 1 .. Len(secs) /\ Len(secs) \in Nat /\ secs # << >>
    BY <1>1 DEF Shape
  <1>5. order \in Seq(DOMAIN secs) /\ Len(order) = Len(secs) /\ DOMAIN order = DOMAIN secs
    BY <1>3, <1>4
  <1>6. Range(order) = DOMAIN secs
    BY <1>3, <1>5 DEF Range
  <1>7. Gone' = {}
    BY <1>1, <1>2, <1>6 DEF Gone, Left
  <1>8. pc = 0
    BY <1>1 DEF Order, Writing
  <1>9. Queue'
    BY <1>1, <1>2, <1>3, <1>5, <1>7, <1>8 DEF Queue, Ascending
  <1> QED BY <1>1, <1>9 DEF Order, Writing

LEMMA OrderWrite == ASSUME Shape, Order, Write PROVE Order'
  <1> DEFINE i == Head(seclist)
  <1>1. /\ phase = "write" /\ phase' = phase /\ secs' = secs /\ pc' = EndAt(i)
    BY DEF Write, EndAt
  <1>2. Queue
    BY <1>1 DEF Order, Writing
  <1>3. /\ i \in DOMAIN secs /\ i \in Left /\ i \notin Gone
        /\ Left' = Left \ {i} /\ Gone' = Gone \cup {i}
        /\ \A r \in Left : secs[i].org <= secs[r].org
        /\ Len(seclist') < Len(secs)
        /\ seclist' \in Seq(DOMAIN secs)
        /\ \A p, q \in DOMAIN seclist' : p # q => seclist'[p] # seclist'[q]
        /\ (Ascending(seclist))'
    BY <1>2, NextSection
  <1>4. \A g \in Gone', r \in Left' : secs'[g].org <= secs'[r].org
    BY <1>1, <1>2, <1>3 DEF Queue
  <1>6. \E g \in Gone' : pc' = (EndAt(g))'
    <2>1. \A g \in DOMAIN secs : (EndAt(g))' = EndAt(g)
      BY <1>1 DEF EndAt
    <2> QED BY <1>1, <1>3, <2>1
  <1>7. Queue'
    BY <1>1, <1>3, <1>4, <1>6 DEF Queue
  <1> QED BY <1>1, <1>7 DEF Order, Writing

LEMMA OrderStep == ASSUME Shape, Order, [Next]_vars PROVE Order'
  <1>1. CASE Trim \/ Join \/ Reject
    <2>1. /\ seclist' = seclist /\ pc' = pc /\ file' = file
          /\ phase \in {"trim", "join", "check"}
          /\ phase' = "done" => secs' = << >>
          /\ phase' # "write"
      <3>1. CASE Trim
        <4>1. /\ secs' = [i \in DOMAIN secs |-> Trimmed(secs[i])]
              /\ phase = "trim" /\ phase' = IF secs = << >> THEN "done" ELSE "join"
              /\ seclist' = seclist /\ pc' = pc /\ file' = file
          BY <3>1 DEF Trim
        <4>2. secs = << >> => secs' = << >>
          BY <4>1
        <4> QED BY <4>1, <4>2
      <3>2. CASE Join \/ Reject
        BY <3>2 DEF Join, Reject
      <3> QED BY <1>1, <3>1, <3>2
    <2>2. seclist = << >> /\ pc = 0 /\ file = << >>
      BY <2>1 DEF Order, Writing
    <2> QED BY <2>1, <2>2 DEF Order, Writing
  <1>2. CASE Sort
    BY <1>2, OrderSort
  <1>3. CASE Write
    BY <1>3, OrderWrite
  <1>4. CASE Patch
    <2>1. /\ phase = "write" /\ phase' = "done" /\ secs' = secs /\ pc' = pc
          /\ seclist = << >> /\ seclist' = seclist /\ secs # << >>
      BY <1>4 DEF Patch, Shape
    <2>2. Queue'
      BY <2>1 DEF Order, Writing, Queue, Gone, Left, EndAt, Ascending
    <2> QED BY <2>1, <2>2 DEF Order, Writing
  <1>5. CASE UNCHANGED vars
    BY <1>5 DEF vars, Order, Writing, Queue, Gone, Left, EndAt, Ascending
  <1> QED BY <1>1, <1>2, <1>3, <1>4, <1>5 DEF Next

-----------------------------------------------------------------------------
(* The bytes of one section; its text has each of them where its labels    *)
(* say, and nothing else.                                                  *)
BytesOf(i) == UNION {Range(Atom(i, k)) : k \in 1 .. secs[i].last}

LEMMA BytesOfSections == Bytes = UNION {BytesOf(i) : i \in DOMAIN secs}
  BY DEF Bytes, BytesOf

LEMMA ShapeLaid ==
    ASSUME Shape, NEW i \in DOMAIN secs
    PROVE  /\ Laid(i) /\ secs[i] \in SectionType /\ Sized(secs[i])
           /\ secs[i].org \in Nat /\ secs[i].pc \in Nat /\ EndAt(i) \in Nat
           /\ secs[i].org <= EndAt(i) /\ EndAt(i) <= secs[i].pc
           /\ secs[i].last \in 0 .. Len(secs[i].atoms) /\ Len(secs[i].atoms) \in Nat
           /\ i \in Nat
           /\ labels[i] = Places(secs[i].atoms, secs[i].org)
  <1>1. secs[i] \in SectionType /\ Sized(secs[i]) /\ i \in Nat
        /\ labels[i] = Places(secs[i].atoms, secs[i].org)
    BY DEF Shape
  <1>2. /\ secs[i].atoms \in Seq(AtomType) /\ secs[i].org \in Nat
        /\ secs[i].pc \in Nat /\ EndAt(i) \in Nat
        /\ secs[i].org <= EndAt(i) /\ EndAt(i) <= secs[i].pc
        /\ secs[i].last \in 0 .. Len(secs[i].atoms) /\ Len(secs[i].atoms) \in Nat
    BY <1>1, SectionLaid DEF EndAt
  <1> QED BY <1>1, <1>2 DEF Laid

LEMMA AddressOf ==
    ASSUME Shape, NEW i \in DOMAIN secs, NEW k \in 1 .. secs[i].last,
           NEW b \in 1 .. secs[i].atoms[k].size
    PROVE  /\ Address(<<i, k, b>>) = secs[i].org + Spot(i, k, b) - 1
           /\ Spot(i, k, b) \in Int /\ secs[i].org \in Nat
  <1>1. /\ Laid(i) /\ labels[i] = Places(secs[i].atoms, secs[i].org)
        /\ secs[i].last \in 0 .. Len(secs[i].atoms) /\ Len(secs[i].atoms) \in Nat
    BY ShapeLaid
  <1>2. /\ secs[i].atoms \in Seq(AtomType) /\ secs[i].org \in Nat
        /\ k \in 1 .. Len(secs[i].atoms) /\ k \in DOMAIN secs[i].atoms
    BY <1>1 DEF Laid
  <1>3. labels[i][k] = PlaceOf(secs[i].atoms, k, secs[i].org)
    BY <1>1, <1>2 DEF Places
  <1>4. PlaceOf(secs[i].atoms, k, secs[i].org) \in Nat /\ secs[i].atoms[k].size \in Nat
    BY <1>2, PlaceOfType
  <1>5. Address(<<i, k, b>>) = PlaceOf(secs[i].atoms, k, secs[i].org) + b - 1
    BY <1>3 DEF Address
  <1> QED BY <1>2, <1>4, <1>5 DEF Spot

LEMMA BytesOfSection ==
    ASSUME Shape, NEW i \in DOMAIN secs, NEW byte
    PROVE  byte \in BytesOf(i) <=>
             \E k \in 1 .. secs[i].last : \E b \in 1 .. secs[i].atoms[k].size :
                byte = <<i, k, b>>
  <1>1. ASSUME NEW k \in 1 .. secs[i].last
        PROVE  byte \in Range(Atom(i, k)) <=>
                 \E b \in 1 .. secs[i].atoms[k].size : byte = <<i, k, b>>
    BY DEF Range, Atom
  <1> QED BY <1>1 DEF BytesOf

LEMMA ContentsOf ==
    ASSUME Shape, NEW i \in DOMAIN secs
    PROVE  /\ Contents(i) \in Seq(Out) /\ Len(Contents(i)) = EndAt(i) - secs[i].org
           /\ \A byte \in BytesOf(i) :
                 /\ byte # pad
                 /\ Address(byte) \in secs[i].org .. EndAt(i) - 1
                 /\ Contents(i)[Address(byte) - secs[i].org + 1] = byte
           /\ \A p \in 1 .. Len(Contents(i)) :
                 \/ Contents(i)[p] = pad
                 \/ /\ Contents(i)[p] \in BytesOf(i)
                    /\ Address(Contents(i)[p]) = secs[i].org + p - 1
  <1> DEFINE text == Contents(i)
             org == secs[i].org
             last == secs[i].last
  <1>1. /\ Laid(i) /\ org \in Nat /\ EndAt(i) \in Nat /\ org <= EndAt(i)
        /\ last \in 0 .. Len(secs[i].atoms) /\ Len(secs[i].atoms) \in Nat /\ i \in Nat
    BY ShapeLaid
  <1>2. text = Text(i, last) /\ last \in 0 .. last
    BY <1>1 DEF Contents
  <1>3. text \in Seq(Out)
    BY <1>1, <1>2, TextSteps
  <1>4. Image(i, last)
    BY <1>1, ImageOf
  <1>5. Len(text) = EndAt(i) - org
    BY <1>2, <1>4 DEF Image, EndAt
  <1>6. \A k \in 1 .. last : \A b \in 1 .. secs[i].atoms[k].size :
            Spot(i, k, b) \in 1 .. Len(text) /\ text[Spot(i, k, b)] = <<i, k, b>>
    BY <1>2, <1>4 DEF Image
  <1>7. \A p \in 1 .. Len(text) :
            \/ text[p] = pad
            \/ \E k \in 1 .. last : \E b \in 1 .. secs[i].atoms[k].size :
                  p = Spot(i, k, b) /\ text[p] = <<i, k, b>>
    BY <1>2, <1>4 DEF Image
  <1>8. \A k \in 1 .. last : \A b \in 1 .. secs[i].atoms[k].size :
            Address(<<i, k, b>>) = org + Spot(i, k, b) - 1
    BY AddressOf
  <1>9. ASSUME NEW byte \in BytesOf(i)
        PROVE  /\ byte # pad
               /\ Address(byte) \in org .. EndAt(i) - 1
               /\ text[Address(byte) - org + 1] = byte
    <2>0. PICK k \in 1 .. last :
             \E b \in 1 .. secs[i].atoms[k].size : byte = <<i, k, b>>
      BY BytesOfSection
    <2>1. PICK b \in 1 .. secs[i].atoms[k].size : byte = <<i, k, b>>
      BY <2>0
    <2>2. byte # pad
      BY <2>1 DEF pad
    <2> DEFINE spot == Spot(i, k, b)
    <2>3. Address(byte) = org + spot - 1 /\ spot \in 1 .. Len(text) /\ text[spot] = byte
      BY <1>6, <1>8, <2>1
    <2> HIDE DEF spot, text, org
    <2> QED BY <1>1, <1>5, <2>2, <2>3
  <1>10. ASSUME NEW p \in 1 .. Len(text), text[p] # pad
         PROVE  text[p] \in BytesOf(i) /\ Address(text[p]) = org + p - 1
    <2>0. PICK k \in 1 .. last : \E b \in 1 .. secs[i].atoms[k].size :
             p = Spot(i, k, b) /\ text[p] = <<i, k, b>>
      BY <1>7, <1>10
    <2>1. PICK b \in 1 .. secs[i].atoms[k].size :
             p = Spot(i, k, b) /\ text[p] = <<i, k, b>>
      BY <2>0
    <2>2. text[p] \in BytesOf(i)
      BY <2>1, BytesOfSection
    <2> QED BY <1>8, <2>1, <2>2
  <1> QED BY <1>3, <1>5, <1>9, <1>10

(* Sections none of which reaches into another are accepted, ...           *)
LEMMA NoClash == ASSUME Shape, Disjoint PROVE ~Overlap
  <1> SUFFICES ASSUME NEW i \in DOMAIN secs, NEW j \in DOMAIN secs, i < j,
                      Clash(secs[i], secs[j])
               PROVE  FALSE
    BY DEF Overlap
  <1>1. /\ secs[i].org \in Nat /\ secs[j].org \in Nat
        /\ secs[i].pc \in Nat /\ secs[j].pc \in Nat
        /\ secs[i].org <= secs[i].pc /\ secs[j].org <= secs[j].pc
    <2>1. /\ secs[i].org \in Nat /\ secs[i].pc \in Nat /\ EndAt(i) \in Nat
          /\ secs[i].org <= EndAt(i) /\ EndAt(i) <= secs[i].pc
      BY ShapeLaid
    <2>2. /\ secs[j].org \in Nat /\ secs[j].pc \in Nat /\ EndAt(j) \in Nat
          /\ secs[j].org <= EndAt(j) /\ EndAt(j) <= secs[j].pc
      BY ShapeLaid
    <2> QED BY <2>1, <2>2
  <1>2. i # j
    BY ShapeLaid
  <1>3. Below(secs[i], secs[j]) \/ Below(secs[j], secs[i])
    BY <1>2 DEF Disjoint
  <1> QED BY <1>1, <1>3 DEF Below, Clash

(* ... and each of them begins behind those written before it. *)
LEMMA BehindGone ==
    ASSUME Shape, Queue, Disjoint, NEW g \in Gone, NEW r \in Left
    PROVE  EndAt(g) <= secs[r].org
  <1>1. g \in DOMAIN secs /\ r \in DOMAIN secs /\ g # r
    BY DEF Gone, Left, Range, Queue
  <1>2. /\ secs[g].org \in Nat /\ secs[g].pc \in Nat /\ EndAt(g) \in Nat
        /\ EndAt(g) <= secs[g].pc
    BY <1>1, ShapeLaid
  <1>3. secs[r].org \in Nat
    BY <1>1, ShapeLaid
  <1>4. secs[g].org <= secs[r].org
    BY DEF Queue
  <1>5. Below(secs[g], secs[r]) \/ Below(secs[r], secs[g])
    BY <1>1 DEF Disjoint
  <1> QED BY <1>2, <1>3, <1>4, <1>5 DEF Below

-----------------------------------------------------------------------------
(* The one segment of a file with one load address. *)
SegmentType == [addr : Nat, extent : Int, bytes : Seq(Out)]

Single ==
    Writing /\ binfmt \notin Segmented =>
        /\ file \in Seq(SegmentType) /\ Len(file) = 1
        /\ \A i \in DOMAIN secs : file[1].addr <= secs[i].org
        /\ file[1].extent = IF phase = "done" THEN pc - file[1].addr ELSE 0
        /\ Gone = {} => file[1].bytes = << >> /\ file[1].addr = secs[seclist[1]].org

(* raw: the file is the memory from the load address up to pc. *)
RawImage ==
    Writing /\ binfmt = "raw" /\ Disjoint /\ Gone # {} =>
        /\ file[1].addr + Len(file[1].bytes) = pc
        /\ \A g \in Gone : \A byte \in BytesOf(g) :
              /\ Address(byte) \in file[1].addr .. pc - 1
              /\ file[1].bytes[Address(byte) - file[1].addr + 1] = byte

(* coalesced: the bytes written, in the order of their addresses. *)
Ordered(bytes) ==
    \A p, q \in DOMAIN bytes :
        p < q /\ bytes[p] # pad /\ bytes[q] # pad
            => Address(bytes[p]) < Address(bytes[q])

Coalesced ==
    Writing /\ binfmt = "coalesced" /\ Disjoint =>
        /\ \A p \in DOMAIN file[1].bytes :
              \/ file[1].bytes[p] = pad
              \/ \E g \in Gone : file[1].bytes[p] \in BytesOf(g)
        /\ \A g \in Gone : \A byte \in BytesOf(g) :
              \E p \in DOMAIN file[1].bytes : file[1].bytes[p] = byte
        /\ Ordered(file[1].bytes)

(* A header for each section written, in the order of their addresses, and *)
(* behind all of them the one that ends a PGZ file.                        *)
SegmentOf(seg, i) ==
    /\ seg.addr = secs[i].org /\ seg.extent = Extent(secs[i])
    /\ Len(seg.bytes) = EndAt(i) - secs[i].org
    /\ \A byte \in BytesOf(i) : seg.bytes[Address(byte) - secs[i].org + 1] = byte

Trailer == IF phase = "done" /\ binfmt = "pgz" THEN 1 ELSE 0
Headers == 1 .. Len(file) - Trailer

Segments ==
    Writing /\ binfmt \in Segmented =>
        /\ file \in Seq(SegmentType)
        /\ \A s \in Headers : \E g \in Gone : SegmentOf(file[s], g)
        /\ \A g \in Gone : \E s \in Headers : SegmentOf(file[s], g)
        /\ Disjoint => \A s, t \in Headers : s < t => file[s].addr < file[t].addr
        /\ Trailer = 1 => /\ Len(file) > 0
                          /\ file[Len(file)].extent = 0 /\ file[Len(file)].bytes = << >>

FileOK == Single /\ RawImage /\ Coalesced /\ Segments

(* While sections are written nothing else changes. *)
LEMMA Unmoved ==
    ASSUME secs' = secs, labels' = labels, binfmt' = binfmt
    PROVE  /\ Disjoint' <=> Disjoint
           /\ \A i : (BytesOf(i))' = BytesOf(i) /\ (EndAt(i))' = EndAt(i)
           /\ \A byte : (Address(byte))' = Address(byte)
           /\ \A bytes : (Ordered(bytes))' <=> Ordered(bytes)
           /\ \A seg, i : (SegmentOf(seg, i))' <=> SegmentOf(seg, i)
  <1>1. \A i : (BytesOf(i))' = BytesOf(i) /\ (EndAt(i))' = EndAt(i)
    BY DEF BytesOf, Atom, EndAt
  <1>2. \A byte : (Address(byte))' = Address(byte)
    BY DEF Address
  <1>3. \A bytes : (Ordered(bytes))' <=> Ordered(bytes)
    BY DEF Ordered, Address
  <1>4. Disjoint' <=> Disjoint
    BY DEF Disjoint
  <1>5. \A seg, i : (SegmentOf(seg, i))' <=> SegmentOf(seg, i)
    BY DEF SegmentOf, BytesOf, Atom, EndAt, Address, Extent
  <1> QED BY <1>1, <1>2, <1>3, <1>4, <1>5

LEMMA FileSort == ASSUME Shape, Order, Sort PROVE FileOK'
  <1>1. /\ phase = "check" /\ phase' = "write" /\ secs' = secs /\ labels' = labels
        /\ binfmt' = binfmt
        /\ file' = IF binfmt \in Segmented THEN << >>
                   ELSE << [addr |-> secs[seclist'[1]].org, extent |-> 0, bytes |-> << >>] >>
    BY DEF Sort
  <1>2. Queue' /\ Gone' = {}
    <2>1. Queue'
      BY <1>1, OrderSort DEF Order, Writing
    <2>2. PICK order \in Bijection(DOMAIN secs, DOMAIN secs) : seclist' = order
      BY DEF Sort
    <2>3. Range(order) = DOMAIN secs
      BY DEF Bijection, Surjection, Injection, Range
    <2> QED BY <1>1, <2>1, <2>2, <2>3 DEF Gone, Left
  <1>3. /\ seclist' \in Seq(DOMAIN secs) /\ Len(seclist') = Len(secs)
        /\ secs # << >> /\ secs \in Seq(SectionType)
    BY <1>1, <1>2 DEF Queue, Shape
  <1>4. 1 \in DOMAIN seclist' /\ seclist'[1] \in DOMAIN secs
    BY <1>3
  <1>5. ASSUME binfmt \notin Segmented
        PROVE  /\ file' \in Seq(SegmentType) /\ Len(file') = 1
               /\ \A i \in DOMAIN secs : file'[1].addr <= secs[i].org
               /\ file'[1].extent = 0 /\ file'[1].bytes = << >>
               /\ file'[1].addr = secs[seclist'[1]].org
    <2> DEFINE a == secs[seclist'[1]].org
    <2>1. a \in Nat
      BY <1>4, ShapeLaid
    <2>2. \A i \in DOMAIN secs : a <= secs[i].org
      <3> SUFFICES ASSUME NEW i \in DOMAIN secs PROVE a <= secs[i].org
        OBVIOUS
      <3>1. PICK p \in DOMAIN seclist' : seclist'[p] = i
        BY <1>1, <1>2 DEF Gone, Left, Range
      <3>2. CASE p = 1
        BY <2>1, <3>1, <3>2
      <3>3. CASE p # 1
        <4>1. 1 < p
          BY <1>3, <3>3
        <4> QED BY <1>1, <1>2, <1>4, <3>1, <4>1 DEF Queue, Ascending
      <3> QED BY <3>2, <3>3
    <2>3. << >> \in Seq(Out)
      OBVIOUS
    <2>4. file' = << [addr |-> a, extent |-> 0, bytes |-> << >>] >>
      BY <1>1, <1>5
    <2> HIDE DEF a
    <2>5. [addr |-> a, extent |-> 0, bytes |-> << >>] \in SegmentType
      BY <2>1, <2>3 DEF SegmentType
    <2> QED BY <2>2, <2>4, <2>5 DEF a
  <1>6. Single'
    BY <1>1, <1>5 DEF Single
  <1>7. RawImage'
    BY <1>2 DEF RawImage
  <1>8. Coalesced'
    <2> SUFFICES ASSUME binfmt' = "coalesced" PROVE Coalesced'
      BY DEF Coalesced
    <2>3. binfmt \notin Segmented
      BY <1>1 DEF Segmented
    <2>1. file'[1].bytes = << >>
      BY <1>1, <1>5, <2>3
    <2>2. DOMAIN file'[1].bytes = {}
      BY <2>1
    <2> QED BY <1>2, <2>2 DEF Coalesced, Ordered
  <1>9. Segments'
    <2> SUFFICES ASSUME binfmt' \in Segmented PROVE Segments'
      BY DEF Segments
    <2>1. file' = << >> /\ file' \in Seq(SegmentType) /\ Len(file') = 0
      BY <1>1
    <2>2. Trailer' = 0
      BY <1>1 DEF Trailer
    <2>3. Headers' = {}
      BY <2>1, <2>2 DEF Headers
    <2> QED BY <1>2, <2>1, <2>2, <2>3 DEF Segments
  <1> QED BY <1>6, <1>7, <1>8, <1>9 DEF FileOK

LEMMA MaxZero == ASSUME NEW d \in Int PROVE Max({0, d}) = IF d > 0 THEN d ELSE 0
  <1> DEFINE m == IF d > 0 THEN d ELSE 0
  <1>1. m \in {0, d} /\ \A y \in {0, d} : m >= y
    OBVIOUS
  <1>2. \A x \in {0, d} : (\A y \in {0, d} : x >= y) => x = m
    OBVIOUS
  <1> HIDE DEF m
  <1>3. Max({0, d}) = m
    BY <1>1, <1>2 DEF Max
  <1> QED BY <1>3 DEF m

(* Where the writing stands. *)
LEMMA PcType == ASSUME Shape, Queue PROVE pc \in Nat
  <1>1. CASE Gone = {}
    BY <1>1 DEF Queue
  <1>2. CASE Gone # {}
    <2>1. PICK g \in Gone : pc = EndAt(g)
      BY <1>2 DEF Queue
    <2> QED BY <2>1, ShapeLaid DEF Gone
  <1> QED BY <1>1, <1>2

(* What Write appends to the one segment of a file. *)
LEMMA Appended ==
    ASSUME Shape, Order, FileOK, Write, binfmt \notin Segmented
    PROVE  LET i == Head(seclist)
           IN  \E lead \in Seq(Out) :
                  /\ file'[1].bytes = file[1].bytes \o lead \o Contents(i)
                  /\ file[1].bytes \in Seq(Out) /\ file'[1].bytes \in Seq(Out)
                  /\ file'[1].addr = file[1].addr /\ file'[1].extent = 0
                  /\ file[1].addr \in Nat
                  /\ file' \in Seq(SegmentType) /\ Len(file') = 1
                  /\ \A p \in 1 .. Len(lead) : lead[p] = pad
                  /\ binfmt = "raw" /\ Disjoint =>
                        file[1].addr + Len(file[1].bytes) + Len(lead) = secs[i].org
  <1> DEFINE i == Head(seclist)
             first == Len(seclist) = Len(secs)
             lead == IF binfmt = "raw" /\ ~first THEN Gap(i) ELSE << >>
             t == file[1].bytes
             a == file[1].addr
             w == t \o lead \o Contents(i)
  <1>1. /\ phase = "write" /\ Queue /\ Writing
        /\ file' = [file EXCEPT ![1].bytes = w]
    BY DEF Write, Order, Writing
  <1>2. /\ file \in Seq(SegmentType) /\ Len(file) = 1 /\ file[1].extent = 0
        /\ Gone = {} => t = << >> /\ a = secs[seclist[1]].org
    BY <1>1 DEF FileOK, Single
  <1>3. file[1] \in SegmentType /\ t \in Seq(Out) /\ a \in Nat
    <2>1. file[1] \in SegmentType
      <3>1. file \in Seq(SegmentType) /\ 1 \in 1 .. Len(file)
        BY <1>2
      <3> QED BY <3>1
    <2> QED BY <2>1 DEF SegmentType
  <1>4. i \in DOMAIN secs /\ i \in Left /\ seclist[1] = i
    BY <1>1, NextSection
  <1>5. /\ Contents(i) \in Seq(Out) /\ secs[i].org \in Nat /\ pc \in Nat
    BY <1>1, <1>4, ContentsOf, ShapeLaid, PcType
  <1>6. first <=> Gone = {}
    <2>1. Len(secs) \in Nat
      BY DEF Shape
    <2> QED BY <1>1, <2>1 DEF Queue
  <1> DEFINE d == secs[i].org - pc
             n == IF d > 0 THEN d ELSE 0
  <1>7. d \in Int /\ n \in Nat /\ Gap(i) = Padding(n)
    BY <1>5, MaxZero DEF Gap
  <1>8. /\ Gap(i) \in Seq(Out) /\ Len(Gap(i)) = n
        /\ \A p \in 1 .. n : Gap(i)[p] = pad
    <2> HIDE DEF n
    <2> QED BY <1>7, PaddingType
  <1>9. << >> \in Seq(Out) /\ Len(<< >>) = 0
    OBVIOUS
  <1>10. lead \in Seq(Out) /\ \A p \in 1 .. Len(lead) : lead[p] = pad
    BY <1>8, <1>9
  <1>11. binfmt = "raw" /\ Disjoint => a + Len(t) + Len(lead) = secs[i].org
    <2> SUFFICES ASSUME binfmt = "raw", Disjoint
                 PROVE  a + Len(t) + Len(lead) = secs[i].org
      OBVIOUS
    <2>1. CASE Gone = {}
      <3>1. lead = << >> /\ t = << >> /\ a = secs[i].org
        BY <1>2, <1>4, <1>6, <2>1
      <3> QED BY <1>5, <1>9, <3>1
    <2>2. CASE Gone # {}
      <3>1. lead = Gap(i)
        BY <1>6, <2>2
      <3>2. a + Len(t) = pc
        BY <1>1, <2>2 DEF FileOK, RawImage
      <3>3. pc <= secs[i].org
        <4>1. PICK g \in Gone : pc = EndAt(g)
          BY <1>1, <2>2 DEF Queue
        <4> QED BY <1>1, <1>4, <4>1, BehindGone
      <3>4. n = secs[i].org - pc
        BY <1>5, <3>3
      <3>5. Len(lead) = secs[i].org - pc
        BY <1>8, <3>1, <3>4
      <3> HIDE DEF lead, t, a
      <3> QED BY <1>3, <1>5, <3>2, <3>5
    <2> QED BY <2>1, <2>2
  <1> HIDE DEF lead, d, n
  <1>12. w \in Seq(Out)
    <2> HIDE DEF t
    <2> QED BY <1>3, <1>5, <1>10, Row
  <1> HIDE DEF w
  <1>13. /\ file' \in Seq(SegmentType) /\ Len(file') = 1
         /\ file'[1].bytes = w /\ file'[1].addr = a /\ file'[1].extent = 0
    <2>1. file = << file[1] >>
      BY <1>2
    <2>2. file' = << [file[1] EXCEPT !.bytes = w] >>
      BY <1>1, <1>2
    <2>3. /\ [file[1] EXCEPT !.bytes = w] \in SegmentType
          /\ [file[1] EXCEPT !.bytes = w].bytes = w
          /\ [file[1] EXCEPT !.bytes = w].addr = a
          /\ [file[1] EXCEPT !.bytes = w].extent = 0
      BY <1>2, <1>3, <1>12 DEF SegmentType
    <2> DEFINE seg == [file[1] EXCEPT !.bytes = w]
    <2>4. file' = << seg >> /\ seg \in SegmentType
      BY <2>2, <2>3
    <2>5. seg.bytes = w /\ seg.addr = a /\ seg.extent = 0
      BY <2>3
    <2> HIDE DEF seg
    <2>6. file' \in Seq(SegmentType) /\ Len(file') = 1 /\ file'[1] = seg
      BY <2>4
    <2> QED BY <2>5, <2>6
  <1>14. file'[1].bytes = t \o lead \o Contents(i) /\ file'[1].bytes \in Seq(Out)
    BY <1>12, <1>13 DEF w
  <1> QED BY <1>3, <1>10, <1>11, <1>13, <1>14

LEMMA RawWrite ==
    ASSUME Shape, Order, FileOK, Write, binfmt = "raw", Disjoint
    PROVE  RawImage'
  <1> DEFINE i == Head(seclist)
             t == file[1].bytes
             a == file[1].addr
             c == Contents(i)
             org == secs[i].org
             end == EndAt(i)
             w == file'[1].bytes
  <1>1. /\ phase = "write" /\ Queue /\ Writing /\ secs' = secs /\ labels' = labels
        /\ binfmt' = binfmt /\ pc' = end
    BY DEF Write, Order, Writing, EndAt
  <1>2. /\ i \in DOMAIN secs /\ i \in Left /\ Gone' = Gone \cup {i}
    BY <1>1, NextSection
  <1>3. PICK lead \in Seq(Out) :
           /\ w = t \o lead \o c
           /\ t \in Seq(Out) /\ w \in Seq(Out)
           /\ file'[1].addr = a /\ a \in Nat
           /\ a + Len(t) + Len(lead) = org
    BY Appended DEF Segmented
  <1>4. /\ c \in Seq(Out) /\ Len(c) = end - org /\ org \in Nat /\ end \in Nat
        /\ org <= end
        /\ \A byte \in BytesOf(i) :
              Address(byte) \in org .. end - 1 /\ c[Address(byte) - org + 1] = byte
    BY <1>2, ContentsOf, ShapeLaid
  <1>5. /\ Len(w) = Len(t) + Len(lead) + Len(c)
        /\ Len(t) \in Nat /\ Len(lead) \in Nat /\ Len(c) \in Nat
        /\ \A p \in 1 .. Len(t) : w[p] = t[p]
        /\ \A p \in 1 .. Len(c) : w[Len(t) + Len(lead) + p] = c[p]
    <2> HIDE DEF t, c, w
    <2>1. /\ Len(t \o lead \o c) = Len(t) + Len(lead) + Len(c)
          /\ Len(t) \in Nat /\ Len(lead) \in Nat /\ Len(c) \in Nat
          /\ \A p \in 1 .. Len(t) : (t \o lead \o c)[p] = t[p]
          /\ \A p \in 1 .. Len(c) : (t \o lead \o c)[Len(t) + Len(lead) + p] = c[p]
      <3>1. t \in Seq(Out) /\ lead \in Seq(Out) /\ c \in Seq(Out)
        BY <1>3, <1>4
      <3> QED BY <3>1, Row
    <2> QED BY <1>3, <2>1
  <1>6. a + Len(w) = end
    <2> HIDE DEF t, c, w, a, org, end
    <2> QED BY <1>3, <1>4, <1>5
  <1>7. ASSUME NEW byte \in BytesOf(i)
        PROVE  Address(byte) \in a .. end - 1 /\ w[Address(byte) - a + 1] = byte
    <2> DEFINE x == Address(byte)
    <2>1. x \in org .. end - 1 /\ c[x - org + 1] = byte
      BY <1>4
    <2> HIDE DEF t, c, w, a, org, end, x
    <2>2. x - org + 1 \in 1 .. Len(c)
      BY <1>4, <2>1
    <2>3. Len(t) + Len(lead) + (x - org + 1) = x - a + 1
      <3>1. x \in Int /\ org \in Int /\ a \in Int
        BY <1>3, <1>4, <2>1
      <3>2. Len(t) \in Int /\ Len(lead) \in Int /\ Len(t) + Len(lead) = org - a
        BY <1>3, <1>5, <3>1
      <3> QED BY <3>1, <3>2
    <2>4. w[x - a + 1] = byte
      BY <1>5, <2>1, <2>2, <2>3
    <2>5. a <= org
      BY <1>3, <1>4, <1>5
    <2>6. x \in a .. end - 1
      BY <1>3, <1>4, <2>1, <2>5
    <2> QED BY <2>4, <2>6 DEF x
  <1>8. ASSUME NEW g \in Gone, NEW byte \in BytesOf(g)
        PROVE  Address(byte) \in a .. end - 1 /\ w[Address(byte) - a + 1] = byte
    <2> DEFINE x == Address(byte)
    <2>1. /\ a + Len(t) = pc
          /\ x \in a .. pc - 1 /\ t[x - a + 1] = byte
      BY <1>1 DEF FileOK, RawImage
    <2> HIDE DEF t, c, w, a, org, end, x
    <2>2. x - a + 1 \in 1 .. Len(t)
      BY <1>3, <1>5, <2>1
    <2>3. w[x - a + 1] = byte
      BY <1>5, <2>1, <2>2
    <2>4. pc <= end
      BY <1>3, <1>4, <1>5, <2>1
    <2>5. x \in a .. end - 1
      BY <1>3, <1>4, <1>5, <2>1, <2>4
    <2> QED BY <2>3, <2>5 DEF x
  <1> HIDE DEF i, t, a, c, org, end, w
  <1>9. \A g \in Gone' : \A byte \in BytesOf(g) :
           Address(byte) \in a .. end - 1 /\ w[Address(byte) - a + 1] = byte
    BY <1>2, <1>7, <1>8
  <1>10. /\ \A g : (BytesOf(g))' = BytesOf(g)
         /\ \A byte : (Address(byte))' = Address(byte)
    BY <1>1, Unmoved
  <1>11. /\ file'[1].addr = a /\ file'[1].bytes = w
    BY <1>3 DEF w
  <1>12. /\ file'[1].addr + Len(file'[1].bytes) = pc'
         /\ \A g \in Gone' : \A byte \in (BytesOf(g))' :
               /\ (Address(byte))' \in file'[1].addr .. pc' - 1
               /\ file'[1].bytes[(Address(byte))' - file'[1].addr + 1] = byte
    BY <1>1, <1>6, <1>9, <1>10, <1>11
  <1> QED BY <1>12 DEF RawImage

LEMMA CoalescedWrite ==
    ASSUME Shape, Order, FileOK, Write, binfmt = "coalesced", Disjoint
    PROVE  Coalesced'
  <1> DEFINE i == Head(seclist)
             t == file[1].bytes
             c == Contents(i)
             org == secs[i].org
             w == file'[1].bytes
  <1>1. /\ phase = "write" /\ Queue /\ Writing /\ secs' = secs /\ labels' = labels
        /\ binfmt' = binfmt
    BY DEF Write, Order, Writing
  <1>2. /\ i \in DOMAIN secs /\ i \in Left /\ Gone' = Gone \cup {i}
    BY <1>1, NextSection
  <1>3. PICK lead \in Seq(Out) :
           /\ w = t \o lead \o c
           /\ t \in Seq(Out) /\ w \in Seq(Out)
           /\ \A p \in 1 .. Len(lead) : lead[p] = pad
    BY Appended DEF Segmented
  <1>4. /\ c \in Seq(Out) /\ org \in Nat
        /\ Len(c) = EndAt(i) - org
        /\ \A byte \in BytesOf(i) : /\ Address(byte) \in org .. EndAt(i) - 1
                                    /\ c[Address(byte) - org + 1] = byte
        /\ \A p \in 1 .. Len(c) : \/ c[p] = pad
                                  \/ c[p] \in BytesOf(i) /\ Address(c[p]) = org + p - 1
    BY <1>2, ContentsOf, ShapeLaid
  <1> DEFINE l == Len(t)
             m == Len(t) + Len(lead)
             n == Len(c)
  <1>5. /\ Len(w) = m + n /\ l \in Nat /\ m \in Nat /\ n \in Nat /\ l <= m
        /\ DOMAIN w = 1 .. m + n /\ DOMAIN t = 1 .. l
        /\ \A p \in 1 .. l : w[p] = t[p]
        /\ \A p \in l + 1 .. m : w[p] = pad
        /\ \A p \in 1 .. n : w[m + p] = c[p]
    <2> HIDE DEF t, c, w
    <2>1. /\ Len(t \o lead \o c) = Len(t) + Len(lead) + Len(c)
          /\ Len(t) \in Nat /\ Len(lead) \in Nat /\ Len(c) \in Nat
          /\ \A p \in 1 .. Len(t) : (t \o lead \o c)[p] = t[p]
          /\ \A p \in 1 .. Len(lead) : (t \o lead \o c)[Len(t) + p] = lead[p]
          /\ \A p \in 1 .. Len(c) : (t \o lead \o c)[Len(t) + Len(lead) + p] = c[p]
      <3>1. t \in Seq(Out) /\ lead \in Seq(Out) /\ c \in Seq(Out)
        BY <1>3, <1>4
      <3> QED BY <3>1, Row
    <2>2. DOMAIN w = 1 .. Len(w) /\ DOMAIN t = 1 .. Len(t)
      BY <1>3
    <2>3. \A p \in l + 1 .. m : w[p] = pad
      <3> SUFFICES ASSUME NEW p \in l + 1 .. m PROVE w[p] = pad
        OBVIOUS
      <3>1. p - l \in 1 .. Len(lead) /\ p = l + (p - l)
        BY <2>1
      <3>2. w[l + (p - l)] = lead[p - l]
        BY <1>3, <2>1, <3>1
      <3> QED BY <1>3, <3>1, <3>2
    <2> QED BY <1>3, <2>1, <2>2, <2>3
  <1>6. /\ \A p \in DOMAIN t : t[p] = pad \/ \E g \in Gone : t[p] \in BytesOf(g)
        /\ \A g \in Gone : \A byte \in BytesOf(g) : \E p \in DOMAIN t : t[p] = byte
        /\ Ordered(t)
    BY <1>1 DEF FileOK, Coalesced
  <1>7. ASSUME NEW g \in Gone, NEW byte \in BytesOf(g)
        PROVE  Address(byte) < org /\ Address(byte) \in Int
    <2>1. g \in DOMAIN secs
      BY DEF Gone
    <2>2. secs[g].org \in Nat /\ EndAt(g) \in Nat /\ Address(byte) \in secs[g].org .. EndAt(g) - 1
      BY <2>1, ContentsOf, ShapeLaid
    <2>3. EndAt(g) <= org
      BY <1>1, <1>2, BehindGone
    <2> HIDE DEF org
    <2> QED BY <1>4, <2>2, <2>3
  <1> HIDE DEF i, t, c, org, w, l, m, n
  (* A byte of the file is an old one or one of section i. *)
  <1>8. ASSUME NEW p \in DOMAIN w, w[p] # pad
        PROVE  \/ p \in 1 .. l /\ w[p] = t[p] /\ (\E g \in Gone : w[p] \in BytesOf(g))
               \/ p \in m + 1 .. m + n /\ w[p] \in BytesOf(i) /\ Address(w[p]) = org + (p - m) - 1
    <2>1. CASE p \in 1 .. l
      BY <1>5, <1>6, <1>8, <2>1
    <2>2. CASE p \in l + 1 .. m
      BY <1>5, <1>8, <2>2
    <2>3. CASE p \in m + 1 .. m + n
      <3>1. p - m \in 1 .. n /\ p = m + (p - m)
        BY <1>5, <2>3
      <3>2. w[p] = c[p - m]
        BY <1>5, <3>1
      <3>3. c[p - m] \in BytesOf(i) /\ Address(c[p - m]) = org + (p - m) - 1
        BY <1>4, <1>8, <3>1, <3>2 DEF n
      <3> QED BY <2>3, <3>2, <3>3
    <2>4. p \in 1 .. m + n
      BY <1>5
    <2> QED BY <1>5, <2>1, <2>2, <2>3, <2>4
  <1>9. ASSUME NEW p \in DOMAIN w, NEW q \in DOMAIN w, p < q, w[p] # pad, w[q] # pad
        PROVE  Address(w[p]) < Address(w[q])
    <2>1. /\ p \in Int /\ q \in Int /\ org \in Int /\ l \in Int /\ m \in Int /\ l <= m
      BY <1>4, <1>5
    <2>2. CASE q \in 1 .. l /\ w[q] = t[q]
      <3>1. p \in 1 .. l
        BY <1>5, <1>9, <2>1, <2>2
      <3>2. w[p] = t[p] /\ p \in DOMAIN t /\ q \in DOMAIN t
        BY <1>5, <2>2, <3>1
      <3> QED BY <1>6, <1>9, <2>2, <3>2 DEF Ordered
    <2>3. CASE q \in m + 1 .. m + n /\ Address(w[q]) = org + (q - m) - 1
      <3>1. Address(w[q]) >= org /\ Address(w[q]) \in Int
        BY <2>1, <2>3
      <3>2. CASE \E g \in Gone : w[p] \in BytesOf(g)
        <4>1. Address(w[p]) < org /\ Address(w[p]) \in Int
          BY <1>7, <3>2
        <4> QED BY <2>1, <3>1, <4>1
      <3>3. CASE Address(w[p]) = org + (p - m) - 1
        BY <1>9, <2>1, <2>3, <3>3
      <3> QED BY <1>8, <1>9, <3>2, <3>3
    <2> QED BY <1>8, <1>9, <2>2, <2>3
  <1>10. ASSUME NEW p \in DOMAIN w
         PROVE  w[p] = pad \/ \E g \in Gone' : w[p] \in BytesOf(g)
    BY <1>2, <1>8
  <1>11. ASSUME NEW g \in Gone', NEW byte \in BytesOf(g)
         PROVE  \E p \in DOMAIN w : w[p] = byte
    <2>1. CASE g \in Gone
      <3>1. PICK p \in DOMAIN t : t[p] = byte
        BY <1>6, <2>1
      <3>2. p \in DOMAIN w /\ w[p] = byte
        BY <1>5, <3>1
      <3> QED BY <3>2
    <2>2. CASE g = i
      <3> DEFINE q == Address(byte) - org + 1
      <3>1. Address(byte) \in org .. EndAt(i) - 1 /\ c[q] = byte
        BY <1>4, <2>2
      <3>2. EndAt(i) \in Nat
        BY <1>2, ShapeLaid
      <3>3. q \in 1 .. n
        BY <1>4, <3>1, <3>2 DEF n
      <3> HIDE DEF q
      <3>4. m + q \in DOMAIN w /\ w[m + q] = byte
        BY <1>5, <3>1, <3>3
      <3> QED BY <3>4
    <2> QED BY <1>2, <2>1, <2>2
  <1>12. /\ \A g : (BytesOf(g))' = BytesOf(g)
         /\ \A bytes : (Ordered(bytes))' <=> Ordered(bytes)
    BY <1>1, Unmoved
  <1>13. Ordered(w)
    BY <1>9 DEF Ordered
  <1>14. file'[1].bytes = w
    BY DEF w
  <1>15. /\ \A p \in DOMAIN file'[1].bytes :
               \/ file'[1].bytes[p] = pad
               \/ \E g \in Gone' : file'[1].bytes[p] \in (BytesOf(g))'
         /\ \A g \in Gone' : \A byte \in (BytesOf(g))' :
               \E p \in DOMAIN file'[1].bytes : file'[1].bytes[p] = byte
         /\ (Ordered(file[1].bytes))'
    <2>1. (Ordered(file[1].bytes))'
      BY <1>1, <1>13, <1>14 DEF Ordered, Address
    <2> QED BY <1>10, <1>11, <1>12, <1>14, <2>1
  <1> QED BY <1>15 DEF Coalesced

LEMMA SegmentsWrite ==
    ASSUME Shape, Order, FileOK, Write, binfmt \in Segmented
    PROVE  Segments'
  <1> DEFINE i == Head(seclist)
             seg == [addr |-> secs[i].org, extent |-> Extent(secs[i]),
                     bytes |-> Contents(i)]
             n == Len(file)
  <1>1. /\ phase = "write" /\ Queue /\ Writing /\ secs' = secs /\ labels' = labels
        /\ phase' = phase /\ binfmt' = binfmt /\ file' = Append(file, seg)
    BY DEF Write, Order, Writing
  <1>2. /\ i \in DOMAIN secs /\ i \in Left /\ i \notin Gone /\ Gone' = Gone \cup {i}
    BY <1>1, NextSection
  <1>3. Trailer = 0 /\ Trailer' = 0
    BY <1>1 DEF Trailer
  <1>4. /\ file \in Seq(SegmentType) /\ n \in Nat /\ Headers = 1 .. n
        /\ \A s \in 1 .. n : \E g \in Gone : SegmentOf(file[s], g)
        /\ \A g \in Gone : \E s \in 1 .. n : SegmentOf(file[s], g)
        /\ Disjoint => \A s, t \in 1 .. n : s < t => file[s].addr < file[t].addr
    <2>1. /\ file \in Seq(SegmentType)
          /\ \A s \in Headers : \E g \in Gone : SegmentOf(file[s], g)
          /\ \A g \in Gone : \E s \in Headers : SegmentOf(file[s], g)
          /\ Disjoint => \A s, t \in Headers : s < t => file[s].addr < file[t].addr
      BY <1>1 DEF FileOK, Segments
    <2>2. n \in Nat /\ Headers = 1 .. n
      BY <1>3, <2>1 DEF Headers
    <2> QED BY <2>1, <2>2
  <1>5. /\ Contents(i) \in Seq(Out) /\ Len(Contents(i)) = EndAt(i) - secs[i].org
        /\ \A byte \in BytesOf(i) : Contents(i)[Address(byte) - secs[i].org + 1] = byte
        /\ secs[i].org \in Nat /\ secs[i].pc \in Nat
    BY <1>2, ContentsOf, ShapeLaid
  <1>6. seg \in SegmentType /\ SegmentOf(seg, i)
    <2>1. Extent(secs[i]) \in Int
      BY <1>5 DEF Extent
    <2> QED BY <1>5, <2>1 DEF SegmentType, SegmentOf
  <1>7. ASSUME Disjoint, NEW s \in 1 .. n PROVE file[s].addr < seg.addr
    <2>1. PICK g \in Gone : SegmentOf(file[s], g)
      BY <1>4
    <2>2. g \in DOMAIN secs /\ g # i /\ secs[g].org <= secs[i].org
      BY <1>1, <1>2 DEF Gone, Queue
    <2>3. secs[g].org \in Nat /\ secs[g].org # secs[i].org
      BY <1>2, <1>5, <1>7, <2>2, ShapeLaid DEF Disjoint, Below
    <2> QED BY <1>5, <2>1, <2>2, <2>3 DEF SegmentOf
  <1> HIDE DEF seg, i, n
  <1>8. /\ file' \in Seq(SegmentType) /\ Headers' = 1 .. n + 1
        /\ \A s \in 1 .. n : file'[s] = file[s]
        /\ file'[n + 1] = seg
    <2>1. /\ file' \in Seq(SegmentType) /\ Len(file') = n + 1
          /\ \A s \in 1 .. n : file'[s] = file[s]
          /\ file'[n + 1] = seg
      BY <1>1, <1>4, <1>6 DEF n
    <2>2. Headers' = 1 .. n + 1
      BY <1>3, <1>4, <2>1 DEF Headers
    <2> QED BY <2>1, <2>2
  <1>9. n + 1 \in 1 .. n + 1 /\ \A s \in 1 .. n + 1 : s \in 1 .. n \/ s = n + 1
    BY <1>4
  <1>10. \A s \in Headers' : \E g \in Gone' : SegmentOf(file'[s], g)
    BY <1>2, <1>4, <1>6, <1>8, <1>9
  <1>11. \A g \in Gone' : \E s \in Headers' : SegmentOf(file'[s], g)
    <2> SUFFICES ASSUME NEW g \in Gone'
                 PROVE  \E s \in Headers' : SegmentOf(file'[s], g)
      OBVIOUS
    <2>1. CASE g \in Gone
      <3>1. PICK s \in 1 .. n : SegmentOf(file[s], g)
        BY <1>4, <2>1
      <3>2. s \in Headers' /\ file'[s] = file[s]
        BY <1>4, <1>8
      <3> QED BY <3>1, <3>2
    <2>2. CASE g = i
      BY <1>6, <1>8, <1>9, <2>2
    <2> QED BY <1>2, <2>1, <2>2
  <1>12. \A s, g : (SegmentOf(file[s], g))' <=> SegmentOf(file'[s], g)
    BY <1>1 DEF SegmentOf, BytesOf, Atom, EndAt, Address, Extent
  <1>13. (\A s \in Headers : \E g \in Gone : SegmentOf(file[s], g))'
    BY <1>10, <1>12
  <1>14. (\A g \in Gone : \E s \in Headers : SegmentOf(file[s], g))'
    BY <1>11, <1>12
  <1>15. ASSUME Disjoint, NEW s \in Headers', NEW t \in Headers', s < t
         PROVE  file'[s].addr < file'[t].addr
    <2>1. s \in 1 .. n
      BY <1>4, <1>8, <1>15
    <2>2. CASE t \in 1 .. n
      BY <1>4, <1>8, <1>15, <2>1, <2>2
    <2>3. CASE t = n + 1
      BY <1>7, <1>8, <1>15, <2>1, <2>3
    <2> QED BY <1>8, <1>9, <2>2, <2>3
  <1>16. Disjoint' <=> Disjoint
    BY <1>1, Unmoved
  <1> QED BY <1>3, <1>8, <1>13, <1>14, <1>15, <1>16 DEF Segments

LEMMA FileWrite == ASSUME Shape, Order, FileOK, Write PROVE FileOK'
  <1>1. /\ phase = "write" /\ phase' = phase /\ Queue /\ Writing /\ secs' = secs
        /\ labels' = labels /\ binfmt' = binfmt
        /\ Gone' = Gone \cup {Head(seclist)}
    BY NextSection DEF Write, Order, Writing
  <1>2. Disjoint' <=> Disjoint
    BY <1>1, Unmoved
  <1>3. Single'
    <2> SUFFICES ASSUME binfmt \notin Segmented PROVE Single'
      BY <1>1 DEF Single
    <2>1. /\ file'[1].addr = file[1].addr /\ file'[1].extent = 0
          /\ file' \in Seq(SegmentType) /\ Len(file') = 1
      BY Appended
    <2>2. \A i \in DOMAIN secs : file[1].addr <= secs[i].org
      BY <1>1 DEF FileOK, Single
    <2> QED BY <1>1, <2>1, <2>2 DEF Single
  <1>4. RawImage'
    <2>1. CASE binfmt = "raw" /\ Disjoint
      BY <2>1, RawWrite
    <2>2. CASE ~(binfmt = "raw" /\ Disjoint)
      BY <1>1, <1>2, <2>2 DEF RawImage
    <2> QED BY <2>1, <2>2
  <1>5. Coalesced'
    <2>1. CASE binfmt = "coalesced" /\ Disjoint
      BY <2>1, CoalescedWrite
    <2>2. CASE ~(binfmt = "coalesced" /\ Disjoint)
      BY <1>1, <1>2, <2>2 DEF Coalesced
    <2> QED BY <2>1, <2>2
  <1>6. Segments'
    <2>1. CASE binfmt \in Segmented
      BY <2>1, SegmentsWrite
    <2>2. CASE binfmt \notin Segmented
      BY <1>1, <2>2 DEF Segments
    <2> QED BY <2>1, <2>2
  <1> QED BY <1>3, <1>4, <1>5, <1>6 DEF FileOK

LEMMA SegmentsPatch ==
    ASSUME Shape, Order, FileOK, Patch, binfmt \in Segmented
    PROVE  Segments'
  <1> DEFINE end == [addr |-> file[1].addr, extent |-> 0, bytes |-> << >>]
             n == Len(file)
  <1>1. /\ phase = "write" /\ phase' = "done" /\ secs' = secs /\ labels' = labels
        /\ binfmt' = binfmt /\ seclist' = seclist /\ seclist = << >> /\ Writing
        /\ binfmt # "pgz" => file' = file
        /\ binfmt = "pgz" => file' = Append(file, end)
    BY DEF Patch, Order, Writing, Segmented
  <1>2. Gone = DOMAIN secs /\ Gone' = Gone /\ DOMAIN secs # {}
    <2>1. Left = {} /\ Left' = {}
      BY <1>1 DEF Left, Range
    <2>2. DOMAIN secs # {}
      <3>1. Queue
        BY <1>1 DEF Order
      <3> QED BY <1>1, <3>1 DEF Shape
    <2> QED BY <1>1, <2>1, <2>2 DEF Gone
  <1>3. Trailer = 0 /\ Trailer' = IF binfmt = "pgz" THEN 1 ELSE 0
    BY <1>1 DEF Trailer
  <1>4. /\ file \in Seq(SegmentType)
        /\ \A s \in Headers : \E g \in Gone : SegmentOf(file[s], g)
        /\ \A g \in Gone : \E s \in Headers : SegmentOf(file[s], g)
        /\ Disjoint => \A s, t \in Headers : s < t => file[s].addr < file[t].addr
    BY <1>1 DEF FileOK, Segments
  <1>5. n \in Nat /\ Headers = 1 .. n
    BY <1>3, <1>4 DEF Headers
  <1>6. 1 \in 1 .. n
    BY <1>2, <1>4, <1>5
  <1>7. file[1] \in SegmentType
    BY <1>4, <1>6
  <1>8. end \in SegmentType
    BY <1>7 DEF SegmentType
  <1> HIDE DEF end, n
  <1>9. /\ file' \in Seq(SegmentType) /\ Headers' = 1 .. n
        /\ \A s \in 1 .. n : file'[s] = file[s]
        /\ Trailer' = 1 => /\ Len(file') > 0 /\ file'[Len(file')] = end
    <2>1. CASE binfmt = "pgz"
      <3>1. /\ file' \in Seq(SegmentType) /\ Len(file') = n + 1
            /\ \A s \in 1 .. n : file'[s] = file[s]
            /\ file'[n + 1] = end
        BY <1>1, <1>4, <1>8, <2>1 DEF n
      <3>2. Headers' = 1 .. n
        BY <1>3, <1>5, <2>1, <3>1 DEF Headers
      <3> QED BY <1>5, <3>1, <3>2
    <2>2. CASE binfmt # "pgz"
      <3>1. file' = file /\ Trailer' = 0
        BY <1>1, <1>3, <2>2
      <3>2. Headers' = 1 .. n
        BY <1>5, <3>1 DEF Headers, n
      <3> QED BY <1>4, <3>1, <3>2
    <2> QED BY <2>1, <2>2
  <1>10. \A s, g : (SegmentOf(file[s], g))' <=> SegmentOf(file'[s], g)
    BY <1>1 DEF SegmentOf, BytesOf, Atom, EndAt, Address, Extent
  <1>11. (\A s \in Headers : \E g \in Gone : SegmentOf(file[s], g))'
    BY <1>2, <1>4, <1>5, <1>9, <1>10
  <1>12. (\A g \in Gone : \E s \in Headers : SegmentOf(file[s], g))'
    BY <1>2, <1>4, <1>5, <1>9, <1>10
  <1>13. (Disjoint => \A s, t \in Headers : s < t => file[s].addr < file[t].addr)'
    <2>1. Disjoint' <=> Disjoint
      BY <1>1, Unmoved
    <2> QED BY <1>4, <1>5, <1>9, <2>1
  <1>14. end.extent = 0 /\ end.bytes = << >>
    BY DEF end
  <1> QED BY <1>9, <1>11, <1>12, <1>13, <1>14 DEF Segments

LEMMA FilePatch == ASSUME Shape, Order, FileOK, Patch PROVE FileOK'
  <1>1. /\ phase = "write" /\ phase' = "done" /\ secs' = secs /\ labels' = labels
        /\ binfmt' = binfmt /\ pc' = pc /\ seclist' = seclist
        /\ binfmt \notin Segmented => file' = [file EXCEPT ![1].extent = pc - file[1].addr]
        /\ binfmt \in Segmented /\ binfmt # "pgz" => file' = file
        /\ binfmt = "pgz" =>
              file' = Append(file, [addr |-> file[1].addr, extent |-> 0, bytes |-> << >>])
        /\ Writing /\ Queue
    BY DEF Patch, Order, Writing, Segmented
  <1>2. /\ Disjoint' <=> Disjoint
        /\ \A i : (BytesOf(i))' = BytesOf(i)
        /\ \A byte : (Address(byte))' = Address(byte)
        /\ \A seg, i : (SegmentOf(seg, i))' <=> SegmentOf(seg, i)
    BY <1>1, Unmoved
  <1>3. Gone' = Gone
    BY <1>1 DEF Gone, Left
  <1>4. CASE binfmt \in Segmented
    BY <1>1, <1>4, SegmentsPatch DEF FileOK, Single, RawImage, Coalesced, Segmented
  <1>5. CASE binfmt \notin Segmented
    <2>1. /\ file \in Seq(SegmentType) /\ Len(file) = 1
          /\ \A i \in DOMAIN secs : file[1].addr <= secs[i].org
          /\ Gone = {} => file[1].bytes = << >> /\ file[1].addr = secs[seclist[1]].org
      BY <1>1, <1>5 DEF FileOK, Single
    <2>2. file[1] \in SegmentType /\ file = << file[1] >>
      <3>1. 1 \in 1 .. Len(file)
        BY <2>1
      <3> QED BY <2>1, <3>1
    <2>3. pc \in Nat
      BY <1>1, PcType
    <2> DEFINE seg == [file[1] EXCEPT !.extent = pc - file[1].addr]
    <2>4. /\ seg \in SegmentType /\ seg.extent = pc - file[1].addr
          /\ seg.addr = file[1].addr /\ seg.bytes = file[1].bytes
      BY <2>2, <2>3 DEF SegmentType
    <2>5. file' = << seg >>
      BY <1>1, <1>5, <2>2
    <2> HIDE DEF seg
    <2>6. file' \in Seq(SegmentType) /\ Len(file') = 1 /\ file'[1] = seg
      BY <2>4, <2>5
    <2>7. Single'
      BY <1>1, <1>3, <2>1, <2>4, <2>6 DEF Single
    <2>8. RawImage'
      BY <1>1, <1>2, <1>3, <2>4, <2>6 DEF FileOK, RawImage, Writing
    <2>9. Coalesced'
      <3>1. (Ordered(file[1].bytes))' <=> Ordered(file[1].bytes)
        BY <1>1, <2>4, <2>6 DEF Ordered, Address
      <3> QED BY <1>1, <1>2, <1>3, <2>4, <2>6, <3>1 DEF FileOK, Coalesced, Writing
    <2> QED BY <1>1, <1>5, <2>7, <2>8, <2>9 DEF FileOK, Segments
  <1> QED BY <1>4, <1>5

-----------------------------------------------------------------------------
(* The inductive invariant. *)
Inv == Shape /\ Order /\ FileOK /\ (phase = "fatal" => ~Disjoint)

LEMMA InvInit == Init => Inv
  <1> SUFFICES ASSUME Init PROVE Inv
    OBVIOUS
  <1>1. Shape
    BY ShapeInit
  <1>2. phase = "trim" /\ seclist = << >> /\ pc = 0 /\ file = << >>
    BY DEF Init
  <1>3. ~Writing /\ Order
    BY <1>2 DEF Order, Writing
  <1>4. FileOK
    BY <1>3 DEF FileOK, Single, RawImage, Coalesced, Segments
  <1> QED BY <1>1, <1>2, <1>3, <1>4 DEF Inv

LEMMA FileStep == ASSUME Shape, Order, FileOK, [Next]_vars PROVE FileOK'
  <1>1. CASE Trim \/ Join \/ Reject
    <2>1. ~Writing'
      <3>1. CASE Trim
        <4>1. secs' = [i \in DOMAIN secs |-> Trimmed(secs[i])]
              /\ phase' = IF secs = << >> THEN "done" ELSE "join"
          BY <3>1 DEF Trim
        <4>2. secs = << >> => secs' = << >>
          BY <4>1
        <4> QED BY <4>1, <4>2 DEF Writing
      <3>2. CASE Join \/ Reject
        BY <3>2 DEF Join, Reject, Writing
      <3> QED BY <1>1, <3>1, <3>2
    <2> QED BY <2>1 DEF FileOK, Single, RawImage, Coalesced, Segments
  <1>2. CASE Sort
    BY <1>2, FileSort
  <1>3. CASE Write
    BY <1>3, FileWrite
  <1>4. CASE Patch
    BY <1>4, FilePatch
  <1>5. CASE UNCHANGED vars
    <2>1. /\ secs' = secs /\ labels' = labels /\ binfmt' = binfmt /\ pc' = pc
          /\ file' = file /\ phase' = phase /\ seclist' = seclist
      BY <1>5 DEF vars
    <2>2. /\ Disjoint' <=> Disjoint
          /\ \A i : (BytesOf(i))' = BytesOf(i)
          /\ \A byte : (Address(byte))' = Address(byte)
      BY <2>1, Unmoved
    <2>3. Gone' = Gone /\ (Writing' <=> Writing)
      BY <2>1 DEF Gone, Left, Writing
    <2>4. \A s, i : (SegmentOf(file[s], i))' <=> SegmentOf(file[s], i)
      <3>1. \A s, i : (SegmentOf(file[s], i))' <=> SegmentOf(file'[s], i)
        BY <2>1 DEF SegmentOf, BytesOf, Atom, EndAt, Address, Extent
      <3> QED BY <2>1, <3>1
    <2>5. (Ordered(file[1].bytes))' <=> Ordered(file[1].bytes)
      BY <2>1 DEF Ordered, Address
    <2>6. Single'
      BY <2>1, <2>3 DEF FileOK, Single
    <2>7. RawImage'
      BY <2>1, <2>2, <2>3 DEF FileOK, RawImage
    <2>8. Coalesced'
      BY <2>1, <2>2, <2>3, <2>5 DEF FileOK, Coalesced
    <2>9. Segments'
      <3>1. Headers' = Headers /\ Trailer' = Trailer
        BY <2>1 DEF Headers, Trailer
      <3> QED BY <2>1, <2>2, <2>3, <2>4, <3>1 DEF FileOK, Segments
    <2> QED BY <2>6, <2>7, <2>8, <2>9 DEF FileOK
  <1> QED BY <1>1, <1>2, <1>3, <1>4, <1>5 DEF Next

LEMMA InvStep == Inv /\ [Next]_vars => Inv'
  <1> SUFFICES ASSUME Inv, [Next]_vars PROVE Inv'
    OBVIOUS
  <1>1. Shape' /\ Order' /\ FileOK'
    BY ShapeStep, OrderStep, FileStep DEF Inv
  <1>2. (phase = "fatal" => ~Disjoint)'
    <2>1. CASE Reject
      <3>1. secs' = secs /\ Overlap
        BY <2>1 DEF Reject
      <3>2. ~Disjoint
        BY <3>1, NoClash DEF Inv
      <3> QED BY <3>1, <3>2 DEF Disjoint
    <2>2. CASE Trim \/ Join \/ Sort \/ Write \/ Patch
      <3>1. phase' # "fatal"
        BY <2>2 DEF Trim, Join, Sort, Write, Patch
      <3> QED BY <3>1
    <2>3. CASE UNCHANGED vars
      BY <2>3 DEF Inv, vars, Disjoint
    <2> QED BY <2>1, <2>2, <2>3 DEF Next
  <1> QED BY <1>1, <1>2 DEF Inv

LEMMA Invariance == Spec => []Inv
  BY InvInit, InvStep, PTL DEF Spec

(* When the file is complete, all sections have been written. *)
LEMMA AllGone ==
    ASSUME Inv, phase = "done", secs # << >>
    PROVE  /\ Writing /\ Queue /\ Gone = DOMAIN secs /\ Gone # {}
           /\ pc \in Nat /\ Shape
  <1>1. Writing /\ Queue /\ seclist = << >> /\ Shape
    BY DEF Inv, Order, Writing
  <1>2. Gone = DOMAIN secs
    BY <1>1 DEF Gone, Left, Range
  <1>3. DOMAIN secs # {}
    BY <1>1 DEF Shape
  <1> QED BY <1>1, <1>2, <1>3, PcType

(* What the header of a section claims. *)
LEMMA ClaimedOf ==
    ASSUME NEW s \in DOMAIN file, NEW g \in DOMAIN secs, Shape,
           binfmt \in Segmented, SegmentOf(file[s], g)
    PROVE  /\ Claimed(s) = secs[g].pc - secs[g].org /\ Claimed(s) \in Nat
           /\ file[s].addr = secs[g].org /\ secs[g].org \in Nat /\ secs[g].pc \in Nat
  <1>1. /\ secs[g].org \in Nat /\ secs[g].pc \in Nat /\ EndAt(g) \in Nat
        /\ secs[g].org <= EndAt(g) /\ EndAt(g) <= secs[g].pc
    BY ShapeLaid
  <1>2. Claimed(s) = secs[g].pc - secs[g].org /\ file[s].addr = secs[g].org
    BY <1>1 DEF Claimed, SegmentOf, Extent
  <1> QED BY <1>1, <1>2

LEMMA ClaimedType ==
    ASSUME Shape, FileOK, Writing, binfmt \in Segmented, NEW s \in DOMAIN file
    PROVE  file[s].addr \in Nat /\ Claimed(s) \in Nat
  <1>1. /\ file \in Seq(SegmentType)
        /\ \A t \in Headers : \E g \in Gone : SegmentOf(file[t], g)
        /\ Trailer = 1 => Len(file) > 0 /\ file[Len(file)].extent = 0
    BY DEF FileOK, Segments
  <1>2. s \in 1 .. Len(file) /\ Len(file) \in Nat /\ file[s] \in SegmentType
    BY <1>1
  <1>3. CASE s \in Headers
    <2>1. PICK g \in Gone : SegmentOf(file[s], g)
      BY <1>1, <1>3
    <2> QED BY <2>1, ClaimedOf DEF Gone
  <1>4. CASE s \notin Headers
    <2>1. Trailer = 1 /\ s = Len(file) /\ binfmt = "pgz"
      BY <1>2, <1>4 DEF Headers, Trailer
    <2> QED BY <1>1, <1>2, <2>1 DEF Claimed, SegmentType
  <1> QED BY <1>3, <1>4

LEMMA InvTypes == Inv => TypeOK
  <1> SUFFICES ASSUME Inv PROVE TypeOK
    OBVIOUS
  <1>1. Shape /\ Order /\ FileOK
    BY DEF Inv
  <1>2. \A i \in DOMAIN secs :
           /\ secs[i].org \in Nat /\ secs[i].pc \in Nat /\ secs[i].pc >= secs[i].org
           /\ secs[i].last \in 0 .. Len(secs[i].atoms)
    <2> SUFFICES ASSUME NEW i \in DOMAIN secs
                 PROVE  /\ secs[i].org \in Nat /\ secs[i].pc \in Nat
                        /\ secs[i].pc >= secs[i].org
                        /\ secs[i].last \in 0 .. Len(secs[i].atoms)
      OBVIOUS
    <2>1. /\ secs[i].org \in Nat /\ secs[i].pc \in Nat /\ EndAt(i) \in Nat
          /\ secs[i].org <= EndAt(i) /\ EndAt(i) <= secs[i].pc
          /\ secs[i].last \in 0 .. Len(secs[i].atoms)
      BY <1>1, ShapeLaid
    <2> QED BY <2>1
  <1>3. /\ binfmt \in Formats
        /\ phase \in {"trim", "join", "check", "write", "done", "fatal"}
    BY <1>1 DEF Shape
  <1>4. joinsecs \in BOOLEAN
    BY <1>1, Zenon DEF Shape
  <1>5. seclist \in Seq(DOMAIN secs) /\ pc \in Nat
    <2>1. CASE Writing
      BY <1>1, <2>1, PcType DEF Order, Queue
    <2>2. CASE ~Writing
      <3>1. seclist = << >> /\ pc = 0
        BY <1>1, <2>2 DEF Order
      <3> QED BY <3>1
    <2> QED BY <2>1, <2>2
  <1>6. ASSUME NEW s \in DOMAIN file PROVE file[s].addr \in Nat /\ Claimed(s) \in Nat
    <2>1. Writing
      <3>1. SUFFICES ASSUME ~Writing PROVE FALSE
        OBVIOUS
      <3>2. file = << >>
        BY <1>1, <3>1 DEF Order
      <3> QED BY <3>2
    <2>2. CASE binfmt \notin Segmented
      <3>1. /\ file \in Seq(SegmentType) /\ Len(file) = 1
            /\ \A i \in DOMAIN secs : file[1].addr <= secs[i].org
            /\ file[1].extent = IF phase = "done" THEN pc - file[1].addr ELSE 0
        BY <1>1, <2>1, <2>2 DEF FileOK, Single
      <3>2. s = 1 /\ file[s] \in SegmentType
        <4>1. DOMAIN file = 1 .. 1
          BY <3>1
        <4>2. s = 1
          BY <4>1
        <4>3. \A q \in Seq(SegmentType) : Len(q) = 1 => q[1] \in SegmentType
          OBVIOUS
        <4> QED BY <3>1, <4>2, <4>3
      <3>3. file[1].addr \in Nat
        BY <3>2 DEF SegmentType
      <3>4. ASSUME phase = "done" PROVE file[1].extent \in Nat
        <4>1. Gone # {} /\ Queue
          BY <2>1, <3>4, AllGone DEF Writing
        <4>2. PICK g \in Gone : pc = EndAt(g)
          BY <4>1 DEF Queue
        <4>3. g \in DOMAIN secs
          BY DEF Gone
        <4>4. secs[g].org <= EndAt(g) /\ secs[g].org \in Nat /\ EndAt(g) \in Nat
          BY <1>1, <4>3, ShapeLaid
        <4>5. file[1].addr <= secs[g].org
          BY <3>1, <4>3
        <4> QED BY <3>1, <3>2, <3>3, <3>4, <4>2, <4>4, <4>5
      <3>5. ASSUME phase # "done" PROVE file[1].extent \in Nat
        BY <3>1, <3>2, <3>3, <3>5
      <3>6. Claimed(s) = file[1].extent
        BY <2>2, <3>2 DEF Claimed, Segmented
      <3>7. file[s].addr = file[1].addr
        BY <3>2
      <3> QED BY <3>3, <3>4, <3>5, <3>6, <3>7
    <2>3. CASE binfmt \in Segmented
      BY <1>1, <2>1, <2>3, ClaimedType
    <2> QED BY <2>2, <2>3
  <1> QED BY <1>2, <1>3, <1>4, <1>5, <1>6, Zenon DEF TypeOK

(* No address is negative and no length either, in the list of sections    *)
(* and in the file: the subtractions of write_output() and its header      *)
(* formats never wrap around.                                              *)
THEOREM OutputTypes == Spec => []TypeOK
  BY Invariance, InvTypes, PTL

LEMMA InvImage == Inv => ImagePlaced
  <1> SUFFICES ASSUME Inv PROVE ImagePlaced
    OBVIOUS
  <1>1. Disjoint => phase # "fatal"
    BY DEF Inv
  <1>2. ASSUME Written, binfmt = "raw"
        PROVE  /\ file[1].extent = Len(file[1].bytes)
               /\ \A byte \in Bytes :
                     /\ Address(byte) \in file[1].addr .. file[1].addr + file[1].extent - 1
                     /\ file[1].bytes[Address(byte) - file[1].addr + 1] = byte
    <2>1. phase = "done" /\ secs # << >> /\ Disjoint /\ binfmt = "raw"
      BY <1>2 DEF Written
    <2>2. Writing /\ Gone = DOMAIN secs /\ Gone # {} /\ pc \in Nat
      BY <2>1, AllGone
    <2>3. /\ file \in Seq(SegmentType) /\ Len(file) = 1
          /\ file[1].extent = pc - file[1].addr
      BY <2>1, <2>2 DEF Inv, FileOK, Single, Segmented
    <2>4. /\ file[1].addr + Len(file[1].bytes) = pc
          /\ \A g \in DOMAIN secs : \A byte \in BytesOf(g) :
                /\ Address(byte) \in file[1].addr .. pc - 1
                /\ file[1].bytes[Address(byte) - file[1].addr + 1] = byte
      BY <2>1, <2>2 DEF Inv, FileOK, RawImage
    <2>5. file[1].addr \in Nat /\ file[1].bytes \in Seq(Out)
      <3>1. file \in Seq(SegmentType) /\ 1 \in 1 .. Len(file)
        BY <2>3
      <3>2. file[1] \in SegmentType
        BY <3>1
      <3> QED BY <3>2 DEF SegmentType
    <2>6. Len(file[1].bytes) \in Nat
      BY <2>5
    <2>7. file[1].extent = Len(file[1].bytes) /\ pc - 1 = file[1].addr + file[1].extent - 1
      BY <2>2, <2>3, <2>4, <2>5, <2>6
    <2>8. \A byte \in Bytes : \E g \in DOMAIN secs : byte \in BytesOf(g)
      BY BytesOfSections
    <2> QED BY <2>4, <2>7, <2>8
  <1> QED BY <1>1, <1>2 DEF ImagePlaced

(* Sections that can be placed are never rejected by chk_sec_overlap(), and*)
(* a raw file is the memory from its load address on: qsort(), the gaps    *)
(* filled with the difference of two addresses, and the alignment padding  *)
(* of each atom put every byte where the labels say.                       *)
THEOREM RawImageIsPlaced == Spec => []ImagePlaced
  BY Invariance, InvImage, PTL

LEMMA InvSorted == Inv => CoalescedSorted
  <1> SUFFICES ASSUME Inv, Written, binfmt = "coalesced" PROVE CoalescedSorted
    BY DEF CoalescedSorted
  <1>1. phase = "done" /\ secs # << >> /\ Disjoint /\ binfmt = "coalesced"
    BY DEF Written
  <1>2. Writing /\ Gone = DOMAIN secs /\ Shape
    BY <1>1, AllGone
  <1> DEFINE bytes == file[1].bytes
             Placed == {p \in DOMAIN bytes : bytes[p] # pad}
  <1>3. /\ \A p \in DOMAIN bytes :
              bytes[p] = pad \/ \E g \in DOMAIN secs : bytes[p] \in BytesOf(g)
        /\ \A g \in DOMAIN secs : \A byte \in BytesOf(g) :
              \E p \in DOMAIN bytes : bytes[p] = byte
        /\ Ordered(bytes)
    BY <1>1, <1>2 DEF Inv, FileOK, Coalesced
  <1>4. \A g \in DOMAIN secs : \A byte \in BytesOf(g) : byte # pad
    BY <1>2, ContentsOf
  <1>5. \A byte : byte \in Bytes <=> \E g \in DOMAIN secs : byte \in BytesOf(g)
    BY BytesOfSections
  <1> HIDE DEF bytes
  <1>6. {bytes[p] : p \in Placed} = Bytes
    <2>1. ASSUME NEW p \in Placed PROVE bytes[p] \in Bytes
      BY <1>3, <1>5
    <2>2. ASSUME NEW byte \in Bytes PROVE \E p \in Placed : bytes[p] = byte
      <3>1. PICK g \in DOMAIN secs : byte \in BytesOf(g)
        BY <1>5
      <3>2. PICK p \in DOMAIN bytes : bytes[p] = byte
        BY <1>3, <3>1
      <3>3. p \in Placed
        BY <1>4, <3>1, <3>2
      <3> QED BY <3>2, <3>3
    <2> HIDE DEF Placed
    <2> QED BY <2>1, <2>2
  <1>7. \A p, q \in Placed : p < q => Address(bytes[p]) < Address(bytes[q])
    BY <1>3 DEF Ordered
  <1> QED BY <1>6, <1>7 DEF CoalescedSorted, bytes

(* A coalesced file has the bytes of all sections, no other but padding,   *)
(* in the order of their addresses.                                        *)
THEOREM CoalescedIsSorted == Spec => []CoalescedSorted
  BY Invariance, InvSorted, PTL

(* The header of a section, and what it leads to. *)
LEMMA HeaderOf ==
    ASSUME Inv, Written, binfmt \in Segmented, Initialized
    PROVE  /\ \A s \in DOMAIN file : Claimed(s) = Len(file[s].bytes) /\ Claimed(s) \in Nat
           /\ \A s \in DOMAIN file \ Headers : Claimed(s) = 0
           /\ \A s \in Headers : s \in DOMAIN file
                 /\ \E g \in DOMAIN secs : SegmentOf(file[s], g)
           /\ \A g \in DOMAIN secs : \E s \in Headers : SegmentOf(file[s], g)
           /\ \A s, t \in Headers : s < t => file[s].addr < file[t].addr
           /\ \A g \in DOMAIN secs : secs[g].pc = EndAt(g)
           /\ \A s \in DOMAIN file : s \in Nat
           /\ Len(file) \in Nat /\ Shape /\ Disjoint
  <1>1. phase = "done" /\ secs # << >> /\ Disjoint
    BY DEF Written
  <1>2. Writing /\ Gone = DOMAIN secs /\ Shape /\ FileOK
    BY <1>1, AllGone DEF Inv
  <1>3. /\ file \in Seq(SegmentType)
        /\ \A s \in Headers : \E g \in DOMAIN secs : SegmentOf(file[s], g)
        /\ \A g \in DOMAIN secs : \E s \in Headers : SegmentOf(file[s], g)
        /\ \A s, t \in Headers : s < t => file[s].addr < file[t].addr
        /\ Trailer = 1 => /\ Len(file) > 0
                          /\ file[Len(file)].extent = 0 /\ file[Len(file)].bytes = << >>
    BY <1>1, <1>2 DEF FileOK, Segments
  <1>4. ASSUME NEW i \in DOMAIN secs PROVE secs[i].pc = EndAt(i)
    <2>1. secs[i].last \in 0 .. Len(secs[i].atoms) /\ Len(secs[i].atoms) \in Nat
      BY <1>2, ShapeLaid
    <2>2. CASE secs[i].last < Len(secs[i].atoms)
      <3>1. secs[i].last > 0 /\ ~joinsecs
        BY <2>2 DEF Initialized
      <3>2. Filled(secs[i])
        BY <3>1 DEF Filled
      <3> QED BY <1>2, <3>2 DEF Shape, Exact, EndAt
    <2>3. CASE secs[i].last = Len(secs[i].atoms)
      <3>1. Filled(secs[i])
        BY <2>3 DEF Filled
      <3> QED BY <1>2, <3>1 DEF Shape, Exact, EndAt
    <2> QED BY <2>1, <2>2, <2>3
  <1>5. Len(file) \in Nat /\ DOMAIN file = 1 .. Len(file)
    BY <1>3
  <1>6. \A s \in Headers : s \in DOMAIN file
    BY <1>5 DEF Headers, Trailer
  <1>7. ASSUME NEW s \in DOMAIN file \ Headers
        PROVE  Claimed(s) = 0 /\ file[s].bytes = << >>
    <2>1. Trailer = 1 /\ s = Len(file) /\ binfmt = "pgz"
      BY <1>5 DEF Headers, Trailer
    <2> QED BY <1>3, <2>1 DEF Claimed
  <1>8. ASSUME NEW s \in DOMAIN file
        PROVE  Claimed(s) = Len(file[s].bytes) /\ Claimed(s) \in Nat
    <2>1. CASE s \in Headers
      <3>1. PICK g \in DOMAIN secs : SegmentOf(file[s], g)
        BY <1>3, <2>1
      <3>2. Claimed(s) = secs[g].pc - secs[g].org /\ Claimed(s) \in Nat
        BY <1>2, <3>1, ClaimedOf
      <3> QED BY <1>4, <3>1, <3>2 DEF SegmentOf
    <2>2. CASE s \notin Headers
      BY <1>7, <2>2
    <2> QED BY <2>1, <2>2
  <1>9. \A s \in DOMAIN file : s \in Nat
    BY <1>5
  <1> QED BY <1>1, <1>2, <1>3, <1>4, <1>5, <1>6, <1>7, <1>8, <1>9

(* A loader stops early at the header of an empty section, and only there. *)
LEMMA ReachedIff ==
    ASSUME Inv, Written, binfmt \in Segmented, Initialized,
           NEW s \in Headers, NEW g \in DOMAIN secs, SegmentOf(file[s], g)
    PROVE  Reached(s) <=> binfmt = "coco" \/ ~BehindEmpty(g)
  <1>0. /\ \A u \in DOMAIN file : Claimed(u) = Len(file[u].bytes) /\ Claimed(u) \in Nat
        /\ \A u \in Headers : u \in DOMAIN file
              /\ \E h \in DOMAIN secs : SegmentOf(file[u], h)
        /\ \A h \in DOMAIN secs : \E u \in Headers : SegmentOf(file[u], h)
        /\ \A u, w \in Headers : u < w => file[u].addr < file[w].addr
        /\ \A u \in DOMAIN file : u \in Nat
        /\ Len(file) \in Nat /\ Shape /\ Disjoint
    BY HeaderOf
  <1>1. s \in DOMAIN file /\ s \in Nat
    BY <1>0
  <1>2. \A t \in 1 .. s - 1 : t \in Headers /\ t \in DOMAIN file
    <2>1. \A t \in 1 .. s - 1 : t \in Headers
      BY <1>0, <1>1 DEF Headers, Trailer
    <2> QED BY <1>0, <2>1
  <1>3. Shape /\ file[s].addr = secs[g].org /\ secs[g].org \in Nat
    BY <1>0, <1>1, ClaimedOf
  <1>4. CASE binfmt = "coco"
    BY <1>0, <1>2, <1>4 DEF Reached, Ends
  <1>5. CASE binfmt # "coco"
    <2>1. ASSUME ~BehindEmpty(g) PROVE Reached(s)
      <3> SUFFICES ASSUME NEW t \in 1 .. s - 1 PROVE ~Ends(t)
        BY <1>0, <1>2 DEF Reached
      <3>1. t \in Headers /\ t \in DOMAIN file /\ t < s
        BY <1>1, <1>2
      <3>2. PICK h \in DOMAIN secs : SegmentOf(file[t], h)
        BY <1>0, <3>1
      <3>3. file[t].addr < file[s].addr
        BY <1>0, <3>1
      <3>4. /\ Claimed(t) = secs[h].pc - secs[h].org /\ file[t].addr = secs[h].org
            /\ secs[h].org \in Nat /\ secs[h].pc \in Nat
        BY <1>3, <3>1, <3>2, ClaimedOf
      <3>5. secs[h].pc # secs[h].org
        BY <1>3, <2>1, <3>3, <3>4 DEF BehindEmpty
      <3>6. Claimed(t) # 0
        BY <3>4, <3>5
      <3> QED BY <3>6 DEF Ends
    <2>2. ASSUME BehindEmpty(g) PROVE ~Reached(s)
      <3>1. PICK h \in DOMAIN secs : secs[h].org < secs[g].org /\ secs[h].pc = secs[h].org
        BY <2>2 DEF BehindEmpty
      <3>2. PICK t \in Headers : SegmentOf(file[t], h)
        BY <1>0, <3>1
      <3>3. t \in DOMAIN file /\ t \in Nat
        BY <1>0, <3>2
      <3>4. /\ Claimed(t) = secs[h].pc - secs[h].org /\ file[t].addr = secs[h].org
            /\ secs[h].org \in Nat /\ secs[h].pc \in Nat
        BY <1>3, <3>2, <3>3, ClaimedOf
      <3>5. Ends(t)
        <4>1. Claimed(t) = 0
          BY <3>1, <3>4
        <4>2. binfmt \in {"pgz", "atari"}
          BY <1>5 DEF Segmented
        <4> QED BY <4>1, <4>2 DEF Ends
      <3>6. t < s
        <4>1. file[t].addr < file[s].addr
          BY <1>3, <3>1, <3>4
        <4>2. s < t => file[s].addr < file[t].addr
          BY <1>0, <3>2
        <4>3. file[t].addr \in Nat /\ file[s].addr \in Nat
          BY <1>3, <3>4
        <4> QED BY <1>1, <3>3, <4>1, <4>2, <4>3
      <3>7. t \in 1 .. s - 1
        BY <1>1, <3>2, <3>3, <3>6 DEF Headers
      <3> QED BY <3>5, <3>7 DEF Reached
    <2> QED BY <1>5, <2>1, <2>2
  <1> QED BY <1>4, <1>5

LEMMA InvSegments == Inv => SegmentsLoad
  <1> SUFFICES ASSUME Inv, Written, binfmt \in Segmented, Initialized PROVE SegmentsLoad
    BY DEF SegmentsLoad
  <1>0. /\ \A u \in DOMAIN file : Claimed(u) = Len(file[u].bytes) /\ Claimed(u) \in Nat
        /\ \A u \in DOMAIN file \ Headers : Claimed(u) = 0
        /\ \A u \in Headers : u \in DOMAIN file
              /\ \E h \in DOMAIN secs : SegmentOf(file[u], h)
        /\ \A h \in DOMAIN secs : \E u \in Headers : SegmentOf(file[u], h)
        /\ \A h \in DOMAIN secs : secs[h].pc = EndAt(h)
        /\ Shape /\ Disjoint
    BY HeaderOf
  <1>1. Shape /\ Disjoint
    BY <1>0
  <1>2. ASSUME NEW byte \in Bytes
        PROVE  Loads(byte, Address(byte)) <=> binfmt = "coco" \/ ~BehindEmpty(byte[1])
    <2>1. PICK g \in DOMAIN secs : byte \in BytesOf(g)
      BY BytesOfSections
    <2> DEFINE x == Address(byte)
    <2>2. byte[1] = g
      BY <1>1, <2>1, BytesOfSection
    <2>3. /\ secs[g].org \in Nat /\ secs[g].pc \in Nat /\ EndAt(g) \in Nat
          /\ x \in secs[g].org .. EndAt(g) - 1 /\ x \in Int
          /\ secs[g].pc = EndAt(g)
      BY <1>0, <2>1, ContentsOf, ShapeLaid
    <2> HIDE DEF x
    <2>4. PICK s \in Headers : SegmentOf(file[s], g)
      BY <1>0
    <2>5. /\ s \in DOMAIN file /\ Claimed(s) = secs[g].pc - secs[g].org
          /\ file[s].addr = secs[g].org
      BY <1>0, <2>4, ClaimedOf
    <2>6. file[s].bytes[x - secs[g].org + 1] = byte
      BY <2>1, <2>4 DEF SegmentOf, x
    <2>7. Reached(s) <=> binfmt = "coco" \/ ~BehindEmpty(g)
      BY <2>4, ReachedIff
    <2>8. ASSUME Reached(s) PROVE Loads(byte, x)
      <3>1. x - file[s].addr + 1 \in 1 .. Claimed(s)
        BY <2>3, <2>5
      <3> QED BY <2>5, <2>6, <2>8, <3>1 DEF Loads
    <2>9. ASSUME Loads(byte, x) PROVE Reached(s)
      <3>1. PICK t \in DOMAIN file : Reached(t) /\ x - file[t].addr + 1 \in 1 .. Claimed(t)
        BY <2>9 DEF Loads
      <3>2. t \in Headers
        <4>1. SUFFICES ASSUME t \notin Headers PROVE FALSE
          OBVIOUS
        <4>2. Claimed(t) = 0
          BY <1>0, <4>1
        <4> QED BY <3>1, <4>2
      <3>3. PICK h \in DOMAIN secs : SegmentOf(file[t], h)
        BY <1>0, <3>2
      <3>4. /\ Claimed(t) = secs[h].pc - secs[h].org /\ file[t].addr = secs[h].org
            /\ secs[h].org \in Nat /\ secs[h].pc \in Nat
        BY <1>1, <3>3, ClaimedOf
      <3>5. secs[h].org <= x /\ x < secs[h].pc
        BY <2>3, <3>1, <3>4
      <3>6. h = g
        <4>1. ~Below(secs[h], secs[g]) /\ ~Below(secs[g], secs[h])
          BY <2>3, <3>4, <3>5 DEF Below
        <4> QED BY <1>1, <4>1 DEF Disjoint
      <3> QED BY <2>7, <3>1, <3>2, <3>3, <3>6, ReachedIff
    <2> QED BY <2>2, <2>7, <2>8, <2>9 DEF x
  <1>3. \A s \in DOMAIN file : Claimed(s) = Len(file[s].bytes)
    BY <1>0
  <1> QED BY <1>2, <1>3 DEF SegmentsLoad

(* Where no uninitialized space is counted but not written, each header    *)
(* leads to the next one, and a loader puts every byte where the labels    *)
(* say, except, in PGZ and Atari COM, those of sections behind an empty    *)
(* one (output_bin.c, lines 191-216): these it never sees.                 *)
THEOREM SegmentsAreLoaded == Spec => []SegmentsLoad
  BY Invariance, InvSegments, PTL
=============================================================================
