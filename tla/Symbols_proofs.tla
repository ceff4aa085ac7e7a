--------------------------- MODULE Symbols_proofs ---------------------------
(***************************************************************************)
(* Proofs about Symbols, for any names, terms and texts: what is written is*)
(* what the text says, and what the text says well is written.             *)
(*                                                                         *)
(* Following links ends where it does whatever it starts with, so that both*)
(* eval_expr and Meaning obey equations (EvalSteps, MeaningSteps) and what *)
(* has no circle has a rank (TableRank, TextRank).  Then the trees that the*)
(* parser makes are compared with the text: without a circle in the text   *)
(* their values are the meanings (ValueMeant), and a circle in the text is *)
(* one in the table (CircleFound).  The invariant IInv says that the table,*)
(* the atoms and the image are those of the text parsed so far.            *)
(***************************************************************************)
EXTENDS Symbols, FiniteSetTheorems, WellFoundedInduction, TLAPS

-----------------------------------------------------------------------------
(* A natural number that has a property has a least one. *)
LEMMA Least ==
    ASSUME NEW T, T \subseteq Nat, T # {}
    PROVE  \E x \in T : \A y \in T : x <= y
  <1>1. PICK x \in T : \A y \in T : ~ (<<y, x>> \in OpToRel(<, Nat))
    BY NatLessThanWellFounded, WFMin
  <1>2. \A y \in T : ~ (y < x)
    BY <1>1 DEF OpToRel
  <1>3. \A y \in T : x <= y
    BY <1>2
  <1> QED BY <1>3

(* A set of statements has a last one. *)
LEMMA Last ==
    ASSUME NEW n \in Nat, NEW S, S \subseteq 1 .. n, S # {}
    PROVE  Max(S) \in S /\ \A j \in S : j <= Max(S)
  <1> DEFINE T == {m \in Nat : \A j \in S : j <= m}
  <1>1. n \in T
    OBVIOUS
  <1>2. PICK m \in T : \A y \in T : m <= y
    <2>1. T \subseteq Nat /\ T # {}
      BY <1>1
    <2> HIDE DEF T
    <2> QED BY <2>1, Least
  <1>3. m \in Nat /\ \A j \in S : j <= m
    OBVIOUS
  <1>4. m \in S
    <2>1. SUFFICES ASSUME m \notin S PROVE FALSE
      OBVIOUS
    <2>2. m > 0
      <3>1. PICK j \in S : j \in 1 .. n
        OBVIOUS
      <3> QED BY <1>3, <3>1
    <2>3. ASSUME NEW j \in S PROVE j <= m - 1
      <3>1. j \in Nat /\ j # m /\ j <= m
        BY <1>3, <2>1
      <3> QED BY <1>3, <3>1
    <2>4. m - 1 \in T
      BY <1>3, <2>2, <2>3
    <2> QED BY <1>2, <1>3, <2>4
  <1>5. \A j \in S : m >= j
    BY <1>3
  <1> HIDE DEF T
  <1>6. \A x \in S : (\A j \in S : x >= j) => x = m
    BY <1>4, <1>5
  <1>7. Max(S) \in S /\ \A j \in S : Max(S) >= j
    BY <1>4, <1>5 DEF Max
  <1> QED BY <1>7

-----------------------------------------------------------------------------
(* Following links.  Both eval_expr and Meaning go from a value v to G[v]  *)
(* until where they are, place[v], is no longer in the finite set Go; N steps *)
(* are enough when Go has no more than N elements.                         *)
Walk(w, N, V, v, G) ==
    /\ w \in [0 .. N -> V]
    /\ w[0] = v
    /\ \A k \in 1 .. N : w[k] = G[w[k - 1]]

LEMMA WalkExists ==
    ASSUME NEW N \in Nat, NEW V, NEW v \in V, NEW G \in [V -> V]
    PROVE  \E w : Walk(w, N, V, v, G)
  <1> DEFINE Upto(m) == \E w : Walk(w, m, V, v, G)
             T == {m \in Nat : ~Upto(m)}
  <1>1. SUFFICES ASSUME T # {} PROVE FALSE
    <2>1. T = {} => Upto(N)
      OBVIOUS
    <2> QED BY <2>1
  <1>2. PICK m \in T : \A y \in T : m <= y
    <2>1. T \subseteq Nat
      OBVIOUS
    <2> HIDE DEF T
    <2> QED BY <1>1, <2>1, Least
  <1>3. m \in Nat /\ ~Upto(m)
    OBVIOUS
  <1>4. CASE m = 0
    <2> DEFINE g == [x \in 0 .. 0 |-> v]
    <2>1. g \in [0 .. 0 -> V] /\ g[0] = v
      OBVIOUS
    <2> HIDE DEF g
    <2>2. Walk(g, 0, V, v, G)
      BY <2>1 DEF Walk
    <2> QED BY <1>3, <1>4, <2>2
  <1>5. CASE m > 0
    <2>1. m - 1 \in Nat /\ ~(m <= m - 1)
      BY <1>3, <1>5
    <2>2. PICK f : Walk(f, m - 1, V, v, G)
      BY <1>2, <2>1
    <2> HIDE DEF T
    <2>3. f \in [0 .. m - 1 -> V] /\ f[0] = v /\ \A k \in 1 .. m - 1 : f[k] = G[f[k - 1]]
      BY <2>2 DEF Walk
    <2> DEFINE g == [k \in 0 .. m |-> IF k = m THEN G[f[m - 1]] ELSE f[k]]
    <2>4. f[m - 1] \in V /\ G[f[m - 1]] \in V
      BY <1>3, <1>5, <2>3
    <2>5. \A k \in 0 .. m - 1 : g[k] = f[k] /\ g[k] \in V
      BY <1>3, <2>3
    <2>6. g[m] = G[f[m - 1]] /\ g \in [0 .. m -> V]
      <3>1. ASSUME NEW k \in 0 .. m PROVE g[k] \in V
        <4>1. CASE k = m
          BY <2>4, <4>1
        <4>2. CASE k # m
          <5>1. k \in 0 .. m - 1
            BY <1>3, <4>2
          <5> HIDE DEF g
          <5> QED BY <2>5, <5>1
        <4> QED BY <4>1, <4>2
      <3> QED BY <1>3, <3>1
    <2> HIDE DEF g
    <2>7. ASSUME NEW k \in 1 .. m PROVE g[k] = G[g[k - 1]]
      <3>1. k - 1 \in 0 .. m - 1 /\ g[k - 1] = f[k - 1]
        BY <1>3, <2>5
      <3>2. CASE k = m
        BY <2>6, <3>1, <3>2
      <3>3. CASE k # m
        <4>1. k \in 1 .. m - 1 /\ k \in 0 .. m - 1
          BY <1>3, <3>3
        <4> QED BY <2>3, <2>5, <3>1, <4>1
      <3> QED BY <3>2, <3>3
    <2>8. g[0] = v
      BY <1>3, <1>5, <2>3, <2>5
    <2>9. Walk(g, m, V, v, G)
      BY <2>6, <2>7, <2>8 DEF Walk
    <2> QED BY <1>3, <2>9
  <1> QED BY <1>3, <1>4, <1>5

(* What commutes with the links commutes with a walk. *)
LEMMA WalkShift ==
    ASSUME NEW N \in Nat, NEW V, NEW v \in V, NEW G \in [V -> V], NEW w, NEW x,
           NEW shift \in [V -> V], \A a \in V : G[shift[a]] = shift[G[a]],
           Walk(w, N, V, v, G), Walk(x, N, V, shift[v], G)
    PROVE  \A k \in 0 .. N : x[k] = shift[w[k]]
  <1> DEFINE T == {k \in 0 .. N : x[k] # shift[w[k]]}
  <1>1. SUFFICES ASSUME T # {} PROVE FALSE
    BY <1>1
  <1>2. PICK k \in T : \A y \in T : k <= y
    <2>1. T \subseteq Nat
      OBVIOUS
    <2> HIDE DEF T
    <2> QED BY <1>1, <2>1, Least
  <1>3. k \in 0 .. N /\ x[k] # shift[w[k]]
    OBVIOUS
  <1>4. k # 0
    BY <1>3 DEF Walk
  <1>5. k \in 1 .. N /\ k - 1 \in 0 .. N /\ ~(k <= k - 1)
    BY <1>3, <1>4
  <1>6. x[k - 1] = shift[w[k - 1]]
    BY <1>2, <1>5
  <1>7. w[k - 1] \in V /\ w[k] = G[w[k - 1]] /\ x[k] = G[x[k - 1]]
    BY <1>5 DEF Walk
  <1> QED BY <1>3, <1>6, <1>7

(* The walk from the next value is one step ahead. *)
LEMMA WalkAhead ==
    ASSUME NEW N \in Nat, NEW V, NEW v \in V, NEW G \in [V -> V], NEW w, NEW x,
           Walk(w, N, V, v, G), Walk(x, N, V, G[v], G)
    PROVE  \A k \in 0 .. N : x[k] = G[w[k]]
  BY WalkShift

(* What the links are like: where one leads depends on the place only, and *)
(* no link leaves a place outside Go.                                      *)
Links(N, V, G, place, Go) ==
    /\ N \in Nat /\ G \in [V -> V]
    /\ IsFiniteSet(Go) /\ Cardinality(Go) <= N
    /\ \A v \in V : place[v] \notin Go => G[v] = v
    /\ \A u \in V, v \in V : place[u] = place[v] => place[G[u]] = place[G[v]]

(* Once outside Go, a walk stays where it is. *)
LEMMA WalkStays ==
    ASSUME NEW N, NEW V, NEW G, NEW place, NEW Go, Links(N, V, G, place, Go),
           NEW v \in V, NEW w, Walk(w, N, V, v, G), NEW k \in 0 .. N, place[w[k]] \notin Go
    PROVE  \A m \in k .. N : w[m] = w[k]
  <1> DEFINE T == {m \in k .. N : w[m] # w[k]}
  <1>1. SUFFICES ASSUME T # {} PROVE FALSE
    BY <1>1
  <1>n. N \in Nat /\ k \in Nat /\ k <= N
    BY DEF Links
  <1>2. PICK m \in T : \A y \in T : m <= y
    <2>1. T \subseteq Nat
      BY <1>n
    <2> HIDE DEF T
    <2> QED BY <1>1, <2>1, Least
  <1>3. m \in k .. N /\ w[m] # w[k]
    OBVIOUS
  <1>4. m # k
    BY <1>3
  <1>5. m - 1 \in k .. N /\ ~(m <= m - 1) /\ m \in 1 .. N
    BY <1>n, <1>3, <1>4
  <1>6. w[m - 1] = w[k]
    BY <1>2, <1>5
  <1>7. w[m] = G[w[m - 1]] /\ w[k] \in V
    BY <1>n, <1>5 DEF Walk
  <1> QED BY <1>3, <1>6, <1>7 DEF Links

(* A walk that is still in Go after N steps goes round and never leaves it.*)
LEMMA WalkGoesRound ==
    ASSUME NEW N, NEW V, NEW G, NEW place, NEW Go, Links(N, V, G, place, Go),
           NEW v \in V, NEW w, Walk(w, N, V, v, G), place[w[N]] \in Go
    PROVE  place[G[w[N]]] \in Go
  <1> DEFINE where == [k \in 0 .. N |-> place[w[k]]]
  <1>1. N \in Nat /\ w \in [0 .. N -> V]
    BY DEF Links, Walk
  <1>2. \A k \in 0 .. N : place[w[k]] \in Go
    <2>1. ASSUME NEW k \in 0 .. N, place[w[k]] \notin Go PROVE FALSE
      <3>1. \A m \in k .. N : w[m] = w[k]
        BY <2>1, WalkStays
      <3>2. N \in k .. N
        BY <1>1
      <3> QED BY <2>1, <3>1, <3>2
    <2> QED BY <2>1
  <1>3. PICK a \in 0 .. N, b \in 0 .. N : a < b /\ place[w[a]] = place[w[b]]
    <2>1. where \in [0 .. N -> Go]
      BY <1>2
    <2>2. IsFiniteSet(0 .. N) /\ Cardinality(0 .. N) = N + 1
      BY <1>1, FS_Interval
    <2>3. IsFiniteSet(Go) /\ Cardinality(Go) \in Nat /\ Cardinality(Go) < N + 1
      BY <1>1, FS_CardinalityType DEF Links
    <2>4. PICK x \in 0 .. N, y \in 0 .. N : x # y /\ where[x] = where[y]
      <3> HIDE DEF where
      <3> QED BY <2>1, <2>2, <2>3, FS_PigeonHole
    <2>5. place[w[x]] = place[w[y]] /\ (x < y \/ y < x)
      BY <1>1, <2>4
    <2> QED BY <2>4, <2>5
  <1>n. a \in Nat /\ b \in Nat /\ a < b /\ b <= N
    BY <1>1, <1>3
  <1> DEFINE T == {m \in 0 .. N - b : place[w[a + m]] # place[w[b + m]]}
  <1>4. \A m \in 0 .. N - b : place[w[a + m]] = place[w[b + m]]
    <2>1. SUFFICES ASSUME T # {} PROVE FALSE
      BY <2>1
    <2>2. PICK m \in T : \A y \in T : m <= y
      <3>1. T \subseteq Nat
        OBVIOUS
      <3> HIDE DEF T
      <3> QED BY <2>1, <3>1, Least
    <2>3. m \in 0 .. N - b /\ place[w[a + m]] # place[w[b + m]]
      OBVIOUS
    <2>4. m # 0
      BY <1>3, <1>n, <2>3
    <2>5. m - 1 \in 0 .. N - b /\ ~(m <= m - 1)
      BY <1>1, <1>n, <2>3, <2>4
    <2>6. place[w[a + (m - 1)]] = place[w[b + (m - 1)]]
      BY <2>2, <2>5
    <2>7. /\ a + m \in 1 .. N /\ b + m \in 1 .. N
          /\ (a + m) - 1 = a + (m - 1) /\ (b + m) - 1 = b + (m - 1)
          /\ a + (m - 1) \in 0 .. N /\ b + (m - 1) \in 0 .. N
      BY <1>1, <1>n, <2>3, <2>4
    <2>8. w[a + m] = G[w[a + (m - 1)]] /\ w[b + m] = G[w[b + (m - 1)]]
      BY <2>7 DEF Walk
    <2>9. w[a + (m - 1)] \in V /\ w[b + (m - 1)] \in V
      BY <1>1, <2>7
    <2> QED BY <2>3, <2>6, <2>8, <2>9 DEF Links
  <1>5. place[w[a + (N - b)]] = place[w[N]]
    <2>1. N - b \in 0 .. N - b /\ b + (N - b) = N
      BY <1>1, <1>n
    <2> QED BY <1>4, <2>1
  <1> DEFINE c == a + (N - b)
  <1>6. c \in 0 .. N /\ c + 1 \in 1 .. N /\ (c + 1) - 1 = c /\ c + 1 \in 0 .. N /\ N \in 0 .. N
    BY <1>1, <1>n
  <1>7. place[w[c]] = place[w[N]]
    BY <1>5
  <1> HIDE DEF c, T, where
  <1>8. w[c + 1] = G[w[c]] /\ w[c] \in V /\ w[N] \in V
    BY <1>1, <1>6 DEF Walk
  <1>9. place[G[w[c]]] = place[G[w[N]]]
    BY <1>7, <1>8 DEF Links
  <1> QED BY <1>2, <1>6, <1>8, <1>9

(* So a walk ends where the one from the next value ends, if at all.       *)
LEMMA WalkNext ==
    ASSUME NEW N, NEW V, NEW G, NEW place, NEW Go, Links(N, V, G, place, Go),
           NEW v \in V, NEW w, Walk(w, N, V, v, G), NEW x, Walk(x, N, V, G[v], G)
    PROVE  /\ place[w[N]] \in Go <=> place[x[N]] \in Go
           /\ place[w[N]] \notin Go => x[N] = w[N]
  <1>1. N \in Nat /\ G \in [V -> V] /\ N \in 0 .. N
    BY DEF Links
  <1>2. x[N] = G[w[N]]
    BY <1>1, WalkAhead
  <1>3. w[N] \in V
    BY <1>1 DEF Walk
  <1>4. place[w[N]] \notin Go => x[N] = w[N]
    BY <1>2, <1>3 DEF Links
  <1>5. place[w[N]] \in Go => place[x[N]] \in Go
    BY <1>2, WalkGoesRound
  <1> QED BY <1>4, <1>5

(* Walks that end give the places they pass a rank that every link lowers. *)
LEMMA WalkRank ==
    ASSUME NEW N, NEW V, NEW G, NEW place, NEW Go, Links(N, V, G, place, Go),
           NEW X, place \in [V -> X]
    PROVE  \E r \in [X -> Nat] : \A v \in V : \A w :
              Walk(w, N, V, v, G) /\ place[v] \in Go /\ place[w[N]] \notin Go
                 => r[place[G[v]]] < r[place[v]]
  <1> DEFINE Enough(x, k) == \E v \in V : \E w :
                 Walk(w, N, V, v, G) /\ place[v] = x /\ place[w[k]] \notin Go
             Steps(x) == {k \in 0 .. N : Enough(x, k)}
             r == [x \in X |-> IF Steps(x) = {} THEN 0
                               ELSE CHOOSE k \in Steps(x) : \A y \in Steps(x) : k <= y]
  <1>n. N \in Nat /\ G \in [V -> V]
    BY DEF Links
  <1>1. ASSUME NEW x \in X, Steps(x) # {}
        PROVE  r[x] \in Steps(x) /\ r[x] \in Nat /\ \A y \in Steps(x) : r[x] <= y
    <2> DEFINE S == Steps(x)
    <2>1. S \subseteq Nat /\ S # {}
      <3> HIDE DEF Enough
      <3> QED BY <1>n, <1>1
    <2>2. r[x] = CHOOSE k \in S : \A y \in S : k <= y
      <3> HIDE DEF Steps
      <3> QED BY <1>1
    <2> HIDE DEF S, r, Steps
    <2>3. \E k \in S : \A y \in S : k <= y
      BY <2>1, Least
    <2>4. r[x] \in S /\ \A y \in S : r[x] <= y
      BY <2>2, <2>3
    <2> QED BY <2>1, <2>4 DEF S
  <1>2. \A x \in X : Steps(x) = {} => r[x] = 0
    <2> HIDE DEF Steps
    <2> QED OBVIOUS
  <1>t. r \in [X -> Nat]
    <2>1. r = [x \in X |-> r[x]]
      <3> HIDE DEF Steps
      <3> QED OBVIOUS
    <2> HIDE DEF r, Steps
    <2> QED BY <1>1, <1>2, <2>1
  <1> HIDE DEF r
  <1>3. ASSUME NEW v \in V, NEW w, Walk(w, N, V, v, G), place[v] \in Go,
               place[w[N]] \notin Go
        PROVE  r[place[G[v]]] < r[place[v]]
    <2> DEFINE x == place[v]
               y == place[G[v]]
    <2>1. x \in X /\ y \in X
      BY <1>n
    <2>2. N \in Steps(x)
      <3>1. Enough(x, N)
        BY <1>3
      <3> HIDE DEF Enough, x
      <3> QED BY <1>n, <3>1
    <2> DEFINE m == r[x]
    <2>3. m \in Steps(x)
      <3> HIDE DEF Steps, x
      <3> QED BY <1>1, <2>1, <2>2
    <2> HIDE DEF m
    <2>4. m \in 0 .. N /\ Enough(x, m)
      <3> HIDE DEF Enough, x
      <3> QED BY <2>3
    <2>5a. PICK u \in V : \E z :
               Walk(z, N, V, u, G) /\ place[u] = x /\ place[z[m]] \notin Go
      BY <2>4
    <2>5. PICK z : Walk(z, N, V, u, G) /\ place[u] = x /\ place[z[m]] \notin Go
      BY <2>5a
    <2>6. z \in [0 .. N -> V] /\ z[0] = u /\ \A k \in 1 .. N : z[k] = G[z[k - 1]]
      BY <2>5 DEF Walk
    <2>7. m # 0
      BY <1>3, <2>5, <2>6
    <2>8. m \in 1 .. N /\ m - 1 \in 0 .. N /\ m \in Nat
      BY <1>n, <2>4, <2>7
    <2>9. G[u] \in V
      BY <1>n
    <2>10. PICK q : Walk(q, N, V, G[u], G)
      BY <1>n, <2>9, WalkExists
    <2>11. q[m - 1] = z[m]
      <3>1. \A k \in 0 .. N : q[k] = G[z[k]]
        BY <1>n, <2>5, <2>10, WalkAhead
      <3> QED BY <2>6, <2>8, <3>1
    <2>12. place[G[u]] = y
      BY <2>5 DEF Links
    <2>13. Enough(y, m - 1)
      <3> HIDE DEF x, y
      <3> QED BY <2>5, <2>9, <2>10, <2>11, <2>12
    <2>14. m - 1 \in Steps(y)
      <3> HIDE DEF Enough, y
      <3> QED BY <2>8, <2>13
    <2>15. r[y] \in Nat /\ r[y] <= m - 1
      <3> HIDE DEF Steps, y
      <3> QED BY <1>1, <2>1, <2>14
    <2> HIDE DEF x, y, Steps
    <2>16. r[y] < r[x]
      BY <2>8, <2>15 DEF m
    <2> QED BY <2>16 DEF x, y
  <1> QED BY <1>t, <1>3

-----------------------------------------------------------------------------
(* eval_expr: one step is primary_expr, and the places are the symbols.    *)
TermType == [add : Nat, sym : Names \cup {NoName}]
SymbolType == [type : {"NONE", "IMPORT", "EXPRESSION", "LABSYM"}, expr : TermType,
               equate : BOOLEAN, pc : Nat]
TableOK == symbols \in [Names -> SymbolType]

Expressions == {n \in Names : IsExpression(n)}
Step == [e \in TermType |-> primary_expr(e)]
SymOf == [e \in TermType |-> e.sym]
Offset(s) == IF s \in Names /\ symbols[s].type = "LABSYM" THEN symbols[s].pc ELSE 0
ValueAt(e) == IF IsExpression(e.sym) THEN Recursive ELSE e.add + Offset(e.sym)

LEMMA TreeType ==
    ASSUME TableOK, NEW n \in Names
    PROVE  /\ symbols[n].expr \in TermType /\ symbols[n].expr.add \in Nat
           /\ symbols[n].expr.sym \in Names \cup {NoName}
           /\ symbols[n].pc \in Nat
           /\ symbols[n].type \in {"NONE", "IMPORT", "EXPRESSION", "LABSYM"}
  <1>1. symbols[n] \in SymbolType
    BY DEF TableOK
  <1>2. symbols[n].expr \in TermType /\ symbols[n].pc \in Nat
        /\ symbols[n].type \in {"NONE", "IMPORT", "EXPRESSION", "LABSYM"}
    BY <1>1 DEF SymbolType
  <1> QED BY <1>2 DEF TermType

LEMMA PrimaryType ==
    ASSUME TableOK, NEW t \in TermType
    PROVE  /\ primary_expr(t) \in TermType
           /\ Step[t] = primary_expr(t)
           /\ IsExpression(t.sym) =>
                 primary_expr(t) = [add |-> t.add + symbols[t.sym].expr.add,
                                    sym |-> symbols[t.sym].expr.sym]
           /\ ~IsExpression(t.sym) => primary_expr(t) = t
  <1>1. CASE IsExpression(t.sym)
    <2>1. t.sym \in Names
      BY <1>1 DEF IsExpression
    <2>2. symbols[t.sym].expr.add \in Nat /\ symbols[t.sym].expr.sym \in Names \cup {NoName}
      BY <2>1, TreeType
    <2> QED BY <1>1, <2>2 DEF primary_expr, Step, TermType
  <1>2. CASE ~IsExpression(t.sym)
    BY <1>2 DEF primary_expr, Step
  <1> QED BY <1>1, <1>2

LEMMA TableLinks ==
    ASSUME TableOK
    PROVE  Links(Cardinality(Names), TermType, Step, SymOf, Expressions)
  <1>1. IsFiniteSet(Expressions) /\ Cardinality(Expressions) <= Cardinality(Names)
        /\ Cardinality(Names) \in Nat
    <2>1. Expressions \in SUBSET Names
      BY DEF Expressions
    <2> QED BY <2>1, NameAssumption, FS_Subset, FS_CardinalityType
  <1>2. Step \in [TermType -> TermType]
    BY PrimaryType DEF Step
  <1>3. ASSUME NEW v \in TermType, SymOf[v] \notin Expressions PROVE Step[v] = v
    <2>1. ~IsExpression(v.sym)
      BY <1>3 DEF SymOf, Expressions, IsExpression
    <2> QED BY <2>1, PrimaryType
  <1>4. ASSUME NEW u \in TermType, NEW v \in TermType, SymOf[u] = SymOf[v]
        PROVE  SymOf[Step[u]] = SymOf[Step[v]]
    <2>1. u.sym = v.sym
      BY <1>4 DEF SymOf
    <2>2. SymOf[Step[u]] = primary_expr(u).sym /\ SymOf[Step[v]] = primary_expr(v).sym
      BY PrimaryType DEF SymOf
    <2>3. CASE IsExpression(u.sym)
      BY <2>1, <2>2, <2>3, PrimaryType
    <2>4. CASE ~IsExpression(u.sym)
      BY <2>1, <2>2, <2>4, PrimaryType
    <2> QED BY <2>3, <2>4
  <1> QED BY <1>1, <1>2, <1>3, <1>4 DEF Links

LEMMA EvalIsWalk ==
    ASSUME TableOK, NEW t \in TermType, NEW w,
           Walk(w, Cardinality(Names), TermType, t, Step)
    PROVE  eval_expr(t) = ValueAt(w[Cardinality(Names)])
  <1> DEFINE N == Cardinality(Names)
             F(g) == [k \in 0 .. N |-> IF k = 0 THEN t ELSE primary_expr(g[k - 1])]
             walk == CHOOSE g : g = F(g)
  <1>1. N \in Nat
    BY NameAssumption, FS_CardinalityType
  <1>2. w \in [0 .. N -> TermType] /\ w[0] = t
        /\ \A k \in 1 .. N : w[k - 1] \in TermType /\ w[k] = primary_expr(w[k - 1])
    <2>1. w \in [0 .. N -> TermType] /\ w[0] = t /\ \A k \in 1 .. N : w[k] = Step[w[k - 1]]
      BY DEF Walk
    <2> HIDE DEF N
    <2>2. ASSUME NEW k \in 1 .. N
          PROVE  w[k - 1] \in TermType /\ w[k] = primary_expr(w[k - 1])
      <3>1. k - 1 \in 0 .. N
        BY <1>1
      <3>2. w[k - 1] \in TermType /\ w[k] = Step[w[k - 1]]
        BY <2>1, <3>1
      <3> QED BY <3>2, PrimaryType
    <2> QED BY <2>1, <2>2
  <1>3. w = F(w)
    <2> HIDE DEF N
    <2>1. w = [k \in 0 .. N |-> w[k]]
      BY <1>2
    <2>2. ASSUME NEW k \in 0 .. N
          PROVE  w[k] = IF k = 0 THEN t ELSE primary_expr(w[k - 1])
      BY <1>1, <1>2
    <2> QED BY <2>1, <2>2
  <1>4. walk = F(walk)
    BY <1>3
  <1>5. eval_expr(t) = IF IsExpression(walk[N].sym) THEN Recursive
                       ELSE IF walk[N].sym \in Names /\ symbols[walk[N].sym].type = "LABSYM"
                       THEN walk[N].add + symbols[walk[N].sym].pc
                       ELSE walk[N].add
    BY DEF eval_expr
  <1> HIDE DEF walk, N
  <1>6. walk[0] = t /\ \A k \in 1 .. N : walk[k] = primary_expr(walk[k - 1])
    BY <1>1, <1>4
  <1> HIDE DEF F
  <1> DEFINE T == {k \in 0 .. N : walk[k] # w[k]}
  <1>7. T = {}
    <2>1. SUFFICES ASSUME T # {} PROVE FALSE
      OBVIOUS
    <2>2. PICK k \in T : \A y \in T : k <= y
      <3>1. T \subseteq Nat
        BY <1>1
      <3> HIDE DEF T
      <3> QED BY <2>1, <3>1, Least
    <2>3. k \in 0 .. N /\ walk[k] # w[k] /\ k # 0
      BY <1>2, <1>6
    <2>4. k \in 1 .. N /\ k - 1 \in 0 .. N /\ ~(k <= k - 1)
      BY <1>1, <2>3
    <2>5. walk[k - 1] = w[k - 1]
      BY <2>2, <2>4
    <2> QED BY <1>2, <1>6, <2>3, <2>4, <2>5
  <1>8. walk[N] = w[N] /\ w[N] \in TermType
    BY <1>1, <1>2, <1>7
  <1>9. w[N].add \in Nat /\ w[N].add + 0 = w[N].add
    BY <1>8 DEF TermType
  <1>10. eval_expr(t) = ValueAt(w[N])
    BY <1>5, <1>8, <1>9 DEF ValueAt, Offset
  <1> QED BY <1>10 DEF N

LEMMA ValueType ==
    ASSUME TableOK, NEW e \in TermType
    PROVE  /\ ValueAt(e) \in Nat \cup {Recursive}
           /\ ~IsExpression(e.sym) => ValueAt(e) = e.add + Offset(e.sym) /\ ValueAt(e) # Recursive
           /\ e.add \in Nat /\ Offset(e.sym) \in Nat
  <1>1. e.add \in Nat /\ Offset(e.sym) \in Nat
    BY TreeType DEF Offset, TermType
  <1>2. e.add + Offset(e.sym) \in Nat
    BY <1>1
  <1> HIDE DEF Offset
  <1> QED BY <1>1, <1>2 DEF ValueAt, Recursive

(* What eval_expr computes, as an equation. *)
LEMMA EvalSteps ==
    ASSUME TableOK, NEW t \in TermType
    PROVE  /\ eval_expr(t) \in Nat \cup {Recursive}
           /\ ~IsExpression(t.sym) => /\ eval_expr(t) = t.add + Offset(t.sym)
                                      /\ eval_expr(t) # Recursive
           /\ IsExpression(t.sym) =>
                 LET tree == symbols[t.sym].expr
                 IN  /\ eval_expr(t) = Recursive <=> eval_expr(tree) = Recursive
                     /\ eval_expr(tree) # Recursive => eval_expr(t) = t.add + eval_expr(tree)
  <1> DEFINE N == Cardinality(Names)
  <1>1. Links(N, TermType, Step, SymOf, Expressions) /\ N \in Nat
        /\ Step \in [TermType -> TermType]
    BY TableLinks DEF Links
  <1>s. \A e \in TermType : SymOf[e] \in Expressions <=> IsExpression(e.sym)
    BY DEF SymOf, Expressions, IsExpression
  <1>n. N \in 0 .. N
    BY <1>1
  <1>2. PICK w : Walk(w, N, TermType, t, Step)
    <2> HIDE DEF N
    <2> QED BY <1>1, WalkExists
  <1>3. eval_expr(t) = ValueAt(w[N])
    BY <1>2, EvalIsWalk
  <1> HIDE DEF N
  <1>4. w[N] \in TermType /\ w[0] = t
    BY <1>2, <1>n DEF Walk
  <1>5. ASSUME ~IsExpression(t.sym)
        PROVE  eval_expr(t) = t.add + Offset(t.sym) /\ eval_expr(t) # Recursive
    <2>1. w[N] = t
      <3>1. 0 \in 0 .. N /\ N \in 0 .. N
        BY <1>1
      <3>2. SymOf[w[0]] \notin Expressions
        BY <1>4, <1>5, <1>s
      <3>3. \A m \in 0 .. N : w[m] = w[0]
        BY <1>1, <1>2, <3>1, <3>2, WalkStays
      <3> QED BY <1>4, <3>1, <3>3
    <2> QED BY <1>3, <1>5, <2>1, ValueType
  <1>6. ASSUME IsExpression(t.sym)
        PROVE  LET tree == symbols[t.sym].expr
               IN  /\ eval_expr(t) = Recursive <=> eval_expr(tree) = Recursive
                   /\ eval_expr(tree) # Recursive => eval_expr(t) = t.add + eval_expr(tree)
    <2> DEFINE tree == symbols[t.sym].expr
               add == t.add
               shift == [e \in TermType |-> [add |-> e.add + add, sym |-> e.sym]]
    <2>1. tree \in TermType /\ t.sym \in Names
      BY <1>6, TreeType DEF IsExpression
    <2>2. PICK x : Walk(x, N, TermType, Step[t], Step)
      BY <1>1, WalkExists
    <2>3. PICK y : Walk(y, N, TermType, tree, Step)
      <3> HIDE DEF tree
      <3> QED BY <1>1, <2>1, WalkExists
    <2>4. eval_expr(tree) = ValueAt(y[N])
      <3> HIDE DEF tree
      <3> QED BY <2>1, <2>3, EvalIsWalk DEF N
    <2>t. add \in Nat
      BY DEF TermType
    <2> HIDE DEF add
    <2>5. shift \in [TermType -> TermType]
      BY <2>t DEF TermType
    <2>6. ASSUME NEW a \in TermType PROVE Step[shift[a]] = shift[Step[a]]
      <3>1. shift[a] = [add |-> a.add + add, sym |-> a.sym] /\ shift[a] \in TermType
            /\ a.add \in Nat
        BY <2>5 DEF TermType
      <3>2. Step[a] \in TermType
        BY <1>1
      <3>3. shift[Step[a]] = [add |-> Step[a].add + add, sym |-> Step[a].sym]
        BY <3>2
      <3> HIDE DEF shift
      <3>4. CASE IsExpression(a.sym)
        <4>1. symbols[a.sym].expr.add \in Nat
          BY <3>4, TreeType DEF IsExpression
        <4>2. Step[a] = [add |-> a.add + symbols[a.sym].expr.add,
                         sym |-> symbols[a.sym].expr.sym]
          BY <3>4, PrimaryType
        <4>3. Step[shift[a]] = [add |-> (a.add + add) + symbols[a.sym].expr.add,
                                sym |-> symbols[a.sym].expr.sym]
          BY <3>1, <3>4, PrimaryType
        <4> QED BY <2>t, <3>1, <3>3, <4>1, <4>2, <4>3
      <3>5. CASE ~IsExpression(a.sym)
        BY <3>1, <3>5, PrimaryType
      <3> QED BY <3>4, <3>5
    <2>7. Step[t] = shift[tree]
      <3>1. Step[t] = [add |-> add + tree.add, sym |-> tree.sym]
        BY <1>6, PrimaryType DEF add
      <3>2. tree.add \in Nat
        BY <2>1 DEF TermType
      <3>3. shift[tree] = [add |-> tree.add + add, sym |-> tree.sym]
        BY <2>1
      <3>4. tree.add + add = add + tree.add
        BY <2>t, <3>2
      <3> HIDE DEF tree, shift
      <3> QED BY <3>1, <3>3, <3>4
    <2> HIDE DEF shift, tree
    <2>8. x[N] = shift[y[N]]
      <3>1. \A k \in 0 .. N : x[k] = shift[y[k]]
        <4>1. \A a \in TermType : Step[shift[a]] = shift[Step[a]]
          BY <2>6
        <4>2. Walk(x, N, TermType, shift[tree], Step)
          BY <2>2, <2>7
        <4>3. N \in Nat /\ Step \in [TermType -> TermType] /\ tree \in TermType
          BY <1>1, <2>1
        <4> QED BY SMTT(30), <2>3, <2>5, <4>1, <4>2, <4>3, WalkShift
      <3> QED BY <1>n, <3>1
    <2>9. y[N] \in TermType /\ x[N] \in TermType
      BY <1>n, <2>2, <2>3 DEF Walk
    <2>10. x[N].add = y[N].add + add /\ x[N].sym = y[N].sym /\ y[N].add \in Nat
      BY <2>8, <2>9 DEF shift, TermType
    <2>11. /\ SymOf[w[N]] \in Expressions <=> SymOf[x[N]] \in Expressions
           /\ SymOf[w[N]] \notin Expressions => x[N] = w[N]
      BY <1>1, <1>2, <2>2, WalkNext
    <2>12. /\ IsExpression(w[N].sym) <=> IsExpression(x[N].sym)
           /\ ~IsExpression(w[N].sym) => x[N] = w[N]
      BY <1>4, <1>s, <2>9, <2>11
    <2>13. CASE IsExpression(y[N].sym)
      <3>1. eval_expr(tree) = Recursive /\ eval_expr(t) = Recursive
        BY <1>3, <2>4, <2>10, <2>12, <2>13 DEF ValueAt
      <3> QED BY <3>1 DEF tree
    <2>14. CASE ~IsExpression(y[N].sym)
      <3>1. x[N] = w[N] /\ ~IsExpression(x[N].sym)
        BY <2>10, <2>12, <2>14
      <3>2. /\ eval_expr(tree) = y[N].add + Offset(y[N].sym) /\ eval_expr(tree) # Recursive
            /\ Offset(y[N].sym) \in Nat
        BY <2>4, <2>9, <2>14, ValueType
      <3>3. eval_expr(t) = x[N].add + Offset(x[N].sym) /\ eval_expr(t) # Recursive
        BY <1>3, <2>9, <3>1, ValueType
      <3>4. eval_expr(t) = add + eval_expr(tree)
        BY <2>t, <2>10, <3>2, <3>3
      <3> QED BY <3>2, <3>3, <3>4 DEF tree, add
    <2> QED BY <2>13, <2>14
  <1>7. eval_expr(t) \in Nat \cup {Recursive}
    BY <1>3, <1>4, ValueType
  <1> QED BY <1>5, <1>6, <1>7

(* A table without a circle ranks its names. *)
LEMMA TableRank ==
    ASSUME TableOK, \A n \in Expressions : eval_expr(symbols[n].expr) # Recursive
    PROVE  \E r \in [Names \cup {NoName} -> Nat] :
              \A n \in Expressions : r[symbols[n].expr.sym] < r[n]
  <1> DEFINE N == Cardinality(Names)
             X == Names \cup {NoName}
  <1>1. Links(N, TermType, Step, SymOf, Expressions) /\ N \in Nat
        /\ Step \in [TermType -> TermType]
    BY TableLinks DEF Links
  <1>2. SymOf \in [TermType -> X]
    BY DEF SymOf, TermType
  <1> HIDE DEF N, X
  <1>3. PICK r \in [X -> Nat] : \A v \in TermType : \A w :
              Walk(w, N, TermType, v, Step) /\ SymOf[v] \in Expressions
                 /\ SymOf[w[N]] \notin Expressions => r[SymOf[Step[v]]] < r[SymOf[v]]
    BY <1>1, <1>2, WalkRank
  <1>4. ASSUME NEW n \in Expressions PROVE r[symbols[n].expr.sym] < r[n]
    <2> DEFINE v == [add |-> 0, sym |-> n]
    <2>1. v \in TermType /\ IsExpression(v.sym) /\ SymOf[v] = n /\ v.sym = n
      BY DEF TermType, Expressions, SymOf
    <2> HIDE DEF v
    <2>2. PICK w : Walk(w, N, TermType, v, Step)
      BY <1>1, <2>1, WalkExists
    <2>3. w[N] \in TermType
      BY <1>1, <2>2 DEF Walk
    <2>4. eval_expr(v) = ValueAt(w[N])
      BY <2>1, <2>2, EvalIsWalk DEF N
    <2>5. eval_expr(v) # Recursive
      BY <2>1, EvalSteps
    <2>6. SymOf[w[N]] \notin Expressions
      BY <2>3, <2>4, <2>5 DEF ValueAt, SymOf, Expressions
    <2>7. SymOf[Step[v]] = symbols[n].expr.sym
      BY <2>1, PrimaryType DEF SymOf
    <2> QED BY <1>3, <2>1, <2>2, <2>6, <2>7
  <1> QED BY <1>3, <1>4 DEF X

-----------------------------------------------------------------------------
(* Meaning: the places are the statements, and a link leads to the one in  *)
(* force.                                                                  *)
StatementType == [op : {"set", "equ", "label", "byte"}, name : Names \cup {NoName},
                  term : TermType]
TextOK ==
    /\ text \in Seq(StatementType)
    /\ \A i \in DOMAIN text : text[i].op # "byte" => text[i].name \in Names

Target(i) == InForce(i, text[i].term.sym)
Closed == \A i \in DOMAIN text : Refers(i) => Target(i) \in DOMAIN text

Referring == {i \in DOMAIN text : Refers(i)}
Place == [add : Nat, from : DOMAIN text]
Follow(u) == IF ~Refers(u.from) THEN u
             ELSE [add |-> u.add + text[u.from].term.add, from |-> Target(u.from)]
Jump == [u \in Place |-> Follow(u)]
FromOf == [u \in Place |-> u.from]
Own(i) == IF text[i].op = "label" THEN Start + BytesBefore(i) ELSE text[i].term.add
Reading(u) == IF Refers(u.from) THEN Recursive ELSE u.add + Own(u.from)

LEMMA StatementFacts ==
    ASSUME TextOK, NEW i \in DOMAIN text
    PROVE  /\ text[i] \in StatementType
           /\ text[i].op \in {"set", "equ", "label", "byte"}
           /\ text[i].name \in Names \cup {NoName}
           /\ text[i].term \in TermType
           /\ text[i].term.add \in Nat /\ text[i].term.sym \in Names \cup {NoName}
           /\ i \in 1 .. Len(text) /\ Len(text) \in Nat /\ DOMAIN text = 1 .. Len(text)
  <1>1. text[i] \in StatementType /\ i \in 1 .. Len(text) /\ Len(text) \in Nat
        /\ DOMAIN text = 1 .. Len(text)
    BY DEF TextOK
  <1>2. text[i].op \in {"set", "equ", "label", "byte"}
        /\ text[i].name \in Names \cup {NoName} /\ text[i].term \in TermType
    BY <1>1 DEF StatementType
  <1> QED BY <1>1, <1>2 DEF TermType

LEMMA CountType ==
    ASSUME NEW i \in Int
    PROVE  BytesBefore(i) \in Nat
  <1>1. {j \in 1 .. i - 1 : text[j].op = "byte"} \in SUBSET (1 .. i - 1)
    OBVIOUS
  <1>2. IsFiniteSet(1 .. i - 1)
    BY FS_Interval
  <1>3. IsFiniteSet({j \in 1 .. i - 1 : text[j].op = "byte"})
    BY <1>1, <1>2, FS_Subset
  <1> QED BY <1>3, FS_CardinalityType DEF BytesBefore

LEMMA OwnType ==
    ASSUME TextOK, NEW i \in DOMAIN text
    PROVE  Own(i) \in Nat
  <1>1. BytesBefore(i) \in Nat /\ text[i].term.add \in Nat /\ Start \in Nat
    BY StatementFacts, CountType, SizeAssumption
  <1> QED BY <1>1 DEF Own

LEMMA FollowType ==
    ASSUME TextOK, Closed, NEW u \in Place
    PROVE  /\ u.from \in DOMAIN text /\ u.add \in Nat
           /\ Follow(u) \in Place /\ Jump[u] = Follow(u)
           /\ Refers(u.from) => Follow(u) = [add |-> u.add + text[u.from].term.add,
                                             from |-> Target(u.from)]
           /\ ~Refers(u.from) => Follow(u) = u
  <1>1. u.from \in DOMAIN text /\ u.add \in Nat
    BY DEF Place
  <1>2. text[u.from].term.add \in Nat
    BY <1>1, StatementFacts
  <1>3. Follow(u) \in Place
    BY <1>1, <1>2 DEF Follow, Place, Closed
  <1> QED BY <1>1, <1>3 DEF Follow, Jump

LEMMA TextLinks ==
    ASSUME TextOK, Closed
    PROVE  Links(Len(text), Place, Jump, FromOf, Referring)
  <1>1. IsFiniteSet(Referring) /\ Cardinality(Referring) <= Len(text) /\ Len(text) \in Nat
    <2>1. Len(text) \in Nat /\ Referring \in SUBSET (1 .. Len(text))
      BY DEF Referring, TextOK
    <2>2. IsFiniteSet(1 .. Len(text)) /\ Cardinality(1 .. Len(text)) = Len(text)
      BY <2>1, FS_Interval
    <2> QED BY <2>1, <2>2, FS_Subset
  <1>2. Jump \in [Place -> Place]
    BY FollowType DEF Jump
  <1>3. ASSUME NEW v \in Place, FromOf[v] \notin Referring PROVE Jump[v] = v
    <2>1. ~Refers(v.from)
      BY <1>3, FollowType DEF FromOf, Referring
    <2> QED BY <2>1, FollowType
  <1>4. ASSUME NEW u \in Place, NEW v \in Place, FromOf[u] = FromOf[v]
        PROVE  FromOf[Jump[u]] = FromOf[Jump[v]]
    <2>1. u.from = v.from
      BY <1>4 DEF FromOf
    <2>2. FromOf[Jump[u]] = Follow(u).from /\ FromOf[Jump[v]] = Follow(v).from
      BY FollowType DEF FromOf
    <2>3. CASE Refers(u.from)
      BY <2>1, <2>2, <2>3, FollowType
    <2>4. CASE ~Refers(u.from)
      BY <2>1, <2>2, <2>4, FollowType
    <2> QED BY <2>3, <2>4
  <1> QED BY <1>1, <1>2, <1>3, <1>4 DEF Links

LEMMA ReadingType ==
    ASSUME TextOK, Closed, NEW u \in Place
    PROVE  /\ Reading(u) \in Nat \cup {Recursive}
           /\ ~Refers(u.from) => Reading(u) = u.add + Own(u.from) /\ Reading(u) # Recursive
           /\ u.add \in Nat /\ Own(u.from) \in Nat
  <1>1. u.add \in Nat /\ Own(u.from) \in Nat
    BY FollowType, OwnType
  <1>2. u.add + Own(u.from) \in Nat
    BY <1>1
  <1> QED BY <1>1, <1>2 DEF Reading, Recursive

LEMMA MeaningIsWalk ==
    ASSUME TextOK, Closed, NEW i \in DOMAIN text, NEW w,
           Walk(w, Len(text), Place, [add |-> 0, from |-> i], Jump)
    PROVE  Meaning(i) = Reading(w[Len(text)])
  <1> DEFINE N == Len(text)
             first == [add |-> 0, from |-> i]
             Next1(u) == IF ~Refers(u.from) THEN u
                         ELSE [add |-> u.add + text[u.from].term.add,
                               from |-> InForce(u.from, text[u.from].term.sym)]
             F(g) == [k \in 0 .. N |-> IF k = 0 THEN first ELSE Next1(g[k - 1])]
             walk == CHOOSE g : g = F(g)
  <1>1. N \in Nat
    BY DEF TextOK
  <1>2. w \in [0 .. N -> Place] /\ w[0] = first
        /\ \A k \in 1 .. N : w[k - 1] \in Place /\ w[k] = Next1(w[k - 1])
    <2>1. w \in [0 .. N -> Place] /\ w[0] = first /\ \A k \in 1 .. N : w[k] = Jump[w[k - 1]]
      BY DEF Walk
    <2> HIDE DEF N
    <2>2. ASSUME NEW k \in 1 .. N
          PROVE  w[k - 1] \in Place /\ w[k] = Next1(w[k - 1])
      <3>1. k - 1 \in 0 .. N
        BY <1>1
      <3>2. w[k - 1] \in Place /\ w[k] = Jump[w[k - 1]]
        BY <2>1, <3>1
      <3>3. w[k] = Follow(w[k - 1])
        BY <3>2, FollowType
      <3> QED BY <3>2, <3>3 DEF Follow, Target
    <2> QED BY <2>1, <2>2
  <1>e. Meaning(i) = IF Refers(walk[N].from) THEN Recursive
                     ELSE IF text[walk[N].from].op = "label"
                     THEN walk[N].add + Start + BytesBefore(walk[N].from)
                     ELSE walk[N].add + text[walk[N].from].term.add
    BY DEF Meaning
  <1> HIDE DEF N, Next1, first
  <1>3. w = F(w)
    <2>1. w = [k \in 0 .. N |-> w[k]]
      BY <1>2
    <2>2. ASSUME NEW k \in 0 .. N
          PROVE  w[k] = IF k = 0 THEN first ELSE Next1(w[k - 1])
      BY <1>1, <1>2
    <2> QED BY <2>1, <2>2
  <1>4. walk = F(walk)
    BY <1>3
  <1> HIDE DEF walk
  <1>6. walk[0] = first /\ \A k \in 1 .. N : walk[k] = Next1(walk[k - 1])
    BY <1>1, <1>4
  <1> HIDE DEF F
  <1> DEFINE T == {k \in 0 .. N : walk[k] # w[k]}
  <1>7. T = {}
    <2>1. SUFFICES ASSUME T # {} PROVE FALSE
      OBVIOUS
    <2>2. PICK k \in T : \A y \in T : k <= y
      <3>1. T \subseteq Nat
        BY <1>1
      <3> HIDE DEF T
      <3> QED BY <2>1, <3>1, Least
    <2>3. k \in 0 .. N /\ walk[k] # w[k] /\ k # 0
      BY <1>2, <1>6
    <2>4. k \in 1 .. N /\ k - 1 \in 0 .. N /\ ~(k <= k - 1)
      BY <1>1, <2>3
    <2>5. walk[k - 1] = w[k - 1]
      BY <2>2, <2>4
    <2> QED BY <1>2, <1>6, <2>3, <2>4, <2>5
  <1>8. walk[N] = w[N] /\ w[N] \in Place
    BY <1>1, <1>2, <1>7
  <1>9. w[N].add \in Nat /\ w[N].from \in DOMAIN text /\ Start \in Nat
        /\ BytesBefore(w[N].from) \in Nat
    <2>1. w[N].add \in Nat /\ w[N].from \in DOMAIN text
      BY <1>8, FollowType
    <2> QED BY <2>1, StatementFacts, CountType, SizeAssumption
  <1>10. Meaning(i) = Reading(w[N])
    BY <1>e, <1>8, <1>9 DEF Reading, Own
  <1> QED BY <1>10 DEF N

(* What Meaning computes, as an equation. *)
LEMMA MeaningSteps ==
    ASSUME TextOK, Closed, NEW i \in DOMAIN text
    PROVE  /\ Meaning(i) \in Nat \cup {Recursive}
           /\ ~Refers(i) => Meaning(i) = Own(i) /\ Meaning(i) # Recursive
           /\ Refers(i) =>
                 /\ Meaning(i) = Recursive <=> Meaning(Target(i)) = Recursive
                 /\ Meaning(Target(i)) # Recursive =>
                       Meaning(i) = text[i].term.add + Meaning(Target(i))
  <1> DEFINE N == Len(text)
             t == [add |-> 0, from |-> i]
  <1>1. Links(N, Place, Jump, FromOf, Referring) /\ N \in Nat
        /\ Jump \in [Place -> Place]
    BY TextLinks DEF Links
  <1>s. \A u \in Place : FromOf[u] \in Referring <=> Refers(u.from)
    BY FollowType DEF FromOf, Referring
  <1>n. N \in 0 .. N
    BY <1>1
  <1>t. t \in Place /\ t.from = i /\ t.add = 0
    BY DEF Place
  <1>2. PICK w : Walk(w, N, Place, t, Jump)
    <2> HIDE DEF N, t
    <2> QED BY <1>1, <1>t, WalkExists
  <1>3. Meaning(i) = Reading(w[N])
    BY <1>2, MeaningIsWalk
  <1> HIDE DEF N, t
  <1>4. w[N] \in Place /\ w[0] = t
    BY <1>2, <1>n DEF Walk
  <1>5. ASSUME ~Refers(i)
        PROVE  Meaning(i) = Own(i) /\ Meaning(i) # Recursive
    <2>1. w[N] = t
      <3>1. 0 \in 0 .. N /\ N \in 0 .. N
        BY <1>1
      <3>2. FromOf[w[0]] \notin Referring
        BY <1>4, <1>5, <1>s, <1>t
      <3>3. \A m \in 0 .. N : w[m] = w[0]
        BY <1>1, <1>2, <1>t, <3>1, <3>2, WalkStays
      <3> QED BY <1>4, <3>1, <3>3
    <2>2. Reading(t) = 0 + Own(i) /\ Reading(t) # Recursive /\ Own(i) \in Nat
      BY <1>5, <1>t, ReadingType
    <2> QED BY <1>3, <2>1, <2>2
  <1>6. ASSUME Refers(i)
        PROVE  /\ Meaning(i) = Recursive <=> Meaning(Target(i)) = Recursive
               /\ Meaning(Target(i)) # Recursive =>
                     Meaning(i) = text[i].term.add + Meaning(Target(i))
    <2> DEFINE j == Target(i)
               next == [add |-> 0, from |-> j]
               add == text[i].term.add
               shift == [u \in Place |-> [add |-> u.add + add, from |-> u.from]]
    <2>1. j \in DOMAIN text /\ next \in Place
      BY <1>6 DEF Closed, Place
    <2>2. PICK x : Walk(x, N, Place, Jump[t], Jump)
      BY <1>1, <1>t, WalkExists
    <2>3. PICK y : Walk(y, N, Place, next, Jump)
      <3> HIDE DEF next
      <3> QED BY <1>1, <2>1, WalkExists
    <2>4. Meaning(j) = Reading(y[N])
      <3> HIDE DEF j
      <3> QED BY <2>1, <2>3, MeaningIsWalk DEF N
    <2>t. add \in Nat
      BY StatementFacts
    <2> HIDE DEF add
    <2>5. shift \in [Place -> Place]
      BY <2>t DEF Place
    <2>6. ASSUME NEW a \in Place PROVE Jump[shift[a]] = shift[Jump[a]]
      <3>1. shift[a] = [add |-> a.add + add, from |-> a.from] /\ shift[a] \in Place
            /\ a.add \in Nat /\ a.from \in DOMAIN text
        BY <2>5 DEF Place
      <3>2. Jump[a] \in Place
        BY <1>1
      <3>3. shift[Jump[a]] = [add |-> Jump[a].add + add, from |-> Jump[a].from]
        BY <3>2
      <3> HIDE DEF shift
      <3>4. CASE Refers(a.from)
        <4>1. text[a.from].term.add \in Nat
          BY <3>1, StatementFacts
        <4>2. Jump[a] = [add |-> a.add + text[a.from].term.add, from |-> Target(a.from)]
          BY <3>4, FollowType
        <4>3. Jump[shift[a]] = [add |-> (a.add + add) + text[a.from].term.add,
                                from |-> Target(a.from)]
          BY <3>1, <3>4, FollowType
        <4> QED BY <2>t, <3>1, <3>3, <4>1, <4>2, <4>3
      <3>5. CASE ~Refers(a.from)
        BY <3>1, <3>5, FollowType
      <3> QED BY <3>4, <3>5
    <2>7. Jump[t] = shift[next]
      <3>1. Jump[t] = [add |-> 0 + add, from |-> j]
        BY <1>6, <1>t, FollowType DEF add
      <3>2. shift[next] = [add |-> 0 + add, from |-> j]
        BY <2>1
      <3> HIDE DEF shift, next, j
      <3> QED BY <3>1, <3>2
    <2> HIDE DEF shift, next
    <2>8. x[N] = shift[y[N]]
      <3>1. \A k \in 0 .. N : x[k] = shift[y[k]]
        <4>1. \A a \in Place : Jump[shift[a]] = shift[Jump[a]]
          BY <2>6
        <4>2. Walk(x, N, Place, shift[next], Jump)
          BY <2>2, <2>7
        <4>3. N \in Nat /\ Jump \in [Place -> Place] /\ next \in Place
          BY <1>1, <2>1
        <4> QED BY SMTT(30), <2>3, <2>5, <4>1, <4>2, <4>3, WalkShift
      <3> QED BY <1>n, <3>1
    <2>9. y[N] \in Place /\ x[N] \in Place
      BY <1>n, <2>2, <2>3 DEF Walk
    <2>10. x[N].add = y[N].add + add /\ x[N].from = y[N].from /\ y[N].add \in Nat
      BY <2>8, <2>9 DEF shift, Place
    <2>11. /\ FromOf[w[N]] \in Referring <=> FromOf[x[N]] \in Referring
           /\ FromOf[w[N]] \notin Referring => x[N] = w[N]
      BY <1>1, <1>2, <1>t, <2>2, WalkNext
    <2>12. /\ Refers(w[N].from) <=> Refers(x[N].from)
           /\ ~Refers(w[N].from) => x[N] = w[N]
      BY <1>4, <1>s, <2>9, <2>11
    <2>13. CASE Refers(y[N].from)
      <3>1. Meaning(j) = Recursive /\ Meaning(i) = Recursive
        BY <1>3, <2>4, <2>10, <2>12, <2>13 DEF Reading
      <3> QED BY <3>1
    <2>14. CASE ~Refers(y[N].from)
      <3>1. x[N] = w[N] /\ ~Refers(x[N].from)
        BY <2>10, <2>12, <2>14
      <3>2. /\ Meaning(j) = y[N].add + Own(y[N].from) /\ Meaning(j) # Recursive
            /\ Own(y[N].from) \in Nat
        BY <2>4, <2>9, <2>14, ReadingType
      <3>3. Meaning(i) = x[N].add + Own(x[N].from) /\ Meaning(i) # Recursive
        BY <1>3, <2>9, <3>1, ReadingType
      <3> HIDE DEF j
      <3>4. Meaning(i) = add + Meaning(j)
        BY <2>t, <2>10, <3>2, <3>3
      <3> QED BY <3>2, <3>3, <3>4 DEF j, add
    <2> QED BY <2>13, <2>14
  <1>7. Meaning(i) \in Nat \cup {Recursive}
    BY <1>3, <1>4, ReadingType
  <1> QED BY <1>5, <1>6, <1>7

(* A text without a circle ranks its statements. *)
LEMMA TextRank ==
    ASSUME TextOK, Closed, \A i \in DOMAIN text : Meaning(i) # Recursive
    PROVE  \E r \in [DOMAIN text -> Nat] :
              \A i \in DOMAIN text : Refers(i) => r[Target(i)] < r[i]
  <1> DEFINE N == Len(text)
             X == DOMAIN text
  <1>1. Links(N, Place, Jump, FromOf, Referring) /\ N \in Nat
        /\ Jump \in [Place -> Place]
    BY TextLinks DEF Links
  <1>2. FromOf \in [Place -> X]
    BY FollowType DEF FromOf
  <1> HIDE DEF N, X
  <1>3. PICK r \in [X -> Nat] : \A v \in Place : \A w :
              Walk(w, N, Place, v, Jump) /\ FromOf[v] \in Referring
                 /\ FromOf[w[N]] \notin Referring => r[FromOf[Jump[v]]] < r[FromOf[v]]
    BY <1>1, <1>2, WalkRank
  <1>4. ASSUME NEW i \in X, Refers(i) PROVE r[Target(i)] < r[i]
    <2> DEFINE v == [add |-> 0, from |-> i]
    <2>1. v \in Place /\ FromOf[v] = i /\ v.from = i /\ i \in Referring
      BY <1>4 DEF Place, Referring, FromOf, X
    <2> HIDE DEF v
    <2>2. PICK w : Walk(w, N, Place, v, Jump)
      BY <1>1, <2>1, WalkExists
    <2>3. w[N] \in Place
      BY <1>1, <2>2 DEF Walk
    <2>4. Meaning(i) = Reading(w[N])
      BY <2>1, <2>2, MeaningIsWalk DEF N, X, v
    <2>5. Meaning(i) # Recursive
      BY DEF X
    <2>6. FromOf[w[N]] \notin Referring
      BY <2>3, <2>4, <2>5 DEF Reading, FromOf, Referring
    <2>7. FromOf[Jump[v]] = Target(i)
      BY <1>4, <2>1, FollowType DEF FromOf
    <2> QED BY <1>3, <2>1, <2>2, <2>6, <2>7
  <1> QED BY <1>3, <1>4 DEF X

-----------------------------------------------------------------------------
(* The trees the parser has made: E[i] is the one of statement i.  A name  *)
(* that was assigned before stands for the tree of the last assignment, and*)
(* what is left of it is folded when it has become a number.               *)
Assigns(n) == {j \in DOMAIN text : text[j].op \in {"set", "equ"} /\ text[j].name = n}
AssignsBefore(i, n) == {j \in Assigns(n) : j < i}
Labels(n) == {j \in DOMAIN text : text[j].op = "label" /\ text[j].name = n}

Copied(E, i) ==
    LET t == text[i].term
        S == AssignsBefore(i, t.sym)
    IN  IF S = {} THEN t
        ELSE [add |-> t.add + E[Max(S)].add, sym |-> E[Max(S)].sym]
Folded(E, i) ==
    LET p == Copied(E, i)
        S == AssignsBefore(i, p.sym)
    IN  IF S # {} /\ E[Max(S)].sym = NoName
        THEN [add |-> p.add + E[Max(S)].add, sym |-> NoName]
        ELSE p
Trees(E) ==
    /\ E \in Seq(TermType) /\ Len(E) = Len(text)
    /\ \A i \in DOMAIN text : text[i].op # "label" => E[i] = Folded(E, i)

(* The parts of Legal, and the only definition of a name that is no variable.*)
WellDefined ==
    \A n \in Names :
        \/ Cardinality(Definitions(n)) = 1
        \/ \A i \in Definitions(n) : text[i].op = "set"
AllDefined ==
    \A i \in DOMAIN text : text[i].term.sym # NoName => Definitions(text[i].term.sym) # {}
NoCircle == \A i \in DOMAIN text : Meaning(i) # Recursive
Def(n) == CHOOSE j \in Definitions(n) : TRUE
Plain(n) == n \in Names /\ ~IsVariable(n) /\ Definitions(n) # {}

Sound == TextOK /\ ~UsedUnset /\ WellDefined /\ AllDefined

LEMMA LegalParts == Legal <=> WellDefined /\ AllDefined /\ NoCircle
  BY DEF Legal, WellDefined, AllDefined, NoCircle

LEMMA OneElement ==
    ASSUME NEW S, IsFiniteSet(S), Cardinality(S) = 1, NEW a \in S, NEW b \in S
    PROVE  a = b
  <1>1. IsFiniteSet(S \ {a}) /\ Cardinality(S \ {a}) = 0
    BY FS_RemoveElement
  <1>2. S \ {a} = {}
    BY <1>1, FS_EmptySet
  <1> QED BY <1>2

LEMMA DefinitionSets ==
    ASSUME TextOK, NEW n
    PROVE  /\ Definitions(n) = Assigns(n) \cup Labels(n)
           /\ Definitions(n) \subseteq 1 .. Len(text) /\ Len(text) \in Nat
           /\ DOMAIN text = 1 .. Len(text)
           /\ IsFiniteSet(Definitions(n))
  <1>1. Len(text) \in Nat /\ DOMAIN text = 1 .. Len(text)
    BY DEF TextOK
  <1>2. Definitions(n) = Assigns(n) \cup Labels(n)
    <2>1. \A i \in DOMAIN text : text[i].op \in {"set", "equ", "label", "byte"}
      BY StatementFacts
    <2> QED BY <2>1 DEF Definitions, Assigns, Labels
  <1>3. Definitions(n) \subseteq 1 .. Len(text)
    BY <1>1 DEF Definitions
  <1>4. IsFiniteSet(1 .. Len(text))
    BY <1>1, FS_Interval
  <1>5. IsFiniteSet(Definitions(n))
    BY <1>3, <1>4, FS_Subset
  <1> QED BY <1>1, <1>2, <1>3, <1>5

LEMMA Definite ==
    ASSUME TextOK, WellDefined, NEW n \in Names
    PROVE  /\ IsVariable(n) => Definitions(n) = Assigns(n)
           /\ ~IsVariable(n) => \A i \in Definitions(n), j \in Definitions(n) : i = j
  <1>1. \A i \in Definitions(n), j \in Definitions(n) :
           Cardinality(Definitions(n)) = 1 => i = j
    BY DefinitionSets, OneElement
  <1>2. ASSUME IsVariable(n) PROVE Definitions(n) = Assigns(n)
    <2>1. PICK i \in Definitions(n) : text[i].op = "set"
      BY <1>2 DEF IsVariable
    <2>2. \A j \in Definitions(n) : text[j].op = "set"
      BY <1>1, <2>1 DEF WellDefined
    <2> QED BY <2>2 DEF Definitions, Assigns
  <1>3. ASSUME ~IsVariable(n), NEW i \in Definitions(n), NEW j \in Definitions(n)
        PROVE  i = j
    <2>1. text[i].op # "set"
      BY <1>3 DEF IsVariable
    <2> QED BY <1>1, <1>3, <2>1 DEF WellDefined
  <1> QED BY <1>2, <1>3

LEMMA PlainDef ==
    ASSUME TextOK, WellDefined, NEW n, Plain(n)
    PROVE  /\ Def(n) \in Definitions(n) /\ \A j \in Definitions(n) : j = Def(n)
           /\ Def(n) \in DOMAIN text
  <1>1. Def(n) \in Definitions(n)
    BY DEF Def, Plain
  <1>2. \A j \in Definitions(n) : j = Def(n)
    BY <1>1, Definite DEF Plain
  <1> QED BY <1>1, <1>2 DEF Definitions

(* What a statement refers to. *)
LEMMA Targets ==
    ASSUME Sound, NEW i \in DOMAIN text, Refers(i)
    PROVE  LET s == text[i].term.sym
           IN  /\ s \in Names /\ Target(i) \in DOMAIN text
               /\ AssignsBefore(i, s) = {} => Plain(s) /\ Target(i) = Def(s)
               /\ AssignsBefore(i, s) # {} =>
                     /\ Target(i) = Max(AssignsBefore(i, s))
                     /\ Target(i) \in AssignsBefore(i, s)
  <1> DEFINE s == text[i].term.sym
             A == AssignsBefore(i, s)
  <1>1. s \in Names /\ Definitions(s) # {}
    BY StatementFacts DEF Refers, AllDefined, Sound
  <1>2. Target(i) = InForce(i, s)
    BY DEF Target
  <1> HIDE DEF s
  <1>3. TextOK /\ WellDefined
    BY DEF Sound
  <1>4. A \subseteq Definitions(s) /\ A \subseteq 1 .. Len(text) /\ Len(text) \in Nat
        /\ A \subseteq DOMAIN text
    BY <1>3, DefinitionSets DEF AssignsBefore
  <1>5. CASE IsVariable(s)
    <2>1. Before(i, s) = A
      BY <1>1, <1>3, <1>5, Definite DEF Before, AssignsBefore
    <2>2. A # {}
      BY <1>1, <1>5, <2>1 DEF Sound, UsedUnset, s
    <2>3. Target(i) = Max(A)
      BY <1>2, <1>5, <2>1 DEF InForce
    <2> HIDE DEF A
    <2>4. Max(A) \in A
      BY <1>4, <2>2, Last
    <2>5. Target(i) \in A /\ Target(i) \in DOMAIN text
      BY <1>4, <2>3, <2>4
    <2> QED BY <1>1, <2>2, <2>3, <2>5 DEF s, A
  <1>6. CASE ~IsVariable(s)
    <2>1. Plain(s) /\ Target(i) = Def(s)
      BY <1>1, <1>2, <1>6 DEF Plain, InForce, Def
    <2>2. Target(i) \in DOMAIN text /\ \A j \in Definitions(s) : j = Target(i)
      BY <1>3, <2>1, PlainDef
    <2>3. A # {} => Target(i) = Max(A) /\ Target(i) \in A
      <3> HIDE DEF A
      <3>1. A # {} => Max(A) \in A
        BY <1>4, Last
      <3> QED BY <1>4, <2>2, <3>1
    <2> QED BY <1>1, <2>1, <2>2, <2>3 DEF s, A
  <1> QED BY <1>5, <1>6

LEMMA SoundIsClosed == Sound => Closed
  BY Targets DEF Closed

(* The statement's own tree against the one of what it refers to. *)
Fold(E, i) ==
    LET p == Copied(E, i)
    IN  \/ E[i] = p
        \/ /\ Plain(p.sym) /\ Def(p.sym) < i /\ text[Def(p.sym)].op # "label"
           /\ E[Def(p.sym)].sym = NoName
           /\ E[i] = [add |-> p.add + E[Def(p.sym)].add, sym |-> NoName]
Copy(E, i) ==
    LET t == text[i].term
        p == Copied(E, i)
        j == Target(i)
    IN  \/ ~Refers(i) /\ p = t /\ t.sym = NoName
        \/ Refers(i) /\ p = t /\ Plain(t.sym) /\ j = Def(t.sym)
        \/ /\ Refers(i) /\ j \in DOMAIN text /\ j < i /\ text[j].op # "label"
           /\ p = [add |-> t.add + E[j].add, sym |-> E[j].sym]

LEMMA CopyCases ==
    ASSUME Sound, NEW E, NEW i \in DOMAIN text, text[i].op # "label"
    PROVE  Copy(E, i)
  <1> DEFINE t == text[i].term
             S == AssignsBefore(i, t.sym)
  <1>1. CASE ~Refers(i)
    <2>1. t.sym = NoName
      BY <1>1 DEF Refers
    <2>2. S = {}
      BY <2>1, NameAssumption DEF AssignsBefore, Assigns, Sound, TextOK
    <2>3. Copied(E, i) = t
      BY <2>2 DEF Copied
    <2> QED BY <1>1, <2>1, <2>3 DEF Copy
  <1>2. CASE Refers(i)
    <2>1. CASE S = {}
      BY <1>2, <2>1, Targets DEF Copy, Copied
    <2>2. CASE S # {}
      <3>1. Target(i) = Max(S) /\ Target(i) \in S
        BY <1>2, <2>2, Targets
      <3>2. Target(i) \in DOMAIN text /\ Target(i) < i /\ text[Target(i)].op # "label"
        BY <3>1 DEF AssignsBefore, Assigns
      <3>3. Copied(E, i) = [add |-> t.add + E[Target(i)].add, sym |-> E[Target(i)].sym]
        BY <2>2, <3>1 DEF Copied
      <3> QED BY <1>2, <3>2, <3>3 DEF Copy
    <2> QED BY <2>1, <2>2
  <1> QED BY <1>1, <1>2

(* What is left in a tree has a definition, and is no variable. *)
LEMMA Residuals ==
    ASSUME Sound, NEW E, Trees(E)
    PROVE  \A i \in DOMAIN text :
              text[i].op # "label" /\ E[i].sym # NoName => Plain(E[i].sym)
  <1> DEFINE Bad(i) == text[i].op # "label" /\ E[i].sym # NoName /\ ~Plain(E[i].sym)
             T == {i \in DOMAIN text : Bad(i)}
  <1>1. SUFFICES ASSUME T # {} PROVE FALSE
    BY <1>1
  <1>2. PICK i \in T : \A y \in T : i <= y
    <2>1. T \subseteq Nat
      BY DEF Sound, TextOK
    <2> HIDE DEF T
    <2> QED BY <1>1, <2>1, Least
  <1>3. i \in DOMAIN text /\ Bad(i)
    OBVIOUS
  <1>4. ASSUME NEW j \in DOMAIN text, j < i, text[j].op # "label", E[j].sym # NoName
        PROVE  Plain(E[j].sym)
    <2>1. i \in Int /\ j \in Int
      BY <1>3 DEF Sound, TextOK
    <2>2. ~(i <= j)
      BY <1>4, <2>1
    <2> QED BY <1>2, <1>4, <2>2
  <1> DEFINE p == Copied(E, i)
  <1>5. E[i] = Folded(E, i)
    BY <1>3 DEF Trees
  <1>6. E[i] = p
    BY <1>3, <1>5 DEF Folded
  <1>7. Copy(E, i)
    BY <1>3, CopyCases
  <1> QED BY <1>3, <1>4, <1>6, <1>7 DEF Copy

LEMMA Derivations ==
    ASSUME Sound, NEW E, Trees(E), NEW i \in DOMAIN text, text[i].op # "label"
    PROVE  Copy(E, i) /\ Fold(E, i)
  <1> DEFINE p == Copied(E, i)
             S == AssignsBefore(i, p.sym)
  <1>1. Copy(E, i)
    BY CopyCases
  <1>2. p.sym # NoName => Plain(p.sym)
    BY <1>1, Residuals DEF Copy
  <1>3. E[i] = Folded(E, i)
    BY DEF Trees
  <1>4. CASE S # {} /\ E[Max(S)].sym = NoName
    <2>1. p.sym \in Names
      BY <1>4 DEF AssignsBefore, Assigns, Sound, TextOK
    <2>2. Plain(p.sym)
      BY <1>2, <2>1, NameAssumption
    <2>3. S \subseteq 1 .. Len(text) /\ Len(text) \in Nat /\ S \subseteq Definitions(p.sym)
      BY DefinitionSets DEF Sound, AssignsBefore
    <2>4. Max(S) \in S
      <3> HIDE DEF S
      <3> QED BY <1>4, <2>3, Last
    <2>5. Max(S) = Def(p.sym)
      BY <2>2, <2>3, <2>4, PlainDef DEF Sound
    <2>6. Max(S) < i /\ text[Max(S)].op # "label"
      BY <2>4 DEF AssignsBefore, Assigns
    <2>7. E[i] = [add |-> p.add + E[Max(S)].add, sym |-> NoName]
      BY <1>3, <1>4 DEF Folded
    <2> QED BY <1>1, <1>4, <2>2, <2>5, <2>6, <2>7 DEF Fold
  <1>5. CASE ~(S # {} /\ E[Max(S)].sym = NoName)
    <2>1. E[i] = p
      BY <1>3, <1>5 DEF Folded
    <2> QED BY <1>1, <2>1 DEF Fold
  <1> QED BY <1>4, <1>5

-----------------------------------------------------------------------------
(* What the trees, the table and the meanings have to do with each other.  *)
Base(s) == IF s = NoName THEN 0 ELSE Meaning(Def(s))

LEMMA TreeFacts ==
    ASSUME Sound, NEW E, Trees(E), NEW i \in DOMAIN text
    PROVE  /\ E[i] \in TermType /\ E[i].add \in Nat /\ E[i].sym \in Names \cup {NoName}
           /\ i \in Nat
  <1>1. i \in 1 .. Len(text) /\ Len(text) \in Nat
    BY DEF Sound, TextOK
  <1>2. E[i] \in TermType
    BY <1>1 DEF Trees
  <1> QED BY <1>1, <1>2 DEF TermType

LEMMA DefFacts ==
    ASSUME Sound, NEW s, Plain(s)
    PROVE  Def(s) \in DOMAIN text /\ Def(s) \in Nat /\ Def(s) \in Definitions(s)
           /\ s # NoName /\ s \in Names
  <1>1. Def(s) \in DOMAIN text /\ Def(s) \in Definitions(s)
    BY PlainDef DEF Sound
  <1> QED BY <1>1, NameAssumption DEF Plain, Sound, TextOK

(* What a statement means is what is left of its tree. *)
LEMMA TreeMeans ==
    ASSUME Sound, NoCircle, NEW E, Trees(E), NEW r \in [DOMAIN text -> Nat],
           \A i \in DOMAIN text : Refers(i) => r[Target(i)] < r[i],
           NEW i \in DOMAIN text, text[i].op # "label"
    PROVE  /\ Meaning(i) = E[i].add + Base(E[i].sym)
           /\ E[i].sym # NoName => r[Def(E[i].sym)] < r[i]
  <1> DEFINE Means(e, k) == /\ Meaning(k) = e.add + Base(e.sym)
                            /\ e.sym # NoName => r[Def(e.sym)] < r[k]
             T == {k \in DOMAIN text : text[k].op # "label" /\ ~Means(E[k], k)}
  <1>1. SUFFICES ASSUME T # {} PROVE FALSE
    BY <1>1
  <1>2. PICK k \in T : \A y \in T : k <= y
    <2>1. T \subseteq Nat
      BY DEF Sound, TextOK
    <2> HIDE DEF T
    <2> QED BY <1>1, <2>1, Least
  <1>3. k \in DOMAIN text /\ text[k].op # "label" /\ ~Means(E[k], k)
    OBVIOUS
  <1>4. ASSUME NEW j \in DOMAIN text, j < k, text[j].op # "label" PROVE Means(E[j], j)
    <2>1. k \in Nat /\ j \in Nat
      BY <1>3, TreeFacts
    <2>2. ~(k <= j)
      BY <1>4, <2>1
    <2> QED BY <1>2, <1>4, <2>2
  <1> DEFINE p == Copied(E, k)
             t == text[k].term
  <1>5. TextOK /\ Closed
    BY SoundIsClosed DEF Sound
  <1>m. \A j \in DOMAIN text : Meaning(j) \in Nat /\ r[j] \in Nat
    <2>1. \A j \in DOMAIN text : Meaning(j) \in Nat \cup {Recursive} /\ Meaning(j) # Recursive
      BY <1>5, MeaningSteps DEF NoCircle
    <2> QED BY <2>1
  <1>b. \A s : s = NoName \/ Plain(s) => Base(s) \in Nat
    BY <1>m, DefFacts DEF Base
  <1>6. Copy(E, k) /\ Fold(E, k)
    BY <1>3, Derivations
  <1>t. t.add \in Nat /\ t.sym \in Names \cup {NoName}
    BY <1>3, <1>5, StatementFacts
  <1> HIDE DEF T
  <1>7. Means(p, k) /\ p.add \in Nat /\ (p.sym = NoName \/ Plain(p.sym))
    <2>1. CASE ~Refers(k) /\ p = t /\ t.sym = NoName
      <3>1. Meaning(k) = t.add
        BY <1>3, <1>5, <2>1, MeaningSteps DEF Own
      <3>2. Base(p.sym) = 0
        BY <2>1 DEF Base
      <3> QED BY <1>t, <2>1, <3>1, <3>2
    <2>2. CASE Refers(k) /\ p = t /\ Plain(t.sym) /\ Target(k) = Def(t.sym)
      <3>1. Base(t.sym) = Meaning(Target(k)) /\ Target(k) \in DOMAIN text
        BY <2>2, DefFacts DEF Base
      <3>2. Meaning(k) = t.add + Meaning(Target(k))
        BY <1>3, <1>5, <2>2, <3>1, MeaningSteps DEF NoCircle
      <3> QED BY <1>3, <1>t, <2>2, <3>1, <3>2
    <2>3. CASE /\ Refers(k) /\ Target(k) \in DOMAIN text /\ Target(k) < k
               /\ text[Target(k)].op # "label"
               /\ p = [add |-> t.add + E[Target(k)].add, sym |-> E[Target(k)].sym]
      <3> DEFINE j == Target(k)
      <3>1. Means(E[j], j)
        BY <1>4, <2>3
      <3>2. Meaning(k) = t.add + Meaning(j)
        BY <1>3, <1>5, <2>3, MeaningSteps DEF NoCircle
      <3>3. E[j].add \in Nat /\ (E[j].sym = NoName \/ Plain(E[j].sym))
        BY <2>3, TreeFacts, Residuals
      <3>4. Base(E[j].sym) \in Nat
        BY <1>b, <3>3
      <3>5. p.add = t.add + E[j].add /\ p.sym = E[j].sym
        BY <2>3
      <3>6. r[j] < r[k] /\ r[j] \in Nat /\ r[k] \in Nat
        BY <1>3, <1>m, <2>3
      <3>7. E[j].sym # NoName => r[Def(E[j].sym)] < r[j] /\ r[Def(E[j].sym)] \in Nat
        BY <1>m, <3>1, <3>3, DefFacts
      <3> HIDE DEF j, t, p
      <3>8. Meaning(k) = p.add + Base(p.sym)
        BY <1>t, <3>1, <3>2, <3>3, <3>4, <3>5
      <3>9. p.sym # NoName => r[Def(p.sym)] < r[k]
        BY <3>5, <3>6, <3>7
      <3> QED BY <1>t, <3>3, <3>5, <3>8, <3>9
    <2> QED BY <1>6, <2>1, <2>2, <2>3 DEF Copy
  <1>8. CASE E[k] = p
    BY <1>3, <1>7, <1>8
  <1>9. CASE /\ Plain(p.sym) /\ Def(p.sym) < k /\ text[Def(p.sym)].op # "label"
             /\ E[Def(p.sym)].sym = NoName
             /\ E[k] = [add |-> p.add + E[Def(p.sym)].add, sym |-> NoName]
    <2> DEFINE d == Def(p.sym)
    <2>1. d \in DOMAIN text /\ p.sym # NoName
      BY <1>9, DefFacts
    <2>2. Meaning(d) = E[d].add + 0 /\ E[d].add \in Nat
      <3>1. Means(E[d], d)
        BY <1>4, <1>9, <2>1
      <3> QED BY <1>9, <2>1, <3>1, TreeFacts DEF Base
    <2>3. Base(p.sym) = Meaning(d) /\ Base(E[k].sym) = 0
      BY <1>9, <2>1 DEF Base
    <2>4. E[k].add = p.add + E[d].add /\ E[k].sym = NoName
      BY <1>9
    <2> HIDE DEF d, p
    <2>5. Meaning(k) = E[k].add + Base(E[k].sym)
      BY <1>7, <2>2, <2>3, <2>4
    <2> QED BY <1>3, <2>4, <2>5
  <1> QED BY <1>6, <1>8, <1>9 DEF Fold

(* The table behind the statements parsed so far. *)
Mentioned(n) == \E i \in DOMAIN text : text[i].term.sym = n
Entry(E, n) ==
    /\ IsExpression(n) <=> Assigns(n) # {}
    /\ Assigns(n) # {} => symbols[n].expr = E[Max(Assigns(n))]
    /\ symbols[n].equate <=> \E d \in Assigns(n) : text[d].op = "equ"
    /\ \A d \in Assigns(n) : text[d].op = "equ" => Definitions(n) = {d}
    /\ symbols[n].type = "LABSYM" <=> Assigns(n) = {} /\ Labels(n) # {}
    /\ symbols[n].type = "IMPORT" => Definitions(n) = {} /\ Mentioned(n)
    /\ symbols[n].type = "NONE" => Definitions(n) = {} /\ ~Mentioned(n)
    /\ \A l \in Labels(n) : \A j \in Definitions(n) : j = l \/ text[j].op = "set"
    /\ symbols[n].type = "LABSYM" =>
          \A l \in Labels(n) : symbols[n].pc = Start + BytesBefore(l)
Table(E) == TableOK /\ \A n \in Names : Entry(E, n)

(* The entry of a name that is no variable is that of its only definition. *)
LEMMA PlainEntry ==
    ASSUME Sound, NEW E, Table(E), NEW s, Plain(s)
    PROVE  LET d == Def(s)
           IN  /\ text[d].op = "label" => ~IsExpression(s) /\ Offset(s) = Own(d) /\ ~Refers(d)
               /\ text[d].op # "label" => IsExpression(s) /\ symbols[s].expr = E[d]
  <1> DEFINE d == Def(s)
  <1>1. d \in DOMAIN text /\ d \in Definitions(s) /\ s \in Names
    BY DefFacts
  <1>2. \A j \in Definitions(s) : j = d
    BY PlainDef DEF Sound
  <1>3. Definitions(s) = Assigns(s) \cup Labels(s)
    BY DefinitionSets DEF Sound
  <1>4. Entry(E, s)
    BY <1>1 DEF Table
  <1> HIDE DEF d
  <1>5. CASE text[d].op = "label"
    <2>1. d \notin Assigns(s) /\ Assigns(s) = {}
      BY <1>2, <1>3, <1>5 DEF Assigns
    <2>2. d \in Labels(s)
      BY <1>1, <1>3, <2>1
    <2>3. symbols[s].type = "LABSYM" /\ symbols[s].pc = Start + BytesBefore(d)
          /\ ~IsExpression(s)
      BY <1>4, <2>1, <2>2 DEF Entry
    <2> QED BY <1>1, <1>5, <2>3 DEF Offset, Own, Refers, d
  <1>6. CASE text[d].op # "label"
    <2>1. d \notin Labels(s) /\ d \in Assigns(s) /\ \A j \in Assigns(s) : j = d
      BY <1>1, <1>2, <1>3, <1>6 DEF Labels
    <2>2. IsExpression(s) /\ symbols[s].expr = E[Max(Assigns(s))]
      BY <1>4, <2>1 DEF Entry
    <2>3. Max(Assigns(s)) \in Assigns(s)
      <3>1. Assigns(s) \subseteq 1 .. Len(text) /\ Len(text) \in Nat
        BY <1>3, DefinitionSets DEF Sound
      <3> QED BY <2>1, <3>1, Last
    <2>4. Max(Assigns(s)) = d
      BY <2>1, <2>3
    <2> QED BY <1>6, <2>2, <2>4 DEF d
  <1> QED BY <1>5, <1>6 DEF d

(* Without a circle in the text, evaluating a tree gives what is meant.    *)
LEMMA ValueMeant ==
    ASSUME Sound, NoCircle, NEW E, Trees(E), Table(E)
    PROVE  \A i \in DOMAIN text : text[i].op # "label" =>
              eval_expr(E[i]) = Meaning(i) /\ eval_expr(E[i]) # Recursive
  <1>1. TextOK /\ Closed /\ TableOK
    BY SoundIsClosed DEF Sound, Table
  <1>2. PICK r \in [DOMAIN text -> Nat] : \A i \in DOMAIN text : Refers(i) => r[Target(i)] < r[i]
    BY <1>1, TextRank DEF NoCircle
  <1> DEFINE Right(k) == eval_expr(E[k]) = Meaning(k)
             Wrong(m) == \E k \in DOMAIN text : text[k].op # "label" /\ r[k] = m /\ ~Right(k)
             T == {m \in Nat : Wrong(m)}
  <1>3. T = {}
    <2>1. SUFFICES ASSUME T # {} PROVE FALSE
      BY <2>1
    <2>2. PICK m \in T : \A y \in T : m <= y
      <3>1. T \subseteq Nat
        OBVIOUS
      <3> HIDE DEF T
      <3> QED BY <2>1, <3>1, Least
    <2>3. PICK k \in DOMAIN text : text[k].op # "label" /\ r[k] = m /\ ~Right(k)
      BY <2>2
    <2>4. ASSUME NEW j \in DOMAIN text, text[j].op # "label", r[j] < r[k] PROVE Right(j)
      <3>1. r[j] \in Nat /\ r[k] \in Nat /\ ~(m <= r[j])
        BY <2>3, <2>4
      <3>2. ~Wrong(r[j])
        BY <2>2, <3>1
      <3> QED BY <2>4, <3>2
    <2> DEFINE s == E[k].sym
    <2>5. E[k] \in TermType /\ E[k].add \in Nat
      BY <1>1, TreeFacts
    <2>6. /\ Meaning(k) = E[k].add + Base(s)
          /\ s # NoName => r[Def(s)] < r[k]
      BY <1>2, <2>3, TreeMeans
    <2>7. s # NoName => Plain(s)
      BY <2>3, Residuals
    <2> HIDE DEF T, Wrong
    <2>8. CASE s = NoName
      <3>1. ~IsExpression(s) /\ Offset(s) = 0 /\ Base(s) = 0
        BY <2>8, NameAssumption DEF IsExpression, Offset, Base
      <3>2. eval_expr(E[k]) = E[k].add + Offset(s)
        BY <1>1, <2>5, <3>1, EvalSteps
      <3> QED BY <2>3, <2>6, <3>1, <3>2
    <2>9. CASE Plain(s)
      <3> DEFINE d == Def(s)
      <3>1. d \in DOMAIN text /\ s # NoName
        BY <2>9, DefFacts
      <3>2. Base(s) = Meaning(d) /\ Meaning(d) # Recursive
        BY <3>1 DEF Base, NoCircle
      <3>3. CASE text[d].op = "label"
        <4>1. ~IsExpression(s) /\ Offset(s) = Own(d) /\ ~Refers(d)
          BY <2>9, <3>3, PlainEntry
        <4>2. Meaning(d) = Own(d)
          BY <1>1, <3>1, <4>1, MeaningSteps
        <4>3. eval_expr(E[k]) = E[k].add + Offset(s)
          BY <1>1, <2>5, <4>1, EvalSteps
        <4> QED BY <2>3, <2>6, <3>2, <4>1, <4>2, <4>3
      <3>4. CASE text[d].op # "label"
        <4>1. IsExpression(s) /\ symbols[s].expr = E[d]
          BY <2>9, <3>4, PlainEntry
        <4>2. Right(d)
          BY <2>4, <2>6, <3>1, <3>4
        <4>3. eval_expr(E[k]) = E[k].add + eval_expr(E[d])
          BY <1>1, <2>5, <3>2, <4>1, <4>2, EvalSteps
        <4> QED BY <2>3, <2>6, <3>2, <4>2, <4>3
      <3> QED BY <3>3, <3>4
    <2> QED BY <2>7, <2>8, <2>9
  <1>4. ASSUME NEW i \in DOMAIN text, text[i].op # "label"
        PROVE  Right(i)
    <2>1. r[i] \in Nat /\ ~Wrong(r[i])
      BY <1>2, <1>3
    <2> QED BY <1>4, <2>1
  <1> QED BY <1>4 DEF NoCircle

(* A circle in the text is one in the table. *)
LEMMA CircleFound ==
    ASSUME Sound, NEW E, Trees(E), Table(E),
           \A n \in Expressions : eval_expr(symbols[n].expr) # Recursive
    PROVE  NoCircle
  <1>1. TextOK /\ Closed /\ TableOK
    BY SoundIsClosed DEF Sound, Table
  <1>2. PICK r \in [Names \cup {NoName} -> Nat] :
             \A n \in Expressions : r[symbols[n].expr.sym] < r[n]
    BY <1>1, TableRank
  <1> DEFINE Fine(s) == s = NoName \/ Meaning(Def(s)) # Recursive
  <1>3. \A i \in DOMAIN text :
           text[i].op # "label" /\ Fine(E[i].sym) => Meaning(i) # Recursive
    <2> DEFINE T == {k \in DOMAIN text : text[k].op # "label" /\ Fine(E[k].sym)
                                         /\ Meaning(k) = Recursive}
    <2>1. SUFFICES ASSUME T # {} PROVE FALSE
      BY <2>1
    <2>2. PICK k \in T : \A y \in T : k <= y
      <3>1. T \subseteq Nat
        BY <1>1 DEF TextOK
      <3> HIDE DEF T
      <3> QED BY <2>1, <3>1, Least
    <2>3. k \in DOMAIN text /\ text[k].op # "label" /\ Fine(E[k].sym) /\ Meaning(k) = Recursive
      OBVIOUS
    <2>4. ASSUME NEW j \in DOMAIN text, j < k, text[j].op # "label", Fine(E[j].sym)
          PROVE  Meaning(j) # Recursive
      <3>1. k \in Nat /\ j \in Nat
        BY <2>3, TreeFacts
      <3>2. ~(k <= j)
        BY <2>4, <3>1
      <3> QED BY <2>2, <2>4, <3>2
    <2> DEFINE p == Copied(E, k)
               t == text[k].term
    <2> HIDE DEF T
    <2>5. Copy(E, k) /\ Fold(E, k)
      BY <2>3, Derivations
    <2>6. Fine(p.sym) => Meaning(k) # Recursive
      <3>1. CASE ~Refers(k) /\ p = t /\ t.sym = NoName
        BY <1>1, <2>3, <3>1, MeaningSteps
      <3>2. CASE Refers(k) /\ p = t /\ Plain(t.sym) /\ Target(k) = Def(t.sym)
        BY <1>1, <2>3, <3>2, MeaningSteps, DefFacts
      <3>3. CASE /\ Refers(k) /\ Target(k) \in DOMAIN text /\ Target(k) < k
                 /\ text[Target(k)].op # "label"
                 /\ p = [add |-> t.add + E[Target(k)].add, sym |-> E[Target(k)].sym]
        <4>1. p.sym = E[Target(k)].sym
          BY <3>3
        <4>2. Fine(p.sym) => Meaning(Target(k)) # Recursive
          BY <2>4, <3>3, <4>1
        <4> QED BY <1>1, <2>3, <3>3, <4>2, MeaningSteps
      <3> QED BY <2>5, <3>1, <3>2, <3>3 DEF Copy
    <2>7. CASE E[k] = p
      BY <2>3, <2>6, <2>7
    <2>8. CASE /\ Plain(p.sym) /\ Def(p.sym) < k /\ text[Def(p.sym)].op # "label"
               /\ E[Def(p.sym)].sym = NoName
      <3>1. Def(p.sym) \in DOMAIN text
        BY <2>8, DefFacts
      <3>2. Meaning(Def(p.sym)) # Recursive
        BY <2>4, <2>8, <3>1
      <3> QED BY <2>3, <2>6, <3>2
    <2> QED BY <2>5, <2>7, <2>8 DEF Fold
  <1>4. \A n : Plain(n) => Meaning(Def(n)) # Recursive
    <2> DEFINE Bad(m) == \E n : Plain(n) /\ r[n] = m /\ Meaning(Def(n)) = Recursive
               T == {m \in Nat : Bad(m)}
    <2>1. SUFFICES ASSUME T # {} PROVE FALSE
      <3>1. ASSUME NEW n, Plain(n), Meaning(Def(n)) = Recursive PROVE T # {}
        <4>1. r[n] \in Nat /\ Bad(r[n])
          BY <1>2, <3>1 DEF Plain
        <4> QED BY <4>1
      <3> QED BY <2>1, <3>1
    <2>2. PICK m \in T : \A y \in T : m <= y
      <3>1. T \subseteq Nat
        OBVIOUS
      <3> HIDE DEF T
      <3> QED BY <2>1, <3>1, Least
    <2>3. PICK n : Plain(n) /\ r[n] = m /\ Meaning(Def(n)) = Recursive
      BY <2>2
    <2> DEFINE d == Def(n)
    <2>4. d \in DOMAIN text /\ n \in Names
      BY <2>3, DefFacts
    <2>5. text[d].op # "label"
      BY <1>1, <2>3, <2>4, PlainEntry, MeaningSteps
    <2>6. IsExpression(n) /\ symbols[n].expr = E[d]
      BY <2>3, <2>5, PlainEntry
    <2> DEFINE s == E[d].sym
    <2>7. r[s] < r[n] /\ s \in Names \cup {NoName}
      BY <1>2, <2>4, <2>6, TreeFacts DEF Expressions
    <2>8. s # NoName => Plain(s)
      BY <2>4, <2>5, Residuals
    <2>9. Fine(s)
      <3>1. ASSUME Plain(s), Meaning(Def(s)) = Recursive PROVE FALSE
        <4>1. Bad(r[s]) /\ r[s] \in Nat /\ r[n] \in Nat
          BY <1>2, <2>4, <2>7, <3>1
        <4>2. r[n] <= r[s]
          BY <2>2, <2>3, <4>1
        <4> QED BY <2>7, <4>1, <4>2
      <3> QED BY <2>8, <3>1
    <2> QED BY <1>3, <2>3, <2>4, <2>5, <2>9
  <1>5. ASSUME NEW i \in DOMAIN text PROVE Meaning(i) # Recursive
    <2>1. CASE text[i].op = "label"
      BY <1>1, <2>1, MeaningSteps DEF Refers
    <2>2. CASE text[i].op # "label"
      <3>1. Fine(E[i].sym)
        BY <1>4, <2>2, Residuals
      <3> QED BY <1>3, <2>2, <3>1
    <2> QED BY <2>1, <2>2
  <1> QED BY <1>5 DEF NoCircle

-----------------------------------------------------------------------------
(* The atoms stand for the labels and data of the text, in its order.      *)
AtomType == [type : {"LABEL", "DATADEF"}, name : Names \cup {NoName}, expr : TermType,
             line : Nat]
DataBefore(k) == Cardinality({m \in 1 .. k - 1 : atoms[m].type = "DATADEF"})

AtomIsLabel(k) ==
    /\ atoms[k].type = "LABEL" /\ text[atoms[k].line].op = "label"
    /\ atoms[k].name = text[atoms[k].line].name
AtomIsData(E, k) ==
    /\ atoms[k].type = "DATADEF" /\ text[atoms[k].line].op = "byte"
    /\ atoms[k].expr = E[atoms[k].line]
AtomOK(E, k) ==
    /\ atoms[k].line \in DOMAIN text
    /\ AtomIsLabel(k) \/ AtomIsData(E, k)
    /\ DataBefore(k) = BytesBefore(atoms[k].line)
AtomsOK(E) ==
    /\ atoms \in Seq(AtomType)
    /\ \A k \in DOMAIN atoms : AtomOK(E, k)
    /\ \A i \in DOMAIN text : text[i].op \in {"label", "byte"} =>
          \E k \in DOMAIN atoms : atoms[k].line = i
    /\ DataBefore(Len(atoms) + 1) = BytesBefore(Len(text) + 1)

(* The image holds the values of the data assembled so far. *)
ImageOK ==
    /\ at \in 0 .. Len(atoms)
    /\ image \in Seq(Nat) /\ Len(image) = DataBefore(at + 1)
    /\ \A k \in 1 .. at : atoms[k].type = "DATADEF" =>
          image[DataBefore(k) + 1] = eval_expr(atoms[k].expr)

(* A name that is a label and assigned as well keeps the text from being   *)
(* assembled; every other mistake in the definitions is an error already.  *)
Mixed == \E n \in Names : Labels(n) # {} /\ Assigns(n) # {}
PhaseOK ==
    /\ phase \in {"parse", "assemble", "fix", "write", "done"}
    /\ phase = "parse" => at = 0
    /\ phase # "parse" => ~Mixed
    /\ phase \in {"fix", "write", "done"} => at = Len(atoms)
    /\ phase \in {"write", "done"} =>
          \A n \in Expressions : eval_expr(symbols[n].expr) # Recursive
    /\ phase = "done" => \A n \in Names : symbols[n].type # "IMPORT"

Parsed(E) == TextOK /\ Trees(E) /\ Table(E) /\ AtomsOK(E) /\ ImageOK /\ PhaseOK
Rejected == phase \in {"failed", "fatal", "internal"} /\ (UsedUnset \/ ~Legal)
IInv == Rejected \/ \E E : Parsed(E)

(* Counting one more. *)
LEMMA CountOne ==
    ASSUME NEW k \in Nat, NEW S, k \notin S, S \subseteq 1 .. k
    PROVE  IsFiniteSet(S) /\ Cardinality(S \cup {k}) = Cardinality(S) + 1 /\ Cardinality(S) \in Nat
  <1>1. IsFiniteSet(1 .. k)
    BY FS_Interval
  <1>2. IsFiniteSet(S)
    BY <1>1, FS_Subset
  <1> QED BY <1>2, FS_AddElement, FS_CardinalityType

LEMMA DataCount ==
    ASSUME NEW k \in Nat
    PROVE  /\ DataBefore(k + 1) \in Nat
           /\ k \in Nat \ {0} => DataBefore(k + 1) = DataBefore(k) +
                                     IF atoms[k].type = "DATADEF" THEN 1 ELSE 0
  <1> DEFINE S(j) == {m \in 1 .. j - 1 : atoms[m].type = "DATADEF"}
  <1>1. S(k + 1) \subseteq 1 .. k /\ IsFiniteSet(1 .. k)
    BY FS_Interval
  <1>2. Cardinality(S(k + 1)) \in Nat
    <2> HIDE DEF S
    <2> QED BY <1>1, FS_Subset, FS_CardinalityType
  <1>3. ASSUME k # 0
        PROVE  Cardinality(S(k + 1)) = Cardinality(S(k)) +
                  IF atoms[k].type = "DATADEF" THEN 1 ELSE 0
    <2>1. k \notin S(k) /\ S(k) \subseteq 1 .. k
      OBVIOUS
    <2>2. Cardinality(S(k) \cup {k}) = Cardinality(S(k)) + 1 /\ Cardinality(S(k)) \in Nat
      <3> HIDE DEF S
      <3> QED BY <2>1, CountOne
    <2>3. S(k + 1) = IF atoms[k].type = "DATADEF" THEN S(k) \cup {k} ELSE S(k)
      BY <1>3
    <2> HIDE DEF S
    <2> QED BY <2>2, <2>3
  <1> QED BY <1>2, <1>3 DEF DataBefore

(* A datum counts among those before a later place. *)
LEMMA DataCountLess ==
    ASSUME NEW m \in Nat, NEW k \in 1 .. m, atoms[k].type = "DATADEF"
    PROVE  DataBefore(k) + 1 <= DataBefore(m + 1) /\ DataBefore(k) \in Nat
  <1> DEFINE S(j) == {x \in 1 .. j - 1 : atoms[x].type = "DATADEF"}
  <1>1. S(k + 1) \subseteq S(m + 1) /\ S(m + 1) \subseteq 1 .. m /\ IsFiniteSet(1 .. m)
    BY FS_Interval
  <1>2. Cardinality(S(k + 1)) <= Cardinality(S(m + 1))
    <2> HIDE DEF S
    <2> QED BY <1>1, FS_Subset
  <1>3. k \in Nat /\ k # 0
    OBVIOUS
  <1>4. DataBefore(k + 1) = DataBefore(k) + 1
    BY <1>3, DataCount
  <1>5. DataBefore(k) \in Nat
    <2>1. k - 1 \in Nat /\ (k - 1) + 1 = k
      BY <1>3
    <2> QED BY <2>1, DataCount
  <1> QED BY <1>2, <1>4, <1>5 DEF DataBefore

-----------------------------------------------------------------------------
(* What the table knows about the definitions. *)
LEMMA MixedIsWrong ==
    ASSUME TextOK, Mixed
    PROVE  ~WellDefined
  <1>1. PICK n \in Names : Labels(n) # {} /\ Assigns(n) # {}
    BY DEF Mixed
  <1>2. PICK l \in Labels(n), d \in Assigns(n) : TRUE
    BY <1>1
  <1>3. l # d /\ text[l].op = "label"
    BY DEF Labels, Assigns
  <1>4. l \in Definitions(n) /\ d \in Definitions(n) /\ IsFiniteSet(Definitions(n))
    BY DefinitionSets
  <1>5. Cardinality(Definitions(n)) # 1
    BY <1>3, <1>4, OneElement
  <1> QED BY <1>3, <1>4, <1>5 DEF WellDefined

LEMMA OtherwiseRight ==
    ASSUME TextOK, NEW E, Table(E), ~Mixed
    PROVE  WellDefined
  <1>1. SUFFICES ASSUME NEW n \in Names, NEW a \in Definitions(n), text[a].op # "set"
                 PROVE  Cardinality(Definitions(n)) = 1
    BY DEF WellDefined
  <1>2. Definitions(n) = Assigns(n) \cup Labels(n) /\ (Assigns(n) = {} \/ Labels(n) = {})
    BY DefinitionSets DEF Mixed
  <1>3. Entry(E, n)
    BY DEF Table
  <1>4. Definitions(n) = {a}
    <2>1. CASE a \in Assigns(n)
      <3>1. text[a].op = "equ"
        BY <1>1, <2>1 DEF Assigns
      <3> QED BY <1>3, <2>1, <3>1 DEF Entry
    <2>2. CASE a \in Labels(n)
      <3>1. \A j \in Definitions(n) : text[j].op # "set"
        BY <1>2, <2>2 DEF Labels
      <3>2. \A j \in Definitions(n) : j = a
        BY <1>3, <2>2, <3>1 DEF Entry
      <3> QED BY <1>1, <3>2
    <2> QED BY <1>1, <1>2, <2>1, <2>2
  <1> QED BY <1>4, FS_Singleton

LEMMA DefinedNames ==
    ASSUME NEW E, Table(E), NEW n \in Names
    PROVE  /\ Defined(n) <=> Definitions(n) # {}
           /\ symbols[n].type = "IMPORT" => Definitions(n) = {} /\ Mentioned(n)
           /\ Mentioned(n) /\ symbols[n].type # "IMPORT" => Definitions(n) # {}
  <1>1. Entry(E, n) /\ symbols[n].type \in {"NONE", "IMPORT", "EXPRESSION", "LABSYM"}
    BY TreeType DEF Table
  <1>2. symbols[n].type = "EXPRESSION" => Definitions(n) # {}
    BY <1>1 DEF Entry, IsExpression, Assigns, Definitions
  <1>3. symbols[n].type = "LABSYM" => Definitions(n) # {}
    BY <1>1 DEF Entry, Labels, Definitions
  <1> QED BY <1>1, <1>2, <1>3 DEF Entry, Defined

LEMMA NothingMissing ==
    ASSUME TextOK, NEW E, Table(E), \A n \in Names : symbols[n].type # "IMPORT"
    PROVE  AllDefined
  <1>1. ASSUME NEW i \in DOMAIN text, text[i].term.sym # NoName
        PROVE  Definitions(text[i].term.sym) # {}
    <2>1. text[i].term.sym \in Names /\ Mentioned(text[i].term.sym)
      BY <1>1, StatementFacts DEF Mentioned
    <2> QED BY <2>1, DefinedNames
  <1> QED BY <1>1 DEF AllDefined

(* What is done is as written. *)
LEMMA DoneRight ==
    ASSUME NEW E, Parsed(E), phase = "done", ~UsedUnset
    PROVE  /\ Legal
           /\ Len(image) = BytesBefore(Len(text) + 1)
           /\ \A i \in DOMAIN text : text[i].op = "byte" =>
                  image[BytesBefore(i) + 1] = Meaning(i)
  <1>1. TextOK /\ Trees(E) /\ Table(E) /\ AtomsOK(E) /\ ImageOK /\ PhaseOK
    BY DEF Parsed
  <1>2. Sound
    <2>1. ~Mixed /\ \A n \in Names : symbols[n].type # "IMPORT"
      BY <1>1 DEF PhaseOK
    <2> QED BY <1>1, <2>1, OtherwiseRight, NothingMissing DEF Sound
  <1>3. NoCircle
    <2>1. \A n \in Expressions : eval_expr(symbols[n].expr) # Recursive
      BY <1>1 DEF PhaseOK
    <2> QED BY <1>1, <1>2, <2>1, CircleFound
  <1>4. at = Len(atoms)
    BY <1>1 DEF PhaseOK
  <1>5. Len(image) = BytesBefore(Len(text) + 1)
    BY <1>1, <1>4 DEF ImageOK, AtomsOK
  <1>6. ASSUME NEW i \in DOMAIN text, text[i].op = "byte"
        PROVE  image[BytesBefore(i) + 1] = Meaning(i)
    <2>1. PICK k \in DOMAIN atoms : atoms[k].line = i
      BY <1>1, <1>6 DEF AtomsOK
    <2>2. /\ atoms[k].type = "DATADEF" /\ atoms[k].expr = E[i]
          /\ DataBefore(k) = BytesBefore(i)
      BY <1>1, <1>6, <2>1 DEF AtomsOK, AtomOK, AtomIsLabel, AtomIsData
    <2>3. k \in 1 .. at
      BY <1>1, <1>4, <2>1 DEF AtomsOK
    <2>4. image[DataBefore(k) + 1] = eval_expr(atoms[k].expr)
      BY <1>1, <2>2, <2>3 DEF ImageOK
    <2>5. eval_expr(E[i]) = Meaning(i)
      BY <1>1, <1>2, <1>3, <1>6, ValueMeant
    <2> QED BY <2>2, <2>4, <2>5
  <1> QED BY <1>2, <1>3, <1>5, <1>6, LegalParts DEF Sound

(* A tree that cannot be evaluated comes from a text that is not legal.    *)
LEMMA NoValueNotLegal ==
    ASSUME NEW E, TextOK, Trees(E), Table(E), NEW i \in DOMAIN text, text[i].op # "label",
           eval_expr(E[i]) = Recursive
    PROVE  UsedUnset \/ ~Legal
  <1>1. ASSUME ~UsedUnset, Legal PROVE FALSE
    <2>1. Sound /\ NoCircle
      BY <1>1, LegalParts DEF Sound
    <2> QED BY <2>1, ValueMeant
  <1> QED BY <1>1

LEMMA Conclusions ==
    ASSUME IInv
    PROVE  ValuesAsWritten /\ LegalAssembles
  <1>1. CASE Rejected
    BY <1>1 DEF Rejected, ValuesAsWritten, LegalAssembles
  <1>2. CASE \E E : Parsed(E)
    <2>1. PICK E : Parsed(E)
      BY <1>2
    <2>2. ValuesAsWritten
      BY <2>1, DoneRight DEF ValuesAsWritten
    <2>3. LegalAssembles
      BY <2>1 DEF Parsed, PhaseOK, LegalAssembles
    <2> QED BY <2>2, <2>3
  <1> QED BY <1>1, <1>2 DEF IInv

-----------------------------------------------------------------------------
(* What one more statement changes. *)
Extends(st, here) == /\ st \in StatementType /\ (st.op # "byte" => st.name \in Names)
                     /\ here = Len(text) + 1
                     /\ text' = Append(text, st)

LEMMA TextGrows ==
    ASSUME TextOK, NEW st, NEW here, Extends(st, here)
    PROVE  /\ TextOK' /\ here \in Nat /\ here \notin DOMAIN text
           /\ DOMAIN text' = DOMAIN text \cup {here} /\ Len(text)' = here
           /\ \A j \in DOMAIN text : text'[j] = text[j] /\ j < here /\ j \in Nat
           /\ text'[here] = st
           /\ DOMAIN text = 1 .. Len(text) /\ Len(text) \in Nat
  <1>1. Len(text) \in Nat /\ DOMAIN text = 1 .. Len(text) /\ text \in Seq(StatementType)
        /\ st \in StatementType
    BY DEF TextOK, Extends
  <1>2. /\ text' \in Seq(StatementType) /\ Len(text)' = here /\ DOMAIN text' = 1 .. here
        /\ \A j \in DOMAIN text : text'[j] = text[j]
        /\ text'[here] = st
    BY <1>1 DEF Extends
  <1>3. /\ here \in Nat /\ here \notin DOMAIN text /\ DOMAIN text' = DOMAIN text \cup {here}
        /\ \A j \in DOMAIN text : j < here /\ j \in Nat
    BY <1>1, <1>2 DEF Extends
  <1>4. TextOK'
    BY <1>2, <1>3 DEF TextOK, Extends
  <1> QED BY <1>1, <1>2, <1>3, <1>4

LEMMA SetsGrow ==
    ASSUME TextOK, NEW st, NEW here, Extends(st, here), NEW n
    PROVE  /\ Assigns(n)' = IF st.op \in {"set", "equ"} /\ st.name = n
                            THEN Assigns(n) \cup {here} ELSE Assigns(n)
           /\ Labels(n)' = IF st.op = "label" /\ st.name = n
                           THEN Labels(n) \cup {here} ELSE Labels(n)
           /\ Definitions(n)' = IF st.op # "byte" /\ st.name = n
                                THEN Definitions(n) \cup {here} ELSE Definitions(n)
           /\ Mentioned(n)' <=> Mentioned(n) \/ st.term.sym = n
           /\ here \notin Definitions(n)
  <1>1. /\ DOMAIN text' = DOMAIN text \cup {here} /\ here \notin DOMAIN text
        /\ \A j \in DOMAIN text : text'[j] = text[j]
        /\ text'[here] = st
    BY TextGrows
  <1>2. Assigns(n)' = IF st.op \in {"set", "equ"} /\ st.name = n
                      THEN Assigns(n) \cup {here} ELSE Assigns(n)
    BY <1>1 DEF Assigns
  <1>3. Labels(n)' = IF st.op = "label" /\ st.name = n
                     THEN Labels(n) \cup {here} ELSE Labels(n)
    BY <1>1 DEF Labels
  <1>4. Definitions(n)' = IF st.op # "byte" /\ st.name = n
                          THEN Definitions(n) \cup {here} ELSE Definitions(n)
    BY <1>1 DEF Definitions
  <1>5. Mentioned(n)' <=> Mentioned(n) \/ st.term.sym = n
    BY <1>1 DEF Mentioned
  <1>6. here \notin Definitions(n)
    BY <1>1 DEF Definitions
  <1> QED BY <1>2, <1>3, <1>4, <1>5, <1>6

LEMMA BeforeStays ==
    ASSUME TextOK, NEW st, NEW here, Extends(st, here), NEW n
    PROVE  /\ \A i \in DOMAIN text : AssignsBefore(i, n)' = AssignsBefore(i, n)
           /\ AssignsBefore(here, n)' = Assigns(n)
  <1>1. /\ here \in Nat /\ \A j \in DOMAIN text : j < here /\ j \in Nat
    BY TextGrows
  <1>2. Assigns(n)' = Assigns(n) \/ Assigns(n)' = Assigns(n) \cup {here}
    BY SetsGrow
  <1>3. Assigns(n) \subseteq DOMAIN text
    BY DEF Assigns
  <1>4. ASSUME NEW i \in DOMAIN text PROVE AssignsBefore(i, n)' = AssignsBefore(i, n)
    <2>1. i < here /\ i \in Nat /\ ~(here < i)
      BY <1>1
    <2> QED BY <1>2, <2>1 DEF AssignsBefore
  <1>5. AssignsBefore(here, n)' = Assigns(n)
    <2>1. ~(here < here)
      BY <1>1
    <2> QED BY <1>1, <1>2, <1>3, <2>1 DEF AssignsBefore
  <1> QED BY <1>4, <1>5

LEMMA CountStays ==
    ASSUME TextOK, NEW st, NEW here, Extends(st, here)
    PROVE  /\ \A i \in DOMAIN text \cup {here} : BytesBefore(i)' = BytesBefore(i)
           /\ BytesBefore(here + 1)' = BytesBefore(here) + (IF st.op = "byte" THEN 1 ELSE 0)
  <1>1. /\ here \in Nat /\ \A j \in DOMAIN text : text'[j] = text[j] /\ j < here /\ j \in Nat
        /\ text'[here] = st /\ DOMAIN text = 1 .. Len(text) /\ Len(text) \in Nat
    BY TextGrows
  <1>2. ASSUME NEW i \in DOMAIN text \cup {here} PROVE BytesBefore(i)' = BytesBefore(i)
    <2>1. \A j \in 1 .. i - 1 : j \in DOMAIN text
      BY <1>1 DEF Extends
    <2>2. {j \in 1 .. i - 1 : text'[j].op = "byte"} = {j \in 1 .. i - 1 : text[j].op = "byte"}
      BY <1>1, <2>1
    <2> QED BY <2>2 DEF BytesBefore
  <1> DEFINE S == {j \in 1 .. here - 1 : text[j].op = "byte"}
             U == {j \in 1 .. (here + 1) - 1 : text'[j].op = "byte"}
  <1>3. S \subseteq 1 .. here /\ here \notin S
    BY <1>1
  <1>4. U = IF st.op = "byte" THEN S \cup {here} ELSE S
    BY <1>1 DEF Extends
  <1>5. Cardinality(S \cup {here}) = Cardinality(S) + 1 /\ Cardinality(S) \in Nat
    <2> HIDE DEF S
    <2> QED BY <1>1, <1>3, CountOne
  <1>6. BytesBefore(here + 1)' = Cardinality(U) /\ BytesBefore(here) = Cardinality(S)
    BY DEF BytesBefore
  <1> HIDE DEF S, U
  <1>7. BytesBefore(here + 1)' = BytesBefore(here) + (IF st.op = "byte" THEN 1 ELSE 0)
    BY <1>4, <1>5, <1>6
  <1> QED BY <1>2, <1>7

(* The tree of a new statement is the one that Trees wants. *)
LEMMA LastAssigned ==
    ASSUME TextOK, NEW E, Trees(E), NEW n, Assigns(n) # {}
    PROVE  /\ Max(Assigns(n)) \in Assigns(n) /\ Max(Assigns(n)) \in DOMAIN text
           /\ E[Max(Assigns(n))] \in TermType
           /\ n \in Names
  <1>1. Assigns(n) \subseteq 1 .. Len(text) /\ Len(text) \in Nat /\ DOMAIN text = 1 .. Len(text)
    BY DefinitionSets
  <1>2. Max(Assigns(n)) \in Assigns(n)
    BY <1>1, Last
  <1>3. E[Max(Assigns(n))] \in TermType
    BY <1>1, <1>2 DEF Trees
  <1>4. n \in Names
    BY DEF Assigns, TextOK
  <1> QED BY <1>1, <1>2, <1>3, <1>4

CopiedNew(E, t) ==
    IF Assigns(t.sym) = {} THEN t
    ELSE [add |-> t.add + E[Max(Assigns(t.sym))].add, sym |-> E[Max(Assigns(t.sym))].sym]
FoldedNew(E, p) ==
    IF Assigns(p.sym) # {} /\ E[Max(Assigns(p.sym))].sym = NoName
    THEN [add |-> p.add + E[Max(Assigns(p.sym))].add, sym |-> NoName]
    ELSE p

LEMMA ParsedTree ==
    ASSUME TextOK, NEW E, Trees(E), Table(E), NEW t \in TermType
    PROVE  /\ parse_expr(t) = FoldedNew(E, CopiedNew(E, t))
           /\ parse_expr(t) \in TermType
  <1>1. ASSUME NEW n \in Names \cup {NoName}
        PROVE  /\ IsExpression(n) <=> Assigns(n) # {}
               /\ IsExpression(n) => symbols[n].expr = E[Max(Assigns(n))]
    <2>1. CASE n \in Names
      BY <2>1 DEF Table, Entry
    <2>2. CASE n \notin Names
      BY <2>2, LastAssigned DEF IsExpression
    <2> QED BY <2>1, <2>2
  <1>2. t.sym \in Names \cup {NoName} /\ t.add \in Nat
    BY DEF TermType
  <1> DEFINE p == CopiedNew(E, t)
  <1>3. primary_expr(t) = p
    BY <1>1, <1>2 DEF primary_expr, CopiedNew
  <1>4. p \in TermType
    <2>1. TableOK
      BY DEF Table
    <2> QED BY <1>3, <2>1, PrimaryType
  <1> HIDE DEF p
  <1>5. p.sym \in Names \cup {NoName} /\ p.add \in Nat
    BY <1>4 DEF TermType
  <1>6. simplify_expr(p) = FoldedNew(E, p)
    BY <1>1, <1>5 DEF simplify_expr, FoldedNew
  <1>7. FoldedNew(E, p) \in TermType
    <2>1. CASE Assigns(p.sym) # {} /\ E[Max(Assigns(p.sym))].sym = NoName
      <3>1. E[Max(Assigns(p.sym))].add \in Nat
        BY <2>1, LastAssigned DEF TermType
      <3> QED BY <1>5, <2>1, <3>1 DEF FoldedNew, TermType
    <2>2. CASE ~(Assigns(p.sym) # {} /\ E[Max(Assigns(p.sym))].sym = NoName)
      BY <1>4, <2>2 DEF FoldedNew
    <2> QED BY <2>1, <2>2
  <1> QED BY <1>3, <1>6, <1>7 DEF parse_expr, p

Longer(E, x, F) == /\ F \in Seq(TermType) /\ Len(F) = Len(text) + 1
                   /\ F[Len(text) + 1] = x
                   /\ \A i \in DOMAIN text : F[i] = E[i]

LEMMA TreesGrow ==
    ASSUME TextOK, NEW E, Trees(E), NEW st, NEW here, Extends(st, here),
           NEW x \in TermType, st.op # "label" => x = FoldedNew(E, CopiedNew(E, st.term)),
           NEW F, Longer(E, x, F)
    PROVE  Trees(F)'
  <1>1. /\ DOMAIN text' = DOMAIN text \cup {here} /\ Len(text)' = here /\ here \notin DOMAIN text
        /\ \A j \in DOMAIN text : text'[j] = text[j] /\ j \in Nat
        /\ text'[here] = st /\ Len(text) \in Nat /\ DOMAIN text = 1 .. Len(text)
    BY TextGrows
  <1>3. F \in Seq(TermType) /\ Len(F) = here
    BY DEF Extends, Longer
  <1>4. F[here] = x /\ \A i \in DOMAIN text : F[i] = E[i]
    BY DEF Extends, Longer
  <1>5. ASSUME NEW S, S \subseteq DOMAIN text, S # {} PROVE F[Max(S)] = E[Max(S)]
    <2>1. Max(S) \in S
      BY <1>1, <1>5, Last
    <2> QED BY <1>4, <1>5, <2>1
  <1>6. \A n : \A i \in DOMAIN text :
           AssignsBefore(i, n)' = AssignsBefore(i, n) /\ AssignsBefore(i, n) \subseteq DOMAIN text
    BY BeforeStays DEF AssignsBefore, Assigns
  <1>7. \A n : AssignsBefore(here, n)' = Assigns(n) /\ Assigns(n) \subseteq DOMAIN text
    BY BeforeStays DEF Assigns
  <1>8. ASSUME NEW i \in DOMAIN text, text'[i].op # "label" PROVE F[i] = Folded(F, i)'
    <2> DEFINE t == text[i].term
               S == AssignsBefore(i, t.sym)
    <2>1. Copied(F, i)' = Copied(E, i)
      <3>1. S # {} => F[Max(S)] = E[Max(S)]
        BY <1>5, <1>6
      <3>2. AssignsBefore(i, t.sym)' = S
        <4>1. text'[i] = text[i]
          BY <1>1
        <4> QED BY <1>6, <4>1
      <3>3. text'[i] = text[i]
        BY <1>1
      <3>4. Copied(F, i)' = IF S = {} THEN t
                            ELSE [add |-> t.add + F[Max(S)].add, sym |-> F[Max(S)].sym]
        BY <1>6, <3>3 DEF Copied
      <3> QED BY <3>1, <3>4 DEF Copied
    <2> DEFINE p == Copied(E, i)
               U == AssignsBefore(i, p.sym)
    <2>2. U # {} => F[Max(U)] = E[Max(U)]
      BY <1>5, <1>6
    <2> HIDE DEF S, t
    <2>3. Folded(F, i)' = IF U # {} /\ F[Max(U)].sym = NoName
                          THEN [add |-> p.add + F[Max(U)].add, sym |-> NoName]
                          ELSE p
      BY <1>6, <2>1 DEF Folded
    <2>4. Folded(F, i)' = Folded(E, i)
      BY <2>2, <2>3 DEF Folded
    <2>5. E[i] = Folded(E, i)
      BY <1>1, <1>8 DEF Trees
    <2> QED BY <1>4, <2>4, <2>5
  <1>9. ASSUME st.op # "label" PROVE F[here] = Folded(F, here)'
    <2> DEFINE t == st.term
               S == Assigns(t.sym)
    <2>1. Copied(F, here)' = CopiedNew(E, t)
      <3>1. S # {} => F[Max(S)] = E[Max(S)]
        BY <1>5, <1>7
      <3>2. Copied(F, here)' = IF S = {} THEN t
                            ELSE [add |-> t.add + F[Max(S)].add, sym |-> F[Max(S)].sym]
        BY <1>1, <1>7 DEF Copied
      <3> QED BY <3>1, <3>2 DEF CopiedNew
    <2> DEFINE p == CopiedNew(E, t)
               U == Assigns(p.sym)
    <2>2. U # {} => F[Max(U)] = E[Max(U)]
      BY <1>5, <1>7
    <2> HIDE DEF S, t
    <2>3. Folded(F, here)' = IF U # {} /\ F[Max(U)].sym = NoName
                          THEN [add |-> p.add + F[Max(U)].add, sym |-> NoName]
                          ELSE p
      BY <1>7, <2>1 DEF Folded
    <2>4. Folded(F, here)' = FoldedNew(E, p)
      BY <2>2, <2>3 DEF FoldedNew
    <2> QED BY <1>4, <1>9, <2>4 DEF t
  <1>10. \A i \in DOMAIN text' : text'[i].op # "label" => F[i] = Folded(F, i)'
    BY <1>1, <1>8, <1>9
  <1> QED BY <1>1, <1>3, <1>10 DEF Trees

LEMMA MentionFacts ==
    ASSUME TableOK, NEW t
    PROVE  /\ Mention(t) \in [Names -> SymbolType]
           /\ \A m \in Names :
                 /\ Mention(t)[m].expr = symbols[m].expr
                 /\ Mention(t)[m].equate = symbols[m].equate
                 /\ Mention(t)[m].pc = symbols[m].pc
                 /\ Mention(t)[m].type = IF t.sym = m /\ symbols[m].type = "NONE"
                                         THEN "IMPORT" ELSE symbols[m].type
  <1>1. \A m \in Names : symbols[m] \in SymbolType
    BY DEF TableOK
  <1>2. symbols \in [Names -> SymbolType]
    BY DEF TableOK
  <1>3. CASE t.sym \in Names /\ symbols[t.sym].type = "NONE"
    <2>1. Mention(t) = [symbols EXCEPT ![t.sym] = [symbols[t.sym] EXCEPT !.type = "IMPORT"]]
      BY <1>3 DEF Mention
    <2>2. [symbols[t.sym] EXCEPT !.type = "IMPORT"] \in SymbolType
      BY <1>1, <1>3 DEF SymbolType
    <2>3. Mention(t) \in [Names -> SymbolType]
      BY <1>2, <2>1, <2>2
    <2>4. ASSUME NEW m \in Names, m = t.sym
          PROVE  /\ Mention(t)[m].expr = symbols[m].expr
                 /\ Mention(t)[m].equate = symbols[m].equate
                 /\ Mention(t)[m].pc = symbols[m].pc
                 /\ Mention(t)[m].type = "IMPORT"
      <3>1. Mention(t)[m] = [symbols[m] EXCEPT !.type = "IMPORT"]
        BY <1>2, <1>3, <2>1, <2>4
      <3> QED BY <1>1, <3>1 DEF SymbolType
    <2>5. \A m \in Names : m # t.sym => Mention(t)[m] = symbols[m]
      BY <1>2, <1>3, <2>1
    <2> QED BY <1>3, <2>3, <2>4, <2>5
  <1>4. CASE ~(t.sym \in Names /\ symbols[t.sym].type = "NONE")
    BY <1>2, <1>4 DEF Mention
  <1> QED BY <1>3, <1>4

(* The entry of a name that the statement does not define. *)
LEMMA OtherEntry ==
    ASSUME TextOK, NEW E, Trees(E), NEW st, NEW here, Extends(st, here),
           NEW F, \A i \in DOMAIN text : F[i] = E[i],
           NEW m \in Names, Entry(E, m), st.op = "byte" \/ st.name # m,
           symbols'[m].expr = symbols[m].expr, symbols'[m].equate = symbols[m].equate,
           symbols'[m].pc = symbols[m].pc,
           symbols'[m].type = IF st.term.sym = m /\ symbols[m].type = "NONE"
                              THEN "IMPORT" ELSE symbols[m].type
    PROVE  Entry(F, m)'
  <1>1. /\ Assigns(m)' = Assigns(m) /\ Labels(m)' = Labels(m)
        /\ Definitions(m)' = Definitions(m)
        /\ Mentioned(m)' <=> Mentioned(m) \/ st.term.sym = m
    BY SetsGrow
  <1>2. /\ \A j \in DOMAIN text : text'[j] = text[j]
        /\ \A j \in DOMAIN text : BytesBefore(j)' = BytesBefore(j)
    BY TextGrows, CountStays
  <1>3. Assigns(m) \subseteq DOMAIN text /\ Labels(m) \subseteq DOMAIN text
        /\ Definitions(m) \subseteq DOMAIN text
    BY DEF Assigns, Labels, Definitions
  <1>4. IsExpression(m)' <=> IsExpression(m)
    BY DEF IsExpression
  <1>5. IsExpression(m)' <=> Assigns(m)' # {}
    BY <1>1, <1>4 DEF Entry
  <1>6. Assigns(m)' # {} => symbols'[m].expr = F[Max(Assigns(m)')]
    <2>1. Assigns(m) # {} => Max(Assigns(m)) \in DOMAIN text
      BY LastAssigned
    <2> QED BY <1>1, <2>1 DEF Entry
  <1>7. symbols'[m].equate <=> \E d \in Assigns(m)' : text'[d].op = "equ"
    <2>1. (\E d \in Assigns(m)' : text'[d].op = "equ") <=> \E d \in Assigns(m) : text[d].op = "equ"
      BY <1>1, <1>2, <1>3
    <2>2. symbols[m].equate <=> \E d \in Assigns(m) : text[d].op = "equ"
      BY DEF Entry
    <2> QED BY Zenon, <2>1, <2>2
  <1>8. \A d \in Assigns(m)' : text'[d].op = "equ" => Definitions(m)' = {d}
    BY <1>1, <1>2, <1>3 DEF Entry
  <1>9. symbols'[m].type = "LABSYM" <=> Assigns(m)' = {} /\ Labels(m)' # {}
    BY <1>1 DEF Entry
  <1>10. /\ symbols'[m].type = "IMPORT" => Definitions(m)' = {} /\ Mentioned(m)'
         /\ symbols'[m].type = "NONE" => Definitions(m)' = {} /\ ~Mentioned(m)'
    BY <1>1 DEF Entry
  <1>11. \A l \in Labels(m)' : \A j \in Definitions(m)' : j = l \/ text'[j].op = "set"
    BY <1>1, <1>2, <1>3 DEF Entry
  <1>12. symbols'[m].type = "LABSYM" =>
            \A l \in Labels(m)' : symbols'[m].pc = Start + BytesBefore(l)'
    BY <1>1, <1>2, <1>3 DEF Entry
  <1> QED BY <1>5, <1>6, <1>7, <1>8, <1>9, <1>10, <1>11, <1>12 DEF Entry

LEMMA OthersStay ==
    ASSUME TextOK, TableOK, NEW E, Trees(E), NEW st, NEW here, Extends(st, here),
           NEW F, \A i \in DOMAIN text : F[i] = E[i], NEW n, st.name = n,
           \A m \in Names : Entry(E, m),
           \A m \in Names : m # n => symbols'[m] = Mention(st.term)[m]
    PROVE  \A m \in Names : m # n => Entry(F, m)'
  <1> SUFFICES ASSUME NEW m \in Names, m # n PROVE Entry(F, m)'
    OBVIOUS
  <1>1. /\ symbols'[m].expr = symbols[m].expr /\ symbols'[m].equate = symbols[m].equate
        /\ symbols'[m].pc = symbols[m].pc
        /\ symbols'[m].type = IF st.term.sym = m /\ symbols[m].type = "NONE"
                              THEN "IMPORT" ELSE symbols[m].type
    <2>1. /\ Mention(st.term)[m].expr = symbols[m].expr
          /\ Mention(st.term)[m].equate = symbols[m].equate
          /\ Mention(st.term)[m].pc = symbols[m].pc
          /\ Mention(st.term)[m].type = IF st.term.sym = m /\ symbols[m].type = "NONE"
                                        THEN "IMPORT" ELSE symbols[m].type
      BY Zenon, MentionFacts
    <2> QED BY Zenon, <2>1
  <1> QED BY <1>1, OtherEntry

Assigning(n, o, t, x, e) ==
    /\ e \in BOOLEAN /\ (e <=> o = "equ")
    /\ o = "set" => ~symbols[n].equate
    /\ o = "equ" => ~Defined(n)
    /\ symbols' = [Mention(t) EXCEPT ![n].type = "EXPRESSION", ![n].expr = x,
                                     ![n].equate = e]

LEMMA AssignGrows ==
    ASSUME TextOK, NEW E, Trees(E), Table(E), NEW n \in Names, NEW t \in TermType,
           NEW o \in {"set", "equ"}, NEW e, NEW here,
           NEW st, st = [op |-> o, name |-> n, term |-> t], Extends(st, here),
           NEW x \in TermType, NEW F, F[here] = x, \A i \in DOMAIN text : F[i] = E[i],
           Assigning(n, o, t, x, e)
    PROVE  Table(F)'
  <1> DEFINE M == Mention(t)
  <1>s. st.op = o /\ st.name = n /\ st.term = t /\ Extends(st, here)
    OBVIOUS
  <1>1. TableOK /\ M \in [Names -> SymbolType] /\ \A m \in Names : Entry(E, m)
    BY MentionFacts DEF Table
  <1> HIDE DEF M
  <1>2. symbols' = [M EXCEPT ![n] = [M[n] EXCEPT !.type = "EXPRESSION", !.expr = x,
                                                 !.equate = e]]
    BY <1>1 DEF M, Assigning
  <1>3. M[n] \in SymbolType
    BY <1>1
  <1>4. [M[n] EXCEPT !.type = "EXPRESSION", !.expr = x, !.equate = e] \in SymbolType
    BY <1>3 DEF SymbolType, Assigning
  <1>5. TableOK'
    BY <1>1, <1>2, <1>4 DEF TableOK
  <1>7. \A m \in Names : m # n => Entry(F, m)'
    <2>1. \A m \in Names : m # n => symbols'[m] = Mention(st.term)[m]
      BY <1>s, <1>1, <1>2 DEF M
    <2>3. TableOK /\ (\A m \in Names : Entry(E, m)) /\ st.name = n /\ Extends(st, here)
      BY <1>s, <1>1
    <2> QED BY <2>1, <2>3, OthersStay
  <1>8. Entry(F, n)'
    <2>1. /\ symbols'[n].type = "EXPRESSION" /\ symbols'[n].expr = x
          /\ symbols'[n].equate = e
      BY <1>1, <1>2, <1>3 DEF SymbolType
    <2>2. /\ Assigns(n)' = Assigns(n) \cup {here} /\ Labels(n)' = Labels(n)
          /\ Definitions(n)' = Definitions(n) \cup {here}
      BY <1>s, SetsGrow
    <2>3. /\ \A j \in DOMAIN text : text'[j] = text[j]
          /\ text'[here] = st /\ DOMAIN text' = 1 .. here /\ here \in Nat
          /\ \A j \in DOMAIN text : j < here
      <3>1. DOMAIN text' = 1 .. Len(text)'
        BY <1>s, TextGrows DEF TextOK
      <3> QED BY <1>s, <3>1, TextGrows
    <2>4. Assigns(n) \subseteq DOMAIN text /\ Labels(n) \subseteq DOMAIN text
          /\ Definitions(n) \subseteq DOMAIN text /\ Assigns(n) \subseteq Definitions(n)
          /\ Labels(n) \subseteq Definitions(n)
      BY DefinitionSets DEF Assigns, Labels, Definitions
    <2>5. o = "equ" => Definitions(n) = {}
      BY DefinedNames DEF Assigning
    <2>6. o = "set" => \A d \in Assigns(n) : text[d].op # "equ"
      <3>1. symbols[n].equate <=> \E d \in Assigns(n) : text[d].op = "equ"
        BY <1>1 DEF Entry
      <3> QED BY Zenon, <3>1 DEF Assigning
    <2>7. Max(Assigns(n)') = here
      <3> DEFINE S == Assigns(n) \cup {here}
      <3>1. S \subseteq 1 .. here /\ here \in S
        <4>1. \A j \in DOMAIN text' : j \in 1 .. here
          BY <2>3
        <4>2. S \subseteq DOMAIN text'
          <5>1. DOMAIN text' = DOMAIN text \cup {here}
            BY <1>s, TextGrows
          <5> QED BY <2>4, <5>1
        <4> QED BY <4>1, <4>2
      <3> HIDE DEF S
      <3>2. Max(S) \in S /\ here <= Max(S)
        BY <2>3, <3>1, Last
      <3>3. Max(S) = here
        <4>1. Max(S) \in 1 .. here
          BY <3>1, <3>2
        <4> QED BY <2>3, <3>2, <4>1
      <3> QED BY <2>2, <3>3 DEF S
    <2>8. IsExpression(n)'
      BY <2>1 DEF IsExpression
    <2>9. Assigns(n)' # {}
      BY <2>2
    <2>10. symbols'[n].expr = F[Max(Assigns(n)')]
      BY <2>1, <2>7
    <2>11. symbols'[n].equate <=> \E d \in Assigns(n)' : text'[d].op = "equ"
      <3>1. (\E d \in Assigns(n)' : text'[d].op = "equ") <=> o = "equ"
        <4>1. \A d \in Assigns(n) : text'[d] = text[d]
          BY <2>3, <2>4
        <4>2. text'[here].op = o
          BY <1>s, <2>3
        <4>3. CASE o = "equ"
          BY <2>2, <4>2, <4>3
        <4>4. CASE o = "set"
          BY <2>2, <2>6, <4>1, <4>2, <4>4
        <4> QED BY <4>3, <4>4
      <3> QED BY Zenon, <2>1, <3>1 DEF Assigning
    <2>12. \A d \in Assigns(n)' : text'[d].op = "equ" => Definitions(n)' = {d}
      <3>1. CASE o = "equ"
        <4>1. Assigns(n)' = {here} /\ Definitions(n)' = {here}
          BY <2>2, <2>4, <2>5, <3>1
        <4> QED BY <4>1
      <3>2. CASE o = "set"
        <4>1. \A d \in Assigns(n)' : text'[d].op # "equ"
          <5>1. \A d \in Assigns(n) : text'[d] = text[d]
            BY <2>3, <2>4
          <5>2. text'[here].op = "set"
            BY <1>s, <2>3, <3>2
          <5> QED BY <2>2, <2>6, <3>2, <5>1, <5>2
        <4> QED BY <4>1
      <3> QED BY <3>1, <3>2
    <2>13. \A l \in Labels(n)' : \A j \in Definitions(n)' : j = l \/ text'[j].op = "set"
      <3>1. \A l \in Labels(n) : \A j \in Definitions(n) : j = l \/ text'[j].op = "set"
        BY <1>1, <2>3, <2>4 DEF Entry
      <3>2. Labels(n) # {} => text'[here].op = "set"
        BY <1>s, <2>3, <2>4, <2>5
      <3> QED BY <2>2, <3>1, <3>2
    <2> QED BY <2>1, <2>8, <2>9, <2>10, <2>11, <2>12, <2>13 DEF Entry
  <1> QED BY <1>5, <1>7, <1>8 DEF Table

LEMMA LabelGrows ==
    ASSUME TextOK, NEW E, Trees(E), Table(E), NEW n \in Names, NEW here,
           Extends([op |-> "label", name |-> n, term |-> NoTerm], here),
           NEW F, \A i \in DOMAIN text : F[i] = E[i], ~Defined(n),
           NEW a \in Nat, a = Start + BytesBefore(here),
           symbols' = [symbols EXCEPT ![n].type = "LABSYM", ![n].pc = a]
    PROVE  Table(F)'
  <1> DEFINE st == [op |-> "label", name |-> n, term |-> NoTerm]
  <1>s. st.op = "label" /\ st.name = n /\ st.term = NoTerm /\ Extends(st, here)
        /\ st.term.sym = NoName
    BY DEF NoTerm
  <1>1. symbols \in [Names -> SymbolType] /\ \A m \in Names : Entry(E, m)
    BY DEF Table, TableOK
  <1> HIDE DEF st
  <1>2. symbols' = [symbols EXCEPT ![n] = [symbols[n] EXCEPT !.type = "LABSYM", !.pc = a]]
    BY <1>1
  <1>3. symbols[n] \in SymbolType
    BY <1>1
  <1>4. [symbols[n] EXCEPT !.type = "LABSYM", !.pc = a] \in SymbolType
    BY <1>3 DEF SymbolType
  <1>5. TableOK'
    BY <1>1, <1>2, <1>4 DEF TableOK
  <1>7. ASSUME NEW m \in Names, m # n PROVE Entry(F, m)'
    <2>1. symbols'[m] = symbols[m]
      BY <1>1, <1>2, <1>7
    <2>2. st.term.sym # m
      BY <1>s, NameAssumption
    <2>3. symbols'[m].type = IF st.term.sym = m /\ symbols[m].type = "NONE"
                             THEN "IMPORT" ELSE symbols[m].type
      <3>1. ~(st.term.sym = m /\ symbols[m].type = "NONE")
        BY <2>2
      <3>2. symbols'[m].type = symbols[m].type
        BY <2>1
      <3> QED BY Zenon, <3>1, <3>2
    <2> QED BY <1>s, <1>1, <1>7, <2>1, <2>3, OtherEntry
  <1>8. Entry(F, n)'
    <2>1. /\ symbols'[n].type = "LABSYM" /\ symbols'[n].pc = a
          /\ symbols'[n].equate = symbols[n].equate
      BY <1>1, <1>2, <1>3 DEF SymbolType
    <2>2. /\ Assigns(n)' = Assigns(n) /\ Labels(n)' = Labels(n) \cup {here}
          /\ Definitions(n)' = Definitions(n) \cup {here}
      BY <1>s, SetsGrow
    <2>3. Definitions(n) = {} /\ Assigns(n) = {} /\ Labels(n) = {}
      BY DefinedNames, DefinitionSets
    <2>4. ~symbols[n].equate
      <3>1. symbols[n].equate <=> \E d \in Assigns(n) : text[d].op = "equ"
        BY <1>1 DEF Entry
      <3> QED BY Zenon, <2>3, <3>1
    <2>5. symbols'[n].equate <=> \E d \in Assigns(n)' : text'[d].op = "equ"
      BY Zenon, <2>1, <2>2, <2>3, <2>4
    <2>6. BytesBefore(here)' = BytesBefore(here)
      BY CountStays
    <2>7. ~IsExpression(n)'
      BY <2>1 DEF IsExpression
    <2>8. \A l \in Labels(n)' : symbols'[n].pc = Start + BytesBefore(l)'
      BY <2>1, <2>2, <2>3, <2>6
    <2>9. Assigns(n)' = {} /\ Labels(n)' = {here} /\ Definitions(n)' = {here}
      BY <2>2, <2>3
    <2> QED BY <2>1, <2>5, <2>7, <2>8, <2>9 DEF Entry
  <1> QED BY <1>5, <1>7, <1>8 DEF Table

LEMMA ByteGrows ==
    ASSUME TextOK, NEW E, Trees(E), Table(E), NEW t, NEW here,
           Extends([op |-> "byte", name |-> NoName, term |-> t], here),
           NEW F, \A i \in DOMAIN text : F[i] = E[i],
           symbols' = Mention(t)
    PROVE  Table(F)'
  <1> DEFINE st == [op |-> "byte", name |-> NoName, term |-> t]
  <1>s. st.op = "byte" /\ st.term = t /\ Extends(st, here)
    OBVIOUS
  <1>1. TableOK /\ Mention(t) \in [Names -> SymbolType] /\ \A m \in Names : Entry(E, m)
    BY MentionFacts DEF Table
  <1> HIDE DEF st
  <1>2. TableOK'
    BY <1>1 DEF TableOK
  <1>3. ASSUME NEW m \in Names PROVE Entry(F, m)'
    <2>1. /\ symbols'[m].expr = symbols[m].expr /\ symbols'[m].equate = symbols[m].equate
          /\ symbols'[m].pc = symbols[m].pc
          /\ symbols'[m].type = IF t.sym = m /\ symbols[m].type = "NONE"
                                THEN "IMPORT" ELSE symbols[m].type
      BY <1>1, MentionFacts
    <2> QED BY <1>s, <1>1, <2>1, OtherEntry
  <1> QED BY <1>2, <1>3 DEF Table

(* The atoms of what a statement puts into the section. *)
LEMMA DataGrows ==
    ASSUME atoms \in Seq(AtomType), NEW a \in AtomType, atoms' = Append(atoms, a),
           NEW new, new = Len(atoms) + 1
    PROVE  /\ atoms' \in Seq(AtomType) /\ Len(atoms') = new /\ DOMAIN atoms' = DOMAIN atoms \cup {new}
           /\ \A k \in DOMAIN atoms : atoms'[k] = atoms[k]
           /\ atoms'[new] = a /\ new \notin DOMAIN atoms /\ new \in Nat
           /\ \A k \in DOMAIN atoms \cup {new} : DataBefore(k)' = DataBefore(k)
           /\ DataBefore(new + 1)' = DataBefore(new) + (IF a.type = "DATADEF" THEN 1 ELSE 0)
  <1>1. /\ atoms' \in Seq(AtomType) /\ Len(atoms') = new /\ DOMAIN atoms' = DOMAIN atoms \cup {new}
        /\ \A k \in DOMAIN atoms : atoms'[k] = atoms[k]
        /\ atoms'[new] = a /\ new \notin DOMAIN atoms /\ new \in Nat
        /\ DOMAIN atoms = 1 .. new - 1
    OBVIOUS
  <1>2. ASSUME NEW k \in DOMAIN atoms \cup {new} PROVE DataBefore(k)' = DataBefore(k)
    <2>1. \A m \in 1 .. k - 1 : m \in DOMAIN atoms
      BY <1>1
    <2>2. {m \in 1 .. k - 1 : atoms'[m].type = "DATADEF"}
             = {m \in 1 .. k - 1 : atoms[m].type = "DATADEF"}
      BY <1>1, <2>1
    <2> QED BY <2>2 DEF DataBefore
  <1> DEFINE S == {m \in 1 .. new - 1 : atoms[m].type = "DATADEF"}
             U == {m \in 1 .. (new + 1) - 1 : atoms'[m].type = "DATADEF"}
  <1>3. S \subseteq 1 .. new /\ new \notin S
    BY <1>1
  <1>4. U = IF a.type = "DATADEF" THEN S \cup {new} ELSE S
    <2>1. \A m : m \in 1 .. (new + 1) - 1 <=> m \in 1 .. new - 1 \/ m = new
      BY <1>1
    <2>2. \A m \in 1 .. new - 1 : atoms'[m] = atoms[m]
      BY <1>1
    <2> QED BY <1>1, <2>1, <2>2
  <1>5. Cardinality(S \cup {new}) = Cardinality(S) + 1 /\ Cardinality(S) \in Nat
    <2> HIDE DEF S
    <2> QED BY <1>1, <1>3, CountOne
  <1>6. DataBefore(new + 1)' = Cardinality(U) /\ DataBefore(new) = Cardinality(S)
    BY DEF DataBefore
  <1> HIDE DEF S, U
  <1>7. DataBefore(new + 1)' = DataBefore(new) + (IF a.type = "DATADEF" THEN 1 ELSE 0)
    BY <1>4, <1>5, <1>6
  <1> QED BY <1>1, <1>2, <1>7

LEMMA AtomStays ==
    ASSUME TextOK, NEW E, NEW st, NEW here, Extends(st, here),
           NEW F, \A i \in DOMAIN text : F[i] = E[i],
           NEW k, AtomOK(E, k), atoms'[k] = atoms[k], DataBefore(k)' = DataBefore(k)
    PROVE  AtomOK(F, k)'
  <1>1. PICK l \in DOMAIN text : l = atoms[k].line
    BY DEF AtomOK
  <1>2. atoms'[k].line = l /\ l \in DOMAIN text' /\ text'[l] = text[l] /\ F[l] = E[l]
    BY <1>1, TextGrows
  <1>3. AtomIsLabel(k) => AtomIsLabel(k)'
    BY <1>1, <1>2 DEF AtomIsLabel
  <1>4. AtomIsData(E, k) => AtomIsData(F, k)'
    BY <1>1, <1>2 DEF AtomIsData
  <1>5. BytesBefore(l)' = BytesBefore(l)
    BY CountStays
  <1>6. BytesBefore(atoms[k].line)' = BytesBefore(l)'
    BY <1>2 DEF BytesBefore
  <1>7. DataBefore(k)' = BytesBefore(atoms[k].line)'
    BY <1>1, <1>5, <1>6 DEF AtomOK
  <1> QED BY <1>2, <1>3, <1>4, <1>7 DEF AtomOK

LEMMA AtomsStay ==
    ASSUME TextOK, NEW E, AtomsOK(E), NEW st, NEW here, Extends(st, here),
           NEW F, \A i \in DOMAIN text : F[i] = E[i],
           st.op \in {"set", "equ"}, atoms' = atoms
    PROVE  AtomsOK(F)'
  <1>1. /\ DOMAIN text' = DOMAIN text \cup {here} /\ Len(text)' = here /\ here = Len(text) + 1
        /\ \A j \in DOMAIN text : text'[j] = text[j]
    BY TextGrows DEF Extends
  <1>t. text'[here] = st
    BY TextGrows
  <1>2. BytesBefore(here + 1)' = BytesBefore(here)
    <2>1. st.op # "byte" /\ here \in Nat
      BY TextGrows
    <2>2. BytesBefore(here) \in Nat
      BY <2>1, CountType
    <2> QED BY <2>1, <2>2, CountStays
  <1>3. \A k : DataBefore(k)' = DataBefore(k)
    BY DEF DataBefore
  <1>4. ASSUME NEW k \in DOMAIN atoms' PROVE AtomOK(F, k)'
    <2>1. AtomOK(E, k)
      BY <1>4 DEF AtomsOK
    <2> QED BY <1>3, <2>1, AtomStays
  <1>5. ASSUME NEW i \in DOMAIN text', text'[i].op \in {"label", "byte"}
        PROVE  \E k \in DOMAIN atoms' : atoms'[k].line = i
    <2>1. i \in DOMAIN text /\ text[i].op \in {"label", "byte"}
      BY <1>1, <1>t, <1>5
    <2> QED BY <2>1 DEF AtomsOK
  <1>6. DataBefore(Len(atoms) + 1)' = BytesBefore(Len(text) + 1)'
    <2>1. DataBefore(Len(atoms) + 1)' = DataBefore(Len(atoms) + 1)
      BY DEF DataBefore
    <2>2. BytesBefore(Len(text) + 1)' = BytesBefore(here + 1)'
      BY <1>1 DEF BytesBefore
    <2> QED BY <1>1, <1>2, <2>1, <2>2 DEF AtomsOK
  <1>7. atoms' \in Seq(AtomType)
    BY DEF AtomsOK
  <1> QED BY <1>4, <1>5, <1>6, <1>7 DEF AtomsOK

LEMMA AtomsGrow ==
    ASSUME TextOK, NEW E, AtomsOK(E), NEW st, NEW here, Extends(st, here),
           NEW F, \A i \in DOMAIN text : F[i] = E[i],
           NEW a \in AtomType, a.line = here, atoms' = Append(atoms, a),
           \/ st.op = "label" /\ a.type = "LABEL" /\ a.name = st.name
           \/ st.op = "byte" /\ a.type = "DATADEF" /\ a.expr = F[here]
    PROVE  AtomsOK(F)'
  <1> DEFINE new == Len(atoms) + 1
  <1>1. /\ DOMAIN text' = DOMAIN text \cup {here} /\ Len(text)' = here /\ here = Len(text) + 1
        /\ \A j \in DOMAIN text : text'[j] = text[j]
    BY TextGrows DEF Extends
  <1>t. text'[here] = st
    BY TextGrows
  <1>2. PICK m : m = new
    OBVIOUS
  <1>s. atoms \in Seq(AtomType)
    BY DEF AtomsOK
  <1>3. /\ atoms' \in Seq(AtomType) /\ Len(atoms') = m /\ DOMAIN atoms' = DOMAIN atoms \cup {m}
        /\ \A k \in DOMAIN atoms : atoms'[k] = atoms[k]
    BY <1>2, <1>s, DataGrows
  <1>4. /\ atoms'[m] = a /\ m \notin DOMAIN atoms /\ m \in Nat
        /\ \A k \in DOMAIN atoms \cup {m} : DataBefore(k)' = DataBefore(k)
    BY <1>2, <1>s, DataGrows
  <1>5. DataBefore(m + 1)' = DataBefore(m) + (IF a.type = "DATADEF" THEN 1 ELSE 0)
    BY <1>2, <1>s, DataGrows
  <1>6. BytesBefore(here + 1)' = BytesBefore(here) + (IF st.op = "byte" THEN 1 ELSE 0)
        /\ BytesBefore(here)' = BytesBefore(here)
    BY CountStays
  <1>7. DataBefore(m) = BytesBefore(here)
    BY <1>1, <1>2 DEF AtomsOK
  <1>8. ASSUME NEW k \in DOMAIN atoms' PROVE AtomOK(F, k)'
    <2>1. CASE k \in DOMAIN atoms
      <3>1. AtomOK(E, k)
        BY <2>1 DEF AtomsOK
      <3> QED BY <1>3, <1>4, <2>1, <3>1, AtomStays
    <2>2. CASE k = m
      <3>1. atoms'[k] = a /\ atoms'[k].line = here
        BY <1>4, <2>2
      <3>2. BytesBefore(atoms[k].line)' = BytesBefore(here)'
        BY <3>1 DEF BytesBefore
      <3>3. DataBefore(k)' = BytesBefore(atoms[k].line)'
        BY <1>4, <1>6, <1>7, <2>2, <3>2
      <3>4. AtomIsLabel(k)' \/ AtomIsData(F, k)'
        BY <1>t, <3>1 DEF AtomIsLabel, AtomIsData
      <3>5. atoms'[k].line \in DOMAIN text'
        BY <1>1, <3>1
      <3> QED BY <3>3, <3>4, <3>5 DEF AtomOK
    <2> QED BY <1>3, <1>8, <2>1, <2>2
  <1>9. ASSUME NEW i \in DOMAIN text', text'[i].op \in {"label", "byte"}
        PROVE  \E k \in DOMAIN atoms' : atoms'[k].line = i
    <2>1. CASE i = here
      BY <1>3, <1>4, <2>1
    <2>2. CASE i \in DOMAIN text
      <3>1. PICK k \in DOMAIN atoms : atoms[k].line = i
        BY <1>1, <1>9, <2>2 DEF AtomsOK
      <3> QED BY <1>3, <3>1
    <2> QED BY <1>1, <1>9, <2>1, <2>2
  <1>10. DataBefore(Len(atoms) + 1)' = BytesBefore(Len(text) + 1)'
    <2>1. DataBefore(Len(atoms) + 1)' = DataBefore(m + 1)'
      BY <1>3 DEF DataBefore
    <2>2. BytesBefore(Len(text) + 1)' = BytesBefore(here + 1)'
      BY <1>1 DEF BytesBefore
    <2>3. a.type = "DATADEF" <=> st.op = "byte"
      OBVIOUS
    <2> QED BY <1>5, <1>6, <1>7, <2>1, <2>2, <2>3
  <1> QED BY <1>3, <1>8, <1>9, <1>10 DEF AtomsOK

-----------------------------------------------------------------------------
(* Every step keeps the invariant. *)
LEMMA NothingAssembled ==
    ASSUME NEW E, AtomsOK(E)', ImageOK, PhaseOK, phase = "parse",
           at' = at, image' = image, phase' = phase
    PROVE  ImageOK' /\ PhaseOK'
  <1>1. at = 0 /\ at' = 0 /\ phase' = "parse"
    BY DEF PhaseOK
  <1>2. DataBefore(at + 1) = 0 /\ DataBefore(at + 1)' = 0
    <2>1. {m \in 1 .. (at + 1) - 1 : atoms[m].type = "DATADEF"} = {}
          /\ {m \in 1 .. (at' + 1) - 1 : atoms'[m].type = "DATADEF"} = {}
      BY <1>1
    <2> QED BY <2>1, FS_EmptySet DEF DataBefore
  <1>3. at' \in 0 .. Len(atoms')
    BY <1>1 DEF AtomsOK
  <1>4. image' \in Seq(Nat) /\ Len(image') = DataBefore(at + 1)'
    BY <1>2 DEF ImageOK
  <1>5. ImageOK'
    BY <1>1, <1>3, <1>4 DEF ImageOK
  <1>6. PhaseOK'
    BY <1>1 DEF PhaseOK
  <1> QED BY <1>5, <1>6

LEMMA NewStatement ==
    ASSUME NEW op \in {"set", "equ", "label", "byte"}, NEW n \in Names \cup {NoName},
           op # "byte" => n \in Names, NEW t \in TermType, Statement(op, n, t), TextOK
    PROVE  \E st, here : /\ st = [op |-> op, name |-> n, term |-> t]
                         /\ here = Len(text) + 1 /\ Extends(st, here)
  <1> DEFINE st == [op |-> op, name |-> n, term |-> t]
  <1>1. st \in StatementType /\ st.op = op /\ st.name = n
    BY DEF StatementType
  <1>2. Extends(st, Len(text) + 1)
    BY <1>1 DEF Extends, Statement
  <1> QED BY <1>2

LEMMA NewTree ==
    ASSUME TextOK, NEW E, Trees(E), NEW st, NEW here, Extends(st, here), NEW x \in TermType
    PROVE  \E F : Longer(E, x, F) /\ F[here] = x /\ \A i \in DOMAIN text : F[i] = E[i]
  <1> DEFINE F == Append(E, x)
  <1>1. E \in Seq(TermType) /\ Len(E) = Len(text) /\ here = Len(text) + 1
        /\ DOMAIN text = 1 .. Len(text)
    BY DEF Trees, Extends, TextOK
  <1>2. /\ F \in Seq(TermType) /\ Len(F) = here /\ F[here] = x
        /\ \A i \in DOMAIN text : F[i] = E[i]
    BY <1>1
  <1> HIDE DEF F
  <1> QED BY <1>1, <1>2 DEF Longer

LEMMA AssignStep ==
    ASSUME NEW E, Parsed(E), phase = "parse", NEW n \in Names, NEW t \in TermType,
           NEW o \in {"set", "equ"}, NEW e, Assigning(n, o, t, parse_expr(t), e),
           Statement(o, n, t), UNCHANGED <<atoms, image, at, phase>>
    PROVE  \E F : Parsed(F)'
  <1>1. TextOK /\ Trees(E) /\ Table(E) /\ AtomsOK(E) /\ ImageOK /\ PhaseOK
    BY DEF Parsed
  <1>2. PICK st, here : /\ st = [op |-> o, name |-> n, term |-> t]
                        /\ here = Len(text) + 1 /\ Extends(st, here)
    BY <1>1, NewStatement
  <1>3. PICK x \in TermType : x = parse_expr(t) /\ x = FoldedNew(E, CopiedNew(E, t))
    BY <1>1, ParsedTree
  <1>4. PICK F : Longer(E, x, F) /\ F[here] = x /\ \A i \in DOMAIN text : F[i] = E[i]
    BY <1>1, <1>2, NewTree
  <1>5. Trees(F)'
    BY <1>1, <1>2, <1>3, <1>4, TreesGrow
  <1>6. Table(F)'
    <2>1. Assigning(n, o, t, x, e)
      BY <1>3
    <2> QED BY <1>1, <1>2, <1>4, <2>1, AssignGrows
  <1>7. AtomsOK(F)' /\ TextOK'
    <2>1. st.op \in {"set", "equ"} /\ atoms' = atoms
      BY <1>2
    <2>2. AtomsOK(F)'
      BY <1>1, <1>2, <1>4, <2>1, AtomsStay
    <2> QED BY <1>1, <1>2, <2>2, TextGrows
  <1>8. ImageOK' /\ PhaseOK'
    BY <1>1, <1>7, NothingAssembled
  <1> QED BY <1>5, <1>6, <1>7, <1>8 DEF Parsed

LEMMA LabelStep ==
    ASSUME NEW E, Parsed(E), phase = "parse", NEW n \in Names, Label(n), ~Defined(n)
    PROVE  \E F : Parsed(F)'
  <1>1. TextOK /\ Trees(E) /\ Table(E) /\ AtomsOK(E) /\ ImageOK /\ PhaseOK
    BY DEF Parsed
  <1>2. /\ Statement("label", n, NoTerm) /\ NewAtom("LABEL", n, NoTerm)
        /\ symbols' = [symbols EXCEPT ![n].type = "LABSYM", ![n].pc = Start + DataSize]
        /\ image' = image /\ at' = at /\ phase' = phase
    BY DEF Label
  <1>t. NoTerm \in TermType
    BY DEF NoTerm, TermType
  <1>3. PICK st, here : /\ st = [op |-> "label", name |-> n, term |-> NoTerm]
                        /\ here = Len(text) + 1 /\ Extends(st, here)
    BY <1>1, <1>2, <1>t, NewStatement
  <1>4. PICK F : Longer(E, NoTerm, F) /\ F[here] = NoTerm /\ \A i \in DOMAIN text : F[i] = E[i]
    BY <1>1, <1>3, <1>t, NewTree
  <1>5. Trees(F)'
    <2>1. st.op = "label"
      BY <1>3
    <2> QED BY <1>1, <1>3, <1>4, <1>t, <2>1, TreesGrow
  <1>6. Table(F)'
    <2>1. DataSize = BytesBefore(here)
      <3>1. DataBefore(Len(atoms) + 1) = DataSize
        <4>1. {m \in 1 .. (Len(atoms) + 1) - 1 : atoms[m].type = "DATADEF"}
                 = {m \in DOMAIN atoms : atoms[m].type = "DATADEF"}
          BY <1>1 DEF AtomsOK
        <4> QED BY <4>1 DEF DataBefore, DataSize
      <3> QED BY <1>1, <1>3, <3>1 DEF AtomsOK
    <2>2. BytesBefore(here) \in Nat
      BY <1>1, <1>3, TextGrows, CountType
    <2>3. PICK a \in Nat : a = Start + BytesBefore(here)
      BY <2>2, SizeAssumption
    <2>4. symbols' = [symbols EXCEPT ![n].type = "LABSYM", ![n].pc = a]
      BY <1>2, <2>1, <2>3
    <2> QED BY <1>1, <1>3, <1>4, <2>3, <2>4, LabelGrows
  <1>7. AtomsOK(F)' /\ TextOK'
    <2> DEFINE a == [type |-> "LABEL", name |-> n, expr |-> NoTerm, line |-> Len(text) + 1]
    <2>1. a \in AtomType /\ a.line = here /\ a.type = "LABEL" /\ a.name = n
      BY <1>1, <1>3, <1>t, TextGrows DEF AtomType
    <2>2. atoms' = Append(atoms, a)
      BY <1>2 DEF NewAtom
    <2>3. st.op = "label" /\ st.name = n
      BY <1>3
    <2> HIDE DEF a
    <2>4. AtomsOK(F)'
      <3>1. st.op = "label" /\ a.type = "LABEL" /\ a.name = st.name
        BY <2>1, <2>3
      <3> QED BY <1>1, <1>3, <1>4, <2>1, <2>2, <3>1, AtomsGrow
    <2> QED BY <1>1, <1>3, <2>4, TextGrows
  <1>8. ImageOK' /\ PhaseOK'
    BY <1>1, <1>2, <1>7, NothingAssembled
  <1> QED BY <1>5, <1>6, <1>7, <1>8 DEF Parsed

LEMMA ByteStep ==
    ASSUME NEW E, Parsed(E), phase = "parse", NEW t \in TermType, Byte(t)
    PROVE  \E F : Parsed(F)'
  <1>1. TextOK /\ Trees(E) /\ Table(E) /\ AtomsOK(E) /\ ImageOK /\ PhaseOK
    BY DEF Parsed
  <1>2. PICK x \in TermType : x = parse_expr(t) /\ x = FoldedNew(E, CopiedNew(E, t))
    BY <1>1, ParsedTree
  <1>3. /\ Statement("byte", NoName, t) /\ NewAtom("DATADEF", NoName, x)
        /\ symbols' = Mention(t)
        /\ image' = image /\ at' = at /\ phase' = phase
    BY <1>2 DEF Byte
  <1>4. PICK st, here : /\ st = [op |-> "byte", name |-> NoName, term |-> t]
                        /\ here = Len(text) + 1 /\ Extends(st, here)
    BY <1>1, <1>3, NewStatement
  <1>5. PICK F : Longer(E, x, F) /\ F[here] = x /\ \A i \in DOMAIN text : F[i] = E[i]
    BY <1>1, <1>4, NewTree
  <1>6. Trees(F)'
    <2>1. st.term = t
      BY <1>4
    <2> QED BY <1>1, <1>2, <1>4, <1>5, <2>1, TreesGrow
  <1>7. Table(F)'
    BY <1>1, <1>3, <1>4, <1>5, ByteGrows
  <1>8. AtomsOK(F)' /\ TextOK'
    <2> DEFINE a == [type |-> "DATADEF", name |-> NoName, expr |-> x, line |-> Len(text) + 1]
    <2>1. a \in AtomType /\ a.line = here /\ a.type = "DATADEF" /\ a.expr = F[here]
      BY <1>1, <1>4, <1>5, TextGrows DEF AtomType
    <2>2. atoms' = Append(atoms, a)
      BY <1>3 DEF NewAtom
    <2>3. st.op = "byte"
      BY <1>4
    <2> HIDE DEF a
    <2>4. AtomsOK(F)'
      <3>1. st.op = "byte" /\ a.type = "DATADEF" /\ a.expr = F[here]
        BY <2>1, <2>3
      <3> QED BY <1>1, <1>4, <1>5, <2>1, <2>2, <3>1, AtomsGrow
    <2> QED BY <1>1, <1>4, <2>4, TextGrows
  <1>9. ImageOK' /\ PhaseOK'
    BY <1>1, <1>3, <1>8, NothingAssembled
  <1> QED BY <1>6, <1>7, <1>8, <1>9 DEF Parsed

(* What does not change with the text, the table and the atoms. *)
LEMMA TextStays ==
    ASSUME UNCHANGED text
    PROVE  (UsedUnset \/ ~Legal)' <=> (UsedUnset \/ ~Legal)
  <1>1. \A n : Definitions(n)' = Definitions(n)
    BY DEF Definitions
  <1>2. \A i : Meaning(i)' = Meaning(i)
    BY DEF Meaning, Refers, InForce, IsVariable, Definitions, Before, BytesBefore
  <1>3. Legal' <=> Legal
    BY <1>1, <1>2 DEF Legal
  <1>4. UsedUnset' <=> UsedUnset
    BY DEF UsedUnset, IsVariable, Definitions, Before
  <1> QED BY <1>3, <1>4

LEMMA SectionStays ==
    ASSUME UNCHANGED <<text, symbols, atoms>>, NEW E
    PROVE  /\ TextOK' <=> TextOK
           /\ Trees(E)' <=> Trees(E)
           /\ Table(E)' <=> Table(E)
           /\ AtomsOK(E)' <=> AtomsOK(E)
           /\ Mixed' <=> Mixed
           /\ \A e : eval_expr(e)' = eval_expr(e)
           /\ \A k : DataBefore(k)' = DataBefore(k)
           /\ Expressions' = Expressions
  <1>1. TextOK' <=> TextOK
    BY DEF TextOK
  <1>2. \A n : /\ Assigns(n)' = Assigns(n) /\ Labels(n)' = Labels(n)
               /\ Definitions(n)' = Definitions(n)
               /\ Mentioned(n)' <=> Mentioned(n)
               /\ IsExpression(n)' <=> IsExpression(n)
    BY DEF Assigns, Labels, Definitions, Mentioned, IsExpression
  <1>3. \A i, n : AssignsBefore(i, n)' = AssignsBefore(i, n)
    BY <1>2 DEF AssignsBefore
  <1>4. \A i : Copied(E, i)' = Copied(E, i)
    BY <1>3 DEF Copied
  <1>5. \A i : Folded(E, i)' = Folded(E, i)
    BY <1>3, <1>4 DEF Folded
  <1>6. Trees(E)' <=> Trees(E)
    BY <1>5 DEF Trees
  <1>7. \A i : BytesBefore(i)' = BytesBefore(i)
    BY DEF BytesBefore
  <1>8. \A n : Entry(E, n)' <=> Entry(E, n)
    BY <1>2, <1>7 DEF Entry
  <1>9. Table(E)' <=> Table(E)
    BY <1>8 DEF Table, TableOK
  <1>10. \A k : DataBefore(k)' = DataBefore(k)
    BY DEF DataBefore
  <1>11. \A k : AtomOK(E, k)' <=> AtomOK(E, k)
    <2>1. \A k : BytesBefore(atoms[k].line)' = BytesBefore(atoms[k].line)
      BY DEF BytesBefore
    <2> QED BY <1>10, <2>1 DEF AtomOK, AtomIsLabel, AtomIsData
  <1>12. AtomsOK(E)' <=> AtomsOK(E)
    <2>1. DataBefore(Len(atoms) + 1)' = DataBefore(Len(atoms) + 1)
          /\ BytesBefore(Len(text) + 1)' = BytesBefore(Len(text) + 1)
      BY DEF DataBefore, BytesBefore
    <2> QED BY <1>11, <2>1 DEF AtomsOK
  <1>13. Mixed' <=> Mixed
    BY <1>2 DEF Mixed
  <1>14. \A e : eval_expr(e)' = eval_expr(e)
    BY DEF eval_expr, primary_expr, IsExpression
  <1>15. Expressions' = Expressions
    BY <1>2 DEF Expressions
  <1> QED BY <1>1, <1>6, <1>9, <1>10, <1>12, <1>13, <1>14, <1>15

(* A second definition that is not one of many sets is not legal. *)
LEMMA SecondDefinition ==
    ASSUME TextOK, NEW st, NEW here, Extends(st, here), st.op \in {"set", "equ", "label"},
           NEW d \in Definitions(st.name), st.op # "set" \/ text[d].op # "set"
    PROVE  (UsedUnset \/ ~Legal)'
  <1> DEFINE n == st.name
  <1>1. /\ Definitions(n)' = Definitions(n) \cup {here} /\ here \notin Definitions(n)
        /\ n \in Names
    <2>1. st.op # "byte"
      OBVIOUS
    <2> QED BY <2>1, SetsGrow DEF Extends
  <1>2. /\ d \in DOMAIN text /\ text'[d] = text[d] /\ text'[here] = st /\ d # here
    <2>1. d \in DOMAIN text
      BY DEF Definitions
    <2> QED BY <1>1, <2>1, TextGrows
  <1>3. IsFiniteSet(Definitions(n) \cup {here})
    BY DefinitionSets, FS_AddElement
  <1>d. d \in Definitions(n)
    OBVIOUS
  <1> HIDE DEF n
  <1>4. Cardinality(Definitions(n)') # 1
    BY <1>1, <1>2, <1>3, <1>d, OneElement
  <1>5. ~ \A i \in Definitions(n)' : text'[i].op = "set"
    BY <1>1, <1>2 DEF n
  <1>6. ~Legal'
    BY <1>1, <1>4, <1>5 DEF Legal
  <1> QED BY <1>6

LEMMA SetStep ==
    ASSUME NEW E, Parsed(E), NEW n \in Names, NEW t \in Terms, Set(n, t)
    PROVE  IInv'
  <1>1. TextOK /\ Table(E) /\ t \in TermType /\ Entry(E, n) /\ Statement("set", n, t)
        /\ phase = "parse"
    BY TermAssumption DEF Parsed, Table, TermType, Set, Parsing
  <1>2. CASE ~symbols[n].equate
    <2>1. Assigned(n, t, FALSE)
      BY Zenon, <1>2 DEF Set
    <2>2. Assigning(n, "set", t, parse_expr(t), FALSE)
      BY Zenon, <1>2, <2>1 DEF Assigning, Assigned
    <2>3. UNCHANGED <<atoms, image, at, phase>>
      BY <2>1 DEF Assigned
    <2>4. \E F : Parsed(F)'
      BY <1>1, <2>2, <2>3, AssignStep
    <2> QED BY <2>4 DEF IInv
  <1>3. CASE symbols[n].equate
    <2>1. phase' = "failed"
      BY Zenon, <1>3 DEF Set, Error
    <2>2. PICK d \in Assigns(n) : text[d].op = "equ"
      BY Zenon, <1>1, <1>3 DEF Entry
    <2>3. d \in Definitions(n) /\ text[d].op # "set"
      BY <1>1, <2>2, DefinitionSets
    <2>4. PICK st, here : /\ st = [op |-> "set", name |-> n, term |-> t]
                          /\ here = Len(text) + 1 /\ Extends(st, here)
      BY <1>1, NewStatement
    <2>5. (UsedUnset \/ ~Legal)'
      <3>1. st.op = "set" /\ st.name = n
        BY <2>4
      <3> QED BY <1>1, <2>3, <2>4, <3>1, SecondDefinition
    <2> QED BY <2>1, <2>5 DEF IInv, Rejected
  <1> QED BY <1>2, <1>3

LEMMA EquStep ==
    ASSUME NEW E, Parsed(E), NEW n \in Names, NEW t \in Terms, Equ(n, t)
    PROVE  IInv'
  <1>1. TextOK /\ Table(E) /\ t \in TermType /\ Statement("equ", n, t) /\ phase = "parse"
    BY TermAssumption DEF Parsed, TermType, Equ, Parsing
  <1>2. CASE ~Defined(n)
    <2>1. Assigned(n, t, TRUE)
      BY <1>2 DEF Equ
    <2>2. Assigning(n, "equ", t, parse_expr(t), TRUE)
      BY Zenon, <1>2, <2>1 DEF Assigning, Assigned
    <2>3. UNCHANGED <<atoms, image, at, phase>>
      BY <2>1 DEF Assigned
    <2>4. \E F : Parsed(F)'
      BY <1>1, <2>2, <2>3, AssignStep
    <2> QED BY <2>4 DEF IInv
  <1>3. CASE Defined(n)
    <2>1. phase' = "failed"
      BY <1>3 DEF Equ, Error
    <2>2. PICK d \in Definitions(n) : TRUE
      BY <1>1, <1>3, DefinedNames
    <2>3. PICK st, here : /\ st = [op |-> "equ", name |-> n, term |-> t]
                          /\ here = Len(text) + 1 /\ Extends(st, here)
      BY <1>1, NewStatement
    <2>4. (UsedUnset \/ ~Legal)'
      <3>1. st.op = "equ" /\ st.name = n
        BY <2>3
      <3> QED BY <1>1, <2>2, <2>3, <3>1, SecondDefinition
    <2> QED BY <2>1, <2>4 DEF IInv, Rejected
  <1> QED BY <1>2, <1>3

LEMMA LabelOrError ==
    ASSUME NEW E, Parsed(E), NEW n \in Names, Label(n)
    PROVE  IInv'
  <1>1. TextOK /\ Table(E) /\ Statement("label", n, NoTerm) /\ phase = "parse"
        /\ NoTerm \in TermType
    BY DEF Parsed, TermType, NoTerm, Label, Parsing
  <1>2. CASE ~Defined(n)
    <2>1. \E F : Parsed(F)'
      BY <1>1, <1>2, LabelStep
    <2> QED BY <2>1 DEF IInv
  <1>3. CASE Defined(n)
    <2>1. phase' = "failed"
      BY <1>3 DEF Label, Error
    <2>2. PICK d \in Definitions(n) : TRUE
      BY <1>1, <1>3, DefinedNames
    <2>3. PICK st, here : /\ st = [op |-> "label", name |-> n, term |-> NoTerm]
                          /\ here = Len(text) + 1 /\ Extends(st, here)
      BY <1>1, NewStatement
    <2>4. (UsedUnset \/ ~Legal)'
      <3>1. st.op = "label" /\ st.name = n
        BY <2>3
      <3> QED BY <1>1, <2>2, <2>3, <3>1, SecondDefinition
    <2> QED BY <2>1, <2>4 DEF IInv, Rejected
  <1> QED BY <1>2, <1>3

(* From here on text, table and atoms stay. *)
LEMMA ParsedStays ==
    ASSUME NEW E, Parsed(E), UNCHANGED <<text, symbols, atoms>>, ImageOK', PhaseOK'
    PROVE  Parsed(E)'
  BY SectionStays DEF Parsed

LEMMA ImageStays ==
    ASSUME NEW E, Parsed(E), UNCHANGED <<text, symbols, atoms, image, at>>
    PROVE  ImageOK'
  <1>1. \A k : DataBefore(k)' = DataBefore(k)
    BY SectionStays
  <1>2. \A e : eval_expr(e)' = eval_expr(e)
    BY SectionStays
  <1>3. DataBefore(at + 1)' = DataBefore(at + 1)
    BY DEF DataBefore
  <1>4. ImageOK
    BY DEF Parsed
  <1>5. /\ at' \in 0 .. Len(atoms') /\ image' \in Seq(Nat) /\ Len(image') = DataBefore(at + 1)'
    BY <1>3, <1>4 DEF ImageOK
  <1>6. ASSUME NEW k \in 1 .. at', atoms'[k].type = "DATADEF"
        PROVE  image'[DataBefore(k)' + 1] = eval_expr(atoms[k].expr)'
    <2>1. image[DataBefore(k) + 1] = eval_expr(atoms[k].expr)
      BY <1>4, <1>6 DEF ImageOK
    <2>2. eval_expr(atoms[k].expr)' = eval_expr(atoms[k].expr)
      BY DEF eval_expr, primary_expr, IsExpression
    <2> QED BY <1>1, <2>1, <2>2
  <1> QED BY <1>5, <1>6 DEF ImageOK

LEMMA ResolveStep ==
    ASSUME NEW E, Parsed(E), Resolve
    PROVE  IInv'
  <1>1. /\ TextOK /\ Table(E) /\ AtomsOK(E) /\ PhaseOK
        /\ UNCHANGED <<text, symbols, atoms, image, at>>
    BY DEF Parsed, Resolve
  <1>2. CASE \E i \in DOMAIN atoms :
                atoms[i].type = "LABEL" /\ symbols[atoms[i].name].type # "LABSYM"
    <2>1. phase' = "internal"
      BY <1>2 DEF Resolve
    <2>2. PICK k \in DOMAIN atoms :
               atoms[k].type = "LABEL" /\ symbols[atoms[k].name].type # "LABSYM"
      BY <1>2
    <2> DEFINE i == atoms[k].line
               n == text[i].name
    <2>3. i \in DOMAIN text /\ text[i].op = "label" /\ n = atoms[k].name
      BY <1>1, <2>2 DEF AtomsOK, AtomOK, AtomIsLabel, AtomIsData
    <2>4. n \in Names
      BY <1>1, <2>3 DEF TextOK
    <2>5. i \in Labels(n)
      BY <2>3 DEF Labels
    <2>6. Assigns(n) # {}
      BY <1>1, <2>2, <2>3, <2>4, <2>5 DEF Table, Entry
    <2>7. ~WellDefined
      BY <1>1, <2>4, <2>5, <2>6, MixedIsWrong DEF Mixed
    <2>8. UsedUnset \/ ~Legal
      BY <2>7, LegalParts
    <2> QED BY <1>1, <2>1, <2>8, TextStays DEF IInv, Rejected
  <1>3. CASE ~ \E i \in DOMAIN atoms :
                  atoms[i].type = "LABEL" /\ symbols[atoms[i].name].type # "LABSYM"
    <2>1. phase' = "assemble"
      BY <1>3 DEF Resolve
    <2>2. ~Mixed
      <3>1. SUFFICES ASSUME NEW n \in Names, NEW l \in Labels(n), Assigns(n) # {} PROVE FALSE
        BY DEF Mixed
      <3>2. l \in DOMAIN text /\ text[l].op = "label" /\ text[l].name = n
        BY DEF Labels
      <3>3. PICK k \in DOMAIN atoms : atoms[k].line = l
        BY <1>1, <3>2 DEF AtomsOK
      <3>4. atoms[k].type = "LABEL" /\ atoms[k].name = n
        BY <1>1, <3>2, <3>3 DEF AtomsOK, AtomOK, AtomIsLabel, AtomIsData
      <3>5. symbols[n].type = "LABSYM"
        BY <1>3, <3>4
      <3> QED BY <1>1, <3>1, <3>5 DEF Table, Entry
    <2>3. PhaseOK'
      <3>1. ~Mixed'
        BY <1>1, <2>2, SectionStays
      <3> QED BY <2>1, <3>1 DEF PhaseOK
    <2>4. Parsed(E)'
      BY <1>1, <2>3, ParsedStays, ImageStays
    <2> QED BY <2>4 DEF IInv
  <1> QED BY <1>2, <1>3

LEMMA FixLabelsStep ==
    ASSUME NEW E, Parsed(E), FixLabels
    PROVE  IInv'
  <1>1. /\ TextOK /\ Trees(E) /\ Table(E) /\ PhaseOK /\ phase = "fix"
        /\ UNCHANGED <<text, symbols, atoms, image, at>>
    BY DEF Parsed, FixLabels
  <1>2. CASE \E n \in Names : IsExpression(n) /\ eval_expr(symbols[n].expr) = Recursive
    <2>1. phase' = "fatal"
      BY <1>2 DEF FixLabels
    <2>2. PICK n \in Names : IsExpression(n) /\ eval_expr(symbols[n].expr) = Recursive
      BY <1>2
    <2>3. Assigns(n) # {} /\ symbols[n].expr = E[Max(Assigns(n))]
      BY <1>1, <2>2 DEF Table, Entry
    <2> DEFINE i == Max(Assigns(n))
    <2>4. i \in Assigns(n)
      BY <1>1, <2>3, LastAssigned
    <2> HIDE DEF i
    <2>p. i \in DOMAIN text /\ text[i].op # "label" /\ eval_expr(E[i]) = Recursive
      BY <2>2, <2>3, <2>4 DEF Assigns, i
    <2>5. UsedUnset \/ ~Legal
      BY <1>1, <2>p, NoValueNotLegal
    <2> QED BY <1>1, <2>1, <2>5, TextStays DEF IInv, Rejected
  <1>3. CASE ~ \E n \in Names : IsExpression(n) /\ eval_expr(symbols[n].expr) = Recursive
    <2>1. phase' = "write"
      BY <1>3 DEF FixLabels
    <2>2. \A n \in Expressions' : eval_expr(symbols[n].expr)' # Recursive
      <3>1. \A n : eval_expr(symbols[n].expr)' = eval_expr(symbols[n].expr)
        BY <1>1 DEF eval_expr, primary_expr, IsExpression
      <3>2. \A n \in Expressions : eval_expr(symbols[n].expr) # Recursive
        BY <1>3 DEF Expressions
      <3> QED BY <1>1, <3>1, <3>2, SectionStays
    <2>3. PhaseOK'
      <3>1. ~Mixed'
        BY <1>1, SectionStays DEF PhaseOK
      <3> QED BY <1>1, <2>1, <2>2, <3>1 DEF PhaseOK
    <2>4. Parsed(E)'
      BY <1>1, <2>3, ParsedStays, ImageStays
    <2> QED BY <2>4 DEF IInv
  <1> QED BY <1>2, <1>3

LEMMA WriteOutputStep ==
    ASSUME NEW E, Parsed(E), WriteOutput
    PROVE  IInv'
  <1>1. /\ TextOK /\ Trees(E) /\ Table(E) /\ PhaseOK /\ phase = "write"
        /\ UNCHANGED <<text, symbols, atoms, image, at>>
    BY DEF Parsed, WriteOutput
  <1>2. CASE \E n \in Names : symbols[n].type = "IMPORT"
    <2>1. phase' = "failed"
      BY <1>2 DEF WriteOutput
    <2>2. PICK n \in Names : symbols[n].type = "IMPORT"
      BY <1>2
    <2>3. Definitions(n) = {} /\ Mentioned(n) /\ n # NoName
      BY <1>1, <2>2, DefinedNames, NameAssumption
    <2>4. ~AllDefined
      BY <2>3 DEF AllDefined, Mentioned
    <2>5. UsedUnset \/ ~Legal
      BY <2>4, LegalParts
    <2> QED BY <1>1, <2>1, <2>5, TextStays DEF IInv, Rejected
  <1>3. CASE ~ \E n \in Names : symbols[n].type = "IMPORT"
    <2>1. phase' = "done"
      BY <1>3 DEF WriteOutput
    <2>2. \A n \in Expressions' : eval_expr(symbols[n].expr)' # Recursive
      <3>1. \A n : eval_expr(symbols[n].expr)' = eval_expr(symbols[n].expr)
        BY <1>1 DEF eval_expr, primary_expr, IsExpression
      <3>2. \A n \in Expressions : eval_expr(symbols[n].expr) # Recursive
        BY <1>1 DEF PhaseOK
      <3> QED BY <1>1, <3>1, <3>2, SectionStays
    <2>3. PhaseOK'
      <3>1. ~Mixed'
        BY <1>1, SectionStays DEF PhaseOK
      <3> QED BY <1>1, <1>3, <2>1, <2>2, <3>1 DEF PhaseOK
    <2>4. Parsed(E)'
      BY <1>1, <2>3, ParsedStays, ImageStays
    <2> QED BY <2>4 DEF IInv
  <1> QED BY <1>2, <1>3

LEMMA AssembleStep ==
    ASSUME NEW E, Parsed(E), AssembleAtom
    PROVE  IInv'
  <1> DEFINE k == at + 1
             val == eval_expr(atoms[k].expr)
  <1>1. /\ TextOK /\ Trees(E) /\ Table(E) /\ AtomsOK(E) /\ ImageOK /\ PhaseOK
        /\ phase = "assemble" /\ at < Len(atoms) /\ at' = k
        /\ UNCHANGED <<text, symbols, atoms>>
    BY DEF Parsed, AssembleAtom
  <1>2. at \in Nat /\ Len(atoms) \in Nat /\ k \in DOMAIN atoms /\ k \in 1 .. Len(atoms)
        /\ at \in 0 .. Len(atoms)
    <2>1. atoms \in Seq(AtomType) /\ at \in 0 .. Len(atoms)
      BY <1>1 DEF AtomsOK, ImageOK
    <2> QED BY <1>1, <2>1
  <1>3. AtomOK(E, k)
    BY <1>1, <1>2 DEF AtomsOK
  <1>4. /\ \A j : DataBefore(j)' = DataBefore(j)
        /\ \A e : eval_expr(e)' = eval_expr(e)
        /\ \A j : eval_expr(atoms[j].expr)' = eval_expr(atoms[j].expr)
    BY <1>1, SectionStays DEF eval_expr, primary_expr, IsExpression
  <1>5. DataBefore(at + 1)' = DataBefore(k + 1)
    BY <1>1 DEF DataBefore
  <1>6. DataBefore(k + 1) = DataBefore(k) + IF atoms[k].type = "DATADEF" THEN 1 ELSE 0
    <2>1. k \in Nat \ {0}
      BY <1>2
    <2> HIDE DEF k
    <2> QED BY <2>1, DataCount
  <1>7. image \in Seq(Nat) /\ Len(image) = DataBefore(k) /\ Len(image) \in Nat
    BY <1>1 DEF ImageOK
  <1>p. ASSUME phase' = phase, ImageOK' PROVE IInv'
    <2>1. PhaseOK'
      <3>1. ~Mixed'
        BY <1>1, SectionStays DEF PhaseOK
      <3> QED BY <1>1, <1>p, <3>1 DEF PhaseOK
    <2>2. Parsed(E)'
      BY <1>1, <1>p, <2>1, ParsedStays
    <2> QED BY <2>2 DEF IInv
  <1>8. CASE atoms[k].type = "LABEL"
    <2>1. image' = image /\ phase' = phase
      BY <1>8 DEF AssembleAtom
    <2>2. DataBefore(k + 1) = DataBefore(k)
      BY <1>6, <1>7, <1>8
    <2>3. ASSUME NEW j \in 1 .. k, atoms[j].type = "DATADEF"
          PROVE  image[DataBefore(j) + 1] = eval_expr(atoms[j].expr)
      <3>1. j \in 1 .. at
        BY <1>2, <1>8, <2>3
      <3> QED BY <1>1, <2>3, <3>1 DEF ImageOK
    <2>4. ImageOK'
      <3>1. at' \in 0 .. Len(atoms')
        BY <1>1, <1>2
      <3>2. image' \in Seq(Nat) /\ Len(image') = DataBefore(at + 1)'
        BY <1>5, <1>7, <2>1, <2>2
      <3>3. \A j \in 1 .. at' : atoms'[j].type = "DATADEF" =>
               image'[DataBefore(j)' + 1] = eval_expr(atoms[j].expr)'
        BY <1>1, <1>4, <2>1, <2>3
      <3> QED BY <3>1, <3>2, <3>3 DEF ImageOK
    <2> QED BY <1>p, <2>1, <2>4
  <1>9. CASE atoms[k].type # "LABEL"
    <2> DEFINE i == atoms[k].line
    <2>1. /\ i \in DOMAIN text /\ text[i].op = "byte" /\ atoms[k].expr = E[i]
          /\ atoms[k].type = "DATADEF"
      BY <1>3, <1>9 DEF AtomOK, AtomIsLabel, AtomIsData
    <2>2. CASE val = Recursive
      <3>1. phase' = "fatal"
        BY <1>9, <2>2 DEF AssembleAtom
      <3>2. text[i].op # "label" /\ eval_expr(E[i]) = Recursive
        BY <2>1, <2>2
      <3> HIDE DEF i
      <3>3. UsedUnset \/ ~Legal
        BY <1>1, <2>1, <3>2, NoValueNotLegal
      <3> QED BY <1>1, <3>1, <3>3, TextStays DEF IInv, Rejected
    <2>3. CASE val # Recursive
      <3>1. image' = Append(image, val) /\ phase' = phase
        BY <1>9, <2>3 DEF AssembleAtom
      <3>2. val \in Nat
        <4>1. E[i] \in TermType
          BY <1>1, <2>1 DEF Trees, TextOK
        <4>2. eval_expr(E[i]) \in Nat \cup {Recursive}
          BY <1>1, <4>1, EvalSteps DEF Table
        <4> QED BY <2>1, <2>3, <4>2
      <3> DEFINE n == DataBefore(k)
      <3>3. image' \in Seq(Nat) /\ Len(image') = n + 1 /\ image'[n + 1] = val
            /\ \A j \in 1 .. n : image'[j] = image[j]
        <4> HIDE DEF n, val
        <4> QED BY <1>7, <3>1, <3>2 DEF n
      <3>4. ASSUME NEW j \in 1 .. k, atoms[j].type = "DATADEF"
            PROVE  image'[DataBefore(j) + 1] = eval_expr(atoms[j].expr)
        <4>1. CASE j = k
          BY <3>3, <4>1
        <4>2. CASE j # k
          <5>1. j \in 1 .. at
            BY <1>2, <3>4, <4>2
          <5>2. image[DataBefore(j) + 1] = eval_expr(atoms[j].expr)
            BY <1>1, <3>4, <5>1 DEF ImageOK
          <5>3. DataBefore(j) + 1 <= DataBefore(at + 1) /\ DataBefore(j) \in Nat
            BY <1>2, <3>4, <5>1, DataCountLess
          <5>4. DataBefore(j) + 1 \in 1 .. n
            BY <1>7, <5>3
          <5> QED BY <3>3, <5>2, <5>4
        <4> QED BY <4>1, <4>2
      <3>5. ImageOK'
        <4>1. at' \in 0 .. Len(atoms')
          BY <1>1, <1>2
        <4>2. Len(image') = DataBefore(at + 1)'
          BY <1>5, <1>6, <2>1, <3>3
        <4>3. \A j \in 1 .. at' : atoms'[j].type = "DATADEF" =>
                 image'[DataBefore(j)' + 1] = eval_expr(atoms[j].expr)'
          BY <1>1, <1>4, <3>4
        <4> QED BY <3>3, <4>1, <4>2, <4>3 DEF ImageOK
      <3> QED BY <1>p, <3>1, <3>5
    <2> QED BY <2>2, <2>3
  <1> QED BY <1>8, <1>9

LEMMA InitHolds == Init => IInv
  <1> SUFFICES ASSUME Init PROVE Parsed(<<>>)
    BY DEF IInv
  <1>1. text = <<>> /\ atoms = <<>> /\ image = <<>> /\ at = 0 /\ phase = "parse"
        /\ symbols = [n \in Names |-> Unknown]
    BY DEF Init
  <1>2. TextOK /\ Trees(<<>>) /\ PhaseOK
    BY <1>1 DEF TextOK, Trees, PhaseOK
  <1>3. \A n : /\ Assigns(n) = {} /\ Labels(n) = {} /\ Definitions(n) = {}
               /\ ~Mentioned(n)
    BY <1>1 DEF Assigns, Labels, Definitions, Mentioned
  <1>4. Unknown \in SymbolType
    BY DEF Unknown, SymbolType, TermType, NoTerm
  <1>5. TableOK
    BY <1>1, <1>4 DEF TableOK
  <1>6. ASSUME NEW n \in Names PROVE Entry(<<>>, n)
    <2>1. symbols[n] = Unknown
      BY <1>1
    <2>2. symbols[n].type = "NONE"
      BY <2>1 DEF Unknown
    <2>3. ~symbols[n].equate
      <3>1. Unknown.equate = FALSE
        BY DEF Unknown
      <3> QED BY Zenon, <2>1, <3>1
    <2>4. symbols[n].equate <=> \E d \in Assigns(n) : text[d].op = "equ"
      BY Zenon, <1>3, <2>3
    <2> QED BY <1>3, <2>2, <2>4 DEF Entry, IsExpression
  <1>7. Table(<<>>)
    BY <1>5, <1>6 DEF Table
  <1>8. DataBefore(1) = 0 /\ BytesBefore(1) = 0
    BY FS_EmptySet DEF DataBefore, BytesBefore
  <1>9. AtomsOK(<<>>)
    BY <1>1, <1>8 DEF AtomsOK
  <1>10. ImageOK
    BY <1>1, <1>8 DEF ImageOK
  <1> QED BY <1>2, <1>7, <1>9, <1>10 DEF Parsed

LEMMA NextHolds == IInv /\ [Next]_vars => IInv'
  <1> SUFFICES ASSUME IInv, [Next]_vars PROVE IInv'
    OBVIOUS
  <1>1. CASE UNCHANGED vars
    <2>1. CASE Rejected
      BY <1>1, <2>1, TextStays DEF IInv, Rejected, vars
    <2>2. CASE \E E : Parsed(E)
      <3>1. PICK E : Parsed(E)
        BY <2>2
      <3>2. UNCHANGED <<text, symbols, atoms, image, at, phase>>
        BY <1>1 DEF vars
      <3>3. PhaseOK'
        <4>1. Mixed' <=> Mixed
          BY <3>2, SectionStays
        <4>2. \A n : eval_expr(symbols[n].expr)' = eval_expr(symbols[n].expr)
          BY <3>2 DEF eval_expr, primary_expr, IsExpression
        <4>3. Expressions' = Expressions
          BY <3>2, SectionStays
        <4> QED BY <3>1, <3>2, <4>1, <4>2, <4>3 DEF Parsed, PhaseOK
      <3>4. Parsed(E)'
        BY <3>1, <3>2, <3>3, ParsedStays, ImageStays
      <3> QED BY <3>4 DEF IInv
    <2> QED BY <2>1, <2>2 DEF IInv
  <1>2. CASE Next
    <2>1. phase \in {"parse", "assemble", "fix", "write"}
      BY <1>2 DEF Next, Parse, Set, Equ, Label, Byte, Parsing, Resolve, AssembleAtom,
                  Assembled, FixLabels, WriteOutput
    <2>2. PICK E : Parsed(E)
      BY <2>1 DEF IInv, Rejected
    <2>3. ASSUME NEW n \in Names, NEW t \in Terms, Set(n, t) PROVE IInv'
      BY <2>2, <2>3, SetStep
    <2>4. ASSUME NEW n \in Names, NEW t \in Terms, Equ(n, t) PROVE IInv'
      BY <2>2, <2>4, EquStep
    <2>5. ASSUME NEW n \in Names, Label(n) PROVE IInv'
      BY <2>2, <2>5, LabelOrError
    <2>6. ASSUME NEW t \in Terms, Byte(t) PROVE IInv'
      <3>1. t \in TermType /\ phase = "parse"
        BY <2>6, TermAssumption DEF TermType, Byte, Parsing
      <3>2. \E F : Parsed(F)'
        BY <2>2, <2>6, <3>1, ByteStep
      <3> QED BY <3>2 DEF IInv
    <2>7. CASE Resolve
      BY <2>2, <2>7, ResolveStep
    <2>8. CASE AssembleAtom
      BY <2>2, <2>8, AssembleStep
    <2>9. CASE Assembled
      <3>1. /\ UNCHANGED <<text, symbols, atoms, image, at>> /\ phase = "assemble"
            /\ phase' = "fix" /\ at = Len(atoms)
        BY <2>9 DEF Assembled
      <3>2. PhaseOK'
        <4>1. Mixed' <=> Mixed
          BY <3>1, SectionStays
        <4> QED BY <2>2, <3>1, <4>1 DEF Parsed, PhaseOK
      <3>3. Parsed(E)'
        BY <2>2, <3>1, <3>2, ParsedStays, ImageStays
      <3> QED BY <3>3 DEF IInv
    <2>10. CASE FixLabels
      BY <2>2, <2>10, FixLabelsStep
    <2>11. CASE WriteOutput
      BY <2>2, <2>11, WriteOutputStep
    <2> QED BY <1>2, <2>3, <2>4, <2>5, <2>6, <2>7, <2>8, <2>9, <2>10, <2>11 DEF Next, Parse
  <1> QED BY <1>1, <1>2

(* What is written is what the text says: nothing ill-defined, ambiguous or*)
(* circular gets through, and every byte has the value its expression has  *)
(* at its place, whether names were copied, folded or looked up at the end.*)
THEOREM ValuesAsWrittenAlways == Spec => []ValuesAsWritten
  <1>1. IInv => ValuesAsWritten
    BY Conclusions
  <1> QED BY <1>1, InitHolds, NextHolds, PTL DEF Spec

(* Only a text with something wrong in it is rejected, in whatever order   *)
(* its definitions come.                                                   *)
THEOREM LegalAssemblesAlways == Spec => []LegalAssembles
  <1>1. IInv => LegalAssembles
    BY Conclusions
  <1> QED BY <1>1, InitHolds, NextHolds, PTL DEF Spec
=============================================================================
