------------------------ MODULE BillRendererProofs ------------------------
(***************************************************************************)
(* The bills the ten renderers draw, for any bill: any number of           *)
(* references, products, tables, rows, payments, messages and accounts.    *)
(*                                                                         *)
(* A renderer is a sequence of parts, and a part a sequence of commands    *)
(* that the layout builds from the bill.  That a part is drawn well is a   *)
(* rule (Rule): from each spot of a set the commands can be taken one      *)
(* after the other, each doing what the properties ask of it (Good), and   *)
(* they end in another set.  Rules compose (RuleJoin, RuleEach,            *)
(* RuleCount), so the rule of a layout is put together from those of its   *)
(* lists and tables the way the layout is.  The sets are given by facts    *)
(* (In): what is known of the cursor, of a heading that was drawn last, of *)
(* the room above the floor.                                               *)
(*                                                                         *)
(* The invariant says that what is left of the part being drawn leads to   *)
(* where the flow may be when the part has ended (Between).  A command     *)
(* takes one step along the rule, and the next part starts one that leads  *)
(* further (LeadsOn); the properties are what Good and the last Between    *)
(* say.                                                                    *)
(***************************************************************************)
EXTENDS BillRenderer, WellFoundedInduction, SequenceTheorems, TLAPS

-----------------------------------------------------------------------------
(***************************************************************************)
(* Induction on the natural numbers, and what the folds of the model       *)
(* compute: sums of sequences of numbers (Added) and blocks of commands    *)
(* put one after another (FlattenSeq), both as functions of how many terms *)
(* are taken.                                                              *)
(***************************************************************************)

\* Induction on the natural numbers, for a set rather than a predicate.
LEMMA Induction ==
  ASSUME NEW S, 0 \in S, \A n \in Nat : n \in S => n + 1 \in S
  PROVE  Nat \subseteq S
<1> SUFFICES ASSUME Nat \ S # {} PROVE FALSE
  OBVIOUS
<1>1. PICK n \in Nat \ S : \A m \in Nat \ S : n <= m
  <2> DEFINE R == OpToRel(<, Nat)
  <2>1. IsWellFoundedOn(R, Nat)
    BY NatLessThanWellFounded
  <2>2. PICK n \in Nat \ S : \A m \in Nat \ S : <<m, n>> \notin R
    <3> HIDE DEF R
    <3> QED BY <2>1, WFMin, Zenon
  <2>3. ASSUME NEW m \in Nat \ S PROVE n <= m
    <3>1. ~(m < n)
      BY <2>2 DEF OpToRel
    <3> QED BY <3>1
  <2> QED BY <2>3
<1>2. n # 0 /\ n - 1 \in Nat
  OBVIOUS
<1>3. n - 1 \in S
  BY <1>1, <1>2
<1> QED BY <1>2, <1>3

\* The same, a number from the one before it.
LEMMA Upward ==
  ASSUME NEW S, 0 \in S, \A n \in Nat \ {0} : n - 1 \in S => n \in S
  PROVE  Nat \subseteq S
<1>1. \A n \in Nat : n \in S => n + 1 \in S
  <2>1. \A n \in Nat : n + 1 \in Nat \ {0} /\ n + 1 - 1 = n
    OBVIOUS
  <2> QED BY <2>1
<1> QED BY <1>1, Induction

-----------------------------------------------------------------------------
(* Sums of sequences of numbers.                                           *)

Sums(ns, g) ==
  /\ g[0] = 0
  /\ \A i \in 1..Len(ns) : g[i] = g[i - 1] + ns[i]

\* Added is the last of the partial sums, which are natural numbers.
LEMMA AddedIs ==
  ASSUME NEW ns \in Seq(Nat)
  PROVE  \E g \in [0..Len(ns) -> Nat] : Sums(ns, g) /\ Added(ns) = g[Len(ns)]
<1> DEFINE N == Len(ns)
           H(n, g) == g = [i \in 0..n |-> IF i = 0 THEN 0 ELSE g[i - 1] + ns[i]]
           S == {n \in Nat : \E g : H(n, g)}
<1>0. N \in Nat /\ \A i \in 1..N : ns[i] \in Nat
  OBVIOUS
<1>1. 0 \in S
  <2>1. H(0, [i \in 0..0 |-> 0])
    OBVIOUS
  <2> QED BY <2>1
<1>2. ASSUME NEW n \in Nat, n \in S PROVE n + 1 \in S
  <2>1. PICK g : H(n, g)
    BY <1>2
  <2> DEFINE h == [i \in 0..(n+1) |-> IF i \in 0..n THEN g[i] ELSE g[n] + ns[n+1]]
  <2>4. ASSUME NEW i \in 0..(n+1) PROVE h[i] = IF i = 0 THEN 0 ELSE h[i-1] + ns[i]
    <3>1. CASE i \in 0..n
      <4>1. i # 0 => i - 1 \in 0..n
        BY <3>1
      <4>2. g[i] = IF i = 0 THEN 0 ELSE g[i-1] + ns[i]
        BY <2>1, <3>1
      <4>3. h[i] = g[i] /\ (i # 0 => h[i-1] = g[i-1])
        BY <3>1, <4>1
      <4> HIDE DEF h
      <4> QED BY <4>2, <4>3
    <3>2. CASE i \notin 0..n
      <4>1. i = n + 1 /\ i # 0 /\ i - 1 = n /\ n \in 0..n /\ n \in 0..(n+1) /\ i - 1 \in 0..n
        BY <3>2
      <4>2. h[i - 1] = g[n] /\ h[i] = g[n] + ns[n+1]
        BY <3>2, <4>1
      <4> HIDE DEF h
      <4> QED BY <4>1, <4>2
    <3> QED BY <3>1, <3>2
  <2>5. h = [i \in 0..(n+1) |-> h[i]]
    OBVIOUS
  <2>6. H(n+1, h)
    <3> HIDE DEF h
    <3> QED BY <2>4, <2>5
  <2>7. \E k : H(n+1, k)
    <3> HIDE DEF h, H
    <3> QED BY <2>6
  <2> HIDE DEF h, H
  <2> QED BY <2>7
<1>3. \E g : H(N, g)
  <2>1. Nat \subseteq S
    <3> HIDE DEF S
    <3> QED BY <1>1, <1>2, Induction
  <2> HIDE DEF H
  <2> QED BY <1>0, <2>1
<1> DEFINE f == CHOOSE g : H(N, g)
<1>4. H(N, f)
  <2> HIDE DEF H
  <2> QED BY <1>3
<1>5. Added(ns) = f[N]
  BY DEF Added
<1> HIDE DEF f
<1>6. \A i \in 0..N : f[i] = IF i = 0 THEN 0 ELSE f[i - 1] + ns[i]
  <2> HIDE DEF N
  <2> QED BY <1>4
<1>6a. f[0] = 0
  <2>1. 0 \in 0..N
    BY <1>0
  <2> HIDE DEF H
  <2> QED BY <1>6, <2>1
<1>7. f = [i \in 0..N |-> f[i]]
  BY <1>4
<1>8. \A i \in 0..N : f[i] \in Nat
  <2> DEFINE E == {n \in Nat : n <= N => f[n] \in Nat}
  <2>1. 0 \in E
    BY <1>6a
  <2>2. ASSUME NEW n \in Nat, n \in E PROVE n + 1 \in E
    <3> SUFFICES ASSUME n + 1 <= N PROVE f[n+1] \in Nat
      OBVIOUS
    <3>1. n + 1 \in 0..N /\ n + 1 \in 1..N /\ n + 1 # 0 /\ n + 1 - 1 = n /\ n <= N
      BY <1>0
    <3>2. f[n+1] = f[n] + ns[n+1]
      <4> HIDE DEF H
      <4> QED BY <1>6, <3>1
    <3>3. f[n] \in Nat /\ ns[n+1] \in Nat
      BY <1>0, <2>2, <3>1
    <3> HIDE DEF H
    <3> QED BY <3>2, <3>3
  <2>3. Nat \subseteq E
    <3> HIDE DEF E
    <3> QED BY <2>1, <2>2, Induction
  <2> QED BY <1>0, <2>3
<1>9. f \in [0..N -> Nat]
  <2> HIDE DEF H, N
  <2> QED BY <1>7, <1>8
<1>10. Sums(ns, f)
  <2>1. f[0] = 0
    BY <1>6a
  <2>2. ASSUME NEW i \in 1..N PROVE f[i] = f[i - 1] + ns[i]
    <3>1. i \in 0..N /\ i # 0
      BY <1>0
    <3> HIDE DEF H
    <3> QED BY <1>6, <3>1
  <2> QED BY <2>1, <2>2 DEF Sums
<1> QED BY <1>5, <1>9, <1>10

Flat(ss, g) == g = [i \in 1..Len(ss) |-> IF i = 1 THEN ss[i] ELSE g[i-1] \o ss[i]]

\* the recursive definition of FlattenSeq defines what it says
LEMMA FlatExists ==
  ASSUME NEW ss, Len(ss) \in Nat
  PROVE  \E g : Flat(ss, g)
<1> DEFINE N == Len(ss)
           H(n, g) == g = [i \in 1..n |-> IF i = 1 THEN ss[i] ELSE g[i-1] \o ss[i]]
           S == {n \in Nat : \E g : H(n, g)}
<1>1. 0 \in S
  <2>1. H(0, [i \in 1..0 |-> 0])
    OBVIOUS
  <2> QED BY <2>1
<1>2. ASSUME NEW n \in Nat, n \in S PROVE n + 1 \in S
  <2>1. PICK g : H(n, g)
    BY <1>2
  <2> DEFINE h == [i \in 1..(n+1) |-> IF i \in 1..n THEN g[i] ELSE IF i = 1 THEN ss[i] ELSE g[i-1] \o ss[i]]
  <2>2. H(n+1, h)
    <3>1. ASSUME NEW i \in 1..(n+1) PROVE h[i] = IF i = 1 THEN ss[i] ELSE h[i-1] \o ss[i]
      <4>1. CASE i = 1
        BY <2>1, <4>1
      <4>2. CASE i # 1 /\ i \in 1..n
        <5>1. i - 1 \in 1..n
          BY <4>2
        <5>2. h[i-1] = g[i-1] /\ h[i] = g[i]
          BY <4>2, <5>1
        <5> QED BY <2>1, <4>2, <5>2
      <4>3. CASE i # 1 /\ i \notin 1..n
        <5>1. i - 1 \in 1..n
          BY <4>3
        <5>2. i - 1 < n + 1 /\ i = n + 1
          BY <4>3
        <5>3. h[i - 1] = g[i - 1]
          BY <5>1, <5>2
        <5>4. h[i] = g[i - 1] \o ss[i]
          BY <4>3, <5>2
        <5> QED BY <4>3, <5>3, <5>4
      <4> QED BY <4>1, <4>2, <4>3
    <3> HIDE DEF h
    <3>2. DOMAIN h = 1..(n+1) /\ h = [i \in 1..(n+1) |-> h[i]]
      BY DEF h
    <3> QED BY <3>1, <3>2
  <2>3. n + 1 \in Nat /\ \E k : H(n+1, k)
    <3> HIDE DEF h, H
    <3> QED BY <2>2
  <2> QED BY <2>3
<1>3. Nat \subseteq S
  <2> HIDE DEF S
  <2> QED BY <1>1, <1>2, Induction
<1>4. N \in S
  BY <1>3
<1> QED BY <1>4 DEF Flat

LEMMA FlattenIs ==
  ASSUME NEW ss, Len(ss) \in Nat \ {0}
  PROVE  \E g : Flat(ss, g) /\ FlattenSeq(ss) = g[Len(ss)]
<1> DEFINE f == CHOOSE g : g = [i \in 1..Len(ss) |-> IF i = 1 THEN ss[i] ELSE g[i-1] \o ss[i]]
<1>1. Flat(ss, f)
  BY FlatExists DEF Flat
<1>2. FlattenSeq(ss) = f[Len(ss)]
  BY DEF FlattenSeq
<1> QED BY <1>1, <1>2

-----------------------------------------------------------------------------
(***************************************************************************)
(* Rules of command sequences.  A frame is the page a part is drawn on:    *)
(* its floors, its top, how far below it a two-column flow may begin, and  *)
(* how far below a floor the part may draw.  A spot is what a command can  *)
(* change: the cursor, the last line drawn and the rows counted.           *)
(***************************************************************************)

Acts == {"text", "plain", "fixed", "room", "gap", "columns", "right", "page", "off", "leave"}
Command == [act : Acts, need : Int, drop : Int, step : Int,
            heads : BOOLEAN, row : BOOLEAN]
Cursor == [page : Nat \ {0}, col : {1, 2}, y : Int, two : BOOLEAN,
           first : Nat \ {0}, colTop : Int]
Line == [page : Nat, col : {1, 2}, y : Int, part : Nat, over : Int,
         heads : BOOLEAN, found : BOOLEAN]
Spot == [cursor : Cursor, line : Line, rows : Nat]

Frame == [part : Nat, low1 : Int, low2 : Int, top : Int, deck : Int,
          strict : BOOLEAN, front : Nat, back : Nat]

\* The line a command draws, and what it says of its place.
LineAt(k, c, op) ==
  LET at == Placed(c, k, op)
  IN [page |-> at.page, col |-> at.col, y |-> at.y, part |-> k.part,
      over |-> Low(at, k) - at.y, heads |-> op.heads,
      found |-> at.y + op.drop - op.need >= Low(at, k)]

\* Lines of the flow; what is drawn at a fixed height is no line of it.
Writes(op) == op.act \in {"text", "plain"}

\* What a command does to a spot.
Step(k, s, op) ==
  [cursor |-> After(s.cursor, k, op),
   line |-> IF Writes(op) THEN LineAt(k, s.cursor, op) ELSE s.line,
   rows |-> IF Draws(op) /\ op.row THEN s.rows + 1 ELSE s.rows]

\* How far a line may go below the floor of its page.
Within(k, at) ==
  \/ at.over <= k.front
  \/ at.page > 1 /\ at.over <= k.back
  \/ at.col = 2 /\ at.over <= 1200

\* What the properties ask of a command: the line follows the one before it,
\* stays with a heading that found its room, and keeps within the frame.
Good(k, s, op) ==
  Writes(op) =>
    LET at == LineAt(k, s.cursor, op)
    IN /\ s.line.page > 0 => Follows(s.line, at)
       /\ s.line.page > 0 /\ s.line.heads /\ s.line.found
            => at.page = s.line.page /\ at.col = s.line.col
       /\ k.strict => Within(k, at)

\* f[i] holds the spots the flow can be at after the first i commands.
Outline(k, P, ops, Q, f) ==
  /\ P \subseteq f[0]
  /\ f[Len(ops)] \subseteq Q
  /\ \A i \in 1..Len(ops) : \A s \in f[i - 1] :
       Good(k, s, ops[i]) /\ Step(k, s, ops[i]) \in f[i]

\* From the spots P the commands all do well, and lead to the spots Q.
Rule(k, P, ops, Q) == ops \in Seq(Command) /\ \E f : Outline(k, P, ops, Q, f)

-----------------------------------------------------------------------------
LEMMA RuleEmpty ==
  ASSUME NEW k, NEW P, NEW Q, P \subseteq Q
  PROVE  Rule(k, P, <<>>, Q)
<1>1. Outline(k, P, <<>>, Q, [i \in 0..0 |-> P])
  BY DEF Outline
<1> QED BY <1>1 DEF Rule

LEMMA RuleOne ==
  ASSUME NEW k, NEW P, NEW Q, NEW op \in Command,
         \A s \in P : Good(k, s, op) /\ Step(k, s, op) \in Q
  PROVE  Rule(k, P, <<op>>, Q)
<1> DEFINE f == [i \in 0..1 |-> IF i = 0 THEN P ELSE Q]
           ops == <<op>>
<1>1. Len(ops) = 1 /\ ops[1] = op /\ ops \in Seq(Command) /\ f[0] = P /\ f[1] = Q
  OBVIOUS
<1>2. Outline(k, P, ops, Q, f)
  <2> HIDE DEF f, ops
  <2> QED BY <1>1 DEF Outline
<1> HIDE DEF f
<1> QED BY <1>1, <1>2 DEF Rule

LEMMA RuleWeaken ==
  ASSUME NEW k, NEW P, NEW P1, NEW Q, NEW Q1, NEW ops,
         P \subseteq P1, Rule(k, P1, ops, Q1), Q1 \subseteq Q
  PROVE  Rule(k, P, ops, Q)
<1>1. PICK f : Outline(k, P1, ops, Q1, f)
  BY DEF Rule
<1>2. Outline(k, P, ops, Q, f)
  BY <1>1 DEF Outline
<1> QED BY <1>2 DEF Rule

LEMMA RuleJoin ==
  ASSUME NEW k, NEW P, NEW R, NEW Q, NEW a, NEW b,
         Rule(k, P, a, R), Rule(k, R, b, Q)
  PROVE  Rule(k, P, a \o b, Q)
<1>1. PICK f : Outline(k, P, a, R, f)
  BY DEF Rule
<1>2. PICK g : Outline(k, R, b, Q, g)
  BY DEF Rule
<1>3. a \in Seq(Command) /\ b \in Seq(Command)
  BY DEF Rule
<1> DEFINE m == Len(a)
           n == Len(b)
           c == a \o b
           h == [i \in 0..(m + n) |-> IF i < m THEN f[i] ELSE g[i - m]]
<1>4. /\ m \in Nat /\ n \in Nat /\ Len(c) = m + n /\ c \in Seq(Command)
      /\ \A i \in 1..m : c[i] = a[i]
      /\ \A i \in (m + 1)..(m + n) : c[i] = b[i - m]
  BY <1>3
<1>5. \A i \in 0..(m + n) : h[i] = IF i < m THEN f[i] ELSE g[i - m]
  OBVIOUS
<1>6. f[m] \subseteq R /\ R \subseteq g[0]
  BY <1>1, <1>2 DEF Outline
<1> HIDE DEF m, n, c, h
<1>7. P \subseteq h[0]
  <2>1. CASE m = 0
    <3>1. h[0] = g[0]
      BY <1>4, <1>5, <2>1
    <3>2. P \subseteq f[0]
      BY <1>1 DEF Outline
    <3> QED BY <1>6, <2>1, <3>1, <3>2
  <2>2. CASE m > 0
    <3>1. h[0] = f[0]
      BY <1>4, <1>5, <2>2
    <3> QED BY <1>1, <3>1 DEF Outline
  <2> QED BY <1>4, <2>1, <2>2
<1>8. h[m + n] \subseteq Q
  <2>1. h[m + n] = g[n]
    BY <1>4, <1>5
  <2> QED BY <1>2, <2>1 DEF Outline, n
<1>9. ASSUME NEW i \in 1..(m + n), NEW s \in h[i - 1]
      PROVE  Good(k, s, c[i]) /\ Step(k, s, c[i]) \in h[i]
  <2>1. CASE i <= m
    <3>0. i \in 1..m /\ i - 1 \in 0..(m + n) /\ i - 1 < m
      BY <1>4, <2>1
    <3>1. h[i - 1] = f[i - 1] /\ c[i] = a[i]
      BY <1>4, <1>5, <3>0
    <3>2. Good(k, s, c[i]) /\ Step(k, s, c[i]) \in f[i]
      BY <1>1, <1>9, <3>0, <3>1 DEF Outline, m
    <3>3. CASE i < m
      BY <1>4, <1>5, <3>2, <3>3
    <3>4. CASE i = m
      <4>1. h[i] = g[0]
        BY <1>4, <1>5, <3>4
      <4> QED BY <1>6, <3>2, <3>4, <4>1
    <3> QED BY <1>4, <2>1, <3>3, <3>4
  <2>2. CASE i > m
    <3>1. i - m \in 1..n /\ h[i - 1] = g[i - m - 1] /\ h[i] = g[i - m] /\ c[i] = b[i - m]
      BY <1>4, <1>5, <2>2
    <3> QED BY <1>2, <1>9, <3>1 DEF Outline, n
  <2> QED BY <1>4, <2>1, <2>2
<1>10. Outline(k, P, c, Q, h)
  BY <1>4, <1>7, <1>8, <1>9 DEF Outline
<1> QED BY <1>4, <1>10 DEF Rule, c

\* A sequence of blocks, each of which leads from one set to the next.
LEMMA RuleBlocks ==
  ASSUME NEW k, NEW ss, Len(ss) \in Nat \ {0}, NEW I,
         \A i \in 1..Len(ss) : Rule(k, I[i - 1], ss[i], I[i])
  PROVE  Rule(k, I[0], FlattenSeq(ss), I[Len(ss)])
<1>1. PICK g : Flat(ss, g) /\ FlattenSeq(ss) = g[Len(ss)]
  BY FlattenIs
<1> DEFINE N == Len(ss)
           E == {n \in Nat : n \in 1..N => Rule(k, I[0], g[n], I[n])}
<1>2. 0 \in E
  OBVIOUS
<1>3. g[1] = ss[1] /\ \A i \in 2..Len(ss) : g[i] = g[i - 1] \o ss[i]
  <2>1. 1 \in 1..Len(ss)
    OBVIOUS
  <2>2. \A i \in 1..Len(ss) : g[i] = IF i = 1 THEN ss[i] ELSE g[i - 1] \o ss[i]
    BY <1>1 DEF Flat
  <2>3. \A i \in 2..Len(ss) : i # 1 /\ i \in 1..Len(ss)
    OBVIOUS
  <2> QED BY <2>1, <2>2, <2>3
<1>4. ASSUME NEW n \in Nat \ {0}, n - 1 \in E PROVE n \in E
  <2> SUFFICES ASSUME n \in 1..N PROVE Rule(k, I[0], g[n], I[n])
    OBVIOUS
  <2>1. Rule(k, I[n - 1], ss[n], I[n])
    OBVIOUS
  <2>2. CASE n = 1
    BY <1>3, <2>1, <2>2
  <2>3. CASE n # 1
    <3>1. n \in 2..N /\ n - 1 \in 1..N
      BY <2>3
    <3>2. Rule(k, I[0], g[n - 1], I[n - 1])
      BY <1>4, <3>1
    <3>3. g[n] = g[n - 1] \o ss[n]
      BY <1>3, <3>1
    <3> QED BY <2>1, <3>2, <3>3, RuleJoin
  <2> QED BY <2>2, <2>3
<1>5. Nat \subseteq E
  <2> HIDE DEF E
  <2> QED BY <1>2, <1>4, Upward
<1>6. Rule(k, I[0], g[N], I[N])
  BY <1>5
<1> QED BY <1>1, <1>6

\* The same, with nothing known between the blocks but one set.
LEMMA RuleEach ==
  ASSUME NEW k, NEW P, NEW n \in Nat, NEW ss, ss = [i \in 1..n |-> ss[i]],
         \A i \in 1..n : Rule(k, P, ss[i], P)
  PROVE  Rule(k, P, FlattenSeq(ss), P)
<1>0. Len(ss) = n
  OBVIOUS
<1>1. CASE n = 0
  <2>1. ss = <<>> /\ FlattenSeq(ss) = ss
    BY <1>0, <1>1 DEF FlattenSeq
  <2> QED BY <2>1, RuleEmpty
<1>2. CASE n # 0
  <2> DEFINE I == [i \in 0..n |-> P]
  <2>1. \A i \in 1..n : I[i - 1] = P /\ I[i] = P
    OBVIOUS
  <2>2. I[0] = P /\ I[n] = P
    OBVIOUS
  <2> HIDE DEF I
  <2>3. Rule(k, I[0], FlattenSeq(ss), I[Len(ss)])
    BY <1>0, <1>2, <2>1, RuleBlocks
  <2> QED BY <1>0, <2>2, <2>3
<1> QED BY <1>1, <1>2

\* A command again and again.
LEMMA RuleTimes ==
  ASSUME NEW k, NEW n \in Nat, NEW op \in Command, NEW I,
         \A i \in 1..n : \A s \in I[i - 1] : Good(k, s, op) /\ Step(k, s, op) \in I[i]
  PROVE  Rule(k, I[0], Times(n, op), I[n])
<1> DEFINE ops == [i \in 1..n |-> op]
<1>1. Len(ops) = n /\ ops \in Seq(Command) /\ \A i \in 1..n : ops[i] = op
  OBVIOUS
<1> HIDE DEF ops
<1>2. Outline(k, I[0], ops, I[n], I)
  BY <1>1 DEF Outline
<1> QED BY <1>1, <1>2 DEF Rule, Times, ops

\* What a rule says of the command that comes next.
LEMMA RuleStep ==
  ASSUME NEW k, NEW P, NEW Q, NEW ops, NEW s \in P,
         Rule(k, P, ops, Q), ops # <<>>
  PROVE  /\ Head(ops) \in Command
         /\ Good(k, s, Head(ops))
         /\ Rule(k, {Step(k, s, Head(ops))}, Tail(ops), Q)
<1>1. PICK f : Outline(k, P, ops, Q, f)
  BY DEF Rule
<1>2. ops \in Seq(Command)
  BY DEF Rule
<1> DEFINE n == Len(ops)
           rest == Tail(ops)
           g == [i \in 0..(n - 1) |-> f[i + 1]]
<1>3. /\ n \in Nat \ {0} /\ Head(ops) = ops[1] /\ Head(ops) \in Command
      /\ rest \in Seq(Command) /\ Len(rest) = n - 1
      /\ \A i \in 1..(n - 1) : rest[i] = ops[i + 1]
  BY <1>2
<1>4. \A i \in 0..(n - 1) : g[i] = f[i + 1]
  OBVIOUS
<1> HIDE DEF g, rest
<1>5. \A i \in 1..n : \A t \in f[i - 1] : Good(k, t, ops[i]) /\ Step(k, t, ops[i]) \in f[i]
  BY <1>1 DEF Outline
<1>6. s \in f[0] /\ f[n] \subseteq Q
  BY <1>1 DEF Outline
<1>7. Good(k, s, ops[1]) /\ Step(k, s, ops[1]) \in f[1]
  <2>1. 1 \in 1..n /\ 1 - 1 = 0
    BY <1>3
  <2> QED BY <1>5, <1>6, <2>1
<1>8. {Step(k, s, ops[1])} \subseteq g[0]
  <2>1. g[0] = f[1]
    BY <1>3, <1>4
  <2> QED BY <1>7, <2>1
<1>9. g[Len(rest)] \subseteq Q
  <2>1. g[n - 1] = f[n]
    BY <1>3, <1>4
  <2> QED BY <1>3, <1>6, <2>1
<1>10. ASSUME NEW i \in 1..Len(rest), NEW t \in g[i - 1]
       PROVE  Good(k, t, rest[i]) /\ Step(k, t, rest[i]) \in g[i]
  <2>1. i + 1 \in 1..n /\ i + 1 - 1 = i
    BY <1>3
  <2>3. i - 1 \in 0..(n - 1) /\ i \in 0..(n - 1) /\ i - 1 + 1 = i
    BY <1>3
  <2>4. g[i - 1] = f[i] /\ g[i] = f[i + 1]
    BY <1>4, <2>3
  <2>2. rest[i] = ops[i + 1]
    BY <1>3
  <2> QED BY <1>5, <1>10, <2>1, <2>2, <2>4
<1>11. Outline(k, {Step(k, s, ops[1])}, rest, Q, g)
  BY <1>8, <1>9, <1>10 DEF Outline
<1>12. Rule(k, {Step(k, s, ops[1])}, rest, Q)
  BY <1>3, <1>11 DEF Rule
<1> QED BY <1>3, <1>7, <1>12 DEF rest

-----------------------------------------------------------------------------
(***************************************************************************)
(* Facts.  What is known of a spot between two commands is a record:       *)
(* whether the flow has two columns, whether it has left the first page,   *)
(* whether a line that was kept for a heading is still to come (and the    *)
(* room it has), how much room there is above the floor, and how many rows *)
(* were drawn.                                                             *)
(***************************************************************************)

Facts == [two : BOOLEAN, later : BOOLEAN, free : BOOLEAN, keep : Int,
          known : BOOLEAN, off : BOOLEAN, room : Int, rows : Nat]

Floor(k, page) == IF page = 1 THEN k.low1 ELSE k.low2

\* The facts a hold of the spot s.
Holds(k, a, s) ==
  LET c == s.cursor
      at == s.line
      floor == Floor(k, c.page)
  IN /\ s.rows = a.rows
     /\ c.two = a.two /\ (c.two \/ c.col = 1)
     /\ c.first <= c.page
     /\ at.page = 0 \/ Follows(at, c)
     /\ a.two => c.colTop - k.deck >= Floor(k, c.first)
     /\ a.later => c.page > 1
     /\ at.heads /\ at.found =>
          /\ ~a.free
          /\ at.page = c.page /\ at.col = c.col
          /\ c.y - a.keep >= floor
     /\ a.known /\ (a.off => c.page > c.first) => c.y - a.room >= floor

In(k, a) == {s \in Spot : Holds(k, a, s)}

\* The room for b after a command that asks for `need` and moves down by e.
RoomAfter(k, a, b, need, e) ==
  b.known =>
    /\ b.room <= k.top - k.low2 - e
    /\ a.two /\ ~b.off => b.room <= k.deck - e
    /\ b.room <= need - e \/ (a.known /\ ~a.off /\ b.room <= a.room - e)

\* When a command leads from the facts a to the facts b, one for each kind.
TextFits(k, a, op, b) ==
  /\ op.act = "text" /\ op.step > 0 /\ op.drop >= 0
  /\ a.free \/ a.keep >= op.need
  /\ k.strict => /\ op.drop <= op.need + k.front
                 /\ op.drop <= k.top - k.low2 + k.front
                 /\ a.two => op.drop <= k.deck + 1200
  /\ b.two = a.two /\ (b.later => a.later)
  /\ b.rows = a.rows + (IF op.row THEN 1 ELSE 0)
  /\ op.heads => ~b.free /\ b.keep <= op.need - op.drop - op.step
  /\ RoomAfter(k, a, b, op.need, op.drop + op.step)

PlainFits(k, a, op, b) ==
  /\ op.act = "plain" /\ op.step > 0 /\ op.drop = 0 /\ op.need = 0
  /\ k.strict => /\ a.known /\ ~a.off
                 /\ a.room + k.front >= 0 \/ (a.later /\ a.room + k.back >= 0)
  /\ b.two = a.two /\ (b.later => a.later)
  /\ b.rows = a.rows + (IF op.row THEN 1 ELSE 0)
  /\ op.heads => /\ ~b.free
                 /\ \/ b.keep <= -op.step
                    \/ a.known /\ ~a.off /\ b.keep <= a.room - op.step
  /\ b.known => a.known /\ (a.off => b.off) /\ b.room <= a.room - op.step

RoomFits(k, a, op, b) ==
  /\ op.act = "room" /\ op.step = 0 /\ a.free
  /\ b.two = a.two /\ (b.later => a.later) /\ b.rows = a.rows
  /\ b.known => ~op.heads
  /\ RoomAfter(k, a, b, op.need, 0)

GapFits(k, a, op, b) ==
  /\ op.act = "gap" /\ op.step >= 0 /\ a.free
  /\ b.two = a.two /\ (b.later => a.later) /\ b.rows = a.rows
  /\ b.known => a.known /\ (a.off => b.off) /\ b.room <= a.room - op.step

ColumnsFit(k, a, op, b) ==
  /\ op.act = "columns" /\ op.step = 0 /\ a.free
  /\ ~a.two /\ b.two /\ (b.later => a.later) /\ b.rows = a.rows
  /\ a.known /\ ~a.off /\ a.room >= k.deck
  /\ b.known => b.off \/ b.room <= a.room

PageFits(k, a, op, b) ==
  /\ op.act = "page" /\ op.step = 0 /\ a.free
  /\ b.two = a.two /\ b.rows = a.rows
  /\ b.known => b.room <= op.drop - k.low2

OffFits(k, a, op, b) ==
  /\ op.act = "off" /\ op.step = 0 /\ a.free
  /\ b.two = a.two /\ b.rows = a.rows /\ ~b.known

\* Where each command finds the cursor.
LEMMA PlacedText ==
  ASSUME NEW k \in Frame, NEW c \in Cursor, NEW op \in Command, op.act = "text"
  PROVE  Placed(c, k, op) =
           [page |-> IF ~Short(c, k, op.need) \/ (c.two /\ c.col = 1) THEN c.page ELSE c.page + 1,
            col |-> IF ~Short(c, k, op.need) THEN c.col ELSE IF c.two /\ c.col = 1 THEN 2 ELSE 1,
            y |-> (IF ~Short(c, k, op.need) THEN c.y
                   ELSE IF c.two /\ c.col = 1 /\ c.page = c.first THEN c.colTop ELSE k.top) - op.drop,
            two |-> c.two, first |-> c.first, colTop |-> c.colTop]
<1>1. CASE ~Short(c, k, op.need)
  BY <1>1 DEF Placed, Fit, Cursor, Frame, Command
<1>2. CASE Short(c, k, op.need) /\ c.two /\ c.col = 1
  BY <1>2 DEF Placed, Fit, Break, NextColumn, Cursor, Frame, Command
<1>3. CASE Short(c, k, op.need) /\ ~(c.two /\ c.col = 1)
  BY <1>3 DEF Placed, Fit, Break, NextPage, Cursor, Frame, Command
<1> QED BY <1>1, <1>2, <1>3

LEMMA StepOfText ==
  ASSUME NEW k \in Frame, NEW a \in Facts, NEW b \in Facts, NEW op \in Command,
         TextFits(k, a, op, b), NEW s \in In(k, a)
  PROVE  Good(k, s, op) /\ Step(k, s, op) \in In(k, b)
<1> DEFINE c == s.cursor
           at == s.line
           d == Placed(c, k, op)
           ln == LineAt(k, c, op)
           e == After(c, k, op)
<1>1. s \in Spot /\ c \in Cursor /\ at \in Line /\ s.rows \in Nat /\ Holds(k, a, s)
  BY DEF In, Spot
<1>2. d = [page |-> IF ~Short(c, k, op.need) \/ (c.two /\ c.col = 1) THEN c.page ELSE c.page + 1,
            col |-> IF ~Short(c, k, op.need) THEN c.col ELSE IF c.two /\ c.col = 1 THEN 2 ELSE 1,
            y |-> (IF ~Short(c, k, op.need) THEN c.y
                   ELSE IF c.two /\ c.col = 1 /\ c.page = c.first THEN c.colTop ELSE k.top) - op.drop,
            two |-> c.two, first |-> c.first, colTop |-> c.colTop]
  BY <1>1, PlacedText DEF TextFits
<1>3. e = [d EXCEPT !.y = d.y - op.step]
  BY DEF After
<1>4. Step(k, s, op) = [cursor |-> e, line |-> ln, rows |-> IF op.row THEN s.rows + 1 ELSE s.rows]
  BY DEF Step, Draws, Writes, TextFits
<1>5. ln = [page |-> d.page, col |-> d.col, y |-> d.y, part |-> k.part,
            over |-> Low(d, k) - d.y, heads |-> op.heads,
            found |-> d.y + op.drop - op.need >= Low(d, k)]
  BY DEF LineAt
<1>6. Low(d, k) = Floor(k, d.page) /\ Low(d, k) \in Int
  BY DEF Low, Floor, Frame
<1>7. Short(c, k, op.need) <=> c.y - op.need < Floor(k, c.page)
  BY DEF Short, Low, Floor
<1> HIDE DEF d, ln, e
<1>8. d \in Cursor /\ e \in Cursor /\ ln \in Line
  <2>1. d \in Cursor
    BY <1>1, <1>2 DEF Cursor, Frame, Command
  <2>2. e \in Cursor
    BY <1>3, <2>1 DEF Cursor, Command
  <2>3. ln \in Line
    BY <1>5, <1>6, <2>1 DEF Cursor, Line, Frame, Command
  <2> QED BY <2>1, <2>2, <2>3
<1>9. Step(k, s, op) \in Spot
  BY <1>1, <1>4, <1>8 DEF Spot
<1>10. at.page > 0 => Follows(at, ln)
  BY <1>1, <1>2, <1>5, <1>7 DEF Holds, Follows, Cursor, Line, Frame, Command, TextFits, Facts
<1>11. at.page > 0 /\ at.heads /\ at.found => ln.page = at.page /\ ln.col = at.col
  <2> SUFFICES ASSUME at.heads, at.found PROVE ln.page = at.page /\ ln.col = at.col
    OBVIOUS
  <2>1. /\ ~a.free /\ c.y - a.keep >= Floor(k, c.page)
        /\ at.page = c.page /\ at.col = c.col
    BY <1>1 DEF Holds
  <2>2. a.keep >= op.need
    BY <2>1 DEF TextFits
  <2>3. Floor(k, c.page) \in Int /\ c.y \in Int /\ op.need \in Int /\ a.keep \in Int
    BY <1>1 DEF Floor, Frame, Cursor, Command, Facts
  <2>4. ~Short(c, k, op.need)
    BY <1>7, <2>1, <2>2, <2>3
  <2>5. d.page = c.page /\ d.col = c.col
    BY <1>2, <2>4
  <2> QED BY <1>5, <2>1, <2>5
<1>12. k.strict => Within(k, ln)
  BY <1>1, <1>2, <1>5, <1>6, <1>7
     DEF Holds, Within, Floor, Cursor, Line, Frame, Command, TextFits, Facts
<1>13. Good(k, s, op)
  BY <1>10, <1>11, <1>12 DEF Good, ln
<1>14. Holds(k, b, [cursor |-> e, line |-> ln, rows |-> IF op.row THEN s.rows + 1 ELSE s.rows])
  <2> DEFINE t == [cursor |-> e, line |-> ln, rows |-> IF op.row THEN s.rows + 1 ELSE s.rows]
  <2>0. t.cursor = e /\ t.line = ln /\ t.rows = IF op.row THEN s.rows + 1 ELSE s.rows
    OBVIOUS
  <2>8. e.page = d.page /\ e.col = d.col /\ e.y = d.y - op.step
    BY <1>3, <1>8 DEF Cursor
  <2>9. ln.page = d.page /\ ln.col = d.col /\ ln.y = d.y /\ ln.heads = op.heads
        /\ (ln.found <=> d.y + op.drop - op.need >= Floor(k, d.page))
    BY <1>5, <1>6
  <2>10. d.page \in Nat /\ d.y \in Int /\ Floor(k, d.page) \in Int
         /\ op.step \in Int /\ op.drop \in Int /\ op.need \in Int /\ b.keep \in Int
    BY <1>6, <1>8 DEF Cursor, Command, Facts
  <2>1. t.rows = b.rows
    BY <1>1, <2>0 DEF Holds, Facts, Command, TextFits
  <2>2. e.two = b.two /\ (e.two \/ e.col = 1) /\ e.first <= e.page
    BY <1>1, <1>2, <1>3 DEF Holds, Facts, Cursor, TextFits
  <2>3. Follows(ln, e)
    BY <2>8, <2>9, <2>10 DEF Follows, TextFits
  <2>4. b.two => e.colTop - k.deck >= Floor(k, e.first)
    BY <1>1, <1>2, <1>3 DEF Holds, Cursor, TextFits
  <2>5. b.later => e.page > 1
    BY <1>1, <1>2, <1>3 DEF Holds, Cursor, TextFits
  <2>6. ln.heads /\ ln.found => /\ ~b.free
                                /\ ln.page = e.page /\ ln.col = e.col
                                /\ e.y - b.keep >= Floor(k, e.page)
    <3>1. ln.heads => ~b.free /\ b.keep <= op.need - op.drop - op.step
      BY <2>9 DEF TextFits
    <3> QED BY <2>8, <2>9, <2>10, <3>1
  <2>7. b.known /\ (b.off => e.page > e.first) => e.y - b.room >= Floor(k, e.page)
    BY SMTT(60), <1>1, <1>2, <1>3, <1>7, <1>8
       DEF Holds, Floor, Cursor, Command, TextFits, RoomAfter, Facts, Frame
  <2> HIDE DEF t
  <2> QED BY <2>0, <2>1, <2>2, <2>3, <2>4, <2>5, <2>6, <2>7 DEF Holds
<1> QED BY <1>4, <1>9, <1>13, <1>14 DEF In

LEMMA StepOfPlain ==
  ASSUME NEW k \in Frame, NEW a \in Facts, NEW b \in Facts, NEW op \in Command,
         PlainFits(k, a, op, b), NEW s \in In(k, a)
  PROVE  Good(k, s, op) /\ Step(k, s, op) \in In(k, b)
<1> DEFINE c == s.cursor
           at == s.line
           ln == LineAt(k, c, op)
           e == After(c, k, op)
           t == [cursor |-> e, line |-> ln, rows |-> IF op.row THEN s.rows + 1 ELSE s.rows]
<1>1. s \in Spot /\ c \in Cursor /\ at \in Line /\ s.rows \in Nat /\ Holds(k, a, s)
  BY DEF In, Spot
<1>2. Placed(c, k, op) = c
  BY DEF Placed, PlainFits
<1>3. e = [c EXCEPT !.y = c.y - op.step]
  BY <1>2 DEF After
<1>4. Step(k, s, op) = t
  BY DEF Step, Draws, Writes, PlainFits
<1>5. ln = [page |-> c.page, col |-> c.col, y |-> c.y, part |-> k.part,
            over |-> Floor(k, c.page) - c.y, heads |-> op.heads,
            found |-> c.y + op.drop - op.need >= Floor(k, c.page)]
  BY <1>2 DEF LineAt, Low, Floor
<1>6. Floor(k, c.page) \in Int
  BY DEF Floor, Frame
<1> HIDE DEF ln, e
<1>7. e \in Cursor /\ ln \in Line
  BY <1>1, <1>3, <1>5, <1>6 DEF Cursor, Line, Frame, Command
<1>8. t \in Spot
  BY <1>1, <1>7 DEF Spot
<1>9. at.page > 0 => Follows(at, ln)
  BY <1>1, <1>5 DEF Holds, Follows, Cursor, Line
<1>10. at.page > 0 /\ at.heads /\ at.found => ln.page = at.page /\ ln.col = at.col
  BY <1>1, <1>5 DEF Holds
<1>11. k.strict => Within(k, ln)
  BY <1>1, <1>5, <1>6 DEF Holds, Within, Cursor, Frame, PlainFits, Facts
<1>12. Good(k, s, op)
  BY <1>9, <1>10, <1>11 DEF Good, ln
<1>13. t.cursor = e /\ t.line = ln /\ t.rows = IF op.row THEN s.rows + 1 ELSE s.rows
  OBVIOUS
<1> HIDE DEF t
<1>14. Holds(k, b, t)
  <2>1. t.rows = b.rows
    BY <1>1, <1>13 DEF Holds, Facts, Command, PlainFits
  <2>2. e.two = b.two /\ (e.two \/ e.col = 1) /\ e.first <= e.page
    BY <1>1, <1>3 DEF Holds, Facts, Cursor, PlainFits
  <2>3. Follows(ln, e)
    BY <1>1, <1>3, <1>5, <1>7 DEF Follows, Cursor, Command, PlainFits
  <2>4. b.two => e.colTop - k.deck >= Floor(k, e.first)
    BY <1>1, <1>3 DEF Holds, Cursor, PlainFits
  <2>5. b.later => e.page > 1
    BY <1>1, <1>3 DEF Holds, Cursor, PlainFits
  <2>6. ln.heads /\ ln.found => /\ ~b.free
                                /\ ln.page = e.page /\ ln.col = e.col
                                /\ e.y - b.keep >= Floor(k, e.page)
    BY <1>1, <1>3, <1>5, <1>6, <1>7 DEF Holds, Cursor, Command, PlainFits, Facts
  <2>7. b.known /\ (b.off => e.page > e.first) => e.y - b.room >= Floor(k, e.page)
    BY <1>1, <1>3, <1>6, <1>7 DEF Holds, Cursor, Command, PlainFits, Facts
  <2> QED BY <1>13, <2>1, <2>2, <2>3, <2>4, <2>5, <2>6, <2>7 DEF Holds
<1> QED BY <1>4, <1>8, <1>12, <1>14 DEF In

\* A command that draws nothing: what is to be shown of the cursor it leaves.
LEMMA StepOfMove ==
  ASSUME NEW k \in Frame, NEW a \in Facts, NEW b \in Facts, NEW op \in Command,
         op.act \notin {"text", "plain"}, ~op.row, NEW s \in In(k, a), a.free,
         b.rows = a.rows,
         NEW e \in Cursor, e = After(s.cursor, k, op),
         e.two = b.two, e.two \/ e.col = 1, e.first <= e.page,
         s.line.page = 0 \/ Follows(s.line, e),
         b.two => e.colTop - k.deck >= Floor(k, e.first),
         b.later => e.page > 1,
         b.known /\ (b.off => e.page > e.first) => e.y - b.room >= Floor(k, e.page)
  PROVE  Good(k, s, op) /\ Step(k, s, op) \in In(k, b)
<1>1. s \in Spot /\ s.line \in Line /\ s.rows \in Nat /\ Holds(k, a, s)
  BY DEF In, Spot
<1>2. Good(k, s, op)
  BY DEF Good, Writes
<1> DEFINE t == [cursor |-> e, line |-> s.line, rows |-> s.rows]
<1>3. Step(k, s, op) = t
  BY DEF Step, Draws, Writes
<1>4. t \in Spot /\ t.cursor = e /\ t.line = s.line /\ t.rows = s.rows
  BY <1>1 DEF Spot
<1>5. ~(s.line.heads /\ s.line.found) /\ s.rows = a.rows
  BY <1>1 DEF Holds
<1> HIDE DEF t
<1>6. Holds(k, b, t)
  BY <1>4, <1>5 DEF Holds
<1> QED BY <1>2, <1>3, <1>4, <1>6 DEF In

-----------------------------------------------------------------------------
(***************************************************************************)
(* Every command leads from the facts before it to those after it.         *)
(***************************************************************************)

LEMMA SpotIn ==
  ASSUME NEW k, NEW a, NEW s \in In(k, a)
  PROVE  /\ s \in Spot /\ s.cursor \in Cursor /\ s.line \in Line /\ s.rows \in Nat
         /\ Holds(k, a, s)
BY DEF In, Spot

\* A cursor of the same flow at another place.
Moved(c, p, q, h) == [page |-> p, col |-> q, y |-> h, two |-> c.two,
                      first |-> c.first, colTop |-> c.colTop]

Put(c, p, q, h) == [c EXCEPT !.page = p, !.col = q, !.y = h]

LEMMA CursorExcept ==
  ASSUME NEW c \in Cursor, NEW p \in Nat \ {0}, NEW q \in {1, 2}, NEW h \in Int
  PROVE  Put(c, p, q, h) = Moved(c, p, q, h)
<1> DEFINE d == [c EXCEPT !.page = p, !.col = q, !.y = h]
<1>1. d.page = p /\ d.col = q /\ d.y = h /\ d.two = c.two /\ d.first = c.first /\ d.colTop = c.colTop
  BY DEF Cursor
<1>2. d \in Cursor
  BY DEF Cursor
<1>3. d = [page |-> d.page, col |-> d.col, y |-> d.y, two |-> d.two,
                              first |-> d.first, colTop |-> d.colTop]
  <2> HIDE DEF d
  <2> QED BY <1>2 DEF Cursor
<1> HIDE DEF d
<1> QED BY <1>1, <1>3 DEF d, Moved, Put

LEMMA PageCursor ==
  ASSUME NEW c \in Cursor, NEW h \in Int
  PROVE  /\ NextPage(c, h) = [page |-> c.page + 1, col |-> 1, y |-> h, two |-> c.two,
                              first |-> c.first, colTop |-> c.colTop]
         /\ NextPage(c, h) \in Cursor
<1>1. NextPage(c, h) = [page |-> c.page + 1, col |-> 1, y |-> h, two |-> c.two,
                        first |-> c.first, colTop |-> c.colTop]
  <2> DEFINE p == c.page + 1
             q == 1
  <2>1. p \in Nat \ {0} /\ q \in {1, 2}
    BY DEF Cursor
  <2>2. NextPage(c, h) = Put(c, p, q, h)
    BY DEF NextPage, Put
  <2> HIDE DEF p, q
  <2>3. NextPage(c, h) = Moved(c, p, q, h)
    BY <2>1, <2>2, CursorExcept
  <2> QED BY <2>3 DEF p, q, Moved
<1>2. c.page + 1 \in Nat \ {0} /\ c.two \in BOOLEAN /\ c.first \in Nat \ {0} /\ c.colTop \in Int
  BY DEF Cursor
<1> QED BY <1>1, <1>2 DEF Cursor

LEMMA ColumnCursor ==
  ASSUME NEW k \in Frame, NEW c \in Cursor
  PROVE  /\ NextColumn(c, k) = [page |-> c.page, col |-> 2,
                                y |-> IF c.page = c.first THEN c.colTop ELSE k.top,
                                two |-> c.two, first |-> c.first, colTop |-> c.colTop]
         /\ NextColumn(c, k) \in Cursor
<1> DEFINE h == IF c.page = c.first THEN c.colTop ELSE k.top
<1>2. /\ c.page \in Nat \ {0} /\ c.two \in BOOLEAN /\ c.first \in Nat \ {0}
      /\ c.colTop \in Int /\ k.top \in Int /\ h \in Int
  BY DEF Cursor, Frame
<1>1. NextColumn(c, k) = [page |-> c.page, col |-> 2, y |-> h, two |-> c.two,
                          first |-> c.first, colTop |-> c.colTop]
  <2>1. NextColumn(c, k) = [c EXCEPT !.col = 2, !.y = h]
    BY DEF NextColumn
  <2>2. [c EXCEPT !.col = 2, !.y = h] = [c EXCEPT !.page = c.page, !.col = 2, !.y = h]
    BY DEF Cursor
  <2> DEFINE p == c.page
             q == 2
  <2>3. p \in Nat \ {0} /\ q \in {1, 2} /\ h \in Int
    BY <1>2
  <2>4. NextColumn(c, k) = Put(c, p, q, h)
    BY <2>1, <2>2 DEF Put
  <2> HIDE DEF h, p, q
  <2>5. NextColumn(c, k) = Moved(c, p, q, h)
    BY <2>3, <2>4, CursorExcept
  <2> QED BY <2>5 DEF p, q, Moved
<1> QED BY <1>1, <1>2 DEF Cursor

LEMMA StillCursor ==
  ASSUME NEW k, NEW c, NEW op, op.step = 0, Placed(c, k, op) \in Cursor
  PROVE  After(c, k, op) = Placed(c, k, op)
BY DEF After, Cursor

LEMMA StepOfRoom ==
  ASSUME NEW k \in Frame, NEW a \in Facts, NEW b \in Facts, NEW op \in Command,
         RoomFits(k, a, op, b), ~op.row, NEW s \in In(k, a)
  PROVE  Good(k, s, op) /\ Step(k, s, op) \in In(k, b)
<1> DEFINE c == s.cursor
           d == Placed(c, k, op)
           e == After(c, k, op)
           stays == \/ ~Short(c, k, op.need)
                    \/ op.heads /\ c.y >= (IF c.page = 1 THEN c.colTop ELSE k.top)
<1>1. s \in Spot /\ c \in Cursor /\ s.line \in Line /\ s.rows \in Nat /\ Holds(k, a, s)
  BY SpotIn
<1>2. CASE stays
  <2>1. d = c
    BY <1>2 DEF Placed, Fit, RoomFits
  <2>2. e = c
    BY <1>1, <2>1 DEF After, Cursor, RoomFits
  <2>3. Short(c, k, op.need) <=> c.y - op.need < Floor(k, c.page)
    BY DEF Short, Low, Floor
  <2>4. b.known /\ (b.off => e.page > e.first) => e.y - b.room >= Floor(k, e.page)
    BY <1>1, <1>2, <2>2, <2>3
       DEF Holds, Cursor, Command, Facts, Frame, Floor, RoomFits, RoomAfter
  <2> HIDE DEF e, d
  <2>5. /\ e \in Cursor /\ e.two = b.two /\ (e.two \/ e.col = 1) /\ e.first <= e.page
        /\ s.line.page = 0 \/ Follows(s.line, e)
        /\ b.two => e.colTop - k.deck >= Floor(k, e.first)
        /\ b.later => e.page > 1
    BY <1>1, <2>2 DEF Holds, RoomFits
  <2> QED BY <2>4, <2>5, StepOfMove DEF RoomFits, e
<1>3. CASE ~stays
  <2>1. Short(c, k, op.need) /\ d = Break(c, k)
    BY <1>3 DEF Placed, Fit, RoomFits
  <2>2. CASE c.two /\ c.col = 1
    <3>1. e = NextColumn(c, k) /\ e \in Cursor
      BY <1>1, <2>1, <2>2, ColumnCursor, StillCursor DEF Break, RoomFits
    <3>0. e = [page |-> c.page, col |-> 2, y |-> IF c.page = c.first THEN c.colTop ELSE k.top,
               two |-> c.two, first |-> c.first, colTop |-> c.colTop]
      BY <1>1, <3>1, ColumnCursor
    <3> HIDE DEF e
    <3>2. /\ e \in Cursor /\ e.two = b.two /\ e.two /\ e.first <= e.page
          /\ b.two => e.colTop - k.deck >= Floor(k, e.first)
          /\ b.later => e.page > 1
      BY <1>1, <2>2, <3>0, <3>1 DEF Holds, Cursor, Frame, RoomFits
    <3>3. s.line.page = 0 \/ Follows(s.line, e)
      BY <1>1, <2>2, <3>0, <3>1 DEF Holds, Follows, Cursor, Line
    <3>4. b.known /\ (b.off => e.page > e.first) => e.y - b.room >= Floor(k, e.page)
      BY <1>1, <2>2, <3>0, <3>1 DEF Holds, Cursor, Frame, Floor, RoomFits, RoomAfter, Facts
    <3> QED BY <3>2, <3>3, <3>4, StepOfMove DEF RoomFits, e
  <2>3. CASE ~(c.two /\ c.col = 1)
    <3>1. e = NextPage(c, k.top) /\ e \in Cursor
      <4>1. k.top \in Int /\ d = NextPage(c, k.top)
        BY <2>1, <2>3 DEF Break, Frame
      <4>2. op.step = 0
        BY DEF RoomFits
      <4> HIDE DEF c
      <4>3. d \in Cursor
        BY <1>1, <4>1, PageCursor
      <4>4. e = d
        BY <4>2, <4>3, StillCursor
      <4> QED BY <4>1, <4>3, <4>4
    <3>0. e = [page |-> c.page + 1, col |-> 1, y |-> k.top, two |-> c.two,
               first |-> c.first, colTop |-> c.colTop]
      BY <1>1, <3>1, PageCursor DEF Frame
    <3> HIDE DEF e
    <3>2. /\ e \in Cursor /\ e.two = b.two /\ e.col = 1 /\ e.first <= e.page
          /\ b.two => e.colTop - k.deck >= Floor(k, e.first)
          /\ b.later => e.page > 1
      BY <1>1, <3>0, <3>1 DEF Holds, Cursor, Frame, RoomFits
    <3>3. s.line.page = 0 \/ Follows(s.line, e)
      BY <1>1, <3>0, <3>1 DEF Holds, Follows, Cursor, Line
    <3>4. b.known /\ (b.off => e.page > e.first) => e.y - b.room >= Floor(k, e.page)
      BY <1>1, <3>0, <3>1 DEF Holds, Cursor, Frame, Floor, RoomFits, RoomAfter, Facts
    <3> QED BY <3>2, <3>3, <3>4, StepOfMove DEF RoomFits, e
  <2> QED BY <2>2, <2>3
<1> QED BY <1>2, <1>3

LEMMA StepOfGap ==
  ASSUME NEW k \in Frame, NEW a \in Facts, NEW b \in Facts, NEW op \in Command,
         GapFits(k, a, op, b), ~op.row, NEW s \in In(k, a)
  PROVE  Good(k, s, op) /\ Step(k, s, op) \in In(k, b)
<1> DEFINE c == s.cursor
           e == After(c, k, op)
<1>1. s \in Spot /\ c \in Cursor /\ s.line \in Line /\ s.rows \in Nat /\ Holds(k, a, s)
  BY SpotIn
<1>2. Placed(c, k, op) = c
  BY DEF Placed, GapFits
<1>3. e = [c EXCEPT !.y = c.y - op.step]
  BY <1>2 DEF After
<1>4. /\ e \in Cursor /\ e.two = b.two /\ (e.two \/ e.col = 1) /\ e.first <= e.page
      /\ b.two => e.colTop - k.deck >= Floor(k, e.first)
      /\ b.later => e.page > 1
  BY <1>1, <1>3 DEF Holds, Cursor, Command, GapFits
<1>5. s.line.page = 0 \/ Follows(s.line, e)
  BY <1>1, <1>3 DEF Holds, Follows, Cursor, Line, Command, GapFits
<1>6. b.known /\ (b.off => e.page > e.first) => e.y - b.room >= Floor(k, e.page)
  BY <1>1, <1>3 DEF Holds, Cursor, Command, Frame, Floor, GapFits, Facts
<1> HIDE DEF e
<1> QED BY <1>4, <1>5, <1>6, StepOfMove DEF GapFits, e

LEMMA StepOfColumns ==
  ASSUME NEW k \in Frame, NEW a \in Facts, NEW b \in Facts, NEW op \in Command,
         ColumnsFit(k, a, op, b), ~op.row, NEW s \in In(k, a)
  PROVE  /\ Good(k, s, op) /\ Step(k, s, op) \in In(k, b)
         /\ Step(k, s, op).cursor.page = Step(k, s, op).cursor.first
         /\ Step(k, s, op).cursor.col = 1
<1> DEFINE c == s.cursor
           e == After(c, k, op)
<1>1. s \in Spot /\ c \in Cursor /\ s.line \in Line /\ s.rows \in Nat /\ Holds(k, a, s)
  BY SpotIn
<1>2. Placed(c, k, op) = [c EXCEPT !.two = TRUE, !.col = 1, !.first = c.page, !.colTop = c.y]
  BY DEF Placed, ColumnsFit
<1> DEFINE d == [page |-> c.page, col |-> 1, y |-> c.y, two |-> TRUE,
                 first |-> c.page, colTop |-> c.y]
<1>0. Placed(c, k, op) = d /\ d \in Cursor
  BY <1>1, <1>2 DEF Cursor
<1>3. e = d /\ e \in Cursor
  <2> HIDE DEF d
  <2> QED BY <1>0, StillCursor DEF ColumnsFit
<1>4. /\ e \in Cursor /\ e.two = b.two /\ e.two /\ e.first <= e.page
      /\ b.two => e.colTop - k.deck >= Floor(k, e.first)
      /\ b.later => e.page > 1
  BY <1>1, <1>3 DEF Holds, Cursor, Frame, Floor, Facts, ColumnsFit
<1>5. s.line.page = 0 \/ Follows(s.line, e)
  BY <1>1, <1>3 DEF Holds, Follows, Cursor, Line, Facts, ColumnsFit
<1>6. b.known /\ (b.off => e.page > e.first) => e.y - b.room >= Floor(k, e.page)
  BY <1>1, <1>3 DEF Holds, Cursor, Frame, Floor, ColumnsFit, Facts
<1>7. e.page = e.first /\ e.col = 1
  BY <1>1, <1>3 DEF Cursor
<1>8. Step(k, s, op).cursor = e
  BY DEF Step
<1> HIDE DEF e
<1> QED BY <1>4, <1>5, <1>6, <1>7, <1>8, StepOfMove DEF ColumnsFit, e

\* A new page, from wherever the flow is.
LEMMA StepToPage ==
  ASSUME NEW k \in Frame, NEW a \in Facts, NEW b \in Facts, NEW op \in Command,
         op.act \notin {"text", "plain"}, ~op.row, op.step = 0, NEW s \in In(k, a), a.free,
         NEW h \in Int, Placed(s.cursor, k, op) = NextPage(s.cursor, h),
         b.two = a.two, b.rows = a.rows, b.known => b.room <= h - k.low2
  PROVE  Good(k, s, op) /\ Step(k, s, op) \in In(k, b)
<1> DEFINE c == s.cursor
           e == After(c, k, op)
<1>1. s \in Spot /\ c \in Cursor /\ s.line \in Line /\ s.rows \in Nat /\ Holds(k, a, s)
  BY SpotIn
<1>2. e = NextPage(c, h) /\ e \in Cursor
  <2>1. Placed(c, k, op) \in Cursor /\ Placed(c, k, op) = NextPage(c, h)
    BY <1>1, PageCursor
  <2> QED BY <2>1, StillCursor
<1>3. e = [page |-> c.page + 1, col |-> 1, y |-> h, two |-> c.two,
           first |-> c.first, colTop |-> c.colTop]
  BY <1>1, <1>2, PageCursor
<1> HIDE DEF e
<1>4. /\ e \in Cursor /\ e.two = b.two /\ e.col = 1 /\ e.first <= e.page
      /\ b.two => e.colTop - k.deck >= Floor(k, e.first)
      /\ b.later => e.page > 1
  BY <1>1, <1>2, <1>3 DEF Holds, Cursor
<1>5. s.line.page = 0 \/ Follows(s.line, e)
  BY <1>1, <1>3 DEF Holds, Follows, Cursor, Line
<1>6. b.known /\ (b.off => e.page > e.first) => e.y - b.room >= Floor(k, e.page)
  BY <1>1, <1>3 DEF Cursor, Frame, Floor, Facts
<1> QED BY <1>4, <1>5, <1>6, StepOfMove DEF e

\* A command that leaves the cursor where it is.
LEMMA StepInPlace ==
  ASSUME NEW k \in Frame, NEW a \in Facts, NEW b \in Facts, NEW op \in Command,
         op.act \notin {"text", "plain"}, ~op.row, op.step = 0, NEW s \in In(k, a), a.free,
         Placed(s.cursor, k, op) = s.cursor,
         b.two = a.two, b.rows = a.rows, b.later => s.cursor.page > 1,
         b.known => a.known /\ (a.off => b.off) /\ b.room <= a.room
  PROVE  Good(k, s, op) /\ Step(k, s, op) \in In(k, b)
<1> DEFINE c == s.cursor
           e == After(c, k, op)
<1>1. s \in Spot /\ c \in Cursor /\ s.line \in Line /\ s.rows \in Nat /\ Holds(k, a, s)
  BY SpotIn
<1>3. e = c
  BY <1>1 DEF After, Cursor
<1>4. /\ e \in Cursor /\ e.two = b.two /\ (e.two \/ e.col = 1) /\ e.first <= e.page
      /\ b.two => e.colTop - k.deck >= Floor(k, e.first)
      /\ b.later => e.page > 1
      /\ s.line.page = 0 \/ Follows(s.line, e)
  BY <1>1, <1>3 DEF Holds
<1>6. b.known /\ (b.off => e.page > e.first) => e.y - b.room >= Floor(k, e.page)
  BY <1>1, <1>3 DEF Holds, Cursor, Frame, Floor, Facts
<1> HIDE DEF e
<1> QED BY <1>4, <1>6, StepOfMove DEF e

-----------------------------------------------------------------------------
LEMMA RuleText ==
  ASSUME NEW k \in Frame, NEW a \in Facts, NEW b \in Facts, NEW op \in Command,
         TextFits(k, a, op, b)
  PROVE  Rule(k, In(k, a), <<op>>, In(k, b))
BY StepOfText, RuleOne

LEMMA RulePlain ==
  ASSUME NEW k \in Frame, NEW a \in Facts, NEW b \in Facts, NEW op \in Command,
         PlainFits(k, a, op, b)
  PROVE  Rule(k, In(k, a), <<op>>, In(k, b))
BY StepOfPlain, RuleOne

LEMMA RuleRoom ==
  ASSUME NEW k \in Frame, NEW a \in Facts, NEW b \in Facts, NEW op \in Command,
         RoomFits(k, a, op, b), ~op.row
  PROVE  Rule(k, In(k, a), <<op>>, In(k, b))
BY StepOfRoom, RuleOne

LEMMA RuleGap ==
  ASSUME NEW k \in Frame, NEW a \in Facts, NEW b \in Facts, NEW op \in Command,
         GapFits(k, a, op, b), ~op.row
  PROVE  Rule(k, In(k, a), <<op>>, In(k, b))
BY StepOfGap, RuleOne

LEMMA RuleColumns ==
  ASSUME NEW k \in Frame, NEW a \in Facts, NEW b \in Facts, NEW op \in Command,
         ColumnsFit(k, a, op, b), ~op.row
  PROVE  Rule(k, In(k, a), <<op>>,
              {s \in In(k, b) : s.cursor.page = s.cursor.first /\ s.cursor.col = 1})
<1> DEFINE Q == {s \in In(k, b) : s.cursor.page = s.cursor.first /\ s.cursor.col = 1}
<1>1. \A s \in In(k, a) : Good(k, s, op) /\ Step(k, s, op) \in Q
  BY StepOfColumns
<1> HIDE DEF Q
<1>2. Rule(k, In(k, a), <<op>>, Q)
  BY <1>1, RuleOne
<1> QED BY <1>2 DEF Q

LEMMA RulePage ==
  ASSUME NEW k \in Frame, NEW a \in Facts, NEW b \in Facts, NEW op \in Command,
         PageFits(k, a, op, b), ~op.row
  PROVE  Rule(k, In(k, a), <<op>>, In(k, b))
<1>1. ASSUME NEW s \in In(k, a) PROVE Good(k, s, op) /\ Step(k, s, op) \in In(k, b)
  <2>1. Placed(s.cursor, k, op) = NextPage(s.cursor, op.drop) /\ op.drop \in Int
    BY DEF Placed, PageFits, Command
  <2> QED BY <2>1, StepToPage DEF PageFits
<1> QED BY <1>1, RuleOne

LEMMA RuleOff ==
  ASSUME NEW k \in Frame, NEW a \in Facts, NEW b \in Facts, NEW op \in Command,
         OffFits(k, a, op, b), ~op.row
  PROVE  Rule(k, In(k, a), <<op>>, In(k, b))
<1>1. ASSUME NEW s \in In(k, a) PROVE Good(k, s, op) /\ Step(k, s, op) \in In(k, b)
  <2>1. CASE s.cursor.page = s.cursor.first
    <3>1. Placed(s.cursor, k, op) = NextPage(s.cursor, k.top) /\ k.top \in Int
      BY <2>1 DEF Placed, OffFits, Frame
    <3> QED BY <3>1, StepToPage DEF OffFits
  <2>2. CASE s.cursor.page # s.cursor.first
    <3>1. Placed(s.cursor, k, op) = s.cursor
      BY <2>2 DEF Placed, OffFits
    <3>2. s.cursor.page > 1
      BY <2>2, SpotIn DEF Holds, Cursor
    <3> QED BY <3>1, <3>2, StepInPlace DEF OffFits
  <2> QED BY <2>1, <2>2
<1> QED BY <1>1, RuleOne

LEMMA RuleFixed ==
  ASSUME NEW k \in Frame, NEW a \in Facts, NEW op \in Command,
         a.free, op.act = "fixed", op.step = 0, ~op.row
  PROVE  \A s \in In(k, a) : Good(k, s, op) /\ Step(k, s, op) \in In(k, a)
<1>1. ASSUME NEW s \in In(k, a) PROVE Good(k, s, op) /\ Step(k, s, op) \in In(k, a)
  <2>1. Placed(s.cursor, k, op) = s.cursor
    BY DEF Placed
  <2>2. a.later => s.cursor.page > 1
    BY SpotIn DEF Holds
  <2>3. a.room \in Int
    BY DEF Facts
  <2> QED BY <2>1, <2>2, <2>3, StepInPlace
<1> QED BY <1>1

-----------------------------------------------------------------------------
(***************************************************************************)
(* The facts the layouts meet, and the commands they are built from.       *)
(***************************************************************************)

\* The frames of the layouts: a page takes a heading and what it keeps.
Frames == {k \in Frame : k.top - k.low2 >= 40000 /\ k.deck >= -1200}
\* Nothing is kept for a heading, and no room is known of.
Resting == {a \in Facts : a.free /\ ~a.known}
\* A heading was drawn last, with room x below it.
Pending(a, x) == [a EXCEPT !.free = FALSE, !.keep = x]
\* There is room x above the floor.
Roomy(a, x) == [a EXCEPT !.known = TRUE, !.off = FALSE, !.room = x]
\* n more rows have been drawn.
Counted(a, n) == [a EXCEPT !.rows = @ + n]

LEMMA FactsOf ==
  ASSUME NEW a \in Facts, NEW x \in Int, NEW n \in Nat
  PROVE  /\ Pending(a, x) \in Facts /\ Roomy(a, x) \in Facts /\ Counted(a, n) \in Facts
         /\ Counted(a, 0) = a
<1>1. Pending(a, x) \in Facts
  BY DEF Pending, Facts
<1>2. Roomy(a, x) \in Facts
  BY DEF Roomy, Facts
<1>3. Counted(a, n) \in Facts
  <2>1. a.rows + n \in Nat
    BY DEF Facts
  <2>2. \A m \in Nat : [a EXCEPT !.rows = m] \in Facts
    BY DEF Facts
  <2> QED BY <2>1, <2>2 DEF Counted
<1>4. Counted(a, 0) = a
  <2>1. a.rows + 0 = a.rows
    BY DEF Facts
  <2>2. [a EXCEPT !.rows = a.rows] = a
    BY DEF Facts
  <2> QED BY <2>1, <2>2 DEF Counted
<1> QED BY <1>1, <1>2, <1>3, <1>4

LEMMA CountedTwice ==
  ASSUME NEW a \in Facts, NEW m \in Nat, NEW n \in Nat
  PROVE  Counted(Counted(a, m), n) = Counted(a, m + n)
<1>1. \A i, j \in Nat : [[a EXCEPT !.rows = i] EXCEPT !.rows = j] = [a EXCEPT !.rows = j]
  BY DEF Facts
<1>2. a.rows \in Nat /\ [a EXCEPT !.rows = a.rows + m].rows = a.rows + m
  BY DEF Facts
<1>3. a.rows + m + n = a.rows + (m + n) /\ a.rows + m \in Nat /\ a.rows + m + n \in Nat
  BY <1>2
<1> QED BY <1>1, <1>2, <1>3 DEF Counted

LEMMA CountedResting ==
  ASSUME NEW a \in Resting, NEW n \in Nat
  PROVE  Counted(a, n) \in Resting
<1>1. Counted(a, n) \in Facts
  BY FactsOf DEF Resting
<1>2. Counted(a, n).free = a.free /\ Counted(a, n).known = a.known
  BY DEF Counted, Facts, Resting
<1> QED BY <1>1, <1>2 DEF Resting

-----------------------------------------------------------------------------
(* What the commands are.                                                  *)

Is(op, act, need, drop, step, kind) ==
  /\ op \in Command
  /\ op.act = act /\ op.need = need /\ op.drop = drop /\ op.step = step
  /\ op.heads <=> kind = "head"
  /\ op.row <=> kind = "row"

LEMMA ExceptAct ==
  ASSUME NEW d, NEW act, NEW need, NEW drop, NEW step, NEW kind, NEW x \in Acts,
         Is(d, act, need, drop, step, kind)
  PROVE  Is([d EXCEPT !.act = x], x, need, drop, step, kind)
BY DEF Command, Is

LEMMA ExceptDrop ==
  ASSUME NEW d, NEW act, NEW need, NEW drop, NEW step, NEW kind, NEW x \in Int,
         Is(d, act, need, drop, step, kind)
  PROVE  Is([d EXCEPT !.drop = x], act, need, x, step, kind)
BY DEF Command, Is

LEMMA ExceptHeads ==
  ASSUME NEW d, NEW act, NEW need, NEW drop, NEW step,
         Is(d, act, need, drop, step, "line")
  PROVE  Is([d EXCEPT !.heads = TRUE], act, need, drop, step, "head")
BY DEF Command, Is

LEMMA ExceptRow ==
  ASSUME NEW d, NEW act, NEW need, NEW drop, NEW step,
         Is(d, act, need, drop, step, "line")
  PROVE  Is([d EXCEPT !.row = TRUE], act, need, drop, step, "row")
BY DEF Command, Is

LEMMA TextIs ==
  ASSUME NEW need \in Int, NEW step \in Int
  PROVE  Is(Text(need, step), "text", need, 0, step, "line")
BY DEF Text, Command, Acts, Is

LEMMA HeadingIs ==
  ASSUME NEW need \in Int, NEW step \in Int
  PROVE  Is(Heading(need, step), "text", need, 0, step, "head")
<1>1. TRUE \in BOOLEAN
  OBVIOUS
<1> QED BY <1>1, TextIs, ExceptHeads DEF Heading

LEMMA TableRowIs ==
  ASSUME NEW need \in Int, NEW step \in Int
  PROVE  Is(TableRow(need, step), "text", need, 0, step, "row")
<1>1. TRUE \in BOOLEAN
  OBVIOUS
<1> QED BY <1>1, TextIs, ExceptRow DEF TableRow

LEMMA LoweredIs ==
  ASSUME NEW need \in Int, NEW drop \in Int, NEW step \in Int
  PROVE  Is(Lowered(need, drop, step), "text", need, drop, step, "line")
BY TextIs, ExceptDrop DEF Lowered

LEMMA PlainIs ==
  ASSUME NEW step \in Int
  PROVE  Is(Plain(step), "plain", 0, 0, step, "line")
<1>1. "plain" \in Acts /\ 0 \in Int
  BY DEF Acts
<1>2. Is(Text(0, step), "text", 0, 0, step, "line")
  BY <1>1, TextIs
<1> QED BY <1>1, <1>2, ExceptAct DEF Plain

LEMMA PlainHeadingIs ==
  ASSUME NEW step \in Int
  PROVE  Is(PlainHeading(step), "plain", 0, 0, step, "head")
<1>1. TRUE \in BOOLEAN
  OBVIOUS
<1> QED BY <1>1, PlainIs, ExceptHeads DEF PlainHeading

LEMMA FixedIs ==
  ASSUME NEW drop \in Int
  PROVE  Is(Fixed(drop), "fixed", 0, drop, 0, "line")
<1>1. "fixed" \in Acts /\ 0 \in Int
  BY DEF Acts
<1>2. Is([Text(0, 0) EXCEPT !.act = "fixed"], "fixed", 0, 0, 0, "line")
  BY <1>1, TextIs, ExceptAct
<1>3. Is([[Text(0, 0) EXCEPT !.act = "fixed"] EXCEPT !.drop = drop], "fixed", 0, drop, 0, "line")
  BY <1>2, ExceptDrop
<1> QED BY <1>3 DEF Fixed

LEMMA RoomIs ==
  ASSUME NEW need \in Int
  PROVE  Is(Room(need), "room", need, 0, 0, "line")
<1>1. "room" \in Acts /\ 0 \in Int
  BY DEF Acts
<1>2. Is(Text(need, 0), "text", need, 0, 0, "line")
  BY <1>1, TextIs
<1> QED BY <1>1, <1>2, ExceptAct DEF Room

LEMMA StartedRoomIs ==
  ASSUME NEW need \in Int
  PROVE  Is(StartedRoom(need), "room", need, 0, 0, "head")
<1>1. TRUE \in BOOLEAN
  OBVIOUS
<1> QED BY <1>1, RoomIs, ExceptHeads DEF StartedRoom

LEMMA GapIs ==
  ASSUME NEW step \in Int
  PROVE  Is(Gap(step), "gap", 0, 0, step, "line")
<1>1. "gap" \in Acts /\ 0 \in Int
  BY DEF Acts
<1> QED BY <1>1, PlainIs, ExceptAct DEF Gap

LEMMA ColumnsIs ==
  Is(Columns, "columns", 0, 0, 0, "line")
<1>1. "columns" \in Acts /\ 0 \in Int
  BY DEF Acts
<1> QED BY <1>1, PlainIs, ExceptAct DEF Columns

LEMMA RightColumnIs ==
  Is(RightColumn, "right", 0, 0, 0, "line")
<1>1. "right" \in Acts /\ 0 \in Int
  BY DEF Acts
<1> QED BY <1>1, PlainIs, ExceptAct DEF RightColumn

LEMMA FreshPageIs ==
  ASSUME NEW drop \in Int
  PROVE  Is(FreshPage(drop), "page", 0, drop, 0, "line")
<1>1. "page" \in Acts /\ 0 \in Int
  BY DEF Acts
<1>2. Is([Plain(0) EXCEPT !.act = "page"], "page", 0, 0, 0, "line")
  BY <1>1, PlainIs, ExceptAct
<1>3. Is([[Plain(0) EXCEPT !.act = "page"] EXCEPT !.drop = drop], "page", 0, drop, 0, "line")
  BY <1>2, ExceptDrop
<1> QED BY <1>3 DEF FreshPage

LEMMA OffFirstPageIs ==
  Is(OffFirstPage, "off", 0, 0, 0, "line")
<1>1. "off" \in Acts /\ 0 \in Int
  BY DEF Acts
<1> QED BY <1>1, PlainIs, ExceptAct DEF OffFirstPage

LEMMA LeavePageOneIs ==
  ASSUME NEW need \in Int, NEW drop \in Int
  PROVE  Is(LeavePageOne(need, drop), "leave", need, drop, 0, "line")
<1>1. "leave" \in Acts /\ 0 \in Int
  BY DEF Acts
<1>2. Is([Room(need) EXCEPT !.act = "leave"], "leave", need, 0, 0, "line")
  BY <1>1, RoomIs, ExceptAct
<1>3. Is([[Room(need) EXCEPT !.act = "leave"] EXCEPT !.drop = drop], "leave", need, drop, 0, "line")
  BY <1>2, ExceptDrop
<1> QED BY <1>3 DEF LeavePageOne

LEMMA PartIs ==
  ASSUME NEW x, NEW y, NEW z, NEW ops
  PROVE  /\ Part(x, y, z, ops).low1 = x /\ Part(x, y, z, ops).low2 = y
         /\ Part(x, y, z, ops).top = z /\ Part(x, y, z, ops).ops = ops
BY DEF Part

\* The commands of a page of one part.
LEMMA OnlyPart ==
  ASSUME NEW page, NEW x, NEW y, NEW z, NEW ops, page = <<Part(x, y, z, ops)>>
  PROVE  page[1].ops = ops
<1> DEFINE p == Part(x, y, z, ops)
<1>1. page = <<p>> /\ p.ops = ops
  BY PartIs
<1> HIDE DEF p
<1> QED BY <1>1

-----------------------------------------------------------------------------
(***************************************************************************)
(* One command: a line that asks for its room, a row, a heading.           *)
(***************************************************************************)

LEMMA RestIsPending ==
  ASSUME NEW k \in Frame, NEW a \in Resting, NEW x \in Int
  PROVE  In(k, a) \subseteq In(k, Pending(a, x))
<1> SUFFICES ASSUME NEW s \in In(k, a) PROVE s \in In(k, Pending(a, x))
  OBVIOUS
<1>1. s \in Spot /\ Holds(k, a, s)
  BY SpotIn
<1>2. /\ Pending(a, x).two = a.two /\ Pending(a, x).later = a.later
      /\ Pending(a, x).known = FALSE /\ Pending(a, x).rows = a.rows /\ a.free
  BY DEF Pending, Resting, Facts
<1>3. Holds(k, Pending(a, x), s)
  BY <1>1, <1>2 DEF Holds
<1> QED BY <1>1, <1>3 DEF In

LEMMA RoomyIsRest ==
  ASSUME NEW k \in Frame, NEW a \in Resting, NEW x \in Int
  PROVE  In(k, Roomy(a, x)) \subseteq In(k, a)
<1> SUFFICES ASSUME NEW s \in In(k, Roomy(a, x)) PROVE s \in In(k, a)
  OBVIOUS
<1>1. s \in Spot /\ Holds(k, Roomy(a, x), s)
  BY SpotIn
<1>2. /\ Roomy(a, x).two = a.two /\ Roomy(a, x).later = a.later
      /\ Roomy(a, x).free /\ ~a.known /\ Roomy(a, x).rows = a.rows
  BY DEF Roomy, Resting, Facts
<1>3. Holds(k, a, s)
  BY <1>1, <1>2 DEF Holds
<1> QED BY <1>1, <1>3 DEF In

\* What the three kinds of facts say.
LEMMA RestingFacts ==
  ASSUME NEW a \in Resting
  PROVE  a \in Facts /\ a.free /\ ~a.known
BY DEF Resting

LEMMA PendingFacts ==
  ASSUME NEW a \in Resting, NEW x \in Int
  PROVE  /\ Pending(a, x) \in Facts /\ ~Pending(a, x).free /\ Pending(a, x).keep = x
         /\ ~Pending(a, x).known /\ Pending(a, x).rows = a.rows
         /\ Pending(a, x).two = a.two /\ Pending(a, x).later = a.later
<1>1. a \in Facts /\ ~a.known
  BY RestingFacts
<1>2. Pending(a, x) \in Facts
  BY <1>1 DEF Pending, Facts
<1> QED BY <1>1, <1>2 DEF Pending, Facts

LEMMA RoomyFacts ==
  ASSUME NEW a \in Resting, NEW x \in Int
  PROVE  /\ Roomy(a, x) \in Facts /\ Roomy(a, x).free /\ Roomy(a, x).known
         /\ ~Roomy(a, x).off /\ Roomy(a, x).room = x /\ Roomy(a, x).rows = a.rows
         /\ Roomy(a, x).two = a.two /\ Roomy(a, x).later = a.later
<1>1. a \in Facts /\ a.free
  BY RestingFacts
<1>2. Roomy(a, x) \in Facts
  BY <1>1 DEF Roomy, Facts
<1> QED BY <1>1, <1>2 DEF Roomy, Facts

LEMMA CountedFacts ==
  ASSUME NEW a \in Resting, NEW n \in Nat
  PROVE  /\ Counted(a, n) \in Resting /\ Counted(a, n) \in Facts
         /\ Counted(a, n).free /\ ~Counted(a, n).known
         /\ Counted(a, n).rows = a.rows + n
         /\ Counted(a, n).two = a.two /\ Counted(a, n).later = a.later
<1>1. a \in Facts /\ a.free
  BY RestingFacts
<1>2. Counted(a, n) \in Resting
  BY CountedResting
<1>3. /\ Counted(a, n).rows = a.rows + n
      /\ Counted(a, n).two = a.two /\ Counted(a, n).later = a.later
  BY <1>1 DEF Counted, Facts
<1> QED BY <1>2, <1>3, RestingFacts

LEMMA FramesAre ==
  ASSUME NEW k \in Frames
  PROVE  /\ k \in Frame /\ k.front \in Nat /\ k.back \in Nat /\ k.top - k.low2 >= 40000
         /\ k.deck >= -1200 /\ k.deck \in Int /\ k.top \in Int /\ k.low2 \in Int
BY DEF Frames, Frame

\* A line that asks for its room, after anything that does not ask for more.
LEMMA TextRule ==
  ASSUME NEW k \in Frames, NEW a \in Resting, NEW need \in Nat, NEW step \in Nat \ {0}
  PROVE  /\ Rule(k, In(k, a), <<Text(need, step)>>, In(k, a))
         /\ \A x \in Int : x >= need =>
              Rule(k, In(k, Pending(a, x)), <<Text(need, step)>>, In(k, a))
<1>1. ASSUME NEW c \in Facts, c.two = a.two, c.later = a.later, c.rows = a.rows,
             c.free \/ c.keep >= need
      PROVE  Rule(k, In(k, c), <<Text(need, step)>>, In(k, a))
  <2>1. Is(Text(need, step), "text", need, 0, step, "line")
    <3>1. need \in Int /\ step \in Int
      OBVIOUS
    <3> QED BY <3>1, TextIs
  <2>2. a \in Facts /\ a.free /\ ~a.known
    BY RestingFacts
  <2>3. TextFits(k, c, Text(need, step), a)
    BY <1>1, <2>1, <2>2, FramesAre DEF TextFits, RoomAfter, Is, Facts
  <2> QED BY <1>1, <2>1, <2>2, <2>3, FramesAre, RuleText DEF Is
<1>2. \A x \in Int : x >= need =>
        Rule(k, In(k, Pending(a, x)), <<Text(need, step)>>, In(k, a))
  BY <1>1, PendingFacts
<1>3. a \in Facts /\ a.free
  BY RestingFacts
<1> QED BY <1>1, <1>2, <1>3

\* A row of a table.
LEMMA RowRule ==
  ASSUME NEW k \in Frames, NEW a \in Resting, NEW need \in Nat, NEW step \in Nat \ {0}
  PROVE  /\ Rule(k, In(k, a), <<TableRow(need, step)>>, In(k, Counted(a, 1)))
         /\ \A x \in Int : x >= need =>
              Rule(k, In(k, Pending(a, x)), <<TableRow(need, step)>>, In(k, Counted(a, 1)))
<1>1. ASSUME NEW c \in Facts, c.two = a.two, c.later = a.later, c.rows = a.rows,
             c.free \/ c.keep >= need
      PROVE  Rule(k, In(k, c), <<TableRow(need, step)>>, In(k, Counted(a, 1)))
  <2>1. Is(TableRow(need, step), "text", need, 0, step, "row")
    <3>1. need \in Int /\ step \in Int
      OBVIOUS
    <3> QED BY <3>1, TableRowIs
  <2>2. /\ Counted(a, 1) \in Facts /\ Counted(a, 1).free /\ ~Counted(a, 1).known
        /\ Counted(a, 1).two = a.two /\ Counted(a, 1).later = a.later
        /\ Counted(a, 1).rows = a.rows + 1
    BY CountedFacts
  <2> DEFINE b == Counted(a, 1)
  <2> HIDE DEF b
  <2>3. TextFits(k, c, TableRow(need, step), b)
    BY <1>1, <2>1, <2>2, FramesAre DEF TextFits, RoomAfter, Is, Facts, b
  <2> QED BY <1>1, <2>1, <2>2, <2>3, FramesAre, RuleText DEF Is, b
<1>2. \A x \in Int : x >= need =>
        Rule(k, In(k, Pending(a, x)), <<TableRow(need, step)>>, In(k, Counted(a, 1)))
  BY <1>1, PendingFacts
<1>3. a \in Facts /\ a.free
  BY RestingFacts
<1> QED BY <1>1, <1>2, <1>3

\* A heading that asks for its room keeps what it does not use of it.
LEMMA HeadingRule ==
  ASSUME NEW k \in Frames, NEW a \in Resting, NEW need \in Nat, NEW step \in Nat \ {0}
  PROVE  /\ Rule(k, In(k, a), <<Heading(need, step)>>, In(k, Pending(a, need - step)))
         /\ \A x \in Int : x >= need =>
              Rule(k, In(k, Pending(a, x)), <<Heading(need, step)>>, In(k, Pending(a, need - step)))
<1> DEFINE b == Pending(a, need - step)
<1>0. /\ b \in Facts /\ ~b.free /\ b.keep = need - step
      /\ ~b.known /\ b.rows = a.rows
      /\ b.two = a.two /\ b.later = a.later
  BY PendingFacts
<1> HIDE DEF b
<1>1. ASSUME NEW c \in Facts, c.two = a.two, c.later = a.later, c.rows = a.rows,
             c.free \/ c.keep >= need
      PROVE  Rule(k, In(k, c), <<Heading(need, step)>>, In(k, b))
  <2>1. Is(Heading(need, step), "text", need, 0, step, "head")
    <3>1. need \in Int /\ step \in Int
      OBVIOUS
    <3> QED BY <3>1, HeadingIs
  <2>3. TextFits(k, c, Heading(need, step), b)
    BY <1>0, <1>1, <2>1, FramesAre DEF TextFits, RoomAfter, Is, Facts
  <2> QED BY <1>0, <1>1, <2>1, <2>3, FramesAre, RuleText DEF Is
<1>2. \A x \in Int : x >= need =>
        Rule(k, In(k, Pending(a, x)), <<Heading(need, step)>>, In(k, b))
  BY <1>1, PendingFacts
<1>3. a \in Facts /\ a.free
  BY RestingFacts
<1> QED BY <1>1, <1>2, <1>3 DEF b

-----------------------------------------------------------------------------
(***************************************************************************)
(* One command again and again, and the commands that draw nothing.        *)
(***************************************************************************)

LEMMA RuleOfOne ==
  ASSUME NEW k, NEW P, NEW Q, NEW op, Rule(k, P, <<op>>, Q)
  PROVE  op \in Command /\ \A s \in P : Good(k, s, op) /\ Step(k, s, op) \in Q
<1>1. PICK f : Outline(k, P, <<op>>, Q, f)
  BY DEF Rule
<1>2. <<op>> \in Seq(Command) /\ Len(<<op>>) = 1 /\ <<op>>[1] = op
  BY DEF Rule
<1>3. op \in Command
  BY <1>2
<1>4. ASSUME NEW s \in P PROVE Good(k, s, op) /\ Step(k, s, op) \in Q
  <2>1. s \in f[0] /\ f[1] \subseteq Q
    BY <1>1, <1>2 DEF Outline
  <2>2. 1 \in 1..1 /\ 1 - 1 = 0
    OBVIOUS
  <2>3. Good(k, s, op) /\ Step(k, s, op) \in f[1]
    BY <1>1, <1>2, <2>1, <2>2 DEF Outline
  <2> QED BY <2>1, <2>3
<1> QED BY <1>3, <1>4

\* A command again and again.
LEMMA RuleAgain ==
  ASSUME NEW k, NEW n \in Nat, NEW op \in Command, NEW I,
         \A i \in 1..n : Rule(k, I[i - 1], <<op>>, I[i])
  PROVE  Rule(k, I[0], Times(n, op), I[n])
<1>1. \A i \in 1..n : \A s \in I[i - 1] : Good(k, s, op) /\ Step(k, s, op) \in I[i]
  BY RuleOfOne
<1> QED BY <1>1, RuleTimes

LEMMA TextsRule ==
  ASSUME NEW k \in Frames, NEW a \in Resting, NEW n \in Nat, NEW need \in Nat,
         NEW step \in Nat \ {0}
  PROVE  /\ Rule(k, In(k, a), Times(n, Text(need, step)), In(k, a))
         /\ \A x \in Int : n > 0 /\ x >= need =>
              Rule(k, In(k, Pending(a, x)), Times(n, Text(need, step)), In(k, a))
<1>0. Text(need, step) \in Command
  <2>1. need \in Int /\ step \in Int
    OBVIOUS
  <2> QED BY <2>1, TextIs DEF Is
<1>1. Rule(k, In(k, a), Times(n, Text(need, step)), In(k, a))
  <2> DEFINE I == [i \in 0..n |-> In(k, a)]
  <2>1. ASSUME NEW i \in 1..n PROVE Rule(k, I[i - 1], <<Text(need, step)>>, I[i])
    <3>1. I[i - 1] = In(k, a) /\ I[i] = In(k, a)
      OBVIOUS
    <3> QED BY <3>1, TextRule
  <2>2. I[0] = In(k, a) /\ I[n] = In(k, a)
    OBVIOUS
  <2> HIDE DEF I
  <2>3. Rule(k, I[0], Times(n, Text(need, step)), I[n])
    BY <1>0, <2>1, RuleAgain
  <2> QED BY <2>2, <2>3
<1>2. ASSUME NEW x \in Int, n > 0, x >= need
      PROVE  Rule(k, In(k, Pending(a, x)), Times(n, Text(need, step)), In(k, a))
  <2> DEFINE I == [i \in 0..n |-> IF i = 0 THEN In(k, Pending(a, x)) ELSE In(k, a)]
  <2>1. ASSUME NEW i \in 1..n PROVE Rule(k, I[i - 1], <<Text(need, step)>>, I[i])
    <3>1. I[i] = In(k, a) /\ (i # 1 => I[i - 1] = In(k, a)) /\ (i = 1 => I[i - 1] = In(k, Pending(a, x)))
      OBVIOUS
    <3> HIDE DEF I
    <3>2. CASE i = 1
      BY <1>2, <3>1, <3>2, TextRule
    <3>3. CASE i # 1
      BY <3>1, <3>3, TextRule
    <3> QED BY <3>2, <3>3
  <2>2. I[0] = In(k, Pending(a, x)) /\ I[n] = In(k, a)
    BY <1>2
  <2> HIDE DEF I
  <2>3. Rule(k, I[0], Times(n, Text(need, step)), I[n])
    BY <1>0, <2>1, RuleAgain
  <2> QED BY <2>2, <2>3
<1> QED BY <1>1, <1>2

LEMMA RowsRule ==
  ASSUME NEW k \in Frames, NEW a \in Resting, NEW n \in Nat, NEW need \in Nat,
         NEW step \in Nat \ {0}
  PROVE  /\ Rule(k, In(k, a), Times(n, TableRow(need, step)), In(k, Counted(a, n)))
         /\ \A x \in Int : n > 0 /\ x >= need =>
              Rule(k, In(k, Pending(a, x)), Times(n, TableRow(need, step)), In(k, Counted(a, n)))
<1>0. TableRow(need, step) \in Command
  <2>1. need \in Int /\ step \in Int
    OBVIOUS
  <2> QED BY <2>1, TableRowIs DEF Is
<1>00. /\ Counted(a, 0) = a
       /\ \A i \in Nat : Counted(a, i) \in Resting /\ Counted(Counted(a, i), 1) = Counted(a, i + 1)
  <2>1. a \in Facts
    BY RestingFacts
  <2> QED BY <2>1, FactsOf, CountedFacts, CountedTwice
<1>1. Rule(k, In(k, a), Times(n, TableRow(need, step)), In(k, Counted(a, n)))
  <2> DEFINE I == [i \in 0..n |-> In(k, Counted(a, i))]
  <2>1. ASSUME NEW i \in 1..n PROVE Rule(k, I[i - 1], <<TableRow(need, step)>>, I[i])
    <3>1. I[i - 1] = In(k, Counted(a, i - 1)) /\ I[i] = In(k, Counted(a, i))
      OBVIOUS
    <3>2. i - 1 \in Nat /\ i - 1 + 1 = i
      OBVIOUS
    <3>3. Counted(a, i - 1) \in Resting /\ Counted(Counted(a, i - 1), 1) = Counted(a, i)
      BY <1>00, <3>2
    <3> HIDE DEF I
    <3> QED BY <3>1, <3>3, RowRule
  <2>2. I[0] = In(k, a) /\ I[n] = In(k, Counted(a, n))
    BY <1>00
  <2> HIDE DEF I
  <2>3. Rule(k, I[0], Times(n, TableRow(need, step)), I[n])
    BY <1>0, <2>1, RuleAgain
  <2> QED BY <2>2, <2>3
<1>2. ASSUME NEW x \in Int, n > 0, x >= need
      PROVE  Rule(k, In(k, Pending(a, x)), Times(n, TableRow(need, step)), In(k, Counted(a, n)))
  <2> DEFINE I == [i \in 0..n |-> IF i = 0 THEN In(k, Pending(a, x)) ELSE In(k, Counted(a, i))]
  <2>1. ASSUME NEW i \in 1..n PROVE Rule(k, I[i - 1], <<TableRow(need, step)>>, I[i])
    <3>1. /\ I[i] = In(k, Counted(a, i)) /\ (i # 1 => I[i - 1] = In(k, Counted(a, i - 1)))
          /\ i = 1 => I[i - 1] = In(k, Pending(a, x))
      OBVIOUS
    <3>2. i - 1 \in Nat /\ i - 1 + 1 = i
      OBVIOUS
    <3>3. Counted(a, i - 1) \in Resting /\ Counted(Counted(a, i - 1), 1) = Counted(a, i)
      BY <1>00, <3>2
    <3> HIDE DEF I
    <3>4. CASE i = 1
      BY <1>2, <3>1, <3>4, RowRule
    <3>5. CASE i # 1
      BY <3>1, <3>3, <3>5, RowRule
    <3> QED BY <3>4, <3>5
  <2>2. I[0] = In(k, Pending(a, x)) /\ I[n] = In(k, Counted(a, n))
    BY <1>2
  <2> HIDE DEF I
  <2>3. Rule(k, I[0], Times(n, TableRow(need, step)), I[n])
    BY <1>0, <2>1, RuleAgain
  <2> QED BY <2>2, <2>3
<1> QED BY <1>1, <1>2

-----------------------------------------------------------------------------
LEMMA RoomRule ==
  ASSUME NEW k \in Frames, NEW a \in Resting, NEW need \in Int, NEW x \in Int,
         x <= need, x <= k.top - k.low2, a.two => x <= k.deck
  PROVE  Rule(k, In(k, a), <<Room(need)>>, In(k, Roomy(a, x)))
<1>1. Is(Room(need), "room", need, 0, 0, "line")
  BY RoomIs
<1> DEFINE b == Roomy(a, x)
<1>2. /\ b \in Facts /\ b.known /\ ~b.off /\ b.room = x /\ b.rows = a.rows
      /\ b.two = a.two /\ b.later = a.later
  BY RoomyFacts
<1>3. a \in Facts /\ a.free
  BY RestingFacts
<1> HIDE DEF b
<1>4. RoomFits(k, a, Room(need), b)
  BY <1>1, <1>2, <1>3, FramesAre DEF RoomFits, RoomAfter, Is, Facts
<1>5. Rule(k, In(k, a), <<Room(need)>>, In(k, b))
  BY <1>1, <1>2, <1>3, <1>4, FramesAre, RuleRoom DEF Is
<1> QED BY <1>5 DEF b

\* Moving down keeps what is known of the room, less the distance.
LEMMA GapRule ==
  ASSUME NEW k \in Frames, NEW a \in Resting, NEW step \in Nat
  PROVE  /\ Rule(k, In(k, a), <<Gap(step)>>, In(k, a))
         /\ \A x \in Int : Rule(k, In(k, Roomy(a, x)), <<Gap(step)>>, In(k, Roomy(a, x - step)))
<1>0. step \in Int /\ a \in Facts /\ a.free /\ ~a.known
  BY RestingFacts
<1>1. Is(Gap(step), "gap", 0, 0, step, "line")
  BY <1>0, GapIs
<1>2. Rule(k, In(k, a), <<Gap(step)>>, In(k, a))
  <2>1. GapFits(k, a, Gap(step), a)
    BY <1>0, <1>1 DEF GapFits, Is
  <2> QED BY <1>0, <1>1, <2>1, FramesAre, RuleGap DEF Is
<1>3. ASSUME NEW x \in Int
      PROVE  Rule(k, In(k, Roomy(a, x)), <<Gap(step)>>, In(k, Roomy(a, x - step)))
  <2> DEFINE b == Roomy(a, x)
             c == Roomy(a, x - step)
  <2>1. /\ b \in Facts /\ b.free /\ b.known /\ ~b.off /\ b.room = x /\ b.rows = a.rows
        /\ b.two = a.two /\ b.later = a.later
        /\ c \in Facts /\ c.known /\ ~c.off /\ c.room = x - step /\ c.rows = a.rows
        /\ c.two = a.two /\ c.later = a.later
    BY RoomyFacts
  <2> HIDE DEF b, c
  <2>2. GapFits(k, b, Gap(step), c)
    BY <1>1, <2>1 DEF GapFits, Is
  <2>3. Rule(k, In(k, b), <<Gap(step)>>, In(k, c))
    BY <1>1, <2>1, <2>2, FramesAre, RuleGap DEF Is
  <2> QED BY <2>3 DEF b, c
<1> QED BY <1>2, <1>3

\* A line drawn without asking, where there is room or none is promised.
LEMMA PlainRule ==
  ASSUME NEW k \in Frames, NEW a \in Resting, NEW step \in Nat \ {0}, NEW x \in Int,
         k.strict => x + k.front >= 0 \/ (a.later /\ x + k.back >= 0)
  PROVE  /\ Rule(k, In(k, Roomy(a, x)), <<Plain(step)>>, In(k, Roomy(a, x - step)))
         /\ Rule(k, In(k, Roomy(a, x)), <<PlainHeading(step)>>, In(k, Pending(a, x - step)))
         /\ Rule(k, In(k, Roomy(a, x)), <<PlainHeading(step)>>,
                 In(k, Roomy(Pending(a, x - step), x - step)))
<1> DEFINE b == Roomy(a, x)
           c == Roomy(a, x - step)
           d == Pending(a, x - step)
           e == Roomy(d, x - step)
<1>1. /\ b \in Facts /\ b.free /\ b.known /\ ~b.off /\ b.room = x /\ b.rows = a.rows
      /\ b.two = a.two /\ b.later = a.later
      /\ c \in Facts /\ c.known /\ ~c.off /\ c.room = x - step /\ c.rows = a.rows
      /\ c.two = a.two /\ c.later = a.later
  BY RoomyFacts
<1>2. /\ d \in Facts /\ ~d.free /\ d.keep = x - step /\ ~d.known /\ d.rows = a.rows
      /\ d.two = a.two /\ d.later = a.later
  BY PendingFacts
<1>3. /\ e \in Facts /\ ~e.free /\ e.keep = x - step /\ e.known /\ ~e.off /\ e.room = x - step
      /\ e.rows = a.rows /\ e.two = a.two /\ e.later = a.later
  <2> HIDE DEF d
  <2>1. e \in Facts
    BY <1>2, FactsOf
  <2> QED BY <1>2, <2>1 DEF Roomy, Facts
<1>4. step \in Int
  OBVIOUS
<1>5. /\ Is(Plain(step), "plain", 0, 0, step, "line")
      /\ Is(PlainHeading(step), "plain", 0, 0, step, "head")
  BY <1>4, PlainIs, PlainHeadingIs
<1> HIDE DEF b, c, d, e
<1>6. PlainFits(k, b, Plain(step), c)
  BY <1>1, <1>5, FramesAre DEF PlainFits, Is, Facts
<1>7. PlainFits(k, b, PlainHeading(step), d)
  BY <1>1, <1>2, <1>5, FramesAre DEF PlainFits, Is, Facts
<1>8. PlainFits(k, b, PlainHeading(step), e)
  BY <1>1, <1>3, <1>5, FramesAre DEF PlainFits, Is, Facts
<1>9. Rule(k, In(k, b), <<Plain(step)>>, In(k, c))
  BY <1>1, <1>5, <1>6, FramesAre, RulePlain DEF Is
<1>10. Rule(k, In(k, b), <<PlainHeading(step)>>, In(k, d))
  BY <1>1, <1>2, <1>5, <1>7, FramesAre, RulePlain DEF Is
<1>11. Rule(k, In(k, b), <<PlainHeading(step)>>, In(k, e))
  BY <1>1, <1>3, <1>5, <1>8, FramesAre, RulePlain DEF Is
<1> QED BY <1>9, <1>10, <1>11 DEF b, c, d, e

-----------------------------------------------------------------------------
(***************************************************************************)
(* The blocks the layouts share.                                           *)
(***************************************************************************)

\* Two or three commands one after the other.
LEMMA RulePair ==
  ASSUME NEW k, NEW P, NEW R, NEW Q, NEW op1, NEW op2,
         Rule(k, P, <<op1>>, R), Rule(k, R, <<op2>>, Q)
  PROVE  Rule(k, P, <<op1, op2>>, Q)
<1> DEFINE f == [i \in 0..2 |-> IF i = 0 THEN P ELSE IF i = 1 THEN R ELSE Q]
           ops == <<op1, op2>>
<1>1. op1 \in Command /\ \A s \in P : Good(k, s, op1) /\ Step(k, s, op1) \in R
  BY RuleOfOne
<1>2. op2 \in Command /\ \A s \in R : Good(k, s, op2) /\ Step(k, s, op2) \in Q
  BY RuleOfOne
<1>3. /\ Len(ops) = 2 /\ ops[1] = op1 /\ ops[2] = op2 /\ ops \in Seq(Command)
      /\ f[0] = P /\ f[1] = R /\ f[2] = Q
  BY <1>1, <1>2
<1> HIDE DEF f, ops
<1>4. \A i \in 1..2 : \A s \in f[i - 1] : Good(k, s, ops[i]) /\ Step(k, s, ops[i]) \in f[i]
  <2>1. \A i \in 1..2 : (i = 1 /\ i - 1 = 0) \/ (i = 2 /\ i - 1 = 1)
    OBVIOUS
  <2> QED BY <1>1, <1>2, <1>3, <2>1
<1>5. Outline(k, P, ops, Q, f)
  BY <1>3, <1>4 DEF Outline
<1> QED BY <1>3, <1>5 DEF Rule, ops

LEMMA RuleTriple ==
  ASSUME NEW k, NEW P, NEW R1, NEW R2, NEW Q, NEW op1, NEW op2, NEW op3,
         Rule(k, P, <<op1>>, R1), Rule(k, R1, <<op2>>, R2), Rule(k, R2, <<op3>>, Q)
  PROVE  Rule(k, P, <<op1, op2, op3>>, Q)
<1> DEFINE f == [i \in 0..3 |-> IF i = 0 THEN P ELSE IF i = 1 THEN R1
                                ELSE IF i = 2 THEN R2 ELSE Q]
           ops == <<op1, op2, op3>>
<1>1. op1 \in Command /\ \A s \in P : Good(k, s, op1) /\ Step(k, s, op1) \in R1
  BY RuleOfOne
<1>2. op2 \in Command /\ \A s \in R1 : Good(k, s, op2) /\ Step(k, s, op2) \in R2
  BY RuleOfOne
<1>3. op3 \in Command /\ \A s \in R2 : Good(k, s, op3) /\ Step(k, s, op3) \in Q
  BY RuleOfOne
<1>4. /\ Len(ops) = 3 /\ ops[1] = op1 /\ ops[2] = op2 /\ ops[3] = op3 /\ ops \in Seq(Command)
      /\ f[0] = P /\ f[1] = R1 /\ f[2] = R2 /\ f[3] = Q
  BY <1>1, <1>2, <1>3
<1> HIDE DEF f, ops
<1>5. \A i \in 1..3 : \A s \in f[i - 1] : Good(k, s, ops[i]) /\ Step(k, s, ops[i]) \in f[i]
  <2>1. \A i \in 1..3 : (i = 1 /\ i - 1 = 0) \/ (i = 2 /\ i - 1 = 1) \/ (i = 3 /\ i - 1 = 2)
    OBVIOUS
  <2> QED BY <1>1, <1>2, <1>3, <1>4, <2>1
<1>6. Outline(k, P, ops, Q, f)
  BY <1>4, <1>5 DEF Outline
<1> QED BY <1>4, <1>6 DEF Rule, ops

\* The steps of a line drawn without asking, of a gap and of a heading.
LEMMA PlainTo ==
  ASSUME NEW k \in Frames, NEW a \in Resting, NEW step \in Nat \ {0}, NEW x \in Int,
         k.strict => x + k.front >= 0 \/ (a.later /\ x + k.back >= 0),
         NEW y \in Int, y = x - step
  PROVE  Rule(k, In(k, Roomy(a, x)), <<Plain(step)>>, In(k, Roomy(a, y)))
BY PlainRule

LEMMA PlainHeadingTo ==
  ASSUME NEW k \in Frames, NEW a \in Resting, NEW step \in Nat \ {0}, NEW x \in Int,
         k.strict => x + k.front >= 0 \/ (a.later /\ x + k.back >= 0),
         NEW y \in Int, y = x - step
  PROVE  Rule(k, In(k, Roomy(a, x)), <<PlainHeading(step)>>, In(k, Pending(a, y)))
BY PlainRule

LEMMA GapTo ==
  ASSUME NEW k \in Frames, NEW a \in Resting, NEW step \in Nat, NEW x \in Int,
         NEW y \in Int, y = x - step
  PROVE  Rule(k, In(k, Roomy(a, x)), <<Gap(step)>>, In(k, Roomy(a, y)))
BY GapRule

LEMMA HeadingTo ==
  ASSUME NEW k \in Frames, NEW a \in Resting, NEW need \in Nat, NEW step \in Nat \ {0},
         NEW y \in Int, y = need - step
  PROVE  Rule(k, In(k, a), <<Heading(need, step)>>, In(k, Pending(a, y)))
BY HeadingRule

LEMMA TextsPending ==
  ASSUME NEW k \in Frames, NEW a \in Resting, NEW n \in Nat \ {0}, NEW need \in Nat,
         NEW step \in Nat \ {0}, NEW x \in Int, x >= need
  PROVE  Rule(k, In(k, Pending(a, x)), Times(n, Text(need, step)), In(k, a))
<1>1. n \in Nat /\ n > 0
  OBVIOUS
<1> QED BY <1>1, TextsRule

LEMMA HeadedListRule ==
  ASSUME NEW k \in Frames, NEW a \in Resting, NEW n \in Nat, NEW h \in Nat \ {0}
  PROVE  Rule(k, In(k, a), HeadedList(n, h), In(k, a))
<1>1. CASE n = 0
  BY <1>1, RuleEmpty DEF HeadedList, When
<1>2. CASE n > 0
  <2>1. 2 * h \in Nat /\ 2 * h - h = h /\ h \in Nat /\ h \in Int
    OBVIOUS
  <2>2. Rule(k, In(k, a), <<Heading(2 * h, h)>>, In(k, Pending(a, h)))
    BY <2>1, HeadingRule
  <2>3. Rule(k, In(k, Pending(a, h)), Times(n, Text(h, h)), In(k, a))
    BY <1>2, <2>1, TextsRule
  <2>4. Rule(k, In(k, a), <<Heading(2 * h, h)>> \o Times(n, Text(h, h)), In(k, a))
    BY <2>2, <2>3, RuleJoin
  <2> QED BY <1>2, <2>4 DEF HeadedList, When
<1> QED BY <1>1, <1>2

LEMMA SummedTaxRule ==
  ASSUME NEW k \in Frames, NEW a \in Resting, NEW b, b.tax \in Nat, NEW h \in Nat \ {0},
         ~a.two, h < 20000
  PROVE  Rule(k, In(k, a), SummedTax(b, h), In(k, a))
<1>1. CASE b.tax = 0
  BY <1>1, RuleEmpty DEF SummedTax, When
<1>2. CASE b.tax > 0
  <2> DEFINE d == Pending(a, h)
             e == Roomy(d, 0)
             need == 2 * h
  <2>1. /\ d \in Facts /\ ~d.free /\ d.keep = h /\ ~d.known /\ d.rows = a.rows
        /\ d.two = a.two /\ d.later = a.later /\ h \in Int
    BY PendingFacts
  <2>2. /\ e \in Facts /\ ~e.free /\ e.keep = h /\ e.known /\ ~e.off /\ e.room = 0
        /\ e.rows = a.rows /\ e.two = a.two /\ e.later = a.later
    <3> HIDE DEF d
    <3>1. e \in Facts
      BY <2>1, FactsOf
    <3> QED BY <2>1, <3>1 DEF Roomy, Facts
  <2>3. a \in Facts /\ a.free /\ ~a.known
    BY RestingFacts
  <2>4. need \in Int /\ need = 2 * h
    OBVIOUS
  <2>a. h \in Int
    OBVIOUS
  <2> HIDE DEF d, e, need
  <2>5. Is(Heading(need, h), "text", need, 0, h, "head")
    <3>1. need \in Int
      BY <2>4
    <3> QED BY <2>a, <3>1, HeadingIs
  <2>6. Is(Plain(h), "plain", 0, 0, h, "line")
    BY <2>a, PlainIs
  <2>7. TextFits(k, a, Heading(need, h), e)
    BY <2>2, <2>3, <2>4, <2>5, FramesAre DEF TextFits, RoomAfter, Is, Facts
  <2>8. PlainFits(k, e, Plain(h), a)
    BY <2>2, <2>3, <2>6, FramesAre DEF PlainFits, Is, Facts
  <2>9. Rule(k, In(k, a), <<Heading(need, h)>>, In(k, e))
    BY <2>2, <2>3, <2>5, <2>7, FramesAre, RuleText DEF Is
  <2>10. Rule(k, In(k, e), <<Plain(h)>>, In(k, a))
    BY <2>2, <2>3, <2>6, <2>8, FramesAre, RulePlain DEF Is
  <2> QED BY <1>2, <2>9, <2>10, RulePair DEF SummedTax, When, need
<1> QED BY <1>1, <1>2

\* A heading and the lines whose room the caller has asked for.
LEMMA LabelledProductRule ==
  ASSUME NEW k \in Frames, NEW a \in Resting, NEW n \in Nat, NEW gap \in Nat \ {0},
         NEW h \in Nat \ {0}, ~a.two, gap < 20000
  PROVE  Rule(k, In(k, a), LabelledProduct(n, gap, h), In(k, a))
<1> DEFINE need == gap + n * h
<1>1. need \in Int /\ gap <= need /\ gap \in Int
  <2>1. n * h \in Nat
    OBVIOUS
  <2> QED BY <2>1
<1> HIDE DEF need
<1>2. Rule(k, In(k, a), <<Room(need)>>, In(k, Roomy(a, gap)))
  BY <1>1, FramesAre, RoomRule
<1>3. 0 = gap - gap /\ gap + k.front >= 0 /\ 0 \in Int /\ 0 \in Nat /\ 0 >= 0
  BY FramesAre
<1>4. CASE n = 0
  <2>1. Rule(k, In(k, Roomy(a, gap)), <<Plain(gap)>>, In(k, Roomy(a, 0)))
    BY <1>1, <1>3, PlainTo
  <2>2. In(k, Roomy(a, 0)) \subseteq In(k, a)
    BY <1>3, RoomyIsRest, FramesAre
  <2>3. Rule(k, In(k, Roomy(a, gap)), <<Plain(gap)>>, In(k, a))
    BY <2>1, <2>2, RuleWeaken
  <2>4. Rule(k, In(k, a), Times(n, Text(0, h)), In(k, a))
    BY TextsRule
  <2>5. Rule(k, In(k, a), <<Room(need), Plain(gap)>>, In(k, a))
    BY <1>2, <2>3, RulePair
  <2>6. Rule(k, In(k, a), <<Room(need), Plain(gap)>> \o Times(n, Text(0, h)), In(k, a))
    BY <2>4, <2>5, RuleJoin
  <2> QED BY <1>4, <2>6 DEF LabelledProduct, need
<1>5. CASE n # 0
  <2>1. Rule(k, In(k, Roomy(a, gap)), <<PlainHeading(gap)>>, In(k, Pending(a, 0)))
    BY <1>1, <1>3, PlainHeadingTo
  <2>2. Rule(k, In(k, Pending(a, 0)), Times(n, Text(0, h)), In(k, a))
    BY <1>3, <1>5, TextsPending
  <2>3. Rule(k, In(k, a), <<Room(need), PlainHeading(gap)>>, In(k, Pending(a, 0)))
    BY <1>2, <2>1, RulePair
  <2>4. Rule(k, In(k, a), <<Room(need), PlainHeading(gap)>> \o Times(n, Text(0, h)), In(k, a))
    BY <2>2, <2>3, RuleJoin
  <2> QED BY <1>5, <2>4 DEF LabelledProduct, need
<1> QED BY <1>4, <1>5

\* The two-column flow, at the place it starts from.
Two(a) == [a EXCEPT !.two = TRUE]
Started(k, a) == {s \in In(k, a) : s.cursor.page = s.cursor.first /\ s.cursor.col = 1}

LEMMA TwoFacts ==
  ASSUME NEW a \in Resting
  PROVE  /\ Two(a) \in Resting /\ Two(a).two /\ Two(a).later = a.later /\ Two(a).rows = a.rows
<1>1. a \in Facts
  BY RestingFacts
<1>2. Two(a) \in Facts
  BY <1>1 DEF Two, Facts
<1> QED BY <1>1, <1>2 DEF Two, Facts, Resting

\* A line drawn below the cursor, and what is left under it.
LEMMA LoweredRule ==
  ASSUME NEW k \in Frames, NEW a \in Resting, ~a.two, NEW need \in Nat,
         NEW drop \in Nat, NEW step \in Nat \ {0}, drop <= need + k.front, drop <= 20000,
         NEW x \in Int, x <= need - drop - step, x + drop + step <= 40000
  PROVE  Rule(k, In(k, a), <<Lowered(need, drop, step)>>, In(k, Roomy(a, x)))
<1> DEFINE b == Roomy(a, x)
<1>1. /\ b \in Facts /\ b.free /\ b.known /\ ~b.off /\ b.room = x /\ b.rows = a.rows
      /\ b.two = a.two /\ b.later = a.later
  BY RoomyFacts
<1>2. a \in Facts /\ a.free
  BY RestingFacts
<1> DEFINE op == Lowered(need, drop, step)
<1>3. Is(op, "text", need, drop, step, "line")
  <2>1. need \in Int
    OBVIOUS
  <2>2. drop \in Int
    OBVIOUS
  <2>3. step \in Int
    OBVIOUS
  <2> QED BY <2>1, <2>2, <2>3, LoweredIs
<1> HIDE DEF b, op
<1>4. TextFits(k, a, op, b)
  BY <1>1, <1>2, <1>3, FramesAre DEF TextFits, RoomAfter, Is, Facts
<1>5. Rule(k, In(k, a), <<op>>, In(k, b))
  BY <1>1, <1>2, <1>3, <1>4, FramesAre, RuleText DEF Is
<1> QED BY <1>5 DEF b, op

LEMMA ColumnsRule ==
  ASSUME NEW k \in Frames, NEW a \in Resting, ~a.two, NEW x \in Int, x >= k.deck
  PROVE  Rule(k, In(k, Roomy(a, x)), <<Columns>>, Started(k, Two(a)))
<1> DEFINE b == Roomy(a, x)
           c == Two(a)
<1>1. /\ b \in Facts /\ b.free /\ b.known /\ ~b.off /\ b.room = x /\ b.rows = a.rows
      /\ b.two = a.two /\ b.later = a.later
  BY RoomyFacts
<1>2. c \in Facts /\ ~c.known /\ c.two /\ c.later = a.later /\ c.rows = a.rows
  BY TwoFacts, RestingFacts
<1>3. Is(Columns, "columns", 0, 0, 0, "line")
  BY ColumnsIs
<1> HIDE DEF b, c
<1>4. ColumnsFit(k, b, Columns, c)
  BY <1>1, <1>2, <1>3, FramesAre DEF ColumnsFit, Is
<1>5. Rule(k, In(k, b), <<Columns>>, Started(k, c))
  BY <1>1, <1>2, <1>3, <1>4, FramesAre, RuleColumns DEF Is, Started
<1> QED BY <1>5 DEF b, c

LEMMA StartedIsIn ==
  ASSUME NEW k, NEW a
  PROVE  Started(k, a) \subseteq In(k, a)
BY DEF Started

LEMMA TotalThenColumnsRule ==
  ASSUME NEW k \in Frames, NEW a \in Resting, ~a.two, NEW h \in 600..2000, k.deck = -1200
  PROVE  Rule(k, In(k, a), TotalThenColumns(h), Started(k, Two(a)))
<1> DEFINE m == 2 * h
<1>1. /\ m \in Nat /\ m \in Nat \ {0} /\ 600 <= m + k.front /\ 600 <= 20000 /\ 600 \in Nat
      /\ -600 <= m - 600 - m /\ -600 + 600 + m <= 40000
      /\ -1200 = -600 - 600 /\ -600 \in Int /\ -1200 \in Int /\ -1200 >= k.deck
  BY FramesAre
<1> HIDE DEF m
<1>2. Rule(k, In(k, a), <<Lowered(m, 600, m)>>, In(k, Roomy(a, -600)))
  BY <1>1, LoweredRule
<1>3. Rule(k, In(k, Roomy(a, -600)), <<Gap(600)>>, In(k, Roomy(a, -1200)))
  BY <1>1, GapTo
<1>4. Rule(k, In(k, Roomy(a, -1200)), <<Columns>>, Started(k, Two(a)))
  BY <1>1, ColumnsRule
<1>5. Rule(k, In(k, a), <<Lowered(m, 600, m), Gap(600), Columns>>, Started(k, Two(a)))
  BY <1>2, <1>3, <1>4, RuleTriple
<1> QED BY <1>5 DEF TotalThenColumns, m

-----------------------------------------------------------------------------
(***************************************************************************)
(* Blocks that count rows, and the room of the two-column flow.            *)
(***************************************************************************)

LEMMA AddedNat ==
  ASSUME NEW ns \in Seq(Nat)
  PROVE  Added(ns) \in Nat
<1>1. PICK g \in [0..Len(ns) -> Nat] : Sums(ns, g) /\ Added(ns) = g[Len(ns)]
  BY AddedIs
<1>2. Len(ns) \in 0..Len(ns)
  OBVIOUS
<1> QED BY <1>1, <1>2

\* Blocks that each add to what is counted.
LEMMA RuleCount ==
  ASSUME NEW k, NEW ss, NEW ns \in Seq(Nat), ss = [i \in 1..Len(ns) |-> ss[i]], NEW I,
         \A i \in 1..Len(ns) : \A m \in Nat : Rule(k, I[m], ss[i], I[m + ns[i]])
  PROVE  Rule(k, I[0], FlattenSeq(ss), I[Added(ns)])
<1> DEFINE n == Len(ns)
<1>0. Len(ss) = n /\ n \in Nat
  OBVIOUS
<1>1. PICK g \in [0..n -> Nat] : Sums(ns, g) /\ Added(ns) = g[n]
  BY AddedIs
<1>2. g[0] = 0 /\ \A i \in 1..n : g[i] = g[i - 1] + ns[i]
  BY <1>1 DEF Sums
<1>3. CASE n = 0
  <2>1. ss = <<>> /\ FlattenSeq(ss) = ss
    BY <1>0, <1>3 DEF FlattenSeq
  <2>2. Added(ns) = 0
    BY <1>1, <1>2, <1>3
  <2> QED BY <2>1, <2>2, RuleEmpty
<1>4. CASE n # 0
  <2> DEFINE J == [i \in 0..n |-> I[g[i]]]
  <2>1. ASSUME NEW i \in 1..n PROVE Rule(k, J[i - 1], ss[i], J[i])
    <3>1. i - 1 \in 0..n /\ i \in 0..n
      OBVIOUS
    <3>2. J[i - 1] = I[g[i - 1]] /\ J[i] = I[g[i]] /\ g[i - 1] \in Nat
      BY <3>1
    <3>3. g[i] = g[i - 1] + ns[i]
      BY <1>2
    <3> HIDE DEF J
    <3>4. Rule(k, I[g[i - 1]], ss[i], I[g[i - 1] + ns[i]])
      BY <3>2
    <3> QED BY <3>2, <3>3, <3>4
  <2>2. J[0] = I[0] /\ J[n] = I[Added(ns)]
    BY <1>0, <1>1, <1>2
  <2> HIDE DEF J
  <2>3. Rule(k, J[0], FlattenSeq(ss), J[Len(ss)])
    BY <1>0, <1>4, <2>1, RuleBlocks
  <2> QED BY <1>0, <2>2, <2>3
<1> QED BY <1>3, <1>4

-----------------------------------------------------------------------------
\* Room that is known of once the flow has left the page it started on.
Away(a, x) == [a EXCEPT !.known = TRUE, !.off = TRUE, !.room = x]

LEMMA AwayFacts ==
  ASSUME NEW a \in Resting, NEW x \in Int
  PROVE  /\ Away(a, x) \in Facts /\ Away(a, x).free /\ Away(a, x).known
         /\ Away(a, x).off /\ Away(a, x).room = x /\ Away(a, x).rows = a.rows
         /\ Away(a, x).two = a.two /\ Away(a, x).later = a.later
<1>1. a \in Facts /\ a.free
  BY RestingFacts
<1>2. Away(a, x) \in Facts
  BY <1>1 DEF Away, Facts
<1> QED BY <1>1, <1>2 DEF Away, Facts

LEMMA AwayIsRest ==
  ASSUME NEW k, NEW a \in Resting, NEW x \in Int
  PROVE  In(k, Away(a, x)) \subseteq In(k, a)
<1> SUFFICES ASSUME NEW s \in In(k, Away(a, x)) PROVE s \in In(k, a)
  OBVIOUS
<1>1. s \in Spot /\ Holds(k, Away(a, x), s)
  BY SpotIn
<1>2. Holds(k, a, s)
  BY <1>1, AwayFacts, RestingFacts DEF Holds
<1> QED BY <1>1, <1>2 DEF In

LEMMA StartedIsAway ==
  ASSUME NEW k, NEW a \in Resting, NEW x \in Int
  PROVE  Started(k, a) \subseteq In(k, Away(a, x))
<1> SUFFICES ASSUME NEW s \in Started(k, a) PROVE s \in In(k, Away(a, x))
  OBVIOUS
<1>1. s \in Spot /\ Holds(k, a, s) /\ s.cursor.page = s.cursor.first /\ s.cursor \in Cursor
  BY SpotIn DEF Started
<1>2. ~(s.cursor.page > s.cursor.first)
  BY <1>1 DEF Cursor
<1>3. Holds(k, Away(a, x), s)
  BY <1>1, <1>2, AwayFacts, RestingFacts DEF Holds
<1> QED BY <1>1, <1>3 DEF In

\* Less is promised than there is.
LEMMA PendingLess ==
  ASSUME NEW k \in Frame, NEW a \in Resting, NEW x \in Int, NEW y \in Int, y <= x
  PROVE  In(k, Pending(a, x)) \subseteq In(k, Pending(a, y))
<1> SUFFICES ASSUME NEW s \in In(k, Pending(a, x)) PROVE s \in In(k, Pending(a, y))
  OBVIOUS
<1>1. s \in Spot /\ Holds(k, Pending(a, x), s) /\ s.cursor \in Cursor
  BY SpotIn
<1>2. Floor(k, s.cursor.page) \in Int /\ s.cursor.y \in Int
  BY <1>1 DEF Floor, Frame, Cursor
<1>3. s.cursor.y - x >= Floor(k, s.cursor.page) => s.cursor.y - y >= Floor(k, s.cursor.page)
  BY <1>2
<1> DEFINE b == Pending(a, x)
           c == Pending(a, y)
<1>4. /\ ~b.free /\ b.keep = x /\ ~b.known /\ b.rows = a.rows /\ b.two = a.two /\ b.later = a.later
      /\ ~c.free /\ c.keep = y /\ ~c.known /\ c.rows = a.rows /\ c.two = a.two /\ c.later = a.later
  BY PendingFacts
<1>5. Holds(k, b, s)
  BY <1>1
<1> HIDE DEF b, c
<1>6. Holds(k, c, s)
  BY <1>3, <1>4, <1>5 DEF Holds
<1> QED BY <1>1, <1>6 DEF In, c

LEMMA RoomyLess ==
  ASSUME NEW k \in Frame, NEW a \in Resting, NEW x \in Int, NEW y \in Int, y <= x
  PROVE  In(k, Roomy(a, x)) \subseteq In(k, Roomy(a, y))
<1> SUFFICES ASSUME NEW s \in In(k, Roomy(a, x)) PROVE s \in In(k, Roomy(a, y))
  OBVIOUS
<1>1. s \in Spot /\ Holds(k, Roomy(a, x), s) /\ s.cursor \in Cursor
  BY SpotIn
<1>2. Floor(k, s.cursor.page) \in Int /\ s.cursor.y \in Int
  BY <1>1 DEF Floor, Frame, Cursor
<1>3. s.cursor.y - x >= Floor(k, s.cursor.page) => s.cursor.y - y >= Floor(k, s.cursor.page)
  BY <1>2
<1> DEFINE b == Roomy(a, x)
           c == Roomy(a, y)
<1>4. /\ b.free /\ b.known /\ ~b.off /\ b.room = x /\ b.rows = a.rows /\ b.two = a.two /\ b.later = a.later
      /\ c.free /\ c.known /\ ~c.off /\ c.room = y /\ c.rows = a.rows /\ c.two = a.two /\ c.later = a.later
  BY RoomyFacts
<1>5. Holds(k, b, s)
  BY <1>1
<1> HIDE DEF b, c
<1>6. Holds(k, c, s)
  BY <1>3, <1>4, <1>5 DEF Holds
<1> QED BY <1>1, <1>6 DEF In, c

\* The room a line leaves.
LEMMA TextAway ==
  ASSUME NEW k \in Frames, NEW a \in Resting, NEW need \in Nat, NEW step \in Nat \ {0},
         NEW x \in Int, x <= need - step, x + step <= 40000
  PROVE  /\ Rule(k, In(k, a), <<Text(need, step)>>, In(k, Away(a, x)))
         /\ \A z \in Int : z >= need =>
              Rule(k, In(k, Pending(a, z)), <<Text(need, step)>>, In(k, Away(a, x)))
<1> DEFINE b == Away(a, x)
<1>1. /\ b \in Facts /\ b.free /\ b.known /\ b.off /\ b.room = x /\ b.rows = a.rows
      /\ b.two = a.two /\ b.later = a.later
  BY AwayFacts
<1>2. Is(Text(need, step), "text", need, 0, step, "line")
  BY TextIs
<1> HIDE DEF b
<1>3. ASSUME NEW c \in Facts, c.two = a.two, c.later = a.later, c.rows = a.rows,
             c.free \/ c.keep >= need
      PROVE  Rule(k, In(k, c), <<Text(need, step)>>, In(k, b))
  <2>1. TextFits(k, c, Text(need, step), b)
    BY <1>1, <1>2, <1>3, FramesAre DEF TextFits, RoomAfter, Is, Facts
  <2> QED BY <1>1, <1>2, <1>3, <2>1, FramesAre, RuleText DEF Is
<1>4. \A z \in Int : z >= need =>
        Rule(k, In(k, Pending(a, z)), <<Text(need, step)>>, In(k, b))
  BY <1>3, PendingFacts
<1>5. a \in Facts /\ a.free
  BY RestingFacts
<1> QED BY <1>3, <1>4, <1>5 DEF b

LEMMA TextRoomy ==
  ASSUME NEW k \in Frames, NEW a \in Resting, NEW need \in Nat, NEW step \in Nat \ {0},
         NEW x \in Int, x <= need - step, x + step <= 40000, ~a.two
  PROVE  Rule(k, In(k, a), <<Text(need, step)>>, In(k, Roomy(a, x)))
<1> DEFINE b == Roomy(a, x)
<1>1. /\ b \in Facts /\ b.free /\ b.known /\ ~b.off /\ b.room = x /\ b.rows = a.rows
      /\ b.two = a.two /\ b.later = a.later
  BY RoomyFacts
<1>2. Is(Text(need, step), "text", need, 0, step, "line")
  BY TextIs
<1>3. a \in Facts /\ a.free
  BY RestingFacts
<1> HIDE DEF b
<1>4. TextFits(k, a, Text(need, step), b)
  BY <1>1, <1>2, <1>3, FramesAre DEF TextFits, RoomAfter, Is, Facts
<1>5. Rule(k, In(k, a), <<Text(need, step)>>, In(k, b))
  BY <1>1, <1>2, <1>3, <1>4, FramesAre, RuleText DEF Is
<1> QED BY <1>5 DEF b

LEMMA GapAway ==
  ASSUME NEW k \in Frames, NEW a \in Resting, NEW step \in Nat, NEW x \in Int,
         NEW y \in Int, y = x - step
  PROVE  Rule(k, In(k, Away(a, x)), <<Gap(step)>>, In(k, Away(a, y)))
<1> DEFINE b == Away(a, x)
           c == Away(a, y)
<1>1. /\ b \in Facts /\ b.free /\ b.known /\ b.off /\ b.room = x /\ b.rows = a.rows
      /\ b.two = a.two /\ b.later = a.later
      /\ c \in Facts /\ c.known /\ c.off /\ c.room = y /\ c.rows = a.rows
      /\ c.two = a.two /\ c.later = a.later
  BY AwayFacts
<1>2. Is(Gap(step), "gap", 0, 0, step, "line")
  BY GapIs
<1> HIDE DEF b, c
<1>3. GapFits(k, b, Gap(step), c)
  BY <1>1, <1>2 DEF GapFits, Is
<1>4. Rule(k, In(k, b), <<Gap(step)>>, In(k, c))
  BY <1>1, <1>2, <1>3, FramesAre, RuleGap DEF Is
<1> QED BY <1>4 DEF b, c

-----------------------------------------------------------------------------
(***************************************************************************)
(* Payments, tables, sections and messages in two columns.                 *)
(***************************************************************************)

\* The blocks of the two-column flow.
LEMMA ColumnPaymentsRule ==
  ASSUME NEW k \in Frames, NEW a \in Resting, NEW n \in Nat, NEW h \in {800, 900}
  PROVE  Rule(k, In(k, Away(a, -1080)), ColumnPayments(n, h), In(k, Away(a, -1080)))
<1>1. CASE n = 0
  BY <1>1, RuleEmpty DEF ColumnPayments, When
<1>2. CASE n > 0
  <2> DEFINE need == h * n + (13 * h) \div 5
             step == (6 * h) \div 5
             last == (7 * h) \div 5
             drop == (8 * h) \div 5
  <2>1. h * n \in Nat
    OBVIOUS
  <2>2. /\ need \in Nat /\ step \in Nat \ {0} /\ need - step >= h /\ need - step \in Int
        /\ last \in Nat /\ drop \in Nat \ {0} /\ -1080 <= last - drop /\ -1080 + drop <= 40000
        /\ h \in Nat /\ h \in Nat \ {0} /\ n \in Nat \ {0} /\ -1080 \in Int
    <3>1. CASE h = 800
      BY <1>2, <2>1, <3>1
    <3>2. CASE h = 900
      BY <1>2, <2>1, <3>2
    <3> QED BY <3>1, <3>2
  <2> HIDE DEF need, step, last, drop
  <2>3. Rule(k, In(k, a), <<Heading(need, step)>>, In(k, Pending(a, need - step)))
    BY <2>2, HeadingTo
  <2>4. Rule(k, In(k, Away(a, -1080)), <<Heading(need, step)>>, In(k, Pending(a, need - step)))
    BY <2>2, <2>3, AwayIsRest, RuleWeaken
  <2>5. Rule(k, In(k, Pending(a, need - step)), Times(n, Text(h, h)), In(k, a))
    BY <2>2, TextsPending
  <2>6. Rule(k, In(k, a), <<Text(last, drop)>>, In(k, Away(a, -1080)))
    BY <2>2, TextAway
  <2>7. Rule(k, In(k, Away(a, -1080)), <<Heading(need, step)>> \o Times(n, Text(h, h)), In(k, a))
    BY <2>4, <2>5, RuleJoin
  <2>8. Rule(k, In(k, Away(a, -1080)),
             <<Heading(need, step)>> \o Times(n, Text(h, h)) \o <<Text(last, drop)>>,
             In(k, Away(a, -1080)))
    BY <2>6, <2>7, RuleJoin
  <2> QED BY <1>2, <2>8 DEF ColumnPayments, When, need, step, last, drop
<1> QED BY <1>1, <1>2

LEMMA ColumnCancelledRule ==
  ASSUME NEW k \in Frames, NEW a \in Resting, NEW n \in Nat
  PROVE  Rule(k, In(k, Away(a, -1080)), ColumnCancelled(n), In(k, Away(a, -1080)))
<1>1. CASE n = 0
  BY <1>1, RuleEmpty DEF ColumnCancelled, When
<1>2. CASE n > 0
  <2> DEFINE need == 900 * n + 1260
             op == Text(900, 900)
             I == [i \in 0..n |-> IF i = 0 THEN In(k, Pending(a, need - 1080)) ELSE In(k, Away(a, 0))]
  <2>1. need \in Nat /\ need - 1080 \in Int /\ need - 1080 >= 900 /\ -1080 \in Int /\ -1080 = 0 - 1080
        /\ 0 <= 900 - 900 /\ 0 + 900 <= 40000
    BY <1>2
  <2> HIDE DEF need
  <2>2. Rule(k, In(k, a), <<Heading(need, 1080)>>, In(k, Pending(a, need - 1080)))
    BY <2>1, HeadingTo
  <2>3. Rule(k, In(k, Away(a, -1080)), <<Heading(need, 1080)>>, In(k, Pending(a, need - 1080)))
    BY <2>1, <2>2, AwayIsRest, RuleWeaken
  <2>4. Rule(k, In(k, Pending(a, need - 1080)), <<op>>, In(k, Away(a, 0)))
    BY <2>1, TextAway
  <2>5. Rule(k, In(k, Away(a, 0)), <<op>>, In(k, Away(a, 0)))
    <3>1. Rule(k, In(k, a), <<op>>, In(k, Away(a, 0)))
      BY <2>1, TextAway
    <3> QED BY <3>1, AwayIsRest, RuleWeaken
  <2>6. op \in Command
    BY <2>5, RuleOfOne
  <2> HIDE DEF op
  <2>7. ASSUME NEW i \in 1..n PROVE Rule(k, I[i - 1], <<op>>, I[i])
    <3>1. I[i] = In(k, Away(a, 0)) /\ (i # 1 => I[i - 1] = In(k, Away(a, 0)))
          /\ (i = 1 => I[i - 1] = In(k, Pending(a, need - 1080)))
      OBVIOUS
    <3> HIDE DEF I
    <3> QED BY <2>4, <2>5, <3>1
  <2>8. I[0] = In(k, Pending(a, need - 1080)) /\ I[n] = In(k, Away(a, 0))
    BY <1>2
  <2> HIDE DEF I
  <2>9. Rule(k, I[0], Times(n, op), I[n])
    BY <2>6, <2>7, RuleAgain
  <2>10. Rule(k, In(k, Away(a, 0)), <<Gap(1080)>>, In(k, Away(a, -1080)))
    BY <2>1, GapAway
  <2>11. Rule(k, In(k, Away(a, -1080)), <<Heading(need, 1080)>> \o Times(n, op), In(k, Away(a, 0)))
    BY <2>3, <2>8, <2>9, RuleJoin
  <2>12. Rule(k, In(k, Away(a, -1080)), <<Heading(need, 1080)>> \o Times(n, op) \o <<Gap(1080)>>,
              In(k, Away(a, -1080)))
    BY <2>10, <2>11, RuleJoin
  <2> QED BY <1>2, <2>12 DEF ColumnCancelled, When, need, op
<1> QED BY <1>1, <1>2

\* A table, where the room for its first line has been asked for.
LEMMA ColumnTableRule ==
  ASSUME NEW k \in Frames, NEW a \in Resting, NEW t \in UsageTable
  PROVE  Rule(k, In(k, Pending(a, 2790)), ColumnTable(t), In(k, Pending(Counted(a, t.rows), 2790)))
<1>0. t.rows \in Nat /\ t.label \in BOOLEAN
  BY DEF UsageTable
<1>1. CASE t.rows = 0
  <2>1. Counted(a, 0) = a
    BY FactsOf, RestingFacts
  <2> QED BY <1>1, <2>1, RuleEmpty DEF ColumnTable, When
<1>2. CASE t.rows > 0
  <2> DEFINE b == Counted(a, t.rows)
             label == When(t.label, <<Heading(2430, 1080)>>)
  <2>1. b \in Resting
    BY <1>0, CountedResting
  <2>2. Rule(k, In(k, Pending(a, 2790)), label, In(k, Pending(a, 1350)))
    <3>1. CASE t.label
      <4>1. Rule(k, In(k, Pending(a, 2790)), <<Heading(2430, 1080)>>, In(k, Pending(a, 2430 - 1080)))
        BY HeadingRule
      <4> QED BY <3>1, <4>1 DEF When
    <3>2. CASE ~t.label
      BY <3>2, PendingLess, RuleEmpty, FramesAre DEF When
    <3> QED BY <3>1, <3>2
  <2>3. Rule(k, In(k, Pending(a, 1350)), <<Text(1350, 1350)>>, In(k, a))
    BY TextRule
  <2>4. Rule(k, In(k, a), Times(t.rows, TableRow(900, 900)), In(k, b))
    BY <1>0, RowsRule
  <2>5. Rule(k, In(k, b), <<Text(1350, 1350)>>, In(k, Pending(b, 2790)))
    <3>1. Rule(k, In(k, b), <<Text(1350, 1350)>>, In(k, b))
      BY <2>1, TextRule
    <3>2. In(k, b) \subseteq In(k, Pending(b, 2790))
      BY <2>1, RestIsPending, FramesAre
    <3> QED BY <3>1, <3>2, RuleWeaken
  <2> HIDE DEF b, label
  <2>6. Rule(k, In(k, Pending(a, 2790)), label \o <<Text(1350, 1350)>>, In(k, a))
    BY <2>2, <2>3, RuleJoin
  <2>7. Rule(k, In(k, Pending(a, 2790)),
             label \o <<Text(1350, 1350)>> \o Times(t.rows, TableRow(900, 900)), In(k, b))
    BY <2>4, <2>6, RuleJoin
  <2>8. Rule(k, In(k, Pending(a, 2790)),
             label \o <<Text(1350, 1350)>> \o Times(t.rows, TableRow(900, 900))
               \o <<Text(1350, 1350)>>, In(k, Pending(b, 2790)))
    BY <2>5, <2>7, RuleJoin
  <2> QED BY <1>2, <2>8 DEF ColumnTable, When, b, label
<1> QED BY <1>0, <1>1, <1>2

\* The rows of the tables of a section, and of the sections of a bill.
RowsOf(tables) == [i \in 1..Len(tables) |-> tables[i].rows]
Shown(sections) == Added([i \in DOMAIN sections |-> Rows(sections[i])])

LEMMA RowsNat ==
  ASSUME NEW tables \in Seq(UsageTable)
  PROVE  RowsOf(tables) \in Seq(Nat) /\ Len(RowsOf(tables)) = Len(tables)
         /\ Rows(tables) = Added(RowsOf(tables)) /\ Rows(tables) \in Nat
         /\ \A i \in 1..Len(tables) : RowsOf(tables)[i] = tables[i].rows
<1>1. \A i \in 1..Len(tables) : tables[i].rows \in Nat
  <2>1. \A t \in UsageTable : t.rows \in Nat
    BY DEF UsageTable
  <2>2. \A i \in 1..Len(tables) : tables[i] \in UsageTable
    OBVIOUS
  <2> QED BY <2>1, <2>2
<1>2. RowsOf(tables) \in Seq(Nat) /\ Len(RowsOf(tables)) = Len(tables)
  BY <1>1 DEF RowsOf
<1>3. Rows(tables) = Added(RowsOf(tables))
  BY DEF Rows, RowsOf
<1> QED BY <1>2, <1>3, AddedNat DEF RowsOf

Sections == Seq(Seq(UsageTable) \ {<<>>})
SectionRows(sections) == [i \in 1..Len(sections) |-> Rows(sections[i])]

LEMMA ShownNat ==
  ASSUME NEW sections \in Sections
  PROVE  /\ SectionRows(sections) \in Seq(Nat) /\ Len(SectionRows(sections)) = Len(sections)
         /\ Shown(sections) = Added(SectionRows(sections)) /\ Shown(sections) \in Nat
         /\ \A i \in 1..Len(sections) : /\ SectionRows(sections)[i] = Rows(sections[i])
                                        /\ sections[i] \in Seq(UsageTable)
<1>1. DOMAIN sections = 1..Len(sections) /\ \A i \in 1..Len(sections) : sections[i] \in Seq(UsageTable)
  BY DEF Sections
<1>2. \A i \in 1..Len(sections) : Rows(sections[i]) \in Nat
  BY <1>1, RowsNat
<1>3. SectionRows(sections) \in Seq(Nat) /\ Len(SectionRows(sections)) = Len(sections)
  BY <1>2 DEF SectionRows
<1>4. Shown(sections) = Added(SectionRows(sections))
  BY <1>1 DEF Shown, SectionRows
<1> QED BY <1>1, <1>3, <1>4, AddedNat DEF SectionRows

\* Blocks of rows, one after the other, whatever holds between them.
LEMMA CountEach ==
  ASSUME NEW k, NEW a \in Resting, NEW ss, NEW ns \in Seq(Nat),
         ss = [i \in 1..Len(ns) |-> ss[i]], NEW P,
         \A i \in 1..Len(ns) : \A c \in Resting :
            c.two = a.two /\ c.later = a.later => Rule(k, P[c], ss[i], P[Counted(c, ns[i])])
  PROVE  Rule(k, P[a], FlattenSeq(ss), P[Counted(a, Added(ns))])
<1> DEFINE I == [m \in Nat |-> P[Counted(a, m)]]
<1>1. ASSUME NEW i \in 1..Len(ns), NEW m \in Nat PROVE Rule(k, I[m], ss[i], I[m + ns[i]])
  <2>1. ns[i] \in Nat /\ m + ns[i] \in Nat
    OBVIOUS
  <2>2. Counted(a, m) \in Resting /\ Counted(a, m).two = a.two /\ Counted(a, m).later = a.later
    BY CountedFacts
  <2>3. Counted(Counted(a, m), ns[i]) = Counted(a, m + ns[i])
    BY <2>1, CountedTwice, RestingFacts
  <2>4. Rule(k, P[Counted(a, m)], ss[i], P[Counted(a, m + ns[i])])
    BY <2>2, <2>3
  <2> QED BY <2>1, <2>4
<1>2. I[0] = P[a]
  <2>1. Counted(a, 0) = a
    <3>1. a \in Facts /\ 0 \in Int /\ 0 \in Nat
      BY RestingFacts
    <3> QED BY <3>1, FactsOf
  <2> QED BY <2>1
<1>3. I[Added(ns)] = P[Counted(a, Added(ns))]
  BY AddedNat
<1> HIDE DEF I
<1>4. Rule(k, I[0], FlattenSeq(ss), I[Added(ns)])
  BY <1>1, RuleCount
<1> QED BY <1>2, <1>3, <1>4

LEMMA ColumnTablesRule ==
  ASSUME NEW k \in Frames, NEW a \in Resting, NEW tables \in Seq(UsageTable)
  PROVE  Rule(k, In(k, Pending(a, 2790)), Each(tables, ColumnTable),
              In(k, Pending(Counted(a, Rows(tables)), 2790)))
<1> DEFINE ss == [i \in 1..Len(tables) |-> ColumnTable(tables[i])]
           ns == RowsOf(tables)
           P == [c \in Resting |-> In(k, Pending(c, 2790))]
<1>1. ns \in Seq(Nat) /\ Len(ns) = Len(tables) /\ Rows(tables) = Added(ns) /\ Rows(tables) \in Nat
      /\ \A i \in 1..Len(ns) : ns[i] = tables[i].rows /\ ns[i] \in Nat
  BY RowsNat
<1> HIDE DEF ns
<1>2. ss = [i \in 1..Len(ns) |-> ss[i]] /\ \A i \in 1..Len(ns) : ss[i] = ColumnTable(tables[i])
  BY <1>1
<1>3. ASSUME NEW i \in 1..Len(ns), NEW c \in Resting
      PROVE  Rule(k, P[c], ss[i], P[Counted(c, ns[i])])
  <2>1. Counted(c, ns[i]) \in Resting /\ tables[i] \in UsageTable
    BY <1>1, CountedResting
  <2>2. Rule(k, In(k, Pending(c, 2790)), ColumnTable(tables[i]), In(k, Pending(Counted(c, ns[i]), 2790)))
    BY <1>1, <2>1, ColumnTableRule
  <2> QED BY <1>2, <2>1, <2>2
<1>4. P[a] = In(k, Pending(a, 2790))
      /\ P[Counted(a, Added(ns))] = In(k, Pending(Counted(a, Rows(tables)), 2790))
  BY <1>1, CountedResting
<1> HIDE DEF ss, P
<1>5. Rule(k, P[a], FlattenSeq(ss), P[Counted(a, Added(ns))])
  BY <1>1, <1>2, <1>3, CountEach
<1> QED BY <1>4, <1>5 DEF Each, Join, ss

LEMMA ColumnSectionRule ==
  ASSUME NEW k \in Frames, NEW a \in Resting, NEW tables \in Seq(UsageTable)
  PROVE  Rule(k, In(k, a), ColumnSection(tables), In(k, Counted(a, Rows(tables))))
<1> DEFINE b == Counted(a, Rows(tables))
<1>1. b \in Resting
  BY RowsNat, CountedResting
<1>2. Rule(k, In(k, a), <<Heading(4050, 1260)>>, In(k, Pending(a, 2790)))
  BY HeadingTo
<1>3. Rule(k, In(k, Pending(a, 2790)), Each(tables, ColumnTable), In(k, Pending(b, 2790)))
  BY ColumnTablesRule
<1> HIDE DEF b
<1>4. Rule(k, In(k, Pending(b, 2790)), <<Text(2250, 2250)>>, In(k, b))
  BY <1>1, TextRule
<1>5. Rule(k, In(k, a), <<Heading(4050, 1260)>> \o Each(tables, ColumnTable), In(k, Pending(b, 2790)))
  BY <1>2, <1>3, RuleJoin
<1>6. Rule(k, In(k, a), <<Heading(4050, 1260)>> \o Each(tables, ColumnTable) \o <<Text(2250, 2250)>>,
           In(k, b))
  BY <1>4, <1>5, RuleJoin
<1> QED BY <1>6 DEF ColumnSection, b

LEMMA ColumnSectionsRule ==
  ASSUME NEW k \in Frames, NEW a \in Resting, NEW sections \in Sections
  PROVE  Rule(k, In(k, a), Each(sections, ColumnSection), In(k, Counted(a, Shown(sections))))
<1> DEFINE ss == [i \in 1..Len(sections) |-> ColumnSection(sections[i])]
           ns == SectionRows(sections)
           P == [c \in Resting |-> In(k, c)]
<1>1. ns \in Seq(Nat) /\ Len(ns) = Len(sections) /\ Shown(sections) = Added(ns)
      /\ Shown(sections) \in Nat
      /\ \A i \in 1..Len(ns) : /\ ns[i] = Rows(sections[i]) /\ ns[i] \in Nat
                               /\ sections[i] \in Seq(UsageTable)
  BY ShownNat
<1> HIDE DEF ns
<1>2. ss = [i \in 1..Len(ns) |-> ss[i]] /\ \A i \in 1..Len(ns) : ss[i] = ColumnSection(sections[i])
  BY <1>1
<1>3. ASSUME NEW i \in 1..Len(ns), NEW c \in Resting
      PROVE  Rule(k, P[c], ss[i], P[Counted(c, ns[i])])
  <2>1. Counted(c, ns[i]) \in Resting
    BY <1>1, CountedResting
  <2>2. Rule(k, In(k, c), ColumnSection(sections[i]), In(k, Counted(c, ns[i])))
    BY <1>1, ColumnSectionRule
  <2> QED BY <1>2, <2>1, <2>2
<1>4. P[a] = In(k, a) /\ P[Counted(a, Added(ns))] = In(k, Counted(a, Shown(sections)))
  BY <1>1, CountedResting
<1> HIDE DEF ss, P
<1>5. Rule(k, P[a], FlattenSeq(ss), P[Counted(a, Added(ns))])
  BY <1>1, <1>2, <1>3, CountEach
<1> QED BY <1>4, <1>5 DEF Each, Join, ss

LEMMA ColumnMessagesRule ==
  ASSUME NEW k \in Frames, NEW a \in Resting, NEW b, b.msgs \in Nat, b.susp \in BOOLEAN,
         NEW h \in {800, 900}
  PROVE  Rule(k, In(k, a), ColumnMessages(b, h), In(k, a))
<1> DEFINE m == (6 * h) \div 5
           first == <<Text(m, m)>>
           lines == Times(b.msgs, Text(h, h))
           notice == <<Text(h, h)>>
<1>1. m \in Nat /\ m \in Nat \ {0} /\ h \in Nat /\ h \in Nat \ {0}
  OBVIOUS
<1> HIDE DEF m
<1>2. /\ Rule(k, In(k, a), first, In(k, a)) /\ Rule(k, In(k, a), lines, In(k, a))
      /\ Rule(k, In(k, a), notice, In(k, a))
  BY <1>1, TextRule, TextsRule
<1> HIDE DEF first, lines, notice
<1>3. Rule(k, In(k, a), <<>>, In(k, a))
  BY RuleEmpty
<1>4. Rule(k, In(k, a), first \o lines, In(k, a))
  BY <1>2, RuleJoin
<1>5. Rule(k, In(k, a), When(b.msgs > 0, first \o lines), In(k, a))
  BY <1>3, <1>4 DEF When
<1>6. Rule(k, In(k, a), When(b.susp, notice), In(k, a))
  BY <1>2, <1>3 DEF When
<1>7. Rule(k, In(k, a), When(b.msgs > 0, first \o lines) \o When(b.susp, notice), In(k, a))
  BY <1>5, <1>6, RuleJoin
<1> QED BY <1>7 DEF ColumnMessages, m, first, lines, notice

-----------------------------------------------------------------------------
(***************************************************************************)
(* The layouts of one part: nonvat_enterprise, nonvat_print,               *)
(* vat_enterprise, vat_home and usd.                                       *)
(***************************************************************************)

Group == [own : Nat, kids : Seq(Nat)]

LEMMA BillFacts ==
  ASSUME NEW b \in Bill
  PROVE  /\ b.groups \in Seq(Group) /\ b.sections \in Sections
         /\ b.subs \in Nat /\ b.adj \in Nat /\ b.disc \in Nat /\ b.tax \in Nat
         /\ b.pay \in Nat /\ b.cancel \in Nat /\ b.msgs \in Nat
         /\ b.susp \in BOOLEAN /\ b.alt \in BOOLEAN /\ b.red \in BOOLEAN
         /\ b.names \in Seq(Nat \ {0})
BY DEF Bill, Group, Sections

LEMMA FlattenType ==
  ASSUME NEW S, NEW n \in Nat, NEW ss, ss = [i \in 1..n |-> ss[i]],
         \A i \in 1..n : ss[i] \in Seq(S)
  PROVE  FlattenSeq(ss) \in Seq(S)
<1>0. Len(ss) = n
  OBVIOUS
<1>1. CASE n = 0
  <2>1. ss = <<>> /\ FlattenSeq(ss) = ss
    BY <1>0, <1>1 DEF FlattenSeq
  <2>2. <<>> \in Seq(S)
    OBVIOUS
  <2> QED BY <2>1, <2>2
<1>2. CASE n # 0
  <2>1. PICK g : Flat(ss, g) /\ FlattenSeq(ss) = g[Len(ss)]
    BY <1>0, <1>2, FlattenIs
  <2> DEFINE E == {i \in Nat : i \in 1..n => g[i] \in Seq(S)}
  <2>2. 0 \in E
    OBVIOUS
  <2>3. ASSUME NEW i \in Nat \ {0}, i - 1 \in E PROVE i \in E
    <3> SUFFICES ASSUME i \in 1..n PROVE g[i] \in Seq(S)
      OBVIOUS
    <3>1. g[i] = IF i = 1 THEN ss[i] ELSE g[i - 1] \o ss[i]
      BY <1>0, <2>1 DEF Flat
    <3>2. ss[i] \in Seq(S)
      OBVIOUS
    <3>3. CASE i = 1
      BY <3>1, <3>2, <3>3
    <3>4. CASE i # 1
      <4>1. i - 1 \in 1..n
        BY <3>4
      <4>2. g[i - 1] \in Seq(S)
        BY <2>3, <4>1
      <4>3. g[i - 1] \o ss[i] \in Seq(S)
        BY <3>2, <4>2
      <4> QED BY <3>1, <3>4, <4>3
    <3> QED BY <3>3, <3>4
  <2>4. Nat \subseteq E
    <3> HIDE DEF E
    <3> QED BY <2>2, <2>3, Upward
  <2>5. g[n] \in Seq(S)
    BY <1>2, <2>4
  <2> QED BY <1>0, <2>1, <2>5
<1> QED BY <1>1, <1>2

LEMMA ProductsType ==
  ASSUME NEW b \in Bill
  PROVE  Products(b) \in Seq(Nat)
<1> DEFINE ss == [i \in 1..Len(b.groups) |-> <<b.groups[i].own>> \o b.groups[i].kids]
<1>0. b.groups \in Seq(Group)
  BY BillFacts
<1>1. ASSUME NEW i \in 1..Len(b.groups) PROVE ss[i] \in Seq(Nat)
  <2>1. b.groups[i] \in Group
    BY <1>0
  <2>2. b.groups[i].own \in Nat /\ b.groups[i].kids \in Seq(Nat)
    BY <2>1 DEF Group
  <2>3. <<b.groups[i].own>> \in Seq(Nat)
    BY <2>2
  <2>4. <<b.groups[i].own>> \o b.groups[i].kids \in Seq(Nat)
    BY <2>2, <2>3
  <2> QED BY <2>4
<1>2. ss = [i \in 1..Len(b.groups) |-> ss[i]] /\ Len(b.groups) \in Nat
  BY <1>0
<1> HIDE DEF ss
<1>3. FlattenSeq(ss) \in Seq(Nat)
  BY <1>1, <1>2, FlattenType
<1> QED BY <1>3 DEF Products, Join, ss

\* One block for each member of a sequence.
LEMMA EachProduct ==
  ASSUME NEW k \in Frames, NEW a \in Resting, NEW ns \in Seq(Nat), NEW gap \in Nat \ {0},
         NEW h \in Nat \ {0}, ~a.two, gap < 20000
  PROVE  Rule(k, In(k, a), FlattenSeq([i \in 1..Len(ns) |-> LabelledProduct(ns[i], gap, h)]), In(k, a))
<1> DEFINE ss == [i \in 1..Len(ns) |-> LabelledProduct(ns[i], gap, h)]
           n == Len(ns)
           P == In(k, a)
<1>1. ss = [i \in 1..n |-> ss[i]] /\ n \in Nat
  OBVIOUS
<1>2. ASSUME NEW i \in 1..n PROVE Rule(k, P, ss[i], P)
  <2>1. ns[i] \in Nat
    OBVIOUS
  <2>2. Rule(k, In(k, a), LabelledProduct(ns[i], gap, h), In(k, a))
    BY <2>1, LabelledProductRule
  <2> QED BY <2>2
<1> HIDE DEF ss, n, P
<1>3. Rule(k, P, FlattenSeq(ss), P)
  BY <1>1, <1>2, RuleEach
<1> QED BY <1>3 DEF ss, P

\* The payments, where nothing is known but that the columns have started.
LEMMA FlowPaymentsRule ==
  ASSUME NEW k \in Frames, NEW a \in Resting, NEW n \in Nat, NEW h \in {800, 900}
  PROVE  Rule(k, Started(k, a), ColumnPayments(n, h), In(k, a))
<1>1. -1080 \in Int
  OBVIOUS
<1> QED BY <1>1, ColumnPaymentsRule, StartedIsAway, AwayIsRest, RuleWeaken

LEMMA FlowCancelledRule ==
  ASSUME NEW k \in Frames, NEW a \in Resting, NEW n \in Nat, NEW m \in Nat, NEW h \in {800, 900}
  PROVE  Rule(k, Started(k, a), ColumnPayments(n, h) \o ColumnCancelled(m), In(k, a))
<1>1. -1080 \in Int
  OBVIOUS
<1>2. Rule(k, In(k, Away(a, -1080)), ColumnPayments(n, h) \o ColumnCancelled(m), In(k, Away(a, -1080)))
  BY ColumnPaymentsRule, ColumnCancelledRule, RuleJoin
<1> QED BY <1>1, <1>2, StartedIsAway, AwayIsRest, RuleWeaken

-----------------------------------------------------------------------------
(* The layouts of one part.                                                *)

LEMMA NonvatEnterpriseRule ==
  ASSUME NEW k \in Frames, NEW a \in Resting, NEW b \in Bill, ~a.two, k.deck = -1200
  PROVE  Rule(k, In(k, a), NonvatEnterprisePage(b)[1].ops, In(k, Counted(Two(a), Shown(b.sections))))
<1> DEFINE c == Two(a)
           d == Counted(c, Shown(b.sections))
           A1 == NonvatEnterpriseCharges(b)
           A2 == NonvatEnterpriseAdjustments(b)
           A3 == NonvatEnterpriseDiscounts(b)
           A4 == NonvatEnterpriseTaxes(b)
           A5 == NonvatEnterpriseTotal
           A6 == NonvatEnterprisePayments(b)
           A7 == NonvatEnterpriseUsage(b)
           A8 == NonvatEnterpriseMessages(b)
<1>1. c \in Resting /\ d \in Resting
  BY BillFacts, ShownNat, TwoFacts, CountedResting
<1>2. Rule(k, In(k, a), A1, In(k, a))
  <2> DEFINE ns == Products(b)
             h == 1500
             g == 900
             ops == FlattenSeq([i \in 1..Len(ns) |-> LabelledProduct(ns[i], h, g)])
  <2>1. ns \in Seq(Nat)
    BY ProductsType
  <2>2. h \in Nat \ {0} /\ g \in Nat \ {0} /\ h < 20000
    OBVIOUS
  <2>3. NonvatEnterpriseCharges(b) = ops
    BY DEF NonvatEnterpriseCharges, Each, Join
  <2> HIDE DEF ns, g, h
  <2>4. Rule(k, In(k, a), ops, In(k, a))
    BY <2>1, <2>2, EachProduct
  <2> HIDE DEF ops
  <2> QED BY <2>3, <2>4
<1>3. Rule(k, In(k, a), A2, In(k, a))
  BY BillFacts, HeadedListRule DEF NonvatEnterpriseAdjustments
<1>4. Rule(k, In(k, a), A3, In(k, a))
  BY BillFacts, HeadedListRule DEF NonvatEnterpriseDiscounts
<1>5. Rule(k, In(k, a), A4, In(k, a))
  BY BillFacts, SummedTaxRule DEF NonvatEnterpriseTaxes
<1>6. Rule(k, In(k, a), A5, Started(k, c))
  BY TotalThenColumnsRule DEF NonvatEnterpriseTotal
<1> HIDE DEF c
<1>7. Rule(k, Started(k, c), A6, In(k, c))
  BY <1>1, BillFacts, FlowCancelledRule DEF NonvatEnterprisePayments
<1>8. Rule(k, In(k, c), A7, In(k, d))
  BY <1>1, BillFacts, ColumnSectionsRule DEF NonvatEnterpriseUsage
<1> HIDE DEF d
<1>9. Rule(k, In(k, d), A8, In(k, d))
  BY <1>1, BillFacts, ColumnMessagesRule DEF NonvatEnterpriseMessages
<1> HIDE DEF A1, A2, A3, A4, A5, A6, A7, A8
<1>10. Rule(k, In(k, a), A1 \o A2, In(k, a))
  BY <1>2, <1>3, RuleJoin
<1>11. Rule(k, In(k, a), A1 \o A2 \o A3, In(k, a))
  BY <1>4, <1>10, RuleJoin
<1>12. Rule(k, In(k, a), A1 \o A2 \o A3 \o A4, In(k, a))
  BY <1>5, <1>11, RuleJoin
<1>13. Rule(k, In(k, a), A1 \o A2 \o A3 \o A4 \o A5, Started(k, c))
  BY <1>6, <1>12, RuleJoin
<1>14. Rule(k, In(k, a), A1 \o A2 \o A3 \o A4 \o A5 \o A6, In(k, c))
  BY <1>7, <1>13, RuleJoin
<1>15. Rule(k, In(k, a), A1 \o A2 \o A3 \o A4 \o A5 \o A6 \o A7, In(k, d))
  BY <1>8, <1>14, RuleJoin
<1>16. Rule(k, In(k, a), A1 \o A2 \o A3 \o A4 \o A5 \o A6 \o A7 \o A8, In(k, d))
  BY <1>9, <1>15, RuleJoin
<1>17. NonvatEnterprisePage(b)[1].ops = A1 \o A2 \o A3 \o A4 \o A5 \o A6 \o A7 \o A8
  <2> DEFINE page == NonvatEnterprisePage(b)
             ops == A1 \o A2 \o A3 \o A4 \o A5 \o A6 \o A7 \o A8
  <2>1. page = <<Part(NonvatEnterpriseFloor(b), 8000, 74000, ops)>>
    BY DEF NonvatEnterprisePage, NonvatEnterpriseTop, A1, A2, A3, A4, A5, A6, A7, A8
  <2> HIDE DEF page, ops
  <2>2. page[1].ops = ops
    BY <2>1, OnlyPart
  <2> QED BY <2>2 DEF page, ops
<1> QED BY <1>16, <1>17 DEF c, d

LEMMA NonvatPrintRule ==
  ASSUME NEW k \in Frames, NEW a \in Resting, NEW b \in Bill, ~a.two, k.deck = -1200
  PROVE  Rule(k, In(k, a), NonvatPrintPage(b)[1].ops, In(k, Two(a)))
<1> DEFINE c == Two(a)
           A1 == NonvatPrintCharges(b)
           A2 == NonvatPrintAdjustments(b)
           A3 == NonvatPrintDiscounts(b)
           A4 == NonvatPrintTaxes(b)
           A5 == NonvatPrintTotal
           A6 == NonvatPrintFlow(b)
<1>1. c \in Resting
  BY TwoFacts
<1>2. Rule(k, In(k, a), A1, In(k, a))
  <2> DEFINE ns == Products(b)
             h == 1200
             g == 900
             ops == FlattenSeq([i \in 1..Len(ns) |-> LabelledProduct(ns[i], h, g)])
  <2>1. ns \in Seq(Nat)
    BY ProductsType
  <2>2. h \in Nat \ {0} /\ g \in Nat \ {0} /\ h < 20000
    OBVIOUS
  <2>3. NonvatPrintCharges(b) = ops
    BY DEF NonvatPrintCharges, Each, Join
  <2> HIDE DEF ns, g, h
  <2>4. Rule(k, In(k, a), ops, In(k, a))
    BY <2>1, <2>2, EachProduct
  <2> HIDE DEF ops
  <2> QED BY <2>3, <2>4
<1>3. Rule(k, In(k, a), A2, In(k, a))
  BY BillFacts, HeadedListRule DEF NonvatPrintAdjustments
<1>4. Rule(k, In(k, a), A3, In(k, a))
  BY BillFacts, HeadedListRule DEF NonvatPrintDiscounts
<1>5. Rule(k, In(k, a), A4, In(k, a))
  BY BillFacts, SummedTaxRule DEF NonvatPrintTaxes
<1>6. Rule(k, In(k, a), A5, Started(k, c))
  BY TotalThenColumnsRule DEF NonvatPrintTotal
<1> HIDE DEF c
<1>7. Rule(k, Started(k, c), A6, In(k, c))
  <2>1. Rule(k, Started(k, c), ColumnPayments(b.pay, 800), In(k, c))
    BY <1>1, BillFacts, FlowPaymentsRule
  <2>2. Rule(k, In(k, c), ColumnMessages(b, 800), In(k, c))
    BY <1>1, BillFacts, ColumnMessagesRule
  <2> QED BY <2>1, <2>2, RuleJoin DEF NonvatPrintFlow
<1> HIDE DEF A1, A2, A3, A4, A5, A6
<1>8. Rule(k, In(k, a), A1 \o A2, In(k, a))
  BY <1>2, <1>3, RuleJoin
<1>9. Rule(k, In(k, a), A1 \o A2 \o A3, In(k, a))
  BY <1>4, <1>8, RuleJoin
<1>10. Rule(k, In(k, a), A1 \o A2 \o A3 \o A4, In(k, a))
  BY <1>5, <1>9, RuleJoin
<1>11. Rule(k, In(k, a), A1 \o A2 \o A3 \o A4 \o A5, Started(k, c))
  BY <1>6, <1>10, RuleJoin
<1>12. Rule(k, In(k, a), A1 \o A2 \o A3 \o A4 \o A5 \o A6, In(k, c))
  BY <1>7, <1>11, RuleJoin
<1>13. NonvatPrintPage(b)[1].ops = A1 \o A2 \o A3 \o A4 \o A5 \o A6
  BY DEF NonvatPrintPage, NonvatPrintTop, Part, A1, A2, A3, A4, A5, A6
<1> QED BY <1>12, <1>13 DEF c

-----------------------------------------------------------------------------
\* A reference and its products.
LEMMA ReferenceRule ==
  ASSUME NEW k, NEW P, NEW cond \in BOOLEAN, NEW blank, NEW head, NEW n \in Nat, NEW kids,
         kids = [j \in 1..n |-> kids[j]],
         Rule(k, P, blank, P), Rule(k, P, head, P), \A j \in 1..n : Rule(k, P, kids[j], P)
  PROVE  Rule(k, P, When(cond, blank) \o head \o FlattenSeq(kids), P)
<1>1. Rule(k, P, When(cond, blank), P)
  BY RuleEmpty DEF When
<1>2. Rule(k, P, FlattenSeq(kids), P)
  BY RuleEach
<1>3. Rule(k, P, When(cond, blank) \o head, P)
  BY <1>1, RuleJoin
<1> QED BY <1>2, <1>3, RuleJoin

LEMMA BlankRule ==
  ASSUME NEW k \in Frames, NEW a \in Resting, ~a.two, NEW need \in Nat, NEW step \in Nat
  PROVE  Rule(k, In(k, a), <<Room(need), Gap(step)>>, In(k, a))
<1>1. Rule(k, In(k, a), <<Room(need)>>, In(k, Roomy(a, 0)))
  BY RoomRule, FramesAre
<1>2. Rule(k, In(k, a), <<Room(need)>>, In(k, a))
  <2>1. 0 \in Int
    OBVIOUS
  <2> QED BY <1>1, <2>1, RoomyIsRest, FramesAre, RuleWeaken
<1>3. Rule(k, In(k, a), <<Gap(step)>>, In(k, a))
  BY GapRule
<1> QED BY <1>2, <1>3, RulePair

\* A heading that asks for itself and a line, and its lines, if any.
LEMMA HeadedRule ==
  ASSUME NEW k \in Frames, NEW a \in Resting, NEW n \in Nat
  PROVE  Rule(k, In(k, a), <<IF n = 0 THEN Text(2000, 1000) ELSE Heading(2000, 1000)>>
                             \o Times(n, Text(1000, 1000)), In(k, a))
<1>1. CASE n = 0
  <2>1. Rule(k, In(k, a), <<Text(2000, 1000)>>, In(k, a))
    BY TextRule
  <2>2. Rule(k, In(k, a), Times(n, Text(1000, 1000)), In(k, a))
    BY TextsRule
  <2> QED BY <1>1, <2>1, <2>2, RuleJoin
<1>2. CASE n # 0
  <2>1. Rule(k, In(k, a), <<Heading(2000, 1000)>>, In(k, Pending(a, 1000)))
    BY HeadingTo
  <2>2. Rule(k, In(k, Pending(a, 1000)), Times(n, Text(1000, 1000)), In(k, a))
    BY <1>2, TextsPending
  <2> QED BY <1>2, <2>1, <2>2, RuleJoin
<1> QED BY <1>1, <1>2

LEMMA EnterpriseGroupsRule ==
  ASSUME NEW k \in Frames, NEW a \in Resting, NEW b \in Bill, ~a.two
  PROVE  Rule(k, In(k, a), VatEnterpriseCharges(b), In(k, a))
<1> DEFINE P == In(k, a)
           gs == b.groups
           n == Len(gs)
           blank == <<Room(1104), Gap(1104)>>
           block(i) == When(i > 1 /\ gs[i-1].kids # <<>> /\ gs[i].kids = <<>>, blank)
                         \o VatEnterpriseGroup(gs[i].own)
                         \o FlattenSeq([j \in 1..Len(gs[i].kids) |->
                              When(j > 1, blank) \o VatEnterpriseGroup(gs[i].kids[j])])
           ss == [i \in 1..n |-> block(i)]
<1>0. gs \in Seq(Group) /\ ss = [i \in 1..n |-> ss[i]]
  <2>1. ss = [i \in 1..n |-> ss[i]]
    <3> HIDE DEF block
    <3> QED OBVIOUS
  <2>2. gs \in Seq(Group)
    BY BillFacts
  <2> QED BY <2>1, <2>2
<1>1. n \in Nat
  <2> HIDE DEF gs, ss
  <2> QED BY <1>0
<1>2. Rule(k, P, blank, P)
  BY BlankRule
<1>3. \A m \in Nat : Rule(k, P, VatEnterpriseGroup(m), P)
  BY LabelledProductRule DEF VatEnterpriseGroup
<1> HIDE DEF P, blank
<1>4. ASSUME NEW i \in 1..n PROVE Rule(k, P, ss[i], P)
  <2>1. gs[i] \in Group
    <3> HIDE DEF gs
    <3> QED BY <1>0
  <2>2. gs[i].own \in Nat /\ gs[i].kids \in Seq(Nat)
    BY <2>1 DEF Group
  <2> DEFINE m == Len(gs[i].kids)
             ops == [j \in 1..m |-> When(j > 1, blank) \o VatEnterpriseGroup(gs[i].kids[j])]
             cond == i > 1 /\ gs[i-1].kids # <<>> /\ gs[i].kids = <<>>
  <2>a. m \in Nat
    BY <2>2
  <2>3. ops = [j \in 1..m |-> ops[j]]
    OBVIOUS
  <2>4. ASSUME NEW j \in 1..m PROVE Rule(k, P, ops[j], P)
    <3>1. gs[i].kids[j] \in Nat
      BY <2>2
    <3>2. Rule(k, P, VatEnterpriseGroup(gs[i].kids[j]), P)
      BY <1>3, <3>1
    <3>3. Rule(k, P, When(j > 1, blank), P)
      BY <1>2, RuleEmpty DEF When
    <3>4. Rule(k, P, When(j > 1, blank) \o VatEnterpriseGroup(gs[i].kids[j]), P)
      BY <3>2, <3>3, RuleJoin
    <3>5. ops[j] = When(j > 1, blank) \o VatEnterpriseGroup(gs[i].kids[j])
      OBVIOUS
    <3> QED BY <3>4, <3>5
  <2>5. Rule(k, P, VatEnterpriseGroup(gs[i].own), P)
    BY <1>3, <2>2
  <2>6. cond \in BOOLEAN
    OBVIOUS
  <2>7. ss[i] = When(cond, blank) \o VatEnterpriseGroup(gs[i].own) \o FlattenSeq(ops)
    OBVIOUS
  <2> HIDE DEF ops, m, cond, ss
  <2>8. Rule(k, P, When(cond, blank) \o VatEnterpriseGroup(gs[i].own) \o FlattenSeq(ops), P)
    BY <1>2, <2>a, <2>3, <2>4, <2>5, <2>6, ReferenceRule
  <2> QED BY <2>7, <2>8
<1>5. Rule(k, P, FlattenSeq(ss), P)
  <2> HIDE DEF ss, n
  <2> QED BY <1>0, <1>1, <1>4, RuleEach
<1>6. VatEnterpriseCharges(b) = FlattenSeq(ss)
  BY DEF VatEnterpriseCharges, ReferenceGroups, Join, blank
<1> QED BY <1>5, <1>6 DEF P

LEMMA VatEnterpriseRule ==
  ASSUME NEW k \in Frames, NEW a \in Resting, NEW b \in Bill, ~a.two, k.deck = -1200
  PROVE  Rule(k, In(k, a), VatEnterprisePage(b)[1].ops, In(k, Counted(Two(a), Shown(b.sections))))
<1> DEFINE c == Two(a)
           d == Counted(c, Shown(b.sections))
           A1 == VatEnterpriseCharges(b)
           A2 == VatEnterpriseAdjustments(b)
           A3 == VatEnterpriseDiscounts(b)
           A4 == VatEnterpriseTaxes(b)
           A5 == VatEnterpriseTotal
           A6 == VatEnterprisePayments(b)
           A7 == VatEnterpriseUsage(b)
           A8 == VatEnterpriseMessages(b)
<1>1. c \in Resting /\ d \in Resting
  BY BillFacts, ShownNat, TwoFacts, CountedResting
<1>2. Rule(k, In(k, a), A1, In(k, a))
  BY EnterpriseGroupsRule
<1>3. Rule(k, In(k, a), A2, In(k, a))
  BY BillFacts, HeadedListRule DEF VatEnterpriseAdjustments
<1>4. Rule(k, In(k, a), A3, In(k, a))
  BY BillFacts, HeadedListRule DEF VatEnterpriseDiscounts
<1>5. Rule(k, In(k, a), A4, In(k, a))
  BY BillFacts, HeadedListRule DEF VatEnterpriseTaxes
<1>6. Rule(k, In(k, a), A5, Started(k, c))
  BY TotalThenColumnsRule DEF VatEnterpriseTotal
<1> HIDE DEF c
<1>7. Rule(k, Started(k, c), A6, In(k, c))
  BY <1>1, BillFacts, FlowCancelledRule DEF VatEnterprisePayments
<1>8. Rule(k, In(k, c), A7, In(k, d))
  BY <1>1, BillFacts, ColumnSectionsRule DEF VatEnterpriseUsage
<1> HIDE DEF d
<1>9. Rule(k, In(k, d), A8, In(k, d))
  BY <1>1, BillFacts, ColumnMessagesRule DEF VatEnterpriseMessages
<1> HIDE DEF A1, A2, A3, A4, A5, A6, A7, A8
<1>10. Rule(k, In(k, a), A1 \o A2, In(k, a))
  BY <1>2, <1>3, RuleJoin
<1>11. Rule(k, In(k, a), A1 \o A2 \o A3, In(k, a))
  BY <1>4, <1>10, RuleJoin
<1>12. Rule(k, In(k, a), A1 \o A2 \o A3 \o A4, In(k, a))
  BY <1>5, <1>11, RuleJoin
<1>13. Rule(k, In(k, a), A1 \o A2 \o A3 \o A4 \o A5, Started(k, c))
  BY <1>6, <1>12, RuleJoin
<1>14. Rule(k, In(k, a), A1 \o A2 \o A3 \o A4 \o A5 \o A6, In(k, c))
  BY <1>7, <1>13, RuleJoin
<1>15. Rule(k, In(k, a), A1 \o A2 \o A3 \o A4 \o A5 \o A6 \o A7, In(k, d))
  BY <1>8, <1>14, RuleJoin
<1>16. Rule(k, In(k, a), A1 \o A2 \o A3 \o A4 \o A5 \o A6 \o A7 \o A8, In(k, d))
  BY <1>9, <1>15, RuleJoin
<1>17. VatEnterprisePage(b)[1].ops = A1 \o A2 \o A3 \o A4 \o A5 \o A6 \o A7 \o A8
  <2> DEFINE page == VatEnterprisePage(b)
             ops == A1 \o A2 \o A3 \o A4 \o A5 \o A6 \o A7 \o A8
  <2>1. page = <<Part(VatEnterpriseFloor(b), 8000, 77000, ops)>>
    BY DEF VatEnterprisePage, VatEnterpriseTop, A1, A2, A3, A4, A5, A6, A7, A8
  <2> HIDE DEF page, ops
  <2>2. page[1].ops = ops
    BY <2>1, OnlyPart
  <2> QED BY <2>2 DEF page, ops
<1> QED BY <1>16, <1>17 DEF c, d

LEMMA RestingEach ==
  ASSUME NEW k, NEW a \in Resting, NEW ns \in Seq(Nat), NEW ss, ss = [i \in 1..Len(ns) |-> ss[i]],
         \A i \in 1..Len(ns) : \A c \in Resting :
            c.two = a.two /\ c.later = a.later
              => Rule(k, In(k, c), ss[i], In(k, Counted(c, ns[i])))
  PROVE  Rule(k, In(k, a), FlattenSeq(ss), In(k, Counted(a, Added(ns))))
<1> DEFINE P == [c \in Resting |-> In(k, c)]
<1>1. ASSUME NEW i \in 1..Len(ns), NEW c \in Resting, c.two = a.two, c.later = a.later
      PROVE  Rule(k, P[c], ss[i], P[Counted(c, ns[i])])
  <2>1. ns[i] \in Nat
    OBVIOUS
  <2>2. Counted(c, ns[i]) \in Resting
    BY <2>1, CountedResting
  <2>3. Rule(k, In(k, c), ss[i], In(k, Counted(c, ns[i])))
    BY <1>1
  <2> QED BY <2>2, <2>3
<1>2. P[a] = In(k, a) /\ P[Counted(a, Added(ns))] = In(k, Counted(a, Added(ns)))
  BY AddedNat, CountedResting
<1> HIDE DEF P
<1>3. Rule(k, P[a], FlattenSeq(ss), P[Counted(a, Added(ns))])
  BY <1>1, CountEach
<1> QED BY <1>2, <1>3

\* A line, blocks of rows, and a line.
LEMMA FramedRowsRule ==
  ASSUME NEW k \in Frames, NEW a \in Resting, NEW ops, NEW n \in Nat,
         Rule(k, In(k, a), ops, In(k, Counted(a, n)))
  PROVE  Rule(k, In(k, a), <<Text(2000, 1000)>> \o ops \o <<Text(1000, 1000)>>, In(k, Counted(a, n)))
<1> DEFINE b == Counted(a, n)
<1>1. b \in Resting
  BY CountedResting
<1>2. Rule(k, In(k, a), ops, In(k, b))
  OBVIOUS
<1> HIDE DEF b
<1>3. Rule(k, In(k, a), <<Text(2000, 1000)>>, In(k, a))
  BY TextRule
<1>4. Rule(k, In(k, b), <<Text(1000, 1000)>>, In(k, b))
  BY <1>1, TextRule
<1>5. Rule(k, In(k, a), <<Text(2000, 1000)>> \o ops, In(k, b))
  BY <1>2, <1>3, RuleJoin
<1> QED BY <1>4, <1>5, RuleJoin DEF b

\* A heading and the rows of a table.
LEMMA HeadedRowsRule ==
  ASSUME NEW k \in Frames, NEW a \in Resting, NEW n \in Nat \ {0}
  PROVE  Rule(k, In(k, a), <<Heading(2000, 1000)>> \o Times(n, TableRow(1000, 1000)),
              In(k, Counted(a, n)))
<1>1. Rule(k, In(k, a), <<Heading(2000, 1000)>>, In(k, Pending(a, 1000)))
  BY HeadingTo
<1>2. Rule(k, In(k, Pending(a, 1000)), Times(n, TableRow(1000, 1000)), In(k, Counted(a, n)))
  <2>1. n \in Nat /\ n > 0
    OBVIOUS
  <2> QED BY <2>1, RowsRule
<1> QED BY <1>1, <1>2, RuleJoin

LEMMA LabelRule ==
  ASSUME NEW k \in Frames, NEW a \in Resting, NEW cond \in BOOLEAN
  PROVE  Rule(k, In(k, a), When(cond, <<Text(2000, 1000)>>), In(k, a))
<1>1. Rule(k, In(k, a), <<Text(2000, 1000)>>, In(k, a))
  BY TextRule
<1> QED BY <1>1, RuleEmpty DEF When

LEMMA VatHomeTableRule ==
  ASSUME NEW k \in Frames, NEW a \in Resting, NEW t \in UsageTable
  PROVE  Rule(k, In(k, a), VatHomeTable(t), In(k, Counted(a, t.rows)))
<1> DEFINE b == Counted(a, t.rows)
           A1 == When(t.label, <<Text(2000, 1000)>>)
           A2 == When(t.rows > 0, <<Heading(2000, 1000)>> \o Times(t.rows, TableRow(1000, 1000)))
<1>1. t.rows \in Nat /\ t.label \in BOOLEAN
  BY DEF UsageTable
<1>2. b \in Resting
  BY <1>1, CountedResting
<1>3. Rule(k, In(k, a), A1, In(k, a))
  BY <1>1, LabelRule
<1>4. Rule(k, In(k, a), A2, In(k, b))
  <2>1. CASE t.rows = 0
    <3>1. Counted(a, 0) = a
      <4>1. a \in Facts /\ 0 \in Int /\ 0 \in Nat
        BY RestingFacts
      <4> QED BY <4>1, FactsOf
    <3> QED BY <2>1, <3>1, RuleEmpty DEF When
  <2>2. CASE t.rows > 0
    BY <1>1, <2>2, HeadedRowsRule DEF When
  <2> QED BY <1>1, <2>1, <2>2
<1> HIDE DEF b, A1, A2
<1>5. Rule(k, In(k, b), <<Text(1000, 1000)>>, In(k, b))
  BY <1>2, TextRule
<1>6. Rule(k, In(k, a), A1 \o A2, In(k, b))
  BY <1>3, <1>4, RuleJoin
<1>7. Rule(k, In(k, a), A1 \o A2 \o <<Text(1000, 1000)>>, In(k, b))
  BY <1>5, <1>6, RuleJoin
<1> QED BY <1>7 DEF VatHomeTable, b, A1, A2

LEMMA UsdTableRule ==
  ASSUME NEW k \in Frames, NEW a \in Resting, NEW t \in UsageTable
  PROVE  Rule(k, In(k, a), UsdTable(t), In(k, Counted(a, t.rows)))
<1> DEFINE b == Counted(a, t.rows)
           A1 == When(t.label, <<Text(2000, 1000)>>)
           A2 == Times(t.rows, TableRow(1000, 1000))
<1>1. t.rows \in Nat /\ t.label \in BOOLEAN
  BY DEF UsageTable
<1>2. b \in Resting
  BY <1>1, CountedResting
<1>3. Rule(k, In(k, a), A1, In(k, a))
  BY <1>1, LabelRule
<1>4. CASE t.rows = 0
  <2>1. Counted(a, 0) = a
    <3>1. a \in Facts /\ 0 \in Int /\ 0 \in Nat
      BY RestingFacts
    <3> QED BY <3>1, FactsOf
  <2> QED BY <1>4, <2>1, RuleEmpty DEF When, UsdTable
<1>5. CASE t.rows > 0
  <2>1. Rule(k, In(k, a), <<Heading(2000, 1000)>>, In(k, Pending(a, 1000)))
    BY HeadingTo
  <2>2. Rule(k, In(k, Pending(a, 1000)), A2, In(k, b))
    BY <1>1, <1>5, RowsRule
  <2> HIDE DEF b, A1, A2
  <2>3. Rule(k, In(k, b), <<Text(1000, 1000)>>, In(k, b))
    BY <1>2, TextRule
  <2>4. Rule(k, In(k, a), A1 \o <<Heading(2000, 1000)>>, In(k, Pending(a, 1000)))
    BY <1>3, <2>1, RuleJoin
  <2>5. Rule(k, In(k, a), A1 \o <<Heading(2000, 1000)>> \o A2, In(k, b))
    BY <2>2, <2>4, RuleJoin
  <2>6. Rule(k, In(k, a), A1 \o <<Heading(2000, 1000)>> \o A2 \o <<Text(1000, 1000)>>, In(k, b))
    BY <2>3, <2>5, RuleJoin
  <2> QED BY <1>5, <2>6 DEF UsdTable, When, b, A1, A2
<1> QED BY <1>1, <1>4, <1>5

LEMMA VatHomeSectionRule ==
  ASSUME NEW k \in Frames, NEW a \in Resting, NEW s \in Seq(UsageTable)
  PROVE  Rule(k, In(k, a), <<Text(2000, 1000)>> \o Each(s, VatHomeTable) \o <<Text(1000, 1000)>>,
              In(k, Counted(a, Rows(s))))
<1> DEFINE ss == [i \in 1..Len(s) |-> VatHomeTable(s[i])]
           ns == RowsOf(s)
<1>1. ns \in Seq(Nat) /\ Len(ns) = Len(s) /\ Rows(s) = Added(ns) /\ Rows(s) \in Nat
      /\ \A i \in 1..Len(ns) : ns[i] = s[i].rows /\ ns[i] \in Nat
  BY RowsNat
<1> HIDE DEF ns
<1>2. ss = [i \in 1..Len(ns) |-> ss[i]] /\ \A i \in 1..Len(ns) : ss[i] = VatHomeTable(s[i])
  BY <1>1
<1>3. ASSUME NEW i \in 1..Len(ns), NEW c \in Resting
      PROVE  Rule(k, In(k, c), ss[i], In(k, Counted(c, ns[i])))
  <2>1. s[i] \in UsageTable
    BY <1>1
  <2> QED BY <1>1, <1>2, <2>1, VatHomeTableRule
<1> HIDE DEF ss
<1>4. Rule(k, In(k, a), FlattenSeq(ss), In(k, Counted(a, Added(ns))))
  BY <1>1, <1>2, <1>3, RestingEach
<1>5. Each(s, VatHomeTable) = FlattenSeq(ss)
  BY DEF Each, Join, ss
<1> QED BY <1>1, <1>4, <1>5, FramedRowsRule

LEMMA UsdSectionRule ==
  ASSUME NEW k \in Frames, NEW a \in Resting, NEW s \in Seq(UsageTable)
  PROVE  Rule(k, In(k, a), <<Text(2000, 1000)>> \o Each(s, UsdTable) \o <<Text(1000, 1000)>>,
              In(k, Counted(a, Rows(s))))
<1> DEFINE ss == [i \in 1..Len(s) |-> UsdTable(s[i])]
           ns == RowsOf(s)
<1>1. ns \in Seq(Nat) /\ Len(ns) = Len(s) /\ Rows(s) = Added(ns) /\ Rows(s) \in Nat
      /\ \A i \in 1..Len(ns) : ns[i] = s[i].rows /\ ns[i] \in Nat
  BY RowsNat
<1> HIDE DEF ns
<1>2. ss = [i \in 1..Len(ns) |-> ss[i]] /\ \A i \in 1..Len(ns) : ss[i] = UsdTable(s[i])
  BY <1>1
<1>3. ASSUME NEW i \in 1..Len(ns), NEW c \in Resting
      PROVE  Rule(k, In(k, c), ss[i], In(k, Counted(c, ns[i])))
  <2>1. s[i] \in UsageTable
    BY <1>1
  <2> QED BY <1>1, <1>2, <2>1, UsdTableRule
<1> HIDE DEF ss
<1>4. Rule(k, In(k, a), FlattenSeq(ss), In(k, Counted(a, Added(ns))))
  BY <1>1, <1>2, <1>3, RestingEach
<1>5. Each(s, UsdTable) = FlattenSeq(ss)
  BY DEF Each, Join, ss
<1> QED BY <1>1, <1>4, <1>5, FramedRowsRule

LEMMA VatHomeUsageRule ==
  ASSUME NEW k \in Frames, NEW a \in Resting, NEW b \in Bill
  PROVE  Rule(k, In(k, a), VatHomeUsage(b), In(k, Counted(a, Shown(b.sections))))
<1> DEFINE sections == b.sections
           block(s) == <<Text(2000, 1000)>> \o Each(s, VatHomeTable) \o <<Text(1000, 1000)>>
           ss == [i \in 1..Len(sections) |-> block(sections[i])]
           ns == SectionRows(sections)
<1>0. sections \in Sections
  BY BillFacts
<1>1. ns \in Seq(Nat) /\ Len(ns) = Len(sections) /\ Shown(sections) = Added(ns)
      /\ \A i \in 1..Len(ns) : /\ ns[i] = Rows(sections[i]) /\ ns[i] \in Nat
                               /\ sections[i] \in Seq(UsageTable)
  <2> HIDE DEF sections
  <2> QED BY <1>0, ShownNat
<1>2. VatHomeUsage(b) = FlattenSeq(ss)
  BY DEF VatHomeUsage, Each, Join
<1>3. \A s \in Seq(UsageTable), c \in Resting : Rule(k, In(k, c), block(s), In(k, Counted(c, Rows(s))))
  BY VatHomeSectionRule
<1> HIDE DEF ns, block
<1>4. ss = [i \in 1..Len(ns) |-> ss[i]] /\ \A i \in 1..Len(ns) : ss[i] = block(sections[i])
  BY <1>1
<1> HIDE DEF ss, sections
<1>5. Rule(k, In(k, a), FlattenSeq(ss), In(k, Counted(a, Added(ns))))
  BY <1>1, <1>3, <1>4, RestingEach
<1> QED BY <1>1, <1>2, <1>5 DEF sections

LEMMA UsdUsageRule ==
  ASSUME NEW k \in Frames, NEW a \in Resting, NEW b \in Bill
  PROVE  Rule(k, In(k, a), UsdUsage(b), In(k, Counted(a, Shown(b.sections))))
<1> DEFINE sections == b.sections
           block(s) == <<Text(2000, 1000)>> \o Each(s, UsdTable) \o <<Text(1000, 1000)>>
           ss == [i \in 1..Len(sections) |-> block(sections[i])]
           ns == SectionRows(sections)
<1>0. sections \in Sections
  BY BillFacts
<1>1. ns \in Seq(Nat) /\ Len(ns) = Len(sections) /\ Shown(sections) = Added(ns)
      /\ \A i \in 1..Len(ns) : /\ ns[i] = Rows(sections[i]) /\ ns[i] \in Nat
                               /\ sections[i] \in Seq(UsageTable)
  <2> HIDE DEF sections
  <2> QED BY <1>0, ShownNat
<1>2. UsdUsage(b) = FlattenSeq(ss)
  BY DEF UsdUsage, Each, Join
<1>3. \A s \in Seq(UsageTable), c \in Resting : Rule(k, In(k, c), block(s), In(k, Counted(c, Rows(s))))
  BY UsdSectionRule
<1> HIDE DEF ns, block
<1>4. ss = [i \in 1..Len(ns) |-> ss[i]] /\ \A i \in 1..Len(ns) : ss[i] = block(sections[i])
  BY <1>1
<1> HIDE DEF ss, sections
<1>5. Rule(k, In(k, a), FlattenSeq(ss), In(k, Counted(a, Added(ns))))
  BY <1>1, <1>3, <1>4, RestingEach
<1> QED BY <1>1, <1>2, <1>5 DEF sections

LEMMA HomeGroupsRule ==
  ASSUME NEW k \in Frames, NEW a \in Resting, NEW b \in Bill, ~a.two
  PROVE  Rule(k, In(k, a), VatHomeCharges(b), In(k, a))
<1> DEFINE P == In(k, a)
           gs == b.groups
           n == Len(gs)
           blank == <<Room(3000), Gap(1000)>>
           block(i) == When(i > 1 /\ gs[i-1].kids # <<>> /\ gs[i].kids = <<>>, blank)
                         \o VatHomeGroup(gs[i].own)
                         \o FlattenSeq([j \in 1..Len(gs[i].kids) |->
                              When(j > 1, blank) \o VatHomeGroup(gs[i].kids[j])])
           ss == [i \in 1..n |-> block(i)]
<1>0. gs \in Seq(Group) /\ ss = [i \in 1..n |-> ss[i]]
  <2>1. ss = [i \in 1..n |-> ss[i]]
    <3> HIDE DEF block
    <3> QED OBVIOUS
  <2>2. gs \in Seq(Group)
    BY BillFacts
  <2> HIDE DEF n, ss, gs
  <2> QED BY <2>1, <2>2
<1>1. n \in Nat
  <2> HIDE DEF gs, ss
  <2> QED BY <1>0
<1>2. Rule(k, P, blank, P)
  BY BlankRule
<1>3. \A m \in Nat : Rule(k, P, VatHomeGroup(m), P)
  BY HeadedRule DEF VatHomeGroup
<1> HIDE DEF P, blank
<1>4. ASSUME NEW i \in 1..n PROVE Rule(k, P, ss[i], P)
  <2>1. gs[i] \in Group
    <3> HIDE DEF gs
    <3> QED BY <1>0
  <2>2. gs[i].own \in Nat /\ gs[i].kids \in Seq(Nat)
    BY <2>1 DEF Group
  <2> DEFINE m == Len(gs[i].kids)
             ops == [j \in 1..m |-> When(j > 1, blank) \o VatHomeGroup(gs[i].kids[j])]
             cond == i > 1 /\ gs[i-1].kids # <<>> /\ gs[i].kids = <<>>
  <2>a. m \in Nat
    BY <2>2
  <2>3. ops = [j \in 1..m |-> ops[j]]
    OBVIOUS
  <2>4. ASSUME NEW j \in 1..m PROVE Rule(k, P, ops[j], P)
    <3>1. gs[i].kids[j] \in Nat
      BY <2>2
    <3>2. Rule(k, P, VatHomeGroup(gs[i].kids[j]), P)
      BY <1>3, <3>1
    <3>3. Rule(k, P, When(j > 1, blank), P)
      BY <1>2, RuleEmpty DEF When
    <3>4. Rule(k, P, When(j > 1, blank) \o VatHomeGroup(gs[i].kids[j]), P)
      BY <3>2, <3>3, RuleJoin
    <3>5. ops[j] = When(j > 1, blank) \o VatHomeGroup(gs[i].kids[j])
      OBVIOUS
    <3> QED BY <3>4, <3>5
  <2>5. Rule(k, P, VatHomeGroup(gs[i].own), P)
    BY <1>3, <2>2
  <2>6. cond \in BOOLEAN
    OBVIOUS
  <2>7. ss[i] = When(cond, blank) \o VatHomeGroup(gs[i].own) \o FlattenSeq(ops)
    OBVIOUS
  <2> HIDE DEF ops, m, cond, ss
  <2>8. Rule(k, P, When(cond, blank) \o VatHomeGroup(gs[i].own) \o FlattenSeq(ops), P)
    BY <1>2, <2>a, <2>3, <2>4, <2>5, <2>6, ReferenceRule
  <2> QED BY <2>7, <2>8
<1>5. Rule(k, P, FlattenSeq(ss), P)
  <2> HIDE DEF ss, n
  <2> QED BY <1>0, <1>1, <1>4, RuleEach
<1>6. VatHomeCharges(b) = FlattenSeq(ss)
  BY DEF VatHomeCharges, ReferenceGroups, Join, blank
<1> QED BY <1>5, <1>6 DEF P

LEMMA NoticeRule ==
  ASSUME NEW k \in Frames, NEW a \in Resting, NEW cond \in BOOLEAN
  PROVE  Rule(k, In(k, a), When(cond, <<Text(1000, 1000)>>), In(k, a))
<1>1. Rule(k, In(k, a), <<Text(1000, 1000)>>, In(k, a))
  BY TextRule
<1> QED BY <1>1, RuleEmpty DEF When

LEMMA VatHomeRule ==
  ASSUME NEW k \in Frames, NEW a \in Resting, NEW b \in Bill, ~a.two, k.deck = -1200
  PROVE  Rule(k, In(k, a), VatHomePage(b)[1].ops, In(k, Counted(Two(a), Shown(b.sections))))
<1> DEFINE c == Two(a)
           d == Counted(c, Shown(b.sections))
           A1 == VatHomeCharges(b)
           A2 == VatHomeAdjustments(b)
           A3 == VatHomeDiscounts(b)
           A4 == VatHomeTaxes(b)
           A5 == VatHomeTotal
           A6 == VatHomePayments(b)
           A7 == VatHomeCancelled(b)
           A8 == VatHomeUsage(b)
           A9 == VatHomeMessages(b)
<1>1. c \in Resting /\ d \in Resting
  BY BillFacts, ShownNat, TwoFacts, CountedResting
<1>2. Rule(k, In(k, a), A1, In(k, a))
  BY HomeGroupsRule
<1>3. Rule(k, In(k, a), A2, In(k, a))
  BY BillFacts, HeadedListRule DEF VatHomeAdjustments
<1>4. Rule(k, In(k, a), A3, In(k, a))
  BY BillFacts, HeadedListRule DEF VatHomeDiscounts
<1>5. Rule(k, In(k, a), A4, In(k, a))
  BY BillFacts, HeadedListRule DEF VatHomeTaxes
<1>6. Rule(k, In(k, a), A5, In(k, c))
  <2>1. Rule(k, In(k, a), <<Lowered(3000, 1000, 1500)>>, In(k, Roomy(a, 0)))
    BY FramesAre, LoweredRule
  <2>2. Rule(k, In(k, Roomy(a, 0)), <<Columns>>, Started(k, c))
    BY ColumnsRule
  <2>3. Rule(k, In(k, Roomy(a, 0)), <<Columns>>, In(k, c))
    BY <2>2, StartedIsIn, RuleWeaken
  <2> QED BY <2>1, <2>3, RulePair DEF VatHomeTotal
<1> HIDE DEF c
<1>7. Rule(k, In(k, c), A6, In(k, c))
  <2>1. Rule(k, In(k, c), HeadedList(b.pay, 1000), In(k, c))
    BY <1>1, BillFacts, HeadedListRule
  <2>2. Rule(k, In(k, c), <<Text(1000, 1000)>>, In(k, c))
    BY <1>1, TextRule
  <2>3. Rule(k, In(k, c), HeadedList(b.pay, 1000) \o <<Text(1000, 1000)>>, In(k, c))
    BY <2>1, <2>2, RuleJoin
  <2> QED BY <2>3, RuleEmpty DEF VatHomePayments, When
<1>8. Rule(k, In(k, c), A7, In(k, c))
  BY <1>1, BillFacts, HeadedListRule DEF VatHomeCancelled
<1>9. Rule(k, In(k, c), A8, In(k, d))
  BY <1>1, VatHomeUsageRule
<1> HIDE DEF d
<1>10. Rule(k, In(k, d), A9, In(k, d))
  <2>1. Rule(k, In(k, d), HeadedList(b.msgs, 1000), In(k, d))
    BY <1>1, BillFacts, HeadedListRule
  <2>2. Rule(k, In(k, d), When(b.susp, <<Text(1000, 1000)>>), In(k, d))
    BY <1>1, BillFacts, NoticeRule
  <2> QED BY <2>1, <2>2, RuleJoin DEF VatHomeMessages
<1> HIDE DEF A1, A2, A3, A4, A5, A6, A7, A8, A9
<1>11. Rule(k, In(k, a), A1 \o A2, In(k, a))
  BY <1>2, <1>3, RuleJoin
<1>12. Rule(k, In(k, a), A1 \o A2 \o A3, In(k, a))
  BY <1>4, <1>11, RuleJoin
<1>13. Rule(k, In(k, a), A1 \o A2 \o A3 \o A4, In(k, a))
  BY <1>5, <1>12, RuleJoin
<1>14. Rule(k, In(k, a), A1 \o A2 \o A3 \o A4 \o A5, In(k, c))
  BY <1>6, <1>13, RuleJoin
<1>15. Rule(k, In(k, a), A1 \o A2 \o A3 \o A4 \o A5 \o A6, In(k, c))
  BY <1>7, <1>14, RuleJoin
<1>16. Rule(k, In(k, a), A1 \o A2 \o A3 \o A4 \o A5 \o A6 \o A7, In(k, c))
  BY <1>8, <1>15, RuleJoin
<1>17. Rule(k, In(k, a), A1 \o A2 \o A3 \o A4 \o A5 \o A6 \o A7 \o A8, In(k, d))
  BY <1>9, <1>16, RuleJoin
<1>18. Rule(k, In(k, a), A1 \o A2 \o A3 \o A4 \o A5 \o A6 \o A7 \o A8 \o A9, In(k, d))
  BY <1>10, <1>17, RuleJoin
<1>19. VatHomePage(b)[1].ops = A1 \o A2 \o A3 \o A4 \o A5 \o A6 \o A7 \o A8 \o A9
  <2> DEFINE page == VatHomePage(b)
             ops == A1 \o A2 \o A3 \o A4 \o A5 \o A6 \o A7 \o A8 \o A9
  <2>1. page = <<Part(IF b.red THEN -62200 ELSE -68500, -80000, -7000, ops)>>
    BY DEF VatHomePage, VatHomeTop, A1, A2, A3, A4, A5, A6, A7, A8, A9
  <2> HIDE DEF page, ops
  <2>2. page[1].ops = ops
    BY <2>1, OnlyPart
  <2> QED BY <2>2 DEF page, ops
<1> QED BY <1>18, <1>19 DEF c, d

-----------------------------------------------------------------------------
LEMMA UsdBlockRule ==
  ASSUME NEW k \in Frames, NEW a \in Resting, NEW g \in Group
  PROVE  Rule(k, In(k, a), UsdBlock(g), In(k, a))
<1>1. g.own \in Nat /\ g.kids \in Seq(Nat)
  BY DEF Group
<1>2. CASE g.kids = <<>>
  <2>1. Rule(k, In(k, a), UsdHeaded(g.own), In(k, a))
    BY <1>1, HeadedRule DEF UsdHeaded
  <2> QED BY <1>2, <2>1 DEF UsdBlock
<1>3. CASE g.kids # <<>>
  <2> DEFINE n == Len(g.kids)
             ss == [i \in 1..n |-> UsdHeaded(g.kids[i])]
             P == In(k, a)
  <2>1. ss = [i \in 1..n |-> ss[i]] /\ n \in Nat
    BY <1>1
  <2>2. ASSUME NEW i \in 1..n PROVE Rule(k, P, ss[i], P)
    <3>1. g.kids[i] \in Nat
      BY <1>1
    <3>2. Rule(k, In(k, a), UsdHeaded(g.kids[i]), In(k, a))
      BY <3>1, HeadedRule DEF UsdHeaded
    <3> QED BY <3>2
  <2>3. Rule(k, P, <<Text(2000, 1000)>>, P)
    BY TextRule
  <2>4. Each(g.kids, UsdHeaded) = FlattenSeq(ss)
    BY DEF Each, Join
  <2> HIDE DEF ss, n, P
  <2>5. Rule(k, P, FlattenSeq(ss), P)
    BY <2>1, <2>2, RuleEach
  <2>6. Rule(k, P, <<Text(2000, 1000)>> \o FlattenSeq(ss), P)
    BY <2>3, <2>5, RuleJoin
  <2> QED BY <1>3, <2>4, <2>6 DEF UsdBlock, P
<1> QED BY <1>2, <1>3

LEMMA UsdChargesRule ==
  ASSUME NEW k \in Frames, NEW a \in Resting, NEW b \in Bill
  PROVE  Rule(k, In(k, a), UsdCharges(b), In(k, a))
<1> DEFINE n == Len(b.groups)
           ss == [i \in 1..n |-> UsdBlock(b.groups[i])]
           P == In(k, a)
           last == When(b.subs > 0, UsdHeaded(b.subs))
<1>0. b.groups \in Seq(Group) /\ b.subs \in Nat
  BY BillFacts
<1>1. ss = [i \in 1..n |-> ss[i]] /\ n \in Nat
  BY <1>0
<1>2. ASSUME NEW i \in 1..n PROVE Rule(k, P, ss[i], P)
  <2>1. b.groups[i] \in Group
    BY <1>0
  <2> QED BY <2>1, UsdBlockRule
<1>3. Rule(k, P, <<Text(2000, 1000)>>, P)
  BY TextRule
<1>4. Rule(k, P, last, P)
  <2>1. Rule(k, P, UsdHeaded(b.subs), P)
    BY <1>0, HeadedRule DEF UsdHeaded
  <2> QED BY <2>1, RuleEmpty DEF When
<1>5. Each(b.groups, UsdBlock) = FlattenSeq(ss)
  BY DEF Each, Join
<1> HIDE DEF ss, n, P, last
<1>6. Rule(k, P, FlattenSeq(ss), P)
  BY <1>1, <1>2, RuleEach
<1>7. Rule(k, P, <<Text(2000, 1000)>> \o FlattenSeq(ss), P)
  BY <1>3, <1>6, RuleJoin
<1>8. Rule(k, P, <<Text(2000, 1000)>> \o FlattenSeq(ss) \o last, P)
  BY <1>4, <1>7, RuleJoin
<1> QED BY <1>5, <1>8 DEF UsdCharges, P, last

LEMMA UsdRule ==
  ASSUME NEW k \in Frames, NEW a \in Resting, NEW b \in Bill, ~a.two
  PROVE  Rule(k, In(k, a), UsdPage(b)[1].ops, In(k, Counted(a, Shown(b.sections))))
<1> DEFINE d == Counted(a, Shown(b.sections))
           A1 == UsdCharges(b)
           A2 == UsdUsage(b)
           A3 == UsdDiscounts(b)
           A4 == UsdAdjustments(b)
           A5 == UsdTotal
           A6 == UsdAltCurrency(b)
           A7 == UsdMessages(b)
<1>1. d \in Resting /\ ~d.two
  <2>1. Shown(b.sections) \in Nat
    BY BillFacts, ShownNat
  <2> QED BY <2>1, CountedFacts
<1>2. Rule(k, In(k, a), A1, In(k, a))
  BY UsdChargesRule
<1>3. Rule(k, In(k, a), A2, In(k, d))
  BY UsdUsageRule
<1> HIDE DEF d
<1>4. Rule(k, In(k, d), A3, In(k, d))
  BY <1>1, BillFacts, HeadedListRule DEF UsdDiscounts
<1>5. Rule(k, In(k, d), A4, In(k, d))
  BY <1>1, BillFacts, HeadedListRule DEF UsdAdjustments
<1>6. Rule(k, In(k, d), A5, In(k, d))
  <2>1. Rule(k, In(k, d), <<Lowered(2000, 1250, 2000)>>, In(k, Roomy(d, -1250)))
    BY <1>1, FramesAre, LoweredRule
  <2>2. In(k, Roomy(d, -1250)) \subseteq In(k, d)
    BY <1>1, RoomyIsRest, FramesAre
  <2> QED BY <2>1, <2>2, RuleWeaken DEF UsdTotal
<1>7. Rule(k, In(k, d), A6, In(k, d))
  <2>1. Rule(k, In(k, d), <<Heading(2000, 1000)>>, In(k, Pending(d, 1000)))
    BY <1>1, HeadingTo
  <2>2. Rule(k, In(k, Pending(d, 1000)), <<Text(1000, 1000)>>, In(k, d))
    BY <1>1, TextRule
  <2>3. Rule(k, In(k, d), <<Heading(2000, 1000), Text(1000, 1000)>>, In(k, d))
    BY <2>1, <2>2, RulePair
  <2> QED BY <2>3, RuleEmpty DEF UsdAltCurrency, When
<1>8. Rule(k, In(k, d), A7, In(k, d))
  BY <1>1, BillFacts, TextsRule DEF UsdMessages
<1> HIDE DEF A1, A2, A3, A4, A5, A6, A7
<1>9. Rule(k, In(k, a), A1 \o A2, In(k, d))
  BY <1>2, <1>3, RuleJoin
<1>10. Rule(k, In(k, a), A1 \o A2 \o A3, In(k, d))
  BY <1>4, <1>9, RuleJoin
<1>11. Rule(k, In(k, a), A1 \o A2 \o A3 \o A4, In(k, d))
  BY <1>5, <1>10, RuleJoin
<1>12. Rule(k, In(k, a), A1 \o A2 \o A3 \o A4 \o A5, In(k, d))
  BY <1>6, <1>11, RuleJoin
<1>13. Rule(k, In(k, a), A1 \o A2 \o A3 \o A4 \o A5 \o A6, In(k, d))
  BY <1>7, <1>12, RuleJoin
<1>14. Rule(k, In(k, a), A1 \o A2 \o A3 \o A4 \o A5 \o A6 \o A7, In(k, d))
  BY <1>8, <1>13, RuleJoin
<1>15. UsdPage(b)[1].ops = A1 \o A2 \o A3 \o A4 \o A5 \o A6 \o A7
  <2> DEFINE page == UsdPage(b)
             ops == A1 \o A2 \o A3 \o A4 \o A5 \o A6 \o A7
  <2>1. page = <<Part(17500, 8000, 78000, ops)>>
    BY DEF UsdPage, A1, A2, A3, A4, A5, A6, A7
  <2> HIDE DEF page, ops
  <2>2. page[1].ops = ops
    BY <2>1, OnlyPart
  <2> QED BY <2>2 DEF page, ops
<1> QED BY <1>14, <1>15 DEF d

-----------------------------------------------------------------------------
(***************************************************************************)
(* The grouping layouts, subscription_ref_grouping and                     *)
(* product_label_grouping.                                                 *)
(***************************************************************************)

\* A sequence of commands none of which changes what is known.
LEMMA RuleSame ==
  ASSUME NEW k, NEW P, NEW n \in Nat, NEW ops, ops = [i \in 1..n |-> ops[i]],
         \A i \in 1..n : Rule(k, P, <<ops[i]>>, P)
  PROVE  Rule(k, P, ops, P)
<1>1. Len(ops) = n
  OBVIOUS
<1>2. \A i \in 1..n : ops[i] \in Command /\ \A s \in P : Good(k, s, ops[i]) /\ Step(k, s, ops[i]) \in P
  BY RuleOfOne
<1>3. ops \in Seq(Command)
  <2>1. \A i \in 1..n : ops[i] \in Command
    BY <1>2
  <2> QED BY <2>1
<1> DEFINE f == [i \in 0..n |-> P]
<1>4. f[0] = P /\ f[n] = P /\ \A i \in 1..n : f[i - 1] = P /\ f[i] = P
  OBVIOUS
<1> HIDE DEF f
<1>5. Outline(k, P, ops, P, f)
  BY <1>1, <1>2, <1>4 DEF Outline
<1> QED BY <1>3, <1>5 DEF Rule

LEMMA TimesSame ==
  ASSUME NEW k, NEW P, NEW n \in Nat, NEW op, Rule(k, P, <<op>>, P)
  PROVE  Rule(k, P, Times(n, op), P)
<1> DEFINE ops == [i \in 1..n |-> op]
<1>1. ops = [i \in 1..n |-> ops[i]] /\ \A i \in 1..n : ops[i] = op
  OBVIOUS
<1> HIDE DEF ops
<1>2. Rule(k, P, ops, P)
  BY <1>1, RuleSame
<1> QED BY <1>2 DEF Times, ops

\* Where no floor is promised, a line may be drawn anywhere.
LEMMA PlainAnywhere ==
  ASSUME NEW k \in Frames, NEW a \in Resting, NEW step \in Nat \ {0}, ~k.strict
  PROVE  Rule(k, In(k, a), <<Plain(step)>>, In(k, a))
<1>1. a \in Facts /\ ~a.known
  BY RestingFacts
<1>2. Is(Plain(step), "plain", 0, 0, step, "line")
  BY PlainIs
<1>3. PlainFits(k, a, Plain(step), a)
  BY <1>1, <1>2 DEF PlainFits, Is, Facts
<1> QED BY <1>1, <1>2, <1>3, FramesAre, RulePlain DEF Is

LEMMA FixedRule ==
  ASSUME NEW k \in Frames, NEW a \in Resting, NEW drop \in Int
  PROVE  Rule(k, In(k, a), <<Fixed(drop)>>, In(k, a))
<1>1. a \in Facts /\ a.free
  BY RestingFacts
<1>2. Is(Fixed(drop), "fixed", 0, drop, 0, "line")
  BY FixedIs
<1> DEFINE op == Fixed(drop)
<1>3. op \in Command /\ op.act = "fixed" /\ op.step = 0 /\ ~op.row
  BY <1>2 DEF Is
<1> HIDE DEF op
<1>4. \A s \in In(k, a) : Good(k, s, op) /\ Step(k, s, op) \in In(k, a)
  BY <1>1, <1>3, FramesAre, RuleFixed
<1>5. Rule(k, In(k, a), <<op>>, In(k, a))
  BY <1>3, <1>4, RuleOne
<1> QED BY <1>5 DEF op

LEMMA FreshPageRule ==
  ASSUME NEW k \in Frames, NEW a \in Resting, NEW b \in Facts, NEW height \in Int,
         b.two = a.two, b.rows = a.rows, b.known => b.room <= height - k.low2
  PROVE  Rule(k, In(k, a), <<FreshPage(height)>>, In(k, b))
<1>1. a \in Facts /\ a.free
  BY RestingFacts
<1>2. Is(FreshPage(height), "page", 0, height, 0, "line")
  BY FreshPageIs
<1>3. PageFits(k, a, FreshPage(height), b)
  BY <1>1, <1>2 DEF PageFits, Is
<1> QED BY <1>1, <1>2, <1>3, FramesAre, RulePage DEF Is

\* A heading whose room has been asked for: not asked for when the flow is
\* still where a page starts.
LEMMA StartedRoomRule ==
  ASSUME NEW k \in Frames, NEW a \in Resting, NEW need \in Int
  PROVE  Rule(k, In(k, a), <<StartedRoom(need)>>, In(k, a))
<1>1. a \in Facts /\ a.free /\ ~a.known
  BY RestingFacts
<1>2. Is(StartedRoom(need), "room", need, 0, 0, "head")
  BY StartedRoomIs
<1>3. RoomFits(k, a, StartedRoom(need), a)
  BY <1>1, <1>2 DEF RoomFits, RoomAfter, Is
<1> QED BY <1>1, <1>2, <1>3, FramesAre, RuleRoom DEF Is

\* Lines down a page, where the room for all of them is known.
LEMMA PlainsRule ==
  ASSUME NEW k \in Frames, NEW a \in Resting, NEW m \in Nat, NEW step \in Nat \ {0},
         NEW f, \A i \in 0..m : f[i] \in Int,
         \A i \in 1..m : f[i] = f[i - 1] - step /\ f[i - 1] + k.front >= 0
  PROVE  Rule(k, In(k, Roomy(a, f[0])), Times(m, Plain(step)), In(k, Roomy(a, f[m])))
<1> DEFINE I == [i \in 0..m |-> In(k, Roomy(a, f[i]))]
           op == Plain(step)
<1>1. ASSUME NEW i \in 1..m PROVE Rule(k, I[i - 1], <<op>>, I[i])
  <2>1. i - 1 \in 0..m /\ i \in 0..m
    OBVIOUS
  <2>2. f[i - 1] \in Int /\ f[i] \in Int /\ f[i] = f[i - 1] - step /\ f[i - 1] + k.front >= 0
    BY <2>1
  <2>3. I[i - 1] = In(k, Roomy(a, f[i - 1])) /\ I[i] = In(k, Roomy(a, f[i]))
    BY <2>1
  <2> HIDE DEF I
  <2> QED BY <2>2, <2>3, PlainTo
<1>2. op \in Command
  BY PlainIs DEF Is
<1>3. I[0] = In(k, Roomy(a, f[0])) /\ I[m] = In(k, Roomy(a, f[m]))
  OBVIOUS
<1> HIDE DEF I, op
<1>4. Rule(k, I[0], Times(m, op), I[m])
  BY <1>1, <1>2, RuleAgain
<1> QED BY <1>3, <1>4 DEF op

-----------------------------------------------------------------------------
(* The payments of the grouping layouts, kept in one piece.                *)

LEMMA ThousandsRule ==
  ASSUME NEW k \in Frames, NEW a \in Resting, NEW m \in Nat, NEW x \in Int, 1000 * m <= x + 1000
  PROVE  Rule(k, In(k, Roomy(a, x)), Times(m, Plain(1000)), In(k, a))
<1> DEFINE f == [i \in 0..m |-> x - 1000 * i]
           step == 1000
<1>1. (\A i \in 0..m : f[i] \in Int) /\ f[0] = x /\ f[m] \in Int
  OBVIOUS
<1>2. \A i \in 1..m : f[i] = f[i - 1] - step /\ f[i - 1] + k.front >= 0
  BY FramesAre
<1>3. step \in Nat \ {0}
  OBVIOUS
<1> HIDE DEF f, step
<1>4. Rule(k, In(k, Roomy(a, f[0])), Times(m, Plain(step)), In(k, Roomy(a, f[m])))
  BY <1>1, <1>2, <1>3, PlainsRule
<1>5. Rule(k, In(k, Roomy(a, x)), Times(m, Plain(step)), In(k, a))
  BY <1>1, <1>4, RoomyIsRest, FramesAre, RuleWeaken
<1> QED BY <1>5 DEF step

\* A page on which 700 points may be asked for.
Tall(k) == k.top - k.low2 = 70000

LEMMA PaymentBlockRule ==
  ASSUME NEW k \in Frames, NEW a \in Resting, NEW m \in Nat, NEW need \in Int, NEW gap \in Nat,
         ~a.two, Tall(k), need = 1000 * m, gap <= 500, k.strict => m <= PagePayments + 2
  PROVE  Rule(k, In(k, a), <<Room(need), Gap(gap)>> \o Times(m, Plain(1000)), In(k, a))
<1> DEFINE op == Plain(1000)
<1>1. need \in Nat
  OBVIOUS
<1>2. CASE ~k.strict
  <2>1. Rule(k, In(k, a), <<Room(need), Gap(gap)>>, In(k, a))
    BY <1>1, BlankRule
  <2>2. Rule(k, In(k, a), Times(m, op), In(k, a))
    <3>1. Rule(k, In(k, a), <<op>>, In(k, a))
      BY <1>2, PlainAnywhere
    <3> HIDE DEF op
    <3> QED BY <3>1, TimesSame
  <2> QED BY <2>1, <2>2, RuleJoin
<1>3. CASE k.strict
  <2>1. need <= 70000
    BY <1>3 DEF PagePayments
  <2> DEFINE left == need - gap
  <2>2. Rule(k, In(k, a), <<Room(need)>>, In(k, Roomy(a, need)))
    BY <1>1, <2>1, FramesAre, RoomRule DEF Tall
  <2>3. left \in Int /\ 1000 * m <= left + 1000
    BY <1>1
  <2>4. Rule(k, In(k, Roomy(a, need)), <<Gap(gap)>>, In(k, Roomy(a, left)))
    BY <1>1, GapTo
  <2>5. Rule(k, In(k, a), <<Room(need), Gap(gap)>>, In(k, Roomy(a, left)))
    BY <2>2, <2>4, RulePair
  <2> HIDE DEF left
  <2>7. Rule(k, In(k, Roomy(a, left)), Times(m, op), In(k, a))
    BY <2>3, ThousandsRule
  <2>8. Rule(k, In(k, a), <<Room(need), Gap(gap)>> \o Times(m, op), In(k, a))
    BY <2>5, <2>7, RuleJoin
  <2> QED BY <2>8 DEF op
<1> QED BY <1>2, <1>3

\* One set of the same blocks for each member of a sequence of numbers.
LEMMA EachTexts ==
  ASSUME NEW k \in Frames, NEW a \in Resting, NEW ns \in Seq(Nat)
  PROVE  Rule(k, In(k, a), FlattenSeq([i \in 1..Len(ns) |-> Times(ns[i] + 1, Text(0, 1100))]), In(k, a))
<1> DEFINE block(i) == Times(ns[i] + 1, Text(0, 1100))
           ss == [i \in 1..Len(ns) |-> block(i)]
           n == Len(ns)
           P == In(k, a)
<1>1. ss = [i \in 1..n |-> ss[i]] /\ n \in Nat /\ \A i \in 1..n : ss[i] = block(i)
  <2> HIDE DEF block
  <2> QED OBVIOUS
<1>2. ASSUME NEW i \in 1..n PROVE Rule(k, P, block(i), P)
  <2>1. ns[i] + 1 \in Nat
    OBVIOUS
  <2> QED BY <2>1, TextsRule
<1>3. \A i \in 1..n : Rule(k, P, ss[i], P)
  BY <1>1, <1>2
<1> HIDE DEF ss, n, P
<1>4. Rule(k, P, FlattenSeq(ss), P)
  BY <1>1, <1>3, RuleEach
<1> QED BY <1>4 DEF ss, P

LEMMA SubscriptionRefGroupRule ==
  ASSUME NEW k \in Frames, NEW a \in Resting, NEW b \in Bill, NEW g \in Group
  PROVE  Rule(k, In(k, a), SubscriptionRefGroup(b, g), In(k, a))
<1> DEFINE products == <<g.own>> \o g.kids
           height(i) == (products[i] + 1) * 1100
           heights == [i \in 1..Len(products) |-> height(i)]
           need == 1500 + b.subs * 1100 + Added(heights)
           A1 == <<StartedRoom(need), Text(0, 1500)>>
           A2 == FlattenSeq([i \in 1..Len(products) |-> Times(products[i] + 1, Text(0, 1100))])
           A3 == Times(b.subs, Text(0, 1100))
<1>1. products \in Seq(Nat)
  <2>1. g.own \in Nat /\ g.kids \in Seq(Nat)
    BY DEF Group
  <2>2. <<g.own>> \in Seq(Nat)
    BY <2>1
  <2> QED BY <2>1, <2>2
<1>2. SubscriptionRefGroup(b, g) = A1 \o A2 \o A3
  BY DEF SubscriptionRefGroup, Each, Join
<1>3. need \in Int
  <2> HIDE DEF products
  <2>1. \A i \in 1..Len(products) : height(i) \in Nat
    BY <1>1
  <2> HIDE DEF height
  <2>2. heights \in Seq(Nat)
    BY <1>1, <2>1
  <2> HIDE DEF heights
  <2>3. Added(heights) \in Nat
    BY <2>2, AddedNat
  <2>4. b.subs \in Nat
    BY BillFacts
  <2> QED BY <2>3, <2>4
<1> HIDE DEF need
<1>4. Rule(k, In(k, a), A1, In(k, a))
  <2>1. Rule(k, In(k, a), <<StartedRoom(need)>>, In(k, a))
    BY <1>3, StartedRoomRule
  <2>2. Rule(k, In(k, a), <<Text(0, 1500)>>, In(k, a))
    BY TextRule
  <2> QED BY <2>1, <2>2, RulePair
<1>5. Rule(k, In(k, a), A2, In(k, a))
  <2> HIDE DEF products
  <2> QED BY <1>1, EachTexts
<1>6. Rule(k, In(k, a), A3, In(k, a))
  BY BillFacts, TextsRule
<1> HIDE DEF A1, A2, A3
<1>7. Rule(k, In(k, a), A1 \o A2, In(k, a))
  BY <1>4, <1>5, RuleJoin
<1>8. Rule(k, In(k, a), A1 \o A2 \o A3, In(k, a))
  BY <1>6, <1>7, RuleJoin
<1> QED BY <1>2, <1>8

LEMMA SubscriptionRefChargesRule ==
  ASSUME NEW k \in Frames, NEW a \in Resting, NEW b \in Bill
  PROVE  Rule(k, In(k, a), SubscriptionRefCharges(b).ops, In(k, a))
<1> DEFINE gs == b.groups
           block(i) == SubscriptionRefGroup(b, gs[i])
           ss == [i \in 1..Len(gs) |-> block(i)]
           n == Len(gs)
           P == In(k, a)
<1>0. gs \in Seq(Group)
  BY BillFacts
<1>1. SubscriptionRefCharges(b).ops = FlattenSeq(ss)
  BY DEF SubscriptionRefCharges, Part, Each, Join
<1>2. \A g \in Group : Rule(k, P, SubscriptionRefGroup(b, g), P)
  BY SubscriptionRefGroupRule
<1> HIDE DEF gs
<1>3. ss = [i \in 1..n |-> ss[i]] /\ n \in Nat /\ \A i \in 1..n : ss[i] = block(i)
  <2> HIDE DEF block
  <2> QED BY <1>0
<1>4. \A i \in 1..n : gs[i] \in Group
  BY <1>0
<1>5. \A i \in 1..n : Rule(k, P, ss[i], P)
  BY <1>2, <1>3, <1>4
<1> HIDE DEF ss, n, P
<1>6. Rule(k, P, FlattenSeq(ss), P)
  BY <1>3, <1>5, RuleEach
<1> QED BY <1>1, <1>6 DEF P

LEMMA SubscriptionRefListsRule ==
  ASSUME NEW k \in Frames, NEW a \in Resting, NEW b \in Bill
  PROVE  Rule(k, In(k, a), SubscriptionRefAdjustments(b) \o SubscriptionRefDiscounts(b), In(k, a))
<1>1. \A n \in Nat : Rule(k, In(k, a), When(n > 0, Times(n + 1, Text(0, 1100))), In(k, a))
  <2>1. \A n \in Nat : Rule(k, In(k, a), Times(n + 1, Text(0, 1100)), In(k, a))
    <3> TAKE n \in Nat
    <3>1. n + 1 \in Nat
      OBVIOUS
    <3> QED BY <3>1, TextsRule
  <2> QED BY <2>1, RuleEmpty DEF When
<1>2. Rule(k, In(k, a), SubscriptionRefAdjustments(b), In(k, a))
  BY <1>1, BillFacts DEF SubscriptionRefAdjustments
<1>3. Rule(k, In(k, a), SubscriptionRefDiscounts(b), In(k, a))
  BY <1>1, BillFacts DEF SubscriptionRefDiscounts
<1> QED BY <1>2, <1>3, RuleJoin

LEMMA SubscriptionRefTotalRule ==
  ASSUME NEW k \in Frames, NEW a \in Resting, NEW b \in Bill, ~a.two
  PROVE  Rule(k, In(k, a), SubscriptionRefTotal(b).ops, In(k, a))
<1> DEFINE A1 == When(b.tax > 0, <<Heading(1100, 1100)>> \o Times(b.tax, Text(0, 1100)))
           A2 == <<Lowered(1100, 1000, 1100)>>
<1>1. Rule(k, In(k, a), A1, In(k, a))
  <2>1. CASE b.tax > 0
    <3>1. Rule(k, In(k, a), <<Heading(1100, 1100)>>, In(k, Pending(a, 0)))
      BY HeadingTo
    <3>2. Rule(k, In(k, Pending(a, 0)), Times(b.tax, Text(0, 1100)), In(k, a))
      BY <2>1, BillFacts, TextsPending
    <3> QED BY <2>1, <3>1, <3>2, RuleJoin DEF When
  <2>2. CASE ~(b.tax > 0)
    BY <2>2, RuleEmpty DEF When
  <2> QED BY <2>1, <2>2
<1>2. Rule(k, In(k, a), A2, In(k, Roomy(a, -1000)))
  BY LoweredRule, FramesAre
<1>3. Rule(k, In(k, a), A2, In(k, a))
  <2>1. -1000 \in Int
    OBVIOUS
  <2> QED BY <1>2, <2>1, RoomyIsRest, FramesAre, RuleWeaken
<1>4. SubscriptionRefTotal(b).ops = A1 \o A2
  BY DEF SubscriptionRefTotal, Part
<1> HIDE DEF A1, A2
<1> QED BY <1>1, <1>3, <1>4, RuleJoin

LEMMA SubscriptionRefPaymentsRule ==
  ASSUME NEW k \in Frames, NEW a \in Resting, NEW b \in Bill,
         ~a.two, Tall(k), k.strict => b.pay <= PagePayments
  PROVE  Rule(k, In(k, a), SubscriptionRefPayments(b).ops, In(k, a))
<1> DEFINE m == b.pay + 2
           need == 1000 * m
           gap == 300
           block == <<Room(need), Gap(gap)>> \o Times(m, Plain(1000))
<1>1. /\ m \in Nat /\ need \in Int /\ need = 1000 * m /\ gap \in Nat /\ gap <= 500
      /\ k.strict => m <= PagePayments + 2
  BY BillFacts DEF PagePayments
<1>2. SubscriptionRefPayments(b).ops = When(b.pay > 0, block)
  BY DEF SubscriptionRefPayments, Part
<1> HIDE DEF m, need, gap
<1>3. Rule(k, In(k, a), block, In(k, a))
  BY <1>1, PaymentBlockRule
<1> HIDE DEF block
<1> QED BY <1>2, <1>3, RuleEmpty DEF When

\* Lines at fixed heights, or wherever the flow is.
LEMMA FixedLinesRule ==
  ASSUME NEW k \in Frames, NEW a \in Resting, NEW n \in Nat, NEW ops,
         ops = [i \in 1..n |-> ops[i]],
         \A i \in 1..n : \E drop \in Int : ops[i] = Fixed(drop)
  PROVE  Rule(k, In(k, a), ops, In(k, a))
<1>1. ASSUME NEW i \in 1..n PROVE Rule(k, In(k, a), <<ops[i]>>, In(k, a))
  <2>1. PICK drop \in Int : ops[i] = Fixed(drop)
    OBVIOUS
  <2> QED BY <2>1, FixedRule
<1> QED BY <1>1, RuleSame

LEMMA SubscriptionRefNotesRule ==
  ASSUME NEW k \in Frames, NEW a \in Resting, NEW b \in Bill, ~k.strict
  PROVE  Rule(k, In(k, a), SubscriptionRefCancelled(b) \o SubscriptionRefMessages(b), In(k, a))
<1>1. Rule(k, In(k, a), <<Plain(1000)>>, In(k, a))
  BY PlainAnywhere
<1>2. \A n \in Nat : Rule(k, In(k, a), Times(n, Plain(1000)), In(k, a))
  BY <1>1, TimesSame
<1>3. ASSUME NEW n \in Nat, NEW above \in Int
      PROVE  Rule(k, In(k, a), [i \in 1..n |-> Fixed(21000 - 1000 * (above + i))], In(k, a))
  <2> DEFINE op(i) == Fixed(21000 - 1000 * (above + i))
             ops == [i \in 1..n |-> op(i)]
  <2>1. \A i \in 1..n : \E drop \in Int : op(i) = Fixed(drop)
    OBVIOUS
  <2>2. ops = [i \in 1..n |-> ops[i]] /\ \A i \in 1..n : ops[i] = op(i)
    <3> HIDE DEF op
    <3> QED OBVIOUS
  <2> HIDE DEF ops, op
  <2>3. Rule(k, In(k, a), ops, In(k, a))
    BY <2>1, <2>2, FixedLinesRule
  <2> QED BY <2>3 DEF ops, op
<1>4. Rule(k, In(k, a), SubscriptionRefCancelled(b), In(k, a))
  <2>1. b.cancel \in Nat /\ b.cancel + 1 \in Nat
    BY BillFacts
  <2> DEFINE n == b.cancel + 1
             low == 0
             block == [i \in 1..n |-> Fixed(21000 - 1000 * (low + i))]
  <2>2. n \in Nat /\ low \in Int
    BY <2>1
  <2>3. SubscriptionRefCancelled(b) = When(b.cancel > 0, IF b.pay > 0 THEN Times(n, Plain(1000)) ELSE block)
    <3>1. \A i \in 1..n : low + i = i
      BY <2>2
    <3> QED BY <3>1 DEF SubscriptionRefCancelled
  <2> HIDE DEF n, low
  <2>4. Rule(k, In(k, a), block, In(k, a))
    BY <1>3, <2>2
  <2> HIDE DEF block
  <2> QED BY <1>2, <2>2, <2>3, <2>4, RuleEmpty DEF When
<1>5. Rule(k, In(k, a), SubscriptionRefMessages(b), In(k, a))
  <2> DEFINE lines == (IF b.msgs > 0 THEN b.msgs + 1 ELSE 0) + (IF b.susp THEN 1 ELSE 0)
             above == IF b.cancel > 0 THEN b.cancel + 1 ELSE 0
  <2>1. lines \in Nat /\ above \in Int
    BY BillFacts
  <2>2. SubscriptionRefMessages(b) =
          IF b.pay > 0 THEN Times(lines, Plain(1000))
          ELSE [i \in 1..lines |-> Fixed(21000 - 1000 * (above + i))]
    BY DEF SubscriptionRefMessages
  <2> HIDE DEF lines, above
  <2> QED BY <1>2, <1>3, <2>1, <2>2
<1> QED BY <1>4, <1>5, RuleJoin

\* Blocks that can start where less is known than they leave behind.
LEMMA CountLast ==
  ASSUME NEW k, NEW a \in Resting, NEW ss, NEW ns \in Seq(Nat), ns # <<>>,
         ss = [i \in 1..Len(ns) |-> ss[i]], NEW P, NEW Q,
         \A c \in Resting : Q[c] \subseteq P[c],
         \A i \in 1..Len(ns) : \A c \in Resting :
            c.two = a.two /\ c.later = a.later => Rule(k, P[c], ss[i], Q[Counted(c, ns[i])])
  PROVE  Rule(k, P[a], FlattenSeq(ss), Q[Counted(a, Added(ns))])
<1> DEFINE n == Len(ns)
<1>0. n \in Nat \ {0} /\ Len(ss) = n
  OBVIOUS
<1>1. PICK g \in [0..n -> Nat] : Sums(ns, g) /\ Added(ns) = g[n]
  BY AddedIs
<1>2. g[0] = 0 /\ \A i \in 1..n : g[i] = g[i - 1] + ns[i]
  BY <1>1 DEF Sums
<1> DEFINE I == [i \in 0..n |-> IF i = 0 THEN P[a] ELSE Q[Counted(a, g[i])]]
<1>3. ASSUME NEW i \in 1..n PROVE Rule(k, I[i - 1], ss[i], I[i])
  <2>1. i - 1 \in 0..n /\ i \in 0..n /\ g[i - 1] \in Nat /\ ns[i] \in Nat /\ g[i] = g[i - 1] + ns[i]
    BY <1>2
  <2> DEFINE c == Counted(a, g[i - 1])
  <2>2. c \in Resting /\ c.two = a.two /\ c.later = a.later
    BY <2>1, CountedFacts
  <2>3. Counted(c, ns[i]) = Counted(a, g[i])
    BY <2>1, CountedTwice, RestingFacts
  <2>4. I[i] = Q[Counted(a, g[i])]
    BY <2>1
  <2>5. I[i - 1] \subseteq P[c]
    <3>1. CASE i = 1
      <4>1. c = a
        <5>1. a \in Facts /\ 0 \in Int /\ 0 \in Nat
          BY RestingFacts
        <5> QED BY <1>2, <3>1, <5>1, FactsOf
      <4> QED BY <3>1, <4>1
    <3>2. CASE i # 1
      <4>1. I[i - 1] = Q[c]
        BY <2>1, <3>2
      <4> HIDE DEF I, c
      <4> QED BY <2>2, <4>1
    <3> QED BY <3>1, <3>2
  <2> HIDE DEF I, c
  <2>6. Rule(k, P[c], ss[i], Q[Counted(c, ns[i])])
    BY <2>2
  <2>7. Rule(k, P[c], ss[i], I[i])
    BY <2>3, <2>4, <2>6
  <2> QED BY <2>5, <2>7, RuleWeaken
<1>4. I[0] = P[a] /\ I[n] = Q[Counted(a, Added(ns))]
  BY <1>0, <1>1
<1> HIDE DEF I
<1>5. Rule(k, I[0], FlattenSeq(ss), I[Len(ss)])
  BY <1>0, <1>3, RuleBlocks
<1> QED BY <1>0, <1>4, <1>5

-----------------------------------------------------------------------------
(* The usage tables of the grouping layouts, after the first page.         *)

\* A row that asks for nothing leaves what is known to be left.
LEMMA RowRoomy ==
  ASSUME NEW k \in Frames, NEW a \in Resting, ~a.two, NEW step \in Nat \ {0},
         NEW x \in Int, x <= 0 - step
  PROVE  Rule(k, In(k, Roomy(a, x)), <<TableRow(0, step)>>, In(k, Roomy(Counted(a, 1), x)))
<1> DEFINE c == Roomy(a, x)
           d == Counted(a, 1)
           b == Roomy(d, x)
           op == TableRow(0, step)
<1>1. d \in Resting /\ d.rows = a.rows + 1 /\ d.two = a.two /\ d.later = a.later
  BY CountedFacts
<1>2. /\ c \in Facts /\ c.free /\ c.known /\ ~c.off /\ c.room = x /\ c.rows = a.rows
      /\ c.two = a.two /\ c.later = a.later
  BY RoomyFacts
<1> HIDE DEF d
<1>3. /\ b \in Facts /\ b.free /\ b.known /\ ~b.off /\ b.room = x /\ b.rows = d.rows
      /\ b.two = d.two /\ b.later = d.later
  BY <1>1, RoomyFacts
<1>4. Is(op, "text", 0, 0, step, "row")
  <2>1. 0 \in Int /\ step \in Int
    OBVIOUS
  <2> QED BY <2>1, TableRowIs
<1> HIDE DEF b, c, op
<1>5. TextFits(k, c, op, b)
  BY <1>1, <1>2, <1>3, <1>4, FramesAre DEF TextFits, RoomAfter, Is
<1>6. Rule(k, In(k, c), <<op>>, In(k, b))
  BY <1>2, <1>3, <1>4, <1>5, FramesAre, RuleText DEF Is
<1> QED BY <1>6 DEF b, c, d, op

LEMMA RowsRoomy ==
  ASSUME NEW k \in Frames, NEW a \in Resting, ~a.two, NEW n \in Nat, NEW step \in Nat \ {0},
         NEW x \in Int, x <= 0 - step
  PROVE  Rule(k, In(k, Roomy(a, x)), Times(n, TableRow(0, step)), In(k, Roomy(Counted(a, n), x)))
<1> DEFINE op == TableRow(0, step)
           I == [i \in 0..n |-> In(k, Roomy(Counted(a, i), x))]
<1>0. op \in Command
  <2>1. 0 \in Int /\ step \in Int
    OBVIOUS
  <2> QED BY <2>1, TableRowIs DEF Is
<1>1. a \in Facts /\ 0 \in Int /\ 0 \in Nat
  BY RestingFacts
<1>2. Counted(a, 0) = a
  BY <1>1, FactsOf
<1>3. ASSUME NEW i \in 1..n PROVE Rule(k, I[i - 1], <<op>>, I[i])
  <2>1. i - 1 \in Nat /\ i - 1 \in 0..n /\ i \in 0..n /\ i - 1 + 1 = i
    OBVIOUS
  <2> DEFINE c == Counted(a, i - 1)
  <2>2. c \in Resting /\ c.two = a.two
    BY <2>1, CountedFacts
  <2>3. Counted(c, 1) = Counted(a, i)
    BY <1>1, <2>1, CountedTwice
  <2>4. I[i - 1] = In(k, Roomy(c, x)) /\ I[i] = In(k, Roomy(Counted(a, i), x))
    BY <2>1
  <2> HIDE DEF I, c, op
  <2>5. Rule(k, In(k, Roomy(c, x)), <<op>>, In(k, Roomy(Counted(c, 1), x)))
    BY <2>2, RowRoomy DEF op
  <2> QED BY <2>3, <2>4, <2>5
<1>4. I[0] = In(k, Roomy(a, x)) /\ I[n] = In(k, Roomy(Counted(a, n), x))
  BY <1>2
<1> HIDE DEF I, op
<1>5. Rule(k, I[0], Times(n, op), I[n])
  BY <1>0, <1>3, RuleAgain
<1> QED BY <1>4, <1>5 DEF op

\* A line that is drawn on some condition.
LEMMA PlainWhen ==
  ASSUME NEW k \in Frames, NEW a \in Resting, NEW cond, NEW step \in Nat \ {0}, NEW x \in Int,
         k.strict => x + k.front >= 0 \/ (a.later /\ x + k.back >= 0),
         NEW y \in Int, y = x - step
  PROVE  Rule(k, In(k, Roomy(a, x)), When(cond, <<Plain(step)>>), In(k, Roomy(a, y)))
<1>1. Rule(k, In(k, Roomy(a, x)), <<Plain(step)>>, In(k, Roomy(a, y)))
  BY PlainTo
<1>2. Rule(k, In(k, Roomy(a, x)), <<>>, In(k, Roomy(a, y)))
  <2>1. y <= x
    OBVIOUS
  <2> QED BY <2>1, FramesAre, RoomyLess, RuleEmpty
<1> QED BY <1>1, <1>2 DEF When

\* Below a heading there may be 44.10 points too few, but for the first page.
Spacious(k, a) == ~a.two /\ (k.strict => a.later /\ k.back >= 4410)

LEMMA GroupingTableRule ==
  ASSUME NEW k \in Frames, NEW a \in Resting, Spacious(k, a),
         NEW s, NEW i \in Nat \ {0}, s[i].rows \in Nat
  PROVE  Rule(k, In(k, a), GroupingTable(s, i), In(k, Roomy(Counted(a, s[i].rows), -4410)))
<1> DEFINE n == s[i].rows
           e == IF i = 1 THEN 1260 ELSE IF s[i].label THEN 1080 ELSE 900
           d == Counted(a, n)
           A1 == <<Text(0, e)>>
           A2 == When(i = 1 /\ s[i].label, <<Plain(1080)>>)
           A3 == When(i = 1 \/ s[i].label, <<Plain(900)>>)
           A4 == Times(n, TableRow(0, 900))
           A5 == <<Plain(1170)>>
           x1 == -1260
           x2 == -2340
           x3 == -3240
           x4 == -4410
<1>1. /\ x1 \in Int /\ x2 \in Int /\ x3 \in Int /\ x4 \in Int
      /\ x2 = x1 - 1080 /\ x3 = x2 - 900 /\ x4 = x3 - 1170 /\ x3 <= 0 - 900
      /\ e \in Nat \ {0} /\ x1 <= 0 - e /\ x1 + e <= 40000
  OBVIOUS
<1>2. ~a.two /\ (k.strict => a.later /\ x1 + k.back >= 0 /\ x2 + k.back >= 0 /\ x3 + k.back >= 0)
  BY FramesAre DEF Spacious
<1>3. d \in Resting /\ d.two = a.two /\ d.later = a.later
  BY CountedFacts
<1>4. GroupingTable(s, i) = A1 \o A2 \o A3 \o A4 \o A5
  BY DEF GroupingTable
<1>5. n \in Nat
  OBVIOUS
<1> HIDE DEF x1, x2, x3, x4, e, d, n
<1>6. Rule(k, In(k, a), A1, In(k, Roomy(a, x1)))
  BY <1>1, <1>2, TextRoomy
<1>7. Rule(k, In(k, Roomy(a, x1)), A2, In(k, Roomy(a, x2)))
  BY <1>1, <1>2, PlainWhen
<1>8. Rule(k, In(k, Roomy(a, x2)), A3, In(k, Roomy(a, x3)))
  BY <1>1, <1>2, PlainWhen
<1>9. Rule(k, In(k, Roomy(a, x3)), A4, In(k, Roomy(d, x3)))
  BY <1>1, <1>2, <1>5, RowsRoomy DEF d
<1>10. Rule(k, In(k, Roomy(d, x3)), A5, In(k, Roomy(d, x4)))
  BY <1>1, <1>2, <1>3, PlainTo
<1> HIDE DEF A1, A2, A3, A4, A5
<1>11. Rule(k, In(k, a), A1 \o A2, In(k, Roomy(a, x2)))
  BY <1>6, <1>7, RuleJoin
<1>12. Rule(k, In(k, a), A1 \o A2 \o A3, In(k, Roomy(a, x3)))
  BY <1>8, <1>11, RuleJoin
<1>13. Rule(k, In(k, a), A1 \o A2 \o A3 \o A4, In(k, Roomy(d, x3)))
  BY <1>9, <1>12, RuleJoin
<1>14. Rule(k, In(k, a), A1 \o A2 \o A3 \o A4 \o A5, In(k, Roomy(d, x4)))
  BY <1>10, <1>13, RuleJoin
<1> QED BY <1>4, <1>14 DEF x4, d, n

LEMMA GroupingSectionRule ==
  ASSUME NEW k \in Frames, NEW a \in Resting, Spacious(k, a),
         NEW s \in Seq(UsageTable), s # <<>>
  PROVE  Rule(k, In(k, a), GroupingSection(s), In(k, Counted(a, Rows(s))))
<1> DEFINE block(i) == GroupingTable(s, i)
           ss == [i \in 1..Len(s) |-> block(i)]
           ns == RowsOf(s)
           x == -4410
           P == [c \in Resting |-> In(k, c)]
           Q == [c \in Resting |-> In(k, Roomy(c, x))]
           d == Counted(a, Rows(s))
<1>1. ns \in Seq(Nat) /\ Len(ns) = Len(s) /\ Rows(s) = Added(ns) /\ Rows(s) \in Nat
      /\ \A i \in 1..Len(ns) : ns[i] = s[i].rows /\ ns[i] \in Nat
  BY RowsNat
<1> HIDE DEF ns
<1>2. ns # <<>> /\ x \in Int
  BY <1>1
<1>3. ss = [i \in 1..Len(ns) |-> ss[i]] /\ \A i \in 1..Len(ns) : ss[i] = block(i)
  <2> HIDE DEF block
  <2> QED BY <1>1
<1>4. \A c \in Resting : P[c] = In(k, c) /\ Q[c] = In(k, Roomy(c, x))
  OBVIOUS
<1>5. ASSUME NEW c \in Resting PROVE Q[c] \subseteq P[c]
  <2> HIDE DEF P, Q, x
  <2> QED BY <1>2, <1>4, RoomyIsRest, FramesAre
<1>6. ASSUME NEW i \in 1..Len(ns), NEW c \in Resting, c.two = a.two, c.later = a.later
      PROVE  Rule(k, P[c], ss[i], Q[Counted(c, ns[i])])
  <2>1. Counted(c, ns[i]) \in Resting /\ Spacious(k, c) /\ i \in Nat \ {0} /\ s[i].rows \in Nat
    <3>1. ns[i] \in Nat /\ ns[i] = s[i].rows
      BY <1>1
    <3>2. Counted(c, ns[i]) \in Resting
      BY <3>1, CountedFacts
    <3>3. Spacious(k, c)
      BY <1>6 DEF Spacious
    <3> QED BY <3>1, <3>2, <3>3
  <2>2. Rule(k, In(k, c), GroupingTable(s, i), In(k, Roomy(Counted(c, s[i].rows), -4410)))
    BY <2>1, GroupingTableRule
  <2>3. ss[i] = GroupingTable(s, i) /\ ns[i] = s[i].rows
    BY <1>1, <1>3
  <2> HIDE DEF P, Q, ss
  <2> QED BY <1>4, <2>1, <2>2, <2>3
<1> HIDE DEF P, Q, ss, block, x, d
<1>7. Rule(k, P[a], FlattenSeq(ss), Q[Counted(a, Added(ns))])
  BY <1>1, <1>2, <1>3, <1>5, <1>6, CountLast
<1>8. d \in Resting /\ d.two = a.two /\ d.later = a.later
  BY <1>1, CountedFacts DEF d
<1>9. Rule(k, In(k, a), FlattenSeq(ss), In(k, Roomy(d, x)))
  BY <1>1, <1>4, <1>7, <1>8 DEF d
<1>10. Rule(k, In(k, Roomy(d, x)), <<Plain(1800)>>, In(k, d))
  <2> DEFINE y == x - 1800
  <2>1. y \in Int /\ (k.strict => d.later /\ x + k.back >= 0)
    BY <1>2, <1>8, FramesAre DEF Spacious, x
  <2>2. Rule(k, In(k, Roomy(d, x)), <<Plain(1800)>>, In(k, Roomy(d, y)))
    BY <1>2, <1>8, <2>1, PlainTo
  <2> HIDE DEF y
  <2> QED BY <1>8, <2>1, <2>2, RoomyIsRest, FramesAre, RuleWeaken
<1>11. Rule(k, In(k, a), FlattenSeq(ss) \o <<Plain(1800)>>, In(k, d))
  BY <1>9, <1>10, RuleJoin
<1> QED BY <1>11 DEF GroupingSection, Join, ss, block, d

-----------------------------------------------------------------------------
\* The flow has left the first page.
Later(a) == [a EXCEPT !.later = TRUE]

LEMMA LaterFacts ==
  ASSUME NEW a \in Resting, NEW n \in Nat
  PROVE  /\ Later(a) \in Resting /\ Later(a).later /\ Later(a).two = a.two
         /\ Later(a).rows = a.rows /\ Counted(Later(a), n) = Later(Counted(a, n))
<1>1. a \in Facts /\ a.free /\ ~a.known
  BY RestingFacts
<1>2. /\ Later(a) \in Facts /\ Later(a).free = a.free /\ Later(a).known = a.known
      /\ Later(a).later /\ Later(a).two = a.two /\ Later(a).rows = a.rows
  BY <1>1 DEF Later, Facts
<1>3. Counted(Later(a), n) = Later(Counted(a, n))
  <2>1. a.rows + n \in Nat
    BY <1>1 DEF Facts
  <2>2. \A m \in Nat : [Later(a) EXCEPT !.rows = m] = Later([a EXCEPT !.rows = m])
    BY <1>1 DEF Later, Facts
  <2> QED BY <1>2, <2>1, <2>2 DEF Counted
<1> QED BY <1>1, <1>2, <1>3 DEF Resting

LEMMA LaterIsIn ==
  ASSUME NEW k, NEW a \in Resting
  PROVE  In(k, Later(a)) \subseteq In(k, a)
<1> SUFFICES ASSUME NEW s \in In(k, Later(a)) PROVE s \in In(k, a)
  OBVIOUS
<1>1. s \in Spot /\ Holds(k, Later(a), s)
  BY SpotIn
<1>2. /\ Later(a).two = a.two /\ Later(a).rows = a.rows /\ Later(a).free = a.free
      /\ Later(a).known = a.known /\ Later(a).keep = a.keep /\ a.free /\ ~a.known
      /\ a.later \in BOOLEAN /\ Later(a).later
  BY RestingFacts DEF Later, Facts
<1>3. Holds(k, a, s)
  BY <1>1, <1>2 DEF Holds
<1> QED BY <1>1, <1>3 DEF In

LEMMA NoneShown ==
  ASSUME NEW a \in Resting, NEW sections \in Sections, sections = <<>>
  PROVE  Counted(a, Shown(sections)) = a
<1>1. Shown(sections) = Added(SectionRows(sections)) /\ SectionRows(sections) \in Seq(Nat)
      /\ Len(SectionRows(sections)) = 0
  BY ShownNat
<1> DEFINE ns == SectionRows(sections)
<1> HIDE DEF ns
<1>2. PICK g \in [0..Len(ns) -> Nat] : Sums(ns, g) /\ Added(ns) = g[Len(ns)]
  BY <1>1, AddedIs DEF ns
<1>3. Shown(sections) = 0
  BY <1>1, <1>2 DEF Sums, ns
<1>4. a \in Facts /\ 0 \in Int /\ 0 \in Nat
  BY RestingFacts
<1> QED BY <1>3, <1>4, FactsOf

LEMMA GroupingSectionsRule ==
  ASSUME NEW k \in Frames, NEW a \in Resting, Spacious(k, a), NEW sections \in Sections
  PROVE  Rule(k, In(k, a), Each(sections, GroupingSection), In(k, Counted(a, Shown(sections))))
<1> DEFINE block(s) == GroupingSection(s)
           ss == [i \in 1..Len(sections) |-> block(sections[i])]
           ns == SectionRows(sections)
<1>1. ns \in Seq(Nat) /\ Len(ns) = Len(sections) /\ Shown(sections) = Added(ns)
      /\ \A i \in 1..Len(ns) : /\ ns[i] = Rows(sections[i]) /\ ns[i] \in Nat
                               /\ sections[i] \in Seq(UsageTable)
  BY ShownNat
<1>2. Each(sections, GroupingSection) = FlattenSeq(ss)
  BY DEF Each, Join
<1>3. ASSUME NEW s \in Seq(UsageTable), s # <<>>, NEW c \in Resting, c.two = a.two, c.later = a.later
      PROVE  Rule(k, In(k, c), block(s), In(k, Counted(c, Rows(s))))
  <2>1. Spacious(k, c)
    BY <1>3 DEF Spacious
  <2> QED BY <1>3, <2>1, GroupingSectionRule
<1> HIDE DEF ns, block
<1>4. ss = [i \in 1..Len(ns) |-> ss[i]] /\ \A i \in 1..Len(ns) : ss[i] = block(sections[i])
  BY <1>1
<1>5. \A i \in 1..Len(ns) : sections[i] # <<>>
  BY <1>1 DEF Sections
<1> HIDE DEF ss
<1>6. Rule(k, In(k, a), FlattenSeq(ss), In(k, Counted(a, Added(ns))))
  BY <1>1, <1>3, <1>4, <1>5, RestingEach
<1> QED BY <1>1, <1>2, <1>6

\* After a page has been started, for either layout.
LEMMA GroupingUsageRule ==
  ASSUME NEW k \in Frames, NEW a \in Resting, ~a.two, k.strict => k.back >= 4410,
         NEW sections \in Sections
  PROVE  Rule(k, In(k, a), <<FreshPage(75000)>> \o Each(sections, GroupingSection),
              In(k, Counted(a, Shown(sections))))
<1> DEFINE l == Later(a)
           d == Counted(a, Shown(sections))
           h == 75000
<1>1. Shown(sections) \in Nat /\ h \in Int
  BY ShownNat
<1>2. /\ l \in Resting /\ l.later /\ l.two = a.two /\ l.rows = a.rows
      /\ Counted(l, Shown(sections)) = Later(d) /\ d \in Resting
  BY <1>1, LaterFacts, CountedFacts
<1> HIDE DEF l, d, h
<1>3. Rule(k, In(k, a), <<FreshPage(h)>>, In(k, l))
  BY <1>1, <1>2, FreshPageRule, RestingFacts
<1>4. Spacious(k, l)
  BY <1>2 DEF Spacious
<1>5. Rule(k, In(k, l), Each(sections, GroupingSection), In(k, Later(d)))
  BY <1>2, <1>4, GroupingSectionsRule
<1>6. Rule(k, In(k, l), Each(sections, GroupingSection), In(k, d))
  BY <1>2, <1>5, LaterIsIn, RuleWeaken
<1>7. Rule(k, In(k, a), <<FreshPage(h)>> \o Each(sections, GroupingSection), In(k, d))
  BY <1>3, <1>6, RuleJoin
<1> QED BY <1>7 DEF h, d

LEMMA SubscriptionRefUsageRule ==
  ASSUME NEW k \in Frames, NEW a \in Resting, NEW b \in Bill, ~a.two, k.strict => k.back >= 4410
  PROVE  Rule(k, In(k, a), SubscriptionRefUsage(b).ops, In(k, Counted(a, Shown(b.sections))))
<1> DEFINE sections == b.sections
           block == <<FreshPage(75000)>> \o Each(sections, GroupingSection)
<1>1. sections \in Sections
  BY BillFacts
<1>2. SubscriptionRefUsage(b).ops = When(sections # <<>>, block)
  BY DEF SubscriptionRefUsage, Part
<1> HIDE DEF sections
<1>3. Rule(k, In(k, a), block, In(k, Counted(a, Shown(sections))))
  BY <1>1, GroupingUsageRule
<1> HIDE DEF block
<1>4. CASE sections # <<>>
  BY <1>2, <1>3, <1>4 DEF When, sections
<1>5. CASE sections = <<>>
  BY <1>1, <1>2, <1>5, NoneShown, RuleEmpty DEF When, sections
<1> QED BY <1>4, <1>5

-----------------------------------------------------------------------------
(* product_label_grouping.                                                 *)

LEMMA ProductLabelChargesRule ==
  ASSUME NEW k \in Frames, NEW a \in Resting, NEW b \in Bill, ~a.two
  PROVE  Rule(k, In(k, a), ProductLabelCharges(b).ops, In(k, a))
<1> DEFINE ns == Products(b)
           block(i) == ProductLabelProduct(b, ns[i])
           ss == [i \in 1..Len(ns) |-> block(i)]
           n == Len(ns)
           P == In(k, a)
<1>0. ns \in Seq(Nat)
  BY ProductsType
<1>1. ProductLabelCharges(b).ops = FlattenSeq(ss)
  BY DEF ProductLabelCharges, Part, Each, Join
<1>2. ASSUME NEW m \in Nat PROVE Rule(k, P, ProductLabelProduct(b, m), P)
  <2> DEFINE j == m + b.subs
             gap == 1000
             h == 900
  <2>1. j \in Nat /\ gap \in Nat \ {0} /\ gap < 20000 /\ h \in Nat \ {0}
    BY BillFacts
  <2>2. ProductLabelProduct(b, m) = LabelledProduct(j, gap, h)
    BY DEF ProductLabelProduct, LabelledProduct
  <2> HIDE DEF j, gap, h
  <2> QED BY <2>1, <2>2, LabelledProductRule
<1> HIDE DEF ns
<1>3. ss = [i \in 1..n |-> ss[i]] /\ n \in Nat /\ \A i \in 1..n : ss[i] = block(i)
  <2> HIDE DEF block
  <2> QED BY <1>0
<1>4. \A i \in 1..n : ns[i] \in Nat
  BY <1>0
<1>5. \A i \in 1..n : Rule(k, P, ss[i], P)
  BY <1>2, <1>3, <1>4
<1> HIDE DEF ss, n, P
<1>6. Rule(k, P, FlattenSeq(ss), P)
  BY <1>3, <1>5, RuleEach
<1> QED BY <1>1, <1>6 DEF P

LEMMA ProductLabelListsRule ==
  ASSUME NEW k \in Frames, NEW a \in Resting, NEW b \in Bill, ~k.strict
  PROVE  Rule(k, In(k, a), ProductLabelAdjustments(b) \o ProductLabelDiscounts(b), In(k, a))
<1>1. Rule(k, In(k, a), <<Plain(900)>>, In(k, a))
  BY PlainAnywhere
<1>2. \A n \in Nat : Rule(k, In(k, a), When(n > 0, Times(n + 1, Plain(900))), In(k, a))
  <2> TAKE n \in Nat
  <2>1. n + 1 \in Nat
    OBVIOUS
  <2> QED BY <1>1, <2>1, TimesSame, RuleEmpty DEF When
<1>3. Rule(k, In(k, a), ProductLabelAdjustments(b), In(k, a))
  BY <1>2, BillFacts DEF ProductLabelAdjustments
<1>4. Rule(k, In(k, a), ProductLabelDiscounts(b), In(k, a))
  BY <1>2, BillFacts DEF ProductLabelDiscounts
<1> QED BY <1>3, <1>4, RuleJoin

LEMMA ProductLabelTotalRule ==
  ASSUME NEW k \in Frames, NEW a \in Resting, ~a.two, k.front >= 100
  PROVE  Rule(k, In(k, a), ProductLabelTotal, In(k, a))
<1> DEFINE x == -1000
           drop == 1000
           need == 900
           step == 900
<1>1. /\ x \in Int /\ need \in Nat /\ drop \in Nat /\ step \in Nat \ {0}
      /\ drop <= need + k.front /\ drop <= 20000
      /\ x <= need - drop - step /\ x + drop + step <= 40000
  BY FramesAre
<1>2. ProductLabelTotal = <<Lowered(need, drop, step)>>
  BY DEF ProductLabelTotal
<1> HIDE DEF x, need, drop, step
<1>3. Rule(k, In(k, a), <<Lowered(need, drop, step)>>, In(k, Roomy(a, x)))
  BY <1>1, LoweredRule
<1>4. Rule(k, In(k, a), <<Lowered(need, drop, step)>>, In(k, a))
  BY <1>1, <1>3, RoomyIsRest, FramesAre, RuleWeaken
<1> QED BY <1>2, <1>4

LEMMA ProductLabelPaymentsRule ==
  ASSUME NEW k \in Frames, NEW a \in Resting, NEW b \in Bill,
         ~a.two, Tall(k), k.strict => b.pay <= PagePayments
  PROVE  Rule(k, In(k, a), ProductLabelPayments(b).ops, In(k, a))
<1> DEFINE m == b.pay + 2
           need == 1000 * m
           gap == 500
           block == <<Room(need), Gap(gap)>> \o Times(m, Plain(1000))
<1>1. /\ m \in Nat /\ need \in Int /\ need = 1000 * m /\ gap \in Nat /\ gap <= 500
      /\ k.strict => m <= PagePayments + 2
  BY BillFacts DEF PagePayments
<1>2. ProductLabelPayments(b).ops = When(b.pay > 0, block)
  BY DEF ProductLabelPayments, Part
<1> HIDE DEF m, need, gap
<1>3. Rule(k, In(k, a), block, In(k, a))
  BY <1>1, PaymentBlockRule
<1> HIDE DEF block
<1> QED BY <1>2, <1>3, RuleEmpty DEF When

LEMMA ProductLabelNotesRule ==
  ASSUME NEW k \in Frames, NEW a \in Resting, NEW b \in Bill
  PROVE  Rule(k, In(k, a), ProductLabelCancelled(b) \o ProductLabelMessages(b), In(k, a))
<1>1. ASSUME NEW n \in Nat, NEW above \in Int
      PROVE  Rule(k, In(k, a), [i \in 1..n |-> Fixed(23200 - 1000 * (above + i))], In(k, a))
  <2> DEFINE op(i) == Fixed(23200 - 1000 * (above + i))
             ops == [i \in 1..n |-> op(i)]
  <2>1. \A i \in 1..n : \E drop \in Int : op(i) = Fixed(drop)
    OBVIOUS
  <2>2. ops = [i \in 1..n |-> ops[i]] /\ \A i \in 1..n : ops[i] = op(i)
    <3> HIDE DEF op
    <3> QED OBVIOUS
  <2> HIDE DEF ops, op
  <2>3. Rule(k, In(k, a), ops, In(k, a))
    BY <2>1, <2>2, FixedLinesRule
  <2> QED BY <2>3 DEF ops, op
<1>2. Rule(k, In(k, a), ProductLabelCancelled(b), In(k, a))
  <2> DEFINE n == b.cancel + 1
             above == b.pay + 1
             block == [i \in 1..n |-> Fixed(23200 - 1000 * (above + i))]
  <2>1. n \in Nat /\ above \in Int
    BY BillFacts
  <2>2. ProductLabelCancelled(b) = When(b.cancel > 0, block)
    BY DEF ProductLabelCancelled
  <2> HIDE DEF n, above
  <2>3. Rule(k, In(k, a), block, In(k, a))
    BY SMTT(30), <1>1, <2>1
  <2> HIDE DEF block
  <2> QED BY <2>2, <2>3, RuleEmpty DEF When
<1>3. Rule(k, In(k, a), ProductLabelMessages(b), In(k, a))
  <2> DEFINE n == (IF b.msgs > 0 THEN b.msgs + 1 ELSE 0) + (IF b.susp THEN 1 ELSE 0)
             above == b.pay + b.cancel + 2
             block == [i \in 1..n |-> Fixed(23200 - 1000 * (above + i))]
  <2>1. n \in Nat /\ above \in Int
    BY BillFacts
  <2>2. ProductLabelMessages(b) = block
    BY DEF ProductLabelMessages
  <2> HIDE DEF n, above
  <2>3. Rule(k, In(k, a), block, In(k, a))
    BY SMTT(30), <1>1, <2>1
  <2> HIDE DEF block
  <2> QED BY <2>2, <2>3
<1> QED BY <1>2, <1>3, RuleJoin

\* What is so from each of two sets is so from both.
LEMMA RuleUnion ==
  ASSUME NEW k, NEW P1, NEW P2, NEW ops, NEW Q, Rule(k, P1, ops, Q), Rule(k, P2, ops, Q)
  PROVE  Rule(k, P1 \cup P2, ops, Q)
<1>1. PICK f : Outline(k, P1, ops, Q, f)
  BY DEF Rule
<1>2. PICK g : Outline(k, P2, ops, Q, g)
  BY DEF Rule
<1>0. ops \in Seq(Command) /\ Len(ops) \in Nat
  BY DEF Rule
<1> DEFINE n == Len(ops)
           h == [i \in 0..n |-> f[i] \cup g[i]]
<1>3. \A i \in 0..n : h[i] = f[i] \cup g[i]
  OBVIOUS
<1> HIDE DEF h
<1>4. h[0] = f[0] \cup g[0] /\ h[n] = f[n] \cup g[n]
  BY <1>0, <1>3
<1>5. P1 \cup P2 \subseteq h[0] /\ h[n] \subseteq Q
  BY <1>1, <1>2, <1>4 DEF Outline
<1>6. ASSUME NEW i \in 1..n, NEW s \in h[i - 1]
      PROVE  Good(k, s, ops[i]) /\ Step(k, s, ops[i]) \in h[i]
  <2>1. h[i - 1] = f[i - 1] \cup g[i - 1] /\ h[i] = f[i] \cup g[i]
    BY <1>0, <1>3
  <2> QED BY <1>1, <1>2, <1>6, <2>1 DEF Outline
<1>7. Outline(k, P1 \cup P2, ops, Q, h)
  BY <1>5, <1>6 DEF Outline
<1> QED BY <1>0, <1>7 DEF Rule

-----------------------------------------------------------------------------
(* A line that asks for nothing stays on the page while there is room.     *)

LEMMA StillText ==
  ASSUME NEW k \in Frames, NEW a \in Resting, NEW x \in Int, x >= 0, NEW step \in Int,
         NEW op1, NEW op2, NEW kind,
         Is(op1, "text", 0, 0, step, kind), Is(op2, "plain", 0, 0, step, kind),
         NEW s \in In(k, Roomy(a, x))
  PROVE  Step(k, s, op1) = Step(k, s, op2) /\ (Good(k, s, op2) => Good(k, s, op1))
<1> DEFINE c == s.cursor
<1>1. c \in Cursor /\ Holds(k, Roomy(a, x), s)
  BY SpotIn
<1>2. c.y \in Int /\ [c EXCEPT !.y = c.y - 0] = c
  BY <1>1 DEF Cursor
<1>3. c.y - x >= Floor(k, c.page) /\ Floor(k, c.page) \in Int
  <2>1. k \in Frame
    BY FramesAre
  <2> QED BY <1>1, <2>1, RoomyFacts DEF Holds, Floor, Frame
<1>4. ~Short(c, k, 0)
  BY <1>2, <1>3 DEF Short, Low, Floor
<1>5. Placed(c, k, op1) = c
  <2>1. Placed(c, k, op1) = [Fit(c, k, 0) EXCEPT !.y = Fit(c, k, 0).y - 0]
    BY DEF Placed, Is
  <2>2. Fit(c, k, 0) = c
    BY <1>4 DEF Fit
  <2> QED BY <1>2, <2>1, <2>2
<1>6. Placed(c, k, op2) = c
  BY DEF Placed, Is
<1>7. After(c, k, op1) = After(c, k, op2)
  BY <1>5, <1>6 DEF After, Is
<1>8. LineAt(k, c, op1) = LineAt(k, c, op2)
  <2>1. op1.heads = op2.heads
    BY DEF Is, Command
  <2> QED BY <1>5, <1>6, <2>1 DEF LineAt, Is
<1>9. Writes(op1) /\ Writes(op2) /\ Draws(op1) /\ Draws(op2)
  BY DEF Writes, Draws, Is
<1>10. op1.row = op2.row
  BY DEF Is, Command
<1>11. Step(k, s, op1) = Step(k, s, op2)
  BY <1>7, <1>8, <1>9, <1>10 DEF Step
<1>12. Good(k, s, op2) => Good(k, s, op1)
  BY <1>8, <1>9 DEF Good
<1> QED BY <1>11, <1>12

LEMMA StillRule ==
  ASSUME NEW k \in Frames, NEW a \in Resting, NEW x \in Int, x >= 0, NEW step \in Int,
         NEW op1, NEW op2, NEW kind, NEW Q,
         Is(op1, "text", 0, 0, step, kind), Is(op2, "plain", 0, 0, step, kind),
         Rule(k, In(k, Roomy(a, x)), <<op2>>, Q)
  PROVE  Rule(k, In(k, Roomy(a, x)), <<op1>>, Q)
<1>1. \A s \in In(k, Roomy(a, x)) : Good(k, s, op2) /\ Step(k, s, op2) \in Q
  BY RuleOfOne
<1>2. \A s \in In(k, Roomy(a, x)) : Good(k, s, op1) /\ Step(k, s, op1) \in Q
  BY <1>1, StillText
<1>3. op1 \in Command
  BY DEF Is
<1> QED BY <1>2, <1>3, RuleOne

LEMMA TextStill ==
  ASSUME NEW k \in Frames, NEW a \in Resting, NEW x \in Int, x >= 0, NEW step \in Nat \ {0},
         NEW y \in Int, y = x - step
  PROVE  Rule(k, In(k, Roomy(a, x)), <<Text(0, step)>>, In(k, Roomy(a, y)))
<1>1. Rule(k, In(k, Roomy(a, x)), <<Plain(step)>>, In(k, Roomy(a, y)))
  BY PlainTo, FramesAre
<1>2. 0 \in Int /\ step \in Int
  OBVIOUS
<1>3. Is(Text(0, step), "text", 0, 0, step, "line") /\ Is(Plain(step), "plain", 0, 0, step, "line")
  BY <1>2, TextIs, PlainIs
<1> QED BY <1>1, <1>2, <1>3, StillRule

\* A row drawn without asking.
PlainRow(step) == [Plain(step) EXCEPT !.row = TRUE]

LEMMA PlainRowTo ==
  ASSUME NEW k \in Frames, NEW a \in Resting, NEW step \in Nat \ {0}, NEW x \in Int,
         k.strict => x + k.front >= 0 \/ (a.later /\ x + k.back >= 0),
         NEW y \in Int, y = x - step
  PROVE  /\ Is(PlainRow(step), "plain", 0, 0, step, "row")
         /\ Rule(k, In(k, Roomy(a, x)), <<PlainRow(step)>>, In(k, Roomy(Counted(a, 1), y)))
<1> DEFINE c == Roomy(a, x)
           d == Counted(a, 1)
           b == Roomy(d, y)
           op == PlainRow(step)
<1>1. d \in Resting /\ d.rows = a.rows + 1 /\ d.two = a.two /\ d.later = a.later
  BY CountedFacts
<1>2. /\ c \in Facts /\ c.free /\ c.known /\ ~c.off /\ c.room = x /\ c.rows = a.rows
      /\ c.two = a.two /\ c.later = a.later
  BY RoomyFacts
<1> HIDE DEF d
<1>3. /\ b \in Facts /\ b.free /\ b.known /\ ~b.off /\ b.room = y /\ b.rows = d.rows
      /\ b.two = d.two /\ b.later = d.later
  BY <1>1, RoomyFacts
<1>4. Is(op, "plain", 0, 0, step, "row")
  <2>1. step \in Int
    OBVIOUS
  <2> QED BY <2>1, PlainIs, ExceptRow DEF PlainRow
<1> HIDE DEF b, c, op
<1>5. PlainFits(k, c, op, b)
  BY <1>1, <1>2, <1>3, <1>4 DEF PlainFits, Is
<1>6. Rule(k, In(k, c), <<op>>, In(k, b))
  BY <1>2, <1>3, <1>4, <1>5, FramesAre, RulePlain DEF Is
<1> QED BY <1>4, <1>6 DEF b, c, d, op

LEMMA RowStill ==
  ASSUME NEW k \in Frames, NEW a \in Resting, NEW x \in Int, x >= 0, NEW step \in Nat \ {0},
         NEW y \in Int, y = x - step
  PROVE  Rule(k, In(k, Roomy(a, x)), <<TableRow(0, step)>>, In(k, Roomy(Counted(a, 1), y)))
<1>1. /\ Is(PlainRow(step), "plain", 0, 0, step, "row")
      /\ Rule(k, In(k, Roomy(a, x)), <<PlainRow(step)>>, In(k, Roomy(Counted(a, 1), y)))
  BY PlainRowTo, FramesAre
<1>2. 0 \in Int /\ step \in Int
  OBVIOUS
<1>3. Is(TableRow(0, step), "text", 0, 0, step, "row")
  BY <1>2, TableRowIs
<1> QED BY <1>1, <1>2, <1>3, StillRule

LEMMA RowsStill ==
  ASSUME NEW k \in Frames, NEW a \in Resting, NEW n \in Nat, NEW x \in Int,
         NEW y \in Int, y = x - 900 * n, y >= 0
  PROVE  Rule(k, In(k, Roomy(a, x)), Times(n, TableRow(0, 900)), In(k, Roomy(Counted(a, n), y)))
<1> DEFINE step == 900
           op == TableRow(0, step)
           f == [i \in 0..n |-> x - 900 * i]
           I == [i \in 0..n |-> In(k, Roomy(Counted(a, i), f[i]))]
<1>0. op \in Command
  <2>1. 0 \in Int /\ step \in Int
    OBVIOUS
  <2> QED BY <2>1, TableRowIs DEF Is
<1>1. a \in Facts /\ 0 \in Int /\ 0 \in Nat /\ step \in Nat \ {0}
  BY RestingFacts
<1>2. Counted(a, 0) = a
  BY <1>1, FactsOf
<1>3. (\A i \in 0..n : f[i] \in Int) /\ f[0] = x /\ f[n] = y
  OBVIOUS
<1>4. \A i \in 1..n : f[i] = f[i - 1] - step /\ f[i - 1] >= 0
  OBVIOUS
<1> HIDE DEF f, step
<1>5. ASSUME NEW i \in 1..n PROVE Rule(k, I[i - 1], <<op>>, I[i])
  <2>1. i - 1 \in Nat /\ i - 1 \in 0..n /\ i \in 0..n /\ i - 1 + 1 = i
    OBVIOUS
  <2> DEFINE c == Counted(a, i - 1)
             u == f[i - 1]
             v == f[i]
  <2>2. c \in Resting
    BY <2>1, CountedFacts
  <2>3. Counted(c, 1) = Counted(a, i)
    BY <1>1, <2>1, CountedTwice
  <2>4. I[i - 1] = In(k, Roomy(c, u)) /\ I[i] = In(k, Roomy(Counted(a, i), v))
    BY <2>1
  <2>5. u \in Int /\ v \in Int /\ v = u - step /\ u >= 0
    BY <1>3, <1>4, <2>1
  <2> HIDE DEF I, c, op, u, v
  <2>6. Rule(k, In(k, Roomy(c, u)), <<op>>, In(k, Roomy(Counted(c, 1), v)))
    BY <1>1, <2>2, <2>5, RowStill DEF op
  <2> QED BY <2>3, <2>4, <2>6
<1>6. I[0] = In(k, Roomy(a, x)) /\ I[n] = In(k, Roomy(Counted(a, n), y))
  BY <1>2, <1>3
<1> HIDE DEF I, op
<1>7. Rule(k, I[0], Times(n, op), I[n])
  BY <1>0, <1>5, RuleAgain
<1> QED BY <1>6, <1>7 DEF op, step

LEMMA TableStill ==
  ASSUME NEW k \in Frames, NEW a \in Resting, NEW s, NEW i \in Nat \ {0}, s[i].rows \in Nat,
         NEW x \in Int, NEW y \in Int, y >= 0, NEW h \in {3150, 4410}, h = 4410 <=> i = 1,
         y = x - h - 900 * s[i].rows
  PROVE  Rule(k, In(k, Roomy(a, x)), GroupingTable(s, i), In(k, Roomy(Counted(a, s[i].rows), y)))
<1> DEFINE n == s[i].rows
           e == IF i = 1 THEN 1260 ELSE IF s[i].label THEN 1080 ELSE 900
           d == Counted(a, n)
           A1 == <<Text(0, e)>>
           A2 == When(i = 1 /\ s[i].label, <<Plain(1080)>>)
           A3 == When(i = 1 \/ s[i].label, <<Plain(900)>>)
           A4 == Times(n, TableRow(0, 900))
           A5 == <<Plain(1170)>>
           x0 == x - e
           x1 == x - (IF i = 1 THEN 1260 ELSE 1080)
           x2 == x1 - (IF i = 1 THEN 1080 ELSE 0)
           x3 == x2 - 900
           x4 == x3 - 900 * n
<1>0. n \in Nat
  OBVIOUS
<1>1. /\ x0 \in Int /\ x1 \in Int /\ x2 \in Int /\ x3 \in Int /\ x4 \in Int
      /\ x0 = x - e /\ x1 <= x0 /\ x3 = x2 - 900 /\ x4 = x3 - 900 * n /\ y = x4 - 1170
      /\ x >= 0 /\ x1 >= 0 /\ x2 >= 0 /\ x4 >= 0 /\ e \in Nat \ {0}
      /\ i = 1 => x2 = x1 - 1080
      /\ i # 1 => x2 = x1
  <2> HIDE DEF n
  <2>1. e \in 900..1260 /\ (i = 1 => e = 1260) /\ (i # 1 => e <= 1080)
    OBVIOUS
  <2> HIDE DEF e
  <2>2. CASE i = 1
    BY <1>0, <2>1, <2>2 DEF n
  <2>3. CASE i # 1
    BY <1>0, <2>1, <2>3 DEF n
  <2> QED BY <2>2, <2>3
<1>3. GroupingTable(s, i) = A1 \o A2 \o A3 \o A4 \o A5
  BY DEF GroupingTable
<1>4. k.front >= 0
  BY FramesAre
<1> HIDE DEF x0, x1, x2, x3, x4, e, d, n
<1>2. d \in Resting
  BY <1>0, CountedFacts DEF d
<1>5. Rule(k, In(k, Roomy(a, x)), A1, In(k, Roomy(a, x1)))
  <2>1. Rule(k, In(k, Roomy(a, x)), A1, In(k, Roomy(a, x0)))
    <3>1. x >= 0 /\ e \in Nat \ {0} /\ x0 \in Int /\ x0 = x - e
      BY <1>1
    <3> QED BY <3>1, TextStill
  <2> HIDE DEF A1
  <2> QED BY <1>1, <2>1, RoomyLess, FramesAre, RuleWeaken
<1>6. Rule(k, In(k, Roomy(a, x1)), A2, In(k, Roomy(a, x2)))
  <2>1. CASE i = 1
    <3>1. k.strict => x1 + k.front >= 0 \/ (a.later /\ x1 + k.back >= 0)
      BY <1>1, FramesAre
    <3> QED BY <1>1, <2>1, <3>1, PlainWhen
  <2>2. CASE i # 1
    BY <1>1, <2>2, RuleEmpty DEF When
  <2> QED BY <2>1, <2>2
<1>7. Rule(k, In(k, Roomy(a, x2)), A3, In(k, Roomy(a, x3)))
  <2>1. k.strict => x2 + k.front >= 0 \/ (a.later /\ x2 + k.back >= 0)
    BY <1>1, FramesAre
  <2> QED BY <1>1, <2>1, PlainWhen
<1>8. Rule(k, In(k, Roomy(a, x3)), A4, In(k, Roomy(d, x4)))
  BY <1>0, <1>1, RowsStill DEF d
<1>9. Rule(k, In(k, Roomy(d, x4)), A5, In(k, Roomy(d, y)))
  <2>1. k.strict => x4 + k.front >= 0 \/ (d.later /\ x4 + k.back >= 0)
    BY <1>1, FramesAre
  <2> QED BY <1>1, <1>2, <2>1, PlainTo
<1> HIDE DEF A1, A2, A3, A4, A5
<1>10. Rule(k, In(k, Roomy(a, x)), A1 \o A2, In(k, Roomy(a, x2)))
  BY <1>5, <1>6, RuleJoin
<1>11. Rule(k, In(k, Roomy(a, x)), A1 \o A2 \o A3, In(k, Roomy(a, x3)))
  BY <1>7, <1>10, RuleJoin
<1>12. Rule(k, In(k, Roomy(a, x)), A1 \o A2 \o A3 \o A4, In(k, Roomy(d, x4)))
  BY <1>8, <1>11, RuleJoin
<1>13. Rule(k, In(k, Roomy(a, x)), A1 \o A2 \o A3 \o A4 \o A5, In(k, Roomy(d, y)))
  BY <1>9, <1>12, RuleJoin
<1> QED BY <1>3, <1>13 DEF d, n

LEMMA SumsGrow ==
  ASSUME NEW ns \in Seq(Nat), NEW g \in [0..Len(ns) -> Nat], Sums(ns, g), NEW i \in 0..Len(ns)
  PROVE  g[i] <= g[Len(ns)]
<1> DEFINE n == Len(ns)
           S == {j \in Nat : j \in i..n => g[i] <= g[j]}
<1>1. 0 \in S
  OBVIOUS
<1>2. ASSUME NEW j \in Nat \ {0}, j - 1 \in S PROVE j \in S
  <2> SUFFICES ASSUME j \in i..n PROVE g[i] <= g[j]
    OBVIOUS
  <2>1. CASE j = i
    BY <2>1
  <2>2. CASE j # i
    <3>1. j - 1 \in i..n /\ j \in 1..n
      BY <2>2
    <3>2. g[i] <= g[j - 1]
      BY <1>2, <3>1
    <3>3. g[j] = g[j - 1] + ns[j] /\ ns[j] \in Nat /\ g[j - 1] \in Nat /\ g[i] \in Nat
      <4>1. g[j] = g[j - 1] + ns[j]
        BY <3>1 DEF Sums
      <4>2. j \in 1..n /\ j - 1 \in 0..n /\ ns \in Seq(Nat)
        BY <3>1
      <4> QED BY <4>1, <4>2
    <3> QED BY <3>2, <3>3
  <2> QED BY <2>1, <2>2
<1>3. Nat \subseteq S
  <2> HIDE DEF S
  <2> QED BY <1>1, <1>2, Upward
<1>4. n \in Nat /\ n \in i..n
  OBVIOUS
<1> QED BY <1>3, <1>4

LEMMA Fall ==
  ASSUME NEW n \in Nat, NEW r \in Nat, NEW i \in 1..n, NEW p \in Nat, NEW q \in Nat, p + q <= r,
         NEW x \in Int, NEW u, NEW v, NEW w \in {0, 1260}, x = 3060 + 3150 * n + 900 * r,
         v = x - 1260 - 3150 * i - 900 * (p + q), u = x - w - 3150 * (i - 1) - 900 * p
  PROVE  u \in Int /\ v \in Int /\ v >= 0 /\ v = u - (4410 - w) - 900 * q
OBVIOUS

\* A section for which there is room on the page.
LEMMA SectionStill ==
  ASSUME NEW k \in Frames, NEW a \in Resting, NEW s \in Seq(UsageTable), s # <<>>
  PROVE  Rule(k, In(k, Roomy(a, SectionHeight(s))), GroupingSection(s), In(k, Counted(a, Rows(s))))
<1> DEFINE block(i) == GroupingTable(s, i)
           ss == [i \in 1..Len(s) |-> block(i)]
           ns == RowsOf(s)
           n == Len(s)
           x == SectionHeight(s)
           d == Counted(a, Rows(s))
<1>1. ns \in Seq(Nat) /\ Len(ns) = n /\ Rows(s) = Added(ns) /\ Rows(s) \in Nat
      /\ \A i \in 1..n : ns[i] = s[i].rows
  BY RowsNat
<1>2. n \in Nat \ {0}
  OBVIOUS
<1> HIDE DEF ns, n
<1>3. PICK g \in [0..n -> Nat] : Sums(ns, g) /\ Rows(s) = g[n]
  BY <1>1, AddedIs
<1>4. g[0] = 0 /\ \A i \in 1..n : g[i] = g[i - 1] + ns[i] /\ g[i - 1] \in Nat /\ ns[i] \in Nat
  <2>1. g[0] = 0 /\ \A i \in 1..n : g[i] = g[i - 1] + ns[i]
    BY <1>1, <1>3 DEF Sums
  <2>2. ASSUME NEW i \in 1..n PROVE g[i - 1] \in Nat /\ ns[i] \in Nat
    <3>1. i - 1 \in 0..n
      BY <1>2
    <3> QED BY <1>1, <3>1
  <2> QED BY <2>1, <2>2
<1>5. \A i \in 0..n : g[i] <= g[n] /\ g[i] \in Nat
  BY <1>1, <1>3, SumsGrow
<1>6. x = 3060 + 3150 * n + 900 * g[n] /\ x \in Int
  BY <1>2, <1>3, <1>5 DEF SectionHeight, n
<1> DEFINE w(i) == IF i = 0 THEN 0 ELSE 1260
           f == [i \in 0..n |-> x - w(i) - 3150 * i - 900 * g[i]]
<1>7. /\ \A i \in 0..n : f[i] = x - w(i) - 3150 * i - 900 * g[i]
      /\ w(0) = 0 /\ \A i \in Nat \ {0} : w(i) = 1260
  OBVIOUS
<1> HIDE DEF f, x, w
<1>8. f[0] = x /\ f[n] >= 1800 /\ f[n] \in Int
  <2>1. f[0] = x - 0 - 3150 * 0 - 900 * 0
    BY <1>2, <1>4, <1>7
  <2> DEFINE r == g[n]
  <2>2. f[n] = x - 1260 - 3150 * n - 900 * r
    BY <1>2, <1>7
  <2>3. r \in Nat /\ x = 3060 + 3150 * n + 900 * r
    BY <1>2, <1>5, <1>6
  <2> HIDE DEF r
  <2>4. f[n] >= 1800 /\ f[n] \in Int
    BY <1>2, <2>2, <2>3
  <2> QED BY <1>6, <2>1, <2>4
<1>9. ASSUME NEW i \in 1..n
      PROVE  /\ f[i - 1] \in Int /\ f[i] \in Int /\ f[i] >= 0 /\ w(i - 1) \in {0, 1260}
             /\ f[i] = f[i - 1] - (4410 - w(i - 1)) - 900 * ns[i] /\ (w(i - 1) = 0 <=> i = 1)
  <2> DEFINE p == g[i - 1]
             q == ns[i]
             r == g[n]
             z == w(i - 1)
  <2>0. i - 1 \in 0..n /\ i \in 0..n /\ i \in Nat \ {0} /\ (i - 1 # 0 => i - 1 \in Nat \ {0})
    BY <1>2
  <2>1. p \in Nat /\ q \in Nat /\ r \in Nat /\ g[i] = p + q /\ p + q <= r
    <3>1. g[i] = p + q /\ p \in Nat /\ q \in Nat
      BY <1>4
    <3>2. g[i] <= r /\ r \in Nat
      BY <1>2, <1>5, <2>0
    <3> QED BY <3>1, <3>2
  <2>2. f[i] = x - 1260 - 3150 * i - 900 * (p + q)
    BY <1>7, <2>0, <2>1
  <2>3. f[i - 1] = x - z - 3150 * (i - 1) - 900 * p
    BY <1>7, <2>0
  <2>4. x = 3060 + 3150 * n + 900 * r /\ x \in Int
    BY <1>6
  <2>5. z \in {0, 1260} /\ (z = 0 <=> i = 1)
    <3>1. CASE i = 1
      <4>1. i - 1 = 0
        BY <3>1
      <4> QED BY <1>7, <3>1, <4>1
    <3>2. CASE i # 1
      <4>1. i - 1 \in Nat \ {0}
        BY <1>2, <3>2
      <4> QED BY <1>7, <3>2, <4>1
    <3> QED BY <3>1, <3>2
  <2> DEFINE u == f[i - 1]
             v == f[i]
  <2> HIDE DEF p, q, r, z, u, v
  <2>6. u \in Int /\ v \in Int /\ v >= 0 /\ v = u - (4410 - z) - 900 * q
    BY <1>2, <2>1, <2>2, <2>3, <2>4, <2>5, Fall DEF u, v
  <2> QED BY <2>5, <2>6 DEF u, v, z, q
<1>10. ss = [i \in 1..n |-> ss[i]] /\ Len(ss) = n /\ \A i \in 1..n : ss[i] = block(i)
  <2> HIDE DEF block
  <2> QED BY <1>2 DEF n
<1> DEFINE I == [i \in 0..n |-> In(k, Roomy(Counted(a, g[i]), f[i]))]
<1>11. ASSUME NEW i \in 1..n PROVE Rule(k, I[i - 1], ss[i], I[i])
  <2> DEFINE c == Counted(a, g[i - 1])
             u == f[i - 1]
             v == f[i]
  <2>1. g[i - 1] \in Nat /\ ns[i] \in Nat /\ g[i] = g[i - 1] + ns[i] /\ ns[i] = s[i].rows
    BY <1>1, <1>4
  <2>2. c \in Resting
    BY <2>1, CountedFacts
  <2>3. Counted(c, s[i].rows) = Counted(a, g[i])
    <3> DEFINE i0 == g[i - 1]
               j0 == ns[i]
    <3>1. a \in Facts /\ i0 \in Nat /\ j0 \in Nat /\ i0 + j0 = g[i] /\ j0 = s[i].rows
      BY <2>1, RestingFacts
    <3> HIDE DEF i0, j0
    <3>2. Counted(Counted(a, i0), j0) = Counted(a, i0 + j0)
      BY <3>1, CountedTwice
    <3> QED BY <3>1, <3>2 DEF i0, j0
  <2>4. I[i - 1] = In(k, Roomy(c, u)) /\ I[i] = In(k, Roomy(Counted(a, g[i]), v))
    BY <1>2
  <2> DEFINE h == 4410 - w(i - 1)
  <2>5. /\ u \in Int /\ v \in Int /\ v >= 0 /\ h \in {3150, 4410} /\ (h = 4410 <=> i = 1)
        /\ v = u - h - 900 * s[i].rows
    <3> DEFINE z == w(i - 1)
               q == ns[i]
    <3>1. /\ u \in Int /\ v \in Int /\ v >= 0 /\ z \in {0, 1260}
          /\ v = u - (4410 - z) - 900 * q /\ (z = 0 <=> i = 1)
      BY <1>9
    <3>2. q = s[i].rows
      BY <2>1
    <3> HIDE DEF z, q, u, v
    <3>3. (4410 - z) \in {3150, 4410} /\ (4410 - z = 4410 <=> i = 1)
      BY <3>1
    <3> QED BY <3>1, <3>2, <3>3 DEF z
  <2>6. i \in Nat \ {0} /\ s[i].rows \in Nat
    BY <1>2, <2>1
  <2> HIDE DEF I, c, u, v, h
  <2>7. Rule(k, In(k, Roomy(c, u)), GroupingTable(s, i), In(k, Roomy(Counted(c, s[i].rows), v)))
    BY <2>2, <2>5, <2>6, TableStill
  <2>8. ss[i] = GroupingTable(s, i)
    BY <1>10
  <2> HIDE DEF ss
  <2> QED BY <2>3, <2>4, <2>7, <2>8
<1>12. I[0] = In(k, Roomy(a, x)) /\ I[n] = In(k, Roomy(d, f[n]))
  <2>1. a \in Facts /\ 0 \in Int /\ 0 \in Nat
    BY RestingFacts
  <2>2. Counted(a, 0) = a
    BY <2>1, FactsOf
  <2> QED BY <1>2, <1>3, <1>4, <1>8, <2>2
<1> HIDE DEF I, ss
<1>13. Rule(k, In(k, Roomy(a, x)), FlattenSeq(ss), In(k, Roomy(d, f[n])))
  <2>1. Rule(k, I[0], FlattenSeq(ss), I[Len(ss)])
    BY <1>2, <1>10, <1>11, RuleBlocks
  <2> QED BY <1>10, <1>12, <2>1
<1>14. Rule(k, In(k, Roomy(d, f[n])), <<Plain(1800)>>, In(k, d))
  <2> DEFINE u == f[n]
             y == u - 1800
  <2>1. d \in Resting
    BY <1>1, CountedFacts
  <2>2. u \in Int /\ y \in Int /\ (k.strict => u + k.front >= 0 \/ (d.later /\ u + k.back >= 0))
    BY <1>8, FramesAre
  <2> HIDE DEF u, d
  <2>3. Rule(k, In(k, Roomy(d, u)), <<Plain(1800)>>, In(k, Roomy(d, y)))
    BY <2>1, <2>2, PlainTo
  <2> HIDE DEF y
  <2>4. Rule(k, In(k, Roomy(d, u)), <<Plain(1800)>>, In(k, d))
    BY <2>1, <2>2, <2>3, RoomyIsRest, FramesAre, RuleWeaken
  <2> QED BY <2>4 DEF u
<1>15. Rule(k, In(k, Roomy(a, x)), FlattenSeq(ss) \o <<Plain(1800)>>, In(k, d))
  BY <1>13, <1>14, RuleJoin
<1>16. GroupingSection(s) = FlattenSeq(ss) \o <<Plain(1800)>>
  BY DEF GroupingSection, Join, ss, block
<1> QED BY <1>15, <1>16 DEF x, d

\* The section leaves the first page, or finds its room there.
LEMMA LeaveRule ==
  ASSUME NEW k \in Frames, NEW a \in Resting, NEW need \in Int, NEW height \in Int
  PROVE  Rule(k, In(k, a), <<LeavePageOne(need, height)>>, In(k, Later(a)) \cup In(k, Roomy(a, need)))
<1> DEFINE op == LeavePageOne(need, height)
           l == Later(a)
           r == Roomy(a, need)
<1>1. Is(op, "leave", need, height, 0, "line")
  BY LeavePageOneIs
<1>2. op \in Command /\ op.act = "leave" /\ op.need = need /\ op.drop = height /\ op.step = 0 /\ ~op.row
  BY <1>1 DEF Is
<1> HIDE DEF op
<1>3. a \in Facts /\ a.free /\ ~a.known /\ k \in Frame
  BY RestingFacts, FramesAre
<1>4. 0 \in Nat /\ l \in Resting /\ l.two = a.two /\ l.rows = a.rows /\ l \in Facts /\ ~l.known
      /\ l = Later(a) /\ l.free = a.free
  BY <1>3, LaterFacts, RestingFacts
<1>5. /\ r.free = a.free /\ r.known /\ ~r.off /\ r.room = need /\ r.rows = a.rows
      /\ r.two = a.two /\ r.later = a.later
  BY <1>3, RoomyFacts
<1> HIDE DEF l, r
<1>6. ASSUME NEW s \in In(k, a)
      PROVE  Good(k, s, op) /\ Step(k, s, op) \in In(k, l) \cup In(k, r)
  <2> DEFINE c == s.cursor
  <2>1. s \in Spot /\ c \in Cursor /\ Holds(k, a, s)
    BY SpotIn
  <2>2. CASE c.page = 1 /\ Short(c, k, need)
    <3>1. Placed(c, k, op) = NextPage(c, height)
      BY <1>2, <2>2 DEF Placed
    <3> HIDE DEF c
    <3>2. Good(k, s, op) /\ Step(k, s, op) \in In(k, l)
      BY <1>2, <1>3, <1>4, <3>1, StepToPage DEF c
    <3> QED BY <3>2
  <2>3. CASE ~(c.page = 1 /\ Short(c, k, need))
    <3>1. Placed(c, k, op) = c
      BY <1>2, <2>3 DEF Placed
    <3>2. After(c, k, op) = c
      BY <1>2, <2>1, <3>1, StillCursor
    <3>3. Step(k, s, op) = s
      BY <1>2, <2>1, <3>2 DEF Step, Writes, Draws, Spot
    <3>4. Good(k, s, op)
      BY <1>2 DEF Good, Writes
    <3>5. CASE c.page > 1
      <4>1. Holds(k, l, s)
        <5>1. l.keep = a.keep
          BY <1>3 DEF l, Later, Facts
        <5> QED BY <1>3, <1>4, <2>1, <3>5, <5>1 DEF Holds
      <4> QED BY <2>1, <3>3, <3>4, <4>1 DEF In
    <3>6. CASE ~(c.page > 1)
      <4>1. c.page = 1
        BY <2>1, <3>6 DEF Cursor
      <4>2. c.y - need >= Floor(k, c.page)
        <5>1. c.y - need \in Int /\ Floor(k, c.page) \in Int
          BY <1>3, <2>1 DEF Cursor, Floor, Frame
        <5> QED BY <2>3, <4>1, <5>1 DEF Short, Low, Floor
      <4>3. Holds(k, r, s)
        BY <1>3, <1>5, <2>1, <4>2 DEF Holds
      <4> QED BY <2>1, <3>3, <3>4, <4>3 DEF In
    <3> QED BY <3>5, <3>6
  <2> QED BY <2>2, <2>3
<1>7. Rule(k, In(k, a), <<op>>, In(k, l) \cup In(k, r))
  BY <1>2, <1>6, RuleOne
<1> QED BY <1>7 DEF op, l, r

LEMMA LabelSectionRule ==
  ASSUME NEW k \in Frames, NEW a \in Resting, ~a.two, k.strict => k.back >= 4410,
         NEW s \in Seq(UsageTable), s # <<>>
  PROVE  Rule(k, In(k, a), <<LeavePageOne(SectionHeight(s), 75000)>> \o GroupingSection(s),
              In(k, Counted(a, Rows(s))))
<1> DEFINE l == Later(a)
           need == SectionHeight(s)
           height == 75000
           d == Counted(a, Rows(s))
           P1 == In(k, l)
           P2 == In(k, Roomy(a, need))
           ops == GroupingSection(s)
<1>1. Rows(s) \in Nat /\ need \in Int /\ height \in Int
  <2>1. Rows(s) \in Nat
    BY RowsNat
  <2> QED BY <2>1 DEF SectionHeight
<1> HIDE DEF height, need, ops
<1>2. /\ l \in Resting /\ l.later /\ l.two = a.two /\ Counted(l, Rows(s)) = Later(d) /\ d \in Resting
  <2> DEFINE n == Rows(s)
  <2>1. n \in Nat
    BY <1>1
  <2> HIDE DEF n
  <2>2. /\ Later(a) \in Resting /\ Later(a).later /\ Later(a).two = a.two
        /\ Counted(Later(a), n) = Later(Counted(a, n))
    BY <2>1, LaterFacts
  <2>3. Counted(a, n) \in Resting
    BY <2>1, CountedFacts
  <2> QED BY <2>2, <2>3 DEF n
<1> HIDE DEF d
<1>3. Rule(k, In(k, a), <<LeavePageOne(need, height)>>, P1 \cup P2)
  BY <1>1, LeaveRule
<1>4. Rule(k, P1, ops, In(k, d))
  <2> HIDE DEF l
  <2>1. Spacious(k, l)
    BY <1>2 DEF Spacious
  <2>2. Rule(k, In(k, l), GroupingSection(s), In(k, Counted(l, Rows(s))))
    BY <1>2, <2>1, GroupingSectionRule
  <2>3. Rule(k, In(k, l), ops, In(k, Later(d)))
    BY <1>2, <2>2 DEF ops
  <2> QED BY <1>2, <2>3, LaterIsIn, RuleWeaken
<1>5. Rule(k, P2, ops, In(k, d))
  BY SectionStill DEF need, ops, d
<1> HIDE DEF P1, P2
<1>6. Rule(k, P1 \cup P2, ops, In(k, d))
  BY <1>4, <1>5, RuleUnion
<1>7. Rule(k, In(k, a), <<LeavePageOne(need, height)>> \o ops, In(k, d))
  BY <1>3, <1>6, RuleJoin
<1> QED BY <1>7 DEF need, height, ops, d

LEMMA ProductLabelUsageRule ==
  ASSUME NEW k \in Frames, NEW a \in Resting, NEW b \in Bill, ~a.two, k.strict => k.back >= 4410, NEW c
  PROVE  Rule(k, In(k, a), ProductLabelUsage(b, c), In(k, Counted(a, Shown(b.sections))))
<1> DEFINE sections == b.sections
           block(s) == <<LeavePageOne(SectionHeight(s), 75000)>> \o GroupingSection(s)
           ss == [i \in 1..Len(sections) |-> block(sections[i])]
           ns == SectionRows(sections)
           d == Counted(a, Shown(sections))
           t == sections[1][1]
           height == 1260 + (IF t.label THEN 1080 ELSE 0) + 900 + 900 * t.rows + 2970
           stays == c.page = 1 /\ c.y - height >= 15000
           A1 == IF stays THEN <<Gap(600)>> ELSE <<FreshPage(75000)>>
           A2 == FlattenSeq(ss)
<1>0. sections \in Sections
  BY BillFacts
<1>1. ns \in Seq(Nat) /\ Len(ns) = Len(sections) /\ Shown(sections) = Added(ns)
      /\ \A i \in 1..Len(ns) : /\ ns[i] = Rows(sections[i]) /\ ns[i] \in Nat
                               /\ sections[i] \in Seq(UsageTable)
  <2> HIDE DEF sections
  <2> QED BY <1>0, ShownNat
<1>2. ProductLabelUsage(b, c) = When(sections # <<>>, A1 \o A2)
  BY DEF ProductLabelUsage, Each, Join
<1>3. \A s \in Seq(UsageTable) : s # <<>> => \A e \in Resting : e.two = a.two =>
        Rule(k, In(k, e), block(s), In(k, Counted(e, Rows(s))))
  BY LabelSectionRule
<1>4. Rule(k, In(k, a), A1, In(k, a))
  <2> DEFINE h == 75000
  <2>1. 600 \in Nat /\ h \in Int
    OBVIOUS
  <2>2. Rule(k, In(k, a), <<Gap(600)>>, In(k, a))
    BY <2>1, GapRule
  <2> HIDE DEF h
  <2>3. Rule(k, In(k, a), <<FreshPage(h)>>, In(k, a))
    BY <2>1, FreshPageRule, RestingFacts
  <2> HIDE DEF stays
  <2> QED BY <2>2, <2>3 DEF h
<1> HIDE DEF ns, block, A1
<1>5. ss = [i \in 1..Len(ns) |-> ss[i]] /\ \A i \in 1..Len(ns) : ss[i] = block(sections[i])
  BY <1>1
<1>6. \A i \in 1..Len(ns) : sections[i] # <<>>
  <2> HIDE DEF sections
  <2> QED BY <1>0, <1>1 DEF Sections
<1> HIDE DEF ss, sections
<1>7. Rule(k, In(k, a), A2, In(k, Counted(a, Added(ns))))
  BY SMTT(30), <1>1, <1>3, <1>5, <1>6, RestingEach
<1> HIDE DEF A2
<1>8. Rule(k, In(k, a), A1 \o A2, In(k, d))
  BY <1>1, <1>4, <1>7, RuleJoin
<1>9. CASE sections # <<>>
  BY <1>2, <1>8, <1>9 DEF When, sections
<1>10. CASE sections = <<>>
  BY <1>0, <1>2, <1>10, NoneShown, RuleEmpty DEF When, sections
<1> QED BY <1>9, <1>10

-----------------------------------------------------------------------------
(***************************************************************************)
(* invoice_of_summary.                                                     *)
(***************************************************************************)

\* A heading has been drawn, and both the line under it and the flow have
\* this much room.
Kept(a, x) == Roomy(Pending(a, x), x)

LEMMA KeptFacts ==
  ASSUME NEW a \in Resting, NEW x \in Int
  PROVE  /\ Kept(a, x) \in Facts /\ ~Kept(a, x).free /\ Kept(a, x).keep = x
         /\ Kept(a, x).known /\ ~Kept(a, x).off /\ Kept(a, x).room = x
         /\ Kept(a, x).rows = a.rows /\ Kept(a, x).two = a.two /\ Kept(a, x).later = a.later
<1> DEFINE p == Pending(a, x)
<1>1. p \in Facts /\ ~p.free /\ p.keep = x /\ p.rows = a.rows /\ p.two = a.two /\ p.later = a.later
  BY PendingFacts
<1> HIDE DEF p
<1>2. /\ Roomy(p, x) \in Facts /\ Roomy(p, x).free = p.free /\ Roomy(p, x).keep = p.keep
      /\ Roomy(p, x).known /\ ~Roomy(p, x).off /\ Roomy(p, x).room = x
      /\ Roomy(p, x).rows = p.rows /\ Roomy(p, x).two = p.two /\ Roomy(p, x).later = p.later
  BY <1>1 DEF Roomy, Facts
<1> QED BY <1>1, <1>2 DEF Kept, p

LEMMA KeptLess ==
  ASSUME NEW k \in Frame, NEW a \in Resting, NEW x \in Int, NEW y \in Int, y <= x
  PROVE  /\ In(k, Roomy(a, x)) \subseteq In(k, Kept(a, y))
         /\ In(k, Kept(a, x)) \subseteq In(k, Kept(a, y))
<1> DEFINE q == Kept(a, y)
<1>0. /\ ~q.free /\ q.keep = y /\ q.known /\ ~q.off /\ q.room = y
      /\ q.rows = a.rows /\ q.two = a.two /\ q.later = a.later
  BY KeptFacts
<1> HIDE DEF q
<1>1. ASSUME NEW c \in Facts, c.known, ~c.off, c.room = x, c.rows = a.rows, c.two = a.two,
             c.later = a.later, c.free \/ c.keep = x, NEW s \in In(k, c)
      PROVE  s \in In(k, q)
  <2>1. s \in Spot /\ s.cursor \in Cursor /\ Holds(k, c, s)
    BY SpotIn
  <2>2. s.cursor.y \in Int /\ Floor(k, s.cursor.page) \in Int
    BY <2>1 DEF Cursor, Floor, Frame
  <2>3. Holds(k, q, s)
    BY <1>0, <1>1, <2>1, <2>2 DEF Holds
  <2> QED BY <2>1, <2>3 DEF In
<1>2. In(k, Roomy(a, x)) \subseteq In(k, q)
  BY <1>1, RoomyFacts
<1>3. In(k, Kept(a, x)) \subseteq In(k, q)
  BY <1>1, KeptFacts
<1> QED BY <1>2, <1>3 DEF q

LEMMA KeptHeading ==
  ASSUME NEW k \in Frames, NEW a \in Resting, NEW step \in Nat \ {0}, NEW x \in Int,
         k.strict => x + k.front >= 0, NEW y \in Int, y = x - step
  PROVE  Rule(k, In(k, Kept(a, x)), <<PlainHeading(step)>>, In(k, Kept(a, y)))
<1> DEFINE c == Kept(a, x)
           b == Kept(a, y)
<1>1. /\ c \in Facts /\ c.known /\ ~c.off /\ c.room = x
      /\ c.rows = a.rows /\ c.two = a.two /\ c.later = a.later
  BY KeptFacts
<1>2. /\ b \in Facts /\ ~b.free /\ b.keep = y /\ b.known /\ ~b.off /\ b.room = y
      /\ b.rows = a.rows /\ b.two = a.two /\ b.later = a.later
  BY KeptFacts
<1> HIDE DEF b, c
<1>3. Is(PlainHeading(step), "plain", 0, 0, step, "head")
  <2>1. step \in Int
    OBVIOUS
  <2> QED BY <2>1, PlainHeadingIs
<1>4. PlainFits(k, c, PlainHeading(step), b)
  BY <1>1, <1>2, <1>3, FramesAre DEF PlainFits, Is, Facts
<1>5. Rule(k, In(k, c), <<PlainHeading(step)>>, In(k, b))
  BY <1>1, <1>2, <1>3, <1>4, FramesAre, RulePlain DEF Is
<1> QED BY <1>5 DEF b, c

LEMMA KeptPlain ==
  ASSUME NEW k \in Frames, NEW a \in Resting, NEW step \in Nat \ {0}, NEW x \in Int,
         k.strict => x + k.front >= 0
  PROVE  Rule(k, In(k, Kept(a, x)), <<Plain(step)>>, In(k, a))
<1> DEFINE c == Kept(a, x)
<1>1. /\ c \in Facts /\ c.known /\ ~c.off /\ c.room = x
      /\ c.rows = a.rows /\ c.two = a.two /\ c.later = a.later
  BY KeptFacts
<1>2. a \in Facts /\ a.free /\ ~a.known /\ step \in Int
  BY RestingFacts
<1> HIDE DEF c
<1>3. Is(Plain(step), "plain", 0, 0, step, "line")
  BY <1>2, PlainIs
<1>4. PlainFits(k, c, Plain(step), a)
  BY <1>1, <1>2, <1>3, FramesAre DEF PlainFits, Is, Facts
<1>5. Rule(k, In(k, c), <<Plain(step)>>, In(k, a))
  BY <1>1, <1>2, <1>3, <1>4, FramesAre, RulePlain DEF Is
<1> QED BY <1>5 DEF c

-----------------------------------------------------------------------------
(* The usage of invoice_of_summary.                                        *)

LEMMA SummaryTableRule ==
  ASSUME NEW k \in Frames, NEW a \in Resting, a.two, k.deck = 2400,
         NEW s, NEW i \in Nat \ {0}, s[i].rows \in Nat
  PROVE  Rule(k, In(k, a), SummaryTable(s, i), In(k, Counted(a, s[i].rows)))
<1> DEFINE t == s[i]
           n == t.rows
           headings == (IF i = 1 THEN 1 ELSE 0) + (IF n > 0 THEN 1 ELSE 0)
                         + (IF n > 0 /\ t.label THEN 1 ELSE 0)
           need == 900 * (headings + 2)
           d == Counted(a, n)
           A1 == <<Room(need)>>
           A2 == When(i = 1, <<PlainHeading(1260)>>)
           A3 == When(n > 0, When(t.label, <<PlainHeading(1080)>>) \o <<Plain(900)>>)
           A4 == Times(n, TableRow(900, 900))
           A5 == <<Text(900, 1170)>>
           x == 2400
           y == 1140
           z == 60
           w == -840
<1>1. /\ x \in Int /\ y \in Int /\ z \in Int /\ w \in Int /\ y = x - 1260 /\ z = y - 1080
      /\ w = z - 900 /\ y <= x /\ z <= y /\ y >= 900
      /\ k.strict => x + k.front >= 0 /\ y + k.front >= 0 /\ z + k.front >= 0
  BY FramesAre
<1>2. n \in Nat /\ need \in Int
  OBVIOUS
<1>3. i = 1 \/ n > 0 => x <= need
  BY <1>2
<1>4. x <= k.top - k.low2 /\ x <= k.deck
  BY FramesAre
<1>5. SummaryTable(s, i) = A1 \o A2 \o A3 \o A4 \o A5
  BY DEF SummaryTable
<1> HIDE DEF x, y, z, w, need, n
<1>6. d \in Resting
  BY <1>2, CountedFacts
<1>7. Rule(k, In(k, a), A4, In(k, d))
  BY <1>2, RowsRule
<1>8. Rule(k, In(k, d), A5, In(k, d))
  BY <1>6, TextRule
<1>9. ~(n > 0) => A4 = <<>> /\ d = a
  <2>1. a \in Facts /\ 0 \in Int /\ 0 \in Nat
    BY RestingFacts
  <2>2. Counted(a, 0) = a
    BY <2>1, FactsOf
  <2>3. ~(n > 0) => n = 0
    BY <1>2
  <2>4. Times(0, TableRow(900, 900)) = <<>>
    BY DEF Times
  <2> QED BY <2>2, <2>3, <2>4
<1> HIDE DEF A4, A5, d
<1>10. CASE n > 0
  <2>1. Rule(k, In(k, a), A1, In(k, Roomy(a, x)))
    BY <1>1, <1>2, <1>3, <1>4, <1>10, RoomRule
  <2>2. Rule(k, In(k, Roomy(a, x)), A2, In(k, Kept(a, y)))
    <3>0. k.strict => x + k.front >= 0
      BY <1>1
    <3>1. Rule(k, In(k, Kept(a, x)), <<PlainHeading(1260)>>, In(k, Kept(a, y)))
      BY <1>1, <3>0, KeptHeading
    <3>2. Rule(k, In(k, Roomy(a, x)), <<PlainHeading(1260)>>, In(k, Kept(a, y)))
      BY <1>1, <3>1, KeptLess, FramesAre, RuleWeaken
    <3>3. Rule(k, In(k, Roomy(a, x)), <<>>, In(k, Kept(a, y)))
      BY <1>1, KeptLess, FramesAre, RuleEmpty
    <3> QED BY <3>2, <3>3 DEF When
  <2>3. Rule(k, In(k, Kept(a, y)), A3, In(k, a))
    <3>0. /\ y \in Int /\ z \in Int /\ z <= y /\ z = y - 1080
          /\ k.strict => y + k.front >= 0
      BY <1>1
    <3>1. Rule(k, In(k, Kept(a, y)), <<PlainHeading(1080)>>, In(k, Kept(a, z)))
      BY <3>0, KeptHeading
    <3>2. Rule(k, In(k, Kept(a, y)), <<>>, In(k, Kept(a, z)))
      BY <3>0, KeptLess, FramesAre, RuleEmpty
    <3>3. Rule(k, In(k, Kept(a, y)), When(t.label, <<PlainHeading(1080)>>), In(k, Kept(a, z)))
      BY <3>1, <3>2 DEF When
    <3>4. Rule(k, In(k, Kept(a, z)), <<Plain(900)>>, In(k, a))
      <4>1. z \in Int /\ w \in Int /\ w = z - 900 /\ (k.strict => z + k.front >= 0)
        BY <1>1
      <4> QED BY <4>1, KeptPlain
    <3>5. Rule(k, In(k, Kept(a, y)), When(t.label, <<PlainHeading(1080)>>) \o <<Plain(900)>>, In(k, a))
      BY <3>3, <3>4, RuleJoin
    <3> QED BY <1>10, <3>5 DEF When
  <2> HIDE DEF A1, A2, A3
  <2>4. Rule(k, In(k, a), A1 \o A2, In(k, Kept(a, y)))
    BY <2>1, <2>2, RuleJoin
  <2>5. Rule(k, In(k, a), A1 \o A2 \o A3, In(k, a))
    BY <2>3, <2>4, RuleJoin
  <2>6. Rule(k, In(k, a), A1 \o A2 \o A3 \o A4, In(k, d))
    BY <1>7, <2>5, RuleJoin
  <2>7. Rule(k, In(k, a), A1 \o A2 \o A3 \o A4 \o A5, In(k, d))
    BY <1>8, <2>6, RuleJoin
  <2> QED BY <1>5, <2>7 DEF d, n
<1>11. CASE ~(n > 0)
  <2>1. A3 = <<>> /\ A4 = <<>> /\ d = a
    BY <1>9, <1>11 DEF When
  <2>2. Rule(k, In(k, a), A1 \o A2 \o A5, In(k, a))
    <3>1. CASE i = 1
      <4>1. Rule(k, In(k, a), A1, In(k, Roomy(a, x)))
        BY <1>1, <1>2, <1>3, <1>4, <3>1, RoomRule
      <4>2. Rule(k, In(k, Roomy(a, x)), A2, In(k, Pending(a, y)))
        <5>1. Rule(k, In(k, Roomy(a, x)), <<PlainHeading(1260)>>, In(k, Pending(a, y)))
          BY <1>1, PlainHeadingTo
        <5> QED BY <3>1, <5>1 DEF When
      <4>3. Rule(k, In(k, Pending(a, y)), A5, In(k, a))
        BY <1>1, TextRule DEF A5
      <4> HIDE DEF A1, A2
      <4>4. Rule(k, In(k, a), A1 \o A2, In(k, Pending(a, y)))
        BY <4>1, <4>2, RuleJoin
      <4> QED BY <4>3, <4>4, RuleJoin
    <3>2. CASE i # 1
      <4> DEFINE v == 0
      <4>1. v \in Int /\ v <= need /\ v <= k.top - k.low2 /\ v <= k.deck
        BY <1>2, FramesAre DEF need, n
      <4> HIDE DEF v
      <4>2. Rule(k, In(k, a), A1, In(k, Roomy(a, v)))
        BY <1>2, <4>1, RoomRule
      <4>3. Rule(k, In(k, a), A1, In(k, a))
        BY <4>1, <4>2, RoomyIsRest, FramesAre, RuleWeaken
      <4>4. Rule(k, In(k, a), A2, In(k, a))
        BY <3>2, RuleEmpty DEF When
      <4>5. Rule(k, In(k, a), A5, In(k, a))
        BY <1>8, <2>1
      <4> HIDE DEF A1, A2
      <4>6. Rule(k, In(k, a), A1 \o A2, In(k, a))
        BY <4>3, <4>4, RuleJoin
      <4> QED BY <4>5, <4>6, RuleJoin
    <3> QED BY <3>1, <3>2
  <2>3. A1 \o A2 \o A3 \o A4 \o A5 = A1 \o A2 \o A5
    <3>1. A1 \o A2 \in Seq(Command)
      <4>1. Rule(k, In(k, a), A1 \o A2 \o A5, In(k, a))
        BY <2>2
      <4>2. Room(need) \in Command /\ PlainHeading(1260) \in Command
        BY <1>2, RoomIs, PlainHeadingIs DEF Is
      <4>3. A1 \in Seq(Command) /\ A2 \in Seq(Command)
        BY <4>2 DEF When
      <4> HIDE DEF A1, A2
      <4> QED BY <4>3
    <3> HIDE DEF A1, A2, A3
    <3> QED BY <2>1, <3>1
  <2> HIDE DEF A1, A2, A3
  <2>4. Rule(k, In(k, a), SummaryTable(s, i), In(k, d))
    BY <1>5, <2>1, <2>2, <2>3
  <2> QED BY <2>4 DEF d, n
<1> QED BY <1>10, <1>11

LEMMA AddedZero ==
  ASSUME NEW ns \in Seq(Nat), \A i \in 1..Len(ns) : ns[i] = 0
  PROVE  Added(ns) = 0
<1> DEFINE n == Len(ns)
<1>1. PICK g \in [0..n -> Nat] : Sums(ns, g) /\ Added(ns) = g[n]
  BY AddedIs
<1>2. n \in Nat /\ g[0] = 0 /\ \A i \in 1..n : g[i] = g[i - 1] + ns[i]
  BY <1>1 DEF Sums
<1> DEFINE S == {i \in Nat : i \in 0..n => g[i] = 0}
<1>3. 0 \in S
  BY <1>2
<1>4. ASSUME NEW i \in Nat \ {0}, i - 1 \in S PROVE i \in S
  <2> SUFFICES ASSUME i \in 0..n PROVE g[i] = 0
    OBVIOUS
  <2>1. i \in 1..n /\ i - 1 \in 0..n
    BY <1>2
  <2>2. g[i - 1] = 0 /\ ns[i] = 0 /\ g[i] = g[i - 1] + ns[i]
    BY <1>2, <1>4, <2>1
  <2> QED BY <2>2
<1>5. Nat \subseteq S
  <2> HIDE DEF S
  <2> QED BY <1>3, <1>4, Upward
<1>6. g[n] = 0
  BY <1>2, <1>5
<1> QED BY <1>1, <1>6

LEMMA NotPrinted ==
  ASSUME NEW s \in Seq(UsageTable), ~Printed(s)
  PROVE  Rows(s) = 0
<1>1. RowsOf(s) \in Seq(Nat) /\ Len(RowsOf(s)) = Len(s) /\ Rows(s) = Added(RowsOf(s))
      /\ \A i \in 1..Len(s) : RowsOf(s)[i] = s[i].rows
  BY RowsNat
<1>2. ASSUME NEW i \in 1..Len(s) PROVE RowsOf(s)[i] = 0
  <2>a. s[i] \in UsageTable
    OBVIOUS
  <2>1. s[i].rows \in Nat
    BY <2>a DEF UsageTable
  <2>2. ~(s[i].rows > 0)
    BY DEF Printed
  <2> QED BY <1>1, <2>1, <2>2
<1> QED BY <1>1, <1>2, AddedZero

LEMMA InRows ==
  ASSUME NEW k, NEW a
  PROVE  In(k, a) \subseteq {s \in Spot : s.rows = a.rows}
BY DEF In, Holds

-----------------------------------------------------------------------------
\* Facts of the two-column flow.
Paired == {a \in Resting : a.two}

LEMMA PairedFacts ==
  ASSUME NEW a \in Paired
  PROVE  a \in Resting /\ a.two /\ \A c \in Resting : c.two = a.two => c \in Paired
BY DEF Paired

LEMMA PairedTable ==
  ASSUME NEW k \in Frames, NEW a \in Paired, k.deck = 2400,
         NEW s, NEW i \in Nat \ {0}, s[i].rows \in Nat
  PROVE  Rule(k, In(k, a), SummaryTable(s, i), In(k, Counted(a, s[i].rows)))
BY PairedFacts, SummaryTableRule

LEMMA SummarySectionRule ==
  ASSUME NEW k \in Frames, NEW a \in Paired, k.deck = 2400, NEW s \in Seq(UsageTable)
  PROVE  Rule(k, In(k, a), SummarySection(s), In(k, Counted(a, Rows(s))))
<1> DEFINE block(i) == SummaryTable(s, i)
           ss == [i \in 1..Len(s) |-> block(i)]
           ns == RowsOf(s)
           d == Counted(a, Rows(s))
<1>a. a \in Resting
  BY PairedFacts
<1>1. ns \in Seq(Nat) /\ Len(ns) = Len(s) /\ Rows(s) = Added(ns) /\ Rows(s) \in Nat
      /\ \A i \in 1..Len(ns) : ns[i] = s[i].rows /\ ns[i] \in Nat
  BY RowsNat
<1> HIDE DEF ns
<1>2. ss = [i \in 1..Len(ns) |-> ss[i]] /\ \A i \in 1..Len(ns) : ss[i] = block(i)
  <2> HIDE DEF block
  <2> QED BY <1>1
<1>3. ASSUME NEW i \in 1..Len(ns), NEW c \in Resting, c.two = a.two, c.later = a.later
      PROVE  Rule(k, In(k, c), ss[i], In(k, Counted(c, ns[i])))
  <2>1. i \in Nat \ {0} /\ s[i].rows \in Nat /\ ns[i] = s[i].rows
    BY <1>1
  <2>b. c \in Paired
    BY <1>3, PairedFacts
  <2>2. Rule(k, In(k, c), SummaryTable(s, i), In(k, Counted(c, s[i].rows)))
    BY <1>3, <2>1, <2>b, PairedTable
  <2>3. ss[i] = SummaryTable(s, i)
    BY <1>2
  <2> HIDE DEF ss
  <2> QED BY <2>1, <2>2, <2>3
<1> HIDE DEF ss, block
<1>3b. ns \in Seq(Nat) /\ ss = [i \in 1..Len(ns) |-> ss[i]]
  BY <1>1, <1>2
<1>4. Rule(k, In(k, a), FlattenSeq(ss), In(k, Counted(a, Added(ns))))
  BY <1>a, <1>3, <1>3b, RestingEach
<1>5. Rule(k, In(k, a), FlattenSeq(ss), In(k, d))
  BY <1>1, <1>4
<1>6. Rule(k, In(k, d), <<Text(900, 1800)>>, In(k, d))
  <2>1. d \in Resting
    BY <1>a, <1>1, CountedFacts
  <2> HIDE DEF d
  <2> QED BY <2>1, TextRule
<1> HIDE DEF d
<1>7. Rule(k, In(k, a), FlattenSeq(ss) \o <<Text(900, 1800)>>, In(k, d))
  BY <1>5, <1>6, RuleJoin
<1> QED BY <1>7 DEF SummarySection, Join, ss, block, d

LEMMA SummarySectionsRule ==
  ASSUME NEW k \in Frames, NEW a \in Paired, k.deck = 2400, NEW sections \in Sections
  PROVE  Rule(k, In(k, a), FlattenSeq([i \in 1..Len(sections) |->
                                         When(Printed(sections[i]), SummarySection(sections[i]))]),
              In(k, Counted(a, Shown(sections))))
<1> DEFINE block(s) == When(Printed(s), SummarySection(s))
           ss == [i \in 1..Len(sections) |-> block(sections[i])]
           ns == SectionRows(sections)
<1>a. a \in Resting
  BY PairedFacts
<1>1. ns \in Seq(Nat) /\ Len(ns) = Len(sections) /\ Shown(sections) = Added(ns)
      /\ \A i \in 1..Len(ns) : /\ ns[i] = Rows(sections[i]) /\ ns[i] \in Nat
                               /\ sections[i] \in Seq(UsageTable)
  BY ShownNat
<1>2. ASSUME NEW s \in Seq(UsageTable), NEW c \in Resting, c.two = a.two, c.later = a.later
      PROVE  Rule(k, In(k, c), block(s), In(k, Counted(c, Rows(s))))
  <2>1. CASE Printed(s)
    <3>a. c \in Paired
      BY <1>2, PairedFacts
    <3>1. Rule(k, In(k, c), SummarySection(s), In(k, Counted(c, Rows(s))))
      BY <1>2, <3>a, SummarySectionRule
    <3> QED BY <2>1, <3>1 DEF When
  <2>2. CASE ~Printed(s)
    <3>1. c \in Facts /\ 0 \in Int /\ 0 \in Nat
      BY RestingFacts
    <3>2. Counted(c, 0) = c
      BY <3>1, FactsOf
    <3>3. Rows(s) = 0
      BY <2>2, NotPrinted
    <3> QED BY <2>2, <3>2, <3>3, RuleEmpty DEF When
  <2> QED BY <2>1, <2>2
<1> HIDE DEF ns, block
<1>3. ss = [i \in 1..Len(ns) |-> ss[i]] /\ \A i \in 1..Len(ns) : ss[i] = block(sections[i])
  BY <1>1
<1> HIDE DEF ss
<1>3b. ns \in Seq(Nat) /\ ss = [i \in 1..Len(ns) |-> ss[i]]
  BY <1>1, <1>3
<1>4. Rule(k, In(k, a), FlattenSeq(ss), In(k, Counted(a, Added(ns))))
  BY <1>a, <1>1, <1>2, <1>3, <1>3b, RestingEach
<1> QED BY <1>1, <1>4 DEF ss, block

LEMMA SummaryUsageRule ==
  ASSUME NEW k \in Frames, NEW a \in Resting, ~a.two, k.deck = 2400, NEW b \in Bill
  PROVE  Rule(k, In(k, Roomy(a, 2400)), SummaryUsage(b).ops,
              {s \in Spot : s.rows = a.rows + Shown(b.sections)})
<1> DEFINE sections == b.sections
           n == Shown(sections)
           c == Two(a)
           d == Counted(c, n)
           x == 2400
           Q == {s \in Spot : s.rows = a.rows + n}
           printed == \E i \in 1..Len(sections) : Printed(sections[i])
           A2 == FlattenSeq([i \in 1..Len(sections) |-> When(Printed(sections[i]), SummarySection(sections[i]))])
<1>1. sections \in Sections /\ x \in Int /\ x >= k.deck
  BY BillFacts
<1>2. SummaryUsage(b).ops = When(printed, <<Columns>> \o A2)
  BY DEF SummaryUsage, Part, Each, Join
<1> HIDE DEF sections, x
<1>3. n \in Nat
  BY <1>1, ShownNat
<1>4. c \in Resting /\ c.two /\ c.rows = a.rows
  BY TwoFacts
<1> HIDE DEF n, c
<1>5. d.rows = a.rows + n
  BY <1>3, <1>4, CountedFacts
<1> HIDE DEF d
<1>6. In(k, d) \subseteq Q
  BY <1>5, InRows
<1>7. Rule(k, In(k, Roomy(a, x)), <<Columns>>, In(k, c))
  <2>1. Rule(k, In(k, Roomy(a, x)), <<Columns>>, Started(k, c))
    BY <1>1, ColumnsRule DEF c
  <2>2. Started(k, c) \subseteq In(k, c)
    BY StartedIsIn
  <2> QED BY <2>1, <2>2, RuleWeaken
<1>c. c \in Paired
  BY <1>4 DEF Paired
<1>8. Rule(k, In(k, c), A2, In(k, d))
  BY <1>1, <1>c, SummarySectionsRule DEF d, n
<1> HIDE DEF A2
<1>9. Rule(k, In(k, Roomy(a, x)), <<Columns>> \o A2, In(k, d))
  BY <1>7, <1>8, RuleJoin
<1>10. CASE printed
  <2>1. Rule(k, In(k, Roomy(a, x)), <<Columns>> \o A2, Q)
    BY <1>6, <1>9, RuleWeaken
  <2> QED BY <1>2, <1>10, <2>1 DEF When, n, sections, x
<1>11. CASE ~printed
  <2>1. \A i \in 1..Len(sections) : SectionRows(sections)[i] = 0
    <3> TAKE i \in 1..Len(sections)
    <3>1. SectionRows(sections)[i] = Rows(sections[i]) /\ sections[i] \in Seq(UsageTable)
      BY <1>1, ShownNat
    <3> QED BY <1>11, <3>1, NotPrinted
  <2>2. n = 0
    BY <1>1, <2>1, ShownNat, AddedZero DEF n
  <2>3. a.rows + n = a.rows
    BY <2>2, RestingFacts DEF Facts
  <2>4. In(k, Roomy(a, x)) \subseteq Q
    <3>1. Roomy(a, x).rows = a.rows
      BY <1>1, RoomyFacts
    <3> QED BY <2>3, <3>1, InRows
  <2>5. Rule(k, In(k, Roomy(a, x)), <<>>, Q)
    BY <2>4, RuleEmpty
  <2> QED BY <1>2, <1>11, <2>5 DEF When, n, sections, x
<1> QED BY <1>10, <1>11

-----------------------------------------------------------------------------
(* The summary and the charges in detail.                                  *)

LEMMA SummaryLinesRule ==
  ASSUME NEW k \in Frames, NEW a \in Resting, NEW n \in Nat
  PROVE  Rule(k, In(k, a), Times(n, SummaryLine), In(k, a))
BY TextsRule DEF SummaryLine

\* The room a line of the detail leaves, and a gap after it.
LEMMA SummaryLineGap ==
  ASSUME NEW k \in Frames, NEW a \in Resting, ~a.two
  PROVE  /\ Rule(k, In(k, a), <<SummaryLine>>, In(k, Roomy(a, 0)))
         /\ Rule(k, In(k, Roomy(a, 0)), <<Gap(600)>>, In(k, Roomy(a, -600)))
<1> DEFINE z == 0
           m == -600
<1>1. z \in Int /\ m \in Int /\ z <= 1200 - 1200 /\ z + 1200 <= 40000 /\ m = z - 600
  OBVIOUS
<1> HIDE DEF z, m
<1>2. Rule(k, In(k, a), <<SummaryLine>>, In(k, Roomy(a, z)))
  BY <1>1, TextRoomy DEF SummaryLine
<1>3. Rule(k, In(k, Roomy(a, z)), <<Gap(600)>>, In(k, Roomy(a, m)))
  BY <1>1, GapTo
<1> QED BY <1>2, <1>3 DEF z, m

\* A command again and again, after which more is known than before.
LEMMA TimesLast ==
  ASSUME NEW k, NEW P, NEW Q, Q \subseteq P, NEW n \in Nat \ {0}, NEW op,
         Rule(k, P, <<op>>, Q)
  PROVE  Rule(k, P, Times(n, op), Q)
<1> DEFINE I == [i \in 0..n |-> IF i = 0 THEN P ELSE Q]
<1>1. op \in Command
  BY RuleOfOne
<1>2. ASSUME NEW i \in 1..n PROVE Rule(k, I[i - 1], <<op>>, I[i])
  <2>1. i - 1 \in 0..n /\ i \in 0..n /\ i # 0
    OBVIOUS
  <2>2. I[i] = Q /\ I[i - 1] \subseteq P
    BY <2>1
  <2> HIDE DEF I
  <2>3. Rule(k, I[i - 1], <<op>>, Q)
    BY <2>2, RuleWeaken
  <2> QED BY <2>2, <2>3
<1>3. I[0] = P /\ I[n] = Q
  OBVIOUS
<1> HIDE DEF I
<1>4. Rule(k, I[0], Times(n, op), I[n])
  BY <1>1, <1>2, RuleAgain
<1> QED BY <1>3, <1>4

-----------------------------------------------------------------------------
(* The first part of invoice_of_summary.                                   *)

\* One line, and the room it leaves.
LEMMA SummaryLineRoomy ==
  ASSUME NEW k \in Frames, NEW a \in Resting, ~a.two, NEW n \in Nat \ {0}
  PROVE  /\ Rule(k, In(k, a), <<SummaryLine>>, In(k, Roomy(a, 0)))
         /\ Rule(k, In(k, a), Times(n, SummaryLine), In(k, Roomy(a, 0)))
<1>1. Rule(k, In(k, a), <<SummaryLine>>, In(k, Roomy(a, 0)))
  BY SummaryLineGap
<1>2. In(k, Roomy(a, 0)) \subseteq In(k, a)
  <2> DEFINE z == 0
  <2>1. z \in Int /\ k \in Frame
    BY FramesAre
  <2> HIDE DEF z
  <2>2. In(k, Roomy(a, z)) \subseteq In(k, a)
    BY <2>1, RoomyIsRest
  <2> QED BY <2>2 DEF z
<1>3. Rule(k, In(k, a), Times(n, SummaryLine), In(k, Roomy(a, 0)))
  <2> DEFINE op == SummaryLine
             P == In(k, a)
             Q == In(k, Roomy(a, 0))
  <2> HIDE DEF op, P, Q
  <2>1. Rule(k, P, <<op>>, Q) /\ Q \subseteq P
    BY <1>1, <1>2 DEF op, P, Q
  <2>2. Rule(k, P, Times(n, op), Q)
    BY <2>1, TimesLast
  <2> QED BY <2>2 DEF op, P, Q
<1> QED BY <1>1, <1>3

LEMMA SummaryOfInvoiceRule ==
  ASSUME NEW k \in Frames, NEW a \in Resting, ~a.two, k.front >= 1200, NEW b \in Bill
  PROVE  Rule(k, In(k, Roomy(a, 0)), SummaryOfInvoice(b), In(k, a))
<1> DEFINE n == (IF b.groups = <<>> THEN 0 ELSE 1) + (IF b.sections = <<>> THEN 0 ELSE 1)
                  + (IF b.disc > 0 THEN b.disc + 1 ELSE 0)
                  + (IF b.adj > 0 THEN 1 ELSE 0)
                  + (IF b.tax > 0 THEN b.tax + 1 ELSE 0)
           z == 0
           y == -1500
           h == 1500
<1>1. n \in Nat
  <2> DEFINE n1 == IF b.groups = <<>> THEN 0 ELSE 1
             n2 == IF b.sections = <<>> THEN 0 ELSE 1
             n3 == IF b.disc > 0 THEN b.disc + 1 ELSE 0
             n4 == IF b.adj > 0 THEN 1 ELSE 0
             n5 == IF b.tax > 0 THEN b.tax + 1 ELSE 0
  <2>1. b.disc \in Nat /\ b.tax \in Nat
    BY BillFacts
  <2>2. n1 \in Nat /\ n2 \in Nat /\ n4 \in Nat
    OBVIOUS
  <2>3. n3 \in Nat
    BY <2>1
  <2>4. n5 \in Nat
    BY <2>1
  <2>5. n = n1 + n2 + n3 + n4 + n5
    OBVIOUS
  <2> HIDE DEF n1, n2, n3, n4, n5, n
  <2> QED BY <2>2, <2>3, <2>4, <2>5
<1>2. SummaryOfInvoice(b) = <<Plain(h)>> \o Times(n, Text(900, 900))
  BY DEF SummaryOfInvoice
<1> HIDE DEF n
<1>3. z \in Int /\ y \in Int /\ h \in Nat \ {0} /\ y = z - h
  OBVIOUS
<1>4. z + k.front >= 0
  BY FramesAre
<1> HIDE DEF h, y, z
<1>5. Rule(k, In(k, Roomy(a, z)), <<Plain(h)>>, In(k, Roomy(a, y)))
  BY <1>3, <1>4, PlainTo
<1>6. In(k, Roomy(a, y)) \subseteq In(k, a)
  BY <1>3, FramesAre, RoomyIsRest
<1>7. Rule(k, In(k, Roomy(a, z)), <<Plain(h)>>, In(k, a))
  BY <1>5, <1>6, RuleWeaken
<1>8. Rule(k, In(k, a), Times(n, Text(900, 900)), In(k, a))
  BY <1>1, TextsRule
<1>9. Rule(k, In(k, Roomy(a, z)), <<Plain(h)>> \o Times(n, Text(900, 900)), In(k, a))
  BY <1>7, <1>8, RuleJoin
<1> QED BY <1>2, <1>9 DEF z

\* The total, and the heading of the charges in detail below it.
LEMMA SummaryTotalRule ==
  ASSUME NEW k \in Frames, NEW a \in Resting, ~a.two, k.front >= 1200
  PROVE  /\ Rule(k, In(k, a), SummaryTotal, In(k, Roomy(a, 200)))
         /\ Rule(k, In(k, Roomy(a, 200)), <<Gap(1400), Plain(1800)>>, In(k, a))
<1> DEFINE x == 200
           y == -1200
           z == -3000
           need == 2400
           drop == 1000
           step == 1200
<1>1. /\ x \in Int /\ y \in Int /\ z \in Int /\ y = x - 1400 /\ z = y - 1800
      /\ need \in Nat /\ drop \in Nat /\ step \in Nat \ {0}
      /\ drop <= 20000 /\ x <= need - drop - step /\ x + drop + step <= 40000
  OBVIOUS
<1>2. drop <= need + k.front /\ y + k.front >= 0
  BY FramesAre
<1> HIDE DEF x, y, z, need, drop, step
<1>3. Rule(k, In(k, a), <<Lowered(need, drop, step)>>, In(k, Roomy(a, x)))
  BY <1>1, <1>2, LoweredRule
<1>4. Rule(k, In(k, Roomy(a, x)), <<Gap(1400)>>, In(k, Roomy(a, y)))
  BY <1>1, GapTo
<1>5. Rule(k, In(k, Roomy(a, y)), <<Plain(1800)>>, In(k, Roomy(a, z)))
  BY <1>1, <1>2, PlainTo
<1>6. In(k, Roomy(a, z)) \subseteq In(k, a)
  BY <1>1, FramesAre, RoomyIsRest
<1>7. Rule(k, In(k, Roomy(a, y)), <<Plain(1800)>>, In(k, a))
  BY <1>5, <1>6, RuleWeaken
<1>8. Rule(k, In(k, Roomy(a, x)), <<Gap(1400), Plain(1800)>>, In(k, a))
  BY <1>4, <1>7, RulePair
<1> QED BY <1>3, <1>8 DEF SummaryTotal, need, drop, step, x

LEMMA SummaryGroupRule ==
  ASSUME NEW k \in Frames, NEW a \in Resting, NEW g \in Group
  PROVE  Rule(k, In(k, a), <<SummaryLine>> \o Each(<<g.own>> \o g.kids,
                                                  LAMBDA n : Times(n + 1, SummaryLine)), In(k, a))
<1> DEFINE ns == <<g.own>> \o g.kids
           block(n) == Times(n + 1, SummaryLine)
           ss == [i \in 1..Len(ns) |-> block(ns[i])]
<1>1. ns \in Seq(Nat)
  <2>1. g.own \in Nat /\ g.kids \in Seq(Nat)
    BY DEF Group
  <2> QED BY <2>1
<1>2. Each(ns, LAMBDA n : Times(n + 1, SummaryLine)) = FlattenSeq(ss)
  BY DEF Each, Join
<1> HIDE DEF ns
<1>3. Len(ns) \in Nat /\ \A i \in 1..Len(ns) : ns[i] \in Nat
  BY <1>1
<1>4. ASSUME NEW n \in Nat PROVE Rule(k, In(k, a), block(n), In(k, a))
  <2>1. n + 1 \in Nat
    OBVIOUS
  <2> QED BY <2>1, SummaryLinesRule
<1> HIDE DEF block
<1>5. ss = [i \in 1..Len(ns) |-> ss[i]] /\ \A i \in 1..Len(ns) : Rule(k, In(k, a), ss[i], In(k, a))
  BY <1>3, <1>4
<1> HIDE DEF ss
<1>6. Rule(k, In(k, a), FlattenSeq(ss), In(k, a))
  BY <1>3, <1>5, RuleEach
<1>7. Rule(k, In(k, a), <<SummaryLine>>, In(k, a))
  BY TextRule DEF SummaryLine
<1>8. Rule(k, In(k, a), <<SummaryLine>> \o FlattenSeq(ss), In(k, a))
  BY <1>6, <1>7, RuleJoin
<1> QED BY <1>2, <1>8 DEF ns

\* The references and their charges.
LEMMA SummaryGroupsRule ==
  ASSUME NEW k \in Frames, NEW a \in Resting, ~a.two, NEW b \in Bill
  PROVE  Rule(k, In(k, a),
              IF b.groups = <<>> THEN <<SummaryLine, Gap(600)>>
              ELSE Each(b.groups, LAMBDA g :
                     <<SummaryLine>> \o Each(<<g.own>> \o g.kids,
                                             LAMBDA n : Times(n + 1, SummaryLine))), In(k, a))
<1> DEFINE gs == b.groups
           block(g) == <<SummaryLine>> \o Each(<<g.own>> \o g.kids,
                                               LAMBDA n : Times(n + 1, SummaryLine))
           ss == [i \in 1..Len(gs) |-> block(gs[i])]
<1>1. gs \in Seq(Group)
  BY BillFacts
<1>2. Each(gs, LAMBDA g : <<SummaryLine>> \o Each(<<g.own>> \o g.kids,
                                                  LAMBDA n : Times(n + 1, SummaryLine)))
        = FlattenSeq(ss)
  BY DEF Each, Join
<1> HIDE DEF gs
<1>3. Len(gs) \in Nat /\ \A i \in 1..Len(gs) : gs[i] \in Group
  BY <1>1
<1>4. ASSUME NEW g \in Group PROVE Rule(k, In(k, a), block(g), In(k, a))
  BY SummaryGroupRule
<1> HIDE DEF block
<1>5. ss = [i \in 1..Len(gs) |-> ss[i]] /\ \A i \in 1..Len(gs) : Rule(k, In(k, a), ss[i], In(k, a))
  BY <1>3, <1>4
<1> HIDE DEF ss
<1>6. Rule(k, In(k, a), FlattenSeq(ss), In(k, a))
  BY <1>3, <1>5, RuleEach
<1>7. Rule(k, In(k, a), <<SummaryLine, Gap(600)>>, In(k, a))
  <2>1. Rule(k, In(k, a), <<SummaryLine>>, In(k, a))
    BY TextRule DEF SummaryLine
  <2>2. Rule(k, In(k, a), <<Gap(600)>>, In(k, a))
    BY GapRule
  <2> QED BY <2>1, <2>2, RulePair
<1>8. IF gs = <<>> THEN Rule(k, In(k, a), <<SummaryLine, Gap(600)>>, In(k, a))
      ELSE Rule(k, In(k, a), FlattenSeq(ss), In(k, a))
  BY <1>6, <1>7
<1> QED BY <1>2, <1>8 DEF gs

\* Between two lists of invoice_of_summary a gap may have gone below the floor.
Sunk(a) == Roomy(a, -600)

LEMMA SunkFacts ==
  ASSUME NEW k \in Frames, NEW a \in Resting
  PROVE  /\ In(k, Sunk(a)) \subseteq In(k, a)
         /\ In(k, Roomy(a, 0)) \subseteq In(k, Sunk(a))
<1> DEFINE x == -600
           z == 0
<1>1. x \in Int /\ z \in Int /\ x <= z /\ k \in Frame
  BY FramesAre
<1> HIDE DEF x, z
<1>2. In(k, Roomy(a, x)) \subseteq In(k, a) /\ In(k, Roomy(a, x)) \subseteq In(k, Roomy(a, z)) \cup In(k, Roomy(a, x))
  BY <1>1, RoomyIsRest
<1>3. In(k, Roomy(a, z)) \subseteq In(k, Roomy(a, x))
  BY <1>1, RoomyLess
<1> QED BY <1>2, <1>3 DEF Sunk, x, z

\* Lists of lines, a title among them.
LEMMA SunkLinesRule ==
  ASSUME NEW k \in Frames, NEW a \in Resting, ~a.two, NEW n \in Nat, NEW cond \in BOOLEAN
  PROVE  Rule(k, In(k, Sunk(a)), When(cond, Times(n + 1, SummaryLine)), In(k, Sunk(a)))
<1>1. CASE cond
  <2>1. n + 1 \in Nat \ {0}
    OBVIOUS
  <2>2. Rule(k, In(k, a), Times(n + 1, SummaryLine), In(k, Roomy(a, 0)))
    BY <2>1, SummaryLineRoomy
  <2>3. Rule(k, In(k, Sunk(a)), Times(n + 1, SummaryLine), In(k, Sunk(a)))
    BY <2>2, SunkFacts, RuleWeaken
  <2> QED BY <1>1, <2>3 DEF When
<1>2. CASE ~cond
  BY <1>2, RuleEmpty DEF When
<1> QED BY <1>1, <1>2

LEMMA SunkLineRule ==
  ASSUME NEW k \in Frames, NEW a \in Resting, ~a.two, NEW cond \in BOOLEAN
  PROVE  Rule(k, In(k, Sunk(a)), When(cond, <<SummaryLine>>), In(k, Sunk(a)))
<1>1. CASE cond
  <2>1. Rule(k, In(k, a), <<SummaryLine>>, In(k, Roomy(a, 0)))
    BY SummaryLineGap
  <2>2. Rule(k, In(k, Sunk(a)), <<SummaryLine>>, In(k, Sunk(a)))
    BY <2>1, SunkFacts, RuleWeaken
  <2> QED BY <1>1, <2>2 DEF When
<1>2. CASE ~cond
  BY <1>2, RuleEmpty DEF When
<1> QED BY <1>1, <1>2

LEMMA SummaryCancelledRule ==
  ASSUME NEW k \in Frames, NEW a \in Resting, ~a.two, NEW b \in Bill
  PROVE  Rule(k, In(k, Sunk(a)), SummaryCancelled(b), In(k, Sunk(a)))
<1>1. b.cancel \in Nat
  BY BillFacts
<1>2. CASE b.cancel > 0
  <2> DEFINE n == b.cancel + 1
  <2>1. n \in Nat \ {0}
    BY <1>1
  <2>2. SummaryCancelled(b) = Times(n, SummaryLine) \o <<Gap(600)>>
    BY <1>2 DEF SummaryCancelled, When
  <2> HIDE DEF n
  <2>3. Rule(k, In(k, a), Times(n, SummaryLine), In(k, Roomy(a, 0)))
    BY <2>1, SummaryLineRoomy
  <2>4. Rule(k, In(k, Roomy(a, 0)), <<Gap(600)>>, In(k, Sunk(a)))
    BY SummaryLineGap DEF Sunk
  <2>5. Rule(k, In(k, a), Times(n, SummaryLine) \o <<Gap(600)>>, In(k, Sunk(a)))
    BY <2>3, <2>4, RuleJoin
  <2> QED BY <2>2, <2>5, SunkFacts, RuleWeaken
<1>3. CASE ~(b.cancel > 0)
  BY <1>3, RuleEmpty DEF SummaryCancelled, When
<1> QED BY <1>2, <1>3

\* The total of the payments leaves 6 points too few.
LEMMA SummaryPaymentsRule ==
  ASSUME NEW k \in Frames, NEW a \in Resting, ~a.two, NEW b \in Bill
  PROVE  Rule(k, In(k, Sunk(a)), SummaryPayments(b), In(k, Sunk(a)))
<1>1. b.pay \in Nat
  BY BillFacts
<1>2. CASE b.pay > 0
  <2> DEFINE n == b.pay
             need == 1200 * (n + 3)
             y == need - 1200
             x == -600
  <2>1. n \in Nat \ {0} /\ need \in Nat /\ y \in Int /\ y >= 1200 /\ y = need - 1200
        /\ x \in Int /\ x <= 1200 - 1800 /\ x + 1800 <= 40000
    BY <1>1, <1>2
  <2>2. SummaryPayments(b) = <<Heading(need, 1200)>> \o Times(n, Text(1200, 1200)) \o <<Text(1200, 1800)>>
    BY <1>2 DEF SummaryPayments, When, SummaryLine
  <2> HIDE DEF n, need, y, x
  <2>3. Rule(k, In(k, a), <<Heading(need, 1200)>>, In(k, Pending(a, y)))
    BY <2>1, HeadingTo
  <2>4. Rule(k, In(k, Pending(a, y)), Times(n, Text(1200, 1200)), In(k, a))
    BY <2>1, TextsPending
  <2>5. Rule(k, In(k, a), <<Text(1200, 1800)>>, In(k, Roomy(a, x)))
    BY <2>1, TextRoomy
  <2>6. Rule(k, In(k, a), <<Heading(need, 1200)>> \o Times(n, Text(1200, 1200)), In(k, a))
    BY <2>3, <2>4, RuleJoin
  <2>7. Rule(k, In(k, a), <<Heading(need, 1200)>> \o Times(n, Text(1200, 1200)) \o <<Text(1200, 1800)>>,
             In(k, Sunk(a)))
    BY <2>5, <2>6, RuleJoin DEF Sunk, x
  <2> QED BY <2>2, <2>7, SunkFacts, RuleWeaken
<1>3. CASE ~(b.pay > 0)
  BY <1>3, RuleEmpty DEF SummaryPayments, When
<1> QED BY <1>2, <1>3

LEMMA SummaryTaxesRule ==
  ASSUME NEW k \in Frames, NEW a \in Resting, ~a.two, NEW b \in Bill
  PROVE  Rule(k, In(k, a), SummaryTaxes(b), In(k, Sunk(a)))
<1> DEFINE x == 600
           z == 0
<1>1. x \in Int /\ z \in Int /\ x <= 1800 - 1200 /\ x + 1200 <= 40000 /\ z = x - 600
  OBVIOUS
<1> HIDE DEF x, z
<1>2. Rule(k, In(k, a), <<Gap(360)>>, In(k, a))
  BY GapRule
<1>3. Rule(k, In(k, a), <<Text(1800, 1200)>>, In(k, Roomy(a, x)))
  BY <1>1, TextRoomy
<1>4. Rule(k, In(k, Roomy(a, x)), <<Gap(600)>>, In(k, Roomy(a, z)))
  BY <1>1, GapTo
<1>5. Rule(k, In(k, a), <<Gap(360), Text(1800, 1200), Gap(600)>>, In(k, Roomy(a, z)))
  BY <1>2, <1>3, <1>4, RuleTriple
<1>6. Rule(k, In(k, a), <<Gap(360), Text(1800, 1200), Gap(600)>>, In(k, Sunk(a)))
  BY <1>5, SunkFacts, RuleWeaken DEF z
<1>7. Rule(k, In(k, a), When(b.tax > 0, Times(b.tax + 1, SummaryLine)), In(k, a))
  <2>1. b.tax \in Nat /\ b.tax + 1 \in Nat
    BY BillFacts
  <2>2. CASE b.tax > 0
    BY <2>1, <2>2, SummaryLinesRule DEF When
  <2>3. CASE ~(b.tax > 0)
    BY <2>3, RuleEmpty DEF When
  <2> QED BY <2>2, <2>3
<1>8. Rule(k, In(k, a), When(b.tax > 0, Times(b.tax + 1, SummaryLine))
                          \o <<Gap(360), Text(1800, 1200), Gap(600)>>, In(k, Sunk(a)))
  BY <1>6, <1>7, RuleJoin
<1> QED BY <1>8 DEF SummaryTaxes

LEMMA SummaryMessagesRule ==
  ASSUME NEW k \in Frames, NEW a \in Resting, ~a.two, NEW b \in Bill
  PROVE  Rule(k, In(k, Sunk(a)), SummaryMessages(b), In(k, Sunk(a)))
<1>1. b.msgs \in Nat /\ b.susp \in BOOLEAN
  BY BillFacts
<1>2. Rule(k, In(k, Sunk(a)), When(b.msgs > 0, Times(b.msgs + 1, SummaryLine)), In(k, Sunk(a)))
  <2> DEFINE n == b.msgs
             cond == b.msgs > 0
  <2>1. n \in Nat /\ cond \in BOOLEAN
    BY <1>1
  <2> HIDE DEF n, cond
  <2>2. Rule(k, In(k, Sunk(a)), When(cond, Times(n + 1, SummaryLine)), In(k, Sunk(a)))
    BY <2>1, SunkLinesRule
  <2> QED BY <2>2 DEF n, cond
<1>3. Rule(k, In(k, Sunk(a)), When(b.susp, <<SummaryLine>>), In(k, Sunk(a)))
  BY <1>1, SunkLineRule
<1>4. Rule(k, In(k, Sunk(a)), When(b.msgs > 0, Times(b.msgs + 1, SummaryLine))
                                \o When(b.susp, <<SummaryLine>>), In(k, Sunk(a)))
  BY <1>2, <1>3, RuleJoin
<1> QED BY <1>4 DEF SummaryMessages

LEMMA SummaryListsRule ==
  ASSUME NEW k \in Frames, NEW a \in Resting, NEW b \in Bill
  PROVE  Rule(k, In(k, a), SummaryAdjustments(b), In(k, a))
         /\ Rule(k, In(k, a), SummaryDiscounts(b), In(k, a))
<1>1. b.adj \in Nat /\ b.disc \in Nat /\ b.adj + 2 \in Nat /\ b.disc + 1 \in Nat
  BY BillFacts
<1>2. Rule(k, In(k, a), <<>>, In(k, a))
  BY RuleEmpty
<1>3. Rule(k, In(k, a), SummaryAdjustments(b), In(k, a))
  BY <1>1, <1>2, SummaryLinesRule DEF SummaryAdjustments, When
<1>4. Rule(k, In(k, a), SummaryDiscounts(b), In(k, a))
  BY <1>1, <1>2, SummaryLinesRule DEF SummaryDiscounts, When
<1> QED BY <1>3, <1>4

LEMMA SummaryChargesRule ==
  ASSUME NEW k \in Frames, NEW a \in Resting, ~a.two, k.front >= 1200, NEW b \in Bill
  PROVE  Rule(k, In(k, Roomy(a, 200)), SummaryCharges(b), In(k, a))
<1> DEFINE G == <<Gap(1400), Plain(1800)>>
           H == IF b.groups = <<>> THEN <<SummaryLine, Gap(600)>>
                ELSE Each(b.groups, LAMBDA g :
                       <<SummaryLine>> \o Each(<<g.own>> \o g.kids,
                                               LAMBDA n : Times(n + 1, SummaryLine)))
           P == In(k, Roomy(a, 200))
           R == In(k, a)
<1>1. Rule(k, P, G, R)
  BY SummaryTotalRule
<1>2. Rule(k, R, H, R)
  <2> HIDE DEF G, P
  <2> QED BY ZenonT(30), SummaryGroupsRule DEF H, R
<1>3. SummaryCharges(b) = G \o H
  <2> HIDE DEF P, R
  <2> QED BY ZenonT(30) DEF SummaryCharges, G, H
<1> HIDE DEF G, H, P, R
<1>4. Rule(k, P, G \o H, R)
  BY <1>1, <1>2, RuleJoin
<1> QED BY <1>3, <1>4 DEF P, R

LEMMA SummaryTopRule ==
  ASSUME NEW k \in Frames, NEW a \in Resting, ~a.two, k.front >= 1200, NEW b \in Bill
  PROVE  Rule(k, In(k, Roomy(a, 0)), SummaryPage(b)[1].ops, In(k, Sunk(a)))
<1> DEFINE A1 == SummaryOfInvoice(b)
           A2 == SummaryTotal
           A3 == SummaryCharges(b)
           A4 == SummaryAdjustments(b)
           A5 == SummaryDiscounts(b)
           A6 == SummaryTaxes(b)
           A7 == SummaryPayments(b)
           A8 == SummaryCancelled(b)
           A9 == SummaryMessages(b)
           P == In(k, Roomy(a, 0))
           R == In(k, a)
           S == In(k, Roomy(a, 200))
           Q == In(k, Sunk(a))
<1>1. Rule(k, P, A1, R)
  BY SummaryOfInvoiceRule
<1>2. Rule(k, R, A2, S)
  BY SummaryTotalRule
<1>3. Rule(k, S, A3, R)
  BY SummaryChargesRule
<1>4. Rule(k, R, A4, R) /\ Rule(k, R, A5, R)
  BY SummaryListsRule
<1>5. Rule(k, R, A6, Q)
  BY SummaryTaxesRule
<1>6. Rule(k, Q, A7, Q)
  BY SummaryPaymentsRule
<1>7. Rule(k, Q, A8, Q)
  BY SummaryCancelledRule
<1>8. Rule(k, Q, A9, Q)
  BY SummaryMessagesRule
<1>9. SummaryPage(b)[1].ops = A1 \o A2 \o A3 \o A4 \o A5 \o A6 \o A7 \o A8 \o A9
  <2> DEFINE ops == A1 \o A2 \o A3 \o A4 \o A5 \o A6 \o A7 \o A8 \o A9
  <2>1. SummaryPage(b) = <<SummaryTop(ops, b), SummaryUsage(b)>>
    BY DEF SummaryPage
  <2> HIDE DEF ops
  <2>2. SummaryPage(b)[1] = SummaryTop(ops, b)
    BY <2>1
  <2>3. SummaryPage(b)[1].ops = ops
    BY <2>2 DEF SummaryTop, Part
  <2> QED BY <2>3 DEF ops
<1> HIDE DEF A1, A2, A3, A4, A5, A6, A7, A8, A9, P, R, Q, S
<1>10. Rule(k, P, A1 \o A2, S)
  BY <1>1, <1>2, RuleJoin
<1>11. Rule(k, P, A1 \o A2 \o A3, R)
  BY <1>10, <1>3, RuleJoin
<1>13. Rule(k, P, A1 \o A2 \o A3 \o A4, R)
  BY <1>11, <1>4, RuleJoin
<1>14. Rule(k, P, A1 \o A2 \o A3 \o A4 \o A5, R)
  BY <1>13, <1>4, RuleJoin
<1>15. Rule(k, P, A1 \o A2 \o A3 \o A4 \o A5 \o A6, Q)
  BY <1>14, <1>5, RuleJoin
<1>16. Rule(k, P, A1 \o A2 \o A3 \o A4 \o A5 \o A6 \o A7, Q)
  BY <1>15, <1>6, RuleJoin
<1>17. Rule(k, P, A1 \o A2 \o A3 \o A4 \o A5 \o A6 \o A7 \o A8, Q)
  BY <1>16, <1>7, RuleJoin
<1>18. Rule(k, P, A1 \o A2 \o A3 \o A4 \o A5 \o A6 \o A7 \o A8 \o A9, Q)
  BY <1>17, <1>8, RuleJoin
<1> QED BY <1>9, <1>18 DEF P, Q

-----------------------------------------------------------------------------
(***************************************************************************)
(* nonvat_home: the first table of the first section is previewed beside   *)
(* the payments, or on a page of its own.                                  *)
(***************************************************************************)

\* A sum, and what is left of it after the first number.
LEMMA AddedHead ==
  ASSUME NEW ns \in Seq(Nat), ns # <<>>
  PROVE  /\ Tail(ns) \in Seq(Nat) /\ ns[1] \in Nat
         /\ Added(ns) = ns[1] + Added(Tail(ns))
<1> DEFINE ms == Tail(ns)
           n == Len(ms)
<1>1. ms \in Seq(Nat) /\ n \in Nat /\ Len(ns) = n + 1 /\ ns[1] \in Nat
      /\ \A i \in 1..n : ms[i] = ns[i + 1] /\ ms[i] \in Nat /\ i + 1 \in 1..Len(ns)
  OBVIOUS
<1> HIDE DEF ms, n
<1>2. PICK g \in [0..Len(ns) -> Nat] : Sums(ns, g) /\ Added(ns) = g[Len(ns)]
  BY AddedIs
<1>3. PICK h \in [0..Len(ms) -> Nat] : Sums(ms, h) /\ Added(ms) = h[Len(ms)]
  BY <1>1, AddedIs
<1>4. Len(ms) = n
  BY DEF n
<1>5. g[0] = 0 /\ \A i \in 0..n : g[i + 1] = g[i] + ns[i + 1] /\ g[i] \in Nat
  <2>1. g[0] = 0 /\ \A i \in 1..Len(ns) : g[i] = g[i - 1] + ns[i]
    BY <1>2 DEF Sums
  <2>2. ASSUME NEW i \in 0..n PROVE g[i + 1] = g[i] + ns[i + 1] /\ g[i] \in Nat
    <3> DEFINE j == i + 1
    <3>1. j \in 1..Len(ns) /\ j - 1 = i /\ i \in 0..Len(ns)
      BY <1>1
    <3>2. g[j] = g[j - 1] + ns[j]
      BY <2>1, <3>1
    <3> QED BY <3>1, <3>2
  <2> QED BY <2>1, <2>2
<1>6. h[0] = 0 /\ \A i \in 1..n : h[i] = h[i - 1] + ms[i]
  BY <1>3, <1>4 DEF Sums
<1>7. \A i \in 0..n : h[i] \in Nat
  BY <1>4
<1> DEFINE S == {i \in Nat : i \in 0..n => g[i + 1] = ns[1] + h[i]}
<1>8. 0 \in S
  <2>1. g[0 + 1] = g[0] + ns[0 + 1]
    BY <1>1, <1>5
  <2> QED BY <1>1, <1>5, <1>6, <2>1
<1>9. ASSUME NEW i \in Nat \ {0}, i - 1 \in S PROVE i \in S
  <2> SUFFICES ASSUME i \in 0..n PROVE g[i + 1] = ns[1] + h[i]
    OBVIOUS
  <2>1. i \in 1..n /\ i - 1 \in 0..n
    BY <1>1
  <2>2. g[(i - 1) + 1] = ns[1] + h[i - 1]
    BY <1>9, <2>1
  <2>3. g[i + 1] = g[i] + ns[i + 1] /\ g[i] \in Nat
    BY <1>5
  <2>4. h[i] = h[i - 1] + ms[i] /\ ms[i] = ns[i + 1] /\ ms[i] \in Nat
    BY <1>1, <1>6, <2>1
  <2>5. h[i - 1] \in Nat /\ (i - 1) + 1 = i
    BY <1>7, <2>1
  <2>6. g[i] = ns[1] + h[i - 1]
    BY <2>2, <2>5
  <2>7. h[i] = h[i - 1] + ns[i + 1] /\ ns[i + 1] \in Nat
    BY <2>4
  <2>8. g[i + 1] = (ns[1] + h[i - 1]) + ns[i + 1]
    BY <2>3, <2>6
  <2>9. ns[1] \in Nat
    BY <1>1
  <2> QED BY <2>5, <2>7, <2>8, <2>9
<1>10. Nat \subseteq S
  <2> HIDE DEF S
  <2> QED BY <1>8, <1>9, Upward
<1>11. g[n + 1] = ns[1] + h[n]
  BY <1>1, <1>10
<1> QED BY <1>1, <1>2, <1>3, <1>4, <1>11 DEF ms

LEMMA RowsHead ==
  ASSUME NEW s \in Seq(UsageTable), s # <<>>
  PROVE  /\ s[1] \in UsageTable /\ Tail(s) \in Seq(UsageTable)
         /\ Rows(s) = s[1].rows + Rows(Tail(s))
<1>1. s[1] \in UsageTable /\ Tail(s) \in Seq(UsageTable) /\ Len(s) \in Nat \ {0}
      /\ Len(Tail(s)) = Len(s) - 1 /\ \A i \in 1..Len(s) - 1 : Tail(s)[i] = s[i + 1]
  OBVIOUS
<1>2. RowsOf(s) \in Seq(Nat) /\ Len(RowsOf(s)) = Len(s) /\ Rows(s) = Added(RowsOf(s))
      /\ RowsOf(s)[1] = s[1].rows
  BY <1>1, RowsNat
<1>3. Rows(Tail(s)) = Added(RowsOf(Tail(s)))
  BY <1>1, RowsNat
<1>4. RowsOf(Tail(s)) = Tail(RowsOf(s))
  <2> DEFINE p == RowsOf(Tail(s))
             r == RowsOf(s)
  <2>1. p \in Seq(Nat) /\ Len(p) = Len(s) - 1
    BY <1>1, RowsNat
  <2>2. r \in Seq(Nat) /\ Len(r) = Len(s) /\ r # <<>>
    BY <1>1, <1>2
  <2>3. \A i \in 1..Len(s) - 1 : p[i] = r[i + 1]
    <3>1. \A i \in 1..Len(s) - 1 : p[i] = s[i + 1].rows
      BY <1>1 DEF RowsOf
    <3>2. \A i \in 1..Len(s) - 1 : r[i + 1] = s[i + 1].rows
      BY <1>1 DEF RowsOf
    <3> QED BY <3>1, <3>2
  <2> HIDE DEF p, r
  <2>4. Tail(r) \in Seq(Nat) /\ Len(Tail(r)) = Len(s) - 1
        /\ \A i \in 1..Len(s) - 1 : Tail(r)[i] = r[i + 1]
    BY <1>1, <2>2
  <2>5. p = Tail(r)
    BY <2>1, <2>3, <2>4, SeqEqual
  <2> QED BY <2>5 DEF p, r
<1>5. RowsOf(s) # <<>>
  BY <1>1, <1>2
<1>6. Added(RowsOf(s)) = RowsOf(s)[1] + Added(Tail(RowsOf(s)))
  BY <1>2, <1>5, AddedHead
<1> QED BY <1>1, <1>2, <1>3, <1>4, <1>6

LEMMA ShownHead ==
  ASSUME NEW ss \in Sections, ss # <<>>
  PROVE  /\ ss[1] \in Seq(UsageTable) /\ ss[1] # <<>> /\ Tail(ss) \in Sections
         /\ Shown(ss) = Rows(ss[1]) + Shown(Tail(ss))
<1>1. /\ ss[1] \in Seq(UsageTable) \ {<<>>} /\ Tail(ss) \in Sections /\ Len(ss) \in Nat \ {0}
      /\ Len(Tail(ss)) = Len(ss) - 1 /\ \A i \in 1..Len(ss) - 1 : Tail(ss)[i] = ss[i + 1]
  BY DEF Sections
<1>2. SectionRows(ss) \in Seq(Nat) /\ Len(SectionRows(ss)) = Len(ss)
      /\ Shown(ss) = Added(SectionRows(ss)) /\ SectionRows(ss)[1] = Rows(ss[1])
  BY <1>1, ShownNat
<1>3. Shown(Tail(ss)) = Added(SectionRows(Tail(ss)))
  BY <1>1, ShownNat
<1>4. SectionRows(Tail(ss)) = Tail(SectionRows(ss))
  <2> DEFINE p == SectionRows(Tail(ss))
             r == SectionRows(ss)
  <2>1. p \in Seq(Nat) /\ Len(p) = Len(ss) - 1
    BY <1>1, ShownNat
  <2>2. r \in Seq(Nat) /\ Len(r) = Len(ss) /\ r # <<>>
    BY <1>1, <1>2
  <2>3. \A i \in 1..Len(ss) - 1 : p[i] = r[i + 1]
    <3>1. \A i \in 1..Len(ss) - 1 : p[i] = Rows(ss[i + 1])
      BY <1>1 DEF SectionRows
    <3>2. \A i \in 1..Len(ss) - 1 : r[i + 1] = Rows(ss[i + 1])
      BY <1>1 DEF SectionRows
    <3> QED BY <3>1, <3>2
  <2> HIDE DEF p, r
  <2>4. Tail(r) \in Seq(Nat) /\ Len(Tail(r)) = Len(ss) - 1
        /\ \A i \in 1..Len(ss) - 1 : Tail(r)[i] = r[i + 1]
    BY <1>1, <2>2
  <2>5. p = Tail(r)
    BY <2>1, <2>3, <2>4, SeqEqual
  <2> QED BY <2>5 DEF p, r
<1>5. SectionRows(ss) # <<>>
  BY <1>1, <1>2
<1>6. Added(SectionRows(ss)) = SectionRows(ss)[1] + Added(Tail(SectionRows(ss)))
  BY <1>2, <1>5, AddedHead
<1> QED BY <1>1, <1>2, <1>3, <1>4, <1>6

(* nonvat_home.                                                            *)

\* The preview of a table begins with two or three lines drawn without asking.
LEMMA PreviewTopRule ==
  ASSUME NEW k \in Frames, NEW a \in Resting, NEW cond \in BOOLEAN, NEW x \in Int,
         k.strict => x >= 2340 \/ (a.later /\ x + k.back >= 2340)
  PROVE  Rule(k, In(k, Roomy(a, x)), <<Plain(1260)>> \o When(cond, <<Plain(1080)>>) \o <<Plain(1350)>>,
              In(k, a))
<1> DEFINE y == x - 1260
           z == IF cond THEN y - 1080 ELSE y
           w == z - 1350
           label == When(cond, <<Plain(1080)>>)
<1>0. k.front \in Nat /\ k.back \in Nat
  BY FramesAre
<1>1. y \in Int /\ z \in Int /\ w \in Int /\ y = x - 1260 /\ w = z - 1350
  OBVIOUS
<1>2. k.strict => x + k.front >= 0 \/ (a.later /\ x + k.back >= 0)
  BY <1>0
<1>3. k.strict => y + k.front >= 0 \/ (a.later /\ y + k.back >= 0)
  BY <1>0
<1>4. k.strict => z + k.front >= 0 \/ (a.later /\ z + k.back >= 0)
  BY <1>0
<1>5. Rule(k, In(k, Roomy(a, y)), label, In(k, Roomy(a, z)))
  <2>1. CASE cond
    <3> DEFINE u == y - 1080
    <3>1. z = u /\ u \in Int /\ u = y - 1080
      BY <2>1
    <3> HIDE DEF u, z, y
    <3>2. Rule(k, In(k, Roomy(a, y)), <<Plain(1080)>>, In(k, Roomy(a, u)))
      BY <1>1, <1>3, <3>1, PlainTo
    <3> QED BY <2>1, <3>1, <3>2 DEF When
  <2>2. CASE ~cond
    BY <2>2, RuleEmpty DEF When
  <2> QED BY <2>1, <2>2
<1> HIDE DEF y, z, w, label
<1>6. Rule(k, In(k, Roomy(a, x)), <<Plain(1260)>>, In(k, Roomy(a, y)))
  BY <1>1, <1>2, PlainTo
<1>7. Rule(k, In(k, Roomy(a, z)), <<Plain(1350)>>, In(k, Roomy(a, w)))
  BY <1>1, <1>4, PlainTo
<1>8. In(k, Roomy(a, w)) \subseteq In(k, a)
  BY <1>1, FramesAre, RoomyIsRest
<1>9. Rule(k, In(k, Roomy(a, z)), <<Plain(1350)>>, In(k, a))
  BY <1>7, <1>8, RuleWeaken
<1>10. Rule(k, In(k, Roomy(a, x)), <<Plain(1260)>> \o label, In(k, Roomy(a, z)))
  BY <1>5, <1>6, RuleJoin
<1>11. Rule(k, In(k, Roomy(a, x)), <<Plain(1260)>> \o label \o <<Plain(1350)>>, In(k, a))
  BY <1>9, <1>10, RuleJoin
<1> QED BY <1>11 DEF label

\* A page is started when the flow is still on the first of its columns.
LEMMA OffRule ==
  ASSUME NEW k \in Frames, NEW a \in Resting, NEW cond \in BOOLEAN
  PROVE  Rule(k, In(k, a), When(cond, <<OffFirstPage>>), In(k, a))
<1> DEFINE op == OffFirstPage
<1>1. a \in Facts /\ a.free /\ ~a.known
  BY RestingFacts
<1>2. op \in Command /\ op.act = "off" /\ op.step = 0 /\ ~op.row
  BY OffFirstPageIs DEF Is
<1> HIDE DEF op
<1>3. OffFits(k, a, op, a)
  BY <1>1, <1>2 DEF OffFits
<1>4. Rule(k, In(k, a), <<op>>, In(k, a))
  BY <1>1, <1>2, <1>3, FramesAre, RuleOff
<1>5. CASE cond
  BY <1>4, <1>5 DEF When, op
<1>6. CASE ~cond
  BY <1>6, RuleEmpty DEF When
<1> QED BY <1>5, <1>6

LEMMA FirstTableRule ==
  ASSUME NEW k \in Frames, NEW a \in Resting, NEW t \in UsageTable, NEW more \in BOOLEAN
  PROVE  Rule(k, In(k, a), FirstTable(t, more), In(k, Counted(a, t.rows)))
<1> DEFINE m == Previewed(t)
           n == t.rows - m
           c == Counted(a, m)
           d == Counted(a, t.rows)
           A1 == Times(m, TableRow(900, 900))
           A2 == When(more, <<OffFirstPage>>)
           A3 == Times(n, TableRow(900, 900))
           A4 == <<Text(1350, 1350)>>
<1>1. t.rows \in Nat
  BY DEF UsageTable
<1>2. m \in Nat /\ n \in Nat /\ m + n = t.rows
  BY <1>1 DEF Previewed, PreviewRows
<1>3. FirstTable(t, more) = A1 \o A2 \o A3 \o A4
  BY DEF FirstTable
<1> HIDE DEF m, n
<1>4. c \in Resting /\ d \in Resting /\ Counted(c, n) = d
  <2>1. a \in Facts
    BY RestingFacts
  <2>2. Counted(Counted(a, m), n) = Counted(a, m + n)
    BY <1>2, <2>1, CountedTwice
  <2> QED BY <1>1, <1>2, <2>2, CountedResting
<1>5. Rule(k, In(k, a), A1, In(k, c))
  BY <1>2, RowsRule
<1> HIDE DEF c
<1>6. Rule(k, In(k, c), A2, In(k, c))
  BY <1>4, OffRule
<1>7. Rule(k, In(k, c), A3, In(k, Counted(c, n)))
  BY <1>2, <1>4, RowsRule
<1> HIDE DEF d
<1>8. Rule(k, In(k, d), A4, In(k, d))
  BY <1>4, TextRule
<1> HIDE DEF A1, A2, A3, A4
<1>9. Rule(k, In(k, a), A1 \o A2, In(k, c))
  BY <1>5, <1>6, RuleJoin
<1>10. Rule(k, In(k, a), A1 \o A2 \o A3, In(k, d))
  BY <1>4, <1>7, <1>9, RuleJoin
<1>11. Rule(k, In(k, a), A1 \o A2 \o A3 \o A4, In(k, d))
  BY <1>8, <1>10, RuleJoin
<1> QED BY <1>3, <1>11 DEF d

LEMMA PreviewRule ==
  ASSUME NEW k \in Frames, NEW a \in Resting, NEW x \in Int,
         k.strict => x >= 2340 \/ (a.later /\ x + k.back >= 2340),
         NEW s \in Sections, s # <<>>
  PROVE  Rule(k, In(k, Roomy(a, x)), NonvatHomePreview(s), In(k, Counted(a, Shown(s))))
<1> DEFINE tables == s[1]
           t == tables[1]
           more == t.rows > PreviewRows \/ Len(s[1]) > 1 \/ Len(s) > 1
           c == Counted(a, t.rows)
           rest == Tail(tables)
           n == Rows(rest)
           d == Counted(c, n)
           m == Shown(Tail(s))
           e == Counted(d, m)
           A1 == <<Plain(1260)>> \o When(t.label, <<Plain(1080)>>) \o <<Plain(1350)>>
           A2 == FirstTable(t, more)
           A3 == Each(rest, ColumnTable)
           A4 == <<Text(2250, 2250)>>
           A5 == Each(Tail(s), ColumnSection)
<1>1. tables \in Seq(UsageTable) /\ tables # <<>> /\ Tail(s) \in Sections
      /\ Shown(s) = Rows(tables) + m
  BY ShownHead
<1> HIDE DEF tables
<1>2. t \in UsageTable /\ rest \in Seq(UsageTable) /\ Rows(tables) = t.rows + n
  BY <1>1, RowsHead
<1>3. t.rows \in Nat /\ t.label \in BOOLEAN
  BY <1>2 DEF UsageTable
<1>5. NonvatHomePreview(s) = A1 \o A2 \o A3 \o A4 \o A5
  BY DEF NonvatHomePreview, tables
<1> HIDE DEF rest
<1>4. n \in Nat /\ m \in Nat
  <2>1. n \in Nat
    BY <1>2, RowsNat
  <2>2. m \in Nat
    BY <1>1, ShownNat
  <2> QED BY <2>1, <2>2
<1>6. more \in BOOLEAN
  OBVIOUS
<1> HIDE DEF t, more, n, m
<1>7. c \in Resting
  BY <1>3, CountedResting
<1>8. d \in Resting
  BY <1>4, <1>7, CountedResting
<1>9. e = Counted(a, Shown(s))
  <2> DEFINE p == t.rows
             q == p + n
  <2>1. a \in Facts /\ p \in Nat /\ q \in Nat
    BY <1>3, <1>4, RestingFacts
  <2>2. d = Counted(Counted(a, p), n) /\ e = Counted(d, m)
    OBVIOUS
  <2>3. Shown(s) = q + m
    BY <1>1, <1>2
  <2> HIDE DEF p, d, e
  <2>4. d = Counted(a, q)
    BY <1>4, <2>1, <2>2, CountedTwice
  <2> HIDE DEF q
  <2>5. e = Counted(a, q + m)
    BY <1>4, <2>1, <2>2, <2>4, CountedTwice
  <2> QED BY <2>3, <2>5
<1>10. Rule(k, In(k, Roomy(a, x)), A1, In(k, a))
  BY <1>3, PreviewTopRule
<1>11. Rule(k, In(k, a), A2, In(k, c))
  BY <1>2, <1>6, FirstTableRule
<1> HIDE DEF c
<1> DEFINE z == 2790
<1>12. z \in Int /\ z >= 2250 /\ k \in Frame
  BY FramesAre
<1>13. Rule(k, In(k, Pending(c, z)), A3, In(k, Pending(d, z)))
  BY <1>2, <1>7, ColumnTablesRule DEF n
<1> HIDE DEF d, z
<1>14. In(k, c) \subseteq In(k, Pending(c, z))
  BY <1>7, <1>12, RestIsPending
<1>15. Rule(k, In(k, c), A3, In(k, Pending(d, z)))
  BY <1>13, <1>14, RuleWeaken
<1>16. Rule(k, In(k, Pending(d, z)), A4, In(k, d))
  BY <1>8, <1>12, TextRule
<1>17. Rule(k, In(k, d), A5, In(k, e))
  BY <1>1, <1>8, ColumnSectionsRule DEF m
<1> HIDE DEF A1, A2, A3, A4, A5, e
<1>18. Rule(k, In(k, Roomy(a, x)), A1 \o A2, In(k, c))
  BY <1>10, <1>11, RuleJoin
<1>19. Rule(k, In(k, Roomy(a, x)), A1 \o A2 \o A3, In(k, Pending(d, z)))
  BY <1>15, <1>18, RuleJoin
<1>20. Rule(k, In(k, Roomy(a, x)), A1 \o A2 \o A3 \o A4, In(k, d))
  BY <1>16, <1>19, RuleJoin
<1>21. Rule(k, In(k, Roomy(a, x)), A1 \o A2 \o A3 \o A4 \o A5, In(k, e))
  BY <1>17, <1>20, RuleJoin
<1> QED BY <1>5, <1>9, <1>21

\* What is seen of a spot.
LEMMA EnterRoomy ==
  ASSUME NEW k \in Frame, NEW a \in Resting, NEW s \in In(k, a), NEW x \in Int,
         s.cursor.y - x >= Floor(k, s.cursor.page)
  PROVE  s \in In(k, Roomy(a, x))
<1>1. Holds(k, a, s) /\ s \in Spot
  BY SpotIn
<1>2. /\ a.free /\ Roomy(a, x).free /\ Roomy(a, x).known
      /\ ~Roomy(a, x).off /\ Roomy(a, x).room = x /\ Roomy(a, x).rows = a.rows
      /\ Roomy(a, x).two = a.two /\ Roomy(a, x).later = a.later
  BY RoomyFacts, RestingFacts
<1>3. Holds(k, Roomy(a, x), s)
  BY <1>1, <1>2 DEF Holds
<1> QED BY <1>1, <1>3 DEF In

LEMMA EnterLater ==
  ASSUME NEW k \in Frame, NEW a \in Resting, NEW s \in In(k, a), s.cursor.page > 1
  PROVE  s \in In(k, Later(a))
<1>1. Holds(k, a, s) /\ s \in Spot
  BY SpotIn
<1>2. /\ a.free /\ ~a.known /\ Later(a).free /\ ~Later(a).known /\ Later(a).rows = a.rows
      /\ Later(a).two = a.two
  BY LaterFacts, RestingFacts
<1>3. Holds(k, Later(a), s)
  BY <1>1, <1>2 DEF Holds
<1> QED BY <1>1, <1>3 DEF In

\* The flow goes to the second of the columns it has just started.
LEMMA RightColumnStep ==
  ASSUME NEW k \in Frames, NEW a \in Resting, a.two, NEW s \in In(k, a),
         s.cursor.col = 1, s.cursor.page = s.cursor.first
  PROVE  /\ Good(k, s, RightColumn) /\ Step(k, s, RightColumn) \in In(k, a)
         /\ Step(k, s, RightColumn).cursor = NextColumn(s.cursor, k)
<1> DEFINE op == RightColumn
           c == s.cursor
           e == NextColumn(c, k)
<1>1. op \in Command /\ op.act = "right" /\ op.step = 0 /\ ~op.row
  BY RightColumnIs DEF Is
<1>2. s.cursor \in Cursor /\ s.line \in Line /\ Holds(k, a, s)
  BY SpotIn
<1>3. k \in Frame /\ a \in Facts /\ a.free /\ ~a.known
  BY FramesAre, RestingFacts
<1>4. e \in Cursor /\ e.page = c.page /\ e.col = 2 /\ e.two = c.two /\ e.first = c.first
      /\ e.colTop = c.colTop
  BY <1>2, <1>3, ColumnCursor
<1>5. Placed(c, k, op) = e
  BY <1>1 DEF Placed
<1> HIDE DEF op, e
<1>6. After(c, k, op) = e
  BY <1>1, <1>4, <1>5, StillCursor
<1>7. s.line.page = 0 \/ Follows(s.line, e)
  <2>1. s.line.page = 0 \/ Follows(s.line, c)
    BY <1>2 DEF Holds
  <2>2. s.line.page \in Nat /\ s.line.col \in {1, 2} /\ c.page \in Nat
    BY <1>2 DEF Line, Cursor
  <2> QED BY <1>4, <2>1, <2>2 DEF Follows
<1>8. e.two = a.two /\ (e.two \/ e.col = 1) /\ e.first <= e.page
  BY <1>2, <1>4 DEF Holds
<1>9. a.two => e.colTop - k.deck >= Floor(k, e.first)
  BY <1>2, <1>4 DEF Holds
<1>10. a.later => e.page > 1
  BY <1>2, <1>4 DEF Holds
<1>11. Good(k, s, op) /\ Step(k, s, op) \in In(k, a)
  BY <1>1, <1>2, <1>3, <1>4, <1>6, <1>7, <1>8, <1>9, <1>10, StepOfMove
<1>12. Step(k, s, op).cursor = e
  BY <1>6 DEF Step
<1> QED BY <1>11, <1>12 DEF op, e

LEMMA PreviewHeightIs ==
  ASSUME NEW t \in UsageTable
  PROVE  PreviewHeight(t) \in Int /\ PreviewHeight(t) >= 2340
<1>1. t.rows \in Nat
  BY DEF UsageTable
<1>2. Previewed(t) \in Nat
  BY <1>1 DEF Previewed, PreviewRows
<1> DEFINE n == Previewed(t)
           h == IF t.label THEN 1080 ELSE 0
<1>3. h \in Nat
  OBVIOUS
<1>4. PreviewHeight(t) = 1260 + h + 1350 + 900 * n
  BY DEF PreviewHeight
<1> HIDE DEF n, h
<1>5. n \in Nat
  BY <1>2 DEF n
<1> QED BY <1>3, <1>4, <1>5

\* There is room for h, or the flow has left the page the columns started on.
Ready(k, a, h, s) ==
  \/ s.cursor.y - h >= Floor(k, s.cursor.page)
  \/ s.cursor.page > 1 /\ s \in In(k, Away(a, -1080)) /\ s.cursor.page > s.cursor.first

\* The preview, from a spot where it fits or off the page the columns started on.
LEMMA PreviewFrom ==
  ASSUME NEW k \in Frames, k.strict => k.back >= 3420, NEW a \in Resting,
         NEW ss \in Sections, ss # <<>>, NEW s \in In(k, a), NEW g, g = PreviewHeight(ss[1][1]), Ready(k, a, g, s)
  PROVE  Rule(k, {s}, NonvatHomePreview(ss), In(k, Counted(a, Shown(ss))))
<1> DEFINE h == PreviewHeight(ss[1][1])
           x == -1080
           n == Shown(ss)
<1>1. h \in Int /\ h >= 2340
  <2> DEFINE tables == ss[1]
  <2>1. tables \in Seq(UsageTable) /\ tables # <<>>
    BY ShownHead
  <2> HIDE DEF tables
  <2> DEFINE t == tables[1]
  <2>2. t \in UsageTable
    BY <2>1, RowsHead
  <2> HIDE DEF t
  <2>3. PreviewHeight(t) \in Int /\ PreviewHeight(t) >= 2340
    BY <2>2, PreviewHeightIs
  <2> QED BY <2>3 DEF t, tables
<1>2. n \in Nat
  BY ShownNat
<1>3. k \in Frame /\ k.back \in Nat
  BY FramesAre
<1> HIDE DEF h, n
<1>4. CASE s.cursor.y - h >= Floor(k, s.cursor.page)
  <2>1. s \in In(k, Roomy(a, h))
    BY <1>1, <1>3, <1>4, EnterRoomy
  <2>2. k.strict => h >= 2340 \/ (a.later /\ h + k.back >= 2340)
    BY <1>1
  <2>3. Rule(k, In(k, Roomy(a, h)), NonvatHomePreview(ss), In(k, Counted(a, Shown(ss))))
    BY <1>1, <2>2, PreviewRule
  <2>4. {s} \subseteq In(k, Roomy(a, h))
    BY <2>1
  <2> QED BY <2>3, <2>4, RuleWeaken
<1>5. CASE s.cursor.page > 1 /\ s \in In(k, Away(a, x)) /\ s.cursor.page > s.cursor.first
  <2> DEFINE l == Later(a)
  <2>1. x \in Int /\ x + 3420 >= 2340
    OBVIOUS
  <2>2. l \in Resting /\ l.later /\ Counted(l, n) = Later(Counted(a, n))
    BY <1>2, LaterFacts
  <2>3. s \in In(k, l)
    BY <1>3, <1>5, EnterLater
  <2> HIDE DEF x
  <2>4. s.cursor.y - x >= Floor(k, s.cursor.page)
    <3>1. Holds(k, Away(a, x), s)
      BY <1>5, SpotIn
    <3>2. Away(a, x).known /\ Away(a, x).off /\ Away(a, x).room = x
      BY <2>1, AwayFacts
    <3> QED BY <1>5, <3>1, <3>2 DEF Holds
  <2> HIDE DEF l
  <2>5. s \in In(k, Roomy(l, x))
    BY <1>3, <2>1, <2>2, <2>3, <2>4, EnterRoomy
  <2>6. k.strict => x >= 2340 \/ (l.later /\ x + k.back >= 2340)
    BY <1>3, <2>1, <2>2
  <2>7. Rule(k, In(k, Roomy(l, x)), NonvatHomePreview(ss), In(k, Counted(l, n)))
    BY <2>1, <2>2, <2>6, PreviewRule DEF n
  <2>8. In(k, Counted(l, n)) \subseteq In(k, Counted(a, n))
    BY <1>2, <2>2, LaterIsIn, CountedResting
  <2>9. {s} \subseteq In(k, Roomy(l, x))
    BY <2>5
  <2> QED BY <2>7, <2>8, <2>9, RuleWeaken DEF n
<1> QED BY <1>4, <1>5 DEF h, x, Ready

\* The floors of the second and the third part of nonvat_home.
Homely(k, b) ==
  /\ k.low1 = (IF b.red THEN 22000 ELSE 15000) /\ k.low2 = 8000 /\ k.top = 74000

LEMMA NonvatHomeUsageRule ==
  ASSUME NEW k \in Frames, k.strict => k.back >= 3420, NEW a \in Resting, a.two,
         NEW b \in Bill, Homely(k, b), NEW s \in In(k, Away(a, -1080))
  PROVE  Rule(k, {s}, NonvatHomeUsage(b, s.cursor), In(k, Counted(a, Shown(b.sections))))
<1> DEFINE c == s.cursor
           ss == b.sections
           aside == (b.pay > 0 \/ b.cancel > 0) /\ c.col = 1 /\ c.page = c.first
           part0 == NonvatHomeFlow(<<>>, b)
           at == IF aside THEN NextColumn(c, part0) ELSE c
           h == PreviewHeight(ss[1][1])
           fits == at.page = at.first => ~Short(at, part0, h)
           e == IF aside THEN Step(k, s, RightColumn) ELSE s
           Q == In(k, Counted(a, Shown(ss)))
           A1 == When(aside, <<RightColumn>>)
           A2 == IF fits THEN NonvatHomePreview(ss)
                 ELSE <<FreshPage(74000)>> \o Each(ss, ColumnSection)
<1>1. NonvatHomeUsage(b, c) = When(ss # <<>>, A1 \o A2)
  BY DEF NonvatHomeUsage
<1>2. part0.low1 = k.low1 /\ part0.low2 = k.low2 /\ part0.top = k.top
  BY DEF NonvatHomeFlow, Part, Homely
<1>3. s \in In(k, a) /\ ss \in Sections /\ k \in Frame /\ s \in Spot /\ c \in Cursor
  <2> DEFINE x == -1080
  <2>1. x \in Int
    OBVIOUS
  <2> HIDE DEF x
  <2>2. In(k, Away(a, x)) \subseteq In(k, a)
    BY <2>1, AwayIsRest
  <2> QED BY <2>2, SpotIn, BillFacts, FramesAre DEF x
<1> HIDE DEF part0, ss
<1>4. NextColumn(c, part0) = NextColumn(c, k)
  BY <1>2 DEF NextColumn
<1>5. CASE ss = <<>>
  <2>1. Counted(a, Shown(ss)) = a
    BY <1>3, <1>5, NoneShown
  <2>2. {s} \subseteq Q
    BY <1>3, <2>1
  <2> HIDE DEF Q
  <2>3. Rule(k, {s}, <<>>, Q)
    BY <2>2, RuleEmpty
  <2> QED BY <1>1, <1>5, <2>3 DEF When, Q, c, ss
<1>6. CASE ss # <<>>
  <2>1. Rule(k, {s}, A1, {e}) /\ e \in In(k, a) /\ e.cursor = at
    <3>1. CASE aside
      <4>1. /\ Good(k, s, RightColumn) /\ Step(k, s, RightColumn) \in In(k, a)
            /\ Step(k, s, RightColumn).cursor = NextColumn(s.cursor, k)
        BY <1>3, <3>1, RightColumnStep
      <4>2. RightColumn \in Command
        BY RightColumnIs DEF Is
      <4>3. Rule(k, {s}, <<RightColumn>>, {Step(k, s, RightColumn)})
        BY <4>1, <4>2, RuleOne
      <4> QED BY SMTT(30), <1>4, <3>1, <4>1, <4>3 DEF When
    <3>2. CASE ~aside
      <4>1. Rule(k, {s}, <<>>, {s})
        BY RuleEmpty
      <4>2. A1 = <<>> /\ e = s /\ at = c
        BY <3>2 DEF When
      <4> HIDE DEF A1, e, at
      <4> QED BY <1>3, <4>1, <4>2
    <3> QED BY <3>1, <3>2
  <2>2. Rule(k, {e}, A2, Q)
    <3>1. CASE fits
      <4>1. Ready(k, a, h, e)
        <5>1. CASE at.page = at.first
          <6>1. ~Short(at, part0, h)
            BY <3>1, <5>1
          <6>2. Low(at, part0) = Floor(k, at.page)
            BY <1>2 DEF Low, Floor
          <6>3. ~(at.y - h < Floor(k, at.page))
            BY <6>1, <6>2 DEF Short
          <6>4. at.y \in Int /\ h \in Int /\ Floor(k, at.page) \in Int
            <7>1. at \in Cursor
              BY <2>1, SpotIn
            <7>2. h \in Int
              <8> DEFINE tables == ss[1]
              <8>1. tables \in Seq(UsageTable) /\ tables # <<>>
                BY <1>3, <1>6, ShownHead
              <8> HIDE DEF tables
              <8> DEFINE t == tables[1]
              <8>2. t \in UsageTable
                BY <8>1, RowsHead
              <8> HIDE DEF t
              <8>3. PreviewHeight(t) \in Int
                BY <8>2, PreviewHeightIs
              <8> QED BY <8>3 DEF t, tables
            <7> HIDE DEF at, h
            <7> QED BY <1>3, <7>1, <7>2 DEF Cursor, Floor, Frame
          <6> HIDE DEF at, h
          <6>5. at.y - h >= Floor(k, at.page)
            BY <6>3, <6>4
          <6> QED BY <2>1, <6>5 DEF Ready
        <5>2. CASE at.page # at.first
          <6>1. ~aside
            <7> SUFFICES ASSUME aside PROVE at.page = at.first
              BY <5>2
            <7>1. at.page = c.page /\ at.first = c.first
              BY <1>3, <1>4, ColumnCursor
            <7> QED BY <7>1
          <6>2. e = s /\ at = c
            BY <6>1
          <6>3. c.first <= c.page /\ c.page \in Nat /\ c.first \in Nat \ {0}
            BY <1>3, SpotIn DEF Holds, Cursor
          <6>4. c.page > 1 /\ c.page > c.first
            BY <5>2, <6>2, <6>3
          <6> QED BY <6>2, <6>4 DEF Ready
        <5> QED BY <5>1, <5>2
      <4>3. h = PreviewHeight(ss[1][1])
        OBVIOUS
      <4> HIDE DEF e, h
      <4>2. Rule(k, {e}, NonvatHomePreview(ss), In(k, Counted(a, Shown(ss))))
        BY <1>3, <1>6, <2>1, <4>1, <4>3, PreviewFrom
      <4> QED BY <3>1, <4>2
    <3>2. CASE ~fits
      <4> DEFINE height == 74000
      <4>1. height \in Int /\ a \in Facts /\ ~a.known
        BY RestingFacts
      <4> HIDE DEF height
      <4>2. Rule(k, In(k, a), <<FreshPage(height)>>, In(k, a))
        BY <4>1, FreshPageRule
      <4>3. Rule(k, In(k, a), Each(ss, ColumnSection), Q)
        BY <1>3, ColumnSectionsRule
      <4> HIDE DEF Q
      <4>4. Rule(k, In(k, a), <<FreshPage(height)>> \o Each(ss, ColumnSection), Q)
        BY <4>2, <4>3, RuleJoin
      <4>5. {e} \subseteq In(k, a)
        BY <2>1
      <4> HIDE DEF e
      <4>6. Rule(k, {e}, <<FreshPage(height)>> \o Each(ss, ColumnSection), Q)
        BY <4>4, <4>5, RuleWeaken
      <4> QED BY <3>2, <4>6 DEF height
    <3> QED BY <3>1, <3>2
  <2> HIDE DEF A1, A2, e, Q
  <2>3. Rule(k, {s}, A1 \o A2, Q)
    BY <2>1, <2>2, RuleJoin
  <2> QED BY <1>1, <1>6, <2>3 DEF When, Q, c, ss
<1> QED BY <1>5, <1>6

LEMMA NonvatHomeTopRule ==
  ASSUME NEW k \in Frames, NEW a \in Resting, NEW b \in Bill, ~a.two, k.deck = -1200, NEW c
  PROVE  Rule(k, In(k, a), NonvatHomePage(b, c)[1].ops, Started(k, Two(a)))
<1> DEFINE d == Two(a)
           A1 == NonvatHomeCharges(b)
           A2 == NonvatHomeAdjustments(b)
           A3 == NonvatHomeDiscounts(b)
           A4 == NonvatHomeTaxes(b)
           A5 == NonvatHomeTotal
           ops == A1 \o A2 \o A3 \o A4 \o A5
<1>2. Rule(k, In(k, a), A1, In(k, a))
  BY ProductsType, EachProduct DEF NonvatHomeCharges, Each, Join
<1>3. Rule(k, In(k, a), A2, In(k, a))
  BY BillFacts, HeadedListRule DEF NonvatHomeAdjustments
<1>4. Rule(k, In(k, a), A3, In(k, a))
  BY BillFacts, HeadedListRule DEF NonvatHomeDiscounts
<1>5. Rule(k, In(k, a), A4, In(k, a))
  BY BillFacts, SummedTaxRule DEF NonvatHomeTaxes
<1>6. Rule(k, In(k, a), A5, Started(k, d))
  BY TotalThenColumnsRule DEF NonvatHomeTotal
<1>7. NonvatHomePage(b, c)[1].ops = ops
  <2>1. NonvatHomePage(b, c) = <<NonvatHomeTop(ops, b), NonvatHomeFlow(NonvatHomePayments(b), b),
                                 NonvatHomeFlow(NonvatHomeUsage(b, c) \o NonvatHomeMessages(b), b)>>
    BY DEF NonvatHomePage
  <2> HIDE DEF ops
  <2>2. NonvatHomePage(b, c)[1] = NonvatHomeTop(ops, b)
    BY <2>1
  <2> QED BY <2>2 DEF NonvatHomeTop, Part
<1> HIDE DEF d, A1, A2, A3, A4, A5
<1>8. Rule(k, In(k, a), A1 \o A2, In(k, a))
  BY <1>2, <1>3, RuleJoin
<1>9. Rule(k, In(k, a), A1 \o A2 \o A3, In(k, a))
  BY <1>4, <1>8, RuleJoin
<1>10. Rule(k, In(k, a), A1 \o A2 \o A3 \o A4, In(k, a))
  BY <1>5, <1>9, RuleJoin
<1>11. Rule(k, In(k, a), A1 \o A2 \o A3 \o A4 \o A5, Started(k, d))
  BY <1>6, <1>10, RuleJoin
<1> QED BY <1>7, <1>11 DEF d

LEMMA NonvatHomePaymentsRule ==
  ASSUME NEW k \in Frames, NEW a \in Resting, NEW b \in Bill, NEW c
  PROVE  Rule(k, In(k, Away(a, -1080)), NonvatHomePage(b, c)[2].ops, In(k, Away(a, -1080)))
<1> DEFINE A1 == ColumnPayments(b.pay, 900)
           A2 == ColumnCancelled(b.cancel)
           P == In(k, Away(a, -1080))
<1>1. b.pay \in Nat /\ b.cancel \in Nat
  BY BillFacts
<1>2. Rule(k, P, A1, P)
  BY <1>1, ColumnPaymentsRule
<1>3. Rule(k, P, A2, P)
  BY <1>1, ColumnCancelledRule
<1>4. NonvatHomePage(b, c)[2].ops = A1 \o A2
  <2> DEFINE ops == NonvatHomePayments(b)
             p1 == NonvatHomeTop(NonvatHomeCharges(b) \o NonvatHomeAdjustments(b)
                    \o NonvatHomeDiscounts(b) \o NonvatHomeTaxes(b)
                    \o NonvatHomeTotal, b)
             p3 == NonvatHomeFlow(NonvatHomeUsage(b, c) \o NonvatHomeMessages(b), b)
  <2>1. NonvatHomePage(b, c) = <<p1, NonvatHomeFlow(ops, b), p3>>
    BY DEF NonvatHomePage
  <2>2. ops = A1 \o A2
    BY DEF NonvatHomePayments
  <2> HIDE DEF ops, p1, p3
  <2>3. NonvatHomePage(b, c)[2] = NonvatHomeFlow(ops, b)
    BY <2>1
  <2> QED BY <2>2, <2>3 DEF NonvatHomeFlow, Part
<1> HIDE DEF A1, A2, P
<1>5. Rule(k, P, A1 \o A2, P)
  BY <1>2, <1>3, RuleJoin
<1> QED BY <1>4, <1>5 DEF P

LEMMA NonvatHomeEndRule ==
  ASSUME NEW k \in Frames, k.strict => k.back >= 3420, NEW a \in Resting, a.two,
         NEW b \in Bill, Homely(k, b), NEW s \in In(k, Away(a, -1080))
  PROVE  Rule(k, {s}, NonvatHomePage(b, s.cursor)[3].ops, In(k, Counted(a, Shown(b.sections))))
<1> DEFINE c == s.cursor
           d == Counted(a, Shown(b.sections))
           A1 == NonvatHomeUsage(b, c)
           A2 == NonvatHomeMessages(b)
<1>1. Rule(k, {s}, A1, In(k, d))
  BY NonvatHomeUsageRule
<1>2. d \in Resting
  BY BillFacts, ShownNat, CountedResting
<1> HIDE DEF d
<1>3. Rule(k, In(k, d), A2, In(k, d))
  BY <1>2, BillFacts, ColumnMessagesRule DEF NonvatHomeMessages
<1>4. NonvatHomePage(b, c)[3].ops = A1 \o A2
  <2> DEFINE ops == A1 \o A2
             p1 == NonvatHomeTop(NonvatHomeCharges(b) \o NonvatHomeAdjustments(b)
                    \o NonvatHomeDiscounts(b) \o NonvatHomeTaxes(b)
                    \o NonvatHomeTotal, b)
             p2 == NonvatHomeFlow(NonvatHomePayments(b), b)
  <2>1. NonvatHomePage(b, c) = <<p1, p2, NonvatHomeFlow(ops, b)>>
    BY DEF NonvatHomePage
  <2> HIDE DEF ops, p1, p2
  <2>3. NonvatHomePage(b, c)[3] = NonvatHomeFlow(ops, b)
    BY <2>1
  <2>4. NonvatHomePage(b, c)[3].ops = ops
    BY <2>3 DEF NonvatHomeFlow, Part
  <2> QED BY <2>4 DEF ops
<1> HIDE DEF A1, A2
<1>5. Rule(k, {s}, A1 \o A2, In(k, d))
  BY <1>1, <1>3, RuleJoin
<1> QED BY <1>4, <1>5 DEF d, c

-----------------------------------------------------------------------------
(***************************************************************************)
(* summary_statement: the pages its accounts are split into.               *)
(***************************************************************************)

(* summary_statement: the pages the accounts are split into.               *)

Fresh == [pages |-> <<<<>>>>, used |-> 0]
Space(acc) == IF Len(acc.pages) = 1 THEN 50000 ELSE 65000
Place(acc, n) ==
  IF acc.used + 1800 * n <= Space(acc)
  THEN [pages |-> Append(Front(acc.pages), Append(Last(acc.pages), n)),
        used |-> acc.used + 1800 * n]
  ELSE [pages |-> Append(acc.pages, <<n>>), used |-> 1800 * n]

\* g is the recursive function of StatementPages.
Splits(names, n, g) ==
  g = [i \in 0..n |-> IF i = 0 THEN Fresh ELSE Place(g[i - 1], names[i])]

LEMMA SplitExists ==
  ASSUME NEW names, NEW N \in Nat
  PROVE  \E g : Splits(names, N, g)
<1> DEFINE S == {n \in Nat : \E g : Splits(names, n, g)}
<1>1. 0 \in S
  <2>1. Splits(names, 0, [i \in 0..0 |-> Fresh])
    BY DEF Splits
  <2> QED BY <2>1
<1>2. ASSUME NEW n \in Nat, n \in S PROVE n + 1 \in S
  <2>1. PICK g : Splits(names, n, g)
    BY <1>2
  <2> DEFINE next == Place(g[n], names[n + 1])
  <2> HIDE DEF next
  <2> DEFINE h == [i \in 0..(n+1) |-> IF i \in 0..n THEN g[i] ELSE next]
  <2>2. ASSUME NEW i \in 0..n
        PROVE  g[i] = IF i = 0 THEN Fresh ELSE Place(g[i - 1], names[i])
    BY <2>1 DEF Splits
  <2>4. ASSUME NEW i \in 0..(n+1)
        PROVE  h[i] = IF i = 0 THEN Fresh ELSE Place(h[i - 1], names[i])
    <3>1. CASE i \in 0..n
      <4>1. i # 0 => i - 1 \in 0..n
        BY <3>1
      <4>2. g[i] = IF i = 0 THEN Fresh ELSE Place(g[i - 1], names[i])
        BY <2>2, <3>1
      <4>3. h[i] = g[i] /\ (i # 0 => h[i-1] = g[i-1])
        BY <3>1, <4>1
      <4> HIDE DEF h
      <4> QED BY <4>2, <4>3
    <3>2. CASE i \notin 0..n
      <4>1. i = n + 1 /\ i # 0 /\ i - 1 = n /\ n \in 0..n /\ n \in 0..(n+1) /\ i - 1 \in 0..n
        BY <3>2
      <4>2. h[i - 1] = g[n] /\ h[i] = next
        BY <3>2, <4>1
      <4> HIDE DEF h
      <4> QED BY <4>1, <4>2 DEF next
    <3> QED BY <3>1, <3>2
  <2>5. h = [i \in 0..(n+1) |-> h[i]]
    OBVIOUS
  <2>6. Splits(names, n + 1, h)
    <3> HIDE DEF h
    <3> QED BY <2>4, <2>5 DEF Splits
  <2> HIDE DEF h
  <2> QED BY <2>6
<1>3. Nat \subseteq S
  <2> HIDE DEF S
  <2> QED BY <1>1, <1>2, Induction
<1> QED BY <1>3

Accounts(names, g) ==
  /\ g[0] = Fresh
  /\ \A i \in 1..Len(names) : g[i] = Place(g[i - 1], names[i])
  /\ StatementPages(names)
       = g[Len(names)].pages
           \o When(g[Len(names)].used + 4400 > Space(g[Len(names)]), <<<<>>>>)

LEMMA SplitIs ==
  ASSUME NEW names, Len(names) \in Nat
  PROVE  \E g : Accounts(names, g)
<1> DEFINE N == Len(names)
           f == CHOOSE g : Splits(names, N, g)
<1>1. Splits(names, N, f)
  <2>1. \E g : Splits(names, N, g)
    BY SplitExists
  <2> QED BY <2>1
<1>2. StatementPages(names)
        = f[N].pages \o When(f[N].used + 4400 > Space(f[N]), <<<<>>>>)
  BY DEF StatementPages, Splits, Place, Space, Fresh
<1> HIDE DEF f
<1>3. \A i \in 0..N : f[i] = IF i = 0 THEN Fresh ELSE Place(f[i - 1], names[i])
  BY <1>1 DEF Splits
<1>4. f[0] = Fresh
  <2>1. 0 \in 0..N
    OBVIOUS
  <2> QED BY <1>3, <2>1
<1>5. \A i \in 1..N : f[i] = Place(f[i - 1], names[i])
  <2> TAKE i \in 1..N
  <2>1. i \in 0..N /\ i # 0
    OBVIOUS
  <2> QED BY <1>3, <2>1
<1>6. Accounts(names, f)
  BY <1>2, <1>4, <1>5 DEF Accounts
<1> QED BY <1>6

-----------------------------------------------------------------------------
\* A sum and one more number.
LEMMA AddedAppend ==
  ASSUME NEW ns \in Seq(Nat), NEW n \in Nat
  PROVE  Added(Append(ns, n)) = Added(ns) + n
<1> DEFINE ms == Append(ns, n)
           N == Len(ns)
<1>1. ms \in Seq(Nat) /\ N \in Nat /\ Len(ms) = N + 1 /\ ms[N + 1] = n
      /\ \A i \in 1..N : ms[i] = ns[i] /\ ns[i] \in Nat
  OBVIOUS
<1> HIDE DEF ms
<1>2. PICK g \in [0..Len(ns) -> Nat] : Sums(ns, g) /\ Added(ns) = g[Len(ns)]
  BY AddedIs
<1>3. PICK h \in [0..Len(ms) -> Nat] : Sums(ms, h) /\ Added(ms) = h[Len(ms)]
  BY <1>1, AddedIs
<1>4. g[0] = 0 /\ \A i \in 1..N : g[i] = g[i - 1] + ns[i]
  BY <1>2 DEF Sums
<1>5. h[0] = 0 /\ \A i \in 1..N + 1 : h[i] = h[i - 1] + ms[i]
  BY <1>1, <1>3 DEF Sums
<1> DEFINE S == {i \in Nat : i \in 0..N => g[i] = h[i]}
<1>6. 0 \in S
  BY <1>4, <1>5
<1>7. ASSUME NEW i \in Nat \ {0}, i - 1 \in S PROVE i \in S
  <2> SUFFICES ASSUME i \in 0..N PROVE g[i] = h[i]
    OBVIOUS
  <2>1. i \in 1..N /\ i \in 1..N + 1 /\ i - 1 \in 0..N
    BY <1>1
  <2>2. g[i - 1] = h[i - 1] /\ ms[i] = ns[i]
    BY <1>1, <1>7, <2>1
  <2>3. g[i] = g[i - 1] + ns[i] /\ h[i] = h[i - 1] + ms[i]
    BY <1>4, <1>5, <2>1
  <2> QED BY <2>2, <2>3
<1>8. Nat \subseteq S
  <2> HIDE DEF S
  <2> QED BY <1>6, <1>7, Upward
<1>9. g[N] = h[N]
  <2>1. N \in S
    BY <1>1, <1>8
  <2>2. N \in 0..N
    BY <1>1
  <2> QED BY <2>1, <2>2
<1>10. h[N + 1] = h[(N + 1) - 1] + ms[N + 1]
  <2>1. N + 1 \in 1..N + 1
    BY <1>1
  <2> QED BY <1>5, <2>1
<1>11. (N + 1) - 1 = N
  BY <1>1
<1> QED BY <1>1, <1>2, <1>3, <1>9, <1>10, <1>11 DEF ms

LEMMA AddedOne ==
  ASSUME NEW n \in Nat
  PROVE  Added(<<>>) = 0 /\ Added(<<n>>) = n
<1>1. <<>> \in Seq(Nat)
  OBVIOUS
<1>2. Added(<<>>) = 0
  <2>1. \A i \in 1..Len(<<>>) : <<>>[i] = 0
    OBVIOUS
  <2> QED BY <1>1, <2>1, AddedZero
<1>3. Append(<<>>, n) = <<n>>
  OBVIOUS
<1>4. Added(Append(<<>>, n)) = Added(<<>>) + n
  BY <1>1, AddedAppend
<1> QED BY <1>2, <1>3, <1>4

Lines == Nat \ {0}
Lens(pages) == [j \in 1..Len(pages) |-> Len(pages[j])]
SpaceAt(j) == IF j = 1 THEN 50000 ELSE 65000

\* What the split keeps to: m accounts, and no page with more lines on it
\* than it has room for, unless a name alone is longer than a page.
Paged(pages, m, short) ==
  /\ pages \in Seq(Seq(Lines)) /\ pages # <<>>
  /\ Added(Lens(pages)) = m
  /\ short => \A j \in 1..Len(pages) : 1800 * Added(pages[j]) <= SpaceAt(j)
Laid(acc, m, short) ==
  /\ Paged(acc.pages, m, short)
  /\ acc.used = 1800 * Added(acc.pages[Len(acc.pages)])

LEMMA LensNat ==
  ASSUME NEW pages \in Seq(Seq(Lines))
  PROVE  Lens(pages) \in Seq(Nat) /\ Len(Lens(pages)) = Len(pages)
         /\ \A j \in 1..Len(pages) : Lens(pages)[j] = Len(pages[j])
                /\ pages[j] \in Seq(Lines) /\ pages[j] \in Seq(Nat) /\ Len(pages[j]) \in Nat
<1>1. \A j \in 1..Len(pages) : pages[j] \in Seq(Lines) /\ Len(pages[j]) \in Nat
  OBVIOUS
<1>2. \A p \in Seq(Lines) : p \in Seq(Nat)
  BY DEF Lines
<1> QED BY <1>1, <1>2 DEF Lens

LEMMA PagesAppend ==
  ASSUME NEW pages \in Seq(Seq(Lines)), NEW p \in Seq(Lines), NEW n, n = Len(pages)
  PROVE  /\ n \in Nat /\ Append(pages, p) \in Seq(Seq(Lines)) /\ Append(pages, p) # <<>>
         /\ Len(Append(pages, p)) = n + 1 /\ Append(pages, p)[n + 1] = p
         /\ \A j \in 1..n : Append(pages, p)[j] = pages[j]
<1>1. n \in Nat /\ Append(pages, p) \in Seq(Seq(Lines)) /\ Len(Append(pages, p)) = n + 1
      /\ Append(pages, p)[n + 1] = p
  OBVIOUS
<1>2. \A j \in 1..n : Append(pages, p)[j] = pages[j]
  OBVIOUS
<1>3. Append(pages, p) # <<>>
  <2> DEFINE u == Append(pages, p)
  <2>1. Len(u) # 0
    BY <1>1
  <2> HIDE DEF u
  <2>2. u # <<>>
    BY <2>1
  <2> QED BY <2>2 DEF u
<1> QED BY <1>1, <1>2, <1>3

LEMMA LensAppend ==
  ASSUME NEW pages \in Seq(Seq(Lines)), NEW p \in Seq(Lines)
  PROVE  /\ Append(pages, p) \in Seq(Seq(Lines))
         /\ Added(Lens(Append(pages, p))) = Added(Lens(pages)) + Len(p)
<1> DEFINE new == Append(pages, p)
           u == Lens(new)
           v == Append(Lens(pages), Len(p))
           n == Len(pages)
<1>1. new \in Seq(Seq(Lines)) /\ Len(new) = n + 1 /\ n \in Nat /\ new[n + 1] = p
      /\ \A j \in 1..n : new[j] = pages[j]
  OBVIOUS
<1>2. Len(p) \in Nat
  OBVIOUS
<1> HIDE DEF new
<1>3. u \in Seq(Nat) /\ Len(u) = n + 1
  BY <1>1, LensNat
<1>4. Lens(pages) \in Seq(Nat) /\ Len(Lens(pages)) = n
  BY LensNat
<1>5. v \in Seq(Nat) /\ Len(v) = n + 1 /\ v[n + 1] = Len(p)
      /\ \A j \in 1..n : v[j] = Lens(pages)[j]
  BY <1>2, <1>4
<1>6. ASSUME NEW j \in 1..n + 1 PROVE u[j] = v[j]
  <2>1. u[j] = Len(new[j])
    BY <1>1 DEF Lens
  <2>2. CASE j = n + 1
    BY <1>1, <1>5, <2>1, <2>2
  <2>3. CASE j # n + 1
    <3>1. j \in 1..n
      BY <1>1, <2>3
    <3>2. Lens(pages)[j] = Len(pages[j])
      BY <3>1 DEF Lens
    <3> QED BY <1>1, <1>5, <2>1, <3>1, <3>2
  <2> QED BY <2>2, <2>3
<1> HIDE DEF u, v
<1>7. u = v
  BY <1>3, <1>5, <1>6, SeqEqual
<1>8. Added(v) = Added(Lens(pages)) + Len(p)
  BY <1>2, <1>4, AddedAppend DEF v
<1> QED BY <1>1, <1>7, <1>8 DEF new, u

LEMMA FrontLast ==
  ASSUME NEW pages \in Seq(Seq(Lines)), pages # <<>>
  PROVE  /\ Front(pages) \in Seq(Seq(Lines)) /\ Len(Front(pages)) = Len(pages) - 1
         /\ \A j \in 1..Len(pages) - 1 : Front(pages)[j] = pages[j]
         /\ Last(pages) \in Seq(Lines) /\ Last(pages) = pages[Len(pages)]
         /\ pages = Append(Front(pages), Last(pages))
<1> DEFINE f == Front(pages)
           l == Last(pages)
           n == Len(pages)
           u == Append(f, l)
<1>1. n \in Nat \ {0} /\ l = pages[n] /\ l \in Seq(Lines)
  BY DEF Last
<1>2. f \in Seq(Seq(Lines)) /\ Len(f) = n - 1 /\ \A j \in 1..n - 1 : f[j] = pages[j]
  <2> DEFINE m == n - 1
  <2>1. m \in Nat /\ m \in 0..n
    BY <1>1
  <2>2. f = SubSeq(pages, 1, m)
    BY DEF Front
  <2> HIDE DEF f, m, n
  <2>3. \A j \in 1..m : j \in 1..Len(pages)
    BY <1>1, <2>1 DEF n
  <2>4. SubSeq(pages, 1, m) = [j \in 1..m |-> pages[j]]
    BY <1>1, <2>1, <2>3
  <2>5. f \in Seq(Seq(Lines)) /\ Len(f) = m /\ \A j \in 1..m : f[j] = pages[j]
    BY <2>1, <2>2, <2>3, <2>4
  <2> QED BY <2>5 DEF m
<1> HIDE DEF f, l
<1>3. u \in Seq(Seq(Lines)) /\ Len(u) = n /\ u[n] = l /\ \A j \in 1..n - 1 : u[j] = f[j]
  BY <1>1, <1>2
<1> HIDE DEF u
<1>4. ASSUME NEW j \in 1..n PROVE pages[j] = u[j]
  <2>1. j = n \/ j \in 1..n - 1
    BY <1>1
  <2> QED BY <1>1, <1>2, <1>3, <2>1
<1>5. Len(pages) = Len(u)
  BY <1>3
<1>6. pages = u
  BY <1>3, <1>4, <1>5, SeqEqual
<1> QED BY <1>1, <1>2, <1>6 DEF f, l, u

-----------------------------------------------------------------------------
LEMMA PagedNew ==
  ASSUME NEW pages, NEW m \in Nat, NEW short \in BOOLEAN, Paged(pages, m, short),
         NEW n \in Lines, short => n <= 36
  PROVE  Paged(Append(pages, <<n>>), m + 1, short)
<1> DEFINE p == <<n>>
           new == Append(pages, p)
           k == Len(pages)
<1>1. pages \in Seq(Seq(Lines)) /\ pages # <<>> /\ p \in Seq(Lines) /\ Len(p) = 1
      /\ Added(Lens(pages)) = m
  BY DEF Paged
<1>2. Added(p) = n
  BY AddedOne DEF Lines
<1> HIDE DEF p
<1>3. new \in Seq(Seq(Lines)) /\ Added(Lens(new)) = m + 1
  BY <1>1, LensAppend
<1>4. k \in Nat \ {0} /\ Len(new) = k + 1 /\ new # <<>> /\ new[k + 1] = p
      /\ \A j \in 1..k : new[j] = pages[j]
  <2>1. k \in Nat \ {0}
    BY <1>1
  <2> HIDE DEF new, k
  <2>2. k = Len(pages)
    BY DEF k
  <2> QED BY <1>1, <2>1, <2>2, PagesAppend DEF new
<1> HIDE DEF new
<1>5. ASSUME short, NEW j \in 1..Len(new) PROVE 1800 * Added(new[j]) <= SpaceAt(j)
  <2>1. CASE j = k + 1
    <3>1. j # 1
      BY <1>4, <2>1
    <3>2. 1800 * n <= 65000
      BY <1>5 DEF Lines
    <3> QED BY <1>2, <1>4, <2>1, <3>1, <3>2 DEF SpaceAt
  <2>2. CASE j # k + 1
    <3>1. j \in 1..k
      BY <1>4, <2>2
    <3>2. 1800 * Added(pages[j]) <= SpaceAt(j)
      BY <1>5, <3>1 DEF Paged
    <3> QED BY <1>4, <3>1, <3>2
  <2> QED BY <2>1, <2>2
<1>6. Paged(new, m + 1, short)
  BY <1>3, <1>4, <1>5 DEF Paged
<1> QED BY <1>6 DEF new, p

LEMMA PagedSame ==
  ASSUME NEW pages, NEW m \in Nat, NEW short \in BOOLEAN, Paged(pages, m, short),
         NEW n \in Lines, 1800 * Added(pages[Len(pages)]) + 1800 * n <= SpaceAt(Len(pages))
  PROVE  LET new == Append(Front(pages), Append(Last(pages), n))
         IN /\ Paged(new, m + 1, short) /\ Len(new) = Len(pages)
            /\ 1800 * Added(new[Len(new)]) = 1800 * Added(pages[Len(pages)]) + 1800 * n
<1> DEFINE f == Front(pages)
           l == Last(pages)
           p == Append(l, n)
           new == Append(f, p)
           k == Len(pages)
           c == Added(l)
           d == Added(p)
<1>1. pages \in Seq(Seq(Lines)) /\ pages # <<>> /\ Added(Lens(pages)) = m
  BY DEF Paged
<1>2. /\ f \in Seq(Seq(Lines)) /\ Len(f) = k - 1 /\ \A j \in 1..k - 1 : f[j] = pages[j]
      /\ l \in Seq(Lines) /\ l = pages[k] /\ pages = Append(f, l)
  BY <1>1, FrontLast
<1>a. k \in Nat \ {0}
  BY <1>1
<1> HIDE DEF f, l
<1>3. p \in Seq(Lines) /\ Len(p) = Len(l) + 1 /\ Len(l) \in Nat
  BY <1>2
<1>4. d = c + n /\ c \in Nat /\ n \in Nat
  <2>1. l \in Seq(Nat) /\ n \in Nat
    BY <1>2 DEF Lines
  <2>2. Added(Append(l, n)) = Added(l) + n
    BY <2>1, AddedAppend
  <2>3. Added(l) \in Nat
    BY <2>1, AddedNat
  <2> QED BY <2>1, <2>2, <2>3
<1> HIDE DEF p, c, d
<1>5. new \in Seq(Seq(Lines)) /\ Added(Lens(new)) = Added(Lens(f)) + Len(p)
  BY <1>2, <1>3, LensAppend
<1>6. m = Added(Lens(f)) + Len(l)
  BY <1>1, <1>2, LensAppend
<1>7. Added(Lens(f)) \in Nat
  <2>1. Lens(f) \in Seq(Nat)
    BY <1>2, LensNat
  <2> QED BY <2>1, AddedNat
<1>8. Added(Lens(new)) = m + 1
  BY <1>3, <1>5, <1>6, <1>7
<1>9. Len(new) = k /\ new # <<>> /\ new[k] = p /\ \A j \in 1..k - 1 : new[j] = f[j]
  <2> DEFINE i == k - 1
  <2>1. i = Len(f) /\ i + 1 = k
    BY <1>2, <1>a
  <2> HIDE DEF i, k
  <2>2. Len(new) = i + 1 /\ new # <<>> /\ new[i + 1] = p /\ \A j \in 1..i : new[j] = f[j]
    BY <1>2, <1>3, <2>1, PagesAppend
  <2> HIDE DEF new
  <2> QED BY <2>1, <2>2 DEF i
<1> HIDE DEF new
<1>10. 1800 * d = 1800 * c + 1800 * n
  BY <1>4
<1>11. 1800 * d <= SpaceAt(k)
  BY <1>2, <1>10 DEF c
<1>12. ASSUME short, NEW j \in 1..Len(new) PROVE 1800 * Added(new[j]) <= SpaceAt(j)
  <2>1. CASE j = k
    BY <1>9, <1>11, <2>1 DEF d
  <2>2. CASE j # k
    <3>1. j \in 1..k - 1 /\ j \in 1..Len(pages)
      BY <1>9, <1>a, <2>2
    <3>2. 1800 * Added(pages[j]) <= SpaceAt(j)
      BY <1>12, <3>1 DEF Paged
    <3> QED BY <1>2, <1>9, <3>1, <3>2
  <2> QED BY <2>1, <2>2
<1>13. Paged(new, m + 1, short)
  BY <1>5, <1>8, <1>9, <1>12 DEF Paged
<1>14. 1800 * Added(new[Len(new)]) = 1800 * Added(pages[Len(pages)]) + 1800 * n
  BY <1>2, <1>9, <1>10 DEF c, d
<1> QED BY <1>9, <1>13, <1>14 DEF new, p, f, l

LEMMA PagedEmpty ==
  ASSUME NEW pages, NEW m \in Nat, NEW short \in BOOLEAN, Paged(pages, m, short)
  PROVE  Paged(Append(pages, <<>>), m, short)
<1> DEFINE p == <<>>
           new == Append(pages, p)
           k == Len(pages)
<1>1. pages \in Seq(Seq(Lines)) /\ pages # <<>> /\ p \in Seq(Lines) /\ Len(p) = 0
      /\ Added(Lens(pages)) = m
  BY DEF Paged
<1>2. Added(p) = 0
  BY AddedOne
<1> HIDE DEF p
<1>3. new \in Seq(Seq(Lines)) /\ Added(Lens(new)) = m
  <2>1. new \in Seq(Seq(Lines)) /\ Added(Lens(new)) = Added(Lens(pages)) + Len(p)
    BY <1>1, LensAppend
  <2> HIDE DEF new
  <2> QED BY <1>1, <2>1
<1>4. k \in Nat \ {0} /\ Len(new) = k + 1 /\ new # <<>> /\ new[k + 1] = p
      /\ \A j \in 1..k : new[j] = pages[j]
  <2>1. k \in Nat \ {0}
    BY <1>1
  <2> HIDE DEF new, k
  <2>2. k = Len(pages)
    BY DEF k
  <2> QED BY <1>1, <2>1, <2>2, PagesAppend DEF new
<1> HIDE DEF new
<1>5. ASSUME short, NEW j \in 1..Len(new) PROVE 1800 * Added(new[j]) <= SpaceAt(j)
  <2>1. CASE j = k + 1
    BY <1>2, <1>4, <2>1 DEF SpaceAt
  <2>2. CASE j # k + 1
    <3>1. j \in 1..k
      BY <1>4, <2>2
    <3>2. 1800 * Added(pages[j]) <= SpaceAt(j)
      BY <1>5, <3>1 DEF Paged
    <3> QED BY <1>4, <3>1, <3>2
  <2> QED BY <2>1, <2>2
<1>6. Paged(new, m, short)
  BY <1>3, <1>4, <1>5 DEF Paged
<1> QED BY <1>6 DEF new, p

LEMMA FreshLaid ==
  ASSUME NEW short \in BOOLEAN
  PROVE  Laid(Fresh, 0, short)
<1> DEFINE e == <<>>
           z == <<>>
           pages == Append(e, z)
<1>1. e \in Seq(Seq(Lines)) /\ z \in Seq(Lines) /\ 0 = Len(e) /\ Len(z) = 0
  OBVIOUS
<1>2. Fresh = [pages |-> pages, used |-> 0]
  BY DEF Fresh
<1>3. Added(z) = 0 /\ Added(Lens(e)) = 0
  <2>1. Lens(e) = <<>>
    BY DEF Lens
  <2> QED BY <2>1, AddedOne
<1> HIDE DEF e, z
<1>4. pages \in Seq(Seq(Lines)) /\ Added(Lens(pages)) = Added(Lens(e)) + Len(z)
  BY <1>1, LensAppend
<1>5. pages # <<>> /\ Len(pages) = 0 + 1 /\ pages[0 + 1] = z
  <2> DEFINE n0 == 0
  <2>1. n0 = Len(e) /\ e \in Seq(Seq(Lines)) /\ z \in Seq(Lines) /\ pages = Append(e, z)
    BY <1>1
  <2> HIDE DEF n0, e, z, pages
  <2>2. pages # <<>> /\ Len(pages) = n0 + 1 /\ pages[n0 + 1] = z
    BY <2>1, PagesAppend
  <2> QED BY <2>2 DEF n0
<1> HIDE DEF pages
<1>6. Len(pages) = 1 /\ pages[1] = z /\ Added(Lens(pages)) = 0
  BY <1>1, <1>3, <1>4, <1>5
<1>7. \A j \in 1..Len(pages) : 1800 * Added(pages[j]) <= SpaceAt(j)
  <2> TAKE j \in 1..Len(pages)
  <2>1. j = 1
    BY <1>6
  <2> QED BY <1>3, <1>6, <2>1 DEF SpaceAt
<1>8. Paged(pages, 0, short)
  BY <1>4, <1>5, <1>6, <1>7 DEF Paged
<1>9. 1800 * Added(pages[Len(pages)]) = 0
  BY <1>3, <1>6
<1> QED BY <1>2, <1>8, <1>9 DEF Laid

LEMMA PlaceKeeps ==
  ASSUME NEW acc, NEW m \in Nat, NEW short \in BOOLEAN, Laid(acc, m, short),
         NEW n \in Lines, short => n <= 36
  PROVE  Laid(Place(acc, n), m + 1, short)
<1> DEFINE pages == acc.pages
           k == Len(pages)
           used == 1800 * Added(pages[k])
           same == Append(Front(pages), Append(Last(pages), n))
           new == Append(pages, <<n>>)
<1>1. Paged(pages, m, short) /\ acc.used = used
  BY DEF Laid
<1>2. Space(acc) = SpaceAt(k)
  BY DEF Space, SpaceAt
<1>3. CASE used + 1800 * n <= SpaceAt(k)
  <2>1. Place(acc, n) = [pages |-> same, used |-> used + 1800 * n]
    BY <1>1, <1>2, <1>3 DEF Place
  <2>2. 1800 * Added(pages[Len(pages)]) + 1800 * n <= SpaceAt(Len(pages))
    BY <1>3
  <2>3. Paged(same, m + 1, short) /\ 1800 * Added(same[Len(same)]) = used + 1800 * n
    <3> HIDE DEF pages
    <3> QED BY <1>1, <2>2, PagedSame
  <2> HIDE DEF same, used
  <2>4. Place(acc, n).pages = same /\ Place(acc, n).used = used + 1800 * n
    BY <2>1
  <2> QED BY <2>3, <2>4 DEF Laid
<1>4. CASE ~(used + 1800 * n <= SpaceAt(k))
  <2>1. Place(acc, n) = [pages |-> new, used |-> 1800 * n]
    BY <1>1, <1>2, <1>4 DEF Place
  <2>2. Paged(new, m + 1, short)
    <3> HIDE DEF pages
    <3> QED BY <1>1, PagedNew
  <2>3. new[Len(new)] = <<n>>
    <3>1. pages \in Seq(Seq(Lines)) /\ <<n>> \in Seq(Lines)
      BY <1>1 DEF Paged
    <3> DEFINE p == <<n>>
    <3>2. k = Len(pages) /\ new = Append(pages, p)
      OBVIOUS
    <3> HIDE DEF pages, k, p, new
    <3>3. Len(Append(pages, p)) = k + 1 /\ Append(pages, p)[k + 1] = p
      BY <3>1, <3>2, PagesAppend DEF p
    <3> QED BY <3>2, <3>3 DEF p
  <2>4. Added(<<n>>) = n
    BY AddedOne DEF Lines
  <2> HIDE DEF new
  <2>5. Place(acc, n).pages = new /\ Place(acc, n).used = 1800 * n
    BY <2>1
  <2> QED BY <2>2, <2>3, <2>4, <2>5 DEF Laid
<1> QED BY <1>3, <1>4

\* No name is longer than a page.
ShortNames(names) == \A i \in DOMAIN names : names[i] <= PageName

LEMMA StatementPagesIs ==
  ASSUME NEW names \in Seq(Lines)
  PROVE  LET pages == StatementPages(names)
         IN /\ Paged(pages, Len(names), ShortNames(names))
            /\ 1800 * Added(pages[Len(pages)]) + 4400 <= SpaceAt(Len(pages))
<1> DEFINE short == ShortNames(names)
           N == Len(names)
<1>1. N \in Nat /\ short \in BOOLEAN /\ \A i \in 1..N : names[i] \in Lines
  BY DEF ShortNames
<1>2. \A i \in 1..N : short => names[i] <= 36
  BY DEF ShortNames, PageName
<1> HIDE DEF short
<1>3. PICK g : Accounts(names, g)
  BY SplitIs
<1>4. /\ g[0] = Fresh /\ \A i \in 1..N : g[i] = Place(g[i - 1], names[i])
      /\ StatementPages(names)
           = g[N].pages \o When(g[N].used + 4400 > Space(g[N]), <<<<>>>>)
  BY <1>3 DEF Accounts
<1> HIDE DEF N
<1> DEFINE S == {i \in Nat : i \in 0..N => Laid(g[i], i, short)}
<1>5. 0 \in S
  BY <1>1, <1>4, FreshLaid
<1>6. ASSUME NEW i \in Nat \ {0}, i - 1 \in S PROVE i \in S
  <2> SUFFICES ASSUME i \in 0..N PROVE Laid(g[i], i, short)
    OBVIOUS
  <2> DEFINE m == i - 1
  <2>1. i \in 1..N /\ m \in 0..N /\ m \in Nat /\ m + 1 = i
    BY <1>1
  <2>2. Laid(g[m], m, short)
    BY <1>6, <2>1
  <2>3. g[i] = Place(g[m], names[i])
    BY <1>4, <2>1
  <2> HIDE DEF m
  <2>4. Laid(Place(g[m], names[i]), m + 1, short)
    BY <1>1, <1>2, <2>1, <2>2, PlaceKeeps
  <2> QED BY <2>1, <2>3, <2>4
<1>7. Nat \subseteq S
  <2> HIDE DEF S
  <2> QED BY <1>5, <1>6, Upward
<1>8. Laid(g[N], N, short)
  <2>1. N \in S
    BY <1>1, <1>7
  <2>2. N \in 0..N
    BY <1>1
  <2> QED BY <2>1, <2>2
<1> DEFINE acc == g[N]
           pages == acc.pages
           k == Len(pages)
           used == 1800 * Added(pages[k])
           all == StatementPages(names)
<1> HIDE DEF S, acc
<1>9. Paged(pages, N, short) /\ acc.used = used
  BY <1>8 DEF Laid, acc
<1>10. Space(acc) = SpaceAt(k)
  BY DEF Space, SpaceAt
<1>11. pages \in Seq(Seq(Lines)) /\ pages # <<>> /\ k \in Nat \ {0}
  BY <1>9 DEF Paged
<1>12. used \in Nat
  <2>1. pages[k] \in Seq(Nat)
    <3>1. k \in 1..Len(pages)
      BY <1>11
    <3> HIDE DEF pages, k
    <3> QED BY <1>11, <3>1, LensNat
  <2>2. Added(pages[k]) \in Nat
    BY <2>1, AddedNat
  <2> QED BY <2>2
<1>13. CASE used + 4400 > SpaceAt(k)
  <2> DEFINE z == <<>>
             new == Append(pages, z)
  <2>1. all = pages \o <<z>>
    BY SMTT(30), <1>4, <1>9, <1>10, <1>13 DEF When, acc
  <2>2. pages \o <<z>> = new
    BY <1>11
  <2>3. Paged(new, N, short)
    <3> HIDE DEF pages
    <3> QED BY <1>1, <1>9, PagedEmpty
  <2>4a. Added(z) = 0
    BY AddedOne
  <2>4. z \in Seq(Lines) /\ k = Len(pages)
    OBVIOUS
  <2> HIDE DEF z, pages, k
  <2>5. Len(new) = k + 1 /\ new[k + 1] = z
    BY <1>11, <2>4, PagesAppend
  <2> HIDE DEF new
  <2>6. SpaceAt(Len(new)) = 65000
    BY <1>11, <2>5 DEF SpaceAt
  <2>7. 1800 * Added(new[Len(new)]) + 4400 <= SpaceAt(Len(new))
    BY <2>4, <2>4a, <2>5, <2>6
  <2>8. all = new
    BY <2>1, <2>2
  <2> HIDE DEF all
  <2> QED BY <2>3, <2>7, <2>8 DEF N, all, short
<1>14. CASE ~(used + 4400 > SpaceAt(k))
  <2>1. all = pages \o <<>>
    BY <1>4, <1>9, <1>10, <1>14 DEF When, acc
  <2>2. pages \o <<>> = pages
    BY <1>11
  <2>3. used + 4400 <= SpaceAt(k)
    BY <1>12, <1>14 DEF SpaceAt
  <2> HIDE DEF all
  <2> QED BY <1>9, <2>1, <2>2, <2>3 DEF N, all, short
<1> QED BY <1>13, <1>14

-----------------------------------------------------------------------------
(***************************************************************************)
(* summary_statement: what is drawn on those pages.                        *)
(***************************************************************************)

\* Lines down a page, where the room for all of them is known or no floor is
\* promised.
LEMMA PlainsTo ==
  ASSUME NEW k \in Frames, NEW a \in Resting, NEW m \in Nat, NEW step \in Nat \ {0},
         NEW f, \A i \in 0..m : f[i] \in Int,
         \A i \in 1..m : f[i] = f[i - 1] - step /\ (k.strict => f[i - 1] + k.front >= 0)
  PROVE  Rule(k, In(k, Roomy(a, f[0])), Times(m, Plain(step)), In(k, Roomy(a, f[m])))
<1> DEFINE I == [i \in 0..m |-> In(k, Roomy(a, f[i]))]
           op == Plain(step)
<1>1. ASSUME NEW i \in 1..m PROVE Rule(k, I[i - 1], <<op>>, I[i])
  <2>1. i - 1 \in 0..m /\ i \in 0..m
    OBVIOUS
  <2>2. f[i - 1] \in Int /\ f[i] \in Int /\ f[i] = f[i - 1] - step
        /\ (k.strict => f[i - 1] + k.front >= 0)
    BY <2>1
  <2>3. I[i - 1] = In(k, Roomy(a, f[i - 1])) /\ I[i] = In(k, Roomy(a, f[i]))
    BY <2>1
  <2> HIDE DEF I
  <2> QED BY <2>2, <2>3, PlainTo
<1>2. op \in Command
  BY PlainIs DEF Is
<1>3. I[0] = In(k, Roomy(a, f[0])) /\ I[m] = In(k, Roomy(a, f[m]))
  OBVIOUS
<1> HIDE DEF I, op
<1>4. Rule(k, I[0], Times(m, op), I[m])
  BY <1>1, <1>2, RuleAgain
<1> QED BY <1>3, <1>4 DEF op

\* The lines of one account, where there is room for all of them.
LEMMA StatementRowRule ==
  ASSUME NEW k \in Frames, NEW a \in Resting, NEW n \in Lines, NEW x \in Int,
         NEW y \in Int, y = x - 1800 * n, k.strict => y >= 0
  PROVE  Rule(k, In(k, Roomy(a, x)), StatementRow(n), In(k, Roomy(Counted(a, 1), y)))
<1> DEFINE step == 1800
           c == Counted(a, 1)
           m == n - 1
           f == [i \in 0..m |-> x - 1800 - 1800 * i]
<1>1. n \in Nat /\ m \in Nat /\ step \in Nat \ {0} /\ k.front \in Nat
  BY FramesAre DEF Lines
<1>2. c \in Resting
  BY CountedFacts
<1>3. /\ \A i \in 0..m : f[i] \in Int
      /\ f[0] = x - step /\ f[m] = y
      /\ \A i \in 1..m : f[i] = f[i - 1] - step /\ (k.strict => f[i - 1] >= 0)
  BY <1>1
<1>4. k.strict => x >= 0
  BY <1>1
<1> HIDE DEF f
<1>5. Rule(k, In(k, Roomy(a, x)), <<PlainRow(step)>>, In(k, Roomy(c, f[0])))
  <2>1. 0 \in 0..m
    BY <1>1
  <2>2. f[0] \in Int /\ f[0] = x - step
    BY <1>3, <2>1
  <2>3. k.strict => x + k.front >= 0 \/ (a.later /\ x + k.back >= 0)
    BY <1>1, <1>4
  <2> HIDE DEF step
  <2> QED BY <1>1, <2>2, <2>3, PlainRowTo
<1>6. Rule(k, In(k, Roomy(c, f[0])), Times(m, Plain(step)), In(k, Roomy(c, f[m])))
  <2>1. \A i \in 1..m : f[i] = f[i - 1] - step /\ (k.strict => f[i - 1] + k.front >= 0)
    <3> TAKE i \in 1..m
    <3>1. i - 1 \in 0..m
      BY <1>1
    <3> QED BY <1>1, <1>3, <3>1
  <2>2. \A i \in 0..m : f[i] \in Int
    BY <1>3
  <2>3. m \in Nat /\ step \in Nat \ {0}
    BY <1>1
  <2> HIDE DEF c, m, step
  <2> QED BY <1>2, <2>1, <2>2, <2>3, PlainsTo
<1>7. StatementRow(n) = <<PlainRow(step)>> \o Times(m, Plain(step))
  BY DEF StatementRow, PlainRow
<1>8. f[m] = y
  BY <1>3
<1> HIDE DEF step, c, m
<1>9. Rule(k, In(k, Roomy(a, x)), <<PlainRow(step)>> \o Times(m, Plain(step)), In(k, Roomy(c, f[m])))
  BY <1>5, <1>6, RuleJoin
<1> QED BY <1>7, <1>8, <1>9 DEF c

\* A sequence of blocks, which may be empty.
LEMMA RuleChain ==
  ASSUME NEW k, NEW n \in Nat, NEW ss, Len(ss) = n, n = 0 => ss = <<>>, NEW I,
         \A i \in 1..n : Rule(k, I[i - 1], ss[i], I[i])
  PROVE  Rule(k, I[0], FlattenSeq(ss), I[n])
<1>0. Len(ss) = n
  OBVIOUS
<1>1. CASE n = 0
  <2>1. ss = <<>> /\ FlattenSeq(ss) = ss
    BY <1>0, <1>1 DEF FlattenSeq
  <2>2. I[0] = I[n]
    BY <1>1
  <2> QED BY <2>1, <2>2, RuleEmpty
<1>2. CASE n # 0
  <2>1. Rule(k, I[0], FlattenSeq(ss), I[Len(ss)])
    BY <1>0, <1>2, RuleBlocks
  <2> QED BY <1>0, <2>1
<1> QED BY <1>1, <1>2

\* The room left below the first lines of a page.
LEMMA Sinks ==
  ASSUME NEW x \in Int, NEW p \in Nat, NEW q \in Nat, NEW r \in Nat, p + q <= r,
         NEW u, u = x - 1800 * p, NEW v, v = x - 1800 * (p + q),
         NEW strict, strict => 1800 * r <= x
  PROVE  u \in Int /\ v \in Int /\ v = u - 1800 * q /\ (strict => v >= 0)
OBVIOUS

\* What is drawn of one page of accounts.
AccountOps(page) == Each(page, StatementRow)

\* The accounts of one page, one after the other.
LEMMA StatementChain ==
  ASSUME NEW k, NEW page \in Seq(Lines), NEW I,
         \A i \in 1..Len(page) : Rule(k, I[i - 1], StatementRow(page[i]), I[i])
  PROVE  Rule(k, I[0], AccountOps(page), I[Len(page)])
<1> DEFINE n == Len(page)
           ss == [i \in 1..n |-> StatementRow(page[i])]
<1>1. n \in Nat
  OBVIOUS
<1>2. AccountOps(page) = FlattenSeq(ss)
  BY DEF AccountOps, Each, Join
<1>3. Len(ss) = n /\ (n = 0 => ss = <<>>) /\ \A i \in 1..n : ss[i] = StatementRow(page[i])
  BY <1>1
<1> HIDE DEF ss
<1>4. \A i \in 1..n : Rule(k, I[i - 1], ss[i], I[i])
  BY <1>3
<1> HIDE DEF n
<1>5. Rule(k, I[0], FlattenSeq(ss), I[n])
  BY <1>1, <1>3, <1>4, RuleChain
<1> QED BY <1>2, <1>5 DEF n

\* The room f[i] that is left after the first i accounts of a page.
Sinking(k, page, f) ==
  /\ \A i \in 0..Len(page) : f[i] \in Int
  /\ \A i \in 1..Len(page) : f[i] = f[i - 1] - 1800 * page[i] /\ (k.strict => f[i] >= 0)

\* The accounts of one page, where the room for each is known.
LEMMA StatementBlocks ==
  ASSUME NEW k \in Frames, NEW a \in Resting, NEW page \in Seq(Lines), NEW f,
         Sinking(k, page, f)
  PROVE  Rule(k, In(k, Roomy(a, f[0])), AccountOps(page),
              In(k, Roomy(Counted(a, Len(page)), f[Len(page)])))
<1> DEFINE n == Len(page)
<1>1. n \in Nat /\ \A i \in 1..n : page[i] \in Lines
  BY DEF Lines
<1>8. 0 \in 0..n /\ n \in 0..n
  BY <1>1
<1>11. ASSUME NEW i \in 1..n
       PROVE  /\ f[i - 1] \in Int /\ f[i] \in Int
              /\ f[i] = f[i - 1] - 1800 * page[i] /\ (k.strict => f[i] >= 0)
  <2>1. i - 1 \in 0..n /\ i \in 0..n
    BY <1>1
  <2> QED BY <2>1 DEF Sinking
<1> DEFINE I == [i \in 0..n |-> In(k, Roomy(Counted(a, i), f[i]))]
<1>12. ASSUME NEW i \in 1..n PROVE Rule(k, I[i - 1], StatementRow(page[i]), I[i])
  <2> DEFINE j == i - 1
             c == Counted(a, j)
             d == Counted(c, 1)
             u == f[j]
             v == f[i]
             t == page[i]
  <2>1. j \in 0..n /\ i \in 0..n /\ j \in Nat /\ j + 1 = i /\ 1 \in Nat
    BY <1>1
  <2>2. c \in Resting /\ d = Counted(a, i)
    <3>1. c \in Resting
      BY <2>1, CountedFacts
    <3>2. d = Counted(a, j + 1)
      BY <2>1, CountedTwice, RestingFacts
    <3> QED BY <2>1, <3>1, <3>2
  <2>3. I[j] = In(k, Roomy(c, u)) /\ I[i] = In(k, Roomy(d, v))
    BY <2>1, <2>2
  <2>4. u \in Int /\ v \in Int /\ v = u - 1800 * t /\ (k.strict => v >= 0)
    BY <1>11
  <2>5. t \in Lines
    BY <1>1
  <2> HIDE DEF c, d, u, v, t, I
  <2>6. Rule(k, In(k, Roomy(c, u)), StatementRow(t), In(k, Roomy(d, v)))
    BY <2>2, <2>4, <2>5, StatementRowRule DEF d
  <2> QED BY <2>3, <2>6 DEF t
<1>13. I[0] = In(k, Roomy(a, f[0])) /\ I[n] = In(k, Roomy(Counted(a, n), f[n]))
  <2>1. Counted(a, 0) = a
    BY FactsOf, RestingFacts
  <2> QED BY <1>8, <2>1
<1> HIDE DEF I
<1>14. Rule(k, I[0], AccountOps(page), I[n])
  BY <1>12, StatementChain
<1> QED BY <1>13, <1>14

\* The accounts of one page.
LEMMA StatementPageRule ==
  ASSUME NEW k \in Frames, NEW a \in Resting, NEW page \in Seq(Lines), NEW x \in Int,
         NEW y, y = x - 1800 * Added(page), k.strict => 1800 * Added(page) <= x
  PROVE  /\ y \in Int
         /\ Rule(k, In(k, Roomy(a, x)), AccountOps(page),
                 In(k, Roomy(Counted(a, Len(page)), y)))
<1> DEFINE n == Len(page)
<1>1. n \in Nat /\ page \in Seq(Nat) /\ \A i \in 1..n : page[i] \in Lines /\ page[i] \in Nat
  BY DEF Lines
<1>4. PICK g \in [0..n -> Nat] : Sums(page, g) /\ Added(page) = g[n]
  BY <1>1, AddedIs
<1>5. g[0] = 0 /\ \A i \in 1..n : g[i] = g[i - 1] + page[i]
  BY <1>4 DEF Sums
<1>6. \A i \in 0..n : g[i] <= g[n] /\ g[i] \in Nat
  <2> TAKE i \in 0..n
  <2>1. page \in Seq(Nat)
    BY <1>1
  <2>2. g[i] <= g[Len(page)]
    BY SMTT(30), <2>1, <1>4, SumsGrow
  <2> QED BY <1>4, <2>2
<1> HIDE DEF n
<1> DEFINE f == [i \in 0..n |-> x - 1800 * g[i]]
<1>7. \A i \in 0..n : f[i] = x - 1800 * g[i]
  OBVIOUS
<1> HIDE DEF f
<1>8. 0 \in 0..n /\ n \in 0..n
  BY <1>1
<1>9. f[0] = x
  <2>1. f[0] = x - 1800 * 0
    BY <1>5, <1>7, <1>8
  <2> QED BY <2>1
<1>10. f[n] = y /\ y \in Int
  <2>1. f[n] = x - 1800 * g[n] /\ g[n] \in Nat
    BY <1>6, <1>7, <1>8
  <2> QED BY <1>4, <2>1
<1>11. ASSUME NEW i \in 1..n
       PROVE  /\ f[i - 1] \in Int /\ f[i] \in Int
              /\ f[i] = f[i - 1] - 1800 * page[i] /\ (k.strict => f[i] >= 0)
  <2> DEFINE p == g[i - 1]
             q == page[i]
             r == g[n]
             u == f[i - 1]
             v == f[i]
  <2>1. i - 1 \in 0..n /\ i \in 0..n
    BY <1>1
  <2>2. p \in Nat /\ q \in Nat /\ r \in Nat /\ g[i] = p + q
    BY <1>1, <1>5, <1>6, <1>8, <2>1
  <2>3. p + q <= r
    BY <1>6, <2>1, <2>2
  <2>4. u = x - 1800 * p
    BY <1>7, <2>1
  <2>5. v = x - 1800 * (p + q)
    BY <1>7, <2>1, <2>2
  <2>6. k.strict => 1800 * r <= x
    BY <1>4
  <2> HIDE DEF p, q, r, u, v
  <2>7. u \in Int /\ v \in Int /\ v = u - 1800 * q /\ (k.strict => v >= 0)
    BY <2>2, <2>3, <2>4, <2>5, <2>6, Sinks
  <2> QED BY <2>7 DEF q, u, v
<1>12. \A i \in 0..Len(page) : f[i] \in Int
  <2> TAKE i \in 0..Len(page)
  <2>1. f[i] = x - 1800 * g[i] /\ g[i] \in Nat
    BY <1>6, <1>7 DEF n
  <2> QED BY <2>1
<1>13. \A i \in 1..Len(page) : f[i] = f[i - 1] - 1800 * page[i] /\ (k.strict => f[i] >= 0)
  BY <1>11 DEF n
<1>14. Rule(k, In(k, Roomy(a, f[0])), AccountOps(page),
            In(k, Roomy(Counted(a, Len(page)), f[Len(page)])))
  BY <1>12, <1>13, StatementBlocks DEF Sinking
<1> QED BY <1>9, <1>10, <1>14 DEF n

\* A page of a statement, from the top of it or from the page before it.
StatementOps(page, j) == When(j > 1, <<FreshPage(75000)>>) \o AccountOps(page)
Remains(page, j) == SpaceAt(j) - 1800 * Added(page)

LEMMA StatementPartRule ==
  ASSUME NEW k \in Frames, k.low2 = 10000, NEW a \in Resting, NEW j \in Nat \ {0},
         NEW page \in Seq(Lines), k.strict => 1800 * Added(page) <= SpaceAt(j)
  PROVE  /\ Remains(page, j) \in Int
         /\ Rule(k, IF j = 1 THEN In(k, Roomy(a, 50000)) ELSE In(k, a), StatementOps(page, j),
                 In(k, Roomy(Counted(a, Len(page)), Remains(page, j))))
<1> DEFINE x == SpaceAt(j)
           y == Remains(page, j)
           P == IF j = 1 THEN In(k, Roomy(a, 50000)) ELSE In(k, a)
           first == When(j > 1, <<FreshPage(75000)>>)
<1>1. x \in Int /\ y = x - 1800 * Added(page)
  BY DEF SpaceAt, Remains
<1>2. Rule(k, P, first, In(k, Roomy(a, x)))
  <2>1. CASE j = 1
    <3>1. x = 50000 /\ first = <<>>
      BY <2>1 DEF SpaceAt, When
    <3> HIDE DEF x, first
    <3> QED BY <2>1, <3>1, RuleEmpty
  <2>2. CASE j # 1
    <3>1. x = 65000 /\ first = <<FreshPage(75000)>> /\ P = In(k, a)
      BY <2>2 DEF SpaceAt, When
    <3> DEFINE b == Roomy(a, x)
               height == 75000
    <3>2. b \in Facts /\ b.two = a.two /\ b.rows = a.rows /\ b.room = x
      BY <1>1, RoomyFacts
    <3>3. b.known => b.room <= height - k.low2
      BY <3>1, <3>2
    <3>4. height \in Int
      OBVIOUS
    <3> HIDE DEF x, first, b, P, height
    <3>5. Rule(k, In(k, a), <<FreshPage(height)>>, In(k, b))
      BY <3>2, <3>3, <3>4, FreshPageRule
    <3> QED BY <3>1, <3>5 DEF b, height
  <2> QED BY <2>1, <2>2
<1> HIDE DEF x, y, P, first
<1>3. /\ y \in Int
      /\ Rule(k, In(k, Roomy(a, x)), AccountOps(page), In(k, Roomy(Counted(a, Len(page)), y)))
  <2>1. k.strict => 1800 * Added(page) <= x
    BY DEF x
  <2> QED BY <1>1, <2>1, StatementPageRule
<1>4. Rule(k, P, first \o AccountOps(page), In(k, Roomy(Counted(a, Len(page)), y)))
  BY <1>2, <1>3, RuleJoin
<1> QED BY <1>3, <1>4 DEF StatementOps, first, P, y

\* All the pages of a statement.
StatementOpsOf(pages) == FlattenSeq([j \in 1..Len(pages) |-> StatementOps(pages[j], j)])

\* What is known after the first j pages, with g the accounts up to there.
Reached(k, a, pages, g, j) ==
  IF j = 0 THEN In(k, Roomy(a, 50000))
  ELSE In(k, Roomy(Counted(a, g[j]), Remains(pages[j], j)))

\* The frame of a statement; names that are too long are not promised a floor.
StatementFrame(k, short) == k \in Frames /\ k.low2 = 10000 /\ (k.strict => short)
SummedBy(ns, g) == g \in [0..Len(ns) -> Nat] /\ Sums(ns, g) /\ Added(ns) = g[Len(ns)]

LEMMA StatementStep ==
  ASSUME NEW k, NEW short \in BOOLEAN, StatementFrame(k, short), NEW a \in Resting,
         NEW m, NEW pages, Paged(pages, m, short), NEW g, SummedBy(Lens(pages), g),
         NEW j \in 1..Len(pages)
  PROVE  Rule(k, Reached(k, a, pages, g, j - 1), StatementOps(pages[j], j),
              Reached(k, a, pages, g, j))
<1> DEFINE page == pages[j]
           i == j - 1
           c == Counted(a, g[i])
           d == Counted(a, g[j])
           y == Remains(page, j)
<1>0. pages \in Seq(Seq(Lines)) /\ k \in Frames /\ k.low2 = 10000
  BY DEF Paged, StatementFrame
<1>1. i \in 0..Len(pages) /\ j \in Nat \ {0} /\ j \in 0..Len(pages) /\ i \in Nat /\ (i = 0 <=> j = 1)
  BY <1>0
<1>2. page \in Seq(Lines) /\ Len(page) \in Nat
  BY <1>0
<1>3. g[j] = g[i] + Len(page) /\ g[0] = 0 /\ g[i] \in Nat
  <2>1. Len(Lens(pages)) = Len(pages) /\ Lens(pages)[j] = Len(page)
    BY <1>0, LensNat
  <2> QED BY <1>1, <2>1 DEF SummedBy, Sums
<1>4. c \in Resting /\ d = Counted(c, Len(page))
  <2> DEFINE u == g[i]
             n == Len(page)
  <2>1. u \in Nat /\ n \in Nat /\ g[j] = u + n
    BY <1>2, <1>3
  <2> HIDE DEF u, n
  <2>2. Counted(a, u) \in Resting
    BY <2>1, CountedFacts
  <2>3. a \in Facts
    BY RestingFacts
  <2>4. Counted(Counted(a, u), n) = Counted(a, u + n)
    BY <2>1, <2>3, CountedTwice
  <2> QED BY <2>1, <2>2, <2>4 DEF u, n
<1> DEFINE P == IF j = 1 THEN In(k, Roomy(c, 50000)) ELSE In(k, c)
<1>5. Reached(k, a, pages, g, i) \subseteq P
  <2>1. CASE j = 1
    <3>1. i = 0 /\ Reached(k, a, pages, g, 0) = In(k, Roomy(a, 50000)) /\ g[i] = 0
      BY <1>1, <1>3, <2>1 DEF Reached
    <3>2. c = a
      BY <3>1, FactsOf, RestingFacts
    <3> QED BY <2>1, <3>1, <3>2
  <2>2. CASE j # 1
    <3> DEFINE z == Remains(pages[i], i)
    <3>1. i # 0 /\ Reached(k, a, pages, g, i) = In(k, Roomy(c, z))
      BY <1>1, <2>2 DEF Reached
    <3>2. z \in Int
      <4>1. i \in 1..Len(pages)
        BY <1>1, <3>1
      <4>2. pages[i] \in Seq(Nat)
        <5> HIDE DEF i
        <5> QED BY <1>0, <4>1, LensNat
      <4>3. Added(pages[i]) \in Nat
        BY <4>2, AddedNat
      <4> QED BY <4>3 DEF Remains, SpaceAt
    <3>3. k \in Frame
      BY <1>0, FramesAre
    <3>4. P = In(k, c)
      BY <2>2
    <3> HIDE DEF z, c, P, i
    <3>5. In(k, Roomy(c, z)) \subseteq In(k, c)
      BY <1>4, <3>2, <3>3, RoomyIsRest
    <3> QED BY <3>1, <3>4, <3>5
  <2> QED BY <2>1, <2>2
<1>6. Reached(k, a, pages, g, j) = In(k, Roomy(d, y))
  BY <1>1 DEF Reached
<1>7. k.strict => 1800 * Added(page) <= SpaceAt(j)
  BY DEF Paged, StatementFrame
<1> HIDE DEF c, page, d
<1>8. Rule(k, P, StatementOps(page, j), In(k, Roomy(Counted(c, Len(page)), y)))
  <2> HIDE DEF i
  <2> QED BY <1>0, <1>1, <1>2, <1>4, <1>7, StatementPartRule
<1> HIDE DEF P
<1>9. Rule(k, P, StatementOps(page, j), In(k, Roomy(d, y)))
  BY <1>4, <1>8
<1> HIDE DEF y, i
<1>10. Rule(k, Reached(k, a, pages, g, i), StatementOps(page, j), Reached(k, a, pages, g, j))
  <2>1. Reached(k, a, pages, g, j) \subseteq Reached(k, a, pages, g, j)
    OBVIOUS
  <2> QED BY <1>5, <1>6, <1>9, RuleWeaken
<1> QED BY <1>10 DEF i, page

LEMMA StatementOpsChain ==
  ASSUME NEW k, NEW pages \in Seq(Seq(Lines)), NEW I,
         \A j \in 1..Len(pages) : Rule(k, I[j - 1], StatementOps(pages[j], j), I[j])
  PROVE  Rule(k, I[0], StatementOpsOf(pages), I[Len(pages)])
<1> DEFINE n == Len(pages)
           ss == [j \in 1..n |-> StatementOps(pages[j], j)]
<1>1. n \in Nat
  OBVIOUS
<1>2. StatementOpsOf(pages) = FlattenSeq(ss)
  BY DEF StatementOpsOf
<1>3. Len(ss) = n /\ (n = 0 => ss = <<>>) /\ \A j \in 1..n : ss[j] = StatementOps(pages[j], j)
  BY <1>1
<1> HIDE DEF ss
<1>4. \A i \in 1..n : Rule(k, I[i - 1], ss[i], I[i])
  BY <1>3
<1> HIDE DEF n
<1>5. Rule(k, I[0], FlattenSeq(ss), I[n])
  BY <1>1, <1>3, <1>4, RuleChain
<1> QED BY <1>2, <1>5 DEF n

LEMMA StatementPagesRule ==
  ASSUME NEW k, NEW short \in BOOLEAN, StatementFrame(k, short), NEW a \in Resting,
         NEW m, NEW pages, Paged(pages, m, short)
  PROVE  LET n == Len(pages)
         IN Rule(k, In(k, Roomy(a, 50000)), StatementOpsOf(pages),
                 In(k, Roomy(Counted(a, m), Remains(pages[n], n))))
<1> DEFINE n == Len(pages)
           ns == Lens(pages)
<1>1. pages \in Seq(Seq(Lines)) /\ n \in Nat \ {0} /\ Added(ns) = m
      /\ (short => \A j \in 1..n : 1800 * Added(pages[j]) <= SpaceAt(j))
  BY DEF Paged
<1>2. ns \in Seq(Nat) /\ Len(ns) = n
  BY <1>1, LensNat
<1>3. PICK g : SummedBy(ns, g)
  BY <1>2, AddedIs DEF SummedBy
<1>4. (\A i \in 0..n : g[i] \in Nat) /\ g[n] = m
  <2>1. \A i \in 0..n : g[i] \in Nat
    BY <1>2, <1>3 DEF SummedBy
  <2>2. g[n] = m
    BY <1>1, <1>2, <1>3 DEF SummedBy
  <2> QED BY <2>1, <2>2
<1> DEFINE I == [j \in 0..n |-> Reached(k, a, pages, g, j)]
<1>5. ASSUME NEW j \in 1..n PROVE Rule(k, I[j - 1], StatementOps(pages[j], j), I[j])
  <2>1. j - 1 \in 0..n /\ j \in 0..n
    BY <1>1
  <2>4. I[j - 1] = Reached(k, a, pages, g, j - 1) /\ I[j] = Reached(k, a, pages, g, j)
    BY <2>1
  <2> HIDE DEF I
  <2>5. Rule(k, Reached(k, a, pages, g, j - 1), StatementOps(pages[j], j), Reached(k, a, pages, g, j))
    BY <1>3, StatementStep
  <2> QED BY <2>4, <2>5
<1>6. /\ I[0] = In(k, Roomy(a, 50000))
      /\ I[n] = In(k, Roomy(Counted(a, m), Remains(pages[n], n)))
  <2>1. 0 \in 0..n /\ n \in 0..n /\ n # 0
    BY <1>1
  <2> QED BY <1>4, <2>1 DEF Reached
<1> HIDE DEF I, ns
<1>7. Rule(k, I[0], StatementOpsOf(pages), I[n])
  <2>1. pages \in Seq(Seq(Lines))
    BY <1>1
  <2>2. \A j \in 1..Len(pages) : Rule(k, I[j - 1], StatementOps(pages[j], j), I[j])
    BY <1>5
  <2>3. Rule(k, I[0], StatementOpsOf(pages), I[Len(pages)])
    BY <2>1, <2>2, StatementOpsChain
  <2> QED BY <2>3
<1> QED BY <1>6, <1>7

\* The last line of a bill, after which nothing is asked of the flow.
LEMMA LastPlain ==
  ASSUME NEW k \in Frames, NEW a \in Resting, NEW x \in Int, x >= 0
  PROVE  Rule(k, In(k, Roomy(a, x)), <<Plain(0)>>, {s \in Spot : s.rows = a.rows})
<1> DEFINE op == Plain(0)
           b == Roomy(a, x)
           Q == {s \in Spot : s.rows = a.rows}
<1>1. Is(op, "plain", 0, 0, 0, "line")
  BY PlainIs
<1>2. b.free /\ b.known /\ ~b.off /\ b.room = x /\ b.rows = a.rows
  BY RoomyFacts
<1> HIDE DEF op, b
<1>3. ASSUME NEW s \in In(k, b) PROVE Good(k, s, op) /\ Step(k, s, op) \in Q
  <2> DEFINE c == s.cursor
             at == s.line
             new == LineAt(k, c, op)
             e == After(c, k, op)
  <2>1. s \in Spot /\ c \in Cursor /\ at \in Line /\ s.rows \in Nat /\ Holds(k, b, s)
    BY SpotIn
  <2>2. /\ s.rows = a.rows /\ (at.page = 0 \/ Follows(at, c)) /\ ~(at.heads /\ at.found)
        /\ c.y - x >= Floor(k, c.page)
    BY <1>2, <2>1 DEF Holds
  <2>3. op \in Command /\ op.act = "plain" /\ op.step = 0 /\ op.drop = 0 /\ op.need = 0
        /\ ~op.row /\ op.heads \in BOOLEAN
    BY <1>1 DEF Is, Command
  <2>4. Placed(c, k, op) = c
    BY <2>3 DEF Placed
  <2>5. k \in Frame /\ k.low1 \in Int /\ k.low2 \in Int /\ k.part \in Nat /\ k.front \in Nat
    BY FramesAre DEF Frame
  <2>6. c.page \in Nat \ {0} /\ c.col \in {1, 2} /\ c.y \in Int
    BY <2>1 DEF Cursor
  <2>7. e = c
    <3>1. e = [c EXCEPT !.y = @ - 0]
      BY <2>3, <2>4 DEF After
    <3>2. [c EXCEPT !.y = @ - 0] = c
      BY <2>1, <2>6 DEF Cursor
    <3> QED BY <3>1, <3>2
  <2>8. /\ new = [page |-> c.page, col |-> c.col, y |-> c.y, part |-> k.part,
                  over |-> Low(c, k) - c.y, heads |-> op.heads,
                  found |-> c.y + 0 - 0 >= Low(c, k)]
        /\ Low(c, k) = Floor(k, c.page) /\ Low(c, k) \in Int
    BY <2>3, <2>4, <2>5 DEF LineAt, Low, Floor
  <2> HIDE DEF new, e
  <2>9. new \in Line
    BY <2>3, <2>5, <2>6, <2>8 DEF Line
  <2>10. new.page = c.page /\ new.col = c.col /\ new.y = c.y /\ new.over <= k.front
    <3>1. new.over = Low(c, k) - c.y
      BY <2>8
    <3>2. Low(c, k) - c.y <= 0
      BY <2>2, <2>6, <2>8
    <3> QED BY <2>5, <2>6, <2>8, <3>1, <3>2
  <2>11. Good(k, s, op)
    <3>1. at.page > 0 => Follows(at, new)
      BY <2>1, <2>2, <2>10 DEF Follows, Line
    <3> QED BY <2>2, <2>10, <3>1 DEF Good, Within, new
  <2>12. Step(k, s, op) = [cursor |-> c, line |-> new, rows |-> s.rows]
    BY <2>3, <2>7 DEF Step, Writes, Draws, new, e
  <2>13. Step(k, s, op) \in Q
    BY <2>1, <2>2, <2>9, <2>12 DEF Spot
  <2> QED BY <2>11, <2>13
<1>4. op \in Command
  BY <1>1 DEF Is
<1> HIDE DEF Q
<1>5. Rule(k, In(k, b), <<op>>, Q)
  BY <1>3, <1>4, RuleOne
<1> QED BY <1>5 DEF b, op, Q

LEMMA StatementTotalsRule ==
  ASSUME NEW k \in Frames, NEW a \in Resting, NEW x \in Int, x >= 3000
  PROVE  Rule(k, In(k, Roomy(a, x)), StatementTotals, {s \in Spot : s.rows = a.rows})
<1> DEFINE y == x - 3000
           step == 3000
           Q == {s \in Spot : s.rows = a.rows}
<1>1. y \in Int /\ y >= 0 /\ y = x - step /\ step \in Nat
  OBVIOUS
<1>2. StatementTotals = <<Gap(step)>> \o <<Plain(0)>>
  BY DEF StatementTotals
<1> HIDE DEF y, step
<1>3. Rule(k, In(k, Roomy(a, x)), <<Gap(step)>>, In(k, Roomy(a, y)))
  BY <1>1, GapTo
<1>4. Rule(k, In(k, Roomy(a, y)), <<Plain(0)>>, Q)
  BY <1>1, LastPlain
<1> HIDE DEF Q
<1>5. Rule(k, In(k, Roomy(a, x)), <<Gap(step)>> \o <<Plain(0)>>, Q)
  BY <1>3, <1>4, RuleJoin
<1> QED BY <1>2, <1>5 DEF Q

\* The spots at which n rows have been drawn.
Shows(n) == {s \in Spot : s.rows = n}

\* The statement: every account once, and no line below the floor when no
\* name is longer than a page.
LEMMA SummaryStatementRule ==
  ASSUME NEW k, NEW a \in Resting, NEW b \in Bill, StatementFrame(k, ShortNames(b.names))
  PROVE  Rule(k, In(k, Roomy(a, 50000)), SummaryStatementPage(b)[1].ops,
              Shows(a.rows + Len(b.names)))
<1> DEFINE names == b.names
           m == Len(names)
           short == ShortNames(names)
           pages == StatementPages(names)
           n == Len(pages)
           x == Remains(pages[n], n)
           c == Counted(a, m)
           Q == {s \in Spot : s.rows = a.rows + m}
           all == StatementOpsOf(pages)
<1>1. names \in Seq(Lines) /\ m \in Nat /\ short \in BOOLEAN
  BY DEF Bill, Lines, ShortNames
<1>2. SummaryStatementPage(b)[1].ops = all \o StatementTotals
  <2> DEFINE ops == all \o StatementTotals
             page == Part(6000, 10000, 75000, ops)
  <2>1. SummaryStatementPage(b) = <<page>>
    BY DEF SummaryStatementPage, Join, StatementOpsOf, StatementOps, AccountOps
  <2> HIDE DEF ops
  <2>2. page.ops = ops
    BY DEF Part
  <2> HIDE DEF page
  <2>3. SummaryStatementPage(b)[1] = page
    BY <2>1
  <2> QED BY <2>2, <2>3 DEF ops
<1> HIDE DEF names
<1>3. Paged(pages, m, short) /\ 1800 * Added(pages[n]) + 4400 <= SpaceAt(n)
  BY <1>1, StatementPagesIs
<1>4. c \in Resting /\ c.rows = a.rows + m
  BY <1>1, CountedFacts
<1>5. x \in Int /\ x >= 3000
  <2>1. pages \in Seq(Seq(Lines)) /\ n \in 1..Len(pages)
    BY <1>3 DEF Paged
  <2>2. pages[n] \in Seq(Nat)
    <3> HIDE DEF n, pages
    <3> QED BY <2>1, LensNat
  <2>3. Added(pages[n]) \in Nat
    BY <2>2, AddedNat
  <2>4. SpaceAt(n) \in Int
    BY DEF SpaceAt
  <2> QED BY <1>3, <2>3, <2>4 DEF Remains
<1>6. StatementFrame(k, short) /\ k \in Frames
  BY DEF names, StatementFrame
<1> HIDE DEF short, m, pages
<1>7. Rule(k, In(k, Roomy(a, 50000)), all, In(k, Roomy(c, x)))
  BY <1>1, <1>3, <1>6, StatementPagesRule
<1> HIDE DEF x, all, c, n
<1>8. Rule(k, In(k, Roomy(c, x)), StatementTotals, {s \in Spot : s.rows = c.rows})
  BY <1>4, <1>5, <1>6, StatementTotalsRule
<1>9. Rule(k, In(k, Roomy(c, x)), StatementTotals, Q)
  BY <1>4, <1>8
<1> HIDE DEF Q
<1>10. Rule(k, In(k, Roomy(a, 50000)), all \o StatementTotals, Q)
  BY <1>7, <1>9, RuleJoin
<1> QED BY <1>2, <1>10 DEF Q, m, names, Shows

-----------------------------------------------------------------------------
(***************************************************************************)
(* Bills as a whole: every part of every layout leads on to the next.      *)
(***************************************************************************)

(* The whole bill.  Each part of it has a frame: the floors of the part,   *)
(* and how far below them it may draw.                                     *)
FrameOf(l, b, n) ==
  LET p == Page(l, b, Top(0))[n]
  IN [part |-> n, low1 |-> p.low1, low2 |-> p.low2, top |-> p.top,
      deck |-> IF l = "invoice_of_summary" /\ n = 2 THEN 2400 ELSE -1200,
      strict |-> ~Unasked(l, b, n),
      front |-> IF l = "invoice_of_summary" THEN 1200
                ELSE IF l = "product_label_grouping" THEN 100 ELSE 0,
      back |-> IF l \in Grouping THEN 4410 ELSE IF l = "nonvat_home" THEN 3420 ELSE 0]

\* The part has the floors of the frame.
Seated(p, k) == p = Part(k.low1, k.low2, k.top, p.ops)

LEMMA FrameIs ==
  ASSUME NEW l, NEW b, NEW n \in Nat, NEW x \in Int, NEW y \in Int, NEW z \in Int,
         z - y >= 40000, NEW ops, Page(l, b, Top(0))[n] = Part(x, y, z, ops)
  PROVE  LET k == FrameOf(l, b, n)
         IN /\ k \in Frames
            /\ k.part = n /\ k.low1 = x /\ k.low2 = y /\ k.top = z
            /\ k.deck = (IF l = "invoice_of_summary" /\ n = 2 THEN 2400 ELSE -1200)
            /\ k.strict = ~Unasked(l, b, n)
            /\ k.front = (IF l = "invoice_of_summary" THEN 1200
                          ELSE IF l = "product_label_grouping" THEN 100 ELSE 0)
            /\ k.back = (IF l \in Grouping THEN 4410
                         ELSE IF l = "nonvat_home" THEN 3420 ELSE 0)
<1> DEFINE d == IF l = "invoice_of_summary" /\ n = 2 THEN 2400 ELSE -1200
           s == ~Unasked(l, b, n)
           f == IF l = "invoice_of_summary" THEN 1200
                ELSE IF l = "product_label_grouping" THEN 100 ELSE 0
           g == IF l \in Grouping THEN 4410 ELSE IF l = "nonvat_home" THEN 3420 ELSE 0
           k == [part |-> n, low1 |-> x, low2 |-> y, top |-> z, deck |-> d,
                 strict |-> s, front |-> f, back |-> g]
<1>1. d \in Int /\ d >= -1200
  OBVIOUS
<1>2. s \in BOOLEAN
  OBVIOUS
<1>3. f \in Nat /\ g \in Nat
  OBVIOUS
<1>4. FrameOf(l, b, n) = k
  BY PartIs DEF FrameOf
<1> HIDE DEF d, s, f, g
<1>5. k \in Frames
  BY <1>1, <1>2, <1>3 DEF Frames, Frame
<1>6. /\ k.part = n /\ k.low1 = x /\ k.low2 = y /\ k.top = z
      /\ k.deck = d /\ k.strict = s /\ k.front = f /\ k.back = g
  OBVIOUS
<1> HIDE DEF k
<1> QED BY <1>4, <1>5, <1>6 DEF d, s, f, g

-----------------------------------------------------------------------------
(* From one part to the next.                                              *)

\* At the start of a bill nothing is known.
Bare == [two |-> FALSE, later |-> FALSE, free |-> TRUE, keep |-> 0,
         known |-> FALSE, off |-> FALSE, room |-> 0, rows |-> 0]

LEMMA BareFacts == Bare \in Resting /\ ~Bare.two /\ ~Bare.later /\ Bare.rows = 0
BY DEF Bare, Resting, Facts

Beginning(start) == [cursor |-> Top(start), line |-> Nowhere, rows |-> 0]

LEMMA BeginningIs ==
  ASSUME NEW start \in Int
  PROVE  Beginning(start) \in Spot
<1>1. Top(start) \in Cursor
  BY DEF Top, Cursor
<1>2. Nowhere \in Line
  BY DEF Nowhere, Line
<1> QED BY <1>1, <1>2 DEF Beginning, Spot

LEMMA BeginningIn ==
  ASSUME NEW k, NEW start \in Int
  PROVE  /\ Beginning(start) \in In(k, Bare)
         /\ \A x \in Int : start - x >= k.low1 => Beginning(start) \in In(k, Roomy(Bare, x))
<1> DEFINE s == Beginning(start)
           c == s.cursor
           at == s.line
<1>1. s \in Spot
  BY BeginningIs
<1>2. /\ s.rows = 0 /\ c.two = FALSE /\ c.col = 1 /\ c.page = 1 /\ c.first = 1 /\ c.y = start
      /\ at.page = 0 /\ at.heads = FALSE /\ at.found = FALSE
  BY DEF Beginning, Top, Nowhere
<1> HIDE DEF s
<1>2a. ~c.two /\ ~at.heads /\ c.first <= c.page
  BY <1>2
<1>3. Holds(k, Bare, s)
  <2>1. /\ Bare.rows = 0 /\ Bare.two = FALSE /\ Bare.later = FALSE /\ Bare.free = TRUE
        /\ Bare.known = FALSE
    BY DEF Bare
  <2>2. ~Bare.two /\ ~Bare.later /\ ~Bare.known /\ c.two = Bare.two /\ s.rows = Bare.rows
    BY <1>2, <2>1
  <2> QED BY <1>2, <1>2a, <2>2 DEF Holds
<1>4. ASSUME NEW x \in Int, start - x >= k.low1 PROVE Holds(k, Roomy(Bare, x), s)
  <2> DEFINE r == Roomy(Bare, x)
  <2>1. r.rows = 0 /\ ~r.two /\ ~r.later /\ r.free /\ r.room = x
    BY BareFacts, RoomyFacts
  <2>2. r.two = FALSE
    <3>1. r.two = Bare.two
      BY BareFacts, RoomyFacts
    <3> QED BY <3>1 DEF Bare
  <2> HIDE DEF r
  <2>3. c.two = r.two /\ s.rows = r.rows
    BY <1>2, <2>1, <2>2
  <2>4. c.y - r.room >= Floor(k, c.page)
    BY <1>2, <1>4, <2>1 DEF Floor
  <2>5. Holds(k, r, s)
    BY <1>2, <1>2a, <2>1, <2>3, <2>4 DEF Holds
  <2> QED BY <2>5 DEF r
<1> QED BY <1>1, <1>3, <1>4 DEF In, s

\* What is known of one column does not depend on the floors, but for the room.
LEMMA OtherFrame ==
  ASSUME NEW j, NEW k, NEW a \in Resting, ~a.two
  PROVE  In(j, a) \subseteq In(k, a)
<1> SUFFICES ASSUME NEW s \in In(j, a) PROVE s \in In(k, a)
  OBVIOUS
<1>1. s \in Spot /\ Holds(j, a, s) /\ a.free /\ ~a.known
  BY SpotIn, RestingFacts
<1>2. Holds(k, a, s)
  BY <1>1 DEF Holds
<1> QED BY <1>1, <1>2 DEF In

LEMMA OtherRoom ==
  ASSUME NEW j \in Frames, NEW k \in Frames, NEW a \in Resting, ~a.two,
         NEW x \in Int, NEW y \in Int, y - x <= j.low1 - k.low1, y - x <= j.low2 - k.low2
  PROVE  In(j, Roomy(a, x)) \subseteq In(k, Roomy(a, y))
<1> DEFINE p == Roomy(a, x)
           q == Roomy(a, y)
<1> SUFFICES ASSUME NEW s \in In(j, p) PROVE s \in In(k, q)
  OBVIOUS
<1>1. s \in Spot /\ Holds(j, p, s) /\ s.cursor \in Cursor
  BY SpotIn
<1>2. /\ p.free /\ p.known /\ ~p.off /\ p.room = x /\ p.rows = a.rows /\ p.two = a.two
      /\ p.later = a.later
  BY RoomyFacts
<1>3. /\ q.free /\ q.known /\ ~q.off /\ q.room = y /\ q.rows = a.rows /\ q.two = a.two
      /\ q.later = a.later
  BY RoomyFacts
<1>4. /\ j.low1 \in Int /\ j.low2 \in Int /\ k.low1 \in Int /\ k.low2 \in Int
  BY DEF Frames, Frame
<1> HIDE DEF p, q
<1>5. s.cursor.y \in Int
  BY <1>1 DEF Cursor
<1>6. s.cursor.y - x >= Floor(j, s.cursor.page)
  BY <1>1, <1>2 DEF Holds
<1>7. s.cursor.y - y >= Floor(k, s.cursor.page)
  BY <1>4, <1>5, <1>6 DEF Floor
<1>8. Holds(k, q, s)
  BY <1>1, <1>2, <1>3, <1>7 DEF Holds
<1> QED BY <1>1, <1>8 DEF In

LEMMA OtherAway ==
  ASSUME NEW j \in Frames, NEW k \in Frames, NEW a \in Resting, NEW x \in Int,
         k.low1 <= j.low1, k.low2 <= j.low2, k.deck = j.deck
  PROVE  In(j, Away(a, x)) \subseteq In(k, Away(a, x))
<1> DEFINE p == Away(a, x)
<1> SUFFICES ASSUME NEW s \in In(j, p) PROVE s \in In(k, p)
  OBVIOUS
<1>1. s \in Spot /\ Holds(j, p, s) /\ s.cursor \in Cursor
  BY SpotIn
<1>2. p.free /\ p.room = x
  BY AwayFacts
<1>3. /\ j.low1 \in Int /\ j.low2 \in Int /\ k.low1 \in Int /\ k.low2 \in Int /\ j.deck \in Int
  BY DEF Frames, Frame
<1> HIDE DEF p
<1>4. s.cursor.y \in Int /\ s.cursor.colTop \in Int
  BY <1>1 DEF Cursor
<1>5. \A page : Floor(k, page) <= Floor(j, page) /\ Floor(k, page) \in Int /\ Floor(j, page) \in Int
  BY <1>3 DEF Floor
<1>6. p.two => s.cursor.colTop - k.deck >= Floor(k, s.cursor.first)
  <2> SUFFICES ASSUME p.two PROVE s.cursor.colTop - k.deck >= Floor(k, s.cursor.first)
    OBVIOUS
  <2>1. s.cursor.colTop - j.deck >= Floor(j, s.cursor.first)
    BY <1>1 DEF Holds
  <2> QED BY <1>3, <1>4, <1>5, <2>1
<1>7. p.known /\ (p.off => s.cursor.page > s.cursor.first)
        => s.cursor.y - x >= Floor(k, s.cursor.page)
  <2> SUFFICES ASSUME p.known /\ (p.off => s.cursor.page > s.cursor.first)
               PROVE  s.cursor.y - x >= Floor(k, s.cursor.page)
    OBVIOUS
  <2>1. s.cursor.y - x >= Floor(j, s.cursor.page)
    BY <1>1, <1>2 DEF Holds
  <2> QED BY <1>4, <1>5, <2>1
<1>8. Holds(k, p, s)
  BY <1>1, <1>2, <1>6, <1>7 DEF Holds
<1> QED BY <1>1, <1>8 DEF In

PartCount(l) ==
  CASE l = "nonvat_home" -> 3
    [] l = "subscription_ref_grouping" -> 6
    [] l = "product_label_grouping" -> 7
    [] l = "invoice_of_summary" -> 2
    [] OTHER -> 1

\* The rows a bill has to show.
Owed(l, b) ==
  CASE l = "nonvat_print" -> 0
    [] l = "summary_statement" -> Len(b.names)
    [] OTHER -> Shown(b.sections)

\* Where the flow can be between the n-th part and the next.
Between(l, b, n) ==
  IF n = 0 THEN {Beginning(Start(l, b))}
  ELSE IF n = PartCount(l) THEN {s \in Spot : s.rows = Owed(l, b)}
  ELSE LET k == FrameOf(l, b, n)
       IN CASE l = "nonvat_home" /\ n = 1 -> Started(k, Two(Bare))
            [] l = "nonvat_home" /\ n = 2 -> In(k, Away(Two(Bare), -1080))
            [] l = "invoice_of_summary" -> In(k, Sunk(Bare))
            [] OTHER -> In(k, Bare)

\* The n-th part, laid out from s, keeps to its frame and leads on.
LeadsOn(l, b, n, s) ==
  LET p == Page(l, b, s.cursor)[n]
      k == FrameOf(l, b, n)
  IN /\ k \in Frames /\ k.part = n /\ Seated(p, k)
     /\ Rule(k, {s}, p.ops, Between(l, b, n))

LEMMA PartLeadsOn ==
  ASSUME NEW l, NEW b, NEW n \in Nat, NEW s, NEW x \in Int, NEW y \in Int, NEW z \in Int,
         z - y >= 40000, NEW ops0, Page(l, b, Top(0))[n] = Part(x, y, z, ops0),
         NEW ops, Page(l, b, s.cursor)[n] = Part(x, y, z, ops),
         NEW P, s \in P, NEW Q, Q \subseteq Between(l, b, n),
         Rule(FrameOf(l, b, n), P, ops, Q)
  PROVE  LeadsOn(l, b, n, s)
<1> DEFINE k == FrameOf(l, b, n)
           p == Part(x, y, z, ops)
<1>1. k \in Frames /\ k.part = n /\ k.low1 = x /\ k.low2 = y /\ k.top = z
  BY FrameIs
<1>2. p.low1 = x /\ p.low2 = y /\ p.top = z /\ p.ops = ops
  BY PartIs
<1> HIDE DEF k, p
<1>3. Rule(k, {s}, ops, Between(l, b, n))
  <2>1. {s} \subseteq P
    OBVIOUS
  <2>2. Rule(k, P, ops, Q)
    BY DEF k
  <2> QED BY <2>1, <2>2, RuleWeaken
<1>4. Page(l, b, s.cursor)[n] = p
  BY DEF p
<1>5. Seated(p, k)
  <2>1. p = Part(x, y, z, p.ops)
    BY <1>2 DEF p
  <2> HIDE DEF p
  <2> QED BY <1>1, <2>1 DEF Seated
<1> QED BY <1>1, <1>2, <1>3, <1>4, <1>5 DEF LeadsOn, k

\* A bill of one part.
Single(l, b, x, y, z, page, ops) ==
  /\ PartCount(l) = 1
  /\ x \in Int /\ y \in Int /\ z \in Int /\ z - y >= 40000
  /\ \A c : Page(l, b, c) = page
  /\ page = <<Part(x, y, z, ops)>>

LEMMA OnePart ==
  ASSUME NEW l, NEW b, NEW x, NEW y, NEW z, NEW page, NEW ops,
         Single(l, b, x, y, z, page, ops), NEW P, Beginning(Start(l, b)) \in P,
         NEW Q, Q \subseteq {s \in Spot : s.rows = Owed(l, b)},
         Rule(FrameOf(l, b, 1), P, page[1].ops, Q), NEW s \in Between(l, b, 0)
  PROVE  LeadsOn(l, b, 1, s)
<1> DEFINE n == 1
           p == Part(x, y, z, ops)
<1>0. /\ PartCount(l) = 1 /\ page = <<p>> /\ \A c : Page(l, b, c) = page
      /\ x \in Int /\ y \in Int /\ z \in Int /\ z - y >= 40000
  BY DEF Single
<1>1. s = Beginning(Start(l, b))
  BY DEF Between
<1>2. Between(l, b, n) = {t \in Spot : t.rows = Owed(l, b)}
  BY <1>0 DEF Between
<1>3. p.ops = ops
  BY PartIs
<1> HIDE DEF p
<1>4. page[1] = p
  BY <1>0
<1>5. Page(l, b, Top(0))[n] = p /\ Page(l, b, s.cursor)[n] = p /\ n \in Nat
  BY <1>0, <1>4
<1>6. Rule(FrameOf(l, b, n), P, ops, Q)
  BY <1>3, <1>4
<1> HIDE DEF n
<1>7. LeadsOn(l, b, n, s)
  BY <1>0, <1>1, <1>2, <1>5, <1>6, PartLeadsOn DEF p
<1> QED BY <1>7 DEF n

\* Every row of the usage tables has been drawn.
LEMMA AllShown ==
  ASSUME NEW k, NEW a \in Resting, a.rows = 0, NEW b \in Bill
  PROVE  In(k, Counted(a, Shown(b.sections))) \subseteq {s \in Spot : s.rows = Shown(b.sections)}
<1> DEFINE n == Shown(b.sections)
<1>1. n \in Nat
  <2>1. b.sections \in Sections
    BY DEF Bill, Sections
  <2> QED BY <2>1, ShownNat
<1> HIDE DEF n
<1>2. Counted(a, n).rows = n
  BY <1>1, CountedFacts
<1>3. In(k, Counted(a, n)) \subseteq {s \in Spot : s.rows = n}
  BY <1>2, InRows
<1> QED BY <1>3 DEF n

LEMMA NonvatEnterpriseLeadsOn ==
  ASSUME NEW l, l = "nonvat_enterprise", NEW b \in Bill, NEW s \in Between(l, b, 0)
  PROVE  LeadsOn(l, b, 1, s)
<1> DEFINE k == FrameOf(l, b, 1)
           x == NonvatEnterpriseFloor(b)
           y == 8000
           z == 74000
           page == NonvatEnterprisePage(b)
           ops == NonvatEnterpriseCharges(b) \o NonvatEnterpriseAdjustments(b) \o NonvatEnterpriseDiscounts(b)
                    \o NonvatEnterpriseTaxes(b) \o NonvatEnterpriseTotal \o NonvatEnterprisePayments(b)
                    \o NonvatEnterpriseUsage(b) \o NonvatEnterpriseMessages(b)
           P == In(k, Bare)
           Q == In(k, Counted(Two(Bare), Shown(b.sections)))
<1>1. x \in Int /\ y \in Int /\ z \in Int /\ z - y >= 40000
  BY DEF NonvatEnterpriseFloor
<1>2. page = <<Part(x, y, z, ops)>>
  BY DEF NonvatEnterprisePage, NonvatEnterpriseTop
<1> HIDE DEF x, y, z, page, ops
<1>3. \A c : Page(l, b, c) = page
  BY DEF Page, page
<1>4. Page(l, b, Top(0))[1] = Part(x, y, z, ops)
  BY <1>2, <1>3
<1>5. k \in Frames /\ k.deck = -1200 /\ k.low1 = x /\ k.low2 = y /\ k.strict = ~Unasked(l, b, 1)
  BY <1>1, <1>4, FrameIs
<1> HIDE DEF k
<1>6. Rule(k, P, page[1].ops, Q)
  BY <1>5, BareFacts, NonvatEnterpriseRule DEF page
<1>7. PartCount(l) = 1 /\ Start(l, b) \in Int /\ Owed(l, b) = Shown(b.sections)
  BY DEF PartCount, Start, Owed
<1>8. Beginning(Start(l, b)) \in P
  <2> HIDE DEF P
  <2>1. Beginning(Start(l, b)) \in In(k, Bare)
    BY <1>7, BeginningIn
  <2> QED BY <2>1 DEF P
<1>9. Q \subseteq {t \in Spot : t.rows = Owed(l, b)}
  <2>1. Two(Bare) \in Resting /\ Two(Bare).rows = 0
    BY BareFacts, TwoFacts
  <2>2. Q \subseteq {t \in Spot : t.rows = Shown(b.sections)}
    BY <2>1, AllShown
  <2> HIDE DEF Q
  <2> QED BY <1>7, <2>2
<1> HIDE DEF P, Q
<1>10. Rule(FrameOf(l, b, 1), P, page[1].ops, Q)
  BY <1>6 DEF k
<1>11. Single(l, b, x, y, z, page, ops)
  BY <1>1, <1>2, <1>3, <1>7 DEF Single
<1> QED BY <1>8, <1>9, <1>10, <1>11, OnePart

LEMMA NonvatPrintLeadsOn ==
  ASSUME NEW l, l = "nonvat_print", NEW b \in Bill, NEW s \in Between(l, b, 0)
  PROVE  LeadsOn(l, b, 1, s)
<1> DEFINE k == FrameOf(l, b, 1)
           x == IF b.red THEN 22000 ELSE 15000
           y == 8000
           z == 75000
           page == NonvatPrintPage(b)
           ops == NonvatPrintCharges(b) \o NonvatPrintAdjustments(b) \o NonvatPrintDiscounts(b)
                    \o NonvatPrintTaxes(b) \o NonvatPrintTotal \o NonvatPrintFlow(b)
           P == In(k, Bare)
           Q == In(k, Two(Bare))
<1>1. x \in Int /\ y \in Int /\ z \in Int /\ z - y >= 40000
  OBVIOUS
<1>2. page = <<Part(x, y, z, ops)>>
  BY DEF NonvatPrintPage, NonvatPrintTop
<1> HIDE DEF x, y, z, page, ops
<1>3. \A c : Page(l, b, c) = page
  BY DEF Page, page
<1>4. Page(l, b, Top(0))[1] = Part(x, y, z, ops)
  BY <1>2, <1>3
<1>5. k \in Frames /\ k.deck = -1200 /\ k.low1 = x /\ k.low2 = y /\ k.strict = ~Unasked(l, b, 1)
  BY <1>1, <1>4, FrameIs
<1> HIDE DEF k
<1>6. Rule(k, P, page[1].ops, Q)
  BY <1>5, BareFacts, NonvatPrintRule DEF page
<1>7. PartCount(l) = 1 /\ Start(l, b) \in Int /\ Owed(l, b) = 0
  BY DEF PartCount, Start, Owed
<1>8. Beginning(Start(l, b)) \in P
  <2> HIDE DEF P
  <2>1. Beginning(Start(l, b)) \in In(k, Bare)
    BY <1>7, BeginningIn
  <2> QED BY <2>1 DEF P
<1>9. Q \subseteq {t \in Spot : t.rows = Owed(l, b)}
  <2>1. Two(Bare) \in Resting /\ Two(Bare).rows = 0
    BY BareFacts, TwoFacts
  <2>2. Q \subseteq {t \in Spot : t.rows = 0}
    BY <2>1, InRows
  <2> HIDE DEF Q
  <2> QED BY <1>7, <2>2
<1> HIDE DEF P, Q
<1>10. Rule(FrameOf(l, b, 1), P, page[1].ops, Q)
  BY <1>6 DEF k
<1>11. Single(l, b, x, y, z, page, ops)
  BY <1>1, <1>2, <1>3, <1>7 DEF Single
<1> QED BY <1>8, <1>9, <1>10, <1>11, OnePart

LEMMA VatEnterpriseLeadsOn ==
  ASSUME NEW l, l = "vat_enterprise", NEW b \in Bill, NEW s \in Between(l, b, 0)
  PROVE  LeadsOn(l, b, 1, s)
<1> DEFINE k == FrameOf(l, b, 1)
           x == VatEnterpriseFloor(b)
           y == 8000
           z == 77000
           page == VatEnterprisePage(b)
           ops == VatEnterpriseCharges(b) \o VatEnterpriseAdjustments(b) \o VatEnterpriseDiscounts(b)
                    \o VatEnterpriseTaxes(b) \o VatEnterpriseTotal \o VatEnterprisePayments(b)
                    \o VatEnterpriseUsage(b) \o VatEnterpriseMessages(b)
           P == In(k, Bare)
           Q == In(k, Counted(Two(Bare), Shown(b.sections)))
<1>1. x \in Int /\ y \in Int /\ z \in Int /\ z - y >= 40000
  BY DEF VatEnterpriseFloor
<1>2. page = <<Part(x, y, z, ops)>>
  BY DEF VatEnterprisePage, VatEnterpriseTop
<1> HIDE DEF x, y, z, page, ops
<1>3. \A c : Page(l, b, c) = page
  BY DEF Page, page
<1>4. Page(l, b, Top(0))[1] = Part(x, y, z, ops)
  BY <1>2, <1>3
<1>5. k \in Frames /\ k.deck = -1200 /\ k.low1 = x /\ k.low2 = y /\ k.strict = ~Unasked(l, b, 1)
  BY <1>1, <1>4, FrameIs
<1> HIDE DEF k
<1>6. Rule(k, P, page[1].ops, Q)
  BY <1>5, BareFacts, VatEnterpriseRule DEF page
<1>7. PartCount(l) = 1 /\ Start(l, b) \in Int /\ Owed(l, b) = Shown(b.sections)
  BY DEF PartCount, Start, Owed
<1>8. Beginning(Start(l, b)) \in P
  <2> HIDE DEF P
  <2>1. Beginning(Start(l, b)) \in In(k, Bare)
    BY <1>7, BeginningIn
  <2> QED BY <2>1 DEF P
<1>9. Q \subseteq {t \in Spot : t.rows = Owed(l, b)}
  <2>1. Two(Bare) \in Resting /\ Two(Bare).rows = 0
    BY BareFacts, TwoFacts
  <2>2. Q \subseteq {t \in Spot : t.rows = Shown(b.sections)}
    BY <2>1, AllShown
  <2> HIDE DEF Q
  <2> QED BY <1>7, <2>2
<1> HIDE DEF P, Q
<1>10. Rule(FrameOf(l, b, 1), P, page[1].ops, Q)
  BY <1>6 DEF k
<1>11. Single(l, b, x, y, z, page, ops)
  BY <1>1, <1>2, <1>3, <1>7 DEF Single
<1> QED BY <1>8, <1>9, <1>10, <1>11, OnePart

LEMMA VatHomeLeadsOn ==
  ASSUME NEW l, l = "vat_home", NEW b \in Bill, NEW s \in Between(l, b, 0)
  PROVE  LeadsOn(l, b, 1, s)
<1> DEFINE k == FrameOf(l, b, 1)
           x == IF b.red THEN -62200 ELSE -68500
           y == -80000
           z == -7000
           page == VatHomePage(b)
           ops == VatHomeCharges(b) \o VatHomeAdjustments(b) \o VatHomeDiscounts(b)
                    \o VatHomeTaxes(b) \o VatHomeTotal \o VatHomePayments(b)
                    \o VatHomeCancelled(b) \o VatHomeUsage(b) \o VatHomeMessages(b)
           P == In(k, Bare)
           Q == In(k, Counted(Two(Bare), Shown(b.sections)))
<1>1. x \in Int /\ y \in Int /\ z \in Int /\ z - y >= 40000
  OBVIOUS
<1>2. page = <<Part(x, y, z, ops)>>
  BY DEF VatHomePage, VatHomeTop
<1> HIDE DEF x, y, z, page, ops
<1>3. \A c : Page(l, b, c) = page
  BY DEF Page, page
<1>4. Page(l, b, Top(0))[1] = Part(x, y, z, ops)
  BY <1>2, <1>3
<1>5. k \in Frames /\ k.deck = -1200 /\ k.low1 = x /\ k.low2 = y /\ k.strict = ~Unasked(l, b, 1)
  BY <1>1, <1>4, FrameIs
<1> HIDE DEF k
<1>6. Rule(k, P, page[1].ops, Q)
  BY <1>5, BareFacts, VatHomeRule DEF page
<1>7. PartCount(l) = 1 /\ Start(l, b) \in Int /\ Owed(l, b) = Shown(b.sections)
  BY DEF PartCount, Start, Owed
<1>8. Beginning(Start(l, b)) \in P
  <2> HIDE DEF P
  <2>1. Beginning(Start(l, b)) \in In(k, Bare)
    BY <1>7, BeginningIn
  <2> QED BY <2>1 DEF P
<1>9. Q \subseteq {t \in Spot : t.rows = Owed(l, b)}
  <2>1. Two(Bare) \in Resting /\ Two(Bare).rows = 0
    BY BareFacts, TwoFacts
  <2>2. Q \subseteq {t \in Spot : t.rows = Shown(b.sections)}
    BY <2>1, AllShown
  <2> HIDE DEF Q
  <2> QED BY <1>7, <2>2
<1> HIDE DEF P, Q
<1>10. Rule(FrameOf(l, b, 1), P, page[1].ops, Q)
  BY <1>6 DEF k
<1>11. Single(l, b, x, y, z, page, ops)
  BY <1>1, <1>2, <1>3, <1>7 DEF Single
<1> QED BY <1>8, <1>9, <1>10, <1>11, OnePart

LEMMA UsdLeadsOn ==
  ASSUME NEW l, l = "usd_open_item", NEW b \in Bill, NEW s \in Between(l, b, 0)
  PROVE  LeadsOn(l, b, 1, s)
<1> DEFINE k == FrameOf(l, b, 1)
           x == 17500
           y == 8000
           z == 78000
           page == UsdPage(b)
           ops == UsdCharges(b) \o UsdUsage(b) \o UsdDiscounts(b)
                    \o UsdAdjustments(b) \o UsdTotal \o UsdAltCurrency(b)
                    \o UsdMessages(b)
           P == In(k, Bare)
           Q == In(k, Counted(Bare, Shown(b.sections)))
<1>1. x \in Int /\ y \in Int /\ z \in Int /\ z - y >= 40000
  OBVIOUS
<1>2. page = <<Part(x, y, z, ops)>>
  BY DEF UsdPage
<1> HIDE DEF x, y, z, page, ops
<1>3. \A c : Page(l, b, c) = page
  BY DEF Page, page
<1>4. Page(l, b, Top(0))[1] = Part(x, y, z, ops)
  BY <1>2, <1>3
<1>5. k \in Frames /\ k.deck = -1200 /\ k.low1 = x /\ k.low2 = y /\ k.strict = ~Unasked(l, b, 1)
  BY <1>1, <1>4, FrameIs
<1> HIDE DEF k
<1>6. Rule(k, P, page[1].ops, Q)
  BY <1>5, BareFacts, UsdRule DEF page
<1>7. PartCount(l) = 1 /\ Start(l, b) \in Int /\ Owed(l, b) = Shown(b.sections)
  BY DEF PartCount, Start, Owed
<1>8. Beginning(Start(l, b)) \in P
  <2> HIDE DEF P
  <2>1. Beginning(Start(l, b)) \in In(k, Bare)
    BY <1>7, BeginningIn
  <2> QED BY <2>1 DEF P
<1>9. Q \subseteq {t \in Spot : t.rows = Owed(l, b)}
  <2>1. Bare \in Resting /\ Bare.rows = 0
    BY BareFacts
  <2>2. Q \subseteq {t \in Spot : t.rows = Shown(b.sections)}
    BY <2>1, AllShown
  <2> HIDE DEF Q
  <2> QED BY <1>7, <2>2
<1> HIDE DEF P, Q
<1>10. Rule(FrameOf(l, b, 1), P, page[1].ops, Q)
  BY <1>6 DEF k
<1>11. Single(l, b, x, y, z, page, ops)
  BY <1>1, <1>2, <1>3, <1>7 DEF Single
<1> QED BY <1>8, <1>9, <1>10, <1>11, OnePart

LEMMA SummaryStatementLeadsOn ==
  ASSUME NEW l, l = "summary_statement", NEW b \in Bill, NEW s \in Between(l, b, 0)
  PROVE  LeadsOn(l, b, 1, s)
<1> DEFINE k == FrameOf(l, b, 1)
           x == 6000
           y == 10000
           z == 75000
           page == SummaryStatementPage(b)
           ops == StatementOpsOf(StatementPages(b.names)) \o StatementTotals
           P == In(k, Roomy(Bare, 50000))
           Q == {t \in Spot : t.rows = 0 + Len(b.names)}
<1>1. x \in Int /\ y \in Int /\ z \in Int /\ z - y >= 40000
  OBVIOUS
<1>2. page = <<Part(x, y, z, ops)>>
  BY DEF SummaryStatementPage, Join, StatementOpsOf, StatementOps, AccountOps
<1> HIDE DEF x, y, z, page, ops
<1>3. \A c : Page(l, b, c) = page
  BY DEF Page, page
<1>4. Page(l, b, Top(0))[1] = Part(x, y, z, ops)
  BY <1>2, <1>3
<1>5. k \in Frames /\ k.deck = -1200 /\ k.low1 = x /\ k.low2 = y /\ k.strict = ~Unasked(l, b, 1)
  BY <1>1, <1>4, FrameIs
<1>5a. k.strict => ShortNames(b.names)
  <2>1. k.strict => ~Unasked(l, b, 1)
    <3> DEFINE strict == k.strict
               asked == Unasked(l, b, 1)
    <3>1. strict = ~asked
      BY <1>5
    <3> HIDE DEF strict, asked
    <3>2. strict => ~asked
      BY <3>1
    <3> QED BY <3>2 DEF strict, asked
  <2>2. ~Unasked(l, b, 1) => ShortNames(b.names)
    <3>1. \A i \in DOMAIN b.names : b.names[i] \in Nat
      BY DEF Bill
    <3> QED BY <3>1 DEF Unasked, ShortNames, PageName
  <2> QED BY <2>1, <2>2
<1>5b. k.low2 = 10000
  BY <1>5 DEF y
<1> HIDE DEF k
<1>6. Rule(k, P, page[1].ops, Q)
  <2>1. Rule(k, In(k, Roomy(Bare, 50000)), SummaryStatementPage(b)[1].ops,
             Shows(Bare.rows + Len(b.names)))
    <3>1. StatementFrame(k, ShortNames(b.names))
      BY <1>5, <1>5a, <1>5b DEF StatementFrame
    <3> QED BY <3>1, BareFacts, SummaryStatementRule
  <2>2. Bare.rows = 0
    BY BareFacts
  <2> QED BY <2>1, <2>2 DEF page, Shows
<1>7. PartCount(l) = 1 /\ Start(l, b) \in Int /\ Owed(l, b) = Len(b.names)
  BY DEF PartCount, Start, Owed
<1>8. Beginning(Start(l, b)) \in P
  <2> DEFINE start == Start(l, b)
  <2>1. start = 56000
    BY DEF Start
  <2>2. k.low1 = 6000
    BY <1>5 DEF x
  <2>3. 50000 \in Int /\ start \in Int /\ start - 50000 >= k.low1
    BY <2>1, <2>2
  <2> HIDE DEF start, P
  <2> DEFINE v == 50000
  <2>4. v \in Int /\ start \in Int /\ start - v >= k.low1
    BY <2>3
  <2> HIDE DEF v
  <2>5. Beginning(start) \in In(k, Roomy(Bare, v))
    BY <2>4, BeginningIn
  <2> QED BY <2>5 DEF P, start, v
<1>9. Q \subseteq {t \in Spot : t.rows = Owed(l, b)}
  <2>1. b.names \in Seq(Lines)
    BY DEF Bill, Lines
  <2>2. 0 + Len(b.names) = Len(b.names)
    BY <2>1
  <2> QED BY <1>7, <2>2
<1> HIDE DEF P, Q
<1>10. Rule(FrameOf(l, b, 1), P, page[1].ops, Q)
  BY <1>6 DEF k
<1>11. Single(l, b, x, y, z, page, ops)
  BY <1>1, <1>2, <1>3, <1>7 DEF Single
<1> QED BY <1>8, <1>9, <1>10, <1>11, OnePart

\* What the n-th part is, laid out from s: its floors, its top, its commands.
Lays(l, b, n, s, x, y, z, ops) ==
  /\ n \in Nat /\ x \in Int /\ y \in Int /\ z \in Int /\ z - y >= 40000
  /\ \E other : Page(l, b, Top(0))[n] = Part(x, y, z, other)
  /\ Page(l, b, s.cursor)[n] = Part(x, y, z, ops)

LEMMA LaysFrame ==
  ASSUME NEW l, NEW b, NEW n, NEW s, NEW x, NEW y, NEW z, NEW ops,
         Lays(l, b, n, s, x, y, z, ops)
  PROVE  LET k == FrameOf(l, b, n)
         IN /\ k \in Frames
            /\ k.part = n /\ k.low1 = x /\ k.low2 = y /\ k.top = z
            /\ k.deck = (IF l = "invoice_of_summary" /\ n = 2 THEN 2400 ELSE -1200)
            /\ k.strict = ~Unasked(l, b, n)
            /\ k.front = (IF l = "invoice_of_summary" THEN 1200
                          ELSE IF l = "product_label_grouping" THEN 100 ELSE 0)
            /\ k.back = (IF l \in Grouping THEN 4410
                         ELSE IF l = "nonvat_home" THEN 3420 ELSE 0)
<1>1. n \in Nat /\ x \in Int /\ y \in Int /\ z \in Int /\ z - y >= 40000
  BY DEF Lays
<1>2. PICK other : Page(l, b, Top(0))[n] = Part(x, y, z, other)
  BY DEF Lays
<1> QED BY <1>1, <1>2, FrameIs

LEMMA LaysLeadsOn ==
  ASSUME NEW l, NEW b, NEW n, NEW s, NEW x, NEW y, NEW z, NEW ops,
         Lays(l, b, n, s, x, y, z, ops),
         NEW P, s \in P, NEW Q, Q \subseteq Between(l, b, n),
         Rule(FrameOf(l, b, n), P, ops, Q)
  PROVE  LeadsOn(l, b, n, s)
<1>1. n \in Nat /\ x \in Int /\ y \in Int /\ z \in Int /\ z - y >= 40000
      /\ Page(l, b, s.cursor)[n] = Part(x, y, z, ops)
  BY DEF Lays
<1>2. PICK other : Page(l, b, Top(0))[n] = Part(x, y, z, other)
  BY DEF Lays
<1> QED BY <1>1, <1>2, PartLeadsOn

-----------------------------------------------------------------------------
(* invoice_of_summary.                                                     *)

SummaryFloor(b) == IF b.red THEN 22000 ELSE 15000

LEMMA SummaryPageIs ==
  ASSUME NEW l, l = "invoice_of_summary", NEW b, NEW s
  PROVE  /\ Lays(l, b, 1, s, SummaryFloor(b), 8000, 75000, SummaryPage(b)[1].ops)
         /\ Lays(l, b, 2, s, 5000, 5000, 77000, SummaryUsage(b).ops)
<1> DEFINE page == SummaryPage(b)
           x == SummaryFloor(b)
           ops1 == SummaryOfInvoice(b) \o SummaryTotal \o SummaryCharges(b)
                     \o SummaryAdjustments(b) \o SummaryDiscounts(b)
                     \o SummaryTaxes(b) \o SummaryPayments(b)
                     \o SummaryCancelled(b) \o SummaryMessages(b)
           ops2 == When(\E i \in 1..Len(b.sections) : Printed(b.sections[i]),
                        <<Columns>> \o Each(b.sections, LAMBDA t :
                                           When(Printed(t), SummarySection(t))))
           p1 == Part(x, 8000, 75000, ops1)
           p2 == Part(5000, 5000, 77000, ops2)
<1>1. page = <<p1, p2>>
  BY DEF SummaryPage, SummaryTop, SummaryUsage, SummaryFloor
<1>2. SummaryUsage(b) = p2
  BY DEF SummaryUsage
<1> HIDE DEF ops1, ops2
<1>3. p1.ops = ops1 /\ p2.ops = ops2
  BY PartIs
<1>4. \A c : Page(l, b, c) = page
  BY DEF Page
<1> HIDE DEF page, x
<1>5. x \in Int
  BY DEF x, SummaryFloor
<1>6. page[1] = p1 /\ page[2] = p2
  BY <1>1
<1>7. Lays(l, b, 1, s, x, 8000, 75000, page[1].ops)
  BY <1>3, <1>4, <1>5, <1>6 DEF Lays
<1>8. Lays(l, b, 2, s, 5000, 5000, 77000, SummaryUsage(b).ops)
  BY <1>2, <1>3, <1>4, <1>6 DEF Lays
<1> QED BY <1>7, <1>8 DEF page, x

LEMMA SummaryLeadsOn1 ==
  ASSUME NEW l, l = "invoice_of_summary", NEW b \in Bill, NEW s \in Between(l, b, 0)
  PROVE  LeadsOn(l, b, 1, s)
<1> DEFINE n == 1
           k == FrameOf(l, b, n)
           x == SummaryFloor(b)
           ops == SummaryPage(b)[1].ops
           P == In(k, Roomy(Bare, 0))
           Q == In(k, Sunk(Bare))
<1>1. Lays(l, b, n, s, x, 8000, 75000, ops)
  BY SummaryPageIs
<1>2. k \in Frames /\ k.front = 1200 /\ k.low1 = x
  <2> HIDE DEF x, ops, n
  <2> QED BY <1>1, LaysFrame
<1>3. s \in P
  <2> DEFINE start == Start(l, b)
             v == 0
  <2>1. s = Beginning(start)
    BY DEF Between
  <2>2. start \in Int /\ v \in Int /\ start - v >= k.low1
    <3>1. start = 45900 /\ x <= 22000 /\ x \in Int
      BY DEF Start, SummaryFloor
    <3> QED BY <1>2, <3>1
  <2> HIDE DEF start, k, v
  <2>3. Beginning(start) \in In(k, Roomy(Bare, v))
    BY <2>2, BeginningIn
  <2> QED BY <2>1, <2>3 DEF v
<1>4. Q = Between(l, b, n)
  BY DEF Between, PartCount
<1> HIDE DEF k
<1>5. Rule(k, P, ops, Q)
  BY <1>2, BareFacts, SummaryTopRule
<1> HIDE DEF P, Q, x, ops
<1>6. Rule(FrameOf(l, b, n), P, ops, Q)
  BY <1>5 DEF k
<1> HIDE DEF n
<1>7. LeadsOn(l, b, n, s)
  BY <1>1, <1>3, <1>4, <1>6, LaysLeadsOn
<1> QED BY <1>7 DEF n

LEMMA SummaryLeadsOn2 ==
  ASSUME NEW l, l = "invoice_of_summary", NEW b \in Bill, NEW s \in Between(l, b, 1)
  PROVE  LeadsOn(l, b, 2, s)
<1> DEFINE n == 2
           j == FrameOf(l, b, 1)
           k == FrameOf(l, b, n)
           x == SummaryFloor(b)
           ops == SummaryUsage(b).ops
           P == In(k, Roomy(Bare, 2400))
           Q == {t \in Spot : t.rows = 0 + Shown(b.sections)}
<1>1. Lays(l, b, n, s, 5000, 5000, 77000, ops)
  BY SummaryPageIs
<1>2. k \in Frames /\ k.low1 = 5000 /\ k.low2 = 5000 /\ k.deck = 2400
  <2> HIDE DEF ops
  <2> QED BY <1>1, LaysFrame
<1>3. j \in Frames /\ j.low1 = x /\ j.low2 = 8000
  <2>1. Lays(l, b, 1, s, x, 8000, 75000, SummaryPage(b)[1].ops)
    BY SummaryPageIs
  <2> HIDE DEF x
  <2> QED BY <2>1, LaysFrame
<1>4. s \in In(j, Sunk(Bare))
  BY DEF Between, PartCount
<1> HIDE DEF j, k
<1>5. s \in P
  <2> DEFINE u == -600
             v == 2400
  <2>1. u \in Int /\ v \in Int /\ v - u <= j.low1 - k.low1 /\ v - u <= j.low2 - k.low2
    BY <1>2, <1>3 DEF SummaryFloor
  <2>2. Bare \in Resting /\ ~Bare.two
    BY BareFacts
  <2>3. Sunk(Bare) = Roomy(Bare, u)
    BY DEF Sunk
  <2> HIDE DEF u, v
  <2>4. In(j, Roomy(Bare, u)) \subseteq In(k, Roomy(Bare, v))
    BY <1>2, <1>3, <2>1, <2>2, OtherRoom
  <2> QED BY <1>4, <2>3, <2>4 DEF v
<1>6. Rule(k, P, ops, Q)
  <2>1. Bare \in Resting /\ ~Bare.two /\ Bare.rows = 0
    BY BareFacts
  <2>2. Rule(k, In(k, Roomy(Bare, 2400)), ops, {t \in Spot : t.rows = Bare.rows + Shown(b.sections)})
    BY <1>2, <2>1, SummaryUsageRule
  <2> QED BY <2>1, <2>2
<1>7. Q = Between(l, b, n)
  <2>1. b.sections \in Sections
    BY DEF Bill, Sections
  <2>2. 0 + Shown(b.sections) = Shown(b.sections)
    BY <2>1, ShownNat
  <2>3. n # 0 /\ n = PartCount(l) /\ Owed(l, b) = Shown(b.sections)
    BY DEF PartCount, Owed
  <2>4. Between(l, b, n) = {t \in Spot : t.rows = Owed(l, b)}
    BY <2>3 DEF Between
  <2> QED BY <2>2, <2>3, <2>4
<1> HIDE DEF P, Q, ops
<1>8. Rule(FrameOf(l, b, n), P, ops, Q)
  BY <1>6 DEF k
<1> HIDE DEF n
<1>9. LeadsOn(l, b, n, s)
  BY <1>1, <1>5, <1>7, <1>8, LaysLeadsOn
<1> QED BY <1>9 DEF n

(* nonvat_home.                                                            *)
HomeTopFloor(b) == IF b.red THEN 22000 ELSE 16500
HomeFloor(b) == IF b.red THEN 22000 ELSE 15000

LEMMA HomePageIs ==
  ASSUME NEW l, l = "nonvat_home", NEW b, NEW s
  PROVE  /\ Lays(l, b, 1, s, HomeTopFloor(b), 8000, 74000, NonvatHomePage(b, s.cursor)[1].ops)
         /\ Lays(l, b, 2, s, HomeFloor(b), 8000, 74000, NonvatHomePage(b, s.cursor)[2].ops)
         /\ Lays(l, b, 3, s, HomeFloor(b), 8000, 74000, NonvatHomePage(b, s.cursor)[3].ops)
<1> DEFINE x == HomeTopFloor(b)
           y == HomeFloor(b)
           ops1 == NonvatHomeCharges(b) \o NonvatHomeAdjustments(b)
                    \o NonvatHomeDiscounts(b) \o NonvatHomeTaxes(b)
                    \o NonvatHomeTotal
           ops2 == NonvatHomePayments(b)
           ops3(c) == NonvatHomeUsage(b, c) \o NonvatHomeMessages(b)
           p1 == Part(x, 8000, 74000, ops1)
           p2 == Part(y, 8000, 74000, ops2)
           p3(c) == Part(y, 8000, 74000, ops3(c))
<1>1. \A c : NonvatHomePage(b, c) = <<p1, p2, p3(c)>>
  BY DEF NonvatHomePage, NonvatHomeTop, NonvatHomeFlow, HomeTopFloor, HomeFloor
<1> HIDE DEF ops1, ops2, ops3
<1>2. p1.ops = ops1 /\ p2.ops = ops2 /\ \A c : p3(c).ops = ops3(c)
  BY PartIs
<1>3. \A c : Page(l, b, c) = NonvatHomePage(b, c)
  BY DEF Page
<1>4. x \in Int /\ y \in Int
  BY DEF HomeTopFloor, HomeFloor
<1> HIDE DEF x, y
<1>5. \A c : /\ Page(l, b, c)[1] = p1 /\ Page(l, b, c)[2] = p2 /\ Page(l, b, c)[3] = p3(c)
             /\ NonvatHomePage(b, c)[1].ops = ops1 /\ NonvatHomePage(b, c)[2].ops = ops2
             /\ NonvatHomePage(b, c)[3].ops = ops3(c)
  <2> TAKE c
  <2> DEFINE q1 == p1
             q2 == p2
             q3 == p3(c)
  <2>1. Page(l, b, c) = <<q1, q2, q3>> /\ NonvatHomePage(b, c) = <<q1, q2, q3>>
    BY <1>1, <1>3
  <2>2. q1.ops = ops1 /\ q2.ops = ops2 /\ q3.ops = ops3(c)
    BY <1>2
  <2> HIDE DEF q1, q2, q3
  <2>3. /\ Page(l, b, c)[1] = q1 /\ Page(l, b, c)[2] = q2 /\ Page(l, b, c)[3] = q3
        /\ NonvatHomePage(b, c)[1].ops = ops1 /\ NonvatHomePage(b, c)[2].ops = ops2
        /\ NonvatHomePage(b, c)[3].ops = ops3(c)
    BY <2>1, <2>2
  <2> QED BY <2>3 DEF q1, q2, q3
<1>6. Lays(l, b, 1, s, x, 8000, 74000, NonvatHomePage(b, s.cursor)[1].ops)
  BY <1>4, <1>5 DEF Lays
<1>7. Lays(l, b, 2, s, y, 8000, 74000, NonvatHomePage(b, s.cursor)[2].ops)
  BY <1>4, <1>5 DEF Lays
<1>8. Lays(l, b, 3, s, y, 8000, 74000, NonvatHomePage(b, s.cursor)[3].ops)
  BY <1>4, <1>5 DEF Lays
<1> QED BY <1>6, <1>7, <1>8 DEF x, y

\* The frames of its three parts.
LEMMA HomeFrames ==
  ASSUME NEW l, l = "nonvat_home", NEW b
  PROVE  /\ FrameOf(l, b, 1) \in Frames /\ FrameOf(l, b, 2) \in Frames /\ FrameOf(l, b, 3) \in Frames
         /\ FrameOf(l, b, 1).deck = -1200 /\ FrameOf(l, b, 2).deck = -1200
         /\ FrameOf(l, b, 3).deck = -1200
         /\ FrameOf(l, b, 2).low1 <= FrameOf(l, b, 1).low1
         /\ FrameOf(l, b, 3).low1 <= FrameOf(l, b, 2).low1
         /\ FrameOf(l, b, 2).low2 <= FrameOf(l, b, 1).low2
         /\ FrameOf(l, b, 3).low2 <= FrameOf(l, b, 2).low2
         /\ Homely(FrameOf(l, b, 3), b) /\ FrameOf(l, b, 3).back = 3420
<1> DEFINE s == Beginning(0)
           x == HomeTopFloor(b)
           y == HomeFloor(b)
<1>1. y <= x /\ x \in Int /\ y \in Int
  BY DEF HomeTopFloor, HomeFloor
<1> HIDE DEF x, y, s
<1>2. /\ \E ops : Lays(l, b, 1, s, x, 8000, 74000, ops)
      /\ \E ops : Lays(l, b, 2, s, y, 8000, 74000, ops)
      /\ \E ops : Lays(l, b, 3, s, y, 8000, 74000, ops)
  <2> DEFINE o(i) == NonvatHomePage(b, s.cursor)[i].ops
  <2>1. /\ Lays(l, b, 1, s, x, 8000, 74000, o(1))
        /\ Lays(l, b, 2, s, y, 8000, 74000, o(2))
        /\ Lays(l, b, 3, s, y, 8000, 74000, o(3))
    BY HomePageIs DEF x, y
  <2> HIDE DEF o
  <2> QED BY <2>1
<1>3. /\ FrameOf(l, b, 1) \in Frames /\ FrameOf(l, b, 1).deck = -1200
      /\ FrameOf(l, b, 1).low1 = x /\ FrameOf(l, b, 1).low2 = 8000
  BY <1>2, LaysFrame
<1>4. /\ FrameOf(l, b, 2) \in Frames /\ FrameOf(l, b, 2).deck = -1200
      /\ FrameOf(l, b, 2).low1 = y /\ FrameOf(l, b, 2).low2 = 8000
  BY <1>2, LaysFrame
<1>5. /\ FrameOf(l, b, 3) \in Frames /\ FrameOf(l, b, 3).deck = -1200
      /\ FrameOf(l, b, 3).low1 = y /\ FrameOf(l, b, 3).low2 = 8000
      /\ FrameOf(l, b, 3).top = 74000 /\ FrameOf(l, b, 3).back = 3420
  BY <1>2, LaysFrame DEF Grouping
<1>6. Homely(FrameOf(l, b, 3), b)
  BY <1>5 DEF Homely, HomeFloor, y
<1> QED BY <1>1, <1>3, <1>4, <1>5, <1>6

LEMMA HomeLeadsOn1 ==
  ASSUME NEW l, l = "nonvat_home", NEW b \in Bill, NEW s \in Between(l, b, 0)
  PROVE  LeadsOn(l, b, 1, s)
<1> DEFINE n == 1
           k == FrameOf(l, b, n)
           x == HomeTopFloor(b)
           ops == NonvatHomePage(b, s.cursor)[1].ops
           P == In(k, Bare)
           Q == Started(k, Two(Bare))
<1>1. Lays(l, b, n, s, x, 8000, 74000, ops)
  BY HomePageIs
<1>2. k \in Frames /\ k.deck = -1200
  BY HomeFrames
<1>3. s \in P
  <2> DEFINE start == Start(l, b)
  <2>1. s = Beginning(start)
    BY DEF Between
  <2>2. start \in Int
    BY DEF Start
  <2> HIDE DEF start, k
  <2> QED BY <2>1, <2>2, BeginningIn
<1>4. Q = Between(l, b, n)
  BY DEF Between, PartCount
<1> HIDE DEF k
<1>5. Rule(k, P, ops, Q)
  BY <1>2, BareFacts, NonvatHomeTopRule
<1> HIDE DEF P, Q, x, ops
<1>6. Rule(FrameOf(l, b, n), P, ops, Q)
  BY <1>5 DEF k
<1> HIDE DEF n
<1>7. LeadsOn(l, b, n, s)
  BY <1>1, <1>3, <1>4, <1>6, LaysLeadsOn
<1> QED BY <1>7 DEF n

LEMMA HomeLeadsOn2 ==
  ASSUME NEW l, l = "nonvat_home", NEW b \in Bill, NEW s \in Between(l, b, 1)
  PROVE  LeadsOn(l, b, 2, s)
<1> DEFINE n == 2
           j == FrameOf(l, b, 1)
           k == FrameOf(l, b, n)
           x == HomeFloor(b)
           ops == NonvatHomePage(b, s.cursor)[2].ops
           a == Two(Bare)
           P == In(k, Away(a, -1080))
<1>1. Lays(l, b, n, s, x, 8000, 74000, ops)
  BY HomePageIs
<1>2. k \in Frames /\ j \in Frames /\ k.deck = j.deck /\ k.low1 <= j.low1 /\ k.low2 <= j.low2
  BY HomeFrames
<1>3. s \in Started(j, a)
  BY DEF Between, PartCount
<1>4. P = Between(l, b, n)
  BY DEF Between, PartCount
<1>5. a \in Resting
  BY BareFacts, TwoFacts
<1> HIDE DEF j, k, a
<1>6. s \in P
  <2> DEFINE v == -1080
  <2>1. v \in Int
    OBVIOUS
  <2> HIDE DEF v
  <2>2. s \in In(j, Away(a, v))
    BY <1>3, <1>5, <2>1, StartedIsAway
  <2>3. s \in In(k, Away(a, v))
    BY <1>2, <1>5, <2>1, <2>2, OtherAway
  <2> QED BY <2>3 DEF v
<1>7. Rule(k, P, ops, P)
  BY <1>2, <1>5, NonvatHomePaymentsRule
<1> HIDE DEF P, x, ops
<1>8. Rule(FrameOf(l, b, n), P, ops, P)
  BY <1>7 DEF k
<1> HIDE DEF n
<1>9. LeadsOn(l, b, n, s)
  BY <1>1, <1>4, <1>6, <1>8, LaysLeadsOn
<1> QED BY <1>9 DEF n

LEMMA HomeLeadsOn3 ==
  ASSUME NEW l, l = "nonvat_home", NEW b \in Bill, NEW s \in Between(l, b, 2)
  PROVE  LeadsOn(l, b, 3, s)
<1> DEFINE n == 3
           j == FrameOf(l, b, 2)
           k == FrameOf(l, b, n)
           x == HomeFloor(b)
           ops == NonvatHomePage(b, s.cursor)[3].ops
           a == Two(Bare)
           P == {s}
           Q == In(k, Counted(a, Shown(b.sections)))
<1>1. Lays(l, b, n, s, x, 8000, 74000, ops)
  BY HomePageIs
<1>2. /\ k \in Frames /\ j \in Frames /\ k.deck = j.deck /\ k.low1 <= j.low1 /\ k.low2 <= j.low2
      /\ Homely(k, b) /\ k.back = 3420
  BY HomeFrames
<1>3. s \in In(j, Away(a, -1080))
  BY DEF Between, PartCount
<1>4. Q \subseteq Between(l, b, n)
  <2>1. a \in Resting /\ a.rows = 0
    BY BareFacts, TwoFacts
  <2>2. n # 0 /\ n = PartCount(l) /\ Owed(l, b) = Shown(b.sections)
    BY DEF PartCount, Owed
  <2>3. Between(l, b, n) = {t \in Spot : t.rows = Shown(b.sections)}
    BY <2>2 DEF Between
  <2> HIDE DEF a, k
  <2>4. In(k, Counted(a, Shown(b.sections))) \subseteq {t \in Spot : t.rows = Shown(b.sections)}
    BY <2>1, AllShown
  <2> QED BY <2>3, <2>4
<1>5. a \in Resting /\ a.two
  BY BareFacts, TwoFacts
<1> HIDE DEF j, k, a
<1>6. s \in In(k, Away(a, -1080))
  <2> DEFINE v == -1080
  <2>1. v \in Int /\ s \in In(j, Away(a, v))
    BY <1>3
  <2> HIDE DEF v
  <2>2. s \in In(k, Away(a, v))
    BY <1>2, <1>5, <2>1, OtherAway
  <2> QED BY <2>2 DEF v
<1>7. Rule(k, P, ops, Q)
  <2>1. k.strict => k.back >= 3420
    BY <1>2
  <2> QED BY <1>2, <1>5, <1>6, <2>1, NonvatHomeEndRule
<1> HIDE DEF Q, x, ops
<1>8. Rule(FrameOf(l, b, n), P, ops, Q) /\ s \in P
  BY <1>7 DEF k
<1> HIDE DEF n, P
<1>9. LeadsOn(l, b, n, s)
  BY <1>1, <1>4, <1>8, LaysLeadsOn
<1> QED BY <1>9 DEF n

(* The grouping layouts: one column, so that nothing of what is known      *)
(* between two parts depends on their floors.                              *)

LEMMA GroupingNext ==
  ASSUME NEW l \in Grouping, NEW b, NEW n \in 1..PartCount(l)
  PROVE  /\ n < PartCount(l) => Between(l, b, n) = In(FrameOf(l, b, n), Bare)
         /\ n = PartCount(l) => Between(l, b, n) = {s \in Spot : s.rows = Shown(b.sections)}
<1>1. n # 0 /\ PartCount(l) \in Nat /\ l # "nonvat_home" /\ l # "invoice_of_summary"
      /\ Owed(l, b) = Shown(b.sections)
  BY DEF Grouping, PartCount, Owed
<1>2. n < PartCount(l) => n # PartCount(l)
  BY <1>1
<1> QED BY <1>1, <1>2 DEF Between

LEMMA GroupingBefore ==
  ASSUME NEW l \in Grouping, NEW b, NEW n \in 1..PartCount(l), NEW k, NEW s \in Between(l, b, n - 1)
  PROVE  s \in In(k, Bare)
<1>1. PartCount(l) \in Nat
  BY DEF Grouping, PartCount
<1>2. CASE n = 1
  <2> DEFINE start == Start(l, b)
  <2>1. s = Beginning(start)
    BY <1>2 DEF Between
  <2>2. start \in Int
    BY DEF Grouping, Start
  <2> HIDE DEF start
  <2> QED BY <2>1, <2>2, BeginningIn
<1>3. CASE n # 1
  <2> DEFINE m == n - 1
             j == FrameOf(l, b, m)
  <2>1. m \in 1..PartCount(l) /\ m < PartCount(l)
    BY <1>1, <1>3
  <2> HIDE DEF m
  <2>2. Between(l, b, m) = In(j, Bare)
    BY <2>1, GroupingNext
  <2>3. s \in In(j, Bare)
    BY <2>2 DEF m
  <2> HIDE DEF j
  <2> QED BY <2>3, BareFacts, OtherFrame
<1> QED BY <1>2, <1>3

\* A part that leaves nothing known, or the last one.
LEMMA GroupingLeadsOn ==
  ASSUME NEW l \in Grouping, NEW b \in Bill, NEW n \in 1..PartCount(l),
         NEW s \in Between(l, b, n - 1),
         NEW x, NEW y, NEW z, NEW ops, Lays(l, b, n, s, x, y, z, ops),
         NEW r, r = IF n = PartCount(l) THEN Counted(Bare, Shown(b.sections)) ELSE Bare,
         Rule(FrameOf(l, b, n), In(FrameOf(l, b, n), Bare), ops, In(FrameOf(l, b, n), r))
  PROVE  LeadsOn(l, b, n, s)
<1> DEFINE k == FrameOf(l, b, n)
           P == In(k, Bare)
           Q == In(k, r)
<1>1. PartCount(l) \in Nat
  BY DEF Grouping, PartCount
<1>2. s \in P
  <2> HIDE DEF k
  <2> QED BY GroupingBefore
<1>3. Q \subseteq Between(l, b, n)
  <2>1. CASE n = PartCount(l)
    <3>1. r = Counted(Bare, Shown(b.sections))
      BY <2>1
    <3>2. Between(l, b, n) = {t \in Spot : t.rows = Shown(b.sections)}
      BY <2>1, GroupingNext
    <3>3. In(k, Counted(Bare, Shown(b.sections))) \subseteq {t \in Spot : t.rows = Shown(b.sections)}
      <4> HIDE DEF k
      <4> QED BY BareFacts, AllShown
    <3> QED BY <3>1, <3>2, <3>3
  <2>2. CASE n # PartCount(l)
    <3>1. r = Bare /\ n < PartCount(l)
      BY <1>1, <2>2
    <3>2. Between(l, b, n) = In(k, Bare)
      BY <3>1, GroupingNext
    <3> QED BY <3>1, <3>2
  <2> QED BY <2>1, <2>2
<1>4. Rule(FrameOf(l, b, n), P, ops, Q)
  OBVIOUS
<1> HIDE DEF k, P, Q
<1> QED BY <1>2, <1>3, <1>4, LaysLeadsOn

-----------------------------------------------------------------------------
(* subscription_ref_grouping.                                              *)

LEMMA SubscriptionRefPageIs ==
  ASSUME NEW l, l = "subscription_ref_grouping", NEW b, NEW s
  PROVE  /\ Lays(l, b, 1, s, 33000, 8000, 78000, SubscriptionRefCharges(b).ops)
         /\ Lays(l, b, 2, s, 33000, 33000, 78000,
                 SubscriptionRefAdjustments(b) \o SubscriptionRefDiscounts(b))
         /\ Lays(l, b, 3, s, 14000, 8000, 78000, SubscriptionRefTotal(b).ops)
         /\ Lays(l, b, 4, s, 9000, 8000, 78000, SubscriptionRefPayments(b).ops)
         /\ Lays(l, b, 5, s, 9000, 8000, 78000,
                 SubscriptionRefCancelled(b) \o SubscriptionRefMessages(b))
         /\ Lays(l, b, 6, s, 6000, 6000, 78000, SubscriptionRefUsage(b).ops)
<1> DEFINE p1 == SubscriptionRefCharges(b)
           p2 == Part(33000, 33000, 78000,
                      SubscriptionRefAdjustments(b) \o SubscriptionRefDiscounts(b))
           p3 == SubscriptionRefTotal(b)
           p4 == SubscriptionRefPayments(b)
           p5 == Part(9000, 8000, 78000,
                      SubscriptionRefCancelled(b) \o SubscriptionRefMessages(b))
           p6 == SubscriptionRefUsage(b)
<1>1. p1 = Part(33000, 8000, 78000, p1.ops)
  BY PartIs DEF SubscriptionRefCharges
<1>2. p3 = Part(14000, 8000, 78000, p3.ops)
  BY PartIs DEF SubscriptionRefTotal
<1>3. p4 = Part(9000, 8000, 78000, p4.ops)
  BY PartIs DEF SubscriptionRefPayments
<1>4. p6 = Part(6000, 6000, 78000, p6.ops)
  BY PartIs DEF SubscriptionRefUsage
<1>5. \A c : Page(l, b, c) = <<p1, p2, p3, p4, p5, p6>>
  BY DEF Page, SubscriptionRefPage
<1> HIDE DEF p1, p2, p3, p4, p5, p6
<1>6. \A c : /\ Page(l, b, c)[1] = p1 /\ Page(l, b, c)[2] = p2 /\ Page(l, b, c)[3] = p3
             /\ Page(l, b, c)[4] = p4 /\ Page(l, b, c)[5] = p5 /\ Page(l, b, c)[6] = p6
  BY <1>5
<1>7. Lays(l, b, 1, s, 33000, 8000, 78000, p1.ops)
  BY <1>1, <1>6 DEF Lays
<1>8. Lays(l, b, 2, s, 33000, 33000, 78000,
           SubscriptionRefAdjustments(b) \o SubscriptionRefDiscounts(b))
  BY <1>6 DEF Lays, p2
<1>9. Lays(l, b, 3, s, 14000, 8000, 78000, p3.ops)
  BY <1>2, <1>6 DEF Lays
<1>10. Lays(l, b, 4, s, 9000, 8000, 78000, p4.ops)
  BY <1>3, <1>6 DEF Lays
<1>11. Lays(l, b, 5, s, 9000, 8000, 78000,
            SubscriptionRefCancelled(b) \o SubscriptionRefMessages(b))
  BY <1>6 DEF Lays, p5
<1>12. Lays(l, b, 6, s, 6000, 6000, 78000, p6.ops)
  BY <1>4, <1>6 DEF Lays
<1> QED BY <1>7, <1>8, <1>9, <1>10, <1>11, <1>12 DEF p1, p3, p4, p6

LEMMA PayCount ==
  ASSUME NEW b \in Bill
  PROVE  b.pay \in Nat /\ b.tax \in Nat
BY DEF Bill

LEMMA SubscriptionRefLeadsOn ==
  ASSUME NEW l, l = "subscription_ref_grouping", NEW b \in Bill, NEW n \in 1..PartCount(l),
         NEW s \in Between(l, b, n - 1)
  PROVE  LeadsOn(l, b, n, s)
<1>1. l \in Grouping /\ PartCount(l) = 6
  BY DEF Grouping, PartCount
<1>2. CASE n = 1
  <2> DEFINE k == FrameOf(l, b, n)
             x == 33000
           y == 8000
           z == 78000
             ops == SubscriptionRefCharges(b).ops
             r == Bare
  <2>1. Lays(l, b, n, s, x, y, z, ops)
    BY <1>2, SubscriptionRefPageIs
  <2> HIDE DEF x, ops
  <2>2. k \in Frames
    BY <1>1, <1>2, <2>1, LaysFrame
  <2> HIDE DEF k, y, z
  <2>3. Rule(k, In(k, Bare), ops, In(k, r))
    BY <2>2, BareFacts, SubscriptionRefChargesRule DEF ops
  <2>4. r = IF n = PartCount(l) THEN Counted(Bare, Shown(b.sections)) ELSE Bare
    BY <1>1, <1>2
  <2>5. Rule(FrameOf(l, b, n), In(FrameOf(l, b, n), Bare), ops, In(FrameOf(l, b, n), r))
    BY <2>3 DEF k
  <2> HIDE DEF r
  <2> QED BY <1>1, <2>1, <2>4, <2>5, GroupingLeadsOn
<1>3. CASE n = 2
  <2> DEFINE k == FrameOf(l, b, n)
             x == 33000
           y == 33000
           z == 78000
             ops == SubscriptionRefAdjustments(b) \o SubscriptionRefDiscounts(b)
             r == Bare
  <2>1. Lays(l, b, n, s, x, y, z, ops)
    BY <1>3, SubscriptionRefPageIs
  <2> HIDE DEF x, ops
  <2>2. k \in Frames
    BY <1>1, <1>3, <2>1, LaysFrame
  <2> HIDE DEF k, y, z
  <2>3. Rule(k, In(k, Bare), ops, In(k, r))
    BY <2>2, BareFacts, SubscriptionRefListsRule DEF ops
  <2>4. r = IF n = PartCount(l) THEN Counted(Bare, Shown(b.sections)) ELSE Bare
    BY <1>1, <1>3
  <2>5. Rule(FrameOf(l, b, n), In(FrameOf(l, b, n), Bare), ops, In(FrameOf(l, b, n), r))
    BY <2>3 DEF k
  <2> HIDE DEF r
  <2> QED BY <1>1, <2>1, <2>4, <2>5, GroupingLeadsOn
<1>4. CASE n = 3
  <2> DEFINE k == FrameOf(l, b, n)
             x == 14000
           y == 8000
           z == 78000
             ops == SubscriptionRefTotal(b).ops
             r == Bare
  <2>1. Lays(l, b, n, s, x, y, z, ops)
    BY <1>4, SubscriptionRefPageIs
  <2> HIDE DEF x, ops
  <2>2. k \in Frames
    BY <1>1, <1>4, <2>1, LaysFrame
  <2> HIDE DEF k, y, z
  <2>3. Rule(k, In(k, Bare), ops, In(k, r))
    BY <2>2, BareFacts, SubscriptionRefTotalRule DEF ops
  <2>4. r = IF n = PartCount(l) THEN Counted(Bare, Shown(b.sections)) ELSE Bare
    BY <1>1, <1>4
  <2>5. Rule(FrameOf(l, b, n), In(FrameOf(l, b, n), Bare), ops, In(FrameOf(l, b, n), r))
    BY <2>3 DEF k
  <2> HIDE DEF r
  <2> QED BY <1>1, <2>1, <2>4, <2>5, GroupingLeadsOn
<1>5. CASE n = 4
  <2> DEFINE k == FrameOf(l, b, n)
             x == 9000
           y == 8000
           z == 78000
             ops == SubscriptionRefPayments(b).ops
             r == Bare
  <2>1. Lays(l, b, n, s, x, y, z, ops)
    BY <1>5, SubscriptionRefPageIs
  <2> HIDE DEF x, ops
  <2>2. k \in Frames /\ Tall(k) /\ (k.strict => b.pay <= PagePayments)
    <3>1. k \in Frames /\ k.top = z /\ k.low2 = y /\ k.strict = ~Unasked(l, b, n)
      BY <2>1, LaysFrame
    <3>2. b.pay > PagePayments => Unasked(l, b, n)
      BY <1>5 DEF Unasked
    <3>3. k.strict => ~(b.pay > PagePayments)
      <4> DEFINE asked == Unasked(l, b, n)
                 long == b.pay > PagePayments
      <4>1. k.strict = ~asked /\ (long => asked)
        BY <3>1, <3>2
      <4> HIDE DEF asked, long
      <4>2. k.strict => ~long
        BY <4>1
      <4> QED BY <4>2 DEF long
    <3>4. ~(b.pay > PagePayments) => b.pay <= PagePayments
      BY PayCount DEF PagePayments
    <3>5. Tall(k)
      BY <3>1 DEF Tall
    <3> QED BY <3>1, <3>3, <3>4, <3>5
  <2> HIDE DEF k, y, z
  <2>3. Rule(k, In(k, Bare), ops, In(k, r))
    BY <2>2, BareFacts, SubscriptionRefPaymentsRule DEF ops
  <2>4. r = IF n = PartCount(l) THEN Counted(Bare, Shown(b.sections)) ELSE Bare
    BY <1>1, <1>5
  <2>5. Rule(FrameOf(l, b, n), In(FrameOf(l, b, n), Bare), ops, In(FrameOf(l, b, n), r))
    BY <2>3 DEF k
  <2> HIDE DEF r
  <2> QED BY <1>1, <2>1, <2>4, <2>5, GroupingLeadsOn
<1>6. CASE n = 5
  <2> DEFINE k == FrameOf(l, b, n)
             x == 9000
           y == 8000
           z == 78000
             ops == SubscriptionRefCancelled(b) \o SubscriptionRefMessages(b)
             r == Bare
  <2>1. Lays(l, b, n, s, x, y, z, ops)
    BY <1>6, SubscriptionRefPageIs
  <2> HIDE DEF x, ops
  <2>2. k \in Frames /\ ~k.strict
    <3>1. k \in Frames /\ k.strict = ~Unasked(l, b, n)
      BY <2>1, LaysFrame
    <3> QED BY <3>1, <1>6 DEF Unasked
  <2> HIDE DEF k, y, z
  <2>3. Rule(k, In(k, Bare), ops, In(k, r))
    BY <2>2, BareFacts, SubscriptionRefNotesRule DEF ops
  <2>4. r = IF n = PartCount(l) THEN Counted(Bare, Shown(b.sections)) ELSE Bare
    BY <1>1, <1>6
  <2>5. Rule(FrameOf(l, b, n), In(FrameOf(l, b, n), Bare), ops, In(FrameOf(l, b, n), r))
    BY <2>3 DEF k
  <2> HIDE DEF r
  <2> QED BY <1>1, <2>1, <2>4, <2>5, GroupingLeadsOn
<1>7. CASE n = 6
  <2> DEFINE k == FrameOf(l, b, n)
             x == 6000
           y == 6000
           z == 78000
             ops == SubscriptionRefUsage(b).ops
             r == Counted(Bare, Shown(b.sections))
  <2>1. Lays(l, b, n, s, x, y, z, ops)
    BY <1>7, SubscriptionRefPageIs
  <2> HIDE DEF x, ops
  <2>2. k \in Frames /\ k.back = 4410
    BY <1>1, <1>7, <2>1, LaysFrame
  <2> HIDE DEF k, y, z
  <2>3. Rule(k, In(k, Bare), ops, In(k, r))
    BY <2>2, BareFacts, SubscriptionRefUsageRule DEF ops
  <2>4. r = IF n = PartCount(l) THEN Counted(Bare, Shown(b.sections)) ELSE Bare
    BY <1>1, <1>7
  <2>5. Rule(FrameOf(l, b, n), In(FrameOf(l, b, n), Bare), ops, In(FrameOf(l, b, n), r))
    BY <2>3 DEF k
  <2> HIDE DEF r
  <2> QED BY <1>1, <2>1, <2>4, <2>5, GroupingLeadsOn
<1> QED BY <1>1, <1>2, <1>3, <1>4, <1>5, <1>6, <1>7

(* product_label_grouping.                                                 *)

ProductLabelTaxFloor(b) == IF b.red THEN 22000 ELSE 26400

LEMMA ProductLabelPageIs ==
  ASSUME NEW l, l = "product_label_grouping", NEW b, NEW s
  PROVE  /\ Lays(l, b, 1, s, 26400, 8000, 78000, ProductLabelCharges(b).ops)
         /\ Lays(l, b, 2, s, 26400, 8000, 78000,
                 ProductLabelAdjustments(b) \o ProductLabelDiscounts(b))
         /\ Lays(l, b, 3, s, ProductLabelTaxFloor(b), 8000, 78000, SummedTax(b, 900))
         /\ Lays(l, b, 4, s, 26400, 8000, 78000, ProductLabelTotal)
         /\ Lays(l, b, 5, s, 15000, 8000, 78000, ProductLabelPayments(b).ops)
         /\ Lays(l, b, 6, s, 15000, 8000, 78000,
                 ProductLabelCancelled(b) \o ProductLabelMessages(b))
         /\ Lays(l, b, 7, s, 15000, 8000, 78000, ProductLabelUsage(b, s.cursor))
<1> DEFINE x == ProductLabelTaxFloor(b)
           o2 == ProductLabelAdjustments(b) \o ProductLabelDiscounts(b)
           o6 == ProductLabelCancelled(b) \o ProductLabelMessages(b)
           p1 == ProductLabelCharges(b)
           p2 == Part(26400, 8000, 78000, o2)
           p3 == Part(x, 8000, 78000, SummedTax(b, 900))
           p4 == Part(26400, 8000, 78000, ProductLabelTotal)
           p5 == ProductLabelPayments(b)
           p6 == Part(15000, 8000, 78000, o6)
           p7(c) == Part(15000, 8000, 78000, ProductLabelUsage(b, c))
<1>1. p1 = Part(26400, 8000, 78000, p1.ops)
  BY PartIs DEF ProductLabelCharges
<1>2. p5 = Part(15000, 8000, 78000, p5.ops)
  BY PartIs DEF ProductLabelPayments
<1>3. ProductLabelTaxes(b) = p3 /\ x \in Int
  BY DEF ProductLabelTaxes, ProductLabelTaxFloor
<1>4. \A c : Page(l, b, c) = <<p1, p2, p3, p4, p5, p6, p7(c)>>
  BY <1>3 DEF Page, ProductLabelPage
<1> HIDE DEF x, o2, o6, p1, p2, p3, p4, p5, p6, p7
<1>5. \A c : /\ Page(l, b, c)[1] = p1 /\ Page(l, b, c)[2] = p2 /\ Page(l, b, c)[3] = p3
             /\ Page(l, b, c)[4] = p4 /\ Page(l, b, c)[5] = p5 /\ Page(l, b, c)[6] = p6
             /\ Page(l, b, c)[7] = p7(c)
  <2> TAKE c
  <2> DEFINE p == p7(c)
  <2>1. Page(l, b, c) = <<p1, p2, p3, p4, p5, p6, p>>
    BY <1>4
  <2> HIDE DEF p
  <2>2. /\ Page(l, b, c)[1] = p1 /\ Page(l, b, c)[2] = p2 /\ Page(l, b, c)[3] = p3
        /\ Page(l, b, c)[4] = p4 /\ Page(l, b, c)[5] = p5 /\ Page(l, b, c)[6] = p6
        /\ Page(l, b, c)[7] = p
    BY <2>1
  <2> QED BY <2>2 DEF p
<1>6. Lays(l, b, 1, s, 26400, 8000, 78000, p1.ops)
  BY <1>1, <1>5 DEF Lays
<1>7. Lays(l, b, 2, s, 26400, 8000, 78000, o2)
  BY <1>5 DEF Lays, p2
<1>8. Lays(l, b, 3, s, x, 8000, 78000, SummedTax(b, 900))
  BY <1>3, <1>5 DEF Lays, p3
<1>9. Lays(l, b, 4, s, 26400, 8000, 78000, ProductLabelTotal)
  BY <1>5 DEF Lays, p4
<1>10. Lays(l, b, 5, s, 15000, 8000, 78000, p5.ops)
  BY <1>2, <1>5 DEF Lays
<1>11. Lays(l, b, 6, s, 15000, 8000, 78000, o6)
  BY <1>5 DEF Lays, p6
<1>12. Lays(l, b, 7, s, 15000, 8000, 78000, ProductLabelUsage(b, s.cursor))
  <2>1. \A c : Page(l, b, c)[7] = Part(15000, 8000, 78000, ProductLabelUsage(b, c))
    BY <1>5 DEF p7
  <2> QED BY <2>1 DEF Lays
<1> QED BY <1>6, <1>7, <1>8, <1>9, <1>10, <1>11, <1>12 DEF x, o2, o6, p1, p5

LEMMA ProductLabelLeadsOn ==
  ASSUME NEW l, l = "product_label_grouping", NEW b \in Bill, NEW n \in 1..PartCount(l),
         NEW s \in Between(l, b, n - 1)
  PROVE  LeadsOn(l, b, n, s)
<1>1. l \in Grouping /\ PartCount(l) = 7
  BY DEF Grouping, PartCount
<1>2. CASE n = 1
  <2> DEFINE k == FrameOf(l, b, n)
             x == 26400
           y == 8000
           z == 78000
             ops == ProductLabelCharges(b).ops
             r == Bare
  <2>1. Lays(l, b, n, s, x, y, z, ops)
    BY <1>2, ProductLabelPageIs
  <2> HIDE DEF x, ops
  <2>2. k \in Frames
    BY <1>1, <1>2, <2>1, LaysFrame
  <2> HIDE DEF k, y, z
  <2>3. Rule(k, In(k, Bare), ops, In(k, r))
    BY <2>2, BareFacts, ProductLabelChargesRule DEF ops
  <2>4. r = IF n = PartCount(l) THEN Counted(Bare, Shown(b.sections)) ELSE Bare
    BY <1>1, <1>2
  <2>5. Rule(FrameOf(l, b, n), In(FrameOf(l, b, n), Bare), ops, In(FrameOf(l, b, n), r))
    BY <2>3 DEF k
  <2> HIDE DEF r
  <2> QED BY <1>1, <2>1, <2>4, <2>5, GroupingLeadsOn
<1>3. CASE n = 2
  <2> DEFINE k == FrameOf(l, b, n)
             x == 26400
           y == 8000
           z == 78000
             ops == ProductLabelAdjustments(b) \o ProductLabelDiscounts(b)
             r == Bare
  <2>1. Lays(l, b, n, s, x, y, z, ops)
    BY <1>3, ProductLabelPageIs
  <2> HIDE DEF x, ops
  <2>2. k \in Frames /\ ~k.strict
    <3>1. k \in Frames /\ k.strict = ~Unasked(l, b, n)
      BY <2>1, LaysFrame
    <3> QED BY <3>1, <1>3 DEF Unasked
  <2> HIDE DEF k, y, z
  <2>3. Rule(k, In(k, Bare), ops, In(k, r))
    BY <2>2, BareFacts, ProductLabelListsRule DEF ops
  <2>4. r = IF n = PartCount(l) THEN Counted(Bare, Shown(b.sections)) ELSE Bare
    BY <1>1, <1>3
  <2>5. Rule(FrameOf(l, b, n), In(FrameOf(l, b, n), Bare), ops, In(FrameOf(l, b, n), r))
    BY <2>3 DEF k
  <2> HIDE DEF r
  <2> QED BY <1>1, <2>1, <2>4, <2>5, GroupingLeadsOn
<1>4. CASE n = 3
  <2> DEFINE k == FrameOf(l, b, n)
             x == ProductLabelTaxFloor(b)
           y == 8000
           z == 78000
             ops == SummedTax(b, 900)
             r == Bare
  <2>1. Lays(l, b, n, s, x, y, z, ops)
    BY <1>4, ProductLabelPageIs
  <2> HIDE DEF x, ops
  <2>2. k \in Frames
    BY <1>1, <1>4, <2>1, LaysFrame
  <2> HIDE DEF k, y, z
  <2>3. Rule(k, In(k, Bare), ops, In(k, r))
    BY <2>2, BareFacts, PayCount, SummedTaxRule DEF ops
  <2>4. r = IF n = PartCount(l) THEN Counted(Bare, Shown(b.sections)) ELSE Bare
    BY <1>1, <1>4
  <2>5. Rule(FrameOf(l, b, n), In(FrameOf(l, b, n), Bare), ops, In(FrameOf(l, b, n), r))
    BY <2>3 DEF k
  <2> HIDE DEF r
  <2> QED BY <1>1, <2>1, <2>4, <2>5, GroupingLeadsOn
<1>5. CASE n = 4
  <2> DEFINE k == FrameOf(l, b, n)
             x == 26400
           y == 8000
           z == 78000
             ops == ProductLabelTotal
             r == Bare
  <2>1. Lays(l, b, n, s, x, y, z, ops)
    BY <1>5, ProductLabelPageIs
  <2> HIDE DEF x, ops
  <2>2. k \in Frames /\ k.front = 100
    BY <1>1, <1>5, <2>1, LaysFrame
  <2> HIDE DEF k, y, z
  <2>3. Rule(k, In(k, Bare), ops, In(k, r))
    BY <2>2, BareFacts, ProductLabelTotalRule DEF ops
  <2>4. r = IF n = PartCount(l) THEN Counted(Bare, Shown(b.sections)) ELSE Bare
    BY <1>1, <1>5
  <2>5. Rule(FrameOf(l, b, n), In(FrameOf(l, b, n), Bare), ops, In(FrameOf(l, b, n), r))
    BY <2>3 DEF k
  <2> HIDE DEF r
  <2> QED BY <1>1, <2>1, <2>4, <2>5, GroupingLeadsOn
<1>6. CASE n = 5
  <2> DEFINE k == FrameOf(l, b, n)
             x == 15000
           y == 8000
           z == 78000
             ops == ProductLabelPayments(b).ops
             r == Bare
  <2>1. Lays(l, b, n, s, x, y, z, ops)
    BY <1>6, ProductLabelPageIs
  <2> HIDE DEF x, ops
  <2>2. k \in Frames /\ Tall(k) /\ (k.strict => b.pay <= PagePayments)
    <3>1. k \in Frames /\ k.top = z /\ k.low2 = y /\ k.strict = ~Unasked(l, b, n)
      BY <2>1, LaysFrame
    <3>2. b.pay > PagePayments => Unasked(l, b, n)
      BY <1>6 DEF Unasked
    <3>3. k.strict => ~(b.pay > PagePayments)
      <4> DEFINE asked == Unasked(l, b, n)
                 long == b.pay > PagePayments
      <4>1. k.strict = ~asked /\ (long => asked)
        BY <3>1, <3>2
      <4> HIDE DEF asked, long
      <4>2. k.strict => ~long
        BY <4>1
      <4> QED BY <4>2 DEF long
    <3>4. ~(b.pay > PagePayments) => b.pay <= PagePayments
      BY PayCount DEF PagePayments
    <3>5. Tall(k)
      BY <3>1 DEF Tall
    <3> QED BY <3>1, <3>3, <3>4, <3>5
  <2> HIDE DEF k, y, z
  <2>3. Rule(k, In(k, Bare), ops, In(k, r))
    BY <2>2, BareFacts, ProductLabelPaymentsRule DEF ops
  <2>4. r = IF n = PartCount(l) THEN Counted(Bare, Shown(b.sections)) ELSE Bare
    BY <1>1, <1>6
  <2>5. Rule(FrameOf(l, b, n), In(FrameOf(l, b, n), Bare), ops, In(FrameOf(l, b, n), r))
    BY <2>3 DEF k
  <2> HIDE DEF r
  <2> QED BY <1>1, <2>1, <2>4, <2>5, GroupingLeadsOn
<1>7. CASE n = 6
  <2> DEFINE k == FrameOf(l, b, n)
             x == 15000
           y == 8000
           z == 78000
             ops == ProductLabelCancelled(b) \o ProductLabelMessages(b)
             r == Bare
  <2>1. Lays(l, b, n, s, x, y, z, ops)
    BY <1>7, ProductLabelPageIs
  <2> HIDE DEF x, ops
  <2>2. k \in Frames
    BY <1>1, <1>7, <2>1, LaysFrame
  <2> HIDE DEF k, y, z
  <2>3. Rule(k, In(k, Bare), ops, In(k, r))
    BY <2>2, BareFacts, ProductLabelNotesRule DEF ops
  <2>4. r = IF n = PartCount(l) THEN Counted(Bare, Shown(b.sections)) ELSE Bare
    BY <1>1, <1>7
  <2>5. Rule(FrameOf(l, b, n), In(FrameOf(l, b, n), Bare), ops, In(FrameOf(l, b, n), r))
    BY <2>3 DEF k
  <2> HIDE DEF r
  <2> QED BY <1>1, <2>1, <2>4, <2>5, GroupingLeadsOn
<1>8. CASE n = 7
  <2> DEFINE k == FrameOf(l, b, n)
             x == 15000
           y == 8000
           z == 78000
             ops == ProductLabelUsage(b, s.cursor)
             r == Counted(Bare, Shown(b.sections))
  <2>1. Lays(l, b, n, s, x, y, z, ops)
    BY <1>8, ProductLabelPageIs
  <2> HIDE DEF x, ops
  <2>2. k \in Frames /\ k.back = 4410
    BY <1>1, <1>8, <2>1, LaysFrame
  <2> HIDE DEF k, y, z
  <2>3. Rule(k, In(k, Bare), ops, In(k, r))
    BY <2>2, BareFacts, ProductLabelUsageRule DEF ops
  <2>4. r = IF n = PartCount(l) THEN Counted(Bare, Shown(b.sections)) ELSE Bare
    BY <1>1, <1>8
  <2>5. Rule(FrameOf(l, b, n), In(FrameOf(l, b, n), Bare), ops, In(FrameOf(l, b, n), r))
    BY <2>3 DEF k
  <2> HIDE DEF r
  <2> QED BY <1>1, <2>1, <2>4, <2>5, GroupingLeadsOn
<1> QED BY <1>1, <1>2, <1>3, <1>4, <1>5, <1>6, <1>7, <1>8

(* Every part of every layout leads on.                                    *)

LEMMA LayoutIs ==
  ASSUME NEW l \in Layouts
  PROVE  l \in {"vat_home", "nonvat_home", "vat_enterprise", "nonvat_enterprise",
                "subscription_ref_grouping", "product_label_grouping", "usd_open_item",
                "invoice_of_summary", "nonvat_print", "summary_statement"}
BY RenderAssumption

LEMMA PartRule ==
  ASSUME NEW l \in Layouts, NEW b \in Bill, NEW n \in 1..PartCount(l),
         NEW s \in Between(l, b, n - 1)
  PROVE  LeadsOn(l, b, n, s)
<1>1. CASE l \in {"subscription_ref_grouping", "product_label_grouping"}
  BY <1>1, SubscriptionRefLeadsOn, ProductLabelLeadsOn
<1>2. CASE l = "nonvat_home"
  <2>1. n \in 1..3
    BY <1>2 DEF PartCount
  <2>2. CASE n = 1
    <3>1. s \in Between(l, b, 0)
      BY <2>2
    <3> QED BY <1>2, <2>2, <3>1, HomeLeadsOn1
  <2>3. CASE n = 2
    <3>1. s \in Between(l, b, 1)
      BY <2>3
    <3> QED BY <1>2, <2>3, <3>1, HomeLeadsOn2
  <2>4. CASE n = 3
    <3>1. s \in Between(l, b, 2)
      BY <2>4
    <3> QED BY <1>2, <2>4, <3>1, HomeLeadsOn3
  <2> QED BY <2>1, <2>2, <2>3, <2>4
<1>3. CASE l = "invoice_of_summary"
  <2>1. n \in 1..2
    BY <1>3 DEF PartCount
  <2>2. CASE n = 1
    <3>1. s \in Between(l, b, 0)
      BY <2>2
    <3> QED BY <1>3, <2>2, <3>1, SummaryLeadsOn1
  <2>3. CASE n = 2
    <3>1. s \in Between(l, b, 1)
      BY <2>3
    <3> QED BY <1>3, <2>3, <3>1, SummaryLeadsOn2
  <2> QED BY <2>1, <2>2, <2>3
<1>4. CASE l \in {"vat_home", "vat_enterprise", "nonvat_enterprise", "usd_open_item",
                  "nonvat_print", "summary_statement"}
  <2>1. n = 1
    BY <1>4 DEF PartCount
  <2>2. s \in Between(l, b, 0)
    BY <2>1
  <2>3. CASE l = "vat_home"
    BY <2>1, <2>2, <2>3, VatHomeLeadsOn
  <2>4. CASE l = "vat_enterprise"
    BY <2>1, <2>2, <2>4, VatEnterpriseLeadsOn
  <2>5. CASE l = "nonvat_enterprise"
    BY <2>1, <2>2, <2>5, NonvatEnterpriseLeadsOn
  <2>6. CASE l = "usd_open_item"
    BY <2>1, <2>2, <2>6, UsdLeadsOn
  <2>7. CASE l = "nonvat_print"
    BY <2>1, <2>2, <2>7, NonvatPrintLeadsOn
  <2>8. CASE l = "summary_statement"
    BY <2>1, <2>2, <2>8, SummaryStatementLeadsOn
  <2> QED BY <1>4, <2>3, <2>4, <2>5, <2>6, <2>7, <2>8
<1> QED BY <1>1, <1>2, <1>3, <1>4, LayoutIs

LEMMA PartCountIs ==
  ASSUME NEW l \in Layouts
  PROVE  PartCount(l) \in Nat \ {0}
BY LayoutIs DEF PartCount

LEMMA PageLength ==
  ASSUME NEW l \in Layouts, NEW b, NEW c
  PROVE  Len(Page(l, b, c)) = PartCount(l)
<1>1. CASE l = "nonvat_home"
  BY <1>1 DEF Page, PartCount, NonvatHomePage
<1>2. CASE l = "subscription_ref_grouping"
  BY <1>2 DEF Page, PartCount, SubscriptionRefPage
<1>3. CASE l = "product_label_grouping"
  BY <1>3 DEF Page, PartCount, ProductLabelPage
<1>4. CASE l = "invoice_of_summary"
  BY <1>4 DEF Page, PartCount, SummaryPage
<1>5. CASE l = "vat_home"
  BY <1>5 DEF Page, PartCount, VatHomePage
<1>6. CASE l = "vat_enterprise"
  BY <1>6 DEF Page, PartCount, VatEnterprisePage
<1>7. CASE l = "nonvat_enterprise"
  BY <1>7 DEF Page, PartCount, NonvatEnterprisePage
<1>8. CASE l = "usd_open_item"
  BY <1>8 DEF Page, PartCount, UsdPage
<1>9. CASE l = "nonvat_print"
  BY <1>9 DEF Page, PartCount, NonvatPrintPage
<1>10. CASE l = "summary_statement"
  BY <1>10 DEF Page, PartCount, SummaryStatementPage
<1> QED BY <1>1, <1>2, <1>3, <1>4, <1>5, <1>6, <1>7, <1>8, <1>9, <1>10, LayoutIs

\* Where no command is left, the flow is where the part leads.
LEMMA RuleEnd ==
  ASSUME NEW k, NEW s, NEW Q, Rule(k, {s}, <<>>, Q)
  PROVE  s \in Q
<1>1. PICK f : Outline(k, {s}, <<>>, Q, f)
  BY DEF Rule
<1>2. {s} \subseteq f[0] /\ f[Len(<<>>)] \subseteq Q /\ Len(<<>>) = 0
  BY <1>1 DEF Outline
<1> QED BY <1>2

\* A line within its frame hangs over no further than is allowed.
LEMMA WithinOverhang ==
  ASSUME NEW l, NEW b, NEW n, NEW at, Within(FrameOf(l, b, n), at)
  PROVE  Overhang(l, at)
<1> DEFINE k == FrameOf(l, b, n)
<1>1. /\ k.front = (IF l = "invoice_of_summary" THEN 1200
                    ELSE IF l = "product_label_grouping" THEN 100 ELSE 0)
      /\ k.back = (IF l \in Grouping THEN 4410 ELSE IF l = "nonvat_home" THEN 3420 ELSE 0)
  BY DEF FrameOf
<1> HIDE DEF k
<1>2. Within(k, at)
  BY DEF k
<1>3. CASE at.over <= k.front
  BY <1>1, <1>3 DEF Overhang
<1>4. CASE at.page > 1 /\ at.over <= k.back
  BY <1>1, <1>4 DEF Overhang
<1>5. CASE at.col = 2 /\ at.over <= 1200
  BY <1>5 DEF Overhang
<1> QED BY <1>2, <1>3, <1>4, <1>5 DEF Within

\* Where a command puts its line depends on the floors alone.
LEMMA PlacedSeated ==
  ASSUME NEW p, NEW k, Seated(p, k), NEW c, NEW op
  PROVE  /\ Placed(c, p, op) = Placed(c, k, op)
         /\ After(c, p, op) = After(c, k, op)
         /\ \A d : Low(d, p) = Low(d, k)
<1>1. p.low1 = k.low1 /\ p.low2 = k.low2 /\ p.top = k.top
  BY PartIs DEF Seated
<1>2. \A d : Low(d, p) = Low(d, k)
  BY <1>1 DEF Low
<1>3. Break(c, p) = Break(c, k) /\ NextColumn(c, p) = NextColumn(c, k)
  BY <1>1 DEF Break, NextColumn
<1>4. \A need : Short(c, p, need) <=> Short(c, k, need)
  BY <1>2 DEF Short
<1>5. \A need : Fit(c, p, need) = Fit(c, k, need)
  BY <1>3, <1>4 DEF Fit
<1>6. Placed(c, p, op) = Placed(c, k, op)
  BY <1>1, <1>3, <1>4, <1>5 DEF Placed
<1> QED BY <1>2, <1>6 DEF After

-----------------------------------------------------------------------------
(***************************************************************************)
(* The invariant, and the theorems of the specification.                   *)
(***************************************************************************)

(* The invariant: the commands still to come lead from where the flow is   *)
(* to where the part should end.                                           *)

\* The spot of a state.
Now == [cursor |-> cursor, line |-> line, rows |-> rows]

\* The part is the one the layout puts there, and what is left of it leads from
\* the spot of the state to where the flow may be when the part ends.
Leading ==
  /\ layout \in Layouts /\ bill \in Bills /\ done \in 0..PartCount(layout)
  /\ done = 0 => part.ops = <<>>
  /\ done > 0 => LET k == FrameOf(layout, bill, done)
                 IN k.part = done /\ Seated(part, k)
  /\ Rule(FrameOf(layout, bill, done), {Now}, part.ops, Between(layout, bill, done))

LeadingInv == Leading /\ FloorKept

LEMMA RendererInit == Init => LeadingInv
<1> SUFFICES ASSUME Init PROVE LeadingInv
  OBVIOUS
<1>1. layout \in Layouts /\ bill \in Bills /\ done = 0 /\ part.ops = <<>>
  BY PartIs DEF Init
<1>2. PartCount(layout) \in Nat \ {0}
  BY <1>1, PartCountIs
<1>3. Now = Beginning(Start(layout, bill)) /\ Between(layout, bill, 0) = {Now}
  BY DEF Init, Now, Beginning, Between
<1>4. Rule(FrameOf(layout, bill, done), {Now}, part.ops, Between(layout, bill, done))
  BY <1>1, <1>3, RuleEmpty
<1>5. Overhang(layout, line)
  BY DEF Init, Nowhere, Overhang
<1> QED BY <1>1, <1>2, <1>4, <1>5 DEF LeadingInv, Leading, FloorKept

\* What is left of a part that has ended.
LEMMA Ended ==
  ASSUME Leading, part.ops = <<>>
  PROVE  Now \in Between(layout, bill, done)
BY RuleEnd DEF Leading

LEMMA StartPartKeeps ==
  ASSUME LeadingInv, StartPart
  PROVE  LeadingInv'
<1> DEFINE n == done + 1
           p == Page(layout, bill, cursor)[n]
           k == FrameOf(layout, bill, n)
<1>1. layout \in Layouts /\ bill \in Bill /\ bill \in Bills /\ done \in 0..PartCount(layout)
      /\ PartCount(layout) \in Nat
  BY PartCountIs, RenderAssumption DEF LeadingInv, Leading
<1>2. n \in 1..PartCount(layout) /\ n - 1 = done
  BY <1>1, PageLength DEF StartPart
<1>3. Now \in Between(layout, bill, done)
  BY Ended DEF LeadingInv, StartPart
<1>4. Now.cursor = cursor
  BY DEF Now
<1>5. LeadsOn(layout, bill, n, Now)
  BY <1>1, <1>2, <1>3, PartRule
<1>6. k.part = n /\ Seated(p, k) /\ Rule(k, {Now}, p.ops, Between(layout, bill, n))
  BY <1>4, <1>5 DEF LeadsOn
<1>7. /\ layout' = layout /\ bill' = bill /\ part' = p /\ done' = n /\ line' = line
      /\ Now' = Now
  BY DEF StartPart, Now
<1> HIDE DEF n, p, k
<1>8. done' \in 0..PartCount(layout) /\ done' # 0
  BY <1>2, <1>7
<1>9. Rule(FrameOf(layout, bill, n), {Now}, p.ops, Between(layout, bill, n))
  BY <1>6 DEF k
<1>10. FrameOf(layout, bill, n).part = n /\ Seated(p, FrameOf(layout, bill, n))
  BY <1>6 DEF k
<1>11. Leading'
  BY <1>1, <1>7, <1>8, <1>9, <1>10 DEF Leading
<1>12. FloorKept'
  BY <1>7 DEF LeadingInv, FloorKept, Overhang, Unasked
<1> QED BY <1>11, <1>12 DEF LeadingInv

-----------------------------------------------------------------------------
(* A command: it does what Step says.                                      *)

LEMMA PartExcept ==
  ASSUME NEW x, NEW y, NEW z, NEW ops, NEW other
  PROVE  [Part(x, y, z, ops) EXCEPT !.ops = other] = Part(x, y, z, other)
BY DEF Part

\* The frame of the part being drawn, and the spot after the next command.
LEMMA Stepping ==
  ASSUME Leading, part.ops # <<>>, Draw \/ Move
  PROVE  LET k == FrameOf(layout, bill, done)
             op == Head(part.ops)
         IN /\ done > 0 /\ k.part = done /\ Seated(part, k)
            /\ op \in Command
            /\ Good(k, Now, op)
            /\ Rule(k, {Step(k, Now, op)}, Tail(part.ops), Between(layout, bill, done))
            /\ Now' = Step(k, Now, op)
            /\ line' = IF Writes(op) THEN LineAt(k, cursor, op) ELSE line
            /\ part' = Part(k.low1, k.low2, k.top, Tail(part.ops))
            /\ UNCHANGED <<layout, bill, done>>
<1> DEFINE k == FrameOf(layout, bill, done)
           op == Head(part.ops)
           Q == Between(layout, bill, done)
           ops == part.ops
<1>1. done > 0 /\ done \in Nat
  BY PartCountIs DEF Leading
<1>2. k.part = done /\ Seated(part, k) /\ Rule(k, {Now}, ops, Q)
  BY <1>1 DEF Leading
<1> HIDE DEF k, Q
<1>3. /\ op \in Command /\ Good(k, Now, op)
      /\ Rule(k, {Step(k, Now, op)}, Tail(ops), Q)
  BY <1>2, RuleStep
<1>4. /\ Placed(cursor, part, op) = Placed(cursor, k, op)
      /\ After(cursor, part, op) = After(cursor, k, op)
      /\ \A d : Low(d, part) = Low(d, k)
  BY <1>2, PlacedSeated
<1>5. LineOf(op) = LineAt(k, cursor, op)
  BY <1>2, <1>4 DEF LineOf, LineAt
<1>6. cursor' = After(cursor, k, op) /\ part' = [part EXCEPT !.ops = Tail(ops)]
      /\ UNCHANGED <<layout, bill, done>>
  BY <1>4 DEF Draw, Move
<1>7. line' = IF Writes(op) THEN LineAt(k, cursor, op) ELSE line
  <2> HIDE DEF op
  <2>1. CASE Draw
    <3>1. op.act \in {"text", "plain", "fixed"}
          /\ line' = IF op.act = "fixed" THEN line ELSE LineOf(op)
      BY <2>1 DEF Draw, Draws, op
    <3> QED BY <1>5, <3>1 DEF Writes
  <2>2. CASE Move
    <3>1. ~Writes(op) /\ line' = line
      BY <2>2 DEF Move, Draws, Writes, op
    <3> QED BY <3>1
  <2> QED BY <2>1, <2>2
<1>8. rows' = IF Draws(op) /\ op.row THEN rows + 1 ELSE rows
  BY DEF Draw, Move
<1>9. Now' = Step(k, Now, op)
  <2> HIDE DEF op
  <2>1. Now.cursor = cursor /\ Now.line = line /\ Now.rows = rows
    BY DEF Now
  <2>2. Now' = [cursor |-> cursor', line |-> line', rows |-> rows']
    BY DEF Now
  <2> HIDE DEF Now
  <2> QED BY <1>6, <1>7, <1>8, <2>1, <2>2 DEF Step
<1>10. part' = Part(k.low1, k.low2, k.top, Tail(ops))
  <2>1. part = Part(k.low1, k.low2, k.top, ops)
    BY <1>2 DEF Seated
  <2> DEFINE t == Tail(ops)
             x == k.low1
             y == k.low2
             z == k.top
             o == ops
  <2>2. part = Part(x, y, z, o) /\ part' = [part EXCEPT !.ops = t]
    BY <1>6, <2>1
  <2> HIDE DEF t, x, y, z, o
  <2>3. part' = Part(x, y, z, t)
    BY <2>2, PartExcept
  <2> QED BY <2>3 DEF t, x, y, z
<1> QED BY <1>1, <1>2, <1>3, <1>6, <1>7, <1>9, <1>10 DEF k, Q

LEMMA CommandKeeps ==
  ASSUME LeadingInv, Draw \/ Move
  PROVE  LeadingInv'
<1> DEFINE k == FrameOf(layout, bill, done)
           op == Head(part.ops)
           Q == Between(layout, bill, done)
           rest == Tail(part.ops)
<1>1. Leading /\ part.ops # <<>>
  BY DEF LeadingInv, Draw, Move
<1>2. /\ done > 0 /\ k.part = done
      /\ Good(k, Now, op)
      /\ Rule(k, {Step(k, Now, op)}, rest, Q)
      /\ Now' = Step(k, Now, op)
      /\ line' = IF Writes(op) THEN LineAt(k, cursor, op) ELSE line
      /\ part' = Part(k.low1, k.low2, k.top, rest)
      /\ layout' = layout /\ bill' = bill /\ done' = done
  BY <1>1, Stepping
<1> HIDE DEF op, rest
<1>3. part'.ops = rest /\ Seated(part', k)
  <2> DEFINE p == Part(k.low1, k.low2, k.top, rest)
  <2>1. p.ops = rest
    BY PartIs
  <2>2. p = Part(k.low1, k.low2, k.top, p.ops)
    BY <2>1
  <2> HIDE DEF p
  <2>3. part' = p
    BY <1>2 DEF p
  <2> QED BY <2>1, <2>2, <2>3 DEF Seated
<1>4. Leading'
  <2>1. layout \in Layouts /\ bill \in Bills /\ done \in 0..PartCount(layout)
    BY <1>1 DEF Leading
  <2> QED BY <1>2, <1>3, <2>1 DEF Leading
<1>5. FloorKept'
  <2>1. CASE ~Writes(op)
    <3>1. line' = line
      BY <1>2, <2>1
    <3> QED BY <1>2, <3>1 DEF LeadingInv, FloorKept, Overhang, Unasked
  <2>2. CASE Writes(op)
    <3> DEFINE at == LineAt(k, cursor, op)
    <3>1. line' = at
      BY <1>2, <2>2
    <3>2. at.part = done
      BY <1>2 DEF LineAt
    <3>3. k.strict => Within(k, at)
      <4>1. Now.cursor = cursor
        BY DEF Now
      <4> QED BY <1>2, <2>2, <4>1 DEF Good
    <3>4. k.strict = ~Unasked(layout, bill, done)
      BY DEF FrameOf
    <3> HIDE DEF at
    <3>5. Within(k, at) => Overhang(layout, at)
      BY WithinOverhang
    <3>6. Unasked(layout, bill, done) \/ Overhang(layout, at)
      <4> HIDE DEF k
      <4> DEFINE asked == Unasked(layout, bill, done)
                 within == Within(k, at)
                 over == Overhang(layout, at)
      <4>1. k.strict = ~asked /\ (k.strict => within) /\ (within => over)
        BY <3>3, <3>4, <3>5
      <4> HIDE DEF asked, within, over
      <4>2. asked \/ over
        BY <4>1
      <4> QED BY <4>2 DEF asked, over
    <3> QED BY <1>2, <3>1, <3>2, <3>6 DEF FloorKept, Overhang, Unasked
  <2> QED BY <2>1, <2>2
<1> QED BY <1>4, <1>5 DEF LeadingInv

LEMMA RendererStep == LeadingInv /\ [Next]_vars => LeadingInv'
<1> SUFFICES ASSUME LeadingInv, [Next]_vars PROVE LeadingInv'
  OBVIOUS
<1>1. CASE StartPart
  BY <1>1, StartPartKeeps
<1>2. CASE Draw \/ Move
  BY <1>2, CommandKeeps
<1>3. CASE UNCHANGED vars
  <2>1. layout' = layout /\ bill' = bill /\ part' = part /\ done' = done /\ line' = line
        /\ Now' = Now
    BY <1>3 DEF vars, Now
  <2>2. Leading'
    BY <2>1 DEF LeadingInv, Leading
  <2> QED BY <2>1, <2>2 DEF LeadingInv, FloorKept, Overhang, Unasked
<1> QED BY <1>1, <1>2, <1>3 DEF Next

(* For every bill and every layout, the commands a renderer has still to draw *)
(* on a part keep to the part's floors, order and headings, and end where the *)
(* next part (the columns, the usage, the grand totals) takes up the cursor.  *)
THEOREM RendererLeads == Spec => []LeadingInv
<1> QED BY RendererInit, RendererStep, PTL DEF Spec

(* No renderer draws a line of the flow below the floor of its page, where the *)
(* payment slip begins, by more than what the code draws without asking        *)
(* check_page for room: that check is made often enough, and with enough.      *)
THEOREM RendererFloorKept == Spec => []FloorKept
<1>1. LeadingInv => FloorKept
  BY DEF LeadingInv
<1> QED BY <1>1, RendererLeads, PTL

(* When a renderer has drawn its last part, each row of each usage table of   *)
(* the bill has been drawn once: splitting a table over columns and pages, and *)
(* the table nonvat_home draws ahead of the others, lose and repeat nothing.   *)
THEOREM RendererRowsDrawnOnce == Spec => []RowsDrawnOnce
<1>1. LeadingInv => RowsDrawnOnce
  <2> SUFFICES ASSUME LeadingInv, Finished
               PROVE  rows = CASE layout = "nonvat_print" -> 0
                               [] layout = "summary_statement" -> Len(bill.names)
                               [] OTHER -> Added([i \in DOMAIN bill.sections |-> Rows(bill.sections[i])])
    BY DEF RowsDrawnOnce
  <2>1. Leading /\ layout \in Layouts
    BY DEF LeadingInv, Leading
  <2>2. part.ops = <<>> /\ done = PartCount(layout) /\ done # 0
    BY <2>1, PartCountIs, PageLength DEF Finished
  <2>3. Now \in Between(layout, bill, done)
    BY <2>1, <2>2, Ended
  <2>4. Between(layout, bill, done) = {s \in Spot : s.rows = Owed(layout, bill)}
    BY <2>2 DEF Between
  <2>5. rows = Owed(layout, bill)
    <3>1. Now.rows = rows
      BY DEF Now
    <3> QED BY <2>3, <2>4, <3>1
  <2> QED BY <2>5 DEF Owed, Shown
<1> QED BY <1>1, RendererLeads, PTL

\* What a step that draws shows.
LEMMA DrawnWell ==
  ASSUME LeadingInv, [Next]_vars, Drawn
  PROVE  /\ Follows(line, line')
         /\ line.heads /\ line.found => line'.page = line.page /\ line'.col = line.col
<1> DEFINE k == FrameOf(layout, bill, done)
           op == Head(part.ops)
<1>1. Leading /\ part.ops # <<>> /\ op.act \in {"text", "plain"} /\ line.page > 0 /\ part' # part
  BY DEF LeadingInv, Drawn, Flows
<1>2. Draw \/ Move
  BY <1>1 DEF Next, StartPart, vars
<1>3. Good(k, Now, op) /\ line' = IF Writes(op) THEN LineAt(k, cursor, op) ELSE line
  BY <1>1, <1>2, Stepping
<1>4. Writes(op)
  BY <1>1 DEF Writes
<1>5. Now.cursor = cursor /\ Now.line = line
  BY DEF Now
<1> HIDE DEF k, op, Now
<1> QED BY <1>1, <1>3, <1>4, <1>5 DEF Good

(* A line is drawn below the line before it, in a later column or on a later  *)
(* page, whatever page breaks and column changes come between the two.        *)
THEOREM RendererReadingOrder == Spec => ReadingOrder
<1>1. LeadingInv /\ [Next]_vars => [Drawn => Follows(line, line')]_vars
  BY DrawnWell
<1> QED BY <1>1, RendererLeads, PTL DEF Spec, ReadingOrder

(* The room a renderer asks for before a heading is enough for the heading    *)
(* and the line below it: no page break comes between the two.                *)
THEOREM RendererHeadingKept == Spec => HeadingKept
<1>1. LeadingInv /\ [Next]_vars
        => [Drawn /\ line.heads /\ line.found
              => line'.page = line.page /\ line'.col = line.col]_vars
  BY DrawnWell
<1> QED BY <1>1, RendererLeads, PTL DEF Spec, HeadingKept
=============================================================================
