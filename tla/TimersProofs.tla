---------------------------- MODULE TimersProofs ----------------------------
(***************************************************************************)
(* What is proved of Timers: its type, that a timer neither drifts nor     *)
(* loses a call, that the queue never sleeps past the end of a period, and *)
(* that a timer that does not loop is called once, for any timers,         *)
(* intervals and times.                                                    *)
(*                                                                         *)
(* Two facts carry the proofs.  Of the queue of functions: what is put     *)
(* into it holds a timer as often as it is due (FlattenedCount), so that   *)
(* calls and counts agree.  Of the arithmetic: the end of the period that  *)
(* the remainder gives is never after the one that the count waits for     *)
(* (RemainsWithin).                                                        *)
(***************************************************************************)
EXTENDS Timers, FiniteSetTheorems, WellFoundedInduction, TLAPS

\* Count(p, t): how often t is in p.
Places(p, t) == {i \in DOMAIN p : p[i] = t}
Count(p, t) == Cardinality(Places(p, t))

\* Timers are started at Now0, and a timer that loops is not stopped.
Started == \A t \in Names : timer[t].start \in {0, Now0} /\ (Loop[t] => active(t))

\* What has been counted has been called, or is due.
Counted == \A t \in Names :
    /\ Loop[t] => calls[t] + Count(due, t) = timer[t].loops
    /\ ~Loop[t] => /\ calls[t] + Count(due, t) <= 1
                   /\ active(t) => calls[t] + Count(due, t) = 0

\* The periods that have been counted have passed, but for the offset.
Passed == \A t \in Names : Loop[t] /\ ~changed[t] =>
    timer[t].start + timer[t].loops * intervalTime(t) <= now + Offset

\* The inductive invariant.
TInv == TypeOK /\ Started /\ Counted /\ Passed /\ NoOversleep

-----------------------------------------------------------------------------
(***************************************************************************)
(* Induction, minima and division.                                         *)
(***************************************************************************)

\* A set of naturals that is not empty has a least element.
LEMMA LeastElement ==
    ASSUME NEW S, S \subseteq Nat, S # {}
    PROVE  \E x \in S : \A y \in S : x <= y
<1> DEFINE R == {ss \in Nat \X Nat : ss[1] < ss[2]}
<1>1. IsWellFoundedOn(R, Nat)
  BY NatLessThanWellFounded DEF OpToRel
<1>2. \A x, y \in Nat : x < y => <<x, y>> \in R
  OBVIOUS
<1> HIDE DEF R
<1>3. PICK x \in S : \A y \in S : ~(<<y, x>> \in R)
  BY <1>1, WFMin
<1>4. \A y \in S : y \in Nat
  OBVIOUS
<1>5. \A y \in S : ~(y < x)
  BY <1>2, <1>3, <1>4
<1>6. \A y \in S : x <= y
  BY <1>4, <1>5
<1> QED
  BY <1>6

\* So Min is what it is called.
LEMMA MinIs ==
    ASSUME NEW S, S \subseteq Nat, S # {}
    PROVE  Min(S) \in S /\ \A y \in S : Min(S) <= y
<1>1. \E x \in S : \A y \in S : x <= y
  BY LeastElement
<1> QED
  BY <1>1 DEF Min

\* What holds at 1 and at every successor holds up to n.
LEMMA Upto ==
    ASSUME NEW n \in Nat, NEW S, 1 \in S, \A i \in 2..n : i - 1 \in S => i \in S
    PROVE  1..n \subseteq S
<1> DEFINE T == (1..n) \ S
<1>1. CASE T # {}
  <2>1. T \subseteq Nat
    OBVIOUS
  <2> HIDE DEF T
  <2>2. PICK x \in T : \A y \in T : x <= y
    BY <1>1, <2>1, LeastElement
  <2> USE DEF T
  <2>3. x \in 2..n /\ x - 1 \in 1..n /\ ~(x <= x - 1)
    BY <2>2
  <2>4. x - 1 \in S
    BY <2>2, <2>3
  <2> QED
    BY <2>2, <2>3, <2>4
<1> QED
  BY <1>1

\* Division leaves a remainder below the divisor.
LEMMA Division ==
    ASSUME NEW a \in Nat, NEW b \in Nat \ {0}
    PROVE  /\ a \div b \in Nat /\ a % b \in 0..(b - 1)
           /\ a = b * (a \div b) + (a % b)
  OBVIOUS

\* The period that ends after the remainder is not after that which the count waits
\* for: at x after the start, with a count of at least those that have passed.
LEMMA RemainsWithin ==
    ASSUME NEW x \in Nat, NEW offset \in Nat, NEW b \in Nat \ {0}, NEW count \in Nat,
           (x + offset) \div b <= count
    PROVE  x + (b - (x % b)) <= (count + 1) * b
<1> DEFINE q == x \div b
           y == x + offset
           e == y \div b
<1>1. q \in Nat /\ x = b * q + (x % b) /\ x % b \in 0..(b - 1)
  BY Division
<1>2. e \in Nat /\ x + offset < b * e + b
  <2>1. y \in Nat /\ y = x + offset
    OBVIOUS
  <2> HIDE DEF y
  <2>2. e \in Nat /\ y = b * e + (y % b) /\ y % b \in 0..(b - 1)
    BY <2>1, Division
  <2> DEFINE m == y % b
             p == b * e
  <2>3. m \in Int /\ m < b /\ p \in Int /\ y = p + m
    BY <2>2
  <2> HIDE DEF e, m, p
  <2>4. y < p + b
    BY <2>1, <2>3
  <2> QED
    BY <2>1, <2>2, <2>4 DEF p
<1> HIDE DEF q, e
<1>3. q <= e
  <2> SUFFICES ASSUME q >= e + 1 PROVE FALSE
    BY <1>1, <1>2
  <2>1. b * q >= b * (e + 1)
    BY <1>1, <1>2
  <2>2. b * (e + 1) = b * e + b
    BY <1>2
  <2> QED
    BY <1>1, <1>2, <2>1, <2>2
<1>4. q <= count
  BY <1>1, <1>2, <1>3 DEF e
<1>5. b * (q + 1) <= b * (count + 1)
  BY <1>1, <1>4
<1>6. x + (b - (x % b)) = b * (q + 1)
  BY <1>1
<1> QED
  BY <1>5, <1>6

-----------------------------------------------------------------------------
(***************************************************************************)
(* The queue of functions.                                                 *)
(***************************************************************************)

\* A sequence has finitely many places for t.
LEMMA CountType ==
    ASSUME NEW S, NEW p \in Seq(S), NEW t
    PROVE  /\ IsFiniteSet(Places(p, t)) /\ Count(p, t) \in Nat
           /\ (t \notin S => Count(p, t) = 0)
<1>1. DOMAIN p = 1..Len(p) /\ Len(p) \in Nat
  OBVIOUS
<1>2. IsFiniteSet(1..Len(p))
  BY <1>1, FS_Interval
<1>3. Places(p, t) \in SUBSET (1..Len(p))
  BY <1>1 DEF Places
<1>4. IsFiniteSet(Places(p, t))
  BY <1>2, <1>3, FS_Subset
<1>5. t \notin S => Places(p, t) = {}
  BY <1>1 DEF Places
<1> QED
  BY <1>4, <1>5, FS_CardinalityType, FS_EmptySet DEF Count

\* A sequence of nothing but t holds t at every place,
LEMMA CountSame ==
    ASSUME NEW n \in Nat, NEW t, NEW p, DOMAIN p = 1..n, \A k \in 1..n : p[k] = t
    PROVE  Count(p, t) = n
<1>1. Places(p, t) = 1..n
  BY DEF Places
<1> QED
  BY <1>1, FS_Interval DEF Count

\* one without t at none.
LEMMA CountNone ==
    ASSUME NEW n \in Nat, NEW t, NEW p, DOMAIN p = 1..n, \A k \in 1..n : p[k] # t
    PROVE  Count(p, t) = 0
<1>1. Places(p, t) = {}
  BY DEF Places
<1> QED
  BY <1>1, FS_EmptySet DEF Count

\* Those of a concatenation.
LEMMA CountConcat ==
    ASSUME NEW S, NEW p \in Seq(S), NEW q \in Seq(S), NEW t
    PROVE  Count(p \o q, t) = Count(p, t) + Count(q, t)
<1> DEFINE r == p \o q
           n == Len(p)
           moved == {n + i : i \in Places(q, t)}
           move == [i \in Places(q, t) |-> n + i]
<1>1. /\ DOMAIN p = 1..n /\ DOMAIN q = 1..Len(q) /\ n \in Nat /\ Len(q) \in Nat
      /\ DOMAIN r = 1..(n + Len(q))
      /\ \A i \in 1..n : r[i] = p[i]
      /\ \A i \in 1..Len(q) : r[n + i] = q[i]
  OBVIOUS
<1> HIDE DEF r, n
<1>2. Places(r, t) = Places(p, t) \cup moved
  <2>1. ASSUME NEW i \in Places(r, t) PROVE i \in Places(p, t) \cup moved
    <3>1. CASE i \in 1..n
      BY <1>1, <2>1, <3>1 DEF Places
    <3>2. CASE i \notin 1..n
      <4>1. i - n \in 1..Len(q) /\ n + (i - n) = i
        BY <1>1, <2>1, <3>2 DEF Places
      <4>2. i - n \in Places(q, t)
        BY <1>1, <2>1, <4>1 DEF Places
      <4> QED
        BY <4>1, <4>2
    <3> QED
      BY <3>1, <3>2
  <2>2. Places(p, t) \subseteq Places(r, t)
    BY <1>1 DEF Places
  <2>3. moved \subseteq Places(r, t)
    BY <1>1 DEF Places
  <2> QED
    BY <2>1, <2>2, <2>3
<1>3. Places(p, t) \cap moved = {}
  BY <1>1 DEF Places
<1>4. IsFiniteSet(moved) /\ Cardinality(moved) = Cardinality(Places(q, t))
  <2>1. move \in Bijection(Places(q, t), moved)
    <3>1. Places(q, t) \subseteq Int
      BY <1>1 DEF Places
    <3>2. move \in [Places(q, t) -> moved]
      OBVIOUS
    <3>3. \A i, j \in Places(q, t) : move[i] = move[j] => i = j
      BY <1>1, <3>1
    <3>4. \A y \in moved : \E i \in Places(q, t) : move[i] = y
      OBVIOUS
    <3> HIDE DEF move, moved
    <3> QED
      BY <3>2, <3>3, <3>4 DEF Bijection, Injection, IsInjective, Surjection
  <2>2. ExistsBijection(Places(q, t), moved)
    BY <2>1 DEF ExistsBijection
  <2> QED
    BY <2>2, CountType, FS_Bijection
<1>5. Cardinality(Places(r, t)) = Cardinality(Places(p, t)) + Cardinality(moved)
  <2>1. IsFiniteSet(Places(p, t)) /\ Cardinality(Places(p, t)) \in Nat
    BY CountType DEF Count
  <2>2. Cardinality(moved) \in Nat
    BY <1>4, FS_CardinalityType
  <2> HIDE DEF moved
  <2>3. Cardinality(Places(p, t) \cup moved)
          = Cardinality(Places(p, t)) + Cardinality(moved) - Cardinality(Places(p, t) \cap moved)
    BY <1>4, <2>1, FS_Union
  <2>4. Cardinality(Places(p, t) \cap moved) = 0
    BY <1>3, FS_EmptySet
  <2> QED
    BY <1>2, <2>1, <2>2, <2>3, <2>4
<1> QED
  BY <1>4, <1>5 DEF Count, r

\* The sequences that FlattenSeq goes through: Chain(S, k, seqs) are the ways to
\* concatenate the first k of seqs one after the other.
Chain(S, k, seqs) ==
    {f \in [1..k -> Seq(S)] :
        f[1] = seqs[1] /\ \A i \in 2..k : f[i] = f[i - 1] \o seqs[i]}

\* There is one,
LEMMA ChainExists ==
    ASSUME NEW S, NEW n \in Nat \ {0}, NEW seqs \in [1..n -> Seq(S)]
    PROVE  Chain(S, n, seqs) # {}
<1> DEFINE T == {k \in 1..n : Chain(S, k, seqs) # {}}
<1>1. 1 \in T
  <2> DEFINE f == [i \in 1..1 |-> seqs[1]]
  <2>1. f \in Chain(S, 1, seqs)
    BY DEF Chain
  <2> QED
    BY <2>1
<1>2. ASSUME NEW k \in 2..n, k - 1 \in T PROVE k \in T
  <2>1. PICK f : f \in Chain(S, k - 1, seqs)
    BY <1>2
  <2> DEFINE last == f[k - 1] \o seqs[k]
             g == [i \in 1..k |-> IF i = k THEN last ELSE f[i]]
  <2>2. f \in [1..(k - 1) -> Seq(S)] /\ k - 1 \in 1..(k - 1) /\ k \in 1..n /\ 1 \in 1..(k - 1)
    BY <2>1 DEF Chain
  <2>3. last \in Seq(S)
    <3>1. f[k - 1] \in Seq(S) /\ seqs[k] \in Seq(S)
      BY <2>2
    <3> QED
      BY <3>1
  <2>4. g \in [1..k -> Seq(S)]
    <3> HIDE DEF last
    <3> QED
      BY <2>2, <2>3
  <2>5. g[1] = seqs[1]
    BY <2>1, <2>2 DEF Chain
  <2>6. ASSUME NEW i \in 2..k PROVE g[i] = g[i - 1] \o seqs[i]
    <3>1. CASE i = k
      <4>0. k \in 1..k /\ k - 1 \in 1..k /\ k - 1 # k
        BY <2>2
      <4>1. g[i] = last
        <5> HIDE DEF last
        <5>1. g[k] = last
          BY <4>0
        <5> QED
          BY <3>1, <5>1
      <4>2. g[i - 1] = f[k - 1]
        BY <3>1, <4>0
      <4> QED
        BY <3>1, <4>1, <4>2
    <3>2. CASE i # k
      <4>1. i \in 2..(k - 1) /\ i - 1 \in 1..(k - 1)
        BY <3>2
      <4>2. f[i] = f[i - 1] \o seqs[i]
        BY <2>1, <4>1 DEF Chain
      <4>3. g[i] = f[i] /\ g[i - 1] = f[i - 1]
        BY <3>2, <4>1
      <4> QED
        BY <4>2, <4>3
    <3> QED
      BY <3>1, <3>2
  <2> HIDE DEF g
  <2>7. g \in Chain(S, k, seqs)
    BY <2>4, <2>5, <2>6 DEF Chain
  <2> QED
    BY <2>7
<1>3. 1..n \subseteq T
  BY <1>1, <1>2, Upto
<1> QED
  BY <1>3

\* and FlattenSeq is the last of one.
LEMMA FlattenSeqIs ==
    ASSUME NEW S, NEW n \in Nat \ {0}, NEW seqs \in [1..n -> Seq(S)]
    PROVE  \E f \in Chain(S, n, seqs) : FlattenSeq(seqs) = f[n]
<1> DEFINE Of(f) == [i \in 1..n |-> IF i = 1 THEN seqs[i] ELSE f[i - 1] \o seqs[i]]
           c == CHOOSE f : f = Of(f)
<1>1. seqs \in Seq(Seq(S)) /\ Len(seqs) = n /\ n # 0
  OBVIOUS
<1>2. FlattenSeq(seqs) = c[n]
  BY <1>1 DEF FlattenSeq
<1>3. \E f : f = Of(f)
  <2>1. PICK f \in Chain(S, n, seqs) : TRUE
    BY ChainExists
  <2>2. ASSUME NEW i \in 1..n PROVE f[i] = Of(f)[i]
    <3>1. CASE i = 1
      BY <2>1, <3>1 DEF Chain
    <3>2. CASE i # 1
      <4>1. i \in 2..n
        BY <3>2
      <4>2. f[i] = f[i - 1] \o seqs[i]
        BY <2>1, <4>1 DEF Chain
      <4> QED
        BY <3>2, <4>2
    <3> QED
      BY <3>1, <3>2
  <2> DEFINE g == Of(f)
  <2>3. DOMAIN g = 1..n /\ g = [i \in 1..n |-> g[i]]
    OBVIOUS
  <2>4. f = [i \in 1..n |-> f[i]]
    BY <2>1 DEF Chain
  <2>5. \A i \in 1..n : f[i] = g[i]
    BY <2>2
  <2> HIDE DEF g
  <2>6. f = g
    BY <2>3, <2>4, <2>5
  <2> QED
    BY <2>6 DEF g
<1>4. c = Of(c)
  BY <1>3
<1> HIDE DEF c
<1>5. /\ c = [i \in 1..n |-> c[i]] /\ c[1] = seqs[1]
      /\ \A i \in 2..n : c[i] = c[i - 1] \o seqs[i]
  <2> DEFINE g == Of(c)
  <2>1. g = [i \in 1..n |-> g[i]] /\ g[1] = seqs[1]
    OBVIOUS
  <2>2. ASSUME NEW i \in 2..n PROVE g[i] = c[i - 1] \o seqs[i]
    <3> DEFINE joined == c[i - 1] \o seqs[i]
    <3>1. i \in 1..n /\ i # 1
      OBVIOUS
    <3>2. g[i] = IF i = 1 THEN seqs[i] ELSE joined
      BY <3>1
    <3> HIDE DEF g, joined
    <3>3. g[i] = joined
      BY <3>1, <3>2
    <3> QED
      BY <3>3 DEF joined
  <2>3. g = c
    BY <1>4
  <2> HIDE DEF g
  <2> QED
    BY <2>1, <2>2, <2>3
<1>6. \A i \in 1..n : c[i] \in Seq(S)
  <2> DEFINE T == {i \in 1..n : c[i] \in Seq(S)}
  <2>1. 1 \in T
    BY <1>5
  <2>2. ASSUME NEW i \in 2..n, i - 1 \in T PROVE i \in T
    <3>1. c[i] = c[i - 1] \o seqs[i]
      BY <1>5
    <3>2. i \in 1..n /\ seqs[i] \in Seq(S)
      OBVIOUS
    <3>3. c[i - 1] \in Seq(S)
      BY <2>2
    <3>4. c[i - 1] \o seqs[i] \in Seq(S)
      BY <3>2, <3>3
    <3> QED
      BY <3>1, <3>2, <3>4
  <2>3. 1..n \subseteq T
    BY <2>1, <2>2, Upto
  <2> QED
    BY <2>3
<1>7. c \in Chain(S, n, seqs)
  BY <1>5, <1>6 DEF Chain
<1> QED
  BY <1>2, <1>7

\* What is put into the queue of functions.
Batch(pushes) == [i \in DOMAIN List |-> [k \in 1..pushes[List[i]] |-> List[i]]]

\* Each timer is in it as often as it is pushed.
LEMMA FlattenedCount ==
    ASSUME NEW pushes \in [Names -> Nat]
    PROVE  /\ FlattenSeq(Batch(pushes)) \in Seq(Names)
           /\ \A t \in Names : Count(FlattenSeq(Batch(pushes)), t) = pushes[t]
<1> DEFINE n == Len(List)
           seqs == Batch(pushes)
<1>1. /\ n \in Nat /\ DOMAIN List = 1..n /\ \A i \in 1..n : List[i] \in Names
      /\ \A i, j \in 1..n : List[i] = List[j] => i = j
      /\ \A t \in Names : \E i \in 1..n : List[i] = t
  <2>1. List \in Seq(Names) /\ \A i, j \in DOMAIN List : List[i] = List[j] => i = j
    BY TimersAssumption
  <2>2. n \in Nat /\ DOMAIN List = 1..n /\ \A i \in 1..n : List[i] \in Names
    BY <2>1
  <2>3. \A t \in Names : \E i \in DOMAIN List : List[i] = t
    BY DEF Names, Range
  <2> QED
    BY <2>1, <2>2, <2>3
<1> HIDE DEF n
<1>2. CASE n = 0
  <2>1. 1..n = {} /\ Names = {}
    BY <1>1, <1>2
  <2>2. seqs = <<>>
    BY <1>1, <2>1 DEF Batch
  <2>3. FlattenSeq(seqs) = <<>>
    BY <2>2 DEF FlattenSeq
  <2> QED
    BY <2>1, <2>3
<1>3. CASE n # 0
  <2>1. \A i \in 1..n : seqs[i] = [k \in 1..pushes[List[i]] |-> List[i]]
    BY <1>1 DEF Batch
  <2>2. \A i \in 1..n : seqs[i] \in Seq(Names) /\ pushes[List[i]] \in Nat
    <3> SUFFICES ASSUME NEW i \in 1..n PROVE seqs[i] \in Seq(Names) /\ pushes[List[i]] \in Nat
      OBVIOUS
    <3>1. List[i] \in Names /\ pushes[List[i]] \in Nat
      BY <1>1
    <3>2. [k \in 1..pushes[List[i]] |-> List[i]] \in Seq(Names)
      BY <3>1
    <3> QED
      BY <2>1, <3>1, <3>2
  <2>3. seqs \in [1..n -> Seq(Names)]
    <3>1. seqs = [i \in 1..n |-> seqs[i]]
      BY <1>1 DEF Batch
    <3> HIDE DEF seqs
    <3> QED
      BY <2>2, <3>1
  <2>4. \A i \in 1..n, t \in Names :
          Count(seqs[i], t) = IF List[i] = t THEN pushes[t] ELSE 0
    <3> SUFFICES ASSUME NEW i \in 1..n, NEW t \in Names
                 PROVE  Count(seqs[i], t) = IF List[i] = t THEN pushes[t] ELSE 0
      OBVIOUS
    <3>1. seqs[i] = [k \in 1..pushes[List[i]] |-> List[i]] /\ pushes[List[i]] \in Nat
      BY <2>1, <2>2
    <3> DEFINE p == seqs[i]
               m == pushes[List[i]]
    <3>2. m \in Nat /\ DOMAIN p = 1..m /\ \A k \in 1..m : p[k] = List[i]
      BY <3>1
    <3> HIDE DEF p, m
    <3>3. CASE List[i] = t
      <4>1. \A k \in 1..m : p[k] = t
        BY <3>2, <3>3
      <4>2. Count(p, t) = m
        BY <3>2, <4>1, CountSame
      <4> QED
        BY <3>3, <4>2 DEF p, m
    <3>4. CASE List[i] # t
      <4>1. \A k \in 1..m : p[k] # t
        BY <3>2, <3>4
      <4>2. Count(p, t) = 0
        BY <3>2, <4>1, CountNone
      <4> QED
        BY <3>4, <4>2 DEF p
    <3> QED
      BY <3>3, <3>4
  <2> HIDE DEF seqs
  <2>5. PICK f \in Chain(Names, n, seqs) : FlattenSeq(seqs) = f[n]
    <3>1. n \in Nat \ {0}
      BY <1>1, <1>3
    <3> QED
      BY <2>3, <3>1, FlattenSeqIs
  <2>6. /\ f \in [1..n -> Seq(Names)] /\ f[1] = seqs[1]
        /\ \A i \in 2..n : f[i] = f[i - 1] \o seqs[i]
    BY <2>5 DEF Chain
  <2> DEFINE Sum(i, t) == IF \E j \in 1..i : List[j] = t THEN pushes[t] ELSE 0
             T == {i \in 1..n : \A t \in Names : Count(f[i], t) = Sum(i, t)}
  <2>7. 1 \in T
    BY <1>1, <1>3, <2>4, <2>6
  <2>8. ASSUME NEW i \in 2..n, i - 1 \in T PROVE i \in T
    <3> SUFFICES ASSUME NEW t \in Names PROVE Count(f[i], t) = Sum(i, t)
      BY <2>8
    <3>0. i \in 1..n /\ i - 1 \in 1..n
      BY <1>1
    <3>1. f[i] = f[i - 1] \o seqs[i] /\ f[i - 1] \in Seq(Names) /\ seqs[i] \in Seq(Names)
      BY <2>3, <2>6, <3>0
    <3>2. Count(f[i], t) = Count(f[i - 1], t) + Count(seqs[i], t)
      BY <3>1, CountConcat
    <3>3. Count(f[i - 1], t) = Sum(i - 1, t)
      BY <2>8
    <3>4. Count(seqs[i], t) = IF List[i] = t THEN pushes[t] ELSE 0
      BY <2>4
    <3>5. pushes[t] \in Nat
      OBVIOUS
    <3>6. CASE List[i] = t
      <4>1. ~(\E j \in 1..(i - 1) : List[j] = t) /\ \E j \in 1..i : List[j] = t
        BY <1>1, <3>6
      <4> QED
        BY <3>2, <3>3, <3>4, <3>5, <3>6, <4>1
    <3>7. CASE List[i] # t
      <4>1. (\E j \in 1..(i - 1) : List[j] = t) <=> \E j \in 1..i : List[j] = t
        BY <1>1, <3>7
      <4> QED
        BY <3>2, <3>3, <3>4, <3>5, <3>7, <4>1
    <3> QED
      BY <3>6, <3>7
  <2>9. n \in T
    <3> HIDE DEF T
    <3>1. 1..n \subseteq T
      BY <1>1, <2>7, <2>8, Upto
    <3> QED
      BY <1>1, <1>3, <3>1
  <2>10. f[n] \in Seq(Names) /\ \A t \in Names : Count(f[n], t) = pushes[t]
    BY <1>1, <1>3, <2>6, <2>9
  <2> QED
    BY <2>5, <2>10 DEF seqs
<1> QED
  BY <1>2, <1>3


\* The functions that are due without the first.
LEMMA CountTail ==
    ASSUME NEW S, NEW p \in Seq(S), p # <<>>, NEW t
    PROVE  Count(p, t) = Count(Tail(p), t) + (IF Head(p) = t THEN 1 ELSE 0)
<1> DEFINE h == Head(p)
           q == Tail(p)
           one == <<h>>
<1>1. h \in S /\ q \in Seq(S) /\ one \in Seq(S) /\ p = one \o q
  OBVIOUS
<1>2. DOMAIN one = 1..1 /\ \A k \in 1..1 : one[k] = h
  OBVIOUS
<1>3. Count(q, t) \in Nat
  BY <1>1, CountType
<1> HIDE DEF h, q, one
<1>4. Count(p, t) = Count(one, t) + Count(q, t)
  BY <1>1, CountConcat
<1>5. CASE h = t
  <2>1. \A k \in 1..1 : one[k] = t
    BY <1>2, <1>5
  <2>2. Count(one, t) = 1
    BY <1>2, <2>1, CountSame
  <2> QED
    BY <1>3, <1>4, <1>5, <2>2 DEF h, q
<1>6. CASE h # t
  <2>1. \A k \in 1..1 : one[k] # t
    BY <1>2, <1>6
  <2>2. Count(one, t) = 0
    BY <1>2, <2>1, CountNone
  <2> QED
    BY <1>3, <1>4, <1>6, <2>2 DEF h, q
<1> QED
  BY <1>5, <1>6

-----------------------------------------------------------------------------
(***************************************************************************)
(* The timers.                                                             *)
(***************************************************************************)

\* The periods that have passed since the start of t, which is active.
LEMMA ExpactCount ==
    ASSUME TypeOK, Started, NEW t \in Names
    PROVE  /\ intervalTime(t) \in Nat \ {0}
           /\ timer[t].start \in Nat /\ timer[t].loops \in Nat
           /\ now \in Nat /\ now - timer[t].start \in Nat
           /\ expactCount(t) \in Nat
           /\ timer[t].start + expactCount(t) * intervalTime(t) <= now + Offset
<1>1. timer[t] \in Timer /\ now \in Now0..MaxTime
  BY DEF TypeOK
<1>2. intervalTime(t) \in Nat \ {0}
  BY <1>1, TimersAssumption DEF intervalTime, Timer
<1>3. /\ timer[t].start \in Nat /\ timer[t].loops \in Nat
      /\ now \in Nat /\ now - timer[t].start \in Nat /\ Offset \in Nat
  BY <1>1, TimersAssumption DEF Timer, Started
<1> DEFINE a == now - timer[t].start + Offset
           b == intervalTime(t)
           e == a \div b
           r == a % b
           w == b * e
<1>4. a \in Nat /\ b \in Nat \ {0} /\ timer[t].start + a = now + Offset
  BY <1>2, <1>3
<1>5. expactCount(t) = e
  BY DEF expactCount
<1> HIDE DEF a, b
<1>6. e \in Nat /\ r \in 0..(b - 1) /\ a = w + r
  BY <1>4, Division
<1>7. w \in Int /\ e * b = w
  BY <1>4, <1>6
<1> HIDE DEF e, r, w
<1>8. w <= a
  BY <1>4, <1>6, <1>7
<1>9. timer[t].start + w <= now + Offset
  BY <1>3, <1>4, <1>7, <1>8
<1> QED
  BY <1>2, <1>3, <1>5, <1>6, <1>7, <1>9 DEF b

\* How often a timer is pushed.
LEMMA PushesType ==
    ASSUME TypeOK, Started, NEW t \in Names
    PROVE  /\ Pushes(t) \in Nat
           /\ Pushes(t) # 0 => active(t) /\ expactCount(t) \in Nat
           /\ Pushes(t) # 0 /\ Loop[t] => timer[t].loops + Pushes(t) = expactCount(t)
           /\ Pushes(t) # 0 /\ ~Loop[t] => Pushes(t) = 1
           /\ Pushes(t) = 0 /\ active(t) => expactCount(t) <= timer[t].loops
<1>1. expactCount(t) \in Nat /\ timer[t].loops \in Nat
  BY ExpactCount
<1> QED
  BY <1>1 DEF Pushes

\* What becomes of its record.
LEMMA PlannedIs ==
    ASSUME TypeOK, Started, NEW t \in Names
    PROVE  /\ Planned(t) \in Timer
           /\ Planned(t).interval = timer[t].interval
           /\ Pushes(t) = 0 => Planned(t) = timer[t]
           /\ Pushes(t) # 0 /\ Loop[t] => /\ Planned(t).start = timer[t].start
                                          /\ Planned(t).loops = expactCount(t)
           /\ Pushes(t) # 0 /\ ~Loop[t] => Planned(t).start = 0
<1>1. timer[t] \in Timer
  BY DEF TypeOK
<1>2. 0 \in 0..MaxTime
  BY TimersAssumption
<1>3. Pushes(t) # 0 => expactCount(t) \in Nat
  BY PushesType
<1> QED
  BY <1>1, <1>2, <1>3 DEF Planned, Timer

\* The sleep that is planned.
LEMMA Sleep ==
    ASSUME TypeOK, Started, NEW t \in Names, active(t),
           \A u \in Names : Pushes(u) = 0
    PROVE  LET m == Min({remainTime(u) : u \in {v \in Names : active(v)}})
           IN  /\ m \in Nat \ {0}
               /\ now + m <= timer[t].start + (timer[t].loops + 1) * intervalTime(t)
<1> DEFINE S == {remainTime(u) : u \in {v \in Names : active(v)}}
           m == Min(S)
<1>1. ASSUME NEW u \in Names PROVE remainTime(u) \in Nat \ {0}
  <2> DEFINE a == now - timer[u].start
             b == intervalTime(u)
             r == a % b
  <2>1. a \in Nat /\ b \in Nat \ {0}
    BY ExpactCount
  <2>2. remainTime(u) = b - r
    BY DEF remainTime
  <2> HIDE DEF a, b
  <2>3. r \in 0..(b - 1)
    BY <2>1, Division
  <2> HIDE DEF r
  <2> QED
    BY <2>1, <2>2, <2>3
<1>2. S \subseteq Nat \ {0} /\ S \subseteq Nat /\ remainTime(t) \in S /\ S # {}
  BY <1>1
<1> HIDE DEF S
<1>3. m \in S /\ m <= remainTime(t)
  BY <1>2, MinIs
<1>4. now + remainTime(t) <= timer[t].start + (timer[t].loops + 1) * intervalTime(t)
  <2> DEFINE x == now - timer[t].start
             b == intervalTime(t)
             count == timer[t].loops
             p == (count + 1) * b
             r == b - (x % b)
  <2>1. x \in Nat /\ b \in Nat \ {0} /\ count \in Nat /\ timer[t].start \in Nat /\ now \in Nat
    BY ExpactCount
  <2>2. (x + Offset) \div b <= count
    BY PushesType DEF expactCount
  <2>3. now = timer[t].start + x
    BY <2>1
  <2>4. remainTime(t) = r
    BY DEF remainTime
  <2> HIDE DEF x, b, count
  <2>5. x + r <= p
    BY <2>1, <2>2, RemainsWithin, TimersAssumption
  <2>6. r \in Nat /\ p \in Nat
    <3>1. x % b \in 0..(b - 1)
      BY <2>1, Division
    <3> QED
      BY <2>1, <3>1
  <2> HIDE DEF r, p
  <2>7. now + r <= timer[t].start + p
    BY <2>1, <2>3, <2>5, <2>6
  <2> QED
    BY <2>4, <2>7 DEF p, b, count
<1>5. m \in Nat \ {0} /\ remainTime(t) \in Nat /\ now \in Nat
  BY <1>1, <1>2, <1>3, ExpactCount
<1> DEFINE end == timer[t].start + (timer[t].loops + 1) * intervalTime(t)
<1>6. end \in Int
  BY ExpactCount
<1> HIDE DEF m, end
<1>7. now + m <= end
  BY <1>3, <1>4, <1>5, <1>6 DEF end
<1> QED
  BY <1>5, <1>7 DEF m, S, end

\* Time passes, and timers go on as they are unless they are changed.
LEMMA PassedKept ==
    ASSUME TypeOK, Started, Passed, now' \in Nat, now <= now',
           \A t \in Names : Loop[t] /\ ~changed'[t] => ~changed[t] /\ timer'[t] = timer[t]
    PROVE  Passed'
<1> SUFFICES ASSUME NEW t \in Names, Loop[t], ~changed'[t]
             PROVE  timer'[t].start + timer'[t].loops * intervalTime(t)' <= now' + Offset
  BY DEF Passed
<1> DEFINE end == timer[t].start + timer[t].loops * intervalTime(t)
<1>1. ~changed[t] /\ timer'[t] = timer[t]
  OBVIOUS
<1>2. intervalTime(t)' = intervalTime(t)
  BY <1>1 DEF intervalTime
<1>3. end <= now + Offset
  BY <1>1 DEF Passed
<1>4. end \in Int /\ now \in Nat /\ Offset \in Nat
  <2>1. /\ intervalTime(t) \in Nat /\ timer[t].start \in Nat /\ timer[t].loops \in Nat
        /\ now \in Nat
    BY ExpactCount
  <2>2. end \in Int
    BY <2>1
  <2> QED
    BY <2>1, <2>2, TimersAssumption
<1>5. timer'[t].start + timer'[t].loops * intervalTime(t)' = end
  BY <1>1, <1>2
<1> HIDE DEF end
<1> QED
  BY <1>3, <1>4, <1>5

LEMMA TimersInitial == Init => TInv
<1> SUFFICES ASSUME Init PROVE TInv
  OBVIOUS
<1>1. ASSUME NEW t \in Names
      PROVE  timer[t] \in Timer /\ timer[t].start = Now0 /\ timer[t].loops = 0
  BY TimersAssumption DEF Init, Timer
<1>2. timer \in [Names -> Timer]
  <2>1. timer \in [Names -> {[start |-> Now0, interval |-> i, loops |-> 0] : i \in Intervals}]
    BY DEF Init
  <2> QED
    BY <1>1, <2>1
<1>3. <<>> \in Seq(Names)
  OBVIOUS
<1>4. TypeOK
  BY <1>2, <1>3, TimersAssumption DEF Init, TypeOK
<1>5. Started
  BY <1>1, TimersAssumption DEF Started, active
<1>6. Counted
  <2>1. \A t \in Names : Count(due, t) = 0 /\ calls[t] = 0
    <3>1. DOMAIN due = 1..0 /\ \A t \in Names, k \in 1..0 : due[k] # t
      BY DEF Init
    <3>2. \A t \in Names : Count(due, t) = 0
      BY <3>1, CountNone
    <3> QED
      BY <3>2 DEF Init
  <2> QED
    BY <1>1, <2>1 DEF Counted
<1>7. Passed
  <2> SUFFICES ASSUME NEW t \in Names
               PROVE  timer[t].start + timer[t].loops * intervalTime(t) <= now + Offset
    BY DEF Passed
  <2>1. intervalTime(t) \in Nat
    BY <1>4, <1>5, ExpactCount
  <2>2. timer[t].loops * intervalTime(t) = 0
    BY <1>1, <2>1
  <2> QED
    BY <1>1, <2>2, TimersAssumption DEF Init
<1>8. NoOversleep
  BY DEF Init, NoOversleep
<1> QED
  BY <1>4, <1>5, <1>6, <1>7, <1>8 DEF TInv

\* The queue looks at its timers.
LEMMA PlanKeeps ==
    ASSUME TInv, Plan
    PROVE  TInv'
<1> DEFINE pushes == [t \in Names |-> Pushes(t)]
<1>1. TypeOK /\ Started /\ Counted /\ Passed
  BY DEF TInv
<1>2. /\ pc = "awake" /\ due = <<>> /\ now' = now /\ calls' = calls /\ changed' = changed
      /\ timer' = [t \in Names |-> Planned(t)]
  BY DEF Plan
<1>3. pushes \in [Names -> Nat] /\ due' = FlattenSeq(Batch(pushes))
  <2>1. pushes \in [Names -> Nat]
    BY <1>1, PushesType
  <2>2. \A i \in DOMAIN List : pushes[List[i]] = Pushes(List[i])
    BY TimersAssumption
  <2> DEFINE put == [i \in DOMAIN List |-> [k \in 1..Pushes(List[i]) |-> List[i]]]
  <2>3. due' = FlattenSeq(put)
    BY DEF Plan
  <2> HIDE DEF pushes
  <2>4. put = Batch(pushes)
    BY <2>2 DEF Batch
  <2> HIDE DEF put
  <2> QED
    BY <2>1, <2>3, <2>4
<1>4. ASSUME NEW t \in Names
      PROVE  /\ timer'[t] = Planned(t) /\ timer'[t] \in Timer
             /\ timer'[t].interval = timer[t].interval
             /\ intervalTime(t)' = intervalTime(t)
             /\ Pushes(t) \in Nat /\ pushes[t] = Pushes(t)
             /\ Count(due, t) = 0 /\ Count(due', t) = Pushes(t)
             /\ calls[t] \in Nat /\ timer[t].loops \in Nat
  <2>1. timer'[t] = Planned(t) /\ Planned(t) \in Timer /\ Planned(t).interval = timer[t].interval
    BY <1>1, <1>2, PlannedIs
  <2>2. intervalTime(t)' = intervalTime(t)
    BY <2>1 DEF intervalTime
  <2>3. Pushes(t) \in Nat /\ pushes[t] = Pushes(t)
    BY <1>1, PushesType
  <2>4. Count(due, t) = 0
    <3>1. DOMAIN due = 1..0 /\ \A k \in 1..0 : due[k] # t
      BY <1>2
    <3> QED
      BY <3>1, CountNone
  <2>5. Count(due', t) = Pushes(t)
    <3> HIDE DEF pushes
    <3>1. Count(FlattenSeq(Batch(pushes)), t) = pushes[t]
      BY <1>3, FlattenedCount
    <3> QED
      BY <1>3, <2>3, <3>1
  <2>6. calls[t] \in Nat /\ timer[t].loops \in Nat
    BY <1>1, ExpactCount DEF TypeOK
  <2> QED
    BY <2>1, <2>2, <2>3, <2>4, <2>5, <2>6
<1> HIDE DEF pushes
<1>5. due' \in Seq(Names)
  BY <1>3, FlattenedCount
<1>6. ASSUME NEW t \in Names, Pushes(t) # 0
      PROVE  /\ active(t)
             /\ Loop[t] => /\ timer'[t].start = timer[t].start
                           /\ timer'[t].loops = expactCount(t)
                           /\ timer[t].loops + Pushes(t) = expactCount(t)
             /\ ~Loop[t] => timer'[t].start = 0 /\ Pushes(t) = 1
  BY <1>1, <1>4, <1>6, PushesType, PlannedIs
<1>7. ASSUME NEW t \in Names, Pushes(t) = 0 PROVE timer'[t] = timer[t]
  BY <1>1, <1>4, <1>7, PlannedIs
<1>8. Started'
  <2> SUFFICES ASSUME NEW t \in Names
               PROVE  timer'[t].start \in {0, Now0} /\ (Loop[t] => timer'[t].start > 0)
    BY DEF Started, active
  <2>1. timer[t].start \in {0, Now0} /\ (Loop[t] => timer[t].start > 0)
    BY <1>1 DEF Started, active
  <2>2. Loop[t] \in BOOLEAN
    BY TimersAssumption
  <2> QED
    BY <1>6, <1>7, <2>1, <2>2
<1>9. Counted'
  <2> SUFFICES ASSUME NEW t \in Names
               PROVE  /\ Loop[t] => calls[t] + Pushes(t) = timer'[t].loops
                      /\ ~Loop[t] => /\ calls[t] + Pushes(t) <= 1
                                     /\ timer'[t].start > 0 => calls[t] + Pushes(t) = 0
    BY <1>2, <1>4 DEF Counted, active
  <2>1. /\ Loop[t] => calls[t] = timer[t].loops
        /\ ~Loop[t] => calls[t] <= 1 /\ (active(t) => calls[t] = 0)
    BY <1>1, <1>4 DEF Counted
  <2>2. CASE Pushes(t) = 0
    BY <1>4, <1>7, <2>1, <2>2 DEF active
  <2>3. CASE Pushes(t) # 0
    BY <1>4, <1>6, <2>1, <2>3
  <2> QED
    BY <2>2, <2>3
<1>10. Passed'
  <2> SUFFICES ASSUME NEW t \in Names, Loop[t], ~changed[t]
               PROVE  timer'[t].start + timer'[t].loops * intervalTime(t) <= now + Offset
    BY <1>2, <1>4 DEF Passed
  <2>1. CASE Pushes(t) = 0
    BY <1>1, <1>7, <2>1 DEF Passed
  <2>2. CASE Pushes(t) # 0
    <3>1. timer[t].start + expactCount(t) * intervalTime(t) <= now + Offset
      BY <1>1, ExpactCount
    <3> QED
      BY <1>6, <2>2, <3>1
  <2> QED
    BY <2>1, <2>2
<1>11. CASE \E t \in Names : Pushes(t) > 0
  <2>1. pc' = pc /\ until' = until
    BY <1>11 DEF Plan
  <2>2. TypeOK'
    <3>1. timer' \in [Names -> Timer]
      BY <1>2, <1>4
    <3> QED
      BY <1>1, <1>2, <1>5, <2>1, <3>1 DEF TypeOK
  <2>3. NoOversleep'
    BY <1>2, <2>1 DEF NoOversleep
  <2> QED
    BY <1>8, <1>9, <1>10, <2>2, <2>3 DEF TInv
<1>12. CASE ~(\E t \in Names : Pushes(t) > 0)
  <2> DEFINE m == Min({remainTime(t) : t \in {u \in Names : active(u)}})
  <2>1. /\ pc' = "asleep"
        /\ (\E t \in Names : active(t)) => until' = now + m
        /\ ~(\E t \in Names : active(t)) => until' = 0
    BY <1>12 DEF Plan
  <2>2. \A t \in Names : Pushes(t) = 0 /\ timer'[t] = timer[t]
    BY <1>4, <1>7, <1>12
  <2>3. ASSUME NEW t \in Names, active(t)
        PROVE  /\ m \in Nat \ {0}
               /\ now + m <= timer[t].start + (timer[t].loops + 1) * intervalTime(t)
    BY <1>1, <2>2, <2>3, Sleep
  <2> HIDE DEF m
  <2>4. now \in Nat
    BY <1>1, TimersAssumption DEF TypeOK
  <2>5. until' \in Nat
    BY <2>1, <2>3, <2>4
  <2>6. TypeOK'
    <3>1. timer' \in [Names -> Timer]
      BY <1>2, <1>4
    <3> QED
      BY <1>1, <1>2, <1>5, <2>1, <2>5, <3>1 DEF TypeOK
  <2>7. NoOversleep'
    <3> SUFFICES ASSUME NEW t \in Names, active(t)'
                 PROVE  /\ until' # 0
                        /\ until' <= timer'[t].start
                                       + (timer'[t].loops + 1) * intervalTime(t)'
      BY DEF NoOversleep
    <3>1. active(t) /\ timer'[t] = timer[t] /\ intervalTime(t)' = intervalTime(t)
      BY <1>4, <2>2 DEF active
    <3>2. /\ m \in Nat \ {0} /\ until' = now + m
          /\ now + m <= timer[t].start + (timer[t].loops + 1) * intervalTime(t)
      BY <2>1, <2>3, <3>1
    <3> QED
      BY <2>4, <3>1, <3>2
  <2> QED
    BY <1>8, <1>9, <1>10, <2>6, <2>7 DEF TInv
<1> QED
  BY <1>11, <1>12

\* It calls the first function that is due.
LEMMA CallKeeps ==
    ASSUME TInv, Call
    PROVE  TInv'
<1> DEFINE h == Head(due)
<1>1. TypeOK /\ Started /\ Counted /\ Passed
  BY DEF TInv
<1>2. /\ pc = "awake" /\ pc' = pc /\ until' = until /\ due # <<>> /\ due' = Tail(due)
      /\ calls' = [calls EXCEPT ![h] = calls[h] + 1]
  BY DEF Call
<1>3. PICK interval \in Intervals :
        /\ now' \in now..MaxTime
        /\ timer' = [timer EXCEPT ![h].interval = interval]
        /\ changed' = [changed EXCEPT ![h] = changed[h] \/ interval # timer[h].interval]
  BY DEF Call, SetInterval
<1>4. h \in Names /\ due \in Seq(Names) /\ due' \in Seq(Names)
  BY <1>1, <1>2 DEF TypeOK
<1> HIDE DEF h
<1>5. ASSUME NEW t \in Names
      PROVE  /\ timer'[t] \in Timer
             /\ timer'[t].start = timer[t].start /\ timer'[t].loops = timer[t].loops
             /\ changed'[t] \in BOOLEAN
             /\ ~changed'[t] => ~changed[t] /\ timer'[t] = timer[t]
             /\ calls[t] \in Nat
             /\ calls'[t] = calls[t] + (IF h = t THEN 1 ELSE 0)
  <2>1. timer[t] \in Timer /\ changed[t] \in BOOLEAN /\ calls[t] \in Nat
    BY <1>1 DEF TypeOK
  <2>2. CASE h = t
    <3>1. /\ timer'[t] = [timer[t] EXCEPT !.interval = interval]
          /\ changed'[t] = (changed[t] \/ interval # timer[t].interval)
          /\ calls'[t] = calls[t] + 1
      BY <1>1, <1>2, <1>3, <2>2 DEF TypeOK
    <3>2. interval = timer[t].interval => [timer[t] EXCEPT !.interval = interval] = timer[t]
      BY <2>1 DEF Timer
    <3> QED
      BY <2>1, <2>2, <3>1, <3>2 DEF Timer
  <2>3. CASE h # t
    <3>1. timer'[t] = timer[t] /\ changed'[t] = changed[t] /\ calls'[t] = calls[t]
      BY <1>1, <1>2, <1>3, <2>3 DEF TypeOK
    <3> QED
      BY <2>1, <2>3, <3>1
  <2> QED
    BY <2>2, <2>3
<1>6. TypeOK'
  <2>1. timer' \in [Names -> Timer] /\ changed' \in [Names -> BOOLEAN]
    <3>1. timer' = [t \in Names |-> timer'[t]] /\ changed' = [t \in Names |-> changed'[t]]
      BY <1>1, <1>3 DEF TypeOK
    <3> QED
      BY <1>5, <3>1
  <2>2. calls' \in [Names -> Nat]
    BY <1>1, <1>2, <1>4 DEF TypeOK
  <2>3. now' \in Now0..MaxTime
    BY <1>1, <1>3, TimersAssumption DEF TypeOK
  <2> QED
    BY <1>1, <1>2, <1>4, <2>1, <2>2, <2>3 DEF TypeOK
<1>7. Started'
  BY <1>1, <1>5 DEF Started, active
<1>8. Counted'
  <2> SUFFICES ASSUME NEW t \in Names
               PROVE  /\ calls'[t] + Count(due', t) = calls[t] + Count(due, t)
                      /\ timer'[t].loops = timer[t].loops /\ active(t)' = active(t)
    BY <1>1 DEF Counted
  <2>1. Count(due, t) = Count(due', t) + (IF h = t THEN 1 ELSE 0)
    BY <1>2, <1>4, CountTail DEF h
  <2>2. Count(due', t) \in Nat
    BY <1>4, CountType
  <2> QED
    BY <1>5, <2>1, <2>2 DEF active
<1>9. Passed'
  <2>1. now \in Nat /\ now' \in Nat /\ now <= now'
    BY <1>1, <1>3, TimersAssumption DEF TypeOK
  <2> QED
    BY <1>1, <1>5, <2>1, PassedKept
<1>10. NoOversleep'
  BY <1>2 DEF NoOversleep
<1> QED
  BY <1>6, <1>7, <1>8, <1>9, <1>10 DEF TInv

\* It wakes up.
LEMMA WakeKeeps ==
    ASSUME TInv, Wake
    PROVE  TInv'
<1>1. /\ pc' = "awake" /\ now' \in now..MaxTime
      /\ UNCHANGED <<timer, due, until, calls, changed>>
  BY DEF Wake
<1>2. TypeOK'
  BY <1>1, TimersAssumption DEF TInv, TypeOK
<1>3. Started' /\ Counted'
  BY <1>1 DEF TInv, Started, Counted, active
<1>4. Passed'
  <2>1. now \in Nat /\ now' \in Nat /\ now <= now'
    BY <1>1, TimersAssumption DEF TInv, TypeOK
  <2> QED
    BY <1>1, <2>1, PassedKept DEF TInv
<1>5. NoOversleep'
  BY <1>1 DEF NoOversleep
<1> QED
  BY <1>2, <1>3, <1>4, <1>5 DEF TInv

\* Nothing changes.
LEMMA TimersStutter == TInv /\ UNCHANGED vars => TInv'
  BY DEF vars, TInv, TypeOK, Started, Counted, Passed, NoOversleep, active, intervalTime

-----------------------------------------------------------------------------
(***************************************************************************)
(* The invariant holds.                                                    *)
(***************************************************************************)
THEOREM TimersInductive == Spec => []TInv
<1>1. TInv /\ [Next]_vars => TInv'
  BY PlanKeeps, CallKeeps, WakeKeeps, TimersStutter DEF Next
<1> QED
  BY <1>1, TimersInitial, PTL DEF Spec

(***************************************************************************)
(* The type of the timers.                                                 *)
(***************************************************************************)
THEOREM TimersTypeCorrect == Spec => []TypeOK
  BY TimersInductive, PTL DEF TInv

(***************************************************************************)
(* While its interval stays the same, a timer neither drifts nor loses a   *)
(* call, however long the functions before it take.                        *)
(***************************************************************************)
THEOREM NeverDrifts == Spec => []NoDrift
<1>1. TInv => NoDrift
  BY DEF TInv, Counted, Passed, NoDrift, Count, Places, Pending
<1> QED
  BY <1>1, TimersInductive, PTL

(***************************************************************************)
(* The queue never sleeps past the end of a period.                        *)
(***************************************************************************)
THEOREM NeverOversleeps == Spec => []NoOversleep
  BY TimersInductive, PTL DEF TInv

(***************************************************************************)
(* A timer that does not loop is called once.                              *)
(***************************************************************************)
THEOREM AlwaysOnce == Spec => []OnceOnly
<1>1. TInv => OnceOnly
  BY DEF TInv, Counted, OnceOnly, Count, Places, Pending
<1> QED
  BY <1>1, TimersInductive, PTL
=============================================================================
