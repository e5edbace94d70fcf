----------------------------- MODULE DetailOrder -----------------------------
(***************************************************************************)
(* The comparisons of class Detail (src/domain.cpp) over their data: which *)
(* version may be replaced by which, and which detail is sorted before     *)
(* which.  The other modules take the first as the four classes of Version *)
(* in Domain and the second as a constant Position; what that is worth, and *)
(* where neither comparison is the order its callers take it for, is proved *)
(* here.                                                                   *)
(***************************************************************************)
EXTENDS Domain, Integers, Sequences, TLAPS

(***************************************************************************)
(* A version is the sequence of the parts between its dots, the empty text *)
(* having none.  std::stoi makes a number of a part or throws; parts that  *)
(* are spelt differently may have the same value (1 and 01).  Left out: a  *)
(* dot at the end, which stringSplit passes over.                          *)
(***************************************************************************)
Part == [spelling: Nat, number: BOOLEAN, value: Int]
Text == Seq(Part)

\* Detail::detectVersionEqual, the texts compared.
VersionEqual(current, target) == current # <<>> /\ current = target

\* A turn of the loop that neither throws nor meets a value below -1.
Readable(current, target, i) ==
    current[i].number /\ target[i].number /\ target[i].value >= -1

Greater(current, target, i) == target[i].value > current[i].value

\* Detail::detectVersionVaild: the first part in which the target is greater
\* decides, unless one before it cannot be read.
VersionVaild(current, target) ==
    /\ current # <<>> /\ target # <<>>
    /\ Len(current) = Len(target)
    /\ \E i \in DOMAIN current :
          /\ Readable(current, target, i) /\ Greater(current, target, i)
          /\ \A j \in 1..(i - 1) : Readable(current, target, j)

\* The class of Domain that stands for a pair of versions.
Class(current, target) ==
    IF current = <<>> THEN "empty"
    ELSE IF current = target THEN "target"
    ELSE IF VersionVaild(current, target) THEN "older" ELSE "newer"

(***************************************************************************)
(* Detail::operator<: names are numbers here and tell details apart;       *)
(* requires is the names in "depends" of the package's meta.               *)
(***************************************************************************)
Sortable == [name: Nat, requires: SUBSET Nat]

Less(d, e) ==
    /\ d.name # e.name
    /\ d.name \in e.requires \/ d.name < e.name
-----------------------------------------------------------------------------
Numeric(v) == v \in Text /\ \A i \in DOMAIN v : v[i].number /\ v[i].value >= 0

\* The order release numbers have.
NewerThan(new, old) ==
    /\ Len(new) = Len(old)
    /\ \E i \in DOMAIN old :
          /\ new[i].value > old[i].value
          /\ \A j \in 1..(i - 1) : new[j].value = old[j].value

\* No version may replace itself, however it is spelt (domain.cpp:281): after an
\* upgrade the package that was installed is not taken for an upgrade again.
LEMMA NotItself ==
    ASSUME NEW v \in Text
    PROVE  ~VersionVaild(v, v)
<1>1. SUFFICES ASSUME NEW i \in DOMAIN v, v[i].value > v[i].value
               PROVE  FALSE
    BY DEF VersionVaild, Greater
<1>2. v[i] \in Part
    BY DEF Text
<1>3. v[i].value \in Int
    BY <1>2 DEF Part
<1> QED
    BY <1>1, <1>3

\* The four classes lose nothing the engines ask for: both predicates of a pair
\* of versions (domain.cpp:247-286) are those of its class.
THEOREM ClassIsExact ==
    ASSUME NEW current \in Text, NEW target \in Text
    PROVE  /\ Class(current, target) \in Version
           /\ detectVersionEqual(Class(current, target)) <=> VersionEqual(current, target)
           /\ detectVersionVaild(Class(current, target)) <=> VersionVaild(current, target)
<1>1. current = target => ~VersionVaild(current, target)
    BY NotItself
<1>2. VersionVaild(current, target) => current # <<>>
    BY DEF VersionVaild
<1> QED
    BY <1>1, <1>2 DEF Class, Version, detectVersionEqual, detectVersionVaild, VersionEqual

\* Of versions in numbers, with as many parts, one part that is greater is enough
\* (domain.cpp:281), wherever it stands.
THEOREM OnePartDecides ==
    ASSUME NEW current, NEW target, Numeric(current), Numeric(target),
           current # <<>>, Len(current) = Len(target)
    PROVE  VersionVaild(current, target) <=>
               \E i \in DOMAIN current : target[i].value > current[i].value
<1>1. DOMAIN current = 1..Len(current) /\ DOMAIN target = DOMAIN current
    BY DEF Numeric, Text
<1>2. Len(current) \in Nat
    BY DEF Numeric, Text
<1>3. target # <<>>
    BY <1>2
<1>4. ASSUME NEW i \in DOMAIN current
      PROVE  Readable(current, target, i)
    <2>1. current[i].number /\ target[i].number /\ target[i].value >= 0
        BY <1>1, <1>4 DEF Numeric
    <2>2. target[i] \in Part
        BY <1>1, <1>4 DEF Numeric, Text
    <2>3. target[i].value \in Int
        BY <2>2 DEF Part
    <2> QED
        BY <2>1, <2>3 DEF Readable
<1>5. \A i \in DOMAIN current : 1..(i - 1) \subseteq DOMAIN current
    BY <1>1, <1>2
<1> QED
    BY <1>3, <1>4, <1>5 DEF VersionVaild, Greater

\* Every newer release is accepted.
THEOREM NewerIsVaild ==
    ASSUME NEW current, NEW target, Numeric(current), Numeric(target),
           NewerThan(target, current)
    PROVE  VersionVaild(current, target)
<1>1. PICK i \in DOMAIN current : target[i].value > current[i].value
    BY DEF NewerThan
<1>2. current # <<>>
    BY <1>1
<1>3. Len(current) = Len(target)
    BY DEF NewerThan
<1> QED
    BY <1>1, <1>2, <1>3, OnePartDecides

\* But so are older ones: two versions may each replace the other (2.1 and 1.2),
\* and "vaild" is no order of releases.
THEOREM OlderMayBeVaild ==
    \E v, w : /\ Numeric(v) /\ Numeric(w)
              /\ NewerThan(v, w)
              /\ VersionVaild(v, w) /\ VersionVaild(w, v)
<1> DEFINE n(k) == [spelling |-> k, number |-> TRUE, value |-> k]
           v == <<n(2), n(1)>>
           w == <<n(1), n(2)>>
<1>1. Numeric(v) /\ Numeric(w)
    BY DEF Numeric, Text, Part
<1>2. Len(v) = 2 /\ Len(w) = 2 /\ DOMAIN v = {1, 2} /\ DOMAIN w = {1, 2}
    OBVIOUS
<1>3. v[1].value = 2 /\ v[2].value = 1 /\ w[1].value = 1 /\ w[2].value = 2
    OBVIOUS
<1>4. NewerThan(v, w)
    <2>1. 1 \in DOMAIN w /\ v[1].value > w[1].value
        BY <1>2, <1>3
    <2>2. \A j \in 1..(1 - 1) : v[j].value = w[j].value
        OBVIOUS
    <2> QED
        BY <1>2, <2>1, <2>2 DEF NewerThan
<1>5. VersionVaild(v, w) /\ VersionVaild(w, v)
    <2>1. v # <<>> /\ w # <<>>
        OBVIOUS
    <2>2. w[2].value > v[2].value /\ v[1].value > w[1].value
        BY <1>3
    <2> HIDE DEF v, w
    <2> QED
        BY <1>1, <1>2, <2>1, <2>2, OnePartDecides
<1> HIDE DEF v, w
<1> QED
    BY <1>1, <1>4, <1>5
-----------------------------------------------------------------------------
\* Where packages require only packages of smaller names, sorting (domain.cpp:393)
\* is sorting by name, an order; there a constant Position stands for it.
THEOREM SortsByName ==
    ASSUME NEW d \in Sortable, NEW e \in Sortable,
           \A name \in e.requires : name < e.name
    PROVE  Less(d, e) <=> d.name < e.name
BY DEF Less, Sortable

\* One requirement against the names is enough for a circle of three, so that
\* std::sort is given no order at all; none of the three requires one that
\* requires it.
THEOREM LessIsCircular ==
    \E c, d, e \in Sortable :
        /\ c.requires = {e.name} /\ d.requires = {} /\ e.requires = {}
        /\ Less(c, d) /\ Less(d, e) /\ Less(e, c)
<1> DEFINE c == [name |-> 1, requires |-> {3}]
           d == [name |-> 2, requires |-> {}]
           e == [name |-> 3, requires |-> {}]
<1>1. c \in Sortable /\ d \in Sortable /\ e \in Sortable
    BY DEF Sortable
<1>2. Less(c, d) /\ Less(d, e) /\ Less(e, c)
    BY DEF Less
<1> QED
    BY <1>1, <1>2
=============================================================================
