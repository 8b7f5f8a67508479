------------------------------ MODULE Induction ------------------------------
(***************************************************************************)
(* What the proofs of the other modules cite about data of any length.     *)
(* Induction and recursion over the natural numbers are stated about sets  *)
(* and functions rather than about operators, and rest on the order of the *)
(* numbers being well founded; what follows them is about sequences, read  *)
(* from the front and added to at the end, about frames and about sums.    *)
(***************************************************************************)
EXTENDS Integers, SequenceTheorems, WellFoundedInduction, TLAPS

\* A set of numbers that is not empty has a least one.
LEMMA LeastNumber ==
  ASSUME NEW T \in SUBSET Nat, T # {}
  PROVE  \E n \in T : \A m \in T : n <= m
<1> DEFINE Below == {p \in Nat \X Nat : p[1] < p[2]}
<1>1. IsWellFoundedOn(Below, Nat)
  BY NatLessThanWellFounded DEF OpToRel
<1>2. PICK n \in T : \A m \in T : <<m, n>> \notin Below
  <2> HIDE DEF Below
  <2> QED BY <1>1, WFMin
<1>3. \A m \in T : n <= m
  <2> TAKE m \in T
  <2>1. ~(m < n)
    BY <1>2
  <2> QED BY <2>1
<1> QED BY <1>3

\* A set that holds 0, and with each number up to n the next, holds the numbers up to n.
LEMMA UpTo ==
  ASSUME NEW T, NEW n \in Nat, 0 \in T, \A i \in 0..(n - 1) : i \in T => i + 1 \in T
  PROVE  \A i \in 0..n : i \in T
<1> DEFINE Missing == {i \in 0..n : i \notin T}
<1>1. SUFFICES ASSUME Missing # {} PROVE FALSE
  OBVIOUS
<1>2. PICK least \in Missing : \A i \in Missing : least <= i
  <2>1. Missing \in SUBSET Nat
    OBVIOUS
  <2> HIDE DEF Missing
  <2> QED BY <1>1, <2>1, LeastNumber
<1>3. least \in 1..n /\ least \notin T
  <2>1. least # 0 /\ least \in 0..n
    BY <1>2
  <2> QED BY <2>1
<1>4. least - 1 \notin Missing
  BY <1>2, <1>3
<1>5. least - 1 \in T /\ least - 1 \in 0..(n - 1)
  BY <1>3, <1>4
<1>6. (least - 1) + 1 \in T
  BY <1>5
<1> QED BY <1>3, <1>6

\* The values that a step function gives from a beginning, over n steps.
Traces(S, b, n, Step) ==
  {g \in [0..n -> S] : g[0] = b /\ \A i \in 1..n : g[i] = Step[<<i, g[i - 1]>>]}

\* A step function on S can be applied n times from a beginning in S.
LEMMA TraceExists ==
  ASSUME NEW S, NEW b \in S, NEW n \in Nat, NEW Step \in [(1..n) \X S -> S]
  PROVE  \E g : g \in Traces(S, b, n, Step)
<1> DEFINE From(k) ==
             {g \in [0..k -> S] : g[0] = b /\ \A i \in 1..k : g[i] = Step[<<i, g[i - 1]>>]}
           Reached == {k \in 0..n : From(k) # {}}
<1>1. 0 \in Reached
  <2>1. [i \in 0..0 |-> b] \in From(0)
    OBVIOUS
  <2> QED BY <2>1
<1>2. ASSUME NEW k \in 0..(n - 1), k \in Reached PROVE k + 1 \in Reached
  <2>1. PICK g \in From(k) : TRUE
    BY <1>2
  <2> DEFINE h == [i \in 0..(k + 1) |-> IF i = k + 1 THEN Step[<<k + 1, g[k]>>] ELSE g[i]]
  <2>2. /\ g \in [0..k -> S] /\ g[0] = b /\ \A i \in 1..k : g[i] = Step[<<i, g[i - 1]>>]
    BY <2>1
  <2>3. g[k] \in S /\ k + 1 \in 1..n
    BY <2>2
  <2>4. Step[<<k + 1, g[k]>>] \in S
    BY <2>3
  <2>5. h \in [0..(k + 1) -> S] /\ h[0] = b
    BY <2>2, <2>4
  <2>6. ASSUME NEW i \in 1..(k + 1) PROVE h[i] = Step[<<i, h[i - 1]>>]
    <3>1. CASE i = k + 1
      <4>1. i - 1 = k /\ h[k] = g[k] /\ h[k + 1] = Step[<<k + 1, g[k]>>]
        BY <3>1
      <4> QED BY <3>1, <4>1
    <3>2. CASE i # k + 1
      <4>1. i \in 1..k /\ i - 1 \in 0..k /\ h[i] = g[i] /\ h[i - 1] = g[i - 1]
        BY <3>2
      <4>2. g[i] = Step[<<i, g[i - 1]>>]
        BY <2>2, <4>1
      <4> HIDE DEF h
      <4> QED BY <4>1, <4>2
    <3> QED BY <3>1, <3>2
  <2>7. h \in From(k + 1)
    <3> HIDE DEF h
    <3> QED BY <2>5, <2>6
  <2>8. k + 1 \in 0..n
    BY <2>3
  <2> HIDE DEF From
  <2> QED BY <2>7, <2>8
<1>3. \A i \in 0..n : i \in Reached
  <2> HIDE DEF Reached
  <2> QED BY <1>1, <1>2, UpTo
<1>4. PICK g \in From(n) : TRUE
  BY <1>3
<1> QED BY <1>4 DEF Traces

-------------------------------------------------------------------------------
\* The values in a sequence.
Values(s) == {s[i] : i \in DOMAIN s}

\* What is left of a sequence once its first value is read.
LEMMA ReadFromHead ==
  ASSUME NEW S, NEW s \in Seq(S), s # <<>>
  PROVE  /\ Head(s) = s[1] /\ Head(s) \in S /\ Head(s) \in Values(s) /\ Tail(s) \in Seq(S)
         /\ DOMAIN Tail(s) = 1..(Len(s) - 1) /\ DOMAIN s = 1..Len(s) /\ Len(s) \in Nat \ {0}
         /\ \A i \in DOMAIN Tail(s) : Tail(s)[i] = s[i + 1]
         /\ Values(Tail(s)) \subseteq Values(s)
         /\ Values(s) \ {Head(s)} \subseteq Values(Tail(s))
<1>1. /\ Head(s) = s[1] /\ Tail(s) \in Seq(S) /\ Len(Tail(s)) = Len(s) - 1
      /\ \A i \in 1..Len(Tail(s)) : Tail(s)[i] = s[i + 1]
  BY HeadTailProperties
<1>2. Len(s) \in Nat \ {0} /\ DOMAIN s = 1..Len(s) /\ DOMAIN Tail(s) = 1..Len(Tail(s))
  BY <1>1, EmptySeq, LenProperties
<1>3. Head(s) \in S /\ Head(s) \in Values(s)
  BY <1>1, <1>2, ElementOfSeq DEF Values
<1>4. \A i \in 1..(Len(s) - 1) : i + 1 \in 1..Len(s)
  BY <1>2
<1>5. Values(Tail(s)) \subseteq Values(s)
  BY <1>1, <1>2, <1>4 DEF Values
<1>6. ASSUME NEW i \in DOMAIN s, s[i] # Head(s) PROVE s[i] \in Values(Tail(s))
  <2>1. i - 1 \in 1..Len(Tail(s)) /\ (i - 1) + 1 = i
    BY <1>1, <1>2, <1>6
  <2>2. Tail(s)[i - 1] = s[i]
    BY <1>1, <2>1
  <2> QED BY <1>2, <2>1, <2>2 DEF Values
<1>7. Values(s) \ {Head(s)} \subseteq Values(Tail(s))
  BY <1>6 DEF Values
<1> QED BY <1>1, <1>2, <1>3, <1>5, <1>7

\* A sequence with one more value.
LEMMA AddedAtEnd ==
  ASSUME NEW S, NEW s \in Seq(S), NEW e \in S
  PROVE  /\ Append(s, e) \in Seq(S)
         /\ DOMAIN s = 1..Len(s) /\ Len(s) \in Nat /\ DOMAIN Append(s, e) = 1..(Len(s) + 1)
         /\ \A i \in DOMAIN s : Append(s, e)[i] = s[i]
         /\ Append(s, e)[Len(s) + 1] = e
         /\ Values(Append(s, e)) = Values(s) \cup {e}
<1>1. /\ Append(s, e) \in Seq(S) /\ Len(Append(s, e)) = Len(s) + 1
      /\ \A i \in 1..Len(s) : Append(s, e)[i] = s[i]
      /\ Append(s, e)[Len(s) + 1] = e
  BY AppendProperties
<1>2. DOMAIN s = 1..Len(s) /\ Len(s) \in Nat /\ DOMAIN Append(s, e) = 1..Len(Append(s, e))
  BY <1>1, LenProperties
<1>3. \A i : i \in 1..(Len(s) + 1) <=> i \in 1..Len(s) \/ i = Len(s) + 1
  BY <1>2
<1>4. Values(Append(s, e)) = Values(s) \cup {e}
  BY <1>1, <1>2, <1>3 DEF Values
<1> QED BY <1>1, <1>2, <1>4

\* The records of a sequence follow one another in the order of their sequence numbers.
InOrder(s) == \A i, j \in DOMAIN s : i < j => s[i].sequence <= s[j].sequence

LEMMA NothingInOrder == InOrder(<<>>) /\ Values(<<>>) = {}
  BY DEF InOrder, Values

LEMMA LaterInOrder ==
  ASSUME NEW S, \A e \in S : e.sequence \in Nat, NEW s \in Seq(S), s # <<>>, InOrder(s)
  PROVE  InOrder(Tail(s)) /\ \A d \in Values(s) : Head(s).sequence <= d.sequence
<1>1. /\ DOMAIN Tail(s) = 1..(Len(s) - 1) /\ DOMAIN s = 1..Len(s) /\ Len(s) \in Nat \ {0}
      /\ \A i \in DOMAIN Tail(s) : Tail(s)[i] = s[i + 1]
      /\ Head(s) = s[1] /\ Head(s) \in S
  BY ReadFromHead
<1>2. ASSUME NEW i \in DOMAIN Tail(s), NEW j \in DOMAIN Tail(s), i < j
      PROVE  Tail(s)[i].sequence <= Tail(s)[j].sequence
  <2>1. i + 1 \in DOMAIN s /\ j + 1 \in DOMAIN s /\ i + 1 < j + 1
    BY <1>1, <1>2
  <2>2. s[i + 1].sequence <= s[j + 1].sequence
    BY <2>1 DEF InOrder
  <2> QED BY <1>1, <2>2
<1>3. ASSUME NEW i \in DOMAIN s PROVE Head(s).sequence <= s[i].sequence
  <2>1. CASE i = 1
    <3>1. Head(s).sequence \in Nat
      BY <1>1
    <3> QED BY <1>1, <2>1, <3>1
  <2>2. CASE i # 1
    BY <1>1, <2>2 DEF InOrder
  <2> QED BY <2>1, <2>2
<1> QED BY <1>2, <1>3 DEF InOrder, Values

LEMMA AddedInOrder ==
  ASSUME NEW S, NEW s \in Seq(S), InOrder(s), NEW e \in S,
         \A d \in Values(s) : d.sequence <= e.sequence
  PROVE  InOrder(Append(s, e))
<1>1. /\ DOMAIN s = 1..Len(s) /\ Len(s) \in Nat /\ DOMAIN Append(s, e) = 1..(Len(s) + 1)
      /\ \A i \in DOMAIN s : Append(s, e)[i] = s[i]
      /\ Append(s, e)[Len(s) + 1] = e
  BY AddedAtEnd
<1> SUFFICES ASSUME NEW i \in DOMAIN Append(s, e), NEW j \in DOMAIN Append(s, e), i < j
             PROVE  Append(s, e)[i].sequence <= Append(s, e)[j].sequence
  BY DEF InOrder
<1>2. i \in DOMAIN s /\ Append(s, e)[i] = s[i]
  BY <1>1
<1>3. CASE j \in DOMAIN s
  BY <1>1, <1>2, <1>3 DEF InOrder
<1>4. CASE j \notin DOMAIN s
  <2>1. Append(s, e)[j] = e
    BY <1>1, <1>4
  <2> QED BY <1>2, <2>1 DEF Values
<1> QED BY <1>3, <1>4

\* A value added at the end and one taken from the front do not meet.
LEMMA TailOfAppend ==
  ASSUME NEW S, NEW q \in Seq(S), q # <<>>, NEW x \in S
  PROVE  /\ Tail(Append(q, x)) = Append(Tail(q), x) /\ Append(q, x) # <<>>
         /\ Append(q, x) \in Seq(S)
<1> DEFINE a == Append(q, x)
           b == Append(Tail(q), x)
<1>1. /\ a \in Seq(S) /\ Len(a) = Len(q) + 1 /\ a[Len(q) + 1] = x /\ Len(q) \in Nat \ {0}
      /\ \A i \in 1 .. Len(q) : a[i] = q[i]
  BY AppendProperties, LenProperties, EmptySeq
<1>2. /\ Tail(q) \in Seq(S) /\ Len(Tail(q)) = Len(q) - 1
      /\ \A i \in 1 .. Len(Tail(q)) : Tail(q)[i] = q[i + 1]
  BY HeadTailProperties
<1>3. /\ b \in Seq(S) /\ Len(b) = Len(q) /\ b[Len(q)] = x
      /\ \A i \in 1 .. Len(q) - 1 : b[i] = q[i + 1]
  <2> DEFINE s == Tail(q)
  <2>1. s \in Seq(S) /\ Len(s) = Len(q) - 1
    BY <1>2
  <2> HIDE DEF s
  <2>2. /\ Append(s, x) \in Seq(S) /\ Len(Append(s, x)) = Len(s) + 1
        /\ Append(s, x)[Len(s) + 1] = x /\ \A i \in 1 .. Len(s) : Append(s, x)[i] = s[i]
    BY <2>1, AppendProperties
  <2> QED BY <1>1, <1>2, <2>1, <2>2 DEF s
<1> HIDE DEF a, b
<1>4. a # <<>>
  BY <1>1, EmptySeq
<1>5. /\ Tail(a) \in Seq(S) /\ Len(Tail(a)) = Len(q)
      /\ \A i \in 1 .. Len(q) : Tail(a)[i] = a[i + 1]
  <2>1. Len(Tail(a)) = Len(a) - 1 /\ \A i \in 1 .. Len(Tail(a)) : Tail(a)[i] = a[i + 1]
    BY <1>1, <1>4, HeadTailProperties
  <2> QED BY <1>1, <1>4, <2>1, HeadTailProperties
<1>6. \A i \in 1 .. Len(q) : Tail(a)[i] = b[i]
  <2>1. ASSUME NEW i \in 1 .. Len(q) PROVE Tail(a)[i] = b[i]
    <3>1. CASE i = Len(q)
      BY <1>1, <1>3, <1>5, <3>1
    <3>2. CASE i # Len(q)
      <4>1. i \in 1 .. Len(q) - 1 /\ i + 1 \in 1 .. Len(q)
        BY <1>1, <3>2
      <4> QED BY <1>1, <1>3, <1>5, <4>1
    <3> QED BY <3>1, <3>2
  <2> QED BY <2>1
<1>7. Tail(a) = b
  BY <1>3, <1>5, <1>6, SeqEqual
<1> QED BY <1>1, <1>4, <1>7 DEF a, b

\* A frame of the stream, by its fields.
LEMMA FrameWith ==
  ASSUME NEW D, NEW d \in D, NEW K, NEW q \in K, NEW N, NEW m \in N, NEW L, NEW l \in L
  PROVE  [data |-> d, key |-> q, number |-> m, last |-> l]
           \in [data : D, key : K, number : N, last : L]
  OBVIOUS

\* A sum that stays within a bound when both sides move, or a term moves across.
LEMMA LaterSum ==
  ASSUME NEW a \in Int, NEW b \in Int, NEW c \in Int, NEW d \in Int, NEW t \in Int,
         NEW l \in Int, NEW m \in Int, NEW t2 \in Int, NEW l2 \in Int, NEW w \in Int,
         a + b - c + t <= d + l - m
  PROVE  /\ t2 <= t + l2 - l => a + b - c + t2 <= d + l2 - m
         /\ a + (b + w) - c + (t - w) <= d + l - m
         /\ w <= t => a + (b + w) - c <= d + l - m
  OBVIOUS
===============================================================================
