--------------------------- MODULE SequenceLemmas ---------------------------
(***************************************************************************)
(* Facts about short and literal sequences that the proofs about the       *)
(* message channels cite: what Append, Tail and Head do to a sequence, and *)
(* what <<x>> and <<x, y>> are.                                            *)
(***************************************************************************)
EXTENDS Integers, Sequences, SequenceTheorems, WellFoundedInduction, TLAPS

LEMMA AppendFacts ==
  ASSUME NEW S, NEW s \in Seq(S), NEW x \in S
  PROVE  /\ Append(s, x) \in Seq(S)
         /\ Append(s, x) # <<>>
         /\ Len(Append(s, x)) = Len(s) + 1
         /\ Append(s, x)[Len(s) + 1] = x
         /\ \A i \in 1..Len(s) : Append(s, x)[i] = s[i]
  BY AppendProperties

LEMMA TailFacts ==
  ASSUME NEW S, NEW s \in Seq(S), s # <<>>
  PROVE  /\ Tail(s) \in Seq(S)
         /\ Len(s) \in Nat \ {0}
         /\ Len(Tail(s)) = Len(s) - 1
         /\ \A i \in 1..Len(Tail(s)) : Tail(s)[i] = s[i + 1]
         /\ Head(s) = s[1]
         /\ Head(s) \in S
         /\ Tail(s) = <<>> <=> Len(s) = 1
<1>1. Len(s) \in Nat \ {0}
  BY EmptySeq, LenProperties
<1>2. Tail(s) \in Seq(S) /\ Head(s) \in S
  BY HeadTailProperties
<1>3. Len(Tail(s)) = Len(s) - 1
  BY <1>1, SMT
<1>4. \A i \in 1..Len(Tail(s)) : Tail(s)[i] = s[i + 1]
  BY <1>1, SMT
<1>5. Head(s) = s[1]
  BY <1>1, SMT
<1>6. Tail(s) = <<>> <=> Len(s) = 1
  <2>1. Tail(s) = <<>> <=> Len(Tail(s)) = 0
    BY <1>2, EmptySeq
  <2> QED
    BY <2>1, <1>1, <1>3
<1> QED
  BY <1>1, <1>2, <1>3, <1>4, <1>5, <1>6

LEMMA SingletonSeq ==
  ASSUME NEW S, NEW x \in S
  PROVE  /\ <<x>> \in Seq(S)
         /\ <<x>> # <<>>
         /\ Len(<<x>>) = 1
         /\ <<x>>[1] = x
         /\ Head(<<x>>) = x
         /\ Tail(<<x>>) = <<>>
         /\ Append(<<>>, x) = <<x>>
<1>1. <<x>> \in Seq(S)
  BY SMT
<1>2. Len(<<x>>) = 1 /\ <<x>>[1] = x /\ <<x>> # <<>>
  BY SMT
<1>3. Head(<<x>>) = x /\ Tail(<<x>>) = <<>> /\ Append(<<>>, x) = <<x>>
  BY SMT
<1> QED
  BY <1>1, <1>2, <1>3

LEMMA PairSeq ==
  ASSUME NEW S, NEW x \in S, NEW y \in S
  PROVE  /\ <<x, y>> \in Seq(S)
         /\ <<x, y>> # <<>>
         /\ Len(<<x, y>>) = 2
         /\ <<x, y>>[1] = x
         /\ <<x, y>>[2] = y
         /\ Head(<<x, y>>) = x
         /\ Tail(<<x, y>>) = <<y>>
         /\ <<>> \o <<x, y>> = <<x, y>>
         /\ Append(<<x>>, y) = <<x, y>>
<1>1. <<x, y>> \in Seq(S)
  BY SMT
<1>2. Len(<<x, y>>) = 2 /\ <<x, y>>[1] = x /\ <<x, y>>[2] = y /\ <<x, y>> # <<>>
  BY SMT
<1>3. Head(<<x, y>>) = x /\ Tail(<<x, y>>) = <<y>> /\ <<>> \o <<x, y>> = <<x, y>>
  BY SMT
<1>4. Append(<<x>>, y) = <<x, y>>
  <2> DEFINE a == Append(<<x>>, y)
  <2>1. a \in Seq(S) /\ Len(a) = 2 /\ a[1] = x /\ a[2] = y
    BY SingletonSeq, AppendProperties
  <2>2. \A i \in 1..2 : a[i] = <<x, y>>[i]
    BY <2>1, <1>2
  <2> QED
    BY <1>1, <1>2, <2>1, <2>2, SeqEqual
<1> QED
  BY <1>1, <1>2, <1>3, <1>4

\* The elements of a concatenation.
LEMMA ConcatElements ==
  ASSUME NEW S, NEW s \in Seq(S), NEW t \in Seq(S)
  PROVE  /\ s \o t \in Seq(S)
         /\ Len(s) \in Nat /\ Len(t) \in Nat /\ Len(s \o t) = Len(s) + Len(t)
         /\ DOMAIN (s \o t) = 1..(Len(s) + Len(t))
         /\ \A i \in 1..Len(s) : (s \o t)[i] = s[i]
         /\ \A i \in 1..Len(t) : (s \o t)[Len(s) + i] = t[i]
         /\ \A e : (\E i \in DOMAIN (s \o t) : (s \o t)[i] = e)
                   <=> (\E i \in DOMAIN s : s[i] = e) \/ (\E i \in DOMAIN t : t[i] = e)
<1> DEFINE c == s \o t
<1>1. /\ c \in Seq(S) /\ Len(s) \in Nat /\ Len(t) \in Nat /\ Len(c) = Len(s) + Len(t)
      /\ DOMAIN s = 1..Len(s) /\ DOMAIN t = 1..Len(t) /\ DOMAIN c = 1..(Len(s) + Len(t))
  BY ConcatProperties, LenProperties
<1>2. /\ \A i \in 1..Len(s) : c[i] = s[i]
      /\ \A i \in 1..Len(t) : c[Len(s) + i] = t[i]
  BY <1>1, ConcatProperties
<1> HIDE DEF c
<1>3. ASSUME NEW i \in DOMAIN c
      PROVE  (\E k \in DOMAIN s : s[k] = c[i]) \/ (\E k \in DOMAIN t : t[k] = c[i])
  <2>1. CASE i <= Len(s)
    BY <1>1, <1>2, <2>1
  <2>2. CASE i > Len(s)
    <3>1. i - Len(s) \in 1..Len(t) /\ i = Len(s) + (i - Len(s))
      BY <1>1, <2>2
    <3> QED
      BY <1>1, <1>2, <3>1
  <2> QED
    BY <1>1, <2>1, <2>2
<1>4. ASSUME NEW i \in DOMAIN s PROVE i \in DOMAIN c /\ c[i] = s[i]
  BY <1>1, <1>2
<1>5. ASSUME NEW i \in DOMAIN t PROVE Len(s) + i \in DOMAIN c /\ c[Len(s) + i] = t[i]
  BY <1>1, <1>2
<1>6. \A e : (\E i \in DOMAIN c : c[i] = e)
             <=> (\E i \in DOMAIN s : s[i] = e) \/ (\E i \in DOMAIN t : t[i] = e)
  BY <1>3, <1>4, <1>5
<1> QED
  BY <1>1, <1>2, <1>6 DEF c

\* A sequence is one over any set that has its elements.
LEMMA SeqNarrows ==
  ASSUME NEW S, NEW T, NEW s \in Seq(T), \A i \in 1..Len(s) : s[i] \in S
  PROVE  s \in Seq(S)
<1>1. Len(s) \in Nat /\ DOMAIN s = 1..Len(s) /\ s \in [1..Len(s) -> T]
  BY LenProperties
<1>2. s \in [1..Len(s) -> S]
  BY <1>1
<1> QED
  BY <1>1, <1>2

\* A sequence is its first element and the rest.
LEMMA HeadAndTail ==
  ASSUME NEW S, NEW s \in Seq(S), s # <<>>
  PROVE  /\ Head(s) \in S /\ <<Head(s)>> \in Seq(S) /\ Tail(s) \in Seq(S)
         /\ s = <<Head(s)>> \o Tail(s)
<1> DEFINE h == Head(s)
<1> DEFINE t == Tail(s)
<1>1. /\ t \in Seq(S) /\ Len(s) \in Nat \ {0} /\ Len(t) = Len(s) - 1
      /\ \A i \in 1..Len(t) : t[i] = s[i + 1]
      /\ h = s[1] /\ h \in S
  BY TailFacts
<1> HIDE DEF h, t
<1>2. <<h>> \in Seq(S) /\ Len(<<h>>) = 1 /\ <<h>>[1] = h
  BY <1>1, SingletonSeq
<1> DEFINE c == <<h>> \o t
<1>3. /\ c \in Seq(S) /\ Len(c) = 1 + Len(t)
      /\ \A i \in 1..1 : c[i] = <<h>>[i]
      /\ \A i \in 1..Len(t) : c[1 + i] = t[i]
  BY <1>1, <1>2, ConcatElements
<1> HIDE DEF c
<1>4. \A i \in 1..Len(s) : c[i] = s[i]
  <2>1. c[1] = s[1]
    BY <1>1, <1>2, <1>3
  <2>2. ASSUME NEW i \in 1..Len(s), i # 1 PROVE c[i] = s[i]
    <3>1. PICK k \in 1..Len(t) : i = 1 + k /\ i = k + 1
      <4>1. i - 1 \in 1..Len(t) /\ i = 1 + (i - 1) /\ i = (i - 1) + 1
        BY <1>1, <2>2
      <4> QED
        BY <4>1
    <3> QED
      BY <3>1, <1>1, <1>3
  <2> QED
    BY <2>1, <2>2
<1>5. s = c
  BY <1>1, <1>3, <1>4, SeqEqual
<1> QED
  BY <1>1, <1>2, <1>5 DEF c, h, t

\* The elements with one more behind them.
LEMMA OneMore ==
  ASSUME NEW S, NEW s \in Seq(S), NEW x \in S
  PROVE  /\ Len(s) \in Nat /\ DOMAIN s = 1..Len(s)
         /\ Append(s, x) \in Seq(S) /\ Len(Append(s, x)) = Len(s) + 1
         /\ DOMAIN Append(s, x) = 1..(Len(s) + 1)
         /\ \A i \in 1..Len(s) : Append(s, x)[i] = s[i]
         /\ Append(s, x)[Len(s) + 1] = x
<1>1. /\ Len(s) \in Nat /\ DOMAIN s = 1..Len(s)
      /\ Append(s, x) \in Seq(S) /\ Len(Append(s, x)) = Len(s) + 1
      /\ \A i \in 1..Len(s) : Append(s, x)[i] = s[i]
      /\ Append(s, x)[Len(s) + 1] = x
  BY AppendProperties, LenProperties
<1>2. DOMAIN Append(s, x) = 1..(Len(s) + 1)
  BY <1>1, LenProperties
<1> QED
  BY <1>1, <1>2

\* The elements without the first.
LEMMA OneLess ==
  ASSUME NEW S, NEW s \in Seq(S), s # <<>>
  PROVE  /\ Len(s) \in Nat \ {0} /\ DOMAIN s = 1..Len(s)
         /\ Tail(s) \in Seq(S) /\ Len(Tail(s)) = Len(s) - 1
         /\ DOMAIN Tail(s) = 1..(Len(s) - 1)
         /\ \A i \in 1..(Len(s) - 1) : Tail(s)[i] = s[i + 1]
         /\ 1 \in DOMAIN s /\ Head(s) = s[1] /\ Head(s) \in S
<1>1. /\ Len(s) \in Nat \ {0} /\ Tail(s) \in Seq(S) /\ Len(Tail(s)) = Len(s) - 1
      /\ Head(s) = s[1] /\ Head(s) \in S
      /\ \A i \in 1..Len(Tail(s)) : Tail(s)[i] = s[i + 1]
  BY TailFacts
<1>2. DOMAIN s = 1..Len(s) /\ DOMAIN Tail(s) = 1..Len(Tail(s))
  BY <1>1, LenProperties
<1> QED
  BY <1>1, <1>2

\* One element replaced.
LEMMA OneChanged ==
  ASSUME NEW S, NEW s \in Seq(S), NEW i \in DOMAIN s, NEW x \in S
  PROVE  /\ [s EXCEPT ![i] = x] \in Seq(S)
         /\ Len([s EXCEPT ![i] = x]) = Len(s)
         /\ DOMAIN [s EXCEPT ![i] = x] = DOMAIN s
         /\ [s EXCEPT ![i] = x][i] = x
         /\ \A k \in DOMAIN s : k # i => [s EXCEPT ![i] = x][k] = s[k]
<1> DEFINE t == [s EXCEPT ![i] = x]
<1>1. i \in 1..Len(s) /\ DOMAIN s = 1..Len(s)
  BY LenProperties
<1>2. t \in Seq(S) /\ Len(t) = Len(s)
  BY <1>1, ExceptSeq
<1> QED
  BY <1>1, <1>2

-----------------------------------------------------------------------------
(* Induction *)

\* Every set of naturals that is not empty has a least element.
LEMMA LeastElement ==
  ASSUME NEW T, T \subseteq Nat, T # {}
  PROVE  \E m \in T : \A y \in T : m <= y
<1>1. PICK m \in T : \A y \in T : ~(<<y, m>> \in OpToRel(<, Nat))
  BY NatLessThanWellFounded, WFMin
<1>2. ASSUME NEW y \in T PROVE m <= y
  <2>1. ~(<<y, m>> \in OpToRel(<, Nat))
    BY <1>1
  <2>2. ~(y < m)
    BY <2>1 DEF OpToRel
  <2> QED
    BY <2>2
<1> QED
  BY <1>2

\* A set with 0 and the successor of each of its elements up to N has all up to N.
LEMMA Induction ==
  ASSUME NEW N \in Nat, NEW S, 0 \in S, \A n \in 0..(N - 1) : n \in S => n + 1 \in S
  PROVE  0..N \subseteq S
<1> SUFFICES ASSUME NEW x \in 0..N, x \notin S PROVE FALSE
  OBVIOUS
<1>1. PICK m \in 0..N \ S : \A y \in 0..N \ S : m <= y
  <2>1. 0..N \ S # {} /\ 0..N \ S \subseteq Nat
    OBVIOUS
  <2> QED
    BY <2>1, LeastElement
<1>2. m \in 1..N /\ m - 1 \in 0..(N - 1) /\ (m - 1) + 1 = m /\ ~(m <= m - 1)
  BY <1>1
<1>3. m - 1 \in S
  BY <1>1, <1>2
<1> QED
  BY <1>1, <1>2, <1>3

\* A loop of N rounds over values of X: its round function step has a run from every
\* base.
LoopRun(f, X, base, N, step) ==
  f \in [0..N -> X] /\ f[0] = base /\ \A n \in 1..N : f[n] = step[n][f[n - 1]]

LEMMA LoopRuns ==
  ASSUME NEW X, NEW base \in X, NEW N \in Nat, NEW step \in [1..N -> [X -> X]]
  PROVE  \E f : LoopRun(f, X, base, N, step)
<1> DEFINE Run(f, m) == /\ f \in [0..m -> X] /\ f[0] = base
                        /\ \A n \in 1..m : f[n] = step[n][f[n - 1]]
           S == {m \in 0..N : \E f : Run(f, m)}
<1>1. 0 \in S
  <2> DEFINE g == [n \in 0..0 |-> base]
  <2>1. Run(g, 0) /\ 0 \in 0..N
    OBVIOUS
  <2>2. \E f : Run(f, 0)
    <3> HIDE DEF Run, g
    <3> QED
      BY <2>1
  <2> HIDE DEF Run
  <2> QED
    BY <2>1, <2>2
<1>2. ASSUME NEW n \in 0..(N - 1), n \in S PROVE n + 1 \in S
  <2>1. PICK f : Run(f, n)
    BY <1>2
  <2> DEFINE g == [k \in 0..(n + 1) |-> IF k = n + 1 THEN step[n + 1][f[n]] ELSE f[k]]
  <2>2. n + 1 \in 1..N /\ n \in 0..n /\ n + 1 \in 0..N
    OBVIOUS
  <2>3. g \in [0..(n + 1) -> X]
    BY <2>1, <2>2
  <2>4. g[0] = base
    BY <2>1, <2>2
  <2>5. ASSUME NEW k \in 1..(n + 1) PROVE g[k] = step[k][g[k - 1]]
    <3>1. CASE k = n + 1
      BY <3>1, <2>2
    <3>2. CASE k # n + 1
      <4>1. k \in 1..n /\ k - 1 \in 0..n /\ k - 1 # n + 1 /\ k \in 0..(n + 1) /\ k - 1 \in 0..(n + 1)
        BY <3>2
      <4> QED
        BY <4>1, <3>2, <2>1
    <3> QED
      BY <3>1, <3>2
  <2>6. Run(g, n + 1)
    BY <2>3, <2>4, <2>5
  <2> QED
    BY <2>2, <2>6
<1>3. 0..N \subseteq S
  <2> HIDE DEF S
  <2> QED
    BY <1>1, <1>2, Induction
<1>4. N \in S
  <2> HIDE DEF S
  <2> QED
    BY <1>3
<1> QED
  BY <1>4 DEF LoopRun
=============================================================================
