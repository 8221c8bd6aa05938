------------------------------ MODULE NodeProofs ------------------------------
(***************************************************************************)
(* Proofs of NodeFileProperties and NodeLogProperties, for any calls,      *)
(* paths, contents, readers and channel.                                   *)
(***************************************************************************)
EXTENDS NodeLogProperties, SequenceTheorems, WellFoundedInduction, TLAPS

-----------------------------------------------------------------------------
(* Induction on a set of numbers; the library's induction rules quantify   *)
(* over operators, the minimal element of a set does not.                  *)

LEMMA LeastNumber ==
  ASSUME NEW T, T \subseteq Nat, T # {}
  PROVE  \E x \in T : \A y \in T : x <= y
  <1> DEFINE Less == {ss \in Nat \X Nat : ss[1] < ss[2]}
  <1>1. IsWellFoundedOn(Less, Nat)
    BY NatLessThanWellFounded DEF OpToRel
  <1>2. PICK x \in T : \A y \in T : ~(<<y, x>> \in Less)
    BY <1>1, WFMin
  <1>3. \A y \in T : ~(y < x)
    BY <1>2
  <1> QED BY <1>3

LEMMA AllNumbers ==
  ASSUME NEW T, T \subseteq Nat, 0 \in T, \A n \in T : n + 1 \in T
  PROVE  T = Nat
  <1> SUFFICES ASSUME Nat \ T # {} PROVE FALSE
    OBVIOUS
  <1>1. PICK x \in Nat \ T : \A y \in Nat \ T : x <= y
    BY LeastNumber
  <1>2. x # 0
    BY <1>1
  <1>3. x - 1 \in Nat /\ x - 1 \in T
    BY <1>1, <1>2
  <1> QED BY <1>1, <1>3

-----------------------------------------------------------------------------
(* FlattenSeq.                                                             *)

\* f holds the concatenations of the beginnings of s.
Sums(f, s) ==
    /\ f[1] = s[1]
    /\ \A i \in 2 .. Len(s) : f[i] = f[i - 1] \o s[i]

LEMMA SumsUnique ==
  ASSUME NEW s, Len(s) \in Nat \ {0}, NEW f, NEW g, Sums(f, s), Sums(g, s)
  PROVE  f[Len(s)] = g[Len(s)]
  <1> DEFINE T == {n \in Nat : n \in 1 .. Len(s) => f[n] = g[n]}
  <1>1. 0 \in T
    OBVIOUS
  <1>2. ASSUME NEW n \in T PROVE n + 1 \in T
    <2> SUFFICES ASSUME n + 1 \in 1 .. Len(s) PROVE f[n + 1] = g[n + 1]
      OBVIOUS
    <2>1. CASE n = 0
      BY <2>1 DEF Sums
    <2>2. CASE n # 0
      <3>1. n + 1 \in 2 .. Len(s) /\ (n + 1) - 1 = n
        BY <2>2
      <3>2. f[n] = g[n]
        BY <2>2
      <3> QED BY <3>1, <3>2 DEF Sums
    <2> QED BY <2>1, <2>2
  <1> HIDE DEF T
  <1>3. T = Nat
    BY <1>1, <1>2, AllNumbers DEF T
  <1> QED BY <1>3 DEF T

LEMMA SumsExist ==
  ASSUME NEW T, NEW s \in Seq(Seq(T)), s # <<>>
  PROVE  \E f \in [1 .. Len(s) -> Seq(T)] : Sums(f, s)
  <1> DEFINE Upto(n) == \E f \in [1 .. n -> Seq(T)] :
                          f[1] = s[1] /\ \A i \in 2 .. n : f[i] = f[i - 1] \o s[i]
             D == {n \in Nat : n \in 1 .. Len(s) => Upto(n)}
  <1> HIDE DEF Upto
  <1>0. Len(s) \in Nat \ {0}
    BY LenProperties, EmptySeq
  <1>1. 0 \in D
    OBVIOUS
  <1>2. ASSUME NEW n \in D PROVE n + 1 \in D
    <2> SUFFICES ASSUME n + 1 \in 1 .. Len(s) PROVE Upto(n + 1)
      OBVIOUS
    <2>1. CASE n = 0
      <3> DEFINE h == [i \in 1 .. 1 |-> s[1]]
      <3>1. s[1] \in Seq(T)
        BY <1>0, ElementOfSeq
      <3>2. h \in [1 .. 1 -> Seq(T)] /\ h[1] = s[1]
        BY <3>1
      <3>3. n + 1 = 1 /\ \A i \in 2 .. 1 : h[i] = h[i - 1] \o s[i]
        BY <2>1
      <3> HIDE DEF h
      <3> QED BY <3>2, <3>3 DEF Upto
    <2>2. CASE n # 0
      <3>0. n \in 1 .. Len(s) /\ n \in Nat
        BY <2>2, <1>0
      <3>1. PICK f \in [1 .. n -> Seq(T)] :
                    f[1] = s[1] /\ \A i \in 2 .. n : f[i] = f[i - 1] \o s[i]
        BY <3>0 DEF Upto
      <3> DEFINE h == [i \in 1 .. n + 1 |-> IF i = n + 1 THEN f[n] \o s[n + 1] ELSE f[i]]
      <3>2. f[n] \in Seq(T) /\ s[n + 1] \in Seq(T)
        BY <3>0, <3>1, ElementOfSeq
      <3>3. f[n] \o s[n + 1] \in Seq(T)
        BY <3>2, ConcatProperties
      <3>4. h \in [1 .. n + 1 -> Seq(T)]
        BY <3>0, <3>1, <3>3
      <3>5. h[1] = s[1]
        BY <3>0, <3>1
      <3>6. ASSUME NEW i \in 2 .. n + 1 PROVE h[i] = h[i - 1] \o s[i]
        <4>1. CASE i = n + 1
          <5>1. i - 1 = n /\ n \in 1 .. n + 1 /\ n # n + 1 /\ i \in 1 .. n + 1
            BY <3>0, <4>1
          <5>2. h[i] = f[n] \o s[n + 1] /\ h[i - 1] = f[n]
            BY <4>1, <5>1
          <5> QED BY <4>1, <5>2
        <4>2. CASE i # n + 1
          <5>1. i \in 2 .. n /\ i - 1 \in 1 .. n /\ i \in 1 .. n + 1 /\ i - 1 \in 1 .. n + 1
            BY <3>0, <4>2
          <5>2. h[i] = f[i] /\ h[i - 1] = f[i - 1]
            BY <3>0, <5>1, <4>2
          <5> QED BY <3>1, <5>1, <5>2
        <4> QED BY <4>1, <4>2
      <3> HIDE DEF h
      <3> QED BY <3>4, <3>5, <3>6 DEF Upto
    <2> QED BY <2>1, <2>2
  <1> HIDE DEF D
  <1>3. D = Nat
    BY <1>1, <1>2, AllNumbers DEF D
  <1>4. Upto(Len(s))
    BY <1>0, <1>3 DEF D
  <1> QED BY <1>4 DEF Upto, Sums

\* FlattenSeq(s) is the last of the sums.
LEMMA FlattenIsSum ==
  ASSUME NEW T, NEW s \in Seq(Seq(T)), s # <<>>,
         NEW f, Sums(f, s)
  PROVE  FlattenSeq(s) = f[Len(s)]
  <1>1. Len(s) \in Nat \ {0}
    BY LenProperties, EmptySeq
  <1> DEFINE IsIt(g) == g = [i \in 1 .. Len(s) |-> IF i = 1 THEN s[i] ELSE g[i - 1] \o s[i]]
             it == CHOOSE g : IsIt(g)
  <1>2. PICK h \in [1 .. Len(s) -> Seq(T)] : Sums(h, s)
    BY SumsExist
  <1>3. IsIt(h)
    <2>1. \A i \in 1 .. Len(s) : i = 1 \/ i \in 2 .. Len(s)
      BY <1>1
    <2>2. \A i \in 1 .. Len(s) : h[i] = IF i = 1 THEN s[i] ELSE h[i - 1] \o s[i]
      BY <1>2, <2>1 DEF Sums
    <2> QED BY <1>2, <2>2
  <1>4. IsIt(it)
    BY <1>3
  <1>5. Sums(it, s)
    <2> HIDE DEF it
    <2>1. 1 \in 1 .. Len(s) /\ \A i \in 2 .. Len(s) : i \in 1 .. Len(s) /\ i # 1
      BY <1>1
    <2> QED BY <1>4, <2>1 DEF Sums
  <1>6. FlattenSeq(s) = it[Len(s)]
    BY <1>1 DEF FlattenSeq
  <1> HIDE DEF it
  <1> QED BY <1>1, <1>5, <1>6, SumsUnique

LEMMA FlattenNone == FlattenSeq(<<>>) = <<>>
  BY DEF FlattenSeq

LEMMA FlattenType ==
  ASSUME NEW T, NEW s \in Seq(Seq(T))
  PROVE  FlattenSeq(s) \in Seq(T)
  <1>1. CASE s = <<>>
    <2>1. FlattenSeq(s) = <<>>
      BY <1>1, FlattenNone
    <2>2. <<>> \in Seq(T)
      OBVIOUS
    <2> QED BY <2>1, <2>2
  <1>2. CASE s # <<>>
    <2>1. PICK f \in [1 .. Len(s) -> Seq(T)] : Sums(f, s)
      BY <1>2, SumsExist
    <2>2. Len(s) \in 1 .. Len(s)
      BY <1>2, LenProperties, EmptySeq
    <2> QED BY <1>2, <2>1, <2>2, FlattenIsSum
  <1> QED BY <1>1, <1>2

LEMMA FlattenAppend ==
  ASSUME NEW T, NEW s \in Seq(Seq(T)), NEW x \in Seq(T)
  PROVE  FlattenSeq(Append(s, x)) = FlattenSeq(s) \o x
  <1> DEFINE t == Append(s, x)
  <1>1. /\ t \in Seq(Seq(T)) /\ t # <<>> /\ Len(t) = Len(s) + 1 /\ Len(s) \in Nat
        /\ t[Len(s) + 1] = x /\ \A i \in 1 .. Len(s) : t[i] = s[i]
    <2>1. /\ t \in Seq(Seq(T)) /\ t # <<>> /\ Len(t) = Len(s) + 1
          /\ t[Len(s) + 1] = x /\ \A i \in 1 .. Len(s) : t[i] = s[i]
      BY AppendProperties
    <2> QED BY <2>1, LenProperties
  <1> HIDE DEF t
  <1>2. CASE s = <<>>
    <2>1. Len(s) = 0
      BY <1>2
    <2> DEFINE g == [i \in 1 .. 1 |-> x]
    <2>2. Sums(g, t)
      <3>1. 2 .. Len(t) = {} /\ g[1] = x /\ t[1] = x
        BY <1>1, <2>1
      <3> QED BY <3>1 DEF Sums
    <2>3. FlattenSeq(t) = g[Len(t)]
      BY <1>1, <2>2, FlattenIsSum
    <2>4. FlattenSeq(t) = x
      BY <1>1, <2>1, <2>3
    <2> QED BY <1>2, <2>4, FlattenNone, ConcatEmptySeq DEF t
  <1>3. CASE s # <<>>
    <2>0. Len(s) \in Nat \ {0}
      BY <1>3, LenProperties, EmptySeq
    <2>1. PICK f \in [1 .. Len(s) -> Seq(T)] : Sums(f, s)
      BY <1>3, SumsExist
    <2> DEFINE g == [i \in 1 .. Len(t) |-> IF i = Len(t) THEN f[Len(s)] \o x ELSE f[i]]
    <2>2. g[1] = t[1]
      BY <2>0, <1>1, <2>1 DEF Sums
    <2>3. ASSUME NEW i \in 2 .. Len(t) PROVE g[i] = g[i - 1] \o t[i]
      <3>1. CASE i = Len(t)
        <4>1. /\ i - 1 = Len(s) /\ Len(s) \in 1 .. Len(t) /\ Len(s) # Len(t)
              /\ i \in 1 .. Len(t)
          BY <1>1, <2>0, <3>1
        <4>2. g[i] = f[Len(s)] \o x /\ g[i - 1] = f[Len(s)]
          BY <3>1, <4>1
        <4> QED BY <1>1, <3>1, <4>2
      <3>2. CASE i # Len(t)
        <4>1. /\ i \in 2 .. Len(s) /\ i \in 1 .. Len(s) /\ i - 1 \in 1 .. Len(t)
              /\ i - 1 # Len(t)
          BY <1>1, <2>0, <3>2
        <4>2. g[i] = f[i] /\ g[i - 1] = f[i - 1] /\ t[i] = s[i]
          BY <1>1, <3>2, <4>1
        <4> QED BY <2>1, <4>1, <4>2 DEF Sums
      <3> QED BY <3>1, <3>2
    <2>4. Len(t) \in 1 .. Len(t)
      BY <1>1
    <2>5. g[Len(t)] = f[Len(s)] \o x
      BY <2>4
    <2> HIDE DEF g
    <2>6. Sums(g, t)
      BY <2>2, <2>3 DEF Sums
    <2>7. FlattenSeq(t) = g[Len(t)] /\ FlattenSeq(s) = f[Len(s)]
      BY <1>1, <1>3, <2>1, <2>6, FlattenIsSum
    <2> QED BY <2>5, <2>7 DEF t
  <1> QED BY <1>2, <1>3

LEMMA Associative ==
  \A T : \A a, b, c \in Seq(T) : (a \o b) \o c = a \o (b \o c)
  BY ConcatAssociative

\* Concatenation as the provers should see it, without its elements.
Join(a, b) == a \o b

LEMMA JoinAssociative ==
  ASSUME NEW T, NEW a \in Seq(T), NEW b \in Seq(T), NEW c \in Seq(T)
  PROVE  /\ Join(a, b) \in Seq(T)
         /\ Join(Join(a, b), c) = Join(a, Join(b, c))
  BY ConcatAssociative, ConcatProperties DEF Join

LEMMA ChunkMoves ==
  ASSUME NEW T, NEW w \in Seq(T), NEW g \in Seq(T), NEW k \in Seq(T), NEW t \in Seq(T)
  PROVE  Join(Join(w, Join(g, k)), t) = Join(Join(w, g), Join(k, t))
  BY JoinAssociative

LEMMA FlattenHead ==
  ASSUME NEW T, NEW s \in Seq(Seq(T)), s # <<>>
  PROVE  FlattenSeq(s) = Head(s) \o FlattenSeq(Tail(s))
  <1>0. \A a, b, c \in Seq(T) : (a \o b) \o c = a \o (b \o c)
    BY Associative
  <1> DEFINE t == Tail(s)
  <1>1. /\ t \in Seq(Seq(T)) /\ Len(t) = Len(s) - 1 /\ Len(s) \in Nat \ {0}
        /\ Head(s) = s[1] /\ s[1] \in Seq(T)
        /\ \A i \in 1 .. Len(t) : t[i] = s[i + 1] /\ t[i] \in Seq(T)
    BY HeadTailProperties, LenProperties, EmptySeq, ElementOfSeq
  <1> HIDE DEF t
  <1>2. CASE t = <<>>
    <2>1. Len(s) = 1
      BY <1>1, <1>2
    <2>2. Sums(s, s)
      BY <2>1 DEF Sums
    <2>3. FlattenSeq(s) = s[1]
      BY <2>1, <2>2, FlattenIsSum
    <2> QED BY <1>1, <1>2, <2>3, FlattenNone, ConcatEmptySeq DEF t
  <1>3. CASE t # <<>>
    <2>0. Len(t) \in Nat \ {0}
      BY <1>1, <1>3, EmptySeq
    <2>1. PICK f \in [1 .. Len(t) -> Seq(T)] : Sums(f, t)
      BY <1>1, <1>3, SumsExist
    <2> DEFINE g == [i \in 1 .. Len(s) |-> IF i = 1 THEN s[1] ELSE s[1] \o f[i - 1]]
    <2>2. g[1] = s[1]
      BY <1>1
    <2>3. ASSUME NEW i \in 2 .. Len(s) PROVE g[i] = g[i - 1] \o s[i]
      <3>1. CASE i = 2
        <4>1. i \in 1 .. Len(s) /\ i # 1 /\ 1 \in 1 .. Len(s) /\ i - 1 = 1
          BY <1>1, <3>1
        <4>2. g[i] = s[1] \o f[i - 1] /\ g[1] = s[1]
          BY <4>1
        <4>3. f[1] = t[1] /\ t[1] = s[2]
          BY <1>1, <2>0, <2>1 DEF Sums
        <4> HIDE DEF g
        <4> QED BY <3>1, <4>1, <4>2, <4>3
      <3>2. CASE i # 2
        <4>1. /\ i - 1 \in 2 .. Len(t) /\ i - 1 \in 1 .. Len(t) /\ i - 2 \in 1 .. Len(t)
              /\ i \in 1 .. Len(s) /\ i - 1 \in 1 .. Len(s) /\ i # 1 /\ i - 1 # 1
              /\ (i - 1) - 1 = i - 2 /\ (i - 1) + 1 = i
          BY <1>1, <3>2
        <4>2. g[i] = s[1] \o f[i - 1] /\ g[i - 1] = s[1] \o f[i - 2]
          BY <4>1
        <4>3. f[i - 1] = f[i - 2] \o t[i - 1] /\ t[i - 1] = s[i]
          BY <1>1, <2>1, <4>1 DEF Sums
        <4>4. f[i - 2] \in Seq(T) /\ t[i - 1] \in Seq(T)
          BY <1>1, <2>1, <4>1
        <4> HIDE DEF g
        <4>5. s[1] \in Seq(T)
          BY <1>1
        <4>6. s[1] \o (f[i - 2] \o t[i - 1]) = (s[1] \o f[i - 2]) \o t[i - 1]
          BY <1>0, <4>4, <4>5, Zenon
        <4> QED BY <4>2, <4>3, <4>6
      <3> QED BY <3>1, <3>2
    <2>4. Len(s) \in 1 .. Len(s) /\ Len(s) # 1 /\ Len(s) - 1 = Len(t)
      BY <1>1, <2>0
    <2>5. g[Len(s)] = s[1] \o f[Len(t)]
      BY <2>4
    <2> HIDE DEF g
    <2>6. Sums(g, s)
      BY <2>2, <2>3 DEF Sums
    <2>7. FlattenSeq(s) = g[Len(s)] /\ FlattenSeq(t) = f[Len(t)]
      BY <1>1, <1>3, <2>1, <2>6, FlattenIsSum
    <2> QED BY <1>1, <2>5, <2>7 DEF t
  <1> QED BY <1>2, <1>3

\* Nothing put together is nothing.
LEMMA FlattenEmpties ==
  ASSUME NEW T, NEW s \in Seq(Seq(T)), \A i \in DOMAIN s : s[i] = <<>>
  PROVE  FlattenSeq(s) = <<>>
  <1>1. CASE s = <<>>
    BY <1>1, FlattenNone
  <1>2. CASE s # <<>>
    <2>1. Len(s) \in 1 .. Len(s) /\ 1 \in 1 .. Len(s) /\ DOMAIN s = 1 .. Len(s)
      BY <1>2, LenProperties, EmptySeq
    <2>2. <<>> \o <<>> = <<>>
      OBVIOUS
    <2>3. \A i \in 2 .. Len(s) : i \in 1 .. Len(s) /\ i - 1 \in 1 .. Len(s)
      BY <2>1
    <2>4. Sums(s, s)
      BY <2>1, <2>2, <2>3 DEF Sums
    <2> QED BY <1>2, <2>1, <2>4, FlattenIsSum
  <1> QED BY <1>1, <1>2

-----------------------------------------------------------------------------
(* What waits for a file.                                                  *)

USE ConstantsOK

LEMMA AddsType ==
  ASSUME NEW cmd \in Commands, NEW p
  PROVE  Adds(cmd, p) \in Seq(Chunks)
  BY DEF Adds, Commands

LEMMA AppendedType ==
  ASSUME TypeOK, NEW p
  PROVE  /\ Appended(p) \in Seq(Seq(Chunks)) /\ Len(Appended(p)) = Len(stdin)
         /\ Queued(p) \in Seq(Chunks)
  <1>1. stdin \in Seq(Commands) /\ DOMAIN stdin = 1 .. Len(stdin) /\ Len(stdin) \in Nat
    BY LenProperties DEF TypeOK
  <1>2. \A i \in 1 .. Len(stdin) : Adds(stdin[i], p) \in Seq(Chunks)
    BY <1>1, AddsType, ElementOfSeq
  <1>3. Appended(p) \in Seq(Seq(Chunks)) /\ Len(Appended(p)) = Len(stdin)
    BY <1>1, <1>2, IsASeq DEF Appended
  <1> QED BY <1>3, FlattenType DEF Queued

LEMMA QueuedSame ==
  ASSUME DOMAIN stdin' = DOMAIN stdin, NEW p,
         \A i \in DOMAIN stdin : Adds(stdin'[i], p) = Adds(stdin[i], p)
  PROVE  Queued(p)' = Queued(p)
  <1>1. Appended(p)' = Appended(p)
    BY DEF Appended
  <1> QED BY <1>1 DEF Queued

LEMMA QueuedAppend ==
  ASSUME TypeOK, NEW p, NEW cmd \in Commands, stdin' = Append(stdin, cmd)
  PROVE  Queued(p)' = Queued(p) \o Adds(cmd, p)
  <1>1. stdin \in Seq(Commands) /\ DOMAIN stdin = 1 .. Len(stdin) /\ Len(stdin) \in Nat
    BY LenProperties DEF TypeOK
  <1>2. /\ DOMAIN stdin' = 1 .. Len(stdin) + 1 /\ stdin'[Len(stdin) + 1] = cmd
        /\ \A i \in 1 .. Len(stdin) : stdin'[i] = stdin[i]
    BY <1>1, AppendProperties, LenProperties
  <1>3. PICK x : x = Adds(cmd, p)
    OBVIOUS
  <1>4. x \in Seq(Chunks)
    BY <1>3, AddsType
  <1>5. PICK t : t = Append(Appended(p), x)
    OBVIOUS
  <1>6. /\ DOMAIN t = 1 .. Len(stdin) + 1 /\ t[Len(stdin) + 1] = x
        /\ \A i \in 1 .. Len(stdin) : t[i] = Appended(p)[i]
        /\ t \in Seq(Seq(Chunks))
    BY <1>1, <1>4, <1>5, AppendedType, AppendProperties, LenProperties
  <1>7. \A i \in 1 .. Len(stdin) + 1 : t[i] = Adds(stdin'[i], p)
    <2> TAKE i \in 1 .. Len(stdin) + 1
    <2>1. CASE i = Len(stdin) + 1
      BY <1>2, <1>3, <1>6, <2>1
    <2>2. CASE i \in 1 .. Len(stdin)
      BY <1>1, <1>2, <1>6, <2>2 DEF Appended
    <2> QED BY <1>1, <2>1, <2>2
  <1>8. Appended(p)' = t
    <2>1. t = [i \in 1 .. Len(stdin) + 1 |-> t[i]]
      BY <1>6, LenProperties
    <2>2. Appended(p)' = [i \in 1 .. Len(stdin) + 1 |-> Adds(stdin'[i], p)]
      BY <1>2 DEF Appended
    <2> QED BY <1>7, <2>1, <2>2
  <1>9. FlattenSeq(t) = FlattenSeq(Appended(p)) \o x
    BY <1>4, <1>5, AppendedType, FlattenAppend
  <1> QED BY <1>3, <1>8, <1>9 DEF Queued

LEMMA QueuedTail ==
  ASSUME TypeOK, NEW p, stdin # <<>>, stdin' = Tail(stdin)
  PROVE  Queued(p) = Adds(Head(stdin), p) \o Queued(p)' /\ Queued(p)' \in Seq(Chunks)
  <1>1. /\ stdin \in Seq(Commands) /\ DOMAIN stdin = 1 .. Len(stdin)
        /\ Len(stdin) \in Nat \ {0} /\ Head(stdin) = stdin[1]
    BY LenProperties, EmptySeq, HeadTailProperties DEF TypeOK
  <1>2. /\ DOMAIN stdin' = 1 .. Len(stdin) - 1
        /\ \A i \in 1 .. Len(stdin) - 1 : stdin'[i] = stdin[i + 1]
    BY <1>1, HeadTailProperties, LenProperties
  <1>3. PICK t : t = Tail(Appended(p))
    OBVIOUS
  <1>4. Appended(p) \in Seq(Seq(Chunks)) /\ Len(Appended(p)) = Len(stdin) /\ Appended(p) # <<>>
    BY <1>1, AppendedType, EmptySeq
  <1>5. /\ DOMAIN t = 1 .. Len(stdin) - 1 /\ Head(Appended(p)) = Appended(p)[1]
        /\ \A i \in 1 .. Len(stdin) - 1 : t[i] = Appended(p)[i + 1]
        /\ t \in Seq(Seq(Chunks))
    BY <1>1, <1>3, <1>4, HeadTailProperties, LenProperties
  <1>6. \A i \in 1 .. Len(stdin) - 1 : i + 1 \in DOMAIN stdin /\ 1 \in DOMAIN stdin
    BY <1>1
  <1>7. \A i \in 1 .. Len(stdin) - 1 : t[i] = Adds(stdin'[i], p)
    BY <1>2, <1>5, <1>6 DEF Appended
  <1>8. Appended(p)' = t
    <2>1. t = [i \in 1 .. Len(stdin) - 1 |-> t[i]]
      BY <1>5, LenProperties
    <2>2. Appended(p)' = [i \in 1 .. Len(stdin) - 1 |-> Adds(stdin'[i], p)]
      BY <1>2 DEF Appended
    <2> QED BY <1>7, <2>1, <2>2
  <1>9. FlattenSeq(Appended(p)) = Head(Appended(p)) \o FlattenSeq(t)
    BY <1>3, <1>4, FlattenHead
  <1>10. Head(Appended(p)) = Adds(Head(stdin), p)
    BY <1>1, <1>5 DEF Appended
  <1>11. FlattenSeq(t) \in Seq(Chunks)
    BY <1>5, FlattenType
  <1> QED BY <1>8, <1>9, <1>10, <1>11 DEF Queued

LEMMA QueuedNone ==
  ASSUME TypeOK, NEW p, \A i \in DOMAIN stdin : ~Touches(stdin[i], p)
  PROVE  Queued(p) = <<>>
  <1>1. \A i \in DOMAIN Appended(p) : Appended(p)[i] = <<>>
    BY DEF Appended, Adds, Touches, Writes
  <1> QED BY <1>1, AppendedType, FlattenEmpties DEF Queued

-----------------------------------------------------------------------------
(* A file's content, and what a command prints of it and makes of it.      *)

LEMMA ContentType ==
  ASSUME TypeOK, NEW p \in Paths
  PROVE  Content(p) \in Seq(Chunks)
  BY EmptySeq DEF TypeOK, Content

LEMMA PieceType ==
  ASSUME NEW s \in Seq(Chunks), NEW off \in Nat
  PROVE  Piece(s, off) \in Seq(Chunks)
  <1>1. PICK n : n = IF Len(s) < off + ChunkSize THEN Len(s) ELSE off + ChunkSize
    OBVIOUS
  <1>2. n \in Nat /\ n <= Len(s) /\ Len(s) \in Nat
    BY <1>1, LenProperties
  <1>3. \A i \in off + 1 .. n : s[i] \in Chunks
    BY <1>2, ElementOfSeq
  <1>4. SubSeq(s, off + 1, n) \in Seq(Chunks)
    BY <1>2, <1>3, SubSeqProperties
  <1> QED BY <1>1, <1>4 DEF Piece

\* A piece that begins where one has got to continues it.
LEMMA PieceContinues ==
  ASSUME NEW s \in Seq(Chunks), NEW off \in Nat, off <= Len(s)
  PROVE  /\ off + Len(Piece(s, off)) \in Nat /\ off + Len(Piece(s, off)) <= Len(s)
         /\ SubSeq(s, 1, off) \o Piece(s, off) = SubSeq(s, 1, off + Len(Piece(s, off)))
  <1>1. PICK n : n = IF Len(s) < off + ChunkSize THEN Len(s) ELSE off + ChunkSize
    OBVIOUS
  <1>2. n \in off .. Len(s) /\ n \in Nat /\ Len(s) \in Nat
    BY <1>1, LenProperties
  <1>3. \A i \in off + 1 .. n : s[i] \in Chunks
    BY <1>2, ElementOfSeq
  <1>4. Len(SubSeq(s, off + 1, n)) = IF off + 1 <= n THEN n - (off + 1) + 1 ELSE 0
    BY <1>2, <1>3, SubSeqProperties
  <1>5. Piece(s, off) = SubSeq(s, off + 1, n)
    BY <1>1 DEF Piece
  <1>6. off + Len(Piece(s, off)) = n
    BY <1>2, <1>4, <1>5
  <1>7. SubSeq(s, 1, off) \o SubSeq(s, off + 1, n) = SubSeq(s, 1, n)
    <2>1. 1 \in 1 .. Len(s) + 1 /\ off \in 1 - 1 .. Len(s) /\ n \in off .. Len(s)
      BY <1>2
    <2> QED BY <2>1, ConcatAdjacentSubSeq
  <1> QED BY <1>2, <1>5, <1>6, <1>7

LEMMA OutputOfDd ==
  ASSUME NEW cmd, cmd.kind = "dd"
  PROVE  Output(cmd) = Piece(Content(cmd.path), cmd.off)
  BY Zenon DEF Output

LEMMA OutputType ==
  ASSUME TypeOK, NEW cmd \in Commands, cmd.kind # "console" => cmd.path \in Paths
  PROVE  Output(cmd) \in Seq(Lines)
  <1>1. CASE cmd.kind = "cat"
    <2>1. Output(cmd) = IF fs[cmd.path] = None THEN <<"no file">> ELSE fs[cmd.path]
      BY <1>1, Zenon DEF Output
    <2>2. fs[cmd.path] \in Seq(Chunks) \cup {None}
      BY <1>1 DEF TypeOK
    <2>3. Chunks \subseteq Lines /\ "no file" \in Lines
      BY DEF Lines
    <2>4. \A s \in Seq(Chunks) : s \in Seq(Lines)
      BY <2>3, SeqMonotonic
    <2>5. \A x \in Lines : <<x>> \in Seq(Lines)
      OBVIOUS
    <2> QED BY <2>1, <2>2, <2>3, <2>4, <2>5
  <1>2. CASE cmd.kind = "dd"
    <2>1. Content(cmd.path) \in Seq(Chunks) /\ cmd.off \in Nat
      BY <1>2, ContentType DEF Commands
    <2>2. Piece(Content(cmd.path), cmd.off) \in Seq(Chunks)
      BY <2>1, PieceType
    <2>3. Seq(Chunks) \subseteq Seq(Lines)
      BY SeqMonotonic DEF Lines
    <2> QED BY <1>2, <2>2, <2>3, OutputOfDd
  <1>3. CASE cmd.kind = "console"
    <2>1. Output(cmd) = <<"said">>
      BY <1>3, Zenon DEF Output
    <2> QED BY <2>1 DEF Lines
  <1>4. CASE cmd.kind \notin {"cat", "dd", "console"}
    <2>1. Output(cmd) = <<>>
      BY <1>4, Zenon DEF Output
    <2> QED BY <2>1
  <1> QED BY <1>1, <1>2, <1>3, <1>4

\* A command changes the files it touches and no other, an append by what it
\* adds.
LEMMA EffectIsTouch ==
  ASSUME TypeOK, NEW cmd \in Commands, cmd.kind # "console" => cmd.path \in Paths,
         cmd.kind = "mv" => cmd.to \in Paths
  PROVE  /\ Effect(cmd) \in [Paths -> Seq(Chunks) \cup {None}]
         /\ \A p \in Paths : ~Touches(cmd, p) => Effect(cmd)[p] = fs[p]
         /\ cmd.kind = "append" => Effect(cmd)[cmd.path] = Content(cmd.path) \o cmd.data
  <1>0. fs \in [Paths -> Seq(Chunks) \cup {None}]
    BY DEF TypeOK
  <1>1. cmd.data \in Seq(Chunks) /\ cmd.kind \in Ops
    BY DEF Commands
  <1>2. CASE cmd.kind = "write"
    <2>1. Effect(cmd) = [fs EXCEPT ![cmd.path] = cmd.data]
      BY <1>2, Zenon DEF Effect
    <2> QED BY <1>0, <1>1, <1>2, <2>1 DEF Touches, Writes
  <1>3. CASE cmd.kind = "append"
    <2>1. Effect(cmd) = [fs EXCEPT ![cmd.path] = Content(cmd.path) \o cmd.data]
      BY <1>3, Zenon DEF Effect
    <2>2. PICK x : x = Content(cmd.path) \o cmd.data
      OBVIOUS
    <2>3. x \in Seq(Chunks)
      BY <1>1, <1>3, <2>2, ContentType, ConcatProperties
    <2> QED BY <1>0, <1>3, <2>1, <2>2, <2>3 DEF Touches, Writes
  <1>4. CASE cmd.kind = "rm"
    <2>1. Effect(cmd) = [fs EXCEPT ![cmd.path] = None]
      BY <1>4, Zenon DEF Effect
    <2> QED BY <1>0, <1>4, <2>1 DEF Touches, Writes
  <1>5. CASE cmd.kind = "mv" /\ fs[cmd.path] # None
    <2>1. Effect(cmd) = [fs EXCEPT ![cmd.to] = fs[cmd.path], ![cmd.path] = None]
      BY <1>5, Zenon DEF Effect
    <2> QED BY <1>0, <1>5, <2>1 DEF Touches
  <1>6. CASE cmd.kind \notin Writes /\ ~(cmd.kind = "mv" /\ fs[cmd.path] # None)
    <2>1. /\ cmd.kind # "write" /\ cmd.kind # "append" /\ cmd.kind # "rm"
          /\ ~(cmd.kind = "mv" /\ fs[cmd.path] # None)
      BY <1>6 DEF Writes
    <2>2. Effect(cmd) = fs
      <3>1. CASE cmd.kind = "mv"
        <4>1. fs[cmd.path] = None
          BY <2>1, <3>1
        <4>2. "mv" # "write" /\ "mv" # "append" /\ "mv" # "rm"
          OBVIOUS
        <4> QED BY <3>1, <4>1, <4>2, Zenon DEF Effect
      <3>2. CASE cmd.kind # "mv"
        BY <2>1, <3>2, Zenon DEF Effect
      <3> QED BY <3>1, <3>2
    <2> QED BY <1>0, <2>1, <2>2
  <1> QED BY <1>2, <1>3, <1>4, <1>5, <1>6 DEF Writes

-----------------------------------------------------------------------------
(* A call that moves while nothing else does.                              *)

\* x may be the record of c: what FileInv asks of one call.
Fit(c, x) ==
    /\ x \in CallRecs
    /\ x.op \notin {"none", "console"} => x.path \in Paths
    /\ x.op = "mv" => x.to \in Paths
    /\ x.life <= life
    /\ x.pc # "idle" => x.op \in Ops
    /\ x.pc = "listen" => x.op \in Asks
    /\ x.pc # "idle" /\ x.op \in {"append", "dd"} => sent[c].path = x.path
    /\ x.pc # "idle" /\ x.op = "append" => sent[c].left = x.todo /\ x.todo # <<>>
    /\ x.pc # "idle" /\ x.op \notin {"append", "dd"} => ~sent[c].clean
    /\ x.pc = "idle" => x = Idle
    /\ x.op = "dd" /\ sent[c].clean /\ c \notin mixed =>
          /\ x.off <= Len(Content(x.path))
          /\ \/ x.heard = <<>>
             \/ x.pc = "listen" /\ x.heard = Piece(Content(x.path), x.off)
          /\ x.got = SubSeq(Content(x.path), 1, x.off)

LEMMA FitIdle ==
  ASSUME TypeOK, NEW c \in Calls
  PROVE  Fit(c, Idle)
  BY DEF Fit, Idle, CallRecs, Names, TypeOK

LEMMA FitNow ==
  ASSUME FileInv, NEW c \in Calls
  PROVE  Fit(c, call[c])
  <1>1. call[c] \in CallRecs
    BY DEF FileInv, TypeOK
  <1> QED BY <1>1 DEF Fit, FileInv, Named, OnItsFile, PieceHeard, DownloadPrefix

LEMMA CallMoves ==
  ASSUME FileInv, NEW c \in Calls, NEW x, Fit(c, x),
         \A i \in DOMAIN stdin : stdin[i].by # c,
         x.op = "dd" => call[c].op = "dd",
         call' = [call EXCEPT ![c] = x],
         UNCHANGED <<up, life, stdin, fs, begun, sent, mixed>>
  PROVE  FileInv'
  <1> USE DEF FileInv
  <1>1. call'[c] = x /\ \A d \in Calls : d # c => call'[d] = call[d]
    BY DEF TypeOK
  <1>2. TypeOK'
    BY DEF TypeOK, Fit
  <1>3. Named'
    BY <1>1 DEF Named, Fit
  <1>4. LineAwaited'
    <2>1. \A i \in DOMAIN stdin : stdin[i].by # None => stdin[i].by \in Calls \ {c}
      <3>1. \A i \in DOMAIN stdin : stdin[i] \in Commands
        BY ElementOfSeq, LenProperties DEF TypeOK
      <3> QED BY <3>1 DEF Commands
    <2> QED BY <1>1, <2>1 DEF LineAwaited, Attached
  <1>5. OnItsFile'
    BY <1>1 DEF OnItsFile, Fit
  <1>6. Alone'
    BY <1>1 DEF Alone, Touches
  <1>7. PieceHeard'
    BY <1>1 DEF PieceHeard, Fit, Content
  <1>8. UploadConserved'
    BY DEF UploadConserved, Content, Queued, Appended
  <1>9. DownloadPrefix'
    BY <1>1 DEF DownloadPrefix, Fit, Content
  <1> QED BY <1>2, <1>3, <1>4, <1>5, <1>6, <1>7, <1>8, <1>9

LEMMA NoLine ==
  ASSUME FileInv, NEW c \in Calls, call[c].pc # "listen" \/ ~Attached(c)
  PROVE  \A i \in DOMAIN stdin : stdin[i].by # c
  BY DEF FileInv, LineAwaited

LEMMA FinishKeeps ==
  ASSUME FileInv, NEW c \in Calls, Finish(c),
         call[c].pc # "listen" \/ ~Attached(c),
         UNCHANGED <<up, life, stdin, fs, begun, sent, mixed>>
  PROVE  FileInv'
  <1>1. Fit(c, Idle) /\ Idle.op # "dd"
    BY FitIdle DEF FileInv, Idle
  <1> QED BY <1>1, NoLine, CallMoves DEF Finish

LEMMA AttachKeeps ==
  ASSUME FileInv, NEW c \in Calls, Attach(c)
  PROVE  FileInv'
  <1>1. CASE up
    <2>1. PICK x : x = [call[c] EXCEPT !.pc = "write", !.life = life]
      OBVIOUS
    <2>2. call[c] \in CallRecs /\ call[c].pc = "attach" /\ life \in Nat
      BY DEF FileInv, TypeOK, Attach
    <2>3. /\ x \in CallRecs /\ x.pc = "write" /\ x.life = life /\ x.op = call[c].op
          /\ x.path = call[c].path /\ x.to = call[c].to /\ x.todo = call[c].todo
          /\ x.off = call[c].off /\ x.heard = call[c].heard /\ x.got = call[c].got
      BY <2>1, <2>2 DEF CallRecs
    <2>4. Fit(c, x)
      BY <2>2, <2>3, FitNow DEF Fit, FileInv, TypeOK
    <2>5. call' = [call EXCEPT ![c] = x]
      BY <1>1, <2>1 DEF Attach, FileInv, TypeOK
    <2>6. \A i \in DOMAIN stdin : stdin[i].by # c
      BY <2>2, NoLine
    <2> QED BY <2>3, <2>4, <2>5, <2>6, CallMoves DEF Attach
  <1>2. CASE ~up
    BY <1>2, FinishKeeps DEF Attach
  <1> QED BY <1>1, <1>2

LEMMA NextChunkKeeps ==
  ASSUME FileInv, NEW c \in Calls, NextChunk(c)
  PROVE  FileInv'
  <1>1. CASE call[c].heard = <<>>
    BY <1>1, FinishKeeps DEF NextChunk
  <1>2. CASE call[c].heard # <<>>
    <2>1. call[c] \in CallRecs /\ call[c].pc = "listen" /\ call[c].op = "dd" /\ ~Attached(c)
      BY DEF FileInv, TypeOK, NextChunk
    <2>2. PICK y, n : y = call[c].got \o call[c].heard /\ n = call[c].off + Len(call[c].heard)
      OBVIOUS
    <2>3. y \in Seq(Lines) /\ n \in Nat
      BY <2>1, <2>2, ConcatProperties, LenProperties DEF CallRecs
    <2>4. PICK x, z : /\ x = [call[c] EXCEPT !.pc = "attach", !.got = y, !.heard = z, !.off = n]
                      /\ z = <<>>
      OBVIOUS
    <2> z \in Seq(Lines)
      BY <2>4
    <2>5. /\ x \in CallRecs /\ x.pc = "attach" /\ x.life = call[c].life /\ x.op = "dd"
          /\ x.path = call[c].path /\ x.to = call[c].to /\ x.todo = call[c].todo
          /\ x.off = n /\ x.heard = z /\ x.got = y
      BY <2>1, <2>3, <2>4 DEF CallRecs
    <2>6. ASSUME sent[c].clean, c \notin mixed
          PROVE  /\ x.off <= Len(Content(x.path))
                 /\ x.got = SubSeq(Content(x.path), 1, x.off)
      <3>1. /\ call[c].heard = Piece(Content(x.path), call[c].off)
            /\ call[c].off <= Len(Content(x.path)) /\ call[c].path \in Paths
            /\ call[c].got = SubSeq(Content(x.path), 1, call[c].off)
        BY <1>2, <2>1, <2>5, <2>6, FitNow DEF Fit
      <3>2. Content(x.path) \in Seq(Chunks) /\ call[c].off \in Nat
        BY <2>1, <2>5, <3>1, ContentType DEF FileInv, CallRecs
      <3> QED BY <2>2, <2>5, <3>1, <3>2, PieceContinues
    <2>7. Fit(c, x)
      BY <2>1, <2>4, <2>5, <2>6, FitNow DEF Fit
    <2>8. \A i \in DOMAIN stdin : stdin[i].by # c
      BY <2>1, NoLine
    <2>9. call' = [call EXCEPT ![c] = x]
      BY <1>2, <2>2, <2>4 DEF NextChunk
    <2> QED BY <2>1, <2>7, <2>8, <2>9, CallMoves DEF NextChunk
  <1> QED BY <1>1, <1>2

-----------------------------------------------------------------------------
(* Calls that end and leave their lines behind.                            *)

LEMMA Hushed ==
  ASSUME FileInv, NEW D \in SUBSET Calls,
         call' = [c \in Calls |-> IF c \in D THEN Idle ELSE call[c]],
         stdin' = [i \in DOMAIN stdin |-> IF stdin[i].by \in D \cup {None}
                      THEN [stdin[i] EXCEPT !.by = None] ELSE stdin[i]],
         UNCHANGED <<up, life, fs, begun, sent, mixed>>
  PROVE  FileInv'
  <1> USE DEF FileInv
  <1>1. stdin \in Seq(Commands) /\ DOMAIN stdin = 1 .. Len(stdin) /\ Len(stdin) \in Nat
        /\ \A i \in DOMAIN stdin : stdin[i] \in Commands
    BY LenProperties, ElementOfSeq DEF TypeOK
  <1>2. \A i \in DOMAIN stdin :
          /\ stdin'[i] \in Commands
          /\ stdin'[i].kind = stdin[i].kind /\ stdin'[i].path = stdin[i].path
          /\ stdin'[i].to = stdin[i].to /\ stdin'[i].data = stdin[i].data
          /\ stdin'[i].off = stdin[i].off
          /\ stdin'[i].by = IF stdin[i].by \in D THEN None ELSE stdin[i].by
    BY <1>1 DEF Commands
  <1>3. DOMAIN stdin' = DOMAIN stdin
    OBVIOUS
  <1>4. Idle \in CallRecs /\ Idle.op = "none" /\ Idle.pc = "idle" /\ Idle.life = 0
    BY EmptySeq DEF Idle, CallRecs, Names
  <1>5. TypeOK'
    <2>1. stdin' \in Seq(Commands)
      <3>1. stdin' = [i \in 1 .. Len(stdin) |-> stdin'[i]]
        BY <1>1
      <3> HIDE DEF FileInv
      <3> QED BY <1>1, <1>2, <3>1, IsASeq
    <2>2. call' \in [Calls -> CallRecs]
      BY <1>4 DEF TypeOK
    <2> QED BY <2>1, <2>2 DEF TypeOK
  <1>6. \A c \in Calls : call'[c] = IF c \in D THEN Idle ELSE call[c]
    OBVIOUS
  <1> HIDE DEF FileInv
  <1>7. Named'
    BY <1>2, <1>3, <1>4, <1>6 DEF FileInv, Named, TypeOK
  <1>8. LineAwaited'
    <2>1. ~up => DOMAIN stdin = {}
      BY DEF FileInv, LineAwaited
    <2>2. ~up => stdin' = <<>>
      BY <2>1
    <2>3. \A i \in DOMAIN stdin : stdin'[i].by # None =>
             stdin'[i].by = stdin[i].by /\ stdin[i].by \in Calls \ D
      BY <1>1, <1>2 DEF Commands
    <2>4. ASSUME NEW i \in DOMAIN stdin, NEW cmd, cmd = stdin'[i], cmd.by # None
          PROVE  /\ call'[cmd.by].pc = "listen" /\ up' /\ call'[cmd.by].life = life'
                 /\ cmd.kind = call'[cmd.by].op /\ cmd.path = call'[cmd.by].path
                 /\ cmd.off = call'[cmd.by].off
      <3>1. cmd.by = stdin[i].by /\ stdin[i].by \in Calls \ D
        BY <2>3, <2>4
      <3>2. call'[cmd.by] = call[cmd.by]
        BY <1>6, <3>1
      <3>3. /\ call[cmd.by].pc = "listen" /\ up /\ call[cmd.by].life = life
            /\ stdin[i].kind = call[cmd.by].op /\ stdin[i].path = call[cmd.by].path
            /\ stdin[i].off = call[cmd.by].off
        BY <2>4, <3>1 DEF FileInv, LineAwaited, Attached
      <3> QED BY <1>2, <2>4, <3>2, <3>3
    <2>5. ASSUME NEW i \in DOMAIN stdin, NEW j \in DOMAIN stdin,
                 stdin'[i].by = stdin'[j].by, stdin'[i].by # None
          PROVE  i = j
      BY <2>3, <2>5 DEF FileInv, LineAwaited
    <2> QED BY <1>3, <2>2, <2>4, <2>5 DEF LineAwaited, Attached
  <1>9. OnItsFile'
    BY <1>4, <1>6 DEF FileInv, OnItsFile
  <1>10. Alone'
    BY <1>2, <1>3, <1>4, <1>6 DEF FileInv, Alone, Touches
  <1>11. PieceHeard'
    BY <1>2, <1>3, <1>4, <1>6 DEF FileInv, PieceHeard, Content
  <1>12. UploadConserved'
    <2>1. \A i \in DOMAIN stdin : \A p : Adds(stdin'[i], p) = Adds(stdin[i], p)
      BY <1>2 DEF Adds
    <2> SUFFICES ASSUME NEW c \in Calls, sent[c].clean
                 PROVE  (Content(sent[c].path) \o Queued(sent[c].path) \o sent[c].left
                            = sent[c].base \o sent[c].chunks)'
      BY DEF UploadConserved
    <2>2. PICK p : p = sent[c].path
      OBVIOUS
    <2>3. Queued(p)' = Queued(p) /\ Content(p)' = Content(p)
      BY <1>3, <2>1, QueuedSame DEF Content
    <2>4. Content(p) \o Queued(p) \o sent[c].left = sent[c].base \o sent[c].chunks
      BY <2>2 DEF FileInv, UploadConserved
    <2> QED BY <2>2, <2>3, <2>4
  <1>13. DownloadPrefix'
    BY <1>4, <1>6 DEF FileInv, DownloadPrefix, Content
  <1> QED BY <1>5, <1>7, <1>8, <1>9, <1>10, <1>11, <1>12, <1>13 DEF FileInv

LEMMA DropKeeps ==
  ASSUME FileInv, NEW c \in Calls, Drop(c)
  PROVE  FileInv'
  <1>1. stdin \in Seq(Commands) /\ DOMAIN stdin = 1 .. Len(stdin)
        /\ \A i \in DOMAIN stdin : stdin[i] \in Commands
    BY LenProperties, ElementOfSeq DEF FileInv, TypeOK
  <1>2. \A i \in DOMAIN stdin : stdin[i].by = None => [stdin[i] EXCEPT !.by = None] = stdin[i]
    BY <1>1 DEF Commands
  <1>3. stdin' = [i \in DOMAIN stdin |-> IF stdin[i].by \in {c} \cup {None}
                     THEN [stdin[i] EXCEPT !.by = None] ELSE stdin[i]]
    BY <1>2 DEF Drop
  <1>4. call' = [d \in Calls |-> IF d \in {c} THEN Idle ELSE call[d]]
    BY DEF Drop, Finish, FileInv, TypeOK
  <1>5. {c} \in SUBSET Calls /\ UNCHANGED <<up, life, fs, begun, sent, mixed>>
    BY DEF Drop
  <1> QED BY <1>3, <1>4, <1>5, Hushed

\* The death of the node, as far as files are concerned.
LEMMA NodeDiesKeeps ==
  ASSUME FileInv, NodeDies
  PROVE  FileInv'
  <1>1. stdin \in Seq(Commands) /\ DOMAIN stdin = 1 .. Len(stdin)
        /\ \A i \in DOMAIN stdin : stdin[i] \in Commands
    BY LenProperties, ElementOfSeq DEF FileInv, TypeOK
  <1>2. stdin' = [i \in DOMAIN stdin |-> IF stdin[i].by \in Calls \cup {None}
                     THEN [stdin[i] EXCEPT !.by = None] ELSE stdin[i]]
    BY <1>1 DEF NodeDies, Commands
  <1>3. call' = [d \in Calls |-> IF d \in Calls THEN Idle ELSE call[d]]
    BY DEF NodeDies
  <1> QED BY <1>2, <1>3, Hushed DEF NodeDies

-----------------------------------------------------------------------------
(* The container.                                                          *)

LEMMA StartKeeps ==
  ASSUME FileInv, Start
  PROVE  FileInv'
  <1> USE DEF FileInv, Start
  <1>1. TypeOK'
    BY DEF TypeOK
  <1>2. Named'
    BY DEF Named, TypeOK, CallRecs
  <1>3. LineAwaited'
    BY DEF LineAwaited
  <1>4. OnItsFile' /\ Alone'
    BY DEF OnItsFile, Alone, Touches
  <1>5. PieceHeard' /\ DownloadPrefix'
    BY DEF PieceHeard, DownloadPrefix, Content
  <1>6. UploadConserved'
    BY DEF UploadConserved, Content, Queued, Appended
  <1> QED BY <1>1, <1>2, <1>3, <1>4, <1>5, <1>6

LEMMA StopKeeps ==
  ASSUME FileInv, Stop
  PROVE  FileInv'
  <1>1. /\ \A c \in Calls : /\ sent'[c] \in Files
                            /\ sent'[c].path = sent[c].path /\ sent'[c].base = sent[c].base
                            /\ sent'[c].chunks = sent[c].chunks /\ sent'[c].left = sent[c].left
                            /\ sent'[c].clean => sent[c].clean /\
                                  \A i \in DOMAIN stdin : ~Touches(stdin[i], sent[c].path)
        /\ sent' \in [Calls -> Files]
    <2>1. \A c \in Calls : sent[c] \in Files
      BY DEF FileInv, TypeOK
    <2>2. \A c \in Calls : sent'[c] = IF \E i \in DOMAIN stdin : Touches(stdin[i], sent[c].path)
                                      THEN [sent[c] EXCEPT !.clean = FALSE] ELSE sent[c]
      BY DEF Stop
    <2>3. \A c \in Calls : [sent[c] EXCEPT !.clean = FALSE] \in Files
      BY <2>1 DEF Files
    <2>4. sent' \in [Calls -> Files]
      BY <2>1, <2>3 DEF Stop
    <2> QED BY <2>1, <2>2, <2>3, <2>4 DEF Files
  <1>2. stdin' = <<>> /\ DOMAIN stdin' = {} /\ stdin' \in Seq(Commands) /\ up' = FALSE
        /\ UNCHANGED <<life, fs, call, begun, mixed>>
    BY DEF Stop
  <1>3. TypeOK'
    BY <1>1, <1>2 DEF FileInv, TypeOK
  <1>4. Named' /\ LineAwaited'
    <2>1. Named'
      BY <1>2 DEF FileInv, Named
    <2>2. LineAwaited'
      BY <1>2 DEF FileInv, LineAwaited
    <2> QED BY <2>1, <2>2
  <1>5. OnItsFile' /\ Alone'
    <2>1. OnItsFile'
      BY <1>1, <1>2 DEF FileInv, OnItsFile
    <2>2. Alone'
      BY <1>1, <1>2 DEF FileInv, Alone
    <2> QED BY <2>1, <2>2
  <1>6. PieceHeard' /\ DownloadPrefix'
    <2>1. PieceHeard'
      BY <1>1, <1>2 DEF FileInv, PieceHeard, Content
    <2>2. DownloadPrefix'
      BY <1>1, <1>2 DEF FileInv, DownloadPrefix, Content
    <2> QED BY <2>1, <2>2
  <1>7. UploadConserved'
    <2> SUFFICES ASSUME NEW c \in Calls, sent'[c].clean
                 PROVE  (Content(sent[c].path) \o Queued(sent[c].path) \o sent[c].left
                            = sent[c].base \o sent[c].chunks)'
      BY DEF UploadConserved
    <2>1. PICK p : p = sent[c].path
      OBVIOUS
    <2>2. Queued(p) = <<>>
      BY <1>1, <2>1, QueuedNone DEF FileInv
    <2>3. Queued(p)' = <<>>
      <3>1. Appended(p)' = <<>>
        BY <1>2 DEF Appended
      <3> QED BY <3>1, FlattenNone DEF Queued
    <2>4. Content(p)' = Content(p)
      BY <1>2 DEF Content
    <2>5. Content(p) \o Queued(p) \o sent[c].left = sent[c].base \o sent[c].chunks
      BY <1>1, <2>1 DEF FileInv, UploadConserved
    <2> QED BY <1>1, <2>1, <2>2, <2>3, <2>4, <2>5
  <1> QED BY <1>3, <1>4, <1>5, <1>6, <1>7 DEF FileInv

-----------------------------------------------------------------------------
(* A call begins.                                                          *)

LEMMA BeginKeeps ==
  ASSUME FileInv, NEW c \in Calls, NEW op \in Ops, NEW p \in Names, NEW q \in Names,
         NEW data \in Seq(Chunks), op # "console" => p \in Paths, op = "mv" => q \in Paths,
         op = "append" => data # <<>>, op = "dd" => data = <<>>,
         Begin(c, op, p, q, data)
  PROVE  FileInv'
  <1>0. <<>> \in Seq(Chunks) /\ <<>> \in Seq(Lines)
    OBVIOUS
  <1>1. PICK x : x = [Idle EXCEPT !.pc = "attach", !.op = op, !.path = p, !.to = q, !.todo = data]
    OBVIOUS
  <1>2. /\ x \in CallRecs /\ x.pc = "attach" /\ x.op = op /\ x.path = p /\ x.to = q
        /\ x.todo = data /\ x.life = 0 /\ x.off = 0 /\ x.heard = <<>> /\ x.got = <<>>
    BY <1>0, <1>1 DEF Idle, CallRecs, Names
  <1>3. call' = [call EXCEPT ![c] = x] /\ call \in [Calls -> CallRecs]
    BY <1>1 DEF Begin, FileInv, TypeOK
  <1>4. call'[c] = x /\ \A d \in Calls : d # c => call'[d] = call[d]
    BY <1>3
  <1>5. PICK y : y = IF op \in {"append", "dd"}
                     THEN [path |-> p, base |-> Content(p), chunks |-> data,
                           left |-> data, clean |-> ~Contested(c, p)]
                     ELSE NoFile
    OBVIOUS
  <1>6. /\ y \in Files
        /\ op \notin {"append", "dd"} => ~y.clean
        /\ op \in {"append", "dd"} =>
              y.path = p /\ y.left = data /\ y.chunks = data /\ y.base = Content(p)
        /\ y.clean => ~Contested(c, p) /\ op \in {"append", "dd"}
    <2>1. CASE op \in {"append", "dd"}
      <3>1. p \in Paths /\ Content(p) \in Seq(Chunks)
        BY <2>1, ContentType DEF FileInv
      <3>2. PICK b \in BOOLEAN : b = ~Contested(c, p)
        OBVIOUS
      <3>3. y = [path |-> p, base |-> Content(p), chunks |-> data, left |-> data, clean |-> b]
        BY <1>5, <2>1, <3>2
      <3> QED BY <2>1, <3>1, <3>2, <3>3 DEF Files
    <2>2. CASE op \notin {"append", "dd"}
      BY <1>0, <1>5, <2>2 DEF NoFile, Files, Names
    <2> QED BY <2>1, <2>2
  <1>7. sent' = [sent EXCEPT ![c] = y] /\ sent \in [Calls -> Files]
    BY <1>5 DEF Begin, FileInv, TypeOK
  <1>8. sent'[c] = y /\ \A d \in Calls : d # c => sent'[d] = sent[d]
    BY <1>7
  <1>9. /\ UNCHANGED <<up, life, stdin, fs>> /\ begun' \in 0 .. MaxBegun
        /\ mixed' = mixed \ {c} /\ call[c].pc = "idle" /\ call[c] = Idle
    BY DEF Begin, Busy, FileInv, TypeOK, OnItsFile
  <1>10. TypeOK'
    BY <1>2, <1>3, <1>6, <1>7, <1>9 DEF FileInv, TypeOK
  <1>11. Named'
    BY <1>2, <1>4, <1>9 DEF FileInv, Named, TypeOK
  <1>12. LineAwaited'
    <2>1. \A i \in DOMAIN stdin : stdin[i].by # c
      BY <1>9, NoLine
    <2>2. \A i \in DOMAIN stdin : stdin[i].by # None => stdin[i].by \in Calls \ {c}
      <3>1. \A i \in DOMAIN stdin : stdin[i] \in Commands
        BY ElementOfSeq, LenProperties DEF FileInv, TypeOK
      <3> QED BY <2>1, <3>1 DEF Commands
    <2> QED BY <1>4, <1>9, <2>2 DEF FileInv, LineAwaited, Attached
  <1>13. OnItsFile'
    BY <1>2, <1>4, <1>6, <1>8 DEF FileInv, OnItsFile
  <1>14. y.clean => p \in Paths /\ \A i \in DOMAIN stdin : ~Touches(stdin[i], p)
    BY <1>6 DEF Contested
  <1>15. Alone'
    BY <1>2, <1>4, <1>6, <1>8, <1>9, <1>14 DEF FileInv, Alone
  <1>16. PieceHeard'
    <2>1. p \in Paths => 0 <= Len(Content(p))
      BY ContentType, LenProperties DEF FileInv
    <2>2. y.clean => p \in Paths
      BY <1>14
    <2> QED BY <1>2, <1>4, <1>8, <1>9, <2>1, <2>2 DEF FileInv, PieceHeard, Content
  <1>17. DownloadPrefix'
    <2>1. \A t : SubSeq(t, 1, 0) = <<>>
      BY SubSeqEmpty
    <2> QED BY <1>2, <1>4, <1>8, <1>9, <2>1 DEF FileInv, DownloadPrefix, Content
  <1>18. UploadConserved'
    <2>1. \A t : Content(t)' = Content(t) /\ Queued(t)' = Queued(t)
      BY <1>9 DEF Content, Queued, Appended
    <2>2. ASSUME y.clean
          PROVE  Content(p) \o Queued(p) \o data = y.base \o y.chunks
      <3>1. Queued(p) = <<>> /\ Content(p) \in Seq(Chunks)
        BY <1>14, <2>2, QueuedNone, ContentType DEF FileInv
      <3> QED BY <1>6, <2>2, <3>1, ConcatEmptySeq
    <2> SUFFICES ASSUME NEW d \in Calls, sent'[d].clean
                 PROVE  (Content(sent[d].path) \o Queued(sent[d].path) \o sent[d].left
                            = sent[d].base \o sent[d].chunks)'
      BY DEF UploadConserved
    <2>3. CASE d = c
      BY <1>6, <1>8, <2>1, <2>2, <2>3
    <2>4. CASE d # c
      BY <1>8, <2>1, <2>4 DEF FileInv, UploadConserved
    <2> QED BY <2>3, <2>4
  <1> QED BY <1>10, <1>11, <1>12, <1>13, <1>15, <1>16, <1>17, <1>18 DEF FileInv

-----------------------------------------------------------------------------
(* A line is written.                                                      *)

\* The line of a call is of the call's file; an upload's is its next chunk.
LEMMA CommandOfCall ==
  ASSUME FileInv, NEW c \in Calls, call[c].pc = "write"
  PROVE  /\ Command(c) \in Commands
         /\ Command(c).kind = call[c].op /\ Command(c).path = call[c].path
         /\ Command(c).to = call[c].to /\ Command(c).off = call[c].off
         /\ Command(c).by = IF call[c].op \in Asks THEN c ELSE None
         /\ call[c].op = "append" =>
               /\ Command(c).data \in Seq(Chunks)
               /\ Command(c).data \o Tail(call[c].todo) = call[c].todo
               /\ Tail(call[c].todo) \in Seq(Chunks)
  <1>1. call[c] \in CallRecs /\ call[c].op \in Ops
    BY DEF FileInv, TypeOK, Named
  <1>2. PICK t, d : /\ t = call[c].todo
                    /\ d = IF call[c].op = "append" THEN SubSeq(t, 1, 1) ELSE t
    OBVIOUS
  <1>3. t \in Seq(Chunks)
    BY <1>1, <1>2 DEF CallRecs
  <1>4. call[c].op = "append" => d \in Seq(Chunks) /\ d \o Tail(t) = t /\ Tail(t) \in Seq(Chunks)
    <2> SUFFICES ASSUME call[c].op = "append"
                 PROVE  d \in Seq(Chunks) /\ d \o Tail(t) = t /\ Tail(t) \in Seq(Chunks)
      OBVIOUS
    <2>1. t # <<>> /\ Len(t) \in Nat \ {0}
      BY <1>2, <1>3, EmptySeq, LenProperties DEF FileInv, OnItsFile
    <2>2. Tail(t) = SubSeq(t, 2, Len(t)) /\ Tail(t) \in Seq(Chunks)
      BY <1>3, <2>1, TailIsSubSeq, HeadTailProperties
    <2>3. \A i \in 1 .. 1 : t[i] \in Chunks
      BY <1>3, <2>1, ElementOfSeq
    <2>4. SubSeq(t, 1, 1) \in Seq(Chunks)
      BY <2>3, SubSeqProperties
    <2>5. SubSeq(t, 1, 1) \o SubSeq(t, 1 + 1, Len(t)) = SubSeq(t, 1, Len(t))
      <3>1. 1 \in 1 .. Len(t) + 1 /\ 1 \in 1 - 1 .. Len(t) /\ Len(t) \in 1 .. Len(t)
        BY <2>1
      <3> QED BY <1>3, <3>1, ConcatAdjacentSubSeq
    <2>6. SubSeq(t, 1, Len(t)) = t
      BY <1>3, SubSeqFull
    <2> QED BY <1>2, <2>2, <2>4, <2>5, <2>6
  <1>5. d \in Seq(Chunks)
    BY <1>2, <1>3, <1>4
  <1>6. PICK b \in Calls \cup {None} : b = IF call[c].op \in Asks THEN c ELSE None
    OBVIOUS
  <1>7. Command(c) = [kind |-> call[c].op, path |-> call[c].path, to |-> call[c].to,
                      off |-> call[c].off, by |-> b, data |-> d]
    BY <1>2, <1>6 DEF Command
  <1>8. Command(c) \in Commands
    BY <1>1, <1>5, <1>7 DEF CallRecs, Commands
  <1>9. /\ Command(c).kind = call[c].op /\ Command(c).path = call[c].path
        /\ Command(c).to = call[c].to /\ Command(c).off = call[c].off
        /\ Command(c).by = b /\ Command(c).data = d
    BY <1>7
  <1> QED BY <1>2, <1>4, <1>6, <1>8, <1>9

LEMMA WriteKeeps ==
  ASSUME FileInv, NEW c \in Calls, Write(c)
  PROVE  FileInv'
  <1>0. call[c] \in CallRecs /\ call[c].pc = "write" /\ up /\ call[c].life = life
    BY DEF FileInv, TypeOK, Write, Attached
  <1>1. PICK cmd : cmd = Command(c)
    OBVIOUS
  <1>2. /\ cmd \in Commands /\ cmd.kind = call[c].op /\ cmd.path = call[c].path
        /\ cmd.to = call[c].to /\ cmd.off = call[c].off
        /\ cmd.by = IF call[c].op \in Asks THEN c ELSE None
        /\ call[c].op = "append" =>
              cmd.data \in Seq(Chunks) /\ cmd.data \o Tail(call[c].todo) = call[c].todo
              /\ Tail(call[c].todo) \in Seq(Chunks)
    BY <1>0, <1>1, CommandOfCall
  <1>3. /\ stdin \in Seq(Commands) /\ stdin' = Append(stdin, cmd) /\ stdin' \in Seq(Commands)
        /\ DOMAIN stdin = 1 .. Len(stdin) /\ DOMAIN stdin' = 1 .. Len(stdin) + 1
        /\ Len(stdin) \in Nat /\ stdin'[Len(stdin) + 1] = cmd
        /\ \A i \in 1 .. Len(stdin) : stdin'[i] = stdin[i]
        /\ \A i \in 1 .. Len(stdin) : stdin[i] \in Commands
    <2>1. stdin \in Seq(Commands) /\ stdin' = Append(stdin, cmd)
      BY <1>1 DEF FileInv, TypeOK, Write
    <2> QED BY <1>2, <2>1, AppendProperties, LenProperties, ElementOfSeq
  <1>4. PICK x \in CallRecs :
           /\ call' = [call EXCEPT ![c] = x]
           /\ \/ call[c].op = "append" /\ x.pc = "attach" /\ x.op = "append"
                 /\ x.path = call[c].path /\ x.to = call[c].to /\ x.life = call[c].life
                 /\ x.todo = Tail(call[c].todo) /\ x.todo # <<>>
              \/ call[c].op \in Asks /\ x.pc = "listen" /\ x.op = call[c].op
                 /\ x.path = call[c].path /\ x.to = call[c].to /\ x.life = call[c].life
                 /\ x.off = call[c].off /\ x.heard = call[c].heard /\ x.got = call[c].got
              \/ call[c].op \notin Asks /\ x = Idle
    <2>1. CASE call[c].op = "append" /\ Len(call[c].todo) > 1
      <3>1. PICK t, x : t = Tail(call[c].todo) /\ x = [call[c] EXCEPT !.pc = "attach", !.todo = t]
        OBVIOUS
      <3>2. t \in Seq(Chunks) /\ t # <<>>
        <4>1. call[c].todo \in Seq(Chunks) /\ Len(call[c].todo) \in Nat
          BY <1>0, LenProperties DEF CallRecs
        <4>2. call[c].todo # <<>>
          BY <2>1, EmptySeq
        <4>3. t \in Seq(Chunks) /\ Len(t) = Len(call[c].todo) - 1
          BY <3>1, <4>1, <4>2, HeadTailProperties
        <4> QED BY <2>1, <4>1, <4>3, EmptySeq
      <3>3. /\ x \in CallRecs /\ x.pc = "attach" /\ x.op = "append" /\ x.todo = t
            /\ x.path = call[c].path /\ x.to = call[c].to /\ x.life = call[c].life
        BY <1>0, <2>1, <3>1, <3>2 DEF CallRecs
      <3>4. call' = [call EXCEPT ![c] = x]
        BY <2>1, <3>1 DEF Write, FileInv, TypeOK
      <3> QED BY <2>1, <3>1, <3>2, <3>3, <3>4
    <2>2. CASE ~(call[c].op = "append" /\ Len(call[c].todo) > 1) /\ call[c].op \in Asks
      <3>1. PICK x : x = [call[c] EXCEPT !.pc = "listen"]
        OBVIOUS
      <3>2. /\ x \in CallRecs /\ x.pc = "listen" /\ x.op = call[c].op
            /\ x.path = call[c].path /\ x.to = call[c].to /\ x.life = call[c].life
            /\ x.off = call[c].off /\ x.heard = call[c].heard /\ x.got = call[c].got
        BY <1>0, <3>1 DEF CallRecs
      <3>3. call' = [call EXCEPT ![c] = x]
        BY <2>2, <3>1 DEF Write, FileInv, TypeOK
      <3> QED BY <2>2, <3>2, <3>3
    <2>3. CASE ~(call[c].op = "append" /\ Len(call[c].todo) > 1) /\ call[c].op \notin Asks
      <3>1. call' = [call EXCEPT ![c] = Idle]
        BY <2>3 DEF Write, Finish
      <3>2. Idle \in CallRecs
        BY FitIdle DEF Fit, FileInv
      <3> QED BY <2>3, <3>1, <3>2
    <2> QED BY <2>1, <2>2, <2>3
  <1>5. call'[c] = x /\ \A d \in Calls : d # c => call'[d] = call[d]
    BY <1>4 DEF FileInv, TypeOK
  <1>6. /\ sent' \in [Calls -> Files]
        /\ \A d \in Calls :
              /\ sent'[d].path = sent[d].path /\ sent'[d].base = sent[d].base
              /\ sent'[d].chunks = sent[d].chunks
              /\ sent'[d].left = IF d = c /\ call[c].op = "append" THEN Tail(sent[d].left)
                                 ELSE sent[d].left
              /\ sent'[d].clean => sent[d].clean /\ (d # c => ~Touches(cmd, sent[d].path))
    <2>1. \A d \in Calls : sent[d] \in Files
      BY DEF FileInv, TypeOK
    <2>2. PICK f : f = Foul(c, cmd)
      OBVIOUS
    <2>3. /\ f \in [Calls -> Files]
          /\ \A d \in Calls :
              /\ f[d].path = sent[d].path /\ f[d].base = sent[d].base
              /\ f[d].chunks = sent[d].chunks /\ f[d].left = sent[d].left
              /\ f[d].clean => sent[d].clean /\ (d # c => ~Touches(cmd, sent[d].path))
      <3>1. \A d \in Calls :
              /\ [sent[d] EXCEPT !.clean = FALSE] \in Files
              /\ [sent[d] EXCEPT !.clean = FALSE].path = sent[d].path
              /\ [sent[d] EXCEPT !.clean = FALSE].base = sent[d].base
              /\ [sent[d] EXCEPT !.clean = FALSE].chunks = sent[d].chunks
              /\ [sent[d] EXCEPT !.clean = FALSE].left = sent[d].left
              /\ ~[sent[d] EXCEPT !.clean = FALSE].clean
        BY <2>1 DEF Files
      <3>2. \A d \in Calls : f[d] = IF d # c /\ sent[d].clean /\ Touches(cmd, sent[d].path)
                                    THEN [sent[d] EXCEPT !.clean = FALSE] ELSE sent[d]
        BY <2>2 DEF Foul
      <3>3. f = [d \in Calls |-> f[d]]
        BY <2>2 DEF Foul
      <3> QED BY <2>1, <3>1, <3>2, <3>3
    <2>4. CASE call[c].op = "append"
      <3>1. PICK t, y : t = Tail(f[c].left) /\ y = [f[c] EXCEPT !.left = t]
        OBVIOUS
      <3>2. t \in Seq(Chunks)
        BY <1>0, <1>2, <2>3, <2>4, <3>1 DEF FileInv, OnItsFile
      <3> f[c] \in Files
        BY <2>3
      <3>3. /\ y \in Files /\ y.path = f[c].path /\ y.base = f[c].base
            /\ y.chunks = f[c].chunks /\ y.clean = f[c].clean /\ y.left = t
        BY <3>1, <3>2 DEF Files
      <3>4. sent' = [f EXCEPT ![c] = y]
        BY <1>1, <2>2, <2>4, <3>1 DEF Write
      <3> QED BY <2>3, <2>4, <3>1, <3>3, <3>4
    <2>5. CASE call[c].op # "append"
      <3>1. sent' = f
        BY <1>1, <2>2, <2>5 DEF Write
      <3> QED BY <2>3, <2>5, <3>1
    <2> QED BY <2>4, <2>5
  <1>7. UNCHANGED <<up, life, fs, begun, mixed>>
    BY DEF Write
  <1>8. TypeOK'
    BY <1>3, <1>4, <1>6, <1>7 DEF FileInv, TypeOK
  <1>9. call[c].op \in Ops /\ (call[c].op # "console" => call[c].path \in Paths)
        /\ (call[c].op = "mv" => call[c].to \in Paths)
    BY <1>0 DEF FileInv, Named, Ops, Writes, Asks
  <1>10. Idle.op = "none" /\ Idle.pc = "idle" /\ Idle.life = 0 /\ life \in Nat
    BY DEF Idle, FileInv, TypeOK
  <1>11. Named'
    <2>1. \A i \in DOMAIN stdin' : /\ stdin'[i].kind # "console" => stdin'[i].path \in Paths
                                   /\ stdin'[i].kind = "mv" => stdin'[i].to \in Paths
      BY <1>2, <1>3, <1>9 DEF FileInv, Named
    <2>2. \A d \in Calls :
            /\ call'[d].op \notin {"none", "console"} => call'[d].path \in Paths
            /\ call'[d].op = "mv" => call'[d].to \in Paths
            /\ call'[d].life <= life
            /\ call'[d].pc # "idle" => call'[d].op \in Ops
      BY <1>0, <1>4, <1>5, <1>9, <1>10 DEF FileInv, Named
    <2> QED BY <1>7, <2>1, <2>2 DEF Named
  <1>12. \A i \in 1 .. Len(stdin) : stdin[i].by # c
    BY <1>0, <1>3, NoLine
  <1>13. LineAwaited'
    <2>1. \A i \in 1 .. Len(stdin) : stdin[i].by # None => stdin[i].by \in Calls \ {c}
      BY <1>3, <1>12 DEF Commands
    <2>2. ASSUME NEW i \in DOMAIN stdin', NEW m, m = stdin'[i], m.by # None
          PROVE  /\ call'[m.by].pc = "listen" /\ up' /\ call'[m.by].life = life'
                 /\ m.kind = call'[m.by].op /\ m.path = call'[m.by].path
                 /\ m.off = call'[m.by].off
      <3>1. CASE i = Len(stdin) + 1
        <4>1. m = cmd /\ m.by = c /\ call[c].op \in Asks
          BY <1>2, <1>3, <2>2, <3>1
        <4> QED BY <1>0, <1>2, <1>4, <1>5, <1>7, <4>1 DEF Asks
      <3>2. CASE i \in 1 .. Len(stdin)
        <4>1. m = stdin[i] /\ m.by \in Calls \ {c} /\ i \in DOMAIN stdin
          BY <1>3, <2>1, <2>2, <3>2
        <4>2. call'[m.by] = call[m.by]
          BY <1>5, <4>1
        <4> QED BY <1>7, <2>2, <4>1, <4>2 DEF FileInv, LineAwaited, Attached
      <3> QED BY <1>3, <3>1, <3>2
    <2>3. ASSUME NEW i \in DOMAIN stdin', NEW j \in DOMAIN stdin',
                 stdin'[i].by = stdin'[j].by, stdin'[i].by # None
          PROVE  i = j
      <3>1. cmd.by \in {c, None}
        BY <1>2
      <3>2. CASE i \in 1 .. Len(stdin) /\ j \in 1 .. Len(stdin)
        BY <1>3, <2>3, <3>2 DEF FileInv, LineAwaited
      <3>3. CASE i = Len(stdin) + 1 \/ j = Len(stdin) + 1
        BY <1>3, <1>12, <2>3, <3>1, <3>3
      <3> QED BY <1>3, <3>2, <3>3
    <2> QED BY <1>0, <1>7, <2>2, <2>3 DEF LineAwaited, Attached
  <1>14. OnItsFile'
    BY <1>0, <1>4, <1>5, <1>6, <1>10 DEF FileInv, OnItsFile, Asks
  <1>15. \A d \in Calls : sent[d].clean => sent[d].path \in Paths
    BY DEF FileInv, Alone
  <1>16. sent[c].clean => /\ call[c].op \in {"append", "dd"} /\ sent[c].path = call[c].path
                          /\ ~Touches(cmd, sent[c].path) \/ call[c].op = "append"
    BY <1>0, <1>2 DEF FileInv, OnItsFile, Touches, Writes
  <1>17. Alone'
    <2> SUFFICES ASSUME NEW d \in Calls, sent'[d].clean
                 PROVE  /\ sent[d].path \in Paths
                        /\ \A i \in DOMAIN stdin' : Touches(stdin'[i], sent[d].path) =>
                              stdin'[i].kind = "append" /\ call'[d].op # "dd"
      BY <1>6 DEF Alone, Touches
    <2>1. sent[d].clean /\ (d # c => ~Touches(cmd, sent[d].path))
      BY <1>6
    <2>2. \A i \in 1 .. Len(stdin) : Touches(stdin[i], sent[d].path) =>
             stdin[i].kind = "append" /\ call[d].op # "dd"
      BY <1>3, <2>1 DEF FileInv, Alone
    <2>3. call'[d].op = "dd" => call[d].op = "dd"
      BY <1>4, <1>5, <1>10
    <2>4. Touches(cmd, sent[d].path) => cmd.kind = "append" /\ call'[d].op # "dd"
      BY <1>2, <1>16, <2>1, <2>3
    <2>5. ASSUME NEW i \in DOMAIN stdin', Touches(stdin'[i], sent[d].path)
          PROVE  stdin'[i].kind = "append" /\ call'[d].op # "dd"
      <3>1. CASE i = Len(stdin) + 1
        BY <1>3, <2>4, <2>5, <3>1
      <3>2. CASE i \in 1 .. Len(stdin)
        BY <1>3, <2>2, <2>3, <2>5, <3>2
      <3> QED BY <1>3, <3>1, <3>2
    <2> QED BY <1>15, <2>1, <2>5
  <1>18. PieceHeard'
    <2>1. \A d \in Calls : call'[d].op = "dd" =>
             /\ call[d].op = "dd" /\ call'[d].off = call[d].off
             /\ call'[d].path = call[d].path /\ call'[d].heard = call[d].heard
             /\ d # c => call'[d].pc = call[d].pc
      BY <1>4, <1>5, <1>10
    <2>2. \A d \in Calls : d # c => cmd.by # d
      BY <1>2
    <2>3. \A d \in Calls \ {c} : (\A i \in DOMAIN stdin : stdin[i].by # d)
             => \A i \in DOMAIN stdin' : stdin'[i].by # d
      BY <1>3, <2>2
    <2>4. call[c].op = "dd" /\ sent[c].clean /\ c \notin mixed => call[c].heard = <<>>
      BY <1>0 DEF FileInv, PieceHeard
    <2> QED BY <1>6, <1>7, <2>1, <2>3, <2>4 DEF FileInv, PieceHeard, Content
  <1>19. DownloadPrefix'
    <2>1. \A d \in Calls : call'[d].op = "dd" =>
             /\ call[d].op = "dd" /\ call'[d].off = call[d].off
             /\ call'[d].path = call[d].path /\ call'[d].got = call[d].got
      BY <1>4, <1>5, <1>10
    <2> QED BY <1>6, <1>7, <2>1 DEF FileInv, DownloadPrefix, Content
  <1>20. UploadConserved'
    <2> SUFFICES ASSUME NEW d \in Calls, sent'[d].clean
                 PROVE  (Content(sent[d].path) \o Queued(sent[d].path) \o sent[d].left
                            = sent[d].base \o sent[d].chunks)'
      BY DEF UploadConserved
    <2>1. PICK p, w, g, r : /\ p = sent[d].path /\ w = Content(p) /\ g = Queued(p)
                            /\ r = sent[d].left
      OBVIOUS
    <2>2. sent[d].clean /\ p \in Paths
      BY <1>6, <1>15, <2>1
    <2>3. w \in Seq(Chunks) /\ g \in Seq(Chunks) /\ r \in Seq(Chunks)
      <3>1. sent[d] \in Files
        BY DEF FileInv, TypeOK
      <3> QED BY <2>1, <2>2, <3>1, ContentType, AppendedType DEF FileInv, Files
    <2>4. w \o g \o r = sent[d].base \o sent[d].chunks
      BY <2>1, <2>2 DEF FileInv, UploadConserved
    <2>5. Content(p)' = w /\ Queued(p)' = g \o Adds(cmd, p)
      <3>1. Content(p)' = Content(p)
        BY <1>7 DEF Content
      <3>2. Queued(p)' = Queued(p) \o Adds(cmd, p)
        BY <1>2, <1>3, QueuedAppend DEF FileInv
      <3> QED BY <2>1, <3>1, <3>2
    <2>6. CASE d = c /\ call[c].op = "append"
      <3>1. PICK k, t : k = cmd.data /\ t = Tail(call[c].todo)
        OBVIOUS
      <3>2. /\ k \in Seq(Chunks) /\ t \in Seq(Chunks) /\ k \o t = r
            /\ sent'[d].left = t
        BY <1>0, <1>2, <1>6, <2>1, <2>6, <3>1 DEF FileInv, OnItsFile
      <3>3. Adds(cmd, p) = k
        BY <1>2, <1>16, <2>1, <2>2, <2>6, <3>1 DEF Adds
      <3>4. (w \o (g \o k)) \o t = (w \o g) \o (k \o t)
        <4>1. Join(Join(w, Join(g, k)), t) = Join(Join(w, g), Join(k, t))
          BY <2>3, <3>2, ChunkMoves
        <4> QED BY <4>1, Zenon DEF Join
      <3> QED BY <1>6, <2>1, <2>4, <2>5, <3>2, <3>3, <3>4
    <2>7. CASE ~(d = c /\ call[c].op = "append")
      <3>1. Adds(cmd, p) = <<>>
        BY <1>6, <1>16, <2>1, <2>2, <2>7 DEF Adds, Touches, Writes
      <3>2. g \o <<>> = g
        BY <2>3, ConcatEmptySeq
      <3> QED BY <1>6, <2>1, <2>4, <2>5, <2>7, <3>1, <3>2
    <2> QED BY <2>6, <2>7
  <1> QED BY <1>8, <1>11, <1>13, <1>14, <1>17, <1>18, <1>19, <1>20 DEF FileInv

-----------------------------------------------------------------------------
(* The shell obeys a line.                                                 *)

LEMMA RunKeeps ==
  ASSUME FileInv, Run
  PROVE  FileInv'
  <1>1. PICK cmd, lines : cmd = Head(stdin) /\ lines = Output(cmd)
    OBVIOUS
  <1>2. /\ stdin \in Seq(Commands) /\ stdin # <<>> /\ stdin' = Tail(stdin)
        /\ stdin' \in Seq(Commands) /\ Len(stdin) \in Nat \ {0}
        /\ DOMAIN stdin = 1 .. Len(stdin) /\ DOMAIN stdin' = 1 .. Len(stdin) - 1
        /\ cmd = stdin[1] /\ cmd \in Commands
        /\ \A i \in 1 .. Len(stdin) - 1 : stdin'[i] = stdin[i + 1]
    <2>1. stdin \in Seq(Commands) /\ stdin # <<>> /\ stdin' = Tail(stdin)
      BY DEF FileInv, TypeOK, Run
    <2> QED BY <1>1, <2>1, HeadTailProperties, LenProperties, ElementOfSeq, EmptySeq
  <1>3. 1 \in DOMAIN stdin /\ \A i \in 1 .. Len(stdin) - 1 : i + 1 \in DOMAIN stdin /\ i + 1 # 1
    BY <1>2
  <1>4. /\ cmd.kind # "console" => cmd.path \in Paths
        /\ cmd.kind = "mv" => cmd.to \in Paths
    BY <1>2, <1>3 DEF FileInv, Named
  <1>5. lines \in Seq(Lines)
    BY <1>1, <1>2, <1>4, OutputType DEF FileInv
  <1>6. UNCHANGED <<up, life, begun, sent>>
    BY DEF Run
  <1>7. /\ call' \in [Calls -> CallRecs]
        /\ \A c \in Calls :
              /\ call'[c].pc = call[c].pc /\ call'[c].op = call[c].op
              /\ call'[c].path = call[c].path /\ call'[c].to = call[c].to
              /\ call'[c].todo = call[c].todo /\ call'[c].life = call[c].life
              /\ call'[c].off = call[c].off /\ call'[c].got = call[c].got
              /\ call'[c].heard = IF Listening(c) THEN call[c].heard \o lines ELSE call[c].heard
              /\ ~Listening(c) => call'[c] = call[c]
    <2>1. call' = [c \in Calls |-> IF Listening(c)
                                   THEN [call[c] EXCEPT !.heard = call[c].heard \o lines]
                                   ELSE call[c]]
      BY <1>1 DEF Run
    <2>2. ASSUME NEW c \in Calls
          PROVE  /\ call[c] \in CallRecs
                 /\ [call[c] EXCEPT !.heard = call[c].heard \o lines] \in CallRecs
                 /\ LET x == [call[c] EXCEPT !.heard = call[c].heard \o lines]
                    IN  /\ x.pc = call[c].pc /\ x.op = call[c].op /\ x.path = call[c].path
                        /\ x.to = call[c].to /\ x.todo = call[c].todo
                        /\ x.life = call[c].life /\ x.off = call[c].off
                        /\ x.got = call[c].got /\ x.heard = call[c].heard \o lines
      <3>1. call[c] \in CallRecs
        BY DEF FileInv, TypeOK
      <3>2. PICK y : y = call[c].heard \o lines
        OBVIOUS
      <3>3. y \in Seq(Lines)
        BY <1>5, <3>1, <3>2, ConcatProperties DEF CallRecs
      <3>4. PICK x : x = [call[c] EXCEPT !.heard = y]
        OBVIOUS
      <3>5. /\ x \in CallRecs /\ x.pc = call[c].pc /\ x.op = call[c].op
            /\ x.path = call[c].path /\ x.to = call[c].to /\ x.todo = call[c].todo
            /\ x.life = call[c].life /\ x.off = call[c].off
            /\ x.got = call[c].got /\ x.heard = y
        BY <3>1, <3>3, <3>4 DEF CallRecs
      <3> QED BY <3>1, <3>2, <3>4, <3>5, Zenon
    <2>3. ASSUME NEW c \in Calls
          PROVE  /\ call'[c] \in CallRecs
                 /\ call'[c].pc = call[c].pc /\ call'[c].op = call[c].op
                 /\ call'[c].path = call[c].path /\ call'[c].to = call[c].to
                 /\ call'[c].todo = call[c].todo /\ call'[c].life = call[c].life
                 /\ call'[c].off = call[c].off /\ call'[c].got = call[c].got
                 /\ call'[c].heard = IF Listening(c) THEN call[c].heard \o lines
                                     ELSE call[c].heard
                 /\ ~Listening(c) => call'[c] = call[c]
      <3>1. CASE Listening(c)
        <4>1. call'[c] = [call[c] EXCEPT !.heard = call[c].heard \o lines]
          BY <2>1, <3>1, Zenon
        <4> QED BY <2>2, <3>1, <4>1, Zenon
      <3>2. CASE ~Listening(c)
        <4>1. call'[c] = call[c]
          BY <2>1, <3>2, Zenon
        <4> QED BY <2>2, <3>2, <4>1, Zenon
      <3> QED BY <3>1, <3>2
    <2>4. call' = [c \in Calls |-> call'[c]]
      BY <2>1, Zenon
    <2>5. call' \in [Calls -> CallRecs]
      BY <2>3, <2>4, Zenon
    <2> QED BY <2>3, <2>5, Zenon
  <1>8. /\ fs' \in [Paths -> Seq(Chunks) \cup {None}]
        /\ \A p \in Paths : ~Touches(cmd, p) => fs'[p] = fs[p]
        /\ cmd.kind = "append" => fs'[cmd.path] = Content(cmd.path) \o cmd.data
    <2>1. fs' = Effect(cmd)
      BY <1>1 DEF Run
    <2> QED BY <1>2, <1>4, <2>1, EffectIsTouch DEF FileInv
  <1>9. /\ mixed' \subseteq Calls /\ mixed \subseteq mixed'
        /\ \A c \in Calls : Listening(c) /\ c \notin mixed' => cmd.by = c \/ lines = <<>>
    BY <1>1 DEF Run, FileInv, TypeOK
  <1>10. TypeOK'
    BY <1>2, <1>6, <1>7, <1>8, <1>9 DEF FileInv, TypeOK
  <1>11. Named'
    <2>1. \A i \in DOMAIN stdin' : /\ stdin'[i].kind # "console" => stdin'[i].path \in Paths
                                   /\ stdin'[i].kind = "mv" => stdin'[i].to \in Paths
      BY <1>2, <1>3 DEF FileInv, Named
    <2> QED BY <1>6, <1>7, <2>1 DEF FileInv, Named
  <1>12. LineAwaited'
    <2>1. ASSUME NEW i \in DOMAIN stdin', NEW m, m = stdin'[i], m.by # None
          PROVE  /\ call'[m.by].pc = "listen" /\ up' /\ call'[m.by].life = life'
                 /\ m.kind = call'[m.by].op /\ m.path = call'[m.by].path
                 /\ m.off = call'[m.by].off
      <3>1. i + 1 \in DOMAIN stdin /\ m = stdin[i + 1] /\ m \in Commands
        BY <1>2, <1>3, <2>1, ElementOfSeq
      <3>2. m.by \in Calls
        BY <2>1, <3>1 DEF Commands
      <3> QED BY <1>6, <1>7, <2>1, <3>1, <3>2 DEF FileInv, LineAwaited, Attached
    <2>2. ASSUME NEW i \in DOMAIN stdin', NEW j \in DOMAIN stdin',
                 stdin'[i].by = stdin'[j].by, stdin'[i].by # None
          PROVE  i = j
      <3>1. i + 1 = j + 1
        BY <1>2, <1>3, <2>2 DEF FileInv, LineAwaited
      <3> QED BY <1>2, <3>1
    <2>3. up'
      BY <1>6 DEF Run
    <2> QED BY <2>1, <2>2, <2>3 DEF LineAwaited, Attached
  <1>13. OnItsFile'
    <2>1. \A c \in Calls : call[c].pc = "idle" => ~Listening(c)
      BY DEF Listening
    <2> QED BY <1>6, <1>7, <2>1 DEF FileInv, OnItsFile
  <1>14. Alone'
    <2>1. \A i \in DOMAIN stdin' : \E j \in DOMAIN stdin : stdin'[i] = stdin[j]
      BY <1>2, <1>3
    <2> QED BY <1>6, <1>7, <2>1 DEF FileInv, Alone, Touches
  <1>15. ASSUME NEW c \in Calls, call[c].op = "dd", sent[c].clean
         PROVE  /\ call[c].path \in Paths /\ fs'[call[c].path] = fs[call[c].path]
    <2>1. call[c].pc # "idle"
      BY <1>15 DEF FileInv, OnItsFile, Idle
    <2>2. sent[c].path = call[c].path /\ sent[c].path \in Paths
      BY <1>15, <2>1 DEF FileInv, OnItsFile, Alone
    <2>3. ~Touches(cmd, sent[c].path)
      BY <1>2, <1>3, <1>15 DEF FileInv, Alone
    <2> QED BY <1>8, <2>2, <2>3
  <1>16. PieceHeard'
    <2>1. ASSUME NEW c \in Calls, call[c].op = "dd", sent[c].clean, c \notin mixed'
          PROVE  LET x == call[c]
                 IN  /\ x.off <= Len(Content(x.path))
                     /\ \/ call'[c].heard = <<>>
                        \/ /\ x.pc = "listen" /\ call'[c].heard = Piece(Content(x.path), x.off)
                           /\ \A i \in DOMAIN stdin' : stdin'[i].by # c
      <3>1. PICK w, h : w = Piece(Content(call[c].path), call[c].off) /\ h = call[c].heard
        OBVIOUS
      <3>2. /\ call[c].off <= Len(Content(call[c].path))
            /\ \/ h = <<>>
               \/ call[c].pc = "listen" /\ h = w /\ \A i \in DOMAIN stdin : stdin[i].by # c
        BY <1>9, <2>1, <3>1 DEF FileInv, PieceHeard
      <3>3. h \in Seq(Lines)
        BY <3>1 DEF FileInv, TypeOK, CallRecs
      <3>4. CASE call'[c].heard = h
        <4>1. (\A i \in DOMAIN stdin : stdin[i].by # c) => \A i \in DOMAIN stdin' : stdin'[i].by # c
          BY <1>2, <1>3
        <4> QED BY <3>1, <3>2, <3>4, <4>1
      <3>5. CASE Listening(c) /\ lines = <<>>
        <4>1. h \o <<>> = h
          BY <3>3, ConcatEmptySeq
        <4>2. call'[c].heard = h
          BY <1>7, <3>1, <3>5, <4>1, Zenon
        <4> QED BY <3>4, <4>2
      <3>6. CASE Listening(c) /\ cmd.by = c
        <4>1. h = <<>>
          BY <1>2, <1>3, <3>2, <3>6
        <4>2. h \o lines = lines
          BY <1>5, <4>1, ConcatEmptySeq
        <4>3. call'[c].heard = lines
          <5>1. call'[c].heard = call[c].heard \o lines
            BY <1>7, <3>6, Zenon
          <5> QED BY <3>1, <4>2, <5>1, Zenon
        <4>4. c # None
          OBVIOUS
        <4>5. /\ call[c].pc = "listen" /\ cmd.kind = "dd" /\ cmd.path = call[c].path
              /\ cmd.off = call[c].off
          BY <1>2, <1>3, <2>1, <3>6, <4>4 DEF FileInv, LineAwaited
        <4>6. lines = w
          BY <1>1, <3>1, <4>5, OutputOfDd
        <4>7. \A i \in DOMAIN stdin' : stdin'[i].by # c
          <5>1. ASSUME NEW i \in DOMAIN stdin', stdin'[i].by = c PROVE FALSE
            <6>1. i + 1 \in DOMAIN stdin /\ stdin[i + 1].by = c /\ i + 1 # 1 /\ 1 \in DOMAIN stdin
              BY <1>2, <1>3, <5>1
            <6>2. stdin[1].by = c
              BY <1>2, <3>6
            <6> QED BY <4>4, <6>1, <6>2 DEF FileInv, LineAwaited
          <5> QED BY <5>1
        <4> QED BY <3>1, <3>2, <4>3, <4>5, <4>6, <4>7
      <3> QED BY <1>7, <1>9, <2>1, <3>1, <3>4, <3>5, <3>6
    <2>2. \A c \in Calls : call[c].op = "dd" /\ sent[c].clean =>
             Content(call[c].path)' = Content(call[c].path)
      BY <1>7, <1>15 DEF Content
    <2> QED BY <1>6, <1>7, <2>1, <2>2 DEF PieceHeard, Piece
  <1>17. DownloadPrefix'
    <2>1. \A c \in Calls : call[c].op = "dd" /\ sent[c].clean =>
             Content(call[c].path)' = Content(call[c].path)
      BY <1>7, <1>15 DEF Content
    <2> QED BY <1>6, <1>7, <1>9, <2>1 DEF FileInv, DownloadPrefix
  <1>18. UploadConserved'
    <2> SUFFICES ASSUME NEW c \in Calls, sent[c].clean
                 PROVE  (Content(sent[c].path) \o Queued(sent[c].path) \o sent[c].left
                            = sent[c].base \o sent[c].chunks)'
      BY <1>6 DEF UploadConserved
    <2>1. PICK p, w, g, k, r : /\ p = sent[c].path /\ w = Content(p) /\ g = Queued(p)'
                               /\ k = Adds(cmd, p) /\ r = sent[c].left
      OBVIOUS
    <2>2. p \in Paths /\ (Touches(cmd, p) => cmd.kind = "append")
      BY <1>2, <1>3, <2>1 DEF FileInv, Alone
    <2>3. w \in Seq(Chunks) /\ g \in Seq(Chunks) /\ k \in Seq(Chunks) /\ r \in Seq(Chunks)
      <3>1. sent[c] \in Files
        BY DEF FileInv, TypeOK
      <3>2. k \in Seq(Chunks) /\ w \in Seq(Chunks) /\ r \in Seq(Chunks)
        BY <1>2, <2>1, <2>2, <3>1, AddsType, ContentType DEF FileInv, Files
      <3>3. g \in Seq(Chunks)
        BY <1>2, <2>1, QueuedTail DEF FileInv
      <3> QED BY <3>2, <3>3
    <2>4. Queued(p) = k \o g
      BY <1>1, <1>2, <2>1, QueuedTail DEF FileInv
    <2>5. w \o (k \o g) \o r = sent[c].base \o sent[c].chunks
      BY <2>1, <2>4 DEF FileInv, UploadConserved
    <2>6. Content(p)' = w \o k
      <3>1. CASE Touches(cmd, p)
        <4>1. cmd.kind = "append" /\ cmd.path = p
          BY <2>2, <3>1 DEF Touches, Writes
        <4>2. fs'[p] = w \o k
          BY <1>8, <2>1, <4>1 DEF Adds
        <4>3. w \o k # None
          BY <2>3, ConcatProperties
        <4> QED BY <4>2, <4>3 DEF Content
      <3>2. CASE ~Touches(cmd, p)
        <4>1. k = <<>>
          BY <2>1, <3>2 DEF Adds, Touches, Writes
        <4>2. fs'[p] = fs[p]
          BY <1>8, <2>2, <3>2
        <4>3. w \o <<>> = w
          BY <2>3, ConcatEmptySeq
        <4> QED BY <2>1, <4>1, <4>2, <4>3 DEF Content
      <3> QED BY <3>1, <3>2
    <2>7. w \o (k \o g) \o r = (w \o k) \o g \o r
      <3>1. Join(w, Join(k, g)) = Join(Join(w, k), g)
        BY <2>3, JoinAssociative
      <3>2. Join(Join(w, Join(k, g)), r) = Join(Join(Join(w, k), g), r)
        BY <3>1
      <3> QED BY <3>2, Zenon DEF Join
    <2> QED BY <1>6, <2>1, <2>5, <2>6, <2>7
  <1> QED BY <1>10, <1>11, <1>12, <1>13, <1>14, <1>16, <1>17, <1>18 DEF FileInv

-----------------------------------------------------------------------------
(* Every step of a call or of the container.                               *)

LEMMA FileInit ==
  ASSUME Init
  PROVE  FileInv
  <1>1. <<>> \in Seq(Chunks) /\ <<>> \in Seq(Lines) /\ <<>> \in Seq(Commands)
    OBVIOUS
  <1>2. Idle \in CallRecs /\ NoFile \in Files
    BY <1>1 DEF Idle, NoFile, CallRecs, Files, Names
  <1>3. /\ up = TRUE /\ life = 1 /\ begun = 0 /\ mixed = {}
        /\ stdin = <<>> /\ DOMAIN stdin = {}
        /\ call \in [Calls -> CallRecs] /\ \A c \in Calls : call[c] = Idle
        /\ sent \in [Calls -> Files] /\ \A c \in Calls : sent[c] = NoFile
    BY <1>2 DEF Init
  <1>4. Idle.pc = "idle" /\ Idle.op = "none" /\ Idle.life = 0 /\ ~NoFile.clean
    BY DEF Idle, NoFile
  <1>5. TypeOK
    BY <1>1, <1>3 DEF TypeOK, Init
  <1>6. Named /\ LineAwaited
    BY <1>3, <1>4 DEF Named, LineAwaited
  <1>7. OnItsFile /\ Alone
    BY <1>3, <1>4 DEF OnItsFile, Alone
  <1>8. PieceHeard /\ UploadConserved /\ DownloadPrefix
    BY <1>3, <1>4 DEF PieceHeard, UploadConserved, DownloadPrefix
  <1> QED BY <1>5, <1>6, <1>7, <1>8 DEF FileInv

LEMMA ClientKeeps ==
  ASSUME FileInv, NEW c \in Calls, Client(c) \/ Begin(c, "console", None, None, <<>>)
  PROVE  FileInv'
  <1>1. <<>> \in Seq(Chunks) /\ None \in Names /\ Paths \subseteq Names
    BY DEF Names
  <1>2. \A data \in Uploads : data \in Seq(Chunks) /\ data # <<>>
    OBVIOUS
  <1>3. {"write", "append", "rm", "cat", "dd", "mv", "console"} \subseteq Ops
    BY DEF Ops, Writes, Asks
  <1>4. CASE Begin(c, "console", None, None, <<>>)
    BY <1>1, <1>3, <1>4, BeginKeeps
  <1>5. ASSUME NEW p \in Paths, NEW data \in Uploads, NEW op \in {"write", "append"},
               Begin(c, op, p, None, data)
        PROVE  FileInv'
    <2>1. op \in Ops /\ p \in Names /\ op # "mv" /\ op # "dd"
      BY <1>1, <1>3
    <2> QED BY <1>1, <1>2, <1>5, <2>1, BeginKeeps
  <1>6. ASSUME NEW p \in Paths, NEW op \in {"rm", "cat", "dd"}, Begin(c, op, p, None, <<>>)
        PROVE  FileInv'
    <2>1. op \in Ops /\ p \in Names /\ op # "mv" /\ op # "append"
      BY <1>1, <1>3
    <2> QED BY <1>1, <1>6, <2>1, BeginKeeps
  <1>7. ASSUME NEW p \in Paths, NEW q \in Paths, Begin(c, "mv", p, q, <<>>)
        PROVE  FileInv'
    BY <1>1, <1>3, <1>7, BeginKeeps
  <1> QED BY <1>4, <1>5, <1>6, <1>7 DEF Client

LEMMA FileStepKeeps ==
  ASSUME FileInv, FileStep
  PROVE  FileInv'
  <1>1. ASSUME NEW c \in Calls, WriteFails(c) PROVE FileInv'
    BY <1>1, FinishKeeps DEF WriteFails
  <1>2. ASSUME NEW c \in Calls, Hangup(c) PROVE FileInv'
    BY <1>2, FinishKeeps DEF Hangup
  <1>3. ASSUME NEW c \in Calls, Handler(c) PROVE FileInv'
    BY <1>1, <1>2, <1>3, AttachKeeps, WriteKeeps, NextChunkKeeps, DropKeeps DEF Handler
  <1>4. ASSUME Container PROVE FileInv'
    BY <1>4, RunKeeps, StopKeeps, StartKeeps DEF Container
  <1> QED BY <1>3, <1>4, ClientKeeps DEF FileStep

LEMMA FileStutters ==
  ASSUME FileInv, UNCHANGED vars
  PROVE  FileInv'
  <1> USE DEF vars, FileInv
  <1>1. TypeOK' /\ Named'
    BY DEF TypeOK, Named
  <1>2. LineAwaited' /\ OnItsFile'
    BY DEF LineAwaited, OnItsFile, Attached
  <1>3. Alone'
    BY DEF Alone, Touches
  <1>4. PieceHeard' /\ DownloadPrefix'
    BY DEF PieceHeard, DownloadPrefix, Content
  <1>5. UploadConserved'
    BY DEF UploadConserved, Content, Queued, Appended
  <1> QED BY <1>1, <1>2, <1>3, <1>4, <1>5

-----------------------------------------------------------------------------
(* What is told of a log.                                                  *)

USE CapOK

\* x may be the record of a stream: what LogInv asks of one.
Streaming(x) ==
    /\ x \in StreamRecs
    /\ x.pos <= printed /\ x.atOpen <= printed /\ x.life <= life /\ Len(x.chan) <= Cap
    /\ x.hand = IF x.pc = "send" THEN <<x.pos>> ELSE IF x.pc = "sendErr" THEN <<Err>> ELSE <<>>
    /\ x.rx => \/ Join(Join(x.got, x.chan), x.hand) = Beginning(x.pos)
               \/ /\ Join(Join(x.got, x.chan), x.hand) = Join(Beginning(x.pos), <<Err>>)
                  /\ x.pc \in {"sendErr", "done"}
    /\ x.pc = "done" /\ x.rx =>
          \/ Join(x.got, x.chan) = Join(Beginning(x.pos), <<Err>>)
          \/ x.pos >= x.atOpen /\ (x.follow => ~up \/ life # x.life)
    /\ \/ x.late = 0
       \/ x.late = 1 /\ ~x.rx /\ x.pc \in {"send", "done"}

LEMMA LogOfStreams ==
  LogInv <=> /\ TypeOK /\ printed \in Nat /\ log \in [Streams -> StreamRecs]
             /\ \A s \in Streams : Streaming(log[s])
  <1>1. ASSUME LogInv
        PROVE  /\ TypeOK /\ printed \in Nat /\ log \in [Streams -> StreamRecs]
               /\ \A s \in Streams : Streaming(log[s])
    <2>1. TypeOK /\ printed \in Nat /\ log \in [Streams -> StreamRecs]
      BY <1>1 DEF LogInv, NodeTypeOK
    <2>2. ASSUME NEW s \in Streams PROVE Streaming(log[s])
      BY <1>1, <2>1, Zenon DEF LogInv, NodeTypeOK, InHand, LogInOrder, EndedWhole, LateIsLast,
                               Streaming, Join
    <2> QED BY <2>1, <2>2
  <1>2. ASSUME TypeOK, printed \in Nat, log \in [Streams -> StreamRecs],
               \A s \in Streams : Streaming(log[s])
        PROVE  LogInv
    <2>1. NodeTypeOK /\ InHand /\ LateIsLast
      BY <1>2, Zenon DEF NodeTypeOK, InHand, LateIsLast, Streaming
    <2>2. LogInOrder
      BY <1>2, Zenon DEF LogInOrder, Streaming, Join
    <2>3. EndedWhole
      BY <1>2, Zenon DEF EndedWhole, Streaming, Join
    <2> QED BY <2>1, <2>2, <2>3 DEF LogInv
  <1> QED BY <1>1, <1>2

LEMMA StreamsLater ==
  ASSUME TypeOK', printed' \in Nat, log' \in [Streams -> StreamRecs],
         \A s \in Streams : Streaming(log[s])'
  PROVE  LogInv'
  <1>1. (NodeTypeOK /\ InHand /\ LateIsLast)'
    BY Zenon DEF NodeTypeOK, InHand, LateIsLast, Streaming
  <1>2. LogInOrder'
    BY Zenon DEF LogInOrder, Streaming, Join
  <1>3. EndedWhole'
    BY Zenon DEF EndedWhole, Streaming, Join
  <1> QED BY <1>1, <1>2, <1>3 DEF LogInv

LEMMA JoinEmpty ==
  ASSUME NEW T, NEW a \in Seq(T)
  PROVE  Join(a, <<>>) = a /\ Join(<<>>, a) = a
  BY ConcatEmptySeq DEF Join

\* A message taken from one sequence to the end of another.
LEMMA JoinMove ==
  ASSUME NEW T, NEW a \in Seq(T), NEW c \in Seq(T), c # <<>>
  PROVE  /\ Append(a, Head(c)) \in Seq(T) /\ Tail(c) \in Seq(T)
         /\ Len(c) \in Nat /\ Len(Tail(c)) = Len(c) - 1
         /\ Join(Append(a, Head(c)), Tail(c)) = Join(a, c)
  <1>1. PICK h, t, o, u : h = Head(c) /\ t = Tail(c) /\ o = <<h>> /\ u = o \o t
    OBVIOUS
  <1>2. /\ h \in T /\ t \in Seq(T) /\ Len(c) \in Nat \ {0} /\ Len(t) = Len(c) - 1 /\ h = c[1]
        /\ \A i \in 1 .. Len(t) : t[i] = c[i + 1]
    BY <1>1, HeadTailProperties, LenProperties, EmptySeq
  <1>3. Append(a, h) \in Seq(T) /\ Append(a, h) = a \o o
    BY <1>1, <1>2, AppendProperties, AppendIsConcat
  <1>4. o \in Seq(T) /\ Len(o) = 1 /\ o[1] = h
    BY <1>1, <1>2
  <1>5. o \o t = c
    <2>1. /\ u \in Seq(T) /\ Len(u) = Len(c) /\ u[1] = h
          /\ \A i \in 2 .. Len(c) : u[i] = t[i - 1]
      BY <1>1, <1>2, <1>4, ConcatProperties
    <2>2. \A i \in 1 .. Len(c) : u[i] = c[i]
      BY <1>2, <2>1
    <2>3. u = c
      BY <2>1, <2>2, SeqEqual
    <2> QED BY <1>1, <2>3
  <1>6. Join(Join(a, o), t) = Join(a, Join(o, t))
    BY <1>2, <1>4, JoinAssociative
  <1>7. Join(Append(a, h), t) = Join(a, c)
    BY <1>3, <1>5, <1>6, Zenon DEF Join
  <1> QED BY <1>1, <1>2, <1>3, <1>7

LEMMA BeginningIs ==
  ASSUME NEW k \in Nat
  PROVE  /\ Beginning(k) \in Seq(Nat) /\ Len(Beginning(k)) = k
         /\ Join(Beginning(k), <<k + 1>>) = Beginning(k + 1)
         /\ Beginning(0) = <<>>
  <1>1. Beginning(k) \in Seq(Nat) /\ Len(Beginning(k)) = k /\ Beginning(0) = <<>>
    BY DEF Beginning
  <1>2. Beginning(k) \o <<k + 1>> = Beginning(k + 1)
    BY DEF Beginning
  <1> QED BY <1>1, <1>2, Zenon DEF Join

\* No error is among what was printed.
LEMMA NoError ==
  ASSUME NEW t \in Seq(Nat), NEW k \in Nat
  PROVE  Join(t, <<Err>>) # Beginning(k)
  <1>1. PICK u : u = Append(t, Err)
    OBVIOUS
  <1>2. Len(u) = Len(t) + 1 /\ u[Len(t) + 1] = 0 /\ Len(t) \in Nat
    BY <1>1, AppendProperties, LenProperties DEF Err
  <1>3. ASSUME u = Beginning(k) PROVE FALSE
    <2>1. Len(u) = k /\ \A i \in 1 .. k : u[i] = i
      BY <1>3 DEF Beginning
    <2> QED BY <1>2, <2>1
  <1>4. u = Join(t, <<Err>>)
    BY <1>1, AppendIsConcat DEF Join, Err
  <1> QED BY <1>3, <1>4

LEMMA StreamMoves ==
  ASSUME IInv, NEW s \in Streams, NEW r, Streaming(r), Set(s, r)
  PROVE  IInv'
  <1>1. FileInv'
    BY FileStutters DEF IInv, Set
  <1>2. TypeOK' /\ printed' \in Nat /\ UNCHANGED <<up, life, printed>>
    <2>1. TypeOK'
      BY <1>1 DEF FileInv
    <2>2. printed \in Nat
      BY LogOfStreams DEF IInv
    <2> QED BY <2>1, <2>2 DEF Set, vars
  <1>3. log' \in [Streams -> StreamRecs] /\ log'[s] = r /\ \A u \in Streams : u # s => log'[u] = log[u]
    BY LogOfStreams DEF IInv, Set, Streaming
  <1>4. \A u \in Streams : Streaming(log[u])
    BY LogOfStreams DEF IInv
  <1>5. ASSUME NEW u \in Streams PROVE Streaming(log[u])'
    <2>1. PICK x : x = log'[u] /\ Streaming(x)
      BY <1>3, <1>4
    <2>2. Streaming(x)'
      BY <1>2, <2>1 DEF Streaming
    <2> QED BY <2>1, <2>2
  <1>6. LogInv'
    BY <1>2, <1>3, <1>5, StreamsLater
  <1> QED BY <1>1, <1>6 DEF IInv

LEMMA OpenKeeps ==
  ASSUME IInv, NEW s \in Streams, NEW follow \in BOOLEAN, Open(s, follow)
  PROVE  IInv'
  <1>1. PICK n, k, r : /\ n = life /\ k = printed
                       /\ r = [Closed EXCEPT !.pc = "next", !.follow = follow, !.rx = TRUE,
                                             !.life = n, !.atOpen = k]
    OBVIOUS
  <1>2. life \in Nat /\ printed \in Nat
    BY LogOfStreams DEF IInv, TypeOK
  <1>a. /\ Closed \in StreamRecs /\ Closed.pos = 0 /\ Closed.hand = <<>> /\ Closed.chan = <<>>
        /\ Closed.got = <<>> /\ Closed.late = 0
    BY EmptySeq DEF Closed, StreamRecs
  <1>3. /\ r \in StreamRecs /\ r.pc = "next" /\ r.rx = TRUE /\ r.life = life
        /\ r.atOpen = printed /\ r.pos = 0 /\ r.hand = <<>> /\ r.chan = <<>> /\ r.got = <<>>
        /\ r.late = 0
    BY <1>1, <1>2, <1>a DEF StreamRecs
  <1>4. Join(Join(r.got, r.chan), r.hand) = Beginning(r.pos)
    <2>1. <<>> \in Seq(Nat) /\ Beginning(0) = <<>>
      BY BeginningIs
    <2>2. Join(<<>>, <<>>) = <<>>
      BY <2>1, JoinEmpty
    <2> QED BY <1>3, <2>1, <2>2
  <1>5. Streaming(r)
    BY <1>2, <1>3, <1>4 DEF Streaming
  <1> QED BY <1>1, <1>5, StreamMoves DEF Open

LEMMA Next1Keeps ==
  ASSUME IInv, NEW s \in Streams, Next1(s)
  PROVE  IInv'
  <1>1. PICK x : x = log[s] /\ Streaming(x) /\ x \in StreamRecs
    BY LogOfStreams DEF IInv
  <1>2. x.pc = "next" /\ x.pos < printed /\ printed \in Nat /\ x.late = 0 /\ x.pos \in Nat
    BY <1>1, LogOfStreams DEF IInv, Next1, Unread, Streaming, StreamRecs
  <1>3. PICK k, h, l, r : /\ k = x.pos + 1 /\ h = <<k>> /\ l = IF x.rx THEN x.late ELSE x.late + 1
                          /\ r = [x EXCEPT !.pc = "send", !.pos = k, !.hand = h, !.late = l]
    OBVIOUS
  <1>4. k \in Nat /\ h \in Seq(Nat) /\ l \in Nat
    BY <1>1, <1>2, <1>3 DEF StreamRecs
  <1>5. /\ r \in StreamRecs /\ r.pc = "send" /\ r.pos = k /\ r.hand = h /\ r.late = l
        /\ r.rx = x.rx /\ r.life = x.life /\ r.atOpen = x.atOpen /\ r.got = x.got
        /\ r.chan = x.chan
    BY <1>1, <1>3, <1>4 DEF StreamRecs
  <1>6. ASSUME x.rx PROVE Join(Join(r.got, r.chan), r.hand) = Beginning(r.pos)
    <2>1. x.got \in Seq(Nat) /\ x.chan \in Seq(Nat) /\ Join(x.got, x.chan) \in Seq(Nat)
      BY <1>1, JoinAssociative DEF StreamRecs
    <2>2. x.hand = <<>> /\ Join(Join(x.got, x.chan), x.hand) = Beginning(x.pos)
      BY <1>1, <1>2, <1>6 DEF Streaming
    <2>3. Join(x.got, x.chan) = Beginning(x.pos)
      BY <2>1, <2>2, JoinEmpty
    <2>4. Join(Beginning(x.pos), <<x.pos + 1>>) = Beginning(x.pos + 1)
      BY <1>2, BeginningIs
    <2> QED BY <1>3, <1>5, <2>3, <2>4, Zenon
  <1>7. Streaming(r)
    <2>1. r.pos <= printed
      BY <1>2, <1>3, <1>5
    <2>2. r.late = 0 \/ (r.late = 1 /\ ~r.rx)
      BY <1>2, <1>3, <1>5
    <2> QED BY <1>1, <1>3, <1>5, <1>6, <2>1, <2>2 DEF Streaming
  <1>8. Set(s, r)
    <2>1. log' = [log EXCEPT ![s] = r]
      BY <1>1, <1>2, <1>3 DEF Next1, Set
    <2> QED BY <2>1 DEF Next1, Set
  <1> QED BY <1>7, <1>8, StreamMoves

LEMMA NextFailsKeeps ==
  ASSUME IInv, NEW s \in Streams, NextFails(s)
  PROVE  IInv'
  <1>1. PICK x : x = log[s] /\ Streaming(x) /\ x \in StreamRecs
    BY LogOfStreams DEF IInv
  <1>2. x.pc = "next" /\ x.hand = <<>> /\ x.late = 0 /\ x.pos \in Nat
    BY <1>1 DEF NextFails, Streaming, StreamRecs
  <1>3. PICK h, r : h = <<Err>> /\ r = [x EXCEPT !.pc = "sendErr", !.hand = h]
    OBVIOUS
  <1>4. h \in Seq(Nat)
    BY <1>3 DEF Err
  <1>5. /\ r \in StreamRecs /\ r.pc = "sendErr" /\ r.pos = x.pos /\ r.hand = h
        /\ r.late = x.late /\ r.rx = x.rx /\ r.life = x.life /\ r.atOpen = x.atOpen
        /\ r.got = x.got /\ r.chan = x.chan
    BY <1>1, <1>3, <1>4 DEF StreamRecs
  <1>6. ASSUME x.rx PROVE Join(Join(r.got, r.chan), r.hand) = Join(Beginning(r.pos), <<Err>>)
    <2>1. Join(x.got, x.chan) \in Seq(Nat)
      BY <1>1, JoinAssociative DEF StreamRecs
    <2>2. Join(Join(x.got, x.chan), x.hand) = Beginning(x.pos)
      BY <1>1, <1>2, <1>6 DEF Streaming
    <2>3. Join(x.got, x.chan) = Beginning(x.pos)
      BY <1>2, <2>1, <2>2, JoinEmpty
    <2> QED BY <1>3, <1>5, <2>3, Zenon
  <1>7. Streaming(r)
    BY <1>1, <1>2, <1>3, <1>5, <1>6 DEF Streaming
  <1>8. Set(s, r)
    <2>1. log' = [log EXCEPT ![s] = r]
      BY <1>1, <1>3 DEF NextFails, Set
    <2> QED BY <2>1 DEF NextFails, Set
  <1> QED BY <1>7, <1>8, StreamMoves

LEMMA NextEndsKeeps ==
  ASSUME IInv, NEW s \in Streams, NextEnds(s)
  PROVE  IInv'
  <1>1. PICK x : x = log[s] /\ Streaming(x) /\ x \in StreamRecs
    BY LogOfStreams DEF IInv
  <1>2. x.pc = "next" /\ x.hand = <<>> /\ x.late = 0
    BY <1>1 DEF NextEnds, Streaming
  <1>3. x.pos >= x.atOpen /\ (x.follow => ~up \/ life # x.life)
    <2>1. printed \in Nat /\ ~(x.pos < printed) /\ (x.follow => ~up \/ life # x.life)
      BY <1>1, LogOfStreams DEF IInv, NextEnds, Unread
    <2> QED BY <1>1, <2>1 DEF Streaming, StreamRecs
  <1>4. PICK r : r = [x EXCEPT !.pc = "done"]
    OBVIOUS
  <1>5. /\ r \in StreamRecs /\ r.pc = "done" /\ r.pos = x.pos /\ r.hand = x.hand
        /\ r.late = x.late /\ r.rx = x.rx /\ r.life = x.life /\ r.atOpen = x.atOpen
        /\ r.got = x.got /\ r.chan = x.chan /\ r.follow = x.follow
    BY <1>1, <1>4 DEF StreamRecs
  <1>6. Streaming(r)
    BY <1>1, <1>2, <1>3, <1>5 DEF Streaming
  <1>7. Set(s, r)
    BY <1>1, <1>4 DEF NextEnds, Set
  <1> QED BY <1>6, <1>7, StreamMoves

LEMMA SendKeeps ==
  ASSUME IInv, NEW s \in Streams, Send(s)
  PROVE  IInv'
  <1>1. PICK x : x = log[s] /\ Streaming(x) /\ x \in StreamRecs
    BY LogOfStreams DEF IInv
  <1>2. /\ x.pc \in {"send", "sendErr"} /\ x.rx /\ Len(x.chan) < Cap /\ x.late = 0
        /\ x.got \in Seq(Nat) /\ x.chan \in Seq(Nat) /\ x.hand \in Seq(Nat) /\ x.pos \in Nat
    BY <1>1 DEF Send, Streaming, StreamRecs
  <1>3. PICK a, z, k, r : /\ a = After(x) /\ z = <<>> /\ k = Join(x.chan, x.hand)
                          /\ r = [x EXCEPT !.pc = a, !.hand = z, !.chan = k]
    OBVIOUS
  <1>4. z \in Seq(Nat) /\ k \in Seq(Nat) /\ a = IF x.pc = "sendErr" THEN "done" ELSE "next"
    <2>1. k \in Seq(Nat)
      BY <1>2, <1>3, JoinAssociative
    <2> QED BY <1>3, <2>1 DEF After
  <1>5. /\ r \in StreamRecs /\ r.pc = a /\ r.pos = x.pos /\ r.hand = z
        /\ r.late = x.late /\ r.rx = x.rx /\ r.life = x.life /\ r.atOpen = x.atOpen
        /\ r.got = x.got /\ r.chan = k /\ r.follow = x.follow
    BY <1>1, <1>3, <1>4 DEF StreamRecs
  <1>6. Len(k) <= Cap
    <2>1. Len(x.hand) = 1 /\ Len(x.chan) \in Nat
      BY <1>1, <1>2, LenProperties DEF Streaming
    <2>2. Len(k) = Len(x.chan) + Len(x.hand)
      BY <1>2, <1>3, ConcatProperties DEF Join
    <2> QED BY <1>2, <2>1, <2>2
  <1>7. Join(r.got, r.chan) = Join(Join(x.got, x.chan), x.hand)
    <2>1. PICK g, c, h : g = x.got /\ c = x.chan /\ h = x.hand
      OBVIOUS
    <2>2. g \in Seq(Nat) /\ c \in Seq(Nat) /\ h \in Seq(Nat)
      BY <1>2, <2>1
    <2>3. Join(Join(g, c), h) = Join(g, Join(c, h))
      BY <2>2, JoinAssociative
    <2> QED BY <1>3, <1>5, <2>1, <2>3
  <1>8. Join(Join(r.got, r.chan), r.hand) = Join(Join(x.got, x.chan), x.hand)
    <2>1. Join(x.got, k) \in Seq(Nat)
      BY <1>2, <1>4, JoinAssociative
    <2>2. Join(Join(x.got, k), <<>>) = Join(x.got, k)
      BY <2>1, JoinEmpty
    <2> QED BY <1>3, <1>5, <1>7, <2>2
  <1>9. /\ r.pos <= printed /\ r.atOpen <= printed /\ r.life <= life /\ Len(r.chan) <= Cap
        /\ r.hand = <<>> /\ r.pc \in {"next", "done"} /\ r.late = 0
    BY <1>1, <1>2, <1>3, <1>4, <1>5, <1>6 DEF Streaming
  <1>10. ASSUME x.pc = "send" PROVE Streaming(r)
    <2>1. r.pc = "next" /\ Join(Join(x.got, x.chan), x.hand) = Beginning(x.pos)
      BY <1>1, <1>2, <1>4, <1>5, <1>10 DEF Streaming
    <2>2. Join(Join(r.got, r.chan), r.hand) = Beginning(r.pos)
      BY <1>5, <1>8, <2>1
    <2> QED BY <1>5, <1>9, <2>1, <2>2 DEF Streaming
  <1>11. ASSUME x.pc = "sendErr" PROVE Streaming(r)
    <2>1. r.pc = "done" /\ x.hand = <<Err>>
      BY <1>1, <1>4, <1>5, <1>11 DEF Streaming
    <2>2. Join(x.got, x.chan) \in Seq(Nat)
      BY <1>2, JoinAssociative
    <2>3. Join(Join(x.got, x.chan), x.hand) # Beginning(x.pos)
      BY <1>2, <2>1, <2>2, NoError
    <2>4. Join(Join(x.got, x.chan), x.hand) = Join(Beginning(x.pos), <<Err>>)
      BY <1>1, <1>2, <2>3 DEF Streaming
    <2>5. /\ Join(Join(r.got, r.chan), r.hand) = Join(Beginning(r.pos), <<Err>>)
          /\ Join(r.got, r.chan) = Join(Beginning(r.pos), <<Err>>)
      BY <1>5, <1>7, <1>8, <2>4
    <2> QED BY <1>5, <1>9, <2>1, <2>5 DEF Streaming
  <1>12. Set(s, r)
    <2>1. Set(s, [log[s] EXCEPT !.pc = After(log[s]), !.hand = <<>>,
                                !.chan = log[s].chan \o log[s].hand])
      BY Zenon DEF Send
    <2>2. r = [x EXCEPT !.pc = After(x), !.hand = <<>>, !.chan = x.chan \o x.hand]
      BY <1>3, Zenon DEF Join
    <2> QED BY <1>1, <2>1, <2>2, Zenon
  <1> QED BY <1>2, <1>10, <1>11, <1>12, StreamMoves

LEMMA SendFailsKeeps ==
  ASSUME IInv, NEW s \in Streams, SendFails(s)
  PROVE  IInv'
  <1>1. PICK x : x = log[s] /\ Streaming(x) /\ x \in StreamRecs
    BY LogOfStreams DEF IInv
  <1>2. x.pc \in {"send", "sendErr"} /\ ~x.rx
    BY <1>1 DEF SendFails
  <1>3. PICK z, r : z = <<>> /\ r = [x EXCEPT !.pc = "done", !.hand = z]
    OBVIOUS
  <1>4. z \in Seq(Nat)
    BY <1>3
  <1>5. /\ r \in StreamRecs /\ r.pc = "done" /\ r.pos = x.pos /\ r.hand = z
        /\ r.late = x.late /\ r.rx = x.rx /\ r.life = x.life /\ r.atOpen = x.atOpen
        /\ r.chan = x.chan
    BY <1>1, <1>3, <1>4 DEF StreamRecs
  <1>6. Streaming(r)
    BY <1>1, <1>2, <1>3, <1>5 DEF Streaming
  <1>7. Set(s, r)
    BY <1>1, <1>3 DEF SendFails, Set
  <1> QED BY <1>6, <1>7, StreamMoves

LEMMA DeliverKeeps ==
  ASSUME IInv, NEW s \in Streams, Deliver(s)
  PROVE  IInv'
  <1>1. PICK x : x = log[s] /\ Streaming(x) /\ x \in StreamRecs
    BY LogOfStreams DEF IInv
  <1>2. /\ x.rx /\ x.chan # <<>> /\ Len(x.chan) <= Cap
        /\ x.got \in Seq(Nat) /\ x.chan \in Seq(Nat)
    BY <1>1 DEF Deliver, Streaming, StreamRecs
  <1>3. PICK g, k, r : /\ g = Append(x.got, Head(x.chan)) /\ k = Tail(x.chan)
                       /\ r = [x EXCEPT !.got = g, !.chan = k]
    OBVIOUS
  <1>4. /\ g \in Seq(Nat) /\ k \in Seq(Nat) /\ Len(k) <= Cap /\ Join(g, k) = Join(x.got, x.chan)
    BY <1>2, <1>3, JoinMove
  <1>5. /\ r \in StreamRecs /\ r.pc = x.pc /\ r.pos = x.pos /\ r.hand = x.hand
        /\ r.late = x.late /\ r.rx = x.rx /\ r.life = x.life /\ r.atOpen = x.atOpen
        /\ r.got = g /\ r.chan = k /\ r.follow = x.follow
    BY <1>1, <1>3, <1>4 DEF StreamRecs
  <1>6. Streaming(r)
    BY <1>1, <1>2, <1>4, <1>5 DEF Streaming
  <1>7. Set(s, r)
    <2>1. Set(s, [log[s] EXCEPT !.got = Append(log[s].got, Head(log[s].chan)),
                                !.chan = Tail(log[s].chan)])
      BY Zenon DEF Deliver
    <2> QED BY <1>1, <1>3, <2>1, Zenon
  <1> QED BY <1>6, <1>7, StreamMoves

LEMMA GoneKeeps ==
  ASSUME IInv, NEW s \in Streams, Gone(s)
  PROVE  IInv'
  <1>1. PICK x : x = log[s] /\ Streaming(x) /\ x \in StreamRecs
    BY LogOfStreams DEF IInv
  <1>2. x.rx
    BY <1>1 DEF Gone
  <1>3. PICK z, r : z = <<>> /\ r = [x EXCEPT !.rx = FALSE, !.chan = z]
    OBVIOUS
  <1>4. z \in Seq(Nat) /\ Len(z) <= Cap
    BY <1>3
  <1>5. /\ r \in StreamRecs /\ r.pc = x.pc /\ r.pos = x.pos /\ r.hand = x.hand
        /\ r.late = x.late /\ r.rx = FALSE /\ r.life = x.life /\ r.atOpen = x.atOpen
        /\ r.chan = z
    BY <1>1, <1>3, <1>4 DEF StreamRecs
  <1>6. Streaming(r)
    BY <1>1, <1>2, <1>4, <1>5 DEF Streaming
  <1>7. Set(s, r)
    BY <1>1, <1>3 DEF Gone, Set
  <1> QED BY <1>6, <1>7, StreamMoves

LEMMA DeathKeeps ==
  ASSUME IInv, NodeDies
  PROVE  IInv'
  <1>1. FileInv' /\ TypeOK'
    BY NodeDiesKeeps DEF IInv, FileInv
  <1>2. /\ printed' \in Nat /\ UNCHANGED <<up, life, printed>>
        /\ \A s \in Streams : Streaming(log[s]) /\ log[s] \in StreamRecs
    BY LogOfStreams DEF IInv, NodeDies
  <1>3. ASSUME NEW s \in Streams
        PROVE  log'[s] \in StreamRecs /\ Streaming(log[s])'
    <2>1. PICK x, g, z, r :
             /\ x = log[s] /\ z = <<>>
             /\ g = IF x.rx /\ (x.pc # "done" \/ x.chan # <<>>) THEN Append(x.got, Err) ELSE x.got
             /\ r = [x EXCEPT !.pc = "done", !.rx = FALSE, !.hand = z, !.chan = z, !.got = g]
      OBVIOUS
    <2>2. x \in StreamRecs /\ Streaming(x)
      BY <1>2, <2>1
    <2>3. z \in Seq(Nat) /\ Len(z) <= Cap /\ g \in Seq(Nat)
      <3>1. Append(x.got, Err) \in Seq(Nat)
        BY <2>2, AppendProperties DEF StreamRecs, Err
      <3> QED BY <2>1, <2>2, <3>1 DEF StreamRecs
    <2>4. /\ r \in StreamRecs /\ r.pc = "done" /\ r.pos = x.pos /\ r.hand = z
          /\ r.late = x.late /\ r.rx = FALSE /\ r.life = x.life /\ r.atOpen = x.atOpen
          /\ r.chan = z
      BY <2>1, <2>2, <2>3 DEF StreamRecs
    <2>5. Streaming(r)
      BY <2>1, <2>2, <2>3, <2>4 DEF Streaming
    <2>6. log'[s] = x \/ log'[s] = r
      BY <2>1 DEF NodeDies
    <2>7. PICK y : y = log'[s] /\ y \in StreamRecs /\ Streaming(y)
      BY <2>2, <2>4, <2>5, <2>6
    <2>8. Streaming(y)'
      BY <1>2, <2>7 DEF Streaming
    <2> QED BY <2>7, <2>8
  <1>4. log' \in [Streams -> StreamRecs]
    <2>1. log' = [s \in Streams |-> log'[s]]
      BY DEF NodeDies
    <2> QED BY <1>3, <2>1
  <1>5. LogInv'
    BY <1>1, <1>2, <1>3, <1>4, StreamsLater
  <1> QED BY <1>1, <1>5 DEF IInv

\* A container that stopped is not running again in the same life.
LEMMA LivesGoOn ==
  ASSUME TypeOK, FileStep
  PROVE  /\ life' \in Nat /\ life <= life'
         /\ up' => (up /\ life' = life) \/ life' = life + 1
  <1>1. life \in Nat /\ up \in BOOLEAN
    BY DEF TypeOK
  <1>2. ASSUME NEW c \in Calls, Client(c) \/ Begin(c, "console", None, None, <<>>)
        PROVE  UNCHANGED <<up, life>>
    BY <1>2 DEF Client, Begin
  <1>3. ASSUME NEW c \in Calls, Handler(c)
        PROVE  UNCHANGED <<up, life>>
    BY <1>3, Zenon DEF Handler, Attach, Write, WriteFails, Hangup, NextChunk, Drop
  <1>4. CASE Run
    BY <1>1, <1>4 DEF Run
  <1>5. CASE Stop
    BY <1>1, <1>5 DEF Stop
  <1>6. CASE Start
    BY <1>1, <1>6 DEF Start
  <1> QED BY <1>1, <1>2, <1>3, <1>4, <1>5, <1>6 DEF FileStep, Container

LEMMA ConsoleKeeps ==
  ASSUME IInv, Console
  PROVE  IInv'
  <1>1. FileInv' /\ TypeOK'
    BY FileStepKeeps DEF IInv, Console, FileInv
  <1>2. /\ printed \in Nat /\ log \in [Streams -> StreamRecs] /\ log' = log
        /\ \A s \in Streams : Streaming(log[s])
    BY LogOfStreams DEF IInv, Console
  <1>3. /\ life \in Nat /\ life' \in Nat /\ life <= life'
        /\ up' => (up /\ life' = life) \/ life' = life + 1
    <2>1. TypeOK /\ FileStep
      BY DEF IInv, FileInv, Console
    <2> QED BY <2>1, LivesGoOn DEF TypeOK
  <1>4. printed' \in Nat /\ printed <= printed'
    <2>1. CASE stdin # <<>> /\ stdin' = Tail(stdin) /\ up'
      <3>1. PICK cmd : cmd = Head(stdin)
        OBVIOUS
      <3>2. stdin \in Seq(Commands) /\ cmd \in Commands /\ cmd = stdin[1] /\ 1 \in DOMAIN stdin
        BY <2>1, <3>1, HeadTailProperties, LenProperties, EmptySeq DEF IInv, FileInv, TypeOK
      <3>3. cmd.kind # "console" => cmd.path \in Paths
        BY <3>2 DEF IInv, FileInv, Named
      <3>4. Output(cmd) \in Seq(Lines)
        BY <3>2, <3>3, OutputType DEF IInv, FileInv
      <3>5. Len(Output(cmd)) \in Nat
        BY <3>4, LenProperties
      <3>6. printed' = printed + Len(Output(cmd))
        BY <2>1, <3>1, Zenon DEF Console
      <3> QED BY <1>2, <3>5, <3>6
    <2>2. CASE ~(stdin # <<>> /\ stdin' = Tail(stdin) /\ up')
      <3>1. printed' = printed
        BY <2>2, Zenon DEF Console
      <3> QED BY <1>2, <3>1
    <2> QED BY <2>1, <2>2
  <1>5. ASSUME NEW s \in Streams PROVE Streaming(log[s])'
    <2>1. PICK x : x = log[s] /\ Streaming(x) /\ x \in StreamRecs
      BY <1>2
    <2>2. x.pos <= printed' /\ x.atOpen <= printed' /\ x.life <= life'
      BY <1>2, <1>3, <1>4, <2>1 DEF Streaming, StreamRecs
    <2>3. (~up \/ life # x.life) => (~up' \/ life' # x.life)
      BY <1>3, <2>1 DEF Streaming, StreamRecs
    <2>4. Streaming(x)'
      BY <2>1, <2>2, <2>3 DEF Streaming
    <2> QED BY <1>2, <2>1, <2>4
  <1>6. LogInv'
    BY <1>1, <1>2, <1>4, <1>5, StreamsLater
  <1> QED BY <1>1, <1>6 DEF IInv

LEMMA NodeInit ==
  ASSUME LogInit
  PROVE  IInv
  <1>1. FileInv /\ TypeOK
    BY FileInit DEF LogInit, FileInv
  <1>2. /\ Closed \in StreamRecs /\ Closed.pc = "closed" /\ Closed.pos = 0
        /\ Closed.hand = <<>> /\ Closed.chan = <<>> /\ Closed.rx = FALSE /\ Closed.late = 0
        /\ Closed.life = 0 /\ Closed.atOpen = 0
    BY EmptySeq DEF Closed, StreamRecs
  <1>3. printed = 0 /\ log \in [Streams -> StreamRecs] /\ \A s \in Streams : log[s] = Closed
    BY <1>2 DEF LogInit
  <1>4. Streaming(Closed)
    BY <1>1, <1>2, <1>3 DEF Streaming, TypeOK
  <1>5. LogInv
    BY <1>1, <1>3, <1>4, LogOfStreams
  <1> QED BY <1>1, <1>5 DEF IInv

LEMMA NodeStutters ==
  ASSUME IInv, UNCHANGED allvars
  PROVE  IInv'
  <1>1. FileInv' /\ TypeOK'
    BY FileStutters DEF IInv, allvars, FileInv
  <1>2. /\ printed' \in Nat /\ log' \in [Streams -> StreamRecs]
        /\ \A s \in Streams : Streaming(log[s])
        /\ UNCHANGED <<up, life, printed, log>>
    BY LogOfStreams DEF IInv, allvars, vars
  <1>3. \A s \in Streams : Streaming(log[s])'
    BY <1>2 DEF Streaming
  <1>4. LogInv'
    BY <1>1, <1>2, <1>3, StreamsLater
  <1> QED BY <1>1, <1>4 DEF IInv

-----------------------------------------------------------------------------
(* What holds always.                                                      *)

\* The inductive invariant: every call on the node's console, the container,
\* every forwarder and the death of the node keep it.
THEOREM NodeInvariant == Spec => []IInv
  <1>1. LogInit => IInv
    BY NodeInit
  <1>2. IInv /\ [Next]_allvars => IInv'
    <2> SUFFICES ASSUME IInv, [Next]_allvars
                 PROVE  IInv'
      OBVIOUS
    <2>1. ASSUME NEW s \in Streams, Forwarder(s) PROVE IInv'
      BY <2>1, Next1Keeps, NextFailsKeeps, NextEndsKeeps, SendKeeps, SendFailsKeeps DEF Forwarder
    <2>2. CASE LogStep
      BY <2>1, <2>2, OpenKeeps, DeliverKeeps, GoneKeeps, DeathKeeps DEF LogStep
    <2> QED BY <2>2, ConsoleKeeps, NodeStutters DEF Next
  <1> QED BY <1>1, <1>2, PTL DEF Spec

\* Calls, files, lines and streams have their types; no forwarder reads what
\* was not printed, and no channel of stream_logs holds more than its capacity.
THEOREM NodeTypes == Spec => []NodeTypeOK
  <1>1. IInv => NodeTypeOK
    BY DEF IInv, LogInv
  <1> QED BY <1>1, NodeInvariant, PTL

\* However uploads, other calls, stops of the container and the death of the
\* node interleave, an upload nobody disturbs loses, repeats and reorders no
\* chunk: what upload_file of files.rs sends is the file's new end, what waits
\* on the standard input, and what is not yet written.
THEOREM UploadsConserved == Spec => []UploadConserved
  <1>1. IInv => UploadConserved
    BY DEF IInv, FileInv
  <1> QED BY <1>1, NodeInvariant, PTL

\* A download by download_file of files.rs, of a file nobody touches and into
\* whose output nobody talks, has handed on the file's beginning up to its
\* offset, whatever stops and starts come between its pieces.
THEOREM DownloadsArePrefixes == Spec => []DownloadPrefix
  <1>1. IInv => DownloadPrefix
    BY DEF IInv, FileInv
  <1> QED BY <1>1, NodeInvariant, PTL

\* forward_logs of stream.rs tells a reader the log from its beginning, whole
\* and in order, an error last: whatever the capacity of the channel, the pace
\* of the reader and the number of readers.
THEOREM LogsInOrder == Spec => []LogInOrder
  <1>1. IInv => LogInOrder
    BY DEF IInv, LogInv
  <1> QED BY <1>1, NodeInvariant, PTL

\* A stream of stream_logs that ended without an error told all that had been
\* printed when it was opened, and one that follows ended with the container.
THEOREM EndsAreWhole == Spec => []EndIsWhole
  <1>1. ASSUME IInv, NEW s \in Streams, log[s].pc = "done", log[s].rx
        PROVE  LET told == log[s].got \o log[s].chan
               IN  \/ \E i \in DOMAIN told : told[i] = Err
                   \/ /\ Len(told) >= log[s].atOpen
                      /\ log[s].follow => ~up \/ life # log[s].life
    <2>1. PICK x, t : x = log[s] /\ Streaming(x) /\ x \in StreamRecs /\ t = Join(x.got, x.chan)
      BY <1>1, LogOfStreams DEF IInv
    <2>2. t \in Seq(Nat) /\ x.pos \in Nat /\ x.atOpen \in Nat /\ x.hand = <<>>
      BY <1>1, <2>1, JoinAssociative DEF StreamRecs, Streaming
    <2>3. ASSUME t = Join(Beginning(x.pos), <<Err>>)
          PROVE  \E i \in DOMAIN t : t[i] = Err
      <3>1. Beginning(x.pos) \in Seq(Nat) /\ Len(Beginning(x.pos)) = x.pos /\ Err \in Nat
        BY <2>2, BeginningIs DEF Err
      <3>2. t = Append(Beginning(x.pos), Err)
        BY <2>3, <3>1, AppendIsConcat DEF Join
      <3>3. Len(t) = x.pos + 1 /\ t[x.pos + 1] = Err
        BY <2>2, <3>1, <3>2, AppendProperties
      <3>4. x.pos + 1 \in DOMAIN t
        BY <2>2, <3>3, LenProperties
      <3> QED BY <3>3, <3>4
    <2>4. ASSUME t = Beginning(x.pos) PROVE Len(t) = x.pos
      BY <2>2, <2>4, BeginningIs
    <2>5. t = Beginning(x.pos) \/ t = Join(Beginning(x.pos), <<Err>>)
      <3>1. Join(t, <<>>) = t
        BY <2>2, JoinEmpty
      <3> QED BY <1>1, <2>1, <2>2, <3>1 DEF Streaming
    <2>6. \/ \E i \in DOMAIN t : t[i] = Err
          \/ Len(t) >= x.atOpen /\ (x.follow => ~up \/ life # x.life)
      <3>1. CASE t = Join(Beginning(x.pos), <<Err>>)
        BY <2>3, <3>1
      <3>2. CASE t # Join(Beginning(x.pos), <<Err>>)
        <4>1. x.pos >= x.atOpen /\ (x.follow => ~up \/ life # x.life)
          BY <1>1, <2>1, <3>2 DEF Streaming
        <4> QED BY <2>4, <2>5, <3>2, <4>1
      <3> QED BY <3>1, <3>2
    <2> QED BY <2>1, <2>6, Zenon DEF Join
  <1>2. IInv => EndIsWhole
    BY <1>1, Zenon DEF EndIsWhole
  <1> QED BY <1>2, NodeInvariant, PTL

\* A forwarder of stream.rs whose reader went away reads at most one chunk
\* more: the send that fails is its last.
THEOREM OneMoreAtMost == Spec => []AtMostOneMore
  <1>1. IInv => AtMostOneMore
    BY DEF IInv, LogInv, LateIsLast, AtMostOneMore
  <1> QED BY <1>1, NodeInvariant, PTL
===============================================================================
