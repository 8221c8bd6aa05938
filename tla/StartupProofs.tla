----------------------------- MODULE StartupProofs -----------------------------
(***************************************************************************)
(* Proofs of StartupProperties, for any eggs, documents, servers, keys,    *)
(* values and rules, and any number of requests.                           *)
(***************************************************************************)
EXTENDS StartupProperties, FiniteSetTheorems, SequenceTheorems, WellFoundedInduction,
        TLAPS

-----------------------------------------------------------------------------
(* parse_rules finds the rules that are joined.  Its loop and Joined are   *)
(* recursive functions of numbers; that there are such functions comes     *)
(* first.                                                                  *)

LEMMA Least ==
  ASSUME NEW T, T \subseteq Nat, T # {}
  PROVE  \E x \in T : \A y \in T : x <= y
  <1> DEFINE Less == {ss \in Nat \X Nat : ss[1] < ss[2]}
  <1>1. IsWellFoundedOn(Less, Nat)
    BY NatLessThanWellFounded DEF OpToRel
  <1>2. PICK x \in T : \A y \in T : ~(<<y, x>> \in Less)
    BY <1>1, WFMin
  <1>3. \A y \in T : ~(y < x)
    BY <1>2
  <1> QED BY <1>3

\* A loop that runs n times.
Loops(g, n, S, a, F) ==
    /\ g \in [0 .. n -> S]
    /\ \A k \in 0 .. n : g[k] = IF k = 0 THEN a ELSE F[<<k, g[k - 1]>>]

LEMMA LoopExists ==
  ASSUME NEW n \in Nat, NEW S, NEW a \in S, NEW F \in [(1 .. n) \X S -> S]
  PROVE  \E g : Loops(g, n, S, a, F)
  <1> DEFINE Runs(m, g) == /\ g \in [0 .. m -> S]
                           /\ \A k \in 0 .. m : g[k] = IF k = 0 THEN a ELSE F[<<k, g[k - 1]>>]
             Bad == {m \in 0 .. n : ~\E g : Runs(m, g)}
  <1>1. Runs(0, [k \in 0 .. 0 |-> a])
    OBVIOUS
  <1>2. ASSUME NEW m \in 0 .. n - 1, NEW g, Runs(m, g)
        PROVE  Runs(m + 1, [k \in 0 .. m + 1 |-> IF k = 0 THEN a ELSE F[<<k, g[k - 1]>>]])
    <2> DEFINE h == [k \in 0 .. m + 1 |-> IF k = 0 THEN a ELSE F[<<k, g[k - 1]>>]]
    <2>1. \A k \in 0 .. m : g[k] \in S
      BY <1>2
    <2>2. h \in [0 .. m + 1 -> S]
      <3>1. ASSUME NEW k \in 0 .. m + 1 PROVE (IF k = 0 THEN a ELSE F[<<k, g[k - 1]>>]) \in S
        <4>1. CASE k = 0
          BY <4>1
        <4>2. CASE k # 0
          <5>1. k - 1 \in 0 .. m /\ k \in 1 .. n
            BY <4>2
          <5>2. <<k, g[k - 1]>> \in (1 .. n) \X S
            BY <2>1, <5>1
          <5> QED BY <4>2, <5>2
        <4> QED BY <4>1, <4>2
      <3> QED BY <3>1
    <2>3. ASSUME NEW k \in 0 .. m + 1 PROVE h[k] = IF k = 0 THEN a ELSE F[<<k, h[k - 1]>>]
      <3>1. CASE k = 0
        BY <3>1
      <3>2. CASE k # 0
        <4>1. k - 1 \in 0 .. m /\ k - 1 \in 0 .. m + 1
          BY <3>2
        <4>2. h[k - 1] = g[k - 1]
          BY <1>2, <4>1
        <4>3. h[k] = F[<<k, g[k - 1]>>]
          BY <3>2
        <4> QED BY <3>2, <4>2, <4>3
      <3> QED BY <3>1, <3>2
    <2> QED BY <2>2, <2>3
  <1>3. Bad = {}
    <2> SUFFICES ASSUME Bad # {} PROVE FALSE
      OBVIOUS
    <2> HIDE DEF Runs
    <2>0. Bad \subseteq Nat
      OBVIOUS
    <2>1. PICK m \in Bad : \A k \in Bad : m <= k
      <3> HIDE DEF Bad
      <3> QED BY <2>0, Least
    <2>2. m \in 0 .. n /\ m # 0
      BY <1>1
    <2>3. m - 1 \in 0 .. n - 1 /\ m - 1 \notin Bad
      BY <2>1, <2>2
    <2>4. PICK g : Runs(m - 1, g)
      BY <2>3
    <2>5. \E h : Runs((m - 1) + 1, h)
      BY <1>2, <2>3, <2>4
    <2> QED BY <2>1, <2>2, <2>5
  <1>4. PICK g : Runs(n, g)
    BY <1>3
  <1> QED BY <1>4 DEF Loops

-----------------------------------------------------------------------------
States == [found : Seq(Texts), left : Texts]

LEMMA FindIs ==
  ASSUME NEW s \in Texts, NEW cs
  PROVE  /\ Find(s, cs) \in 0 .. Len(s)
         /\ Find(s, cs) = 0 => \A i \in 1 .. Len(s) : s[i] \notin cs
         /\ Find(s, cs) # 0 => /\ s[Find(s, cs)] \in cs
                               /\ \A i \in 1 .. Find(s, cs) - 1 : s[i] \notin cs
  <1> DEFINE places == {i \in DOMAIN s : s[i] \in cs}
  <1>1. DOMAIN s = 1 .. Len(s) /\ Len(s) \in Nat
    BY DEF Texts
  <1>2. CASE places = {}
    <2>1. Find(s, cs) = 0
      BY <1>2 DEF Find
    <2> QED BY <1>1, <1>2, <2>1
  <1>3. CASE places # {}
    <2>0. places \subseteq Nat
      BY <1>1
    <2>1. PICK i \in places : \A j \in places : i <= j
      <3> HIDE DEF places
      <3> QED BY <1>3, <2>0, Least
    <2>2. Find(s, cs) = CHOOSE j \in places : \A k \in places : j <= k
      BY <1>3 DEF Find
    <2>3. Find(s, cs) \in places /\ \A k \in places : Find(s, cs) <= k
      BY <2>1, <2>2
    <2> QED BY <1>1, <2>3
  <1> QED BY <1>2, <1>3

LEMMA FromIs ==
  ASSUME NEW s \in Texts, NEW i \in Nat \ {0}
  PROVE  /\ From(s, i) \in Texts
         /\ Len(From(s, i)) = IF i <= Len(s) THEN Len(s) - i + 1 ELSE 0
         /\ \A j \in 1 .. Len(From(s, i)) : From(s, i)[j] = s[i + j - 1]
         /\ i > Len(s) => From(s, i) = <<>>
  BY SubSeqProperties DEF From, Texts

LEMMA JoinIs ==
  ASSUME NEW s \in Texts, NEW t \in Texts
  PROVE  /\ s \o t \in Texts /\ Len(s \o t) = Len(s) + Len(t)
         /\ \A i \in 1 .. Len(s) + Len(t) :
               (s \o t)[i] = IF i <= Len(s) THEN s[i] ELSE t[i - Len(s)]
  BY ConcatProperties DEF Texts

LEMMA TurnTyped ==
  ASSUME NEW x \in States
  PROVE  Turn(x) \in States
  <1> DEFINE s == x.left
             regex == s[1] = "regex:/"
             end == IF regex THEN Find(From(s, 2), Slashes) ELSE Find(s, {"|"})
             after == From(s, end + 2)
  <1>1. s \in Texts /\ x.found \in Seq(Texts) /\ Len(s) \in Nat
    BY DEF States, Texts
  <1>2. end \in Nat /\ end <= Len(s)
    <2>1. From(s, 2) \in Texts /\ Len(From(s, 2)) <= Len(s)
      BY <1>1, FromIs
    <2> HIDE DEF s
    <2> QED BY <1>1, <2>1, FindIs
  <1>3. after \in Texts /\ From(after, 2) \in Texts /\ From(s, end + 1) \in Texts
    <2>1. end + 2 \in Nat \ {0} /\ end + 1 \in Nat \ {0}
      BY <1>2
    <2> HIDE DEF s, end
    <2> QED BY <1>1, <2>1, FromIs
  <1>4. ASSUME NEW rule \in Texts, NEW left \in Texts PROVE Found(x, rule, left) \in States
    BY <1>1, <1>4 DEF Found, States
  <1>5. ASSUME end # 0 PROVE SubSeq(s, 1, end - 1) \in Texts
    BY <1>1, <1>2, <1>5, SubSeqProperties DEF Texts
  <1>6. ASSUME end # 0, regex, s # <<>> PROVE SubSeq(s, 1, end + 1) \in Texts
    <2>1. From(s, 2) \in Texts /\ Len(From(s, 2)) = IF 2 <= Len(s) THEN Len(s) - 1 ELSE 0
      BY <1>1, FromIs
    <2>2. end \in 1 .. Len(s) - 1
      BY <1>1, <1>6, <2>1, FindIs
    <2> HIDE DEF s, end
    <2> QED BY <1>1, <2>2, SubSeqProperties DEF Texts
  <1>7. <<>> \in Texts
    BY DEF Texts
  <1>8. Turn(x) = IF s = <<>> THEN x
        ELSE IF end = 0 THEN Found(x, s, <<>>)
        ELSE IF ~regex THEN Found(x, SubSeq(s, 1, end - 1), From(s, end + 1))
        ELSE Found(x, SubSeq(s, 1, end + 1),
                   IF after # <<>> /\ after[1] = "|" THEN From(after, 2) ELSE after)
    BY DEF Turn
  <1> HIDE DEF s, end, regex, after
  <1> QED BY <1>1, <1>3, <1>4, <1>5, <1>6, <1>7, <1>8

LEMMA TurnsIs ==
  ASSUME NEW rules \in Texts
  PROVE  /\ Turns(rules)[0] = [found |-> <<>>, left |-> rules]
         /\ \A n \in 1 .. Len(rules) : Turns(rules)[n] = Turn(Turns(rules)[n - 1])
  <1> DEFINE start == [found |-> <<>>, left |-> rules]
             F == [p \in (1 .. Len(rules)) \X States |-> Turn(p[2])]
             Is(g) == g = [n \in 0 .. Len(rules) |-> IF n = 0 THEN start ELSE Turn(g[n - 1])]
  <1>1. start \in States /\ Len(rules) \in Nat
    BY DEF States, Texts
  <1>2. F \in [(1 .. Len(rules)) \X States -> States]
    BY TurnTyped
  <1>3. \E g : Loops(g, Len(rules), States, start, F)
    <2> HIDE DEF F, start
    <2> QED BY <1>1, <1>2, LoopExists
  <1>4. PICK g : Loops(g, Len(rules), States, start, F)
    BY <1>3
  <1>5. Is(g)
    <2>1. ASSUME NEW n \in 0 .. Len(rules), n # 0 PROVE F[<<n, g[n - 1]>>] = Turn(g[n - 1])
      <3>1. n \in 1 .. Len(rules) /\ n - 1 \in 0 .. Len(rules)
        BY <1>1, <2>1
      <3>2. g[n - 1] \in States
        BY <1>4, <3>1 DEF Loops
      <3> QED BY <3>1, <3>2
    <2>2. g = [n \in 0 .. Len(rules) |-> g[n]]
      BY <1>4 DEF Loops
    <2>3. \A n \in 0 .. Len(rules) : g[n] = IF n = 0 THEN start ELSE Turn(g[n - 1])
      <3> HIDE DEF F
      <3> QED BY <1>4, <2>1 DEF Loops
    <2> QED BY <2>2, <2>3
  <1>6. Turns(rules) = CHOOSE f : Is(f)
    BY DEF Turns
  <1>7. Is(Turns(rules))
    <2> HIDE DEF Is
    <2> QED BY <1>5, <1>6
  <1> QED BY <1>1, <1>7

LEMMA EndsIs ==
  ASSUME NEW rs \in Seq(Texts)
  PROVE  /\ \A n \in 0 .. Len(rs) : Ends(rs)[n] \in Texts
         /\ Ends(rs)[0] = <<>>
         /\ \A n \in 1 .. Len(rs) : Ends(rs)[n] =
               rs[Len(rs) - n + 1] \o (IF n = 1 THEN <<>> ELSE <<"|">> \o Ends(rs)[n - 1])
  <1> DEFINE End(n, s) == rs[Len(rs) - n + 1] \o (IF n = 1 THEN <<>> ELSE <<"|">> \o s)
             F == [p \in (1 .. Len(rs)) \X Texts |-> End(p[1], p[2])]
             Is(g) == g = [n \in 0 .. Len(rs) |-> IF n = 0 THEN <<>> ELSE End(n, g[n - 1])]
  <1>1. <<>> \in Texts /\ Len(rs) \in Nat
    BY DEF Texts
  <1>2. F \in [(1 .. Len(rs)) \X Texts -> Texts]
    <2>1. ASSUME NEW n \in 1 .. Len(rs), NEW s \in Texts PROVE End(n, s) \in Texts
      <3>1. rs[Len(rs) - n + 1] \in Texts
        BY <1>1
      <3>2. <<"|">> \in Texts
        BY DEF Texts, Symbols
      <3>3. <<"|">> \o s \in Texts
        BY <3>2, ConcatProperties DEF Texts
      <3> QED BY <1>1, <3>1, <3>3, ConcatProperties DEF Texts
    <2> HIDE DEF End
    <2> QED BY <2>1
  <1>3. \E g : Loops(g, Len(rs), Texts, <<>>, F)
    <2> HIDE DEF F
    <2> QED BY <1>1, <1>2, LoopExists
  <1>4. PICK g : Loops(g, Len(rs), Texts, <<>>, F)
    BY <1>3
  <1>5. ASSUME NEW h, Loops(h, Len(rs), Texts, <<>>, F), NEW n \in 1 .. Len(rs)
        PROVE  F[<<n, h[n - 1]>>] = End(n, h[n - 1])
    <2>1. n - 1 \in 0 .. Len(rs)
      BY <1>1
    <2>2. h[n - 1] \in Texts
      BY <1>5, <2>1 DEF Loops
    <2> HIDE DEF End
    <2> QED BY <2>2
  <1>6. Is(g)
    <2>1. g = [n \in 0 .. Len(rs) |-> g[n]]
      BY <1>4 DEF Loops
    <2>2. \A n \in 0 .. Len(rs) : g[n] = IF n = 0 THEN <<>> ELSE End(n, g[n - 1])
      <3>1. \A n \in 0 .. Len(rs) : g[n] = IF n = 0 THEN <<>> ELSE F[<<n, g[n - 1]>>]
        BY <1>4 DEF Loops
      <3>2. \A n \in 0 .. Len(rs) : n = 0 \/ n \in 1 .. Len(rs)
        BY <1>1
      <3> HIDE DEF F, End
      <3> QED BY <1>4, <1>5, <3>1, <3>2
    <2> HIDE DEF End
    <2> QED BY <2>1, <2>2
  <1>7. Ends(rs) = CHOOSE f : Is(f)
    BY DEF Ends
  <1>8. Is(Ends(rs))
    <2> HIDE DEF Is
    <2> QED BY <1>6, <1>7
  <1>9. Ends(rs)[0] = <<>> /\ \A n \in 1 .. Len(rs) : Ends(rs)[n] = End(n, Ends(rs)[n - 1])
    <2> HIDE DEF End
    <2> QED BY <1>1, <1>8
  <1>10. \A n \in 0 .. Len(rs) : Ends(rs)[n] \in Texts
    <2> DEFINE Bad == {n \in 0 .. Len(rs) : Ends(rs)[n] \notin Texts}
    <2> SUFFICES ASSUME Bad # {} PROVE FALSE
      OBVIOUS
    <2>1. Bad \subseteq Nat
      OBVIOUS
    <2>2. PICK n \in Bad : \A k \in Bad : n <= k
      <3> HIDE DEF Bad
      <3> QED BY <2>1, Least
    <2>3. n # 0 /\ n \in 1 .. Len(rs) /\ n - 1 \in 0 .. Len(rs) /\ n - 1 \notin Bad
      BY <1>1, <1>9, <2>2
    <2>4. End(n, Ends(rs)[n - 1]) \in Texts
      <3>1. Ends(rs)[n - 1] \in Texts
        BY <2>3
      <3>2. F[<<n, Ends(rs)[n - 1]>>] \in Texts /\
            F[<<n, Ends(rs)[n - 1]>>] = End(n, Ends(rs)[n - 1])
        <4> HIDE DEF End
        <4> QED BY <1>2, <2>3, <3>1
      <3> QED BY <3>2
    <2> HIDE DEF End
    <2> QED BY <1>9, <2>2, <2>3, <2>4
  <1> QED BY <1>9, <1>10

-----------------------------------------------------------------------------
LEMMA FindFirst ==
  ASSUME NEW s \in Texts, NEW cs, NEW i \in 1 .. Len(s), s[i] \in cs,
         \A j \in 1 .. i - 1 : s[j] \notin cs
  PROVE  Find(s, cs) = i
  <1>1. PICK n : n = Find(s, cs)
    OBVIOUS
  <1>2. n \in 0 .. Len(s) /\ n # 0 /\ s[n] \in cs /\ \A j \in 1 .. n - 1 : s[j] \notin cs
    BY <1>1, FindIs
  <1>3. Len(s) \in Nat
    BY LenProperties DEF Texts
  <1> QED BY <1>1, <1>2, <1>3

LEMMA TurnOfPlain ==
  ASSUME NEW s, NEW found, s # <<>>, s[1] # "regex:/", NEW n, n = Find(s, {"|"})
  PROVE  Turn([found |-> found, left |-> s]) =
            IF n = 0 THEN [found |-> Append(found, s), left |-> <<>>]
            ELSE [found |-> Append(found, SubSeq(s, 1, n - 1)), left |-> From(s, n + 1)]
  BY DEF Turn, Found

LEMMA TurnOfRegex ==
  ASSUME NEW s, NEW found, s # <<>>, s[1] = "regex:/", NEW n, n = Find(From(s, 2), Slashes),
         n # 0, NEW after, after = From(s, n + 2)
  PROVE  Turn([found |-> found, left |-> s]) =
            [found |-> Append(found, SubSeq(s, 1, n + 1)),
             left |-> IF after # <<>> /\ after[1] = "|" THEN From(after, 2) ELSE after]
  BY DEF Turn, Found

\* One turn takes a rule, the last or one before others.
LEMMA TurnOfLast ==
  ASSUME NEW rule \in Texts, Plain(rule) \/ Regex(rule), NEW found
  PROVE  Turn([found |-> found, left |-> rule]) = [found |-> Append(found, rule), left |-> <<>>]
  <1> DEFINE x == [found |-> found, left |-> rule]
             rest == From(rule, 2)
  <1>1. /\ rule # <<>> /\ Len(rule) \in Nat \ {0} /\ rule = SubSeq(rule, 1, Len(rule))
    <2>1. rule # <<>>
      BY DEF Plain, Regex
    <2> QED BY <2>1, SubSeqFull, EmptySeq, LenProperties DEF Texts
  <1>2. CASE Plain(rule)
    <2>1. Find(rule, {"|"}) = 0
      BY <1>2, FindIs DEF Plain, Texts
    <2> QED BY <1>1, <1>2, <2>1, TurnOfPlain DEF Plain
  <1>3. CASE Regex(rule)
    <2>1. /\ rest \in Texts /\ Len(rest) = Len(rule) - 1
          /\ \A j \in 1 .. Len(rest) : rest[j] = rule[j + 1]
      <3>1. /\ rest \in Texts /\ Len(rest) = IF 2 <= Len(rule) THEN Len(rule) - 2 + 1 ELSE 0
            /\ \A j \in 1 .. Len(rest) : rest[j] = rule[2 + j - 1]
        BY FromIs
      <3>2. Len(rule) > 1 /\ 2 <= Len(rule) /\ Len(rule) - 2 + 1 = Len(rule) - 1
        BY <1>1, <1>3 DEF Regex
      <3> HIDE DEF rest
      <3>3. Len(rest) = Len(rule) - 1
        BY <3>1, <3>2
      <3>4. \A j \in 1 .. Len(rest) : 2 + j - 1 = j + 1
        BY <1>1, <3>3
      <3> QED BY <3>1, <3>3, <3>4
    <2>2. Find(rest, Slashes) = Len(rule) - 1
      <3>1. rest[Len(rest)] = "/" /\ \A j \in 1 .. Len(rest) - 1 : rest[j] \notin Slashes
        BY <1>1, <1>3, <2>1 DEF Regex
      <3>2. "/" \in Slashes
        BY DEF Slashes
      <3>3. Len(rest) \in Nat \ {0}
        BY <1>1, <1>3, <2>1 DEF Regex
      <3>4. Len(rest) \in 1 .. Len(rest) /\ rest[Len(rest)] \in Slashes
        BY <3>1, <3>2, <3>3
      <3> HIDE DEF rest
      <3>5. Find(rest, Slashes) = Len(rest)
        BY <2>1, <3>1, <3>4, FindFirst
      <3> QED BY <2>1, <3>5
    <2>3. From(rule, Len(rule) - 1 + 2) = <<>>
      BY <1>1, FromIs
    <2>4. Len(rule) - 1 # 0 /\ rule[1] = "regex:/" /\ Len(rule) - 1 + 1 = Len(rule)
      BY <1>1, <1>3 DEF Regex
    <2>5. Turn([found |-> found, left |-> rule]) =
             [found |-> Append(found, SubSeq(rule, 1, Len(rule) - 1 + 1)), left |-> <<>>]
      <3> DEFINE n == Len(rule) - 1
      <3>1. n = Find(From(rule, 2), Slashes) /\ n # 0 /\ From(rule, n + 2) = <<>>
        BY <2>2, <2>3, <2>4
      <3> HIDE DEF n
      <3>2. Turn([found |-> found, left |-> rule]) =
               [found |-> Append(found, SubSeq(rule, 1, n + 1)), left |-> <<>>]
        BY <1>1, <2>4, <3>1, TurnOfRegex
      <3> QED BY <3>2 DEF n
    <2> QED BY <1>1, <2>4, <2>5
  <1> QED BY <1>2, <1>3

LEMMA TurnOfFirst ==
  ASSUME NEW rule \in Texts, Plain(rule) \/ Regex(rule), NEW found, NEW left \in Texts
  PROVE  Turn([found |-> found, left |-> rule \o (<<"|">> \o left)]) =
            [found |-> Append(found, rule), left |-> left]
  <1> DEFINE s == rule \o (<<"|">> \o left)
             rest == From(s, 2)
  <1>1. rule # <<>> /\ Len(rule) \in Nat \ {0} /\ Len(left) \in Nat
    <2>1. rule # <<>>
      BY DEF Plain, Regex
    <2> QED BY <2>1, EmptySeq, LenProperties DEF Texts
  <1>2. /\ s \in Texts /\ Len(s) = Len(rule) + 1 + Len(left)
        /\ \A i \in 1 .. Len(rule) : s[i] = rule[i]
        /\ s[Len(rule) + 1] = "|"
        /\ \A i \in 1 .. Len(left) : s[Len(rule) + 1 + i] = left[i]
    <2> DEFINE t == <<"|">> \o left
    <2>1. <<"|">> \in Texts
      BY DEF Texts, Symbols
    <2>2. /\ t \in Texts /\ Len(t) = 1 + Len(left) /\ t[1] = "|"
          /\ \A i \in 1 .. Len(left) : t[i + 1] = left[i]
      BY <1>1, <2>1, ConcatProperties DEF Texts
    <2>3. /\ s \in Texts /\ Len(s) = Len(rule) + Len(t)
          /\ \A i \in 1 .. Len(rule) + Len(t) :
                s[i] = IF i <= Len(rule) THEN rule[i] ELSE t[i - Len(rule)]
      <3>1. s = rule \o t
        OBVIOUS
      <3> HIDE DEF s, t
      <3> QED BY <2>2, <3>1, JoinIs
    <2> HIDE DEF s, t
    <2>4. s[Len(rule) + 1] = t[1]
      BY <1>1, <2>2, <2>3
    <2>5. ASSUME NEW i \in 1 .. Len(left) PROVE s[Len(rule) + 1 + i] = left[i]
      <3>1. s[Len(rule) + 1 + i] = t[i + 1]
        BY <1>1, <2>2, <2>3
      <3> QED BY <2>2, <3>1
    <2> QED BY <1>1, <2>2, <2>3, <2>4, <2>5
  <1> HIDE DEF s
  <1>3. SubSeq(s, 1, Len(rule)) = rule
    <2>1. /\ SubSeq(s, 1, Len(rule)) \in Texts /\ Len(SubSeq(s, 1, Len(rule))) = Len(rule)
          /\ \A i \in 1 .. Len(rule) : SubSeq(s, 1, Len(rule))[i] = s[i]
      BY <1>1, <1>2, SubSeqProperties DEF Texts
    <2> QED BY <1>1, <1>2, <2>1, SeqEqual DEF Texts
  <1>4. From(s, Len(rule) + 2) = left
    <2> DEFINE m == Len(rule) + 2
    <2>1. /\ From(s, m) \in Texts /\ Len(From(s, m)) = Len(left)
          /\ \A j \in 1 .. Len(left) : From(s, m)[j] = s[m + j - 1]
      <3>1. m \in Nat \ {0}
        BY <1>1
      <3>2. Len(From(s, m)) = IF m <= Len(s) THEN Len(s) - m + 1 ELSE 0
        BY <1>2, <3>1, FromIs
      <3>3. Len(From(s, m)) = Len(left)
        BY <1>1, <1>2, <3>2
      <3> HIDE DEF m
      <3> QED BY <1>2, <3>1, <3>3, FromIs
    <2>2. \A j \in 1 .. Len(left) : From(s, m)[j] = left[j]
      <3>1. \A j \in 1 .. Len(left) : m + j - 1 = Len(rule) + 1 + j
        BY <1>1
      <3> HIDE DEF m
      <3> QED BY <1>2, <2>1, <3>1
    <2> HIDE DEF m
    <2>3. From(s, m) = left
      BY <2>1, <2>2, SeqEqual DEF Texts
    <2> QED BY <2>3 DEF m
  <1>5. s # <<>> /\ s[1] = rule[1]
    BY <1>1, <1>2
  <1>6. CASE Plain(rule)
    <2>1. Find(s, {"|"}) = Len(rule) + 1
      <3>1. \A i \in 1 .. Len(rule) : s[i] # "|"
        BY <1>2, <1>6 DEF Plain, Texts
      <3>2. Len(rule) + 1 \in 1 .. Len(s) /\ \A i \in 1 .. (Len(rule) + 1) - 1 : s[i] \notin {"|"}
        BY <1>1, <1>2, <3>1
      <3>3. s[Len(rule) + 1] \in {"|"}
        BY <1>2
      <3> QED BY <1>2, <3>2, <3>3, FindFirst
    <2>2. rule[1] # "regex:/" /\ Len(rule) + 1 - 1 = Len(rule) /\ Len(rule) + 1 # 0
          /\ Len(rule) + 1 + 1 = Len(rule) + 2
      BY <1>1, <1>6 DEF Plain
    <2>3. Turn([found |-> found, left |-> s]) = [found |-> Append(found, rule), left |-> left]
      <3> DEFINE n == Len(rule) + 1
      <3>1. n = Find(s, {"|"}) /\ n # 0 /\ SubSeq(s, 1, n - 1) = rule /\ From(s, n + 1) = left
        BY <1>3, <1>4, <2>1, <2>2
      <3> HIDE DEF n
      <3> QED BY <1>5, <2>2, <3>1, TurnOfPlain
    <2> QED BY <2>3 DEF s
  <1>7. CASE Regex(rule)
    <2>1. /\ rest \in Texts /\ Len(rest) = Len(rule) + Len(left)
          /\ \A j \in 1 .. Len(rule) - 1 : rest[j] = rule[j + 1]
      <3>1. /\ rest \in Texts /\ Len(rest) = IF 2 <= Len(s) THEN Len(s) - 2 + 1 ELSE 0
            /\ \A j \in 1 .. Len(rest) : rest[j] = s[2 + j - 1]
        BY <1>2, FromIs
      <3>2. Len(rest) = Len(rule) + Len(left)
        BY <1>1, <1>2, <3>1
      <3> HIDE DEF rest
      <3> QED BY <1>1, <1>2, <3>1, <3>2
    <2>2. Find(rest, Slashes) = Len(rule) - 1
      <3>1. rest[Len(rule) - 1] = "/" /\ \A j \in 1 .. Len(rule) - 2 : rest[j] \notin Slashes
        BY <1>1, <1>7, <2>1 DEF Regex
      <3>2. "/" \in Slashes
        BY DEF Slashes
      <3>3. Len(rule) - 1 \in 1 .. Len(rest)
        BY <1>1, <1>7, <2>1 DEF Regex
      <3>4. /\ rest[Len(rule) - 1] \in Slashes
            /\ \A j \in 1 .. (Len(rule) - 1) - 1 : rest[j] \notin Slashes
        BY <1>1, <3>1, <3>2
      <3> HIDE DEF rest
      <3> QED BY <2>1, <3>3, <3>4, FindFirst
    <2>3. /\ From(s, Len(rule) + 1) # <<>> /\ From(s, Len(rule) + 1)[1] = "|"
          /\ From(From(s, Len(rule) + 1), 2) = left
      <3> DEFINE after == From(s, Len(rule) + 1)
      <3>1. /\ after \in Texts /\ Len(after) = 1 + Len(left)
            /\ \A j \in 1 .. 1 + Len(left) : after[j] = s[Len(rule) + j]
        <4> DEFINE m == Len(rule) + 1
        <4>1. m \in Nat \ {0}
          BY <1>1
        <4>2. /\ From(s, m) \in Texts
              /\ Len(From(s, m)) = IF m <= Len(s) THEN Len(s) - m + 1 ELSE 0
              /\ \A j \in 1 .. Len(From(s, m)) : From(s, m)[j] = s[m + j - 1]
          <5> HIDE DEF m
          <5> QED BY <1>2, <4>1, FromIs
        <4> QED BY <1>1, <1>2, <4>2
      <3>2. /\ From(after, 2) \in Texts /\ Len(From(after, 2)) = Len(left)
            /\ \A j \in 1 .. Len(left) : From(after, 2)[j] = after[j + 1]
        <4> HIDE DEF after
        <4>1. /\ From(after, 2) \in Texts
              /\ Len(From(after, 2)) = IF 2 <= Len(after) THEN Len(after) - 2 + 1 ELSE 0
              /\ \A j \in 1 .. Len(From(after, 2)) : From(after, 2)[j] = after[2 + j - 1]
          BY <3>1, FromIs
        <4> QED BY <1>1, <3>1, <4>1
      <3> HIDE DEF after
      <3>3. after # <<>> /\ after[1] = "|"
        BY <1>1, <1>2, <3>1
      <3>4. \A j \in 1 .. Len(left) : From(after, 2)[j] = left[j]
        <4>1. ASSUME NEW j \in 1 .. Len(left) PROVE From(after, 2)[j] = left[j]
          <5>1. j + 1 \in 1 .. 1 + Len(left) /\ Len(rule) + (j + 1) = Len(rule) + 1 + j
            BY <1>1
          <5> QED BY <1>2, <3>1, <3>2, <5>1
        <4> QED BY <4>1
      <3>5. From(after, 2) = left
        BY <3>2, <3>4, SeqEqual DEF Texts
      <3> QED BY <3>3, <3>5 DEF after
    <2>4. /\ rule[1] = "regex:/" /\ Len(rule) - 1 + 1 = Len(rule) /\ Len(rule) - 1 # 0
          /\ Len(rule) - 1 + 2 = Len(rule) + 1
      BY <1>1, <1>7 DEF Regex
    <2>5. Turn([found |-> found, left |-> s]) = [found |-> Append(found, rule), left |-> left]
      <3> DEFINE n == Len(rule) - 1
                 after == From(s, Len(rule) + 1)
      <3>1. /\ n = Find(From(s, 2), Slashes) /\ n # 0 /\ SubSeq(s, 1, n + 1) = rule
            /\ after = From(s, n + 2) /\ after # <<>> /\ after[1] = "|" /\ From(after, 2) = left
        BY <1>3, <2>2, <2>3, <2>4
      <3> HIDE DEF n, after
      <3> QED BY <1>5, <2>4, <3>1, TurnOfRegex
    <2> QED BY <2>5 DEF s
  <1> QED BY <1>6, <1>7

-----------------------------------------------------------------------------
\* What is left of the joined rules is never shorter than there are rules left.
LEMMA EndsLong ==
  ASSUME NEW rs \in Seq(Texts), WellWritten(rs), NEW n \in 0 .. Len(rs)
  PROVE  Len(Ends(rs)[n]) >= n
  <1> DEFINE Bad == {k \in 0 .. Len(rs) : ~(Len(Ends(rs)[k]) >= k)}
  <1> SUFFICES ASSUME Bad # {} PROVE FALSE
    OBVIOUS
  <1>0. Len(rs) \in Nat /\ Bad \subseteq Nat
    OBVIOUS
  <1>1. PICK k \in Bad : \A m \in Bad : k <= m
    <2> HIDE DEF Bad
    <2> QED BY <1>0, Least
  <1>2. k # 0 /\ k \in 1 .. Len(rs) /\ k - 1 \in 0 .. Len(rs) /\ k - 1 \notin Bad
    <2>1. Len(Ends(rs)[0]) >= 0
      BY EndsIs
    <2> QED BY <1>0, <1>1, <2>1
  <1> DEFINE rule == rs[Len(rs) - k + 1]
             tail == Ends(rs)[k - 1]
  <1>3. Len(rs) - k + 1 \in 1 .. Len(rs)
    BY <1>0, <1>2
  <1>4. rule \in Texts /\ rule # <<>> /\ tail \in Texts
    <2>1. rule \in Texts /\ (Plain(rule) \/ Regex(rule))
      BY <1>3 DEF WellWritten
    <2>2. rule # <<>>
      BY <2>1 DEF Plain, Regex
    <2> QED BY <1>2, <2>1, <2>2, EndsIs
  <1>5. Len(rule) \in Nat /\ Len(rule) >= 1 /\ Len(tail) \in Nat /\ Len(tail) >= k - 1
    <2>1. Len(rule) \in Nat /\ Len(rule) # 0 /\ Len(tail) \in Nat
      BY <1>4, EmptySeq, LenProperties DEF Texts
    <2> QED BY <1>2, <2>1
  <1>6. <<"|">> \in Texts /\ <<>> \in Texts
    BY DEF Texts, Symbols
  <1>7. Ends(rs)[k] = rule \o (IF k = 1 THEN <<>> ELSE <<"|">> \o tail)
    BY <1>2, EndsIs
  <1> HIDE DEF rule, tail
  <1>8. CASE k = 1
    <2>1. Len(Ends(rs)[k]) = Len(rule) + Len(<<>>)
      BY <1>4, <1>6, <1>7, <1>8, JoinIs
    <2> QED BY <1>1, <1>5, <1>8, <2>1
  <1>9. CASE k # 1
    <2> DEFINE t == <<"|">> \o tail
    <2>1. t \in Texts /\ Len(t) = 1 + Len(tail)
      BY <1>4, <1>6, JoinIs
    <2>2. Ends(rs)[k] = rule \o t
      BY <1>7, <1>9
    <2> HIDE DEF t
    <2>3. Len(Ends(rs)[k]) = Len(rule) + (1 + Len(tail))
      <3>1. Len(rule \o t) = Len(rule) + Len(t)
        BY <1>4, <2>1, JoinIs
      <3> QED BY <2>1, <2>2, <3>1
    <2> QED BY <1>1, <1>2, <1>5, <2>3
  <1> QED BY <1>8, <1>9

\* A turn takes the k-th rule.
LEMMA TurnTakes ==
  ASSUME NEW rs \in Seq(Texts), WellWritten(rs), NEW k \in 1 .. Len(rs)
  PROVE  Turn([found |-> SubSeq(rs, 1, k - 1), left |-> Ends(rs)[Len(rs) - k + 1]]) =
            [found |-> SubSeq(rs, 1, k), left |-> Ends(rs)[Len(rs) - k]]
  <1>1. PICK m : m = Len(rs) - k + 1
    OBVIOUS
  <1>2. PICK rule : rule = rs[k]
    OBVIOUS
  <1>3. PICK taken : taken = SubSeq(rs, 1, k - 1)
    OBVIOUS
  <1>4. PICK tail : tail = Ends(rs)[Len(rs) - k]
    OBVIOUS
  <1>5. /\ m \in 1 .. Len(rs) /\ Len(rs) - m + 1 = k /\ m - 1 = Len(rs) - k
        /\ Len(rs) - k \in 0 .. Len(rs) /\ Len(rs) \in Nat
    BY <1>1
  <1>6. tail \in Texts /\ (m = 1 => tail = <<>>)
    <2>1. Ends(rs)[Len(rs) - k] \in Texts /\ Ends(rs)[0] = <<>>
      BY <1>5, EndsIs
    <2>2. m = 1 => Len(rs) - k = 0
      BY <1>5
    <2> QED BY <1>4, <2>1, <2>2
  <1>7. Ends(rs)[m] = rule \o (IF m = 1 THEN <<>> ELSE <<"|">> \o tail)
    <2>1. Ends(rs)[m] = rs[Len(rs) - m + 1] \o
                        (IF m = 1 THEN <<>> ELSE <<"|">> \o Ends(rs)[m - 1])
      BY <1>5, EndsIs
    <2> QED BY <1>2, <1>4, <1>5, <2>1
  <1>8. rule \in Texts /\ (Plain(rule) \/ Regex(rule))
    BY <1>2 DEF WellWritten
  <1>9. SubSeq(rs, 1, k) = Append(taken, rule)
    <2>1. 1 \in 1 .. Len(rs) /\ k \in 1 .. Len(rs)
      BY <1>5
    <2>2. SubSeq(rs, 1, k) = taken \o <<rule>>
      BY <1>2, <1>3, <2>1, SubSeqRecursiveSecond
    <2>3. \A i \in 1 .. k - 1 : rs[i] \in Texts
      BY <1>5
    <2>4. taken \in Seq(Texts)
      BY <1>3, <1>5, <2>3, SubSeqProperties
    <2> QED BY <1>8, <2>2, <2>4, AppendIsConcat
  <1>10. Turn([found |-> taken, left |-> Ends(rs)[m]]) =
            [found |-> Append(taken, rule), left |-> tail]
    <2>1. CASE m = 1
      <3>1. rule \o <<>> = rule
        BY <1>8, ConcatEmptySeq DEF Texts
      <3>2. Ends(rs)[m] = rule
        BY <1>7, <2>1, <3>1
      <3> QED BY <1>6, <1>8, <2>1, <3>2, TurnOfLast
    <2>2. CASE m # 1
      <3>1. Ends(rs)[m] = rule \o (<<"|">> \o tail)
        BY <1>7, <2>2
      <3> QED BY <1>6, <1>8, <3>1, TurnOfFirst
    <2> QED BY <2>1, <2>2
  <1> QED BY <1>1, <1>3, <1>4, <1>9, <1>10

LEMMA JoinedIs ==
  ASSUME NEW rs \in Seq(Texts), WellWritten(rs)
  PROVE  /\ Joined(rs) \in Texts /\ Joined(rs) = Ends(rs)[Len(rs)]
         /\ Len(rs) \in Nat /\ Len(Joined(rs)) \in Nat /\ Len(Joined(rs)) >= Len(rs)
  <1>1. Len(rs) \in Nat /\ Len(rs) \in 0 .. Len(rs)
    BY LenProperties
  <1>2. Joined(rs) \in Texts /\ Joined(rs) = Ends(rs)[Len(rs)]
    BY <1>1, EndsIs DEF Joined
  <1>3. Len(Joined(rs)) \in Nat /\ Len(Joined(rs)) >= Len(rs)
    BY <1>1, <1>2, EndsLong, LenProperties DEF Texts
  <1> QED BY <1>1, <1>2, <1>3

\* As many turns as there are rules take them all,
LEMMA TurnsTake ==
  ASSUME NEW rs \in Seq(Texts), WellWritten(rs), NEW n \in 0 .. Len(rs)
  PROVE  Turns(Joined(rs))[n] =
            [found |-> SubSeq(rs, 1, n), left |-> Ends(rs)[Len(rs) - n]]
  <1> DEFINE Should(k) == [found |-> SubSeq(rs, 1, k), left |-> Ends(rs)[Len(rs) - k]]
             Bad == {k \in 0 .. Len(rs) : Turns(Joined(rs))[k] # Should(k)}
  <1> SUFFICES ASSUME Bad # {} PROVE FALSE
    OBVIOUS
  <1>0. Bad \subseteq Nat /\ Len(rs) \in Nat
    BY LenProperties
  <1>1. PICK k \in Bad : \A m \in Bad : k <= m
    <2> HIDE DEF Bad
    <2> QED BY <1>0, Least
  <1>2. k \in 0 .. Len(rs) /\ k \in Nat /\ Turns(Joined(rs))[k] # Should(k)
    BY <1>0, <1>1
  <1>3. CASE k = 0
    <2>1. Turns(Joined(rs))[0] = [found |-> <<>>, left |-> Joined(rs)]
      BY JoinedIs, TurnsIs
    <2>2. SubSeq(rs, 1, 0) = <<>> /\ Len(rs) - 0 = Len(rs)
      BY <1>0, SubSeqEmpty
    <2> QED BY <1>2, <1>3, <2>1, <2>2, JoinedIs
  <1>4. CASE k # 0
    <2>1. /\ k \in 1 .. Len(rs) /\ k - 1 \in 0 .. Len(rs) /\ ~(k <= k - 1)
          /\ Len(rs) - (k - 1) = Len(rs) - k + 1
      BY <1>0, <1>2, <1>4
    <2>2. k \in 1 .. Len(Joined(rs))
      BY <2>1, JoinedIs
    <2>3. Turns(Joined(rs))[k] = Turn(Turns(Joined(rs))[k - 1])
      BY <2>2, JoinedIs, TurnsIs
    <2>4. Turns(Joined(rs))[k - 1] = Should(k - 1)
      <3> HIDE DEF Should
      <3> QED BY <1>1, <2>1
    <2>5. Turn(Should(k - 1)) = Should(k)
      BY <2>1, TurnTakes
    <2> HIDE DEF Should
    <2> QED BY <1>2, <2>3, <2>4, <2>5
  <1> QED BY <1>3, <1>4

\* and the turns after those take nothing more.
LEMMA TurnsEnd ==
  ASSUME NEW rs \in Seq(Texts), WellWritten(rs), NEW n \in Len(rs) .. Len(Joined(rs))
  PROVE  Turns(Joined(rs))[n] = [found |-> rs, left |-> <<>>]
  <1> DEFINE Bad == {k \in Len(rs) .. Len(Joined(rs)) :
                        Turns(Joined(rs))[k] # [found |-> rs, left |-> <<>>]}
  <1> SUFFICES ASSUME Bad # {} PROVE FALSE
    OBVIOUS
  <1>0. Bad \subseteq Nat /\ Len(rs) \in Nat
    BY LenProperties, JoinedIs
  <1>1. PICK k \in Bad : \A m \in Bad : k <= m
    <2> HIDE DEF Bad
    <2> QED BY <1>0, Least
  <1>2. /\ k \in Len(rs) .. Len(Joined(rs)) /\ k \in Nat
        /\ Turns(Joined(rs))[k] # [found |-> rs, left |-> <<>>]
    BY <1>0, <1>1
  <1>3. CASE k = Len(rs)
    <2>1. Turns(Joined(rs))[Len(rs)] =
             [found |-> SubSeq(rs, 1, Len(rs)), left |-> Ends(rs)[Len(rs) - Len(rs)]]
      <3>1. Len(rs) \in 0 .. Len(rs)
        BY <1>0
      <3> QED BY <3>1, TurnsTake
    <2>2. SubSeq(rs, 1, Len(rs)) = rs
      BY SubSeqFull
    <2>3. Ends(rs)[0] = <<>>
      BY EndsIs
    <2>4. Len(rs) - Len(rs) = 0
      BY <1>0
    <2> QED BY <1>2, <1>3, <2>1, <2>2, <2>3, <2>4
  <1>4. CASE k # Len(rs)
    <2>1. k - 1 \in Len(rs) .. Len(Joined(rs)) /\ ~(k <= k - 1) /\ k \in 1 .. Len(Joined(rs))
      BY <1>0, <1>2, <1>4, JoinedIs
    <2>2. Turns(Joined(rs))[k] = Turn(Turns(Joined(rs))[k - 1])
      BY <2>1, JoinedIs, TurnsIs
    <2>3. Turns(Joined(rs))[k - 1] = [found |-> rs, left |-> <<>>]
      BY <1>1, <2>1
    <2>4. Turn([found |-> rs, left |-> <<>>]) = [found |-> rs, left |-> <<>>]
      BY DEF Turn
    <2> QED BY <1>2, <2>2, <2>3, <2>4
  <1> QED BY <1>3, <1>4

\* parse_rules finds the rules their author joined.
LEMMA RulesAreFound ==
  ASSUME NEW rs \in Seq(Texts), WellWritten(rs)
  PROVE  parse_rules(Joined(rs)) = rs
  <1>1. Len(Joined(rs)) \in Len(rs) .. Len(Joined(rs))
    BY JoinedIs
  <1>2. Turns(Joined(rs))[Len(Joined(rs))] = [found |-> rs, left |-> <<>>]
    BY <1>1, TurnsEnd
  <1> QED BY <1>2 DEF parse_rules

USE EggConstantsOK

-----------------------------------------------------------------------------
(* Eggs and their import: what the steps of the catalogue keep.            *)

EggTypes ==
    /\ egg \in [Eggs -> Row]
    /\ evar \in [Vars -> [row : Row, egg : Id, spec : Specs \cup {None}]]
    /\ script \in [Eggs -> Scripts \cup {None}]
    /\ cfile \in [Files -> [row : Row, egg : Id]]
    /\ Importing => /\ import \in [egg : Eggs, doc : Docs, next : Nat \ {0}]
                    /\ import.next <= Len(import.doc.vars) + 1
    /\ begun \in 0 .. MaxBegun
    /\ origin \in [Eggs -> Docs \cup {None}]
    /\ edited \subseteq Eggs /\ whole \subseteq Eggs

OfEggs ==
    /\ \A x \in Vars : evar[x].row = "live" => Live(evar[x].egg)
    /\ \A f \in Files : cfile[f].row = "live" => Live(cfile[f].egg)
    /\ \A e \in Eggs : script[e] # None => Live(e)

\* The variables of e, with what they say.
Said(e) == {evar[x].spec : x \in VarsOf(e)}

\* The first n variables of document d.
First(d, n) == {d.vars[k] : k \in 1 .. n}

EggPast ==
    /\ EggTypes /\ OfEggs /\ Born /\ ImportHeld
    /\ \A e \in Eggs : InOrder(e)

LEMMA NoImportIsNone == NoImport.egg = None /\ NoImport.egg \notin Eggs
  BY DEF NoImport

\* An egg nothing was done to stays in order.
LEMMA OrderKept ==
  ASSUME NEW e \in Eggs, InOrder(e),
         Live(e)' => Live(e),
         VarsOf(e)' = VarsOf(e), \A x \in VarsOf(e) : evar'[x] = evar[x],
         script'[e] = script[e], origin'[e] = origin[e],
         e \in edited => e \in edited', e \in whole' => e \in whole,
         import'.egg = e => import' = import
  PROVE  InOrder(e)'
  <1>1. Said(e)' = Said(e)
    BY DEF Said
  <1>2. Cardinality(VarsOf(e))' = Cardinality(VarsOf(e))
    OBVIOUS
  <1> QED BY <1>1, <1>2, Zenon DEF InOrder, Said

\* Only rows of e, and rows of no egg, change.
Touches(e) == \A x \in Vars : evar'[x] # evar[x] =>
    /\ evar[x].row = "live" => evar[x].egg = e
    /\ evar'[x].row = "live" => evar'[x].egg = e

LEMMA OthersUntouched ==
  ASSUME NEW e, Touches(e), NEW o, o # e
  PROVE  VarsOf(o)' = VarsOf(o) /\ \A x \in VarsOf(o) : evar'[x] = evar[x]
  BY DEF Touches, VarsOf

LEMMA InitEggPast == EggInit => EggPast
  <1> SUFFICES ASSUME EggInit PROVE EggPast
    OBVIOUS
  <1> USE DEF EggInit
  <1>1. EggTypes
    BY DEF EggTypes, Row, Id, Unborn, NoFile, Importing
  <1>2. OfEggs /\ Born /\ ImportHeld
    BY DEF OfEggs, Born, ImportHeld, Importing, Unborn, NoFile
  <1>3. ASSUME NEW e \in Eggs PROVE InOrder(e)
    BY DEF InOrder, Live
  <1> QED BY <1>1, <1>2, <1>3 DEF EggPast

LEMMA CreateEggKeeps ==
  ASSUME EggPast, NEW e \in Eggs, create_egg(e)
  PROVE  EggPast'
  <1> USE DEF create_egg, Count
  <1>1. EggTypes'
    BY DEF EggPast, EggTypes, Row, Importing
  <1>2. OfEggs'
    BY DEF EggPast, EggTypes, OfEggs, Live, Born
  <1>3. Born' /\ ImportHeld'
    BY DEF EggPast, EggTypes, Born, ImportHeld, Importing
  <1>4. ASSUME NEW o \in Eggs PROVE InOrder(o)'
    <2>1. CASE o = e
      BY <2>1 DEF EggPast, EggTypes, Born, InOrder
    <2>2. CASE o # e
      BY <2>2, OrderKept DEF EggPast, EggTypes, Live, VarsOf
    <2> QED BY <2>1, <2>2
  <1> QED BY <1>1, <1>2, <1>3, <1>4 DEF EggPast

LEMMA DeleteEggKeeps ==
  ASSUME EggPast, NEW e \in Eggs, NEW used, delete_egg(e, used)
  PROVE  EggPast'
  <1> USE DEF delete_egg, Count
  <1>1. /\ \A x \in Vars : evar'[x].egg = evar[x].egg /\ evar'[x].spec = evar[x].spec
        /\ \A x \in Vars : evar'[x].row = "live" => evar'[x] = evar[x] /\ x \notin VarsOf(e)
        /\ \A x \in Vars : evar'[x] \in [row : Row, egg : Id, spec : Specs \cup {None}]
    <2> SUFFICES ASSUME NEW x \in Vars
                 PROVE  /\ evar'[x].egg = evar[x].egg /\ evar'[x].spec = evar[x].spec
                        /\ evar'[x].row = "live" => evar'[x] = evar[x] /\ x \notin VarsOf(e)
                        /\ evar'[x] \in [row : Row, egg : Id, spec : Specs \cup {None}]
      OBVIOUS
    <2>0. evar[x] \in [row : Row, egg : Id, spec : Specs \cup {None}]
      BY DEF EggPast, EggTypes
    <2>1. CASE x \in VarsOf(e)
      <3>1. evar'[x] = [evar[x] EXCEPT !.row = "deleted"]
        BY <2>1
      <3> QED BY <2>0, <3>1 DEF Row
    <2>2. CASE x \notin VarsOf(e)
      <3>1. evar'[x] = evar[x]
        BY <2>2
      <3> QED BY <2>0, <2>2, <3>1
    <2> QED BY <2>1, <2>2
  <1>2. /\ \A f \in Files : cfile'[f].egg = cfile[f].egg
        /\ \A f \in Files : cfile'[f].row = "live" => cfile'[f] = cfile[f] /\ f \notin FilesOf(e)
        /\ \A f \in Files : cfile'[f] \in [row : Row, egg : Id]
    BY DEF EggPast, EggTypes, Row
  <1>3. EggTypes'
    BY <1>1, <1>2 DEF EggPast, EggTypes, Row, Importing
  <1>4. OfEggs'
    <2>1. ASSUME NEW x \in Vars, evar'[x].row = "live" PROVE egg'[evar'[x].egg] = "live"
      <3>1. x \notin VarsOf(e) /\ evar'[x] = evar[x] /\ evar[x].egg \in Eggs /\ evar[x].egg # e
        BY <1>1, <2>1 DEF EggPast, Born, VarsOf
      <3> QED BY <2>1, <3>1 DEF EggPast, EggTypes, OfEggs, Live
    <2>2. ASSUME NEW f \in Files, cfile'[f].row = "live" PROVE egg'[cfile'[f].egg] = "live"
      <3>1. f \notin FilesOf(e) /\ cfile'[f] = cfile[f] /\ cfile[f].egg \in Eggs /\ cfile[f].egg # e
        BY <1>2, <2>2 DEF EggPast, Born, FilesOf
      <3> QED BY <2>2, <3>1 DEF EggPast, EggTypes, OfEggs, Live
    <2>3. ASSUME NEW o \in Eggs, script'[o] # None PROVE Live(o)'
      BY <2>3 DEF EggPast, EggTypes, OfEggs, Live
    <2> QED BY <2>1, <2>2, <2>3 DEF OfEggs, Live
  <1>5. Born'
    BY <1>1, <1>2 DEF EggPast, EggTypes, Born
  <1>6. ImportHeld'
    BY DEF EggPast, EggTypes, ImportHeld, Importing
  <1>7. ASSUME NEW o \in Eggs PROVE InOrder(o)'
    <2>1. CASE o = e
      BY <2>1 DEF EggPast, EggTypes, InOrder, Live
    <2>2. CASE o # e
      <3>1. Touches(e)
        BY <1>1 DEF Touches, VarsOf
      <3>2. VarsOf(o)' = VarsOf(o) /\ \A x \in VarsOf(o) : evar'[x] = evar[x]
        BY <3>1, <2>2, OthersUntouched
      <3> QED BY <2>2, <3>2, OrderKept DEF EggPast, EggTypes, Live
    <2> QED BY <2>1, <2>2
  <1> QED BY <1>3, <1>4, <1>5, <1>6, <1>7 DEF EggPast

\* A variable is added to e, at the end of an import or by hand.
LEMMA Added ==
  ASSUME EggPast, NEW e \in Eggs, NEW spec \in Specs, AddVariable(e, spec)
  PROVE  /\ \E x \in Vars \ VarsOf(e) :
               /\ VarsOf(e)' = VarsOf(e) \cup {x} /\ evar'[x].spec = spec
               /\ \A y \in VarsOf(e) : evar'[y] = evar[y]
         /\ Touches(e)
         /\ evar' \in [Vars -> [row : Row, egg : Id, spec : Specs \cup {None}]]
         /\ \A y \in Vars : evar'[y].row = "live" =>
               evar'[y] = evar[y] \/ (evar'[y].egg = e /\ evar'[y].spec \in Specs)
  <1>1. PICK x \in Vars :
           /\ evar[x].row = "unborn"
           /\ evar' = [evar EXCEPT ![x] = [row |-> "live", egg |-> e, spec |-> spec]]
    BY DEF AddVariable
  <1>2. evar \in [Vars -> [row : Row, egg : Id, spec : Specs \cup {None}]]
    BY DEF EggPast, EggTypes
  <1>3. evar'[x] = [row |-> "live", egg |-> e, spec |-> spec]
    BY <1>1, <1>2
  <1>4. \A y \in Vars : y # x => evar'[y] = evar[y]
    BY <1>1, <1>2
  <1>5. x \notin VarsOf(e)
    BY <1>1 DEF VarsOf
  <1>6. VarsOf(e)' = VarsOf(e) \cup {x}
    BY <1>1, <1>3, <1>4 DEF VarsOf
  <1>7. Touches(e)
    BY <1>1, <1>3, <1>4 DEF Touches
  <1>8. evar' \in [Vars -> [row : Row, egg : Id, spec : Specs \cup {None}]]
    BY <1>1, <1>2 DEF Row, Id
  <1>a. \A y \in VarsOf(e) : y \in Vars /\ y # x
    BY <1>5 DEF VarsOf
  <1>9. x \in Vars \ VarsOf(e) /\ evar'[x].spec = spec /\ \A y \in VarsOf(e) : evar'[y] = evar[y]
    BY <1>3, <1>4, <1>5, <1>a
  <1>10. \A y \in Vars : evar'[y].row = "live" =>
            evar'[y] = evar[y] \/ (evar'[y].egg = e /\ evar'[y].spec \in Specs)
    BY <1>3, <1>4
  <1> QED BY <1>6, <1>7, <1>8, <1>9, <1>10

\* The steps that write variables, scripts or files of an egg already there.
LEMMA RowsOfOthersKeep ==
  ASSUME EggPast, NEW e \in Eggs, Touches(e), egg' = egg, origin' = origin,
         whole' = whole, import' = import, edited' = edited \cup {e},
         \A o \in Eggs \ {e} : script'[o] = script[o]
  PROVE  \A o \in Eggs : InOrder(o)'
  <1> SUFFICES ASSUME NEW o \in Eggs PROVE InOrder(o)'
    OBVIOUS
  <1>1. CASE o = e
    BY <1>1 DEF InOrder
  <1>2. CASE o # e
    <2>1. VarsOf(o)' = VarsOf(o) /\ \A x \in VarsOf(o) : evar'[x] = evar[x]
      BY <1>2, OthersUntouched
    <2>2. InOrder(o) /\ (Live(o)' => Live(o)) /\ (o \in edited => o \in edited')
      BY DEF EggPast, Live
    <2> QED BY <1>2, <2>1, <2>2, OrderKept
  <1> QED BY <1>1, <1>2

LEMMA CreateVariableKeeps ==
  ASSUME EggPast, NEW e \in Eggs, NEW spec \in Specs, create_variable(e, spec)
  PROVE  EggPast'
  <1> USE DEF create_variable, Count
  <1>1. /\ Touches(e)
        /\ evar' \in [Vars -> [row : Row, egg : Id, spec : Specs \cup {None}]]
        /\ \A y \in Vars : evar'[y].row = "live" =>
               evar'[y] = evar[y] \/ (evar'[y].egg = e /\ evar'[y].spec \in Specs)
    BY Added
  <1>2. EggTypes'
    BY <1>1 DEF EggPast, EggTypes, Importing
  <1>3. OfEggs' /\ Born' /\ ImportHeld'
    BY <1>1 DEF EggPast, EggTypes, OfEggs, Born, ImportHeld, Importing, Live
  <1>4. \A o \in Eggs : InOrder(o)'
    BY <1>1, RowsOfOthersKeep
  <1> QED BY <1>2, <1>3, <1>4 DEF EggPast

LEMMA DeleteVariableKeeps ==
  ASSUME EggPast, NEW e \in Eggs, NEW x \in Vars, delete_variable(e, x)
  PROVE  EggPast'
  <1> USE DEF delete_variable, Count
  <1>0. evar[x] \in [row : Row, egg : Id, spec : Specs \cup {None}]
    BY DEF EggPast, EggTypes
  <1>1. evar' = [evar EXCEPT ![x] = [evar[x] EXCEPT !.row = "deleted"]]
    OBVIOUS
  <1>a. PICK old \in [row : Row, egg : Id, spec : Specs \cup {None}] : old = evar[x]
    BY <1>0
  <1>b. /\ [old EXCEPT !.row = "deleted"] \in [row : Row, egg : Id, spec : Specs \cup {None}]
        /\ [old EXCEPT !.row = "deleted"].row = "deleted"
    BY DEF Row
  <1>2. PICK gone \in [row : Row, egg : Id, spec : Specs \cup {None}] :
           gone = [old EXCEPT !.row = "deleted"] /\ gone.row = "deleted"
    BY <1>b, Zenon
  <1>3. evar' = [evar EXCEPT ![x] = gone]
    BY <1>a, <1>1, <1>2
  <1>4. /\ evar' \in [Vars -> [row : Row, egg : Id, spec : Specs \cup {None}]]
        /\ \A y \in Vars : evar'[y].row = "live" => evar'[y] = evar[y]
    BY <1>2, <1>3 DEF EggPast, EggTypes
  <1>5. Touches(e)
    BY <1>2, <1>3 DEF EggPast, EggTypes, Touches, VarsOf
  <1>6. EggTypes'
    BY <1>4 DEF EggPast, EggTypes, Importing
  <1>7. OfEggs' /\ Born' /\ ImportHeld'
    BY <1>4 DEF EggPast, EggTypes, OfEggs, Born, ImportHeld, Importing, Live
  <1>8. \A o \in Eggs : InOrder(o)'
    BY <1>5, RowsOfOthersKeep
  <1> QED BY <1>6, <1>7, <1>8 DEF EggPast

LEMMA UpsertScriptKeeps ==
  ASSUME EggPast, NEW e \in Eggs, NEW t \in Scripts, upsert_install_script(e, t)
  PROVE  EggPast'
  <1> USE DEF upsert_install_script, Count
  <1>1. Touches(e)
    BY DEF Touches
  <1>2. EggTypes'
    BY DEF EggPast, EggTypes, Importing
  <1>3. OfEggs' /\ Born' /\ ImportHeld'
    BY DEF EggPast, EggTypes, OfEggs, Born, ImportHeld, Importing, Live
  <1>4. \A o \in Eggs : InOrder(o)'
    BY <1>1, RowsOfOthersKeep DEF EggPast, EggTypes
  <1> QED BY <1>2, <1>3, <1>4 DEF EggPast

\* Config files are no part of an import.
LEMMA FilesKeep ==
  ASSUME EggPast, cfile' \in [Files -> [row : Row, egg : Id]],
         \A f \in Files : cfile'[f].row = "live" =>
            cfile'[f] = cfile[f] \/ (cfile'[f].egg \in Eggs /\ Live(cfile'[f].egg)),
         UNCHANGED <<egg, evar, script, import, origin, edited, whole>>,
         begun' \in 0 .. MaxBegun
  PROVE  EggPast'
  <1>1. EggTypes'
    BY DEF EggPast, EggTypes, Importing
  <1>2. OfEggs' /\ Born' /\ ImportHeld'
    BY DEF EggPast, OfEggs, Born, ImportHeld, Importing, Live
  <1>3. ASSUME NEW o \in Eggs PROVE InOrder(o)'
    BY OrderKept DEF EggPast, Live, VarsOf
  <1> QED BY <1>1, <1>2, <1>3 DEF EggPast

LEMMA ConfigFilesKeep ==
  ASSUME EggPast, NEW e \in Eggs
  PROVE  /\ \A p : create_config_file(e, p) => EggPast'
         /\ \A f \in Files : delete_config_file(e, f) => EggPast'
  <1>1. ASSUME NEW p, create_config_file(e, p) PROVE EggPast'
    <2>1. PICK f \in Files : cfile' = [cfile EXCEPT ![f] = [row |-> "live", egg |-> e]]
      BY <1>1 DEF create_config_file
    <2>2. begun' \in 0 .. MaxBegun /\ Live(e)
      BY <1>1 DEF create_config_file, Count, EggPast, EggTypes
    <2>3. /\ cfile' \in [Files -> [row : Row, egg : Id]]
          /\ \A g \in Files : cfile'[g] = cfile[g] \/ cfile'[g].egg = e
      BY <2>1 DEF EggPast, EggTypes, Row, Id
    <2> QED BY <1>1, <2>2, <2>3, FilesKeep DEF create_config_file
  <1>2. ASSUME NEW f \in Files, delete_config_file(e, f) PROVE EggPast'
    <2>0. cfile \in [Files -> [row : Row, egg : Id]]
      BY DEF EggPast, EggTypes
    <2>a. PICK old \in [row : Row, egg : Id] : old = cfile[f]
      BY <2>0
    <2>b. /\ [old EXCEPT !.row = "deleted"] \in [row : Row, egg : Id]
          /\ [old EXCEPT !.row = "deleted"].row = "deleted"
      BY DEF Row
    <2>1. PICK gone \in [row : Row, egg : Id] :
             gone = [old EXCEPT !.row = "deleted"] /\ gone.row = "deleted"
      BY <2>b, Zenon
    <2>2. cfile' = [cfile EXCEPT ![f] = gone]
      BY <1>2, <2>a, <2>1 DEF delete_config_file
    <2>3. begun' \in 0 .. MaxBegun
      BY <1>2 DEF delete_config_file, Count, EggPast, EggTypes
    <2>4. /\ cfile' \in [Files -> [row : Row, egg : Id]]
          /\ \A g \in Files : cfile'[g].row = "live" => cfile'[g] = cfile[g]
      BY <2>0, <2>1, <2>2
    <2> QED BY <1>2, <2>3, <2>4, FilesKeep DEF delete_config_file
  <1> QED BY <1>1, <1>2

-----------------------------------------------------------------------------
(* The steps of import_egg.                                                *)

LEMMA ImportEggKeeps ==
  ASSUME EggPast, NEW d \in Docs, ImportEgg(d)
  PROVE  EggPast'
  <1> USE DEF ImportEgg, Count
  <1>1. PICK e \in Eggs :
           /\ egg[e] = "unborn"
           /\ egg' = [egg EXCEPT ![e] = "live"]
           /\ import' = [egg |-> e, doc |-> d, next |-> 1]
           /\ origin' = [origin EXCEPT ![e] = d]
    OBVIOUS
  <1>2. import' \in [egg : Eggs, doc : Docs, next : Nat \ {0}] /\ Len(d.vars) \in Nat
        /\ d # None
    BY <1>1
  <1>3. EggTypes'
    BY <1>1, <1>2 DEF EggPast, EggTypes, Row, Importing
  <1>4. OfEggs'
    BY <1>1 DEF EggPast, EggTypes, OfEggs, Live, Born
  <1>5. VarsOf(e) = {} /\ script[e] = None /\ e \notin whole
    BY <1>1 DEF EggPast, OfEggs, Live, Born, VarsOf
  <1>6. Born' /\ ImportHeld'
    BY <1>1, <1>5 DEF EggPast, EggTypes, Born, ImportHeld, Importing
  <1>7. ASSUME NEW o \in Eggs PROVE InOrder(o)'
    <2>1. CASE o = e
      <3>1. origin'[e] = d /\ VarsOf(e)' = {} /\ script'[e] = None /\ e \notin whole'
            /\ import'.next = 1
        BY <1>1, <1>5 DEF EggPast, EggTypes, VarsOf
      <3>2. Cardinality({}) = 0
        BY FS_EmptySet
      <3>3. {evar'[x].spec : x \in {}} = {} /\ {d.vars[k] : k \in 1 .. 0} = {}
        OBVIOUS
      <3> QED BY <2>1, <3>1, <3>2, <3>3 DEF InOrder
    <2>2. CASE o # e
      BY <1>1, <2>2, OrderKept DEF EggPast, EggTypes, Live, VarsOf
    <2> QED BY <2>1, <2>2
  <1> QED BY <1>3, <1>4, <1>6, <1>7 DEF EggPast

LEMMA FirstAndNext ==
  ASSUME NEW d, NEW n \in Nat
  PROVE  First(d, n + 1) = First(d, n) \cup {d.vars[n + 1]}
  <1>1. 1 .. n + 1 = (1 .. n) \cup {n + 1}
    OBVIOUS
  <1> QED BY <1>1 DEF First

LEMMA ImportVarKeeps ==
  ASSUME EggPast, ImportVar
  PROVE  EggPast'
  <1> USE DEF ImportVar
  <1>0. /\ import \in [egg : Eggs, doc : Docs, next : Nat \ {0}]
        /\ import.next <= Len(import.doc.vars)
    BY DEF EggPast, EggTypes, VarsLeft
  <1>a. PICK e \in Eggs, d \in Docs, k \in Nat \ {0} :
           import.egg = e /\ import.doc = d /\ import.next = k
    BY <1>0
  <1>1. d.vars \in Seq(Specs) /\ Len(d.vars) \in Nat /\ k \in 1 .. Len(d.vars)
    BY <1>0, <1>a
  <1>b. PICK spec \in Specs : spec = d.vars[k]
    BY <1>1, ElementOfSeq
  <1>2. AddVariable(e, spec) /\ Live(e)
    BY <1>a, <1>b
  <1>3. /\ \E x \in Vars \ VarsOf(e) :
               /\ VarsOf(e)' = VarsOf(e) \cup {x} /\ evar'[x].spec = spec
               /\ \A y \in VarsOf(e) : evar'[y] = evar[y]
        /\ Touches(e)
        /\ evar' \in [Vars -> [row : Row, egg : Id, spec : Specs \cup {None}]]
        /\ \A y \in Vars : evar'[y].row = "live" =>
               evar'[y] = evar[y] \/ (evar'[y].egg = e /\ evar'[y].spec \in Specs)
    BY <1>2, Added
  <1>4. /\ import' \in [egg : Eggs, doc : Docs, next : Nat \ {0}]
        /\ import'.egg = e /\ import'.doc = d /\ import'.next = k + 1
    BY <1>0, <1>a
  <1>c. /\ UNCHANGED <<egg, script, cfile, begun, origin, edited, whole>>
        /\ Importing
    OBVIOUS
  <1>5. EggTypes'
    BY <1>1, <1>3, <1>4, <1>c DEF EggPast, EggTypes
  <1>6. OfEggs' /\ Born'
    BY <1>2, <1>3, <1>c DEF EggPast, EggTypes, OfEggs, Born, Live
  <1>7. ImportHeld'
    BY <1>a, <1>4, <1>c DEF EggPast, ImportHeld
  <1>8. InOrder(e)'
    <2> SUFFICES ASSUME origin[e] # None, e \notin edited PROVE InOrder(e)'
      BY <1>c, Zenon DEF InOrder
    <2>1. /\ InOrder(e) /\ origin[e] = d /\ script[e] = None /\ e \notin whole
      BY <1>a, <1>c DEF EggPast, ImportHeld
    <2>2. PICK n : n = Cardinality(VarsOf(e))
      OBVIOUS
    <2>3. Said(e) = First(d, n) /\ k = n + 1
      <3>1. Live(e) /\ origin[e] # None /\ import.egg = e
        BY <1>a, <1>2
      <3>2. /\ Said(e) = First(origin[e], Cardinality(VarsOf(e)))
            /\ import.next = Cardinality(VarsOf(e)) + 1
        BY <2>1, <3>1, Zenon DEF InOrder, Said, First
      <3> QED BY <1>a, <2>1, <2>2, <3>2
    <2>4. PICK x \in Vars \ VarsOf(e) :
             /\ VarsOf(e)' = VarsOf(e) \cup {x} /\ evar'[x].spec = spec
             /\ \A y \in VarsOf(e) : evar'[y] = evar[y]
      BY <1>3
    <2>5. IsFiniteSet(VarsOf(e)) /\ n \in Nat
      <3>1. VarsOf(e) \in SUBSET Vars
        BY DEF VarsOf
      <3> QED BY <2>2, <3>1, FS_Subset, FS_CardinalityType
    <2>6. Cardinality(VarsOf(e))' = n + 1
      BY <2>2, <2>4, <2>5, FS_AddElement
    <2>7. Said(e)' = Said(e) \cup {spec}
      BY <2>4 DEF Said
    <2>8. Said(e)' = First(d, n + 1)
      BY <1>b, <2>3, <2>5, <2>7, FirstAndNext
    <2>9. /\ origin'[e] = d /\ script'[e] = None /\ e \notin whole'
          /\ import'.next = Cardinality(VarsOf(e))' + 1
      BY <1>4, <1>c, <2>1, <2>3, <2>6
    <2>10. Said(e)' = First(origin'[e], Cardinality(VarsOf(e))')
      BY <2>6, <2>8, <2>9
    <2> QED BY <2>9, <2>10, Zenon DEF InOrder, Said, First
  <1>9. ASSUME NEW o \in Eggs \ {e} PROVE InOrder(o)'
    <2>1. VarsOf(o)' = VarsOf(o) /\ \A x \in VarsOf(o) : evar'[x] = evar[x]
      BY <1>3, OthersUntouched
    <2>2. InOrder(o) /\ (Live(o)' => Live(o))
      BY <1>c DEF EggPast, Live
    <2> QED BY <1>4, <1>c, <2>1, <2>2, OrderKept
  <1> QED BY <1>5, <1>6, <1>7, <1>8, <1>9 DEF EggPast

LEMMA ImportScriptKeeps ==
  ASSUME EggPast, ImportScript
  PROVE  EggPast'
  <1>0. /\ import \in [egg : Eggs, doc : Docs, next : Nat \ {0}]
        /\ import.next <= Len(import.doc.vars) + 1
        /\ ~(import.next <= Len(import.doc.vars))
    BY DEF EggPast, EggTypes, VarsLeft, ImportScript
  <1>a. PICK e \in Eggs, d \in Docs, k \in Nat \ {0} :
           import.egg = e /\ import.doc = d /\ import.next = k
    BY <1>0
  <1>1. Len(d.vars) \in Nat /\ k = Len(d.vars) + 1 /\ d.script \in Scripts \cup {None}
    BY <1>0, <1>a
  <1>2. /\ d.script # None => Live(e)
        /\ script' = IF d.script = None THEN script ELSE [script EXCEPT ![e] = d.script]
        /\ whole' = whole \cup {e}
        /\ import' = NoImport
        /\ UNCHANGED <<egg, evar, cfile, begun, origin, edited>>
        /\ Importing
    BY <1>a DEF ImportScript
  <1>3. script' \in [Eggs -> Scripts \cup {None}] /\ (\A o \in Eggs \ {e} : script'[o] = script[o])
        /\ script'[e] \in {script[e], d.script}
    BY <1>1, <1>2 DEF EggPast, EggTypes
  <1>4. EggTypes'
    BY <1>2, <1>3 DEF EggPast, EggTypes, Importing
  <1>5. OfEggs'
    BY <1>2, <1>3 DEF EggPast, OfEggs, Live
  <1>6. Born' /\ ImportHeld'
    BY <1>a, <1>2 DEF EggPast, Born, ImportHeld, Importing
  <1>7. InOrder(e)'
    <2> SUFFICES ASSUME Live(e), origin[e] # None, e \notin edited PROVE InOrder(e)'
      BY <1>2, Zenon DEF InOrder, Live
    <2>1. /\ InOrder(e) /\ origin[e] = d /\ script[e] = None
      BY <1>a, <1>2 DEF EggPast, ImportHeld
    <2>2. Said(e) = First(d, Cardinality(VarsOf(e))) /\ k = Cardinality(VarsOf(e)) + 1
      <3>1. /\ Said(e) = First(origin[e], Cardinality(VarsOf(e)))
            /\ import.next = Cardinality(VarsOf(e)) + 1
        BY <1>a, <2>1, Zenon DEF InOrder, Said, First
      <3> QED BY <1>a, <2>1, <3>1
    <2>3. IsFiniteSet(VarsOf(e)) /\ Cardinality(VarsOf(e)) \in Nat
      <3>1. VarsOf(e) \in SUBSET Vars
        BY DEF VarsOf
      <3> QED BY <3>1, FS_Subset, FS_CardinalityType
    <2>4. VarsOf(e)' = VarsOf(e) /\ Said(e)' = Said(e)
      BY <1>2 DEF VarsOf, Said
    <2>5. Cardinality(VarsOf(e))' = Len(d.vars)
      BY <1>1, <2>2, <2>3, <2>4
    <2>6. script'[e] = d.script
      BY <1>2, <2>1 DEF EggPast, EggTypes
    <2>7. origin'[e] = d /\ import'.egg # e
      BY <1>2, <2>1, NoImportIsNone
    <2>8. Said(e)' = First(origin'[e], Cardinality(VarsOf(e))')
      BY <2>2, <2>4, <2>7
    <2> QED BY <2>5, <2>6, <2>7, <2>8, Zenon DEF InOrder, Said, First
  <1>8. ASSUME NEW o \in Eggs \ {e} PROVE InOrder(o)'
    <2>1. VarsOf(o)' = VarsOf(o) /\ \A x \in VarsOf(o) : evar'[x] = evar[x]
      BY <1>2 DEF VarsOf
    <2>2. InOrder(o) /\ (Live(o)' => Live(o)) /\ import'.egg # o
      BY <1>2, NoImportIsNone DEF EggPast, Live
    <2> QED BY <1>2, <1>3, <2>1, <2>2, OrderKept
  <1> QED BY <1>4, <1>5, <1>6, <1>7, <1>8 DEF EggPast

\* Nothing of the catalogue changes but, perhaps, that an import is given up.
LEMMA CatalogueSame ==
  ASSUME EggPast, UNCHANGED <<egg, evar, script, cfile, origin, edited, whole>>,
         import' = import \/ import' = NoImport, begun' \in 0 .. MaxBegun
  PROVE  EggPast'
  <1>1. EggTypes'
    BY DEF EggPast, EggTypes, Importing
  <1>2. OfEggs' /\ Born' /\ ImportHeld'
    BY DEF EggPast, OfEggs, Born, ImportHeld, Importing, Live
  <1>3. ASSUME NEW o \in Eggs PROVE InOrder(o)'
    <2>1. VarsOf(o)' = VarsOf(o) /\ \A x \in VarsOf(o) : evar'[x] = evar[x]
      BY DEF VarsOf
    <2>2. InOrder(o) /\ (Live(o)' => Live(o)) /\ (import'.egg = o => import' = import)
      BY NoImportIsNone DEF EggPast, Live
    <2> QED BY <2>1, <2>2, OrderKept
  <1> QED BY <1>1, <1>2, <1>3 DEF EggPast

\* Every step of the handlers of eggs.
LEMMA EggStepKeeps ==
  ASSUME EggPast, NEW used, EggStep(used)
  PROVE  EggPast'
  <1>0. begun' \in 0 .. MaxBegun
    BY DEF EggPast, EggTypes, EggStep, Count, create_egg, delete_egg, create_variable,
       delete_variable, upsert_install_script, create_config_file, delete_config_file,
       ExportEgg, ImportEgg, ImportVar, ImportScript, ImportFails, ExportVars,
       ExportInstall, ExportFiles
  <1>1. ASSUME NEW e \in Eggs,
               \/ create_egg(e) \/ delete_egg(e, used)
               \/ \E spec \in Specs : create_variable(e, spec)
               \/ \E x \in Vars : delete_variable(e, x)
               \/ \E t \in Scripts : upsert_install_script(e, t)
               \/ \E p \in Parsers : create_config_file(e, p)
               \/ \E f \in Files : delete_config_file(e, f)
        PROVE  EggPast'
    BY <1>1, CreateEggKeeps, DeleteEggKeeps, CreateVariableKeeps, DeleteVariableKeeps,
       UpsertScriptKeeps, ConfigFilesKeep
  <1>2. CASE (\E d \in Docs : ImportEgg(d)) \/ ImportVar \/ ImportScript
    BY <1>2, ImportEggKeeps, ImportVarKeeps, ImportScriptKeeps
  <1>3. CASE ImportFails
    BY <1>0, <1>3, CatalogueSame DEF ImportFails, catalogue
  <1>4. CASE (\E e \in Eggs : ExportEgg(e)) \/ ExportVars \/ ExportInstall \/ ExportFiles
    BY <1>0, <1>4, CatalogueSame DEF ExportEgg, ExportVars, ExportInstall, ExportFiles, catalogue
  <1> QED BY <1>1, <1>2, <1>3, <1>4, Zenon DEF EggStep

-----------------------------------------------------------------------------
(* export_egg_toml                                                         *)

ExportPast ==
    /\ export \in [pc : {"idle", "vars", "install", "files", "told"}, egg : Id, got : SUBSET All]
    /\ seen \subseteq All /\ kept \subseteq All
    /\ ExportHeld /\ ExportWhole

LEMMA RowsAre ==
  ASSUME NEW e \in Eggs, EggTypes
  PROVE  /\ Rows(e) = VarsOf(e) \cup FilesOf(e) \cup Script(e)
         /\ VarsOf(e) \subseteq Vars /\ FilesOf(e) \subseteq Files
         /\ Script(e) \subseteq Eggs \X Scripts
  <1>1. Script(e) \subseteq Eggs \X Scripts
    BY DEF EggTypes, Script
  <1> QED BY <1>1 DEF Rows, VarsOf, FilesOf, Script

LEMMA RowsAreLater ==
  ASSUME NEW e \in Eggs, EggTypes'
  PROVE  /\ Rows(e)' = VarsOf(e)' \cup FilesOf(e)' \cup Script(e)'
         /\ VarsOf(e)' \subseteq Vars /\ FilesOf(e)' \subseteq Files
         /\ Script(e)' \subseteq Eggs \X Scripts
  <1>1. Script(e)' \subseteq Eggs \X Scripts
    BY DEF EggTypes, Script
  <1> QED BY <1>1 DEF Rows, VarsOf, FilesOf, Script

LEMMA InitExportPast == EggInit => ExportPast
  BY DEF EggInit, ExportPast, ExportHeld, ExportWhole, Exporting, NoExport, Id

\* Whatever happens to the tables, what an export still has to read of what it
\* must hold is in the tables it still has to read.
LEMMA ExportSame ==
  ASSUME ExportPast, EggTypes, EggTypes', export' = export, Watch
  PROVE  ExportPast'
  <1>1. CASE ~Exporting
    BY <1>1 DEF ExportPast, ExportHeld, ExportWhole, Exporting, Watch
  <1>2. CASE Exporting
    <2>1. PICK e \in Eggs : export.egg = e
      BY <1>2 DEF ExportPast, ExportHeld
    <2>2. /\ seen' = seen \cup Rows(e)' /\ kept' = kept \cap Rows(e)'
      BY <1>2, <2>1 DEF Watch, Exporting
    <2>3. /\ Rows(e) = VarsOf(e) \cup FilesOf(e) \cup Script(e)
          /\ VarsOf(e) \subseteq Vars /\ FilesOf(e) \subseteq Files
          /\ Script(e) \subseteq Eggs \X Scripts
      BY RowsAre
    <2>4. /\ Rows(e)' = VarsOf(e)' \cup FilesOf(e)' \cup Script(e)'
          /\ VarsOf(e)' \subseteq Vars /\ FilesOf(e)' \subseteq Files
          /\ Script(e)' \subseteq Eggs \X Scripts
      BY RowsAreLater
    <2>5. seen' \subseteq All /\ kept' \subseteq All
      BY <2>2, <2>4 DEF ExportPast, All
    <2>6. kept' \subseteq Rows(e)' /\ Rows(e)' \cup export.got \subseteq seen'
      BY <1>2, <2>1, <2>2 DEF ExportPast, ExportHeld
    <2>7. export.pc = "install" => kept' \subseteq export.got \cup Script(e)' \cup FilesOf(e)'
      BY <1>2, <2>1, <2>2, <2>3, <2>4 DEF ExportPast, ExportHeld
    <2>8. export.pc = "files" => kept' \subseteq export.got \cup FilesOf(e)'
      BY <1>2, <2>1, <2>2, <2>3, <2>4 DEF ExportPast, ExportHeld
    <2>9. ExportHeld' /\ ExportWhole'
      BY <1>2, <2>1, <2>6, <2>7, <2>8 DEF ExportHeld, ExportWhole, Exporting
    <2> QED BY <2>5, <2>9 DEF ExportPast
  <1> QED BY <1>1, <1>2

LEMMA ExportEggKeeps ==
  ASSUME ExportPast, EggPast, EggPast', Watch, NEW e \in Eggs, ExportEgg(e)
  PROVE  ExportPast'
  <1>1. export' = [pc |-> "vars", egg |-> e, got |-> {}] /\ ~Exporting
    BY DEF ExportEgg
  <1>2. seen' = Rows(e)' /\ kept' = Rows(e)'
    BY <1>1 DEF Watch, Exporting
  <1>3. Rows(e)' \subseteq All
    BY RowsAreLater DEF EggPast, All
  <1>4. ExportHeld' /\ ExportWhole'
    BY <1>1, <1>2 DEF ExportHeld, ExportWhole, Exporting
  <1> QED BY <1>1, <1>2, <1>3, <1>4 DEF ExportPast, Id

LEMMA ExportReads ==
  ASSUME ExportPast, EggPast, EggPast', Watch, ExportVars \/ ExportInstall \/ ExportFiles
  PROVE  ExportPast'
  <1>0. /\ Exporting /\ UNCHANGED <<evar, script, cfile>>
        /\ export \in [pc : {"idle", "vars", "install", "files", "told"}, egg : Id, got : SUBSET All]
    BY DEF ExportVars, ExportInstall, ExportFiles, Exporting, catalogue, ExportPast
  <1>1. PICK e \in Eggs : export.egg = e
    BY <1>0 DEF ExportPast, ExportHeld
  <1>2. /\ Rows(e) = VarsOf(e) \cup FilesOf(e) \cup Script(e)
        /\ VarsOf(e) \subseteq Vars /\ FilesOf(e) \subseteq Files
        /\ Script(e) \subseteq Eggs \X Scripts
    BY RowsAre DEF EggPast
  <1>3. /\ VarsOf(e)' = VarsOf(e) /\ FilesOf(e)' = FilesOf(e) /\ Script(e)' = Script(e)
        /\ Rows(e)' = Rows(e)
    BY <1>0 DEF VarsOf, FilesOf, Script, Rows
  <1>4. /\ kept \subseteq Rows(e) /\ Rows(e) \cup export.got \subseteq seen /\ seen \subseteq All
        /\ export.pc = "install" => kept \subseteq export.got \cup Script(e) \cup FilesOf(e)
        /\ export.pc = "files" => kept \subseteq export.got \cup FilesOf(e)
    BY <1>0, <1>1 DEF ExportPast, ExportHeld
  <1>5. CASE ExportVars
    <2>1. /\ export' = [export EXCEPT !.pc = "install", !.got = VarsOf(e)]
      BY <1>1, <1>5 DEF ExportVars
    <2>2. /\ export' \in [pc : {"idle", "vars", "install", "files", "told"}, egg : Id, got : SUBSET All]
          /\ export'.pc = "install" /\ export'.egg = e /\ export'.got = VarsOf(e)
      BY <1>0, <1>1, <1>2, <2>1 DEF All
    <2>3. seen' = seen /\ kept' = kept
      BY <1>0, <1>1, <1>3, <1>4, <2>2 DEF Watch, Exporting
    <2>4. ExportHeld' /\ ExportWhole'
      BY <1>2, <1>3, <1>4, <2>2, <2>3 DEF ExportHeld, ExportWhole, Exporting
    <2> QED BY <2>2, <2>3, <2>4 DEF ExportPast
  <1>6. CASE ExportInstall
    <2>1. /\ export' = [export EXCEPT !.pc = "files", !.got = @ \cup Script(e)]
          /\ export.pc = "install"
      BY <1>1, <1>6 DEF ExportInstall, Script
    <2>2. /\ export' \in [pc : {"idle", "vars", "install", "files", "told"}, egg : Id, got : SUBSET All]
          /\ export'.pc = "files" /\ export'.egg = e /\ export'.got = export.got \cup Script(e)
      BY <1>0, <1>1, <1>2, <2>1 DEF All
    <2>3. seen' = seen /\ kept' = kept
      BY <1>0, <1>1, <1>3, <1>4, <2>2 DEF Watch, Exporting
    <2>4. ExportHeld' /\ ExportWhole'
      BY <1>2, <1>3, <1>4, <2>1, <2>2, <2>3 DEF ExportHeld, ExportWhole, Exporting
    <2> QED BY <2>2, <2>3, <2>4 DEF ExportPast
  <1>7. CASE ExportFiles
    <2>1. /\ export' = [export EXCEPT !.pc = "told", !.got = @ \cup FilesOf(e)]
          /\ export.pc = "files"
      BY <1>1, <1>7 DEF ExportFiles
    <2>2. /\ export' \in [pc : {"idle", "vars", "install", "files", "told"}, egg : Id, got : SUBSET All]
          /\ export'.pc = "told" /\ export'.got = export.got \cup FilesOf(e)
      BY <1>0, <1>1, <1>2, <2>1 DEF All
    <2>3. seen' = seen /\ kept' = kept
      BY <2>2 DEF Watch, Exporting
    <2>4. ExportHeld' /\ ExportWhole'
      BY <1>2, <1>4, <2>1, <2>2, <2>3 DEF ExportHeld, ExportWhole, Exporting
    <2> QED BY <2>2, <2>3, <2>4 DEF ExportPast
  <1> QED BY <1>5, <1>6, <1>7

LEMMA EggStepExports ==
  ASSUME ExportPast, EggPast, EggPast', Watch, NEW used, EggStep(used)
  PROVE  ExportPast'
  <1>1. CASE \E e \in Eggs : ExportEgg(e)
    BY <1>1, ExportEggKeeps
  <1>2. CASE ExportVars \/ ExportInstall \/ ExportFiles
    BY <1>2, ExportReads
  <1>3. CASE ~(\E e \in Eggs : ExportEgg(e)) /\ ~(ExportVars \/ ExportInstall \/ ExportFiles)
    <2>1. export' = export
      BY <1>3 DEF EggStep, create_egg, delete_egg, create_variable,
         delete_variable, upsert_install_script, create_config_file, delete_config_file,
         ImportEgg, ImportVar, ImportScript, ImportFails
    <2> QED BY <2>1, ExportSame DEF EggPast
  <1> QED BY <1>1, <1>2, <1>3

-----------------------------------------------------------------------------
(* The servers' environments.                                              *)

ServerTypes ==
    /\ server \in [Servers -> ServerRows]
    /\ req \in [Requests -> Slots]
    /\ applied \in [Servers -> Envs]
    /\ crowded \subseteq Servers /\ moved \subseteq Servers /\ byAdmin \subseteq Servers

\* A server is of an egg that is there.
Rooted == \A s \in Servers : Exists(s) /\ server[s].egg # None => Live(server[s].egg)

ServerPast ==
    /\ ServerTypes /\ Rooted /\ Alone /\ NoLostUpdate
    /\ \A r \in Requests : Placed(req[r]) /\ Fresh(req[r])

LEMMA OverTyped ==
  ASSUME NEW a \in Envs, NEW b \in Envs
  PROVE  Over(a, b) \in Envs
  BY DEF Over, Envs

LEMMA NoEnvTyped == NoEnv \in Envs
  BY DEF NoEnv, Envs

LEMMA IdleTyped == Idle \in Slots /\ Idle.pc = "idle" /\ Idle.egg = None
  BY NoEnvTyped DEF Idle, Slots, Id

LEMMA IdlePlaced == Placed(Idle) /\ Fresh(Idle) /\ Placed(Idle)'
  BY IdleTyped DEF Placed, Fresh, Holds

LEMMA InitServerPast == Init => ServerPast
  <1> SUFFICES ASSUME Init PROVE ServerPast
    OBVIOUS
  <1> USE DEF Init
  <1>1. ServerTypes
    BY IdleTyped, NoEnvTyped DEF ServerTypes, ServerRows, NoRow, Row, Id
  <1>2. Rooted /\ Alone /\ NoLostUpdate
    BY IdleTyped DEF Rooted, Alone, NoLostUpdate, Exists, NoRow, Busy
  <1>3. \A r \in Requests : Placed(req[r]) /\ Fresh(req[r])
    BY IdlePlaced
  <1> QED BY <1>1, <1>2, <1>3 DEF ServerPast

\* One handler gets a step further, begins, or ends, and the servers stay.
LEMMA SlotMoves ==
  ASSUME ServerPast, NEW r \in Requests, NEW slot \in Slots,
         req' = [req EXCEPT ![r] = slot],
         UNCHANGED <<egg, server, applied, byAdmin>>,
         crowded \subseteq crowded', crowded' \subseteq Servers,
         moved \subseteq moved', moved' \subseteq Servers,
         Placed(slot)', Fresh(slot),
         slot.pc # "idle" /\ slot.srv \in Servers \ crowded' =>
            \A q \in Requests \ {r} : ~(Busy(q) /\ req[q].srv = slot.srv)
  PROVE  ServerPast'
  <1>0. /\ req \in [Requests -> Slots] /\ req'[r] = slot
        /\ \A q \in Requests \ {r} : req'[q] = req[q]
    BY DEF ServerPast, ServerTypes
  <1>1. ServerTypes'
    BY <1>0 DEF ServerPast, ServerTypes
  <1>2. Rooted' /\ NoLostUpdate'
    BY DEF ServerPast, Rooted, NoLostUpdate, Exists, Live
  <1>3. Alone'
    <2> SUFFICES ASSUME NEW p \in Requests, NEW q \in Requests,
                        req'[p].pc # "idle", req'[q].pc # "idle",
                        req'[p].srv = req'[q].srv, req'[p].srv \in Servers \ crowded'
                 PROVE  p = q
      BY DEF Alone, Busy
    <2>1. CASE p # r /\ q # r
      BY <1>0, <2>1 DEF ServerPast, Alone, Busy
    <2>2. CASE p = r \/ q = r
      BY <1>0, <2>2 DEF Busy
    <2> QED BY <2>1, <2>2
  <1>4. ASSUME NEW x, Placed(x) PROVE Placed(x)'
    BY <1>4 DEF Placed
  <1>5. ASSUME NEW x, Fresh(x) PROVE Fresh(x)'
    BY <1>5 DEF Fresh, Exists
  <1>6. ASSUME NEW q \in Requests PROVE Placed(req[q])' /\ Fresh(req[q])'
    <2>1. CASE q = r
      BY <1>0, <1>5, <2>1 DEF Placed, Fresh, Exists
    <2>2. CASE q # r
      <3>1. PICK x : x = req[q]
        OBVIOUS
      <3>2. Placed(x)' /\ Fresh(x)' /\ req'[q] = x
        BY <1>0, <1>4, <1>5, <2>2, <3>1 DEF ServerPast
      <3> QED BY <3>2 DEF Placed, Fresh, Exists
    <2> QED BY <2>1, <2>2
  <1> QED BY <1>1, <1>2, <1>3, <1>6 DEF ServerPast

\* A server is inserted, or its environment written, and the handler is done.
LEMMA ServerMoves ==
  ASSUME ServerPast, NEW r \in Requests, NEW s \in Servers, NEW new \in ServerRows,
         NEW env \in Envs,
         server' = [server EXCEPT ![s] = new], applied' = [applied EXCEPT ![s] = env],
         req' = [req EXCEPT ![r] = Idle],
         UNCHANGED <<egg, crowded, moved>>, byAdmin' \subseteq Servers,
         new.row # "unborn",
         (req[r].srv = s /\ Busy(r)) \/ server[s].row = "unborn",
         s \notin moved => new.egg = server[s].egg \/ server[s].row = "unborn",
         s \notin crowded /\ new.row = "live" => new.env = env,
         new.row = "live" /\ new.egg # None => Live(new.egg)
  PROVE  ServerPast'
  <1>0. /\ req \in [Requests -> Slots] /\ server \in [Servers -> ServerRows]
        /\ applied \in [Servers -> Envs] /\ req'[r] = Idle
        /\ \A q \in Requests \ {r} : req'[q] = req[q]
        /\ server'[s] = new /\ applied'[s] = env
        /\ \A t \in Servers \ {s} : server'[t] = server[t] /\ applied'[t] = applied[t]
    BY DEF ServerPast, ServerTypes
  <1>1. ServerTypes'
    BY <1>0, IdleTyped DEF ServerPast, ServerTypes
  <1>2. Rooted' /\ NoLostUpdate'
    BY <1>0 DEF ServerPast, Rooted, NoLostUpdate, Exists, Live
  <1>3. Alone'
    BY <1>0, IdleTyped DEF ServerPast, Alone, Busy
  <1>4. ASSUME NEW q \in Requests PROVE Placed(req[q])' /\ Fresh(req[q])'
    <2>1. CASE q = r
      BY <1>0, <2>1, IdleTyped DEF Placed, Fresh, Holds
    <2>2. CASE q # r
      <3>1. PICK x \in Slots : x = req[q]
        BY <1>0
      <3>2. Placed(x) /\ Fresh(x)
        BY <3>1 DEF ServerPast
      <3>3. Placed(x)'
        BY <1>0, <3>2 DEF Placed
      <3>4. CASE x.srv # s
        BY <1>0, <2>2, <3>1, <3>2, <3>3, <3>4 DEF Placed, Fresh, Exists
      <3>5. CASE x.srv = s
        <4>1. x.pc \in {"idle", "insert"} \/ s \in crowded
          BY <2>2, <3>1, <3>2, <3>5 DEF ServerPast, Alone, Busy, Placed
        <4> QED BY <1>0, <2>2, <3>1, <3>3, <3>5, <4>1 DEF Placed, Fresh, Holds
      <3> QED BY <3>4, <3>5
    <2> QED BY <2>1, <2>2
  <1> QED BY <1>1, <1>2, <1>3, <1>4 DEF ServerPast

\* A server's environment stays, and its egg, while its row or image changes.
LEMMA RowMoves ==
  ASSUME ServerPast, NEW s \in Servers, NEW new \in ServerRows,
         server' = [server EXCEPT ![s] = new],
         UNCHANGED <<egg, req, applied, crowded, moved, byAdmin>>,
         Exists(s), new.row # "unborn", new.egg = server[s].egg, new.env = server[s].env
  PROVE  ServerPast'
  <1>0. /\ server \in [Servers -> ServerRows] /\ server'[s] = new
        /\ \A t \in Servers \ {s} : server'[t] = server[t]
    BY DEF ServerPast, ServerTypes
  <1>1. ServerTypes'
    BY <1>0 DEF ServerPast, ServerTypes
  <1>2. Rooted' /\ NoLostUpdate' /\ Alone'
    BY <1>0 DEF ServerPast, Rooted, NoLostUpdate, Exists, Live, Alone, Busy
  <1>3. ASSUME NEW q \in Requests PROVE Placed(req[q])' /\ Fresh(req[q])'
    <2>1. PICK x : x = req[q]
      OBVIOUS
    <2>2. Placed(x) /\ Fresh(x)
      BY <2>1 DEF ServerPast
    <2>3. Placed(x)' /\ Fresh(x)'
      BY <1>0, <2>2 DEF Placed, Fresh, Exists
    <2> QED BY <2>1, <2>3 DEF Placed, Fresh, Exists
  <1> QED BY <1>1, <1>2, <1>3 DEF ServerPast

LEMMA DeleteServerKeeps ==
  ASSUME ServerPast, NEW s \in Servers, delete_server(s)
  PROVE  ServerPast'
  <1>1. PICK old \in ServerRows : old = server[s]
    BY DEF ServerPast, ServerTypes
  <1>2. /\ [old EXCEPT !.row = "deleted"] \in ServerRows
        /\ [old EXCEPT !.row = "deleted"].row = "deleted"
        /\ [old EXCEPT !.row = "deleted"].egg = old.egg
        /\ [old EXCEPT !.row = "deleted"].env = old.env
    BY DEF ServerRows, Row
  <1>3. PICK new \in ServerRows :
           /\ new = [old EXCEPT !.row = "deleted"] /\ new.row = "deleted"
           /\ new.egg = old.egg /\ new.env = old.env
    BY <1>2, Zenon
  <1>4. server' = [server EXCEPT ![s] = new]
    BY <1>1, <1>3 DEF delete_server
  <1>5. UNCHANGED <<egg, req, applied, crowded, moved, byAdmin>> /\ Exists(s)
    BY DEF delete_server, eggRest, catalogue
  <1> QED BY <1>1, <1>3, <1>4, <1>5, RowMoves

LEMMA UpdateImageKeeps ==
  ASSUME ServerPast, NEW s \in Servers, NEW image \in Images, update_docker_image(s, image)
  PROVE  ServerPast'
  <1>1. PICK old \in ServerRows : old = server[s]
    BY DEF ServerPast, ServerTypes
  <1>2. /\ [old EXCEPT !.image = image] \in ServerRows
        /\ [old EXCEPT !.image = image].row = old.row
        /\ [old EXCEPT !.image = image].egg = old.egg
        /\ [old EXCEPT !.image = image].env = old.env
    BY DEF ServerRows, Row
  <1>3. PICK new \in ServerRows :
           /\ new = [old EXCEPT !.image = image] /\ new.row = old.row
           /\ new.egg = old.egg /\ new.env = old.env
    BY <1>2, Zenon
  <1>4. server' = [server EXCEPT ![s] = new]
    BY <1>1, <1>3 DEF update_docker_image
  <1>5. UNCHANGED <<egg, req, applied, crowded, moved, byAdmin>> /\ Exists(s)
    BY DEF update_docker_image, eggRest, catalogue
  <1> QED BY <1>1, <1>3, <1>4, <1>5, RowMoves DEF Exists

LEMMA EggStepServers ==
  ASSUME ServerPast, EggPast, EggStep(EggsInUse), UNCHANGED rows
  PROVE  ServerPast'
  <1>1. UNCHANGED <<server, req, applied, crowded, moved, byAdmin>>
    BY DEF rows
  <1>2. Rooted'
    <2>1. ASSUME NEW e \in Eggs, delete_egg(e, EggsInUse) PROVE Rooted'
      BY <1>1, <2>1 DEF ServerPast, EggPast, EggTypes, ServerTypes, Rooted, delete_egg,
         EggsInUse, Exists, Live
    <2>2. CASE ~(\E e \in Eggs : delete_egg(e, EggsInUse))
      <3>1. \A e : Live(e) /\ e \in Eggs => egg'[e] = "live"
        BY <2>2 DEF EggStep, create_egg, create_variable, EggPast, EggTypes, Live,
         delete_variable, upsert_install_script, create_config_file, delete_config_file,
         ImportEgg, ImportVar, ImportScript, ImportFails, ExportEgg, ExportVars,
         ExportInstall, ExportFiles, catalogue
      <3> QED BY <1>1, <3>1 DEF ServerPast, ServerTypes, ServerRows, Id, Rooted, Exists, Live
    <2> QED BY <2>1, <2>2
  <1>3. Alone' /\ NoLostUpdate' /\ ServerTypes'
    BY <1>1 DEF ServerPast, ServerTypes, Alone, NoLostUpdate, Exists, Busy
  <1>4. ASSUME NEW q \in Requests PROVE Placed(req[q])' /\ Fresh(req[q])'
    BY <1>1 DEF ServerPast, Placed, Fresh, Exists
  <1> QED BY <1>2, <1>3, <1>4 DEF ServerPast

-----------------------------------------------------------------------------
(* The steps of the handlers that write environments.                      *)

LEMMA SpecTyped ==
  ASSUME EggPast, NEW e, NEW x \in VarsOf(e)
  PROVE  evar[x].spec \in Specs /\ evar[x].spec.key \in Keys
  BY ConstantsOK DEF EggPast, Born, VarsOf

LEMMA BodiesAreEnvs == \A b \in Bodies \cup Owns : b \in Envs
  BY ConstantsOK DEF Envs

LEMMA ValueTyped ==
  ASSUME NEW spec \in Specs, NEW given \in Envs
  PROVE  ValueOf(spec, given) \in Values /\ ValueOf(spec, given) # None
  BY ConstantsOK DEF ValueOf, Envs

LEMMA EggEnvTyped ==
  ASSUME EggPast, NEW e, NEW given \in Envs, NEW env \in EggEnvs(e, given)
  PROVE  env \in Envs
  <1> DEFINE value == [x \in VarsOf(e) |-> ValueOf(evar[x].spec, given)]
  <1>1. env \in [Keys -> {None} \cup {value[x] : x \in VarsOf(e)}]
    BY DEF EggEnvs
  <1>2. \A x \in VarsOf(e) : value[x] \in Values
    BY SpecTyped, ValueTyped
  <1> HIDE DEF value
  <1> QED BY <1>1, <1>2 DEF Envs

LEMMA EnterKeeps ==
  ASSUME ServerPast, NEW r \in Requests, NEW slot \in Slots, Enter(r, slot),
         UNCHANGED <<server, applied, byAdmin>>,
         moved \subseteq moved', moved' \subseteq Servers,
         Placed(slot)', Fresh(slot)
  PROVE  ServerPast'
  <1>1. /\ req' = [req EXCEPT ![r] = slot] /\ egg' = egg
        /\ crowded' = IF slot.srv # None /\ Others(r, slot.srv) # {}
                      THEN crowded \cup {slot.srv} ELSE crowded
    BY DEF Enter, eggRest, catalogue
  <1>2. slot.srv \in Servers \cup {None}
    BY DEF Slots
  <1>3. crowded \subseteq crowded' /\ crowded' \subseteq Servers
    BY <1>1, <1>2 DEF ServerPast, ServerTypes
  <1>4. ASSUME slot.srv \in Servers \ crowded', NEW q \in Requests \ {r}
        PROVE  ~(Busy(q) /\ req[q].srv = slot.srv)
    <2>1. slot.srv # None
      BY <1>4, ConstantsOK
    <2>2. Others(r, slot.srv) = {}
      BY <1>1, <1>4, <2>1
    <2> QED BY <2>2 DEF Others
  <1> QED BY <1>1, <1>3, <1>4, SlotMoves

\* What create_server holds once load_egg_env has answered.
Create(e, image, env) == [Idle EXCEPT !.pc = "insert", !.egg = e, !.image = image, !.env = env]

LEMMA CreateIs ==
  ASSUME NEW e \in Id, NEW image \in Images, NEW env \in Envs
  PROVE  /\ Create(e, image, env) \in Slots
         /\ Create(e, image, env).pc = "insert" /\ Create(e, image, env).srv = None
         /\ Create(e, image, env).egg = e /\ Create(e, image, env).env = env
  BY IdleTyped DEF Create, Idle, Slots

LEMMA CreateReadIs ==
  ASSUME EggPast, NEW r \in Requests, NEW e \in Eggs \cup {None}, NEW own \in Owns,
         NEW given \in Bodies, NEW image \in Images, CreateRead(r, e, own, given, image)
  PROVE  \E env \in Envs :
            /\ e # None => env \in EggEnvs(e, given) /\ EggEnvOk(e, given)
            /\ Enter(r, Create(e, image, Over(own, env)))
            /\ Over(own, env) \in Envs
  <1>1. PICK env \in (IF e = None THEN {NoEnv} ELSE EggEnvs(e, given)) :
           Enter(r, Create(e, image, Over(own, env)))
    BY DEF CreateRead, Create
  <1>2. env \in Envs
    BY <1>1, EggEnvTyped, BodiesAreEnvs, NoEnvTyped
  <1>3. Over(own, env) \in Envs
    BY <1>2, OverTyped, BodiesAreEnvs
  <1>4. e # None => env \in EggEnvs(e, given) /\ EggEnvOk(e, given)
    BY <1>1 DEF CreateRead
  <1> QED BY <1>1, <1>2, <1>3, <1>4

LEMMA CreateReadKeeps ==
  ASSUME EggPast, ServerPast, NEW r \in Requests, NEW e \in Eggs \cup {None}, NEW own \in Owns,
         NEW given \in Bodies, NEW image \in Images, CreateRead(r, e, own, given, image)
  PROVE  ServerPast'
  <1>1. PICK env \in Envs : Enter(r, Create(e, image, env))
    BY CreateReadIs
  <1>2. PICK slot \in Slots : /\ slot = Create(e, image, env)
                              /\ slot.pc = "insert" /\ slot.srv = None
    BY CreateIs DEF Id
  <1>3. Placed(slot)' /\ Fresh(slot)
    BY <1>2, ConstantsOK DEF Placed, Fresh
  <1>4. UNCHANGED <<server, applied, byAdmin>> /\ moved' = moved /\ moved \subseteq Servers
    BY DEF CreateRead, ServerPast, ServerTypes
  <1> QED BY <1>1, <1>2, <1>3, <1>4, EnterKeeps

\* What update_startup holds once it has read the server.
Update(s, e, env, body, admin) ==
    [Idle EXCEPT !.pc = "check", !.srv = s, !.egg = e, !.env = env, !.delta = body,
                 !.admin = admin]

LEMMA UpdateIs ==
  ASSUME NEW s \in Servers, NEW e \in Eggs, NEW env \in Envs, NEW body \in Envs,
         NEW admin \in BOOLEAN
  PROVE  LET x == Update(s, e, env, body, admin)
         IN  /\ x \in Slots
             /\ x.pc = "check" /\ x.srv = s /\ x.egg = e /\ x.env = env /\ x.admin = admin
  BY IdleTyped DEF Update, Idle, Slots, Id

LEMMA UpdateReadIs ==
  ASSUME ServerPast, NEW r \in Requests, NEW s \in Servers, NEW body \in Bodies,
         NEW admin \in BOOLEAN, UpdateRead(r, s, body, admin)
  PROVE  \E slot \in Slots :
            /\ Enter(r, slot) /\ Exists(s)
            /\ slot.pc = "check" /\ slot.srv = s /\ slot.egg = server[s].egg
            /\ slot.egg \in Eggs /\ slot.env = server[s].env
  <1>1. server[s].egg \in Eggs /\ server[s].env \in Envs
    BY DEF UpdateRead, ServerPast, ServerTypes, ServerRows, Id
  <1>2. PICK e \in Eggs, env \in Envs : e = server[s].egg /\ env = server[s].env
    BY <1>1
  <1>3. Enter(r, Update(s, e, env, body, admin)) /\ Exists(s)
    BY <1>2 DEF UpdateRead, Update
  <1>4. body \in Envs
    BY BodiesAreEnvs
  <1> QED BY <1>2, <1>3, <1>4, UpdateIs

LEMMA UpdateReadKeeps ==
  ASSUME ServerPast, NEW r \in Requests, NEW s \in Servers, NEW body \in Bodies,
         NEW admin \in BOOLEAN, UpdateRead(r, s, body, admin)
  PROVE  ServerPast'
  <1>1. PICK slot \in Slots :
            /\ Enter(r, slot) /\ Exists(s)
            /\ slot.pc = "check" /\ slot.srv = s /\ slot.egg = server[s].egg
            /\ slot.egg \in Eggs /\ slot.env = server[s].env
    BY UpdateReadIs
  <1>2. UNCHANGED <<server, applied, byAdmin>> /\ moved' = moved /\ moved \subseteq Servers
    BY DEF UpdateRead, ServerPast, ServerTypes
  <1>3. Placed(slot)' /\ Fresh(slot)
    BY <1>1, <1>2 DEF Placed, Fresh, Holds, Exists
  <1> QED BY <1>1, <1>2, <1>3, EnterKeeps

\* What change_egg holds once it has read the server.
Change(s, e, image, env, pc) ==
    [Idle EXCEPT !.pc = pc, !.srv = s, !.egg = e, !.image = image, !.env = env]

LEMMA ChangeIs ==
  ASSUME NEW s \in Servers, NEW e \in Eggs, NEW image \in Images, NEW env \in Envs,
         NEW pc \in {"reset", "merge"}
  PROVE  LET x == Change(s, e, image, env, pc)
         IN  x \in Slots /\ x.pc = pc /\ x.srv = s /\ x.egg = e /\ x.env = env
  BY IdleTyped DEF Change, Idle, Slots, Id

LEMMA ChangeReadKeeps ==
  ASSUME ServerPast, NEW r \in Requests, NEW s \in Servers, NEW e \in Eggs,
         NEW image \in Images, NEW reset \in BOOLEAN, ChangeRead(r, s, e, image, reset)
  PROVE  ServerPast'
  <1>1. PICK pc \in {"reset", "merge"} : pc = IF reset THEN "reset" ELSE "merge"
    OBVIOUS
  <1>2. PICK env \in Envs : env = server[s].env
    BY DEF ServerPast, ServerTypes, ServerRows
  <1>3. PICK slot \in Slots :
            /\ slot = Change(s, e, image, env, pc)
            /\ slot.pc = pc /\ slot.srv = s /\ slot.egg = e /\ slot.env = env
    BY ChangeIs
  <1>4. Enter(r, slot) /\ Exists(s)
    BY <1>1, <1>2, <1>3 DEF ChangeRead, Change
  <1>5. /\ UNCHANGED <<server, applied, byAdmin>> /\ moved' = moved \cup {s}
        /\ moved \subseteq Servers
    BY DEF ChangeRead, ServerPast, ServerTypes
  <1>6. Placed(slot)' /\ Fresh(slot)
    BY <1>2, <1>3, <1>4, <1>5 DEF Placed, Fresh, Holds, Exists
  <1> QED BY <1>3, <1>4, <1>5, <1>6, EnterKeeps

LEMMA AloneSlot ==
  ASSUME ServerPast, NEW r \in Requests, Busy(r), req[r].srv \in Servers \ crowded
  PROVE  \A q \in Requests \ {r} : ~(Busy(q) /\ req[q].srv = req[r].srv)
  BY DEF ServerPast, Alone

LEMMA FinishKeeps ==
  ASSUME ServerPast, NEW r \in Requests, Finish(r),
         UNCHANGED <<egg, server, applied, crowded, moved, byAdmin>>
  PROVE  ServerPast'
  <1>1. crowded \subseteq Servers /\ moved \subseteq Servers
    BY DEF ServerPast, ServerTypes
  <1> QED BY <1>1, IdleTyped, IdlePlaced, SlotMoves DEF Finish

\* What update_startup holds once it has checked the body.
Checked(x, delta) == [x EXCEPT !.pc = "write", !.delta = delta, !.env = Over(x.env, delta)]

LEMMA CheckedIs ==
  ASSUME NEW x \in Slots, NEW delta \in Envs
  PROVE  LET y == Checked(x, delta)
         IN  /\ y \in Slots /\ y.pc = "write" /\ y.srv = x.srv /\ y.egg = x.egg
             /\ y.admin = x.admin /\ y.delta = delta /\ y.env = Over(x.env, delta)
  <1>1. Over(x.env, delta) \in Envs
    BY OverTyped DEF Slots
  <1> QED BY <1>1 DEF Checked, Slots

LEMMA TakenTyped ==
  ASSUME NEW e, NEW body \in Envs
  PROVE  Taken(e, body) \in Envs
  BY DEF Taken, Envs

LEMMA UpdateCheckIs ==
  ASSUME ServerPast, NEW r \in Requests, UpdateCheck(r)
  PROVE  \/ Finish(r)
         \/ LET x == req[r]
            IN  \E slot \in Slots :
                  /\ req' = [req EXCEPT ![r] = slot] /\ x \in Slots /\ x.pc = "check"
                  /\ \A y \in VarsOf(x.egg) : x.delta[evar[y].spec.key] # None =>
                        /\ evar[y].spec.editable \/ x.admin
                        /\ Accepted(evar[y].spec, x.delta[evar[y].spec.key])
                  /\ slot.pc = "write" /\ slot.srv = x.srv /\ slot.egg = x.egg
                  /\ slot.admin = x.admin /\ slot.delta = Taken(x.egg, x.delta)
                  /\ slot.env = Over(x.env, slot.delta)
  <1> SUFFICES ASSUME ~Finish(r)
               PROVE  LET x == req[r]
                      IN  \E slot \in Slots :
                            /\ req' = [req EXCEPT ![r] = slot] /\ x \in Slots /\ x.pc = "check"
                            /\ \A y \in VarsOf(x.egg) : x.delta[evar[y].spec.key] # None =>
                                  /\ evar[y].spec.editable \/ x.admin
                                  /\ Accepted(evar[y].spec, x.delta[evar[y].spec.key])
                            /\ slot.pc = "write" /\ slot.srv = x.srv /\ slot.egg = x.egg
                            /\ slot.admin = x.admin /\ slot.delta = Taken(x.egg, x.delta)
                            /\ slot.env = Over(x.env, slot.delta)
    OBVIOUS
  <1>1. PICK x \in Slots : x = req[r]
    BY DEF ServerPast, ServerTypes
  <1>2. PICK delta \in Envs : delta = Taken(x.egg, x.delta)
    BY TakenTyped DEF Slots
  <1>3. PICK slot \in Slots :
           /\ slot = Checked(x, delta)
           /\ slot.pc = "write" /\ slot.srv = x.srv /\ slot.egg = x.egg
           /\ slot.admin = x.admin /\ slot.delta = delta /\ slot.env = Over(x.env, delta)
    BY CheckedIs
  <1>4. /\ x.pc = "check"
        /\ \A y \in VarsOf(x.egg) : x.delta[evar[y].spec.key] # None =>
               /\ evar[y].spec.editable \/ x.admin
               /\ Accepted(evar[y].spec, x.delta[evar[y].spec.key])
        /\ req' = [req EXCEPT ![r].pc = "write", ![r].delta = delta,
                              ![r].env = Over(x.env, delta)]
    BY <1>1, <1>2 DEF UpdateCheck
  <1>5. req' = [req EXCEPT ![r] = slot]
    BY <1>1, <1>3, <1>4 DEF Checked, ServerPast, ServerTypes, Slots
  <1>6. /\ x.pc = "check" /\ slot.delta = Taken(x.egg, x.delta)
        /\ slot.env = Over(x.env, slot.delta)
    BY <1>2, <1>3, <1>4
  <1>7. \E new \in Slots :
           /\ req' = [req EXCEPT ![r] = new] /\ x \in Slots /\ x.pc = "check"
           /\ \A y \in VarsOf(x.egg) : x.delta[evar[y].spec.key] # None =>
                 /\ evar[y].spec.editable \/ x.admin
                 /\ Accepted(evar[y].spec, x.delta[evar[y].spec.key])
           /\ new.pc = "write" /\ new.srv = x.srv /\ new.egg = x.egg
           /\ new.admin = x.admin /\ new.delta = Taken(x.egg, x.delta)
           /\ new.env = Over(x.env, new.delta)
    BY <1>3, <1>4, <1>5, <1>6, Zenon
  <1> QED BY <1>1, <1>7, Zenon

LEMMA UpdateCheckKeeps ==
  ASSUME ServerPast, NEW r \in Requests, UpdateCheck(r)
  PROVE  ServerPast'
  <1>0. /\ UNCHANGED <<egg, server, applied, crowded, moved, byAdmin>>
        /\ crowded \subseteq Servers /\ moved \subseteq Servers
    BY DEF UpdateCheck, eggVars, eggRest, catalogue, ServerPast, ServerTypes
  <1>1. CASE Finish(r)
    BY <1>0, <1>1, FinishKeeps
  <1>2. CASE ~Finish(r)
    <2>1. PICK x \in Slots : x = req[r]
      BY DEF ServerPast, ServerTypes
    <2>2. PICK slot \in Slots :
             /\ req' = [req EXCEPT ![r] = slot] /\ x.pc = "check"
             /\ slot.pc = "write" /\ slot.srv = x.srv /\ slot.egg = x.egg
             /\ slot.env = Over(x.env, slot.delta)
      BY <1>2, <2>1, UpdateCheckIs
    <2>3. Placed(x) /\ Fresh(x) /\ Busy(r)
      BY <2>1, <2>2 DEF ServerPast, Busy
    <2>4. Placed(slot)' /\ Fresh(slot)
      BY <1>0, <2>2, <2>3 DEF Placed, Fresh, Holds
    <2>5. slot.srv \in Servers \ crowded =>
             \A q \in Requests \ {r} : ~(Busy(q) /\ req[q].srv = slot.srv)
      BY <2>1, <2>2, <2>3, AloneSlot
    <2> QED BY <1>0, <2>2, <2>4, <2>5, SlotMoves
  <1> QED BY <1>1, <1>2

\* What change_egg holds once it has loaded the defaults of the new egg.
Loaded(x, d) == [x EXCEPT !.pc = IF x.pc = "reset" THEN "replace" ELSE "fill", !.delta = d,
                          !.env = IF x.pc = "reset" THEN d ELSE Over(d, x.env)]

LEMMA LoadedIs ==
  ASSUME NEW x \in Slots, NEW d \in Envs
  PROVE  LET y == Loaded(x, d)
         IN  /\ y \in Slots /\ y.pc = (IF x.pc = "reset" THEN "replace" ELSE "fill")
             /\ y.srv = x.srv /\ y.egg = x.egg /\ y.delta = d
             /\ y.env = (IF x.pc = "reset" THEN d ELSE Over(d, x.env))
  <1>1. Over(d, x.env) \in Envs
    BY OverTyped DEF Slots
  <1> QED BY <1>1 DEF Loaded, Slots

LEMMA ChangeLoadKeeps ==
  ASSUME EggPast, ServerPast, NEW r \in Requests, ChangeLoad(r)
  PROVE  ServerPast'
  <1>0. /\ UNCHANGED <<egg, server, applied, crowded, moved, byAdmin>>
        /\ crowded \subseteq Servers /\ moved \subseteq Servers
    BY DEF ChangeLoad, eggVars, eggRest, catalogue, ServerPast, ServerTypes
  <1>1. PICK x \in Slots : x = req[r]
    BY DEF ServerPast, ServerTypes
  <1>2. PICK d \in EggDefaults(x.egg) :
           req' = [req EXCEPT ![r].pc = IF x.pc = "reset" THEN "replace" ELSE "fill",
                              ![r].delta = d,
                              ![r].env = IF x.pc = "reset" THEN d ELSE Over(d, x.env)]
    BY <1>1 DEF ChangeLoad
  <1>3. d \in Envs
    BY EggEnvTyped, NoEnvTyped DEF EggDefaults
  <1>4. PICK slot \in Slots :
           /\ slot = Loaded(x, d)
           /\ slot.pc = (IF x.pc = "reset" THEN "replace" ELSE "fill")
           /\ slot.srv = x.srv /\ slot.egg = x.egg /\ slot.delta = d
           /\ slot.env = (IF x.pc = "reset" THEN d ELSE Over(d, x.env))
    BY <1>3, LoadedIs
  <1>5. req' = [req EXCEPT ![r] = slot]
    BY <1>1, <1>2, <1>4 DEF Loaded, ServerPast, ServerTypes, Slots
  <1>6. Placed(x) /\ Fresh(x) /\ Busy(r) /\ x.pc \in {"reset", "merge"}
    BY <1>1 DEF ServerPast, Busy, ChangeLoad
  <1>7. Placed(slot)' /\ Fresh(slot)
    BY <1>0, <1>4, <1>6 DEF Placed, Fresh, Holds
  <1>8. slot.srv \in Servers \ crowded =>
           \A q \in Requests \ {r} : ~(Busy(q) /\ req[q].srv = slot.srv)
    BY <1>1, <1>4, <1>6, AloneSlot
  <1> QED BY <1>0, <1>5, <1>7, <1>8, SlotMoves

LEMMA CreateInsertKeeps ==
  ASSUME ServerPast, NEW r \in Requests, CreateInsert(r)
  PROVE  ServerPast'
  <1>0. /\ UNCHANGED <<egg, crowded, moved, byAdmin>> /\ Finish(r) /\ byAdmin \subseteq Servers
    BY DEF CreateInsert, eggVars, eggRest, catalogue, ServerPast, ServerTypes
  <1>1. PICK x \in Slots : x = req[r]
    BY DEF ServerPast, ServerTypes
  <1>2. CASE UNCHANGED <<server, applied>>
    BY <1>0, <1>2, FinishKeeps
  <1>3. CASE ~UNCHANGED <<server, applied>>
    <2>1. /\ x.egg # None => Live(x.egg)
          /\ \E s \in Servers :
                /\ server[s].row = "unborn"
                /\ server' = [server EXCEPT ![s] =
                       [row |-> "live", egg |-> x.egg, image |-> x.image, env |-> x.env]]
                /\ applied' = [applied EXCEPT ![s] = x.env]
      BY <1>1, <1>3 DEF CreateInsert
    <2>a. [row |-> "live", egg |-> x.egg, image |-> x.image, env |-> x.env] \in ServerRows
      BY DEF ServerRows, Slots, Row
    <2>2. PICK new \in ServerRows :
             /\ new = [row |-> "live", egg |-> x.egg, image |-> x.image, env |-> x.env]
             /\ new.row = "live" /\ new.egg = x.egg /\ new.env = x.env
      BY <2>a
    <2>3. PICK env \in Envs : env = x.env
      BY DEF Slots
    <2>4. PICK s \in Servers :
             /\ server[s].row = "unborn"
             /\ server' = [server EXCEPT ![s] = new]
             /\ applied' = [applied EXCEPT ![s] = env]
      BY <2>1, <2>2, <2>3
    <2> QED BY <1>0, <2>1, <2>2, <2>3, <2>4, ServerMoves DEF Finish
  <1> QED BY <1>2, <1>3

LEMMA Busied ==
  ASSUME ServerPast, NEW r \in Requests, req[r].pc \in {"write", "replace", "fill"}
  PROVE  /\ req[r] \in Slots /\ req[r].srv \in Servers /\ req[r].egg \in Eggs /\ Busy(r)
         /\ Placed(req[r]) /\ Fresh(req[r])
         /\ server[req[r].srv] \in ServerRows /\ applied[req[r].srv] \in Envs
         /\ server[req[r].srv].row # "unborn"
  <1>1. Placed(req[r]) /\ Fresh(req[r]) /\ Busy(r) /\ req[r] \in Slots
    BY DEF ServerPast, ServerTypes, Busy
  <1>2. req[r].srv \in Servers /\ req[r].egg \in Eggs /\ server[req[r].srv].row # "unborn"
    BY <1>1 DEF Placed
  <1> QED BY <1>1, <1>2 DEF ServerPast, ServerTypes

LEMMA UpdateWriteKeeps ==
  ASSUME ServerPast, NEW r \in Requests, UpdateWrite(r)
  PROVE  ServerPast'
  <1>0. /\ UNCHANGED <<egg, crowded, moved>> /\ Finish(r) /\ req[r].pc = "write"
    BY DEF UpdateWrite, eggVars, eggRest, catalogue
  <1>1. PICK x \in Slots, s \in Servers : x = req[r] /\ s = x.srv
    BY <1>0, Busied
  <1>2. /\ Fresh(x) /\ Placed(x) /\ Busy(r) /\ server[s] \in ServerRows /\ applied[s] \in Envs
        /\ server[s].row # "unborn" /\ x.env \in Envs /\ x.delta \in Envs /\ x.pc = "write"
    BY <1>0, <1>1, Busied DEF Slots
  <1>3. PICK old \in ServerRows, was \in Envs : old = server[s] /\ was = applied[s]
    BY <1>2
  <1>4. PICK env \in Envs : env = Over(was, x.delta)
    BY <1>2, OverTyped
  <1>5. applied' = [applied EXCEPT ![s] = env]
    BY <1>1, <1>3, <1>4 DEF UpdateWrite, ServerPast, ServerTypes
  <1>6. byAdmin' \subseteq Servers
    BY <1>1 DEF UpdateWrite, ServerPast, ServerTypes
  <1>7. \E new \in ServerRows :
           /\ new = IF Exists(s) THEN [old EXCEPT !.env = x.env] ELSE old
           /\ new.row = old.row /\ new.egg = old.egg
           /\ new.row = "live" => new.env = x.env
    <2>1. /\ [old EXCEPT !.env = x.env] \in ServerRows
          /\ [old EXCEPT !.env = x.env].row = old.row
          /\ [old EXCEPT !.env = x.env].egg = old.egg
          /\ [old EXCEPT !.env = x.env].env = x.env
      BY <1>2 DEF ServerRows
    <2>2. CASE Exists(s)
      BY <2>1, <2>2, Zenon
    <2>3. CASE ~Exists(s)
      BY <1>3, <2>3 DEF Exists
    <2> QED BY <2>2, <2>3
  <1>8. PICK new \in ServerRows :
           /\ new = IF Exists(s) THEN [old EXCEPT !.env = x.env] ELSE old
           /\ new.row = old.row /\ new.egg = old.egg
           /\ new.row = "live" => new.env = x.env
    BY <1>7
  <1>9. server' = [server EXCEPT ![s] = new]
    BY <1>1, <1>3, <1>8 DEF UpdateWrite, Exists, ServerPast, ServerTypes
  <1>10. s \notin crowded /\ new.row = "live" => new.env = env
    BY <1>1, <1>2, <1>3, <1>4, <1>8 DEF ServerPast, NoLostUpdate, Fresh, Holds, Exists
  <1>11. new.row = "live" /\ new.egg # None => Live(new.egg)
    BY <1>3, <1>8 DEF ServerPast, Rooted, Exists
  <1>12. new.row # "unborn" /\ new.egg = server[s].egg /\ req[r].srv = s /\ Busy(r)
    BY <1>1, <1>2, <1>3, <1>8
  <1>13. req' = [req EXCEPT ![r] = Idle] /\ UNCHANGED <<egg, crowded, moved>>
    BY <1>0 DEF Finish
  <1> QED BY <1>5, <1>6, <1>9, <1>10, <1>11, <1>12, <1>13, ServerMoves

LEMMA ChangeWriteKeeps ==
  ASSUME ServerPast, NEW r \in Requests, ChangeWrite(r)
  PROVE  ServerPast'
  <1>0. /\ UNCHANGED <<egg, crowded, moved, byAdmin>> /\ Finish(r)
        /\ req[r].pc \in {"replace", "fill"} /\ byAdmin \subseteq Servers
    BY DEF ChangeWrite, eggVars, eggRest, catalogue, ServerPast, ServerTypes
  <1>1. PICK x \in Slots, s \in Servers : x = req[r] /\ s = x.srv
    BY <1>0, Busied
  <1>2. /\ Fresh(x) /\ Placed(x) /\ Busy(r) /\ server[s] \in ServerRows /\ applied[s] \in Envs
        /\ server[s].row # "unborn" /\ x.env \in Envs /\ x.delta \in Envs
        /\ x.pc \in {"replace", "fill"} /\ s \in moved
    BY <1>0, <1>1, Busied DEF Slots, Placed
  <1>3. CASE ~(Exists(s) /\ Live(x.egg))
    <2>1. UNCHANGED <<server, applied>>
      BY <1>1, <1>3 DEF ChangeWrite
    <2> QED BY <1>0, <2>1, FinishKeeps
  <1>4. CASE Exists(s) /\ Live(x.egg)
    <2>1. PICK old \in ServerRows, was \in Envs : old = server[s] /\ was = applied[s]
      BY <1>2
    <2>2. PICK env \in Envs : env = IF x.pc = "replace" THEN x.delta ELSE Over(x.delta, was)
      BY <1>2, OverTyped
    <2>3. applied' = [applied EXCEPT ![s] = env]
      BY <1>1, <1>4, <2>1, <2>2 DEF ChangeWrite
    <2>4. /\ [old EXCEPT !.egg = x.egg, !.image = x.image, !.env = x.env] \in ServerRows
          /\ [old EXCEPT !.egg = x.egg, !.image = x.image, !.env = x.env].row = old.row
          /\ [old EXCEPT !.egg = x.egg, !.image = x.image, !.env = x.env].egg = x.egg
          /\ [old EXCEPT !.egg = x.egg, !.image = x.image, !.env = x.env].env = x.env
      BY <1>2 DEF ServerRows, Slots
    <2>5. PICK new \in ServerRows :
             /\ new = [old EXCEPT !.egg = x.egg, !.image = x.image, !.env = x.env]
             /\ new.row = old.row /\ new.egg = x.egg /\ new.env = x.env
      BY <2>4, Zenon
    <2>6. server' = [server EXCEPT ![s] = new]
      BY <1>1, <1>4, <2>1, <2>5 DEF ChangeWrite
    <2>7. s \notin crowded => new.env = env
      BY <1>1, <1>2, <1>4, <2>1, <2>2, <2>5 DEF ServerPast, NoLostUpdate, Fresh, Holds
    <2> QED BY <1>0, <1>1, <1>2, <1>4, <2>1, <2>3, <2>5, <2>6, <2>7, ServerMoves DEF Finish
  <1> QED BY <1>3, <1>4

-----------------------------------------------------------------------------
(* The environments obey their eggs' variables.                            *)

EnvPast ==
    /\ \A r \in Requests : Told(req[r])
    /\ \A s \in Servers : Valid(s)

\* What a step does to the history of altered eggs.
Alters == altered' = altered \cup
    {e \in EggsInUse \cup EggsRead : e # None /\ VarsOf(e)' # VarsOf(e)}

\* A variable that is there never changes.
SpecsKept == \A x \in Vars : evar[x].row = "live" => evar'[x].spec = evar[x].spec

LEMMA EggStepSpecs ==
  ASSUME EggPast, NEW used, EggStep(used)
  PROVE  SpecsKept
  <1>0. evar \in [Vars -> [row : Row, egg : Id, spec : Specs \cup {None}]]
    BY DEF EggPast, EggTypes
  <1>1. ASSUME NEW e \in Eggs, delete_egg(e, used) PROVE SpecsKept
    <2> SUFFICES ASSUME NEW x \in Vars PROVE evar'[x].spec = evar[x].spec
      BY DEF SpecsKept
    <2>1. CASE x \in VarsOf(e)
      BY <1>0, <1>1, <2>1 DEF delete_egg
    <2>2. CASE x \notin VarsOf(e)
      BY <1>1, <2>2 DEF delete_egg
    <2> QED BY <2>1, <2>2
  <1>2. ASSUME NEW e \in Eggs, NEW x \in Vars, delete_variable(e, x) PROVE SpecsKept
    BY <1>0, <1>2 DEF SpecsKept, delete_variable
  <1>3. ASSUME NEW e, NEW spec, AddVariable(e, spec) PROVE SpecsKept
    BY <1>0, <1>3 DEF SpecsKept, AddVariable
  <1>4. CASE evar' = evar
    BY <1>4 DEF SpecsKept
  <1> QED
    BY <1>1, <1>2, <1>3, <1>4 DEF EggStep, create_egg, create_variable, upsert_install_script,
       create_config_file, delete_config_file, ExportEgg, ImportEgg, ImportVar, ImportScript,
       ImportFails, ExportVars, ExportInstall, ExportFiles, catalogue

LEMMA ObeysLater ==
  ASSUME NEW env, NEW e, NEW a, NEW b, a => b, SpecsKept, VarsOf(e)' = VarsOf(e),
         Obeys(env, e, a)
  PROVE  Obeys(env, e, b)'
  <1>1. \A x \in VarsOf(e) : evar'[x].spec = evar[x].spec
    BY DEF SpecsKept, VarsOf
  <1> QED BY <1>1 DEF Obeys, ValueOf

LEMMA ToldLater ==
  ASSUME Alters, SpecsKept, NEW x, NEW r \in Requests, x = req[r], Told(x),
         moved \subseteq moved', byAdmin \subseteq byAdmin'
  PROVE  Told(x)'
  <1> SUFFICES ASSUME x.egg \notin altered' \cup {None}, x.pc # "idle"
               PROVE  Told(x)'
    BY DEF Told
  <1>1. x.egg \in EggsRead
    BY DEF EggsRead, Busy
  <1>2. x.egg \notin altered \cup {None} /\ VarsOf(x.egg)' = VarsOf(x.egg)
    BY <1>1 DEF Alters
  <1>3. PICK env, e, s : env = x.env /\ e = x.egg /\ s = x.srv
    OBVIOUS
  <1>4. VarsOf(e)' = VarsOf(e)
    BY <1>2, <1>3
  <1>5. x.pc = "insert" => Obeys(x.env, x.egg, FALSE)'
    BY <1>2, <1>4, <1>3, ObeysLater DEF Told
  <1>6. x.pc = "check" /\ x.srv \notin moved' => Obeys(x.env, x.egg, x.srv \in byAdmin)'
    <2> SUFFICES ASSUME x.pc = "check", s \notin moved' PROVE Obeys(env, e, s \in byAdmin)'
      BY <1>3
    <2>1. Obeys(env, e, s \in byAdmin)
      BY <1>2, <1>3 DEF Told
    <2> QED BY <1>4, <2>1 DEF Obeys, ValueOf, SpecsKept, VarsOf
  <1>7. x.pc = "write" /\ x.srv \notin moved' =>
           Obeys(x.env, x.egg, x.srv \in byAdmin \/ x.admin)'
    BY <1>2, <1>4, <1>3, ObeysLater DEF Told
  <1> QED BY <1>5, <1>6, <1>7 DEF Told

LEMMA ValidLater ==
  ASSUME Alters, SpecsKept, NEW s \in Servers, Valid(s), Exists(s)' => Exists(s),
         server'[s].egg = server[s].egg, server'[s].env = server[s].env,
         moved \subseteq moved', byAdmin \subseteq byAdmin'
  PROVE  Valid(s)'
  <1> SUFFICES ASSUME s \notin moved', Exists(s), server[s].egg \notin altered' \cup {None}
               PROVE  Valid(s)'
    BY DEF Valid
  <1>1. PICK e, env : e = server[s].egg /\ env = server[s].env
    OBVIOUS
  <1>2. e \in EggsInUse
    BY <1>1 DEF EggsInUse
  <1>3. e \notin altered /\ VarsOf(e)' = VarsOf(e)
    BY <1>1, <1>2 DEF Alters
  <1>4. Obeys(env, e, s \in byAdmin)
    BY <1>1, <1>3 DEF Valid
  <1>5. Obeys(env, e, s \in byAdmin)'
    BY <1>3, <1>4 DEF Obeys, ValueOf, SpecsKept, VarsOf
  <1> QED BY <1>1, <1>5 DEF Valid

LEMMA AcceptedIs ==
  ASSUME NEW spec \in Specs, NEW v, Accepted(spec, v), spec.rules # None,
         WellWritten(spec.rules)
  PROVE  Verdict(Facts[v], RulesOf(spec.rules))
  <1>1. spec.rules \in Seq(Texts)
    BY ConstantsOK
  <1> QED BY <1>1, RulesAreFound DEF Accepted, validate_var

LEMMA EggEnvGives ==
  ASSUME NEW e, NEW given, NEW env \in EggEnvs(e, given), NEW x \in VarsOf(e),
         evar[x].spec.key \in Keys,
         \A y \in VarsOf(e) : evar[y].spec.key = evar[x].spec.key => y = x
  PROVE  env[evar[x].spec.key] = ValueOf(evar[x].spec, given)
  BY DEF EggEnvs

\* What create_server writes.
LEMMA CreateObeys ==
  ASSUME EggPast, NEW e \in Eggs, NEW own \in Envs, NEW given \in Envs,
         NEW env \in EggEnvs(e, given), EggEnvOk(e, given)
  PROVE  Obeys(Over(own, env), e, FALSE)
  <1> SUFFICES ASSUME NEW x \in VarsOf(e),
                      \A y \in VarsOf(e) : evar[y].spec.key = evar[x].spec.key => y = x
               PROVE  LET spec == evar[x].spec
                          v    == Over(own, env)[spec.key]
                      IN  /\ v # None
                          /\ Accepted(spec, v)
                          /\ spec.rules # None /\ WellWritten(spec.rules) =>
                                Verdict(Facts[v], RulesOf(spec.rules))
                          /\ ~spec.editable => v = ValueOf(spec, NoEnv)
    BY DEF Obeys
  <1>1. PICK spec \in Specs : spec = evar[x].spec /\ spec.key \in Keys
    BY SpecTyped
  <1>2. PICK v \in Values : v = ValueOf(spec, given) /\ v # None
    BY ValueTyped
  <1>3. env[spec.key] = v
    BY <1>1, <1>2, EggEnvGives
  <1>4. Over(own, env)[spec.key] = v
    BY <1>1, <1>2, <1>3 DEF Over
  <1>5. Accepted(spec, v)
    BY <1>1, <1>2 DEF EggEnvOk
  <1>6. spec.rules # None /\ WellWritten(spec.rules) =>
             Verdict(Facts[v], RulesOf(spec.rules))
    BY <1>5, AcceptedIs
  <1>7. ~spec.editable => v = ValueOf(spec, NoEnv)
    BY <1>2 DEF ValueOf
  <1> QED BY <1>1, <1>2, <1>4, <1>5, <1>6, <1>7

\* What update_startup writes: an administrator's changes, or a user's to what
\* users may set.
LEMMA UpdateObeys ==
  ASSUME EggPast, NEW e \in Eggs, NEW env \in Envs, NEW body \in Envs,
         NEW was, NEW admin, Obeys(env, e, was),
         \A y \in VarsOf(e) : body[evar[y].spec.key] # None =>
            /\ evar[y].spec.editable \/ admin
            /\ Accepted(evar[y].spec, body[evar[y].spec.key])
  PROVE  Obeys(Over(env, Taken(e, body)), e, was \/ admin)
  <1> SUFFICES ASSUME NEW x \in VarsOf(e),
                      \A y \in VarsOf(e) : evar[y].spec.key = evar[x].spec.key => y = x
               PROVE  LET spec == evar[x].spec
                          v    == Over(env, Taken(e, body))[spec.key]
                      IN  /\ v # None
                          /\ Accepted(spec, v)
                          /\ spec.rules # None /\ WellWritten(spec.rules) =>
                                Verdict(Facts[v], RulesOf(spec.rules))
                          /\ ~spec.editable /\ ~(was \/ admin) => v = ValueOf(spec, NoEnv)
    BY DEF Obeys
  <1>1. PICK spec \in Specs : spec = evar[x].spec /\ spec.key \in Keys
    BY SpecTyped
  <1>2. Taken(e, body)[spec.key] = body[spec.key]
    BY <1>1 DEF Taken
  <1>3. CASE body[spec.key] # None
    <2>1. PICK v : v = body[spec.key] /\ v # None
      BY <1>3
    <2>2. Over(env, Taken(e, body))[spec.key] = v
      BY <1>1, <1>2, <2>1 DEF Over
    <2>3. (spec.editable \/ admin) /\ Accepted(spec, v)
      BY <1>1, <1>3, <2>1
    <2>4. spec.rules # None /\ WellWritten(spec.rules) =>
             Verdict(Facts[v], RulesOf(spec.rules))
      BY <2>3, AcceptedIs
    <2> QED BY <1>1, <2>1, <2>2, <2>3, <2>4
  <1>4. CASE body[spec.key] = None
    <2>1. PICK v : v = env[spec.key]
      OBVIOUS
    <2>2. Over(env, Taken(e, body))[spec.key] = v
      BY <1>1, <1>2, <1>4, <2>1 DEF Over
    <2>3. /\ v # None
          /\ Accepted(spec, v)
          /\ spec.rules # None /\ WellWritten(spec.rules) =>
                Verdict(Facts[v], RulesOf(spec.rules))
          /\ ~spec.editable /\ ~was => v = ValueOf(spec, NoEnv)
      BY <1>1, <2>1 DEF Obeys
    <2> QED BY <1>1, <2>2, <2>3
  <1> QED BY <1>3, <1>4

LEMMA IdleTold == Told(Idle)'
  BY IdleTyped DEF Told

\* One handler gets a step further, begins, or ends, and the servers stay.
LEMMA SlotMovesEnv ==
  ASSUME EnvPast, ServerPast, Alters, SpecsKept, NEW r \in Requests, NEW slot,
         req' = [req EXCEPT ![r] = slot], server' = server,
         moved \subseteq moved', byAdmin \subseteq byAdmin', Told(slot)'
  PROVE  EnvPast'
  <1>0. req'[r] = slot /\ \A q \in Requests \ {r} : req'[q] = req[q]
    BY DEF ServerPast, ServerTypes
  <1>1. ASSUME NEW q \in Requests PROVE Told(req[q])'
    <2>1. CASE q = r
      BY <1>0, <2>1 DEF Told, Obeys
    <2>2. CASE q # r
      <3>1. PICK x : x = req[q]
        OBVIOUS
      <3>2. Told(x)' /\ req'[q] = x
        BY <1>0, <2>2, <3>1, ToldLater DEF EnvPast
      <3> QED BY <3>2 DEF Told, Obeys
    <2> QED BY <2>1, <2>2
  <1>2. ASSUME NEW s \in Servers PROVE Valid(s)'
    BY ValidLater DEF EnvPast, Exists
  <1> QED BY <1>1, <1>2 DEF EnvPast

\* A handler writes a server's row, or none, and is done.
LEMMA WriteMovesEnv ==
  ASSUME EnvPast, ServerPast, Alters, SpecsKept, NEW r \in Requests, NEW s \in Servers,
         Finish(r), moved' = moved, byAdmin \subseteq byAdmin',
         \A t \in Servers \ {s} : server'[t] = server[t], Valid(s)'
  PROVE  EnvPast'
  <1>0. req'[r] = Idle /\ \A q \in Requests \ {r} : req'[q] = req[q]
    BY DEF ServerPast, ServerTypes, Finish
  <1>1. ASSUME NEW q \in Requests PROVE Told(req[q])'
    <2>1. CASE q = r
      BY <1>0, <2>1, IdleTold, IdleTyped DEF Told
    <2>2. CASE q # r
      <3>1. PICK x : x = req[q]
        OBVIOUS
      <3>2. Told(x)' /\ req'[q] = x
        BY <1>0, <2>2, <3>1, ToldLater DEF EnvPast
      <3> QED BY <3>2 DEF Told, Obeys
    <2> QED BY <2>1, <2>2
  <1>2. ASSUME NEW t \in Servers \ {s} PROVE Valid(t)'
    BY ValidLater DEF EnvPast, Exists
  <1> QED BY <1>1, <1>2 DEF EnvPast

LEMMA FinishEnv ==
  ASSUME EnvPast, ServerPast, Alters, SpecsKept, NEW r \in Requests, Finish(r),
         UNCHANGED <<server, moved, byAdmin>>
  PROVE  EnvPast'
  BY IdleTold, SlotMovesEnv DEF Finish

LEMMA BeginEnv ==
  ASSUME EnvPast, EggPast, ServerPast, Alters, SpecsKept, NEW r \in Requests, Begin(r)
  PROVE  EnvPast'
  <1>1. ASSUME NEW e \in Eggs \cup {None}, NEW own \in Owns, NEW given \in Bodies,
               NEW image \in Images, CreateRead(r, e, own, given, image)
        PROVE  EnvPast'
    <2>1. PICK env \in Envs :
             /\ e # None => env \in EggEnvs(e, given) /\ EggEnvOk(e, given)
             /\ Enter(r, Create(e, image, Over(own, env)))
             /\ Over(own, env) \in Envs
      BY <1>1, CreateReadIs
    <2>2. PICK made \in Envs : made = Over(own, env)
      BY <2>1
    <2>3. e # None => Obeys(made, e, FALSE)
      BY <2>1, <2>2, BodiesAreEnvs, CreateObeys
    <2>4. e # None => Obeys(made, e, FALSE)'
      BY <1>1, <2>1, <2>3 DEF Enter, eggRest, catalogue, Obeys, VarsOf, ValueOf
    <2>5. PICK slot : /\ slot = Create(e, image, made) /\ slot.pc = "insert"
                      /\ slot.egg = e /\ slot.env = made
      BY CreateIs DEF Id
    <2>6. Told(slot)'
      BY <2>4, <2>5 DEF Told
    <2>7. /\ req' = [req EXCEPT ![r] = slot]
          /\ UNCHANGED <<server, moved, byAdmin>>
      BY <1>1, <2>1, <2>2, <2>5 DEF Enter, CreateRead
    <2> QED BY <2>6, <2>7, SlotMovesEnv
  <1>2. ASSUME NEW s \in Servers, NEW body \in Bodies, NEW admin \in BOOLEAN,
               UpdateRead(r, s, body, admin)
        PROVE  EnvPast'
    <2>1. PICK slot \in Slots :
             /\ Enter(r, slot) /\ Exists(s)
             /\ slot.pc = "check" /\ slot.srv = s /\ slot.egg = server[s].egg
             /\ slot.egg \in Eggs /\ slot.env = server[s].env
      BY <1>2, UpdateReadIs
    <2>2. /\ req' = [req EXCEPT ![r] = slot]
          /\ UNCHANGED <<server, moved, byAdmin>>
      BY <1>2, <2>1 DEF Enter, UpdateRead
    <2>3. Valid(s)'
      BY <2>2, ValidLater DEF EnvPast, Exists
    <2>4. Told(slot)'
      BY <2>1, <2>2, <2>3 DEF Told, Valid, Exists
    <2> QED BY <2>2, <2>4, SlotMovesEnv
  <1>3. ASSUME NEW s \in Servers, NEW e \in Eggs, NEW image \in Images, NEW reset \in BOOLEAN,
               ChangeRead(r, s, e, image, reset)
        PROVE  EnvPast'
    <2>1. PICK pc \in {"reset", "merge"} : pc = IF reset THEN "reset" ELSE "merge"
      OBVIOUS
    <2>2. PICK env \in Envs : env = server[s].env
      BY DEF ServerPast, ServerTypes, ServerRows
    <2>3. PICK slot : slot = Change(s, e, image, env, pc) /\ slot.pc = pc
      BY ChangeIs
    <2>4. /\ req' = [req EXCEPT ![r] = slot] /\ UNCHANGED <<server, byAdmin>>
          /\ moved \subseteq moved'
      BY <1>3, <2>1, <2>2, <2>3 DEF ChangeRead, Enter, Change
    <2>5. Told(slot)'
      BY <2>3 DEF Told
    <2> QED BY <2>4, <2>5, SlotMovesEnv
  <1> QED BY <1>1, <1>2, <1>3 DEF Begin

LEMMA UpdateCheckEnv ==
  ASSUME EnvPast, EggPast, ServerPast, Alters, SpecsKept, NEW r \in Requests, UpdateCheck(r)
  PROVE  EnvPast'
  <1>0. UNCHANGED <<evar, server, moved, byAdmin>>
    BY DEF UpdateCheck, eggVars, eggRest, catalogue
  <1>1. CASE Finish(r)
    BY <1>0, <1>1, FinishEnv
  <1>2. CASE ~Finish(r)
    <2>1. PICK x \in Slots : x = req[r]
      BY DEF ServerPast, ServerTypes
    <2>2. PICK slot \in Slots :
             /\ req' = [req EXCEPT ![r] = slot] /\ x.pc = "check"
             /\ \A y \in VarsOf(x.egg) : x.delta[evar[y].spec.key] # None =>
                   /\ evar[y].spec.editable \/ x.admin
                   /\ Accepted(evar[y].spec, x.delta[evar[y].spec.key])
             /\ slot.pc = "write" /\ slot.srv = x.srv /\ slot.egg = x.egg
             /\ slot.admin = x.admin /\ slot.delta = Taken(x.egg, x.delta)
             /\ slot.env = Over(x.env, slot.delta)
      BY <1>2, <2>1, UpdateCheckIs
    <2>3. PICK e \in Eggs, env \in Envs, body \in Envs, s \in Servers :
             e = x.egg /\ env = x.env /\ body = x.delta /\ s = x.srv
      BY <2>1, <2>2 DEF ServerPast, Placed, Slots
    <2> SUFFICES ASSUME e \notin altered', s \notin moved PROVE EnvPast'
      BY <1>0, <2>2, <2>3, SlotMovesEnv DEF Told
    <2>4. Obeys(env, e, s \in byAdmin)
      BY <2>1, <2>2, <2>3, ConstantsOK DEF EnvPast, Told, Alters
    <2>a. \A y \in VarsOf(e) : body[evar[y].spec.key] # None =>
             /\ evar[y].spec.editable \/ x.admin
             /\ Accepted(evar[y].spec, body[evar[y].spec.key])
      BY <2>2, <2>3
    <2>b. PICK was, admin : was = (s \in byAdmin) /\ admin = x.admin
      OBVIOUS
    <2>c. Obeys(Over(env, Taken(e, body)), e, was \/ admin)
      <3>1. Obeys(env, e, was)
        BY <2>4, <2>b, Zenon
      <3>2. \A y \in VarsOf(e) : body[evar[y].spec.key] # None =>
               /\ evar[y].spec.editable \/ admin
               /\ Accepted(evar[y].spec, body[evar[y].spec.key])
        BY <2>a, <2>b
      <3> QED BY <3>1, <3>2, UpdateObeys
    <2>5. Obeys(Over(env, Taken(e, body)), e, s \in byAdmin \/ x.admin)
      BY <2>b, <2>c, Zenon
    <2>6. PICK made, may : made = slot.env /\ may = slot.admin
      OBVIOUS
    <2>7. Obeys(made, e, s \in byAdmin \/ may)
      BY <2>2, <2>3, <2>5, <2>6
    <2>8. Obeys(made, e, s \in byAdmin \/ may)'
      BY <1>0, <2>7 DEF Obeys, VarsOf, ValueOf
    <2>9. Told(slot)'
      BY <2>2, <2>3, <2>6, <2>8 DEF Told
    <2> QED BY <1>0, <2>2, <2>9, SlotMovesEnv
  <1> QED BY <1>1, <1>2

LEMMA CreateInsertEnv ==
  ASSUME EnvPast, ServerPast, Alters, SpecsKept, NEW r \in Requests, CreateInsert(r)
  PROVE  EnvPast'
  <1>0. UNCHANGED <<evar, moved, byAdmin>> /\ Finish(r)
    BY DEF CreateInsert, eggVars, eggRest, catalogue
  <1>1. CASE UNCHANGED <<server, applied>>
    BY <1>0, <1>1, FinishEnv
  <1>2. CASE ~UNCHANGED <<server, applied>>
    <2>1. PICK x \in Slots : x = req[r]
      BY DEF ServerPast, ServerTypes
    <2>2. PICK s \in Servers :
             /\ server[s].row = "unborn"
             /\ server' = [server EXCEPT ![s] =
                    [row |-> "live", egg |-> x.egg, image |-> x.image, env |-> x.env]]
      BY <1>2, <2>1 DEF CreateInsert
    <2>3. /\ server'[s].egg = x.egg /\ server'[s].env = x.env
          /\ \A t \in Servers \ {s} : server'[t] = server[t]
      BY <2>2 DEF ServerPast, ServerTypes
    <2>4. x.pc = "insert" /\ Told(x)'
      BY <1>0, <2>1, ToldLater DEF CreateInsert, EnvPast
    <2>5. PICK e, env : e = x.egg /\ env = x.env
      OBVIOUS
    <2>6. e \notin altered' \cup {None} => Obeys(env, e, FALSE)'
      BY <2>4, <2>5 DEF Told
    <2>7. e \notin altered' \cup {None} => Obeys(env, e, s \in byAdmin)'
      BY <2>6 DEF Obeys
    <2>8. Valid(s)'
      BY <2>3, <2>5, <2>7 DEF Valid
    <2> QED BY <1>0, <2>3, <2>8, WriteMovesEnv
  <1> QED BY <1>1, <1>2

LEMMA UpdateWriteEnv ==
  ASSUME EnvPast, ServerPast, Alters, SpecsKept, NEW r \in Requests, UpdateWrite(r)
  PROVE  EnvPast'
  <1>0. /\ UNCHANGED <<evar, moved>> /\ Finish(r) /\ req[r].pc = "write"
    BY DEF UpdateWrite, eggVars, eggRest, catalogue
  <1>1. PICK x \in Slots, s \in Servers : x = req[r] /\ s = x.srv
    BY <1>0, Busied
  <1>2. /\ Placed(x) /\ server[s] \in ServerRows /\ x.pc = "write" /\ x.egg \in Eggs
    BY <1>0, <1>1, Busied
  <1>3. byAdmin' = (IF x.admin THEN byAdmin \cup {s} ELSE byAdmin)
    BY <1>1 DEF UpdateWrite
  <1>4. /\ \A t \in Servers \ {s} : server'[t] = server[t]
        /\ server'[s].egg = server[s].egg
        /\ Exists(s)' => Exists(s)
        /\ Exists(s) => server'[s].env = x.env
    BY <1>1, <1>2 DEF UpdateWrite, Exists, ServerRows
  <1>5. Told(x)'
    BY <1>0, <1>1, <1>3, ToldLater DEF EnvPast
  <1>6. PICK env, e : env = x.env /\ e = x.egg
    OBVIOUS
  <1>7. ASSUME s \notin moved, Exists(s), e \notin altered' \cup {None}
        PROVE  Obeys(env, e, s \in byAdmin)'
    <2>1. Obeys(env, e, s \in byAdmin \/ x.admin)'
      BY <1>0, <1>1, <1>2, <1>5, <1>6, <1>7 DEF Told
    <2> QED BY <1>3, <2>1 DEF Obeys
  <1>8. s \notin moved => server[s].egg = e
    BY <1>1, <1>2, <1>6 DEF Placed
  <1>9. ASSUME s \notin moved', Exists(s)', server'[s].egg \notin altered' \cup {None}
        PROVE  Obeys(server[s].env, server[s].egg, s \in byAdmin)'
    <2>a. s \notin moved
      BY <1>0, <1>9
    <2>b. Exists(s)
      BY <1>4, <1>9
    <2>1. server'[s].env = env /\ server'[s].egg = e
      BY <1>4, <1>6, <1>8, <2>a, <2>b
    <2>2. Obeys(env, e, s \in byAdmin)'
      BY <1>7, <1>9, <2>a, <2>b, <2>1
    <2> QED BY <2>1, <2>2
  <1>10. Valid(s)'
    BY <1>9 DEF Valid
  <1> QED BY <1>0, <1>3, <1>4, <1>10, WriteMovesEnv

LEMMA ChangeEnv ==
  ASSUME EnvPast, EggPast, ServerPast, Alters, SpecsKept, NEW r \in Requests,
         ChangeLoad(r) \/ ChangeWrite(r)
  PROVE  EnvPast'
  <1>1. CASE ChangeWrite(r)
    <2>0. /\ UNCHANGED <<moved, byAdmin>> /\ Finish(r) /\ req[r].pc \in {"replace", "fill"}
      BY <1>1 DEF ChangeWrite
    <2>1. PICK s \in Servers : s = req[r].srv /\ s \in moved
      BY <2>0, Busied DEF Placed
    <2>2. \A t \in Servers \ {s} : server'[t] = server[t]
      BY <1>1, <2>1 DEF ChangeWrite, ServerPast, ServerTypes
    <2>3. Valid(s)'
      BY <2>0, <2>1 DEF Valid
    <2> QED BY <2>0, <2>2, <2>3, WriteMovesEnv
  <1>2. CASE ChangeLoad(r)
    <2>0. UNCHANGED <<server, moved, byAdmin>> /\ req[r].pc \in {"reset", "merge"}
      BY <1>2 DEF ChangeLoad
    <2>1. PICK x \in Slots : x = req[r]
      BY DEF ServerPast, ServerTypes
    <2>2. PICK d \in EggDefaults(x.egg) :
             req' = [req EXCEPT ![r].pc = IF x.pc = "reset" THEN "replace" ELSE "fill",
                                ![r].delta = d,
                                ![r].env = IF x.pc = "reset" THEN d ELSE Over(d, x.env)]
      BY <1>2, <2>1 DEF ChangeLoad
    <2>3. d \in Envs
      BY EggEnvTyped, NoEnvTyped DEF EggDefaults
    <2>4. PICK slot : /\ slot = Loaded(x, d)
                      /\ slot.pc = (IF x.pc = "reset" THEN "replace" ELSE "fill")
      BY <2>3, LoadedIs
    <2>5. req' = [req EXCEPT ![r] = slot]
      BY <2>1, <2>2, <2>4 DEF Loaded, ServerPast, ServerTypes, Slots
    <2>6. Told(slot)'
      BY <2>4 DEF Told
    <2> QED BY <2>0, <2>5, <2>6, SlotMovesEnv
  <1> QED BY <1>1, <1>2

-----------------------------------------------------------------------------
(* Every step.                                                             *)

Past == EggPast /\ ExportPast /\ ServerPast /\ EnvPast /\ altered \subseteq Eggs

LEMMA PastIsIInv == Past <=> IInv
  <1>1. EggPast /\ ExportPast /\ ServerTypes /\ Rooted /\ altered \subseteq Eggs
           <=> Sound /\ Born /\ ImportHeld /\ ImportInOrder /\ ExportHeld /\ ExportWhole
    BY DEF EggPast, ExportPast, EggTypes, OfEggs, Sound, TypeOK, EggTypeOK, ServerTypeOK,
       ServerTypes, References, Rooted, ImportInOrder, InOrder
  <1>2. /\ (\A r \in Requests : Placed(req[r]) /\ Fresh(req[r])) <=> AtWork /\ UpToDate
        /\ EnvPast <=> EnvHeld /\ EnvValid
    BY DEF Placed, Fresh, Holds, AtWork, UpToDate, EnvPast, EnvHeld, EnvValid, Told, Valid
  <1> QED BY <1>1, <1>2 DEF Past, IInv, ServerPast

LEMMA InitPast == Init => Past
  <1> SUFFICES ASSUME Init PROVE Past
    OBVIOUS
  <1>1. EggPast /\ ExportPast /\ ServerPast
    BY InitEggPast, InitExportPast, InitServerPast DEF Init
  <1>2. EnvPast /\ altered \subseteq Eggs
    BY IdleTyped DEF Init, EnvPast, Told, Valid, Exists, NoRow
  <1> QED BY <1>1, <1>2 DEF Past

LEMMA NextPast ==
  ASSUME Past, Next
  PROVE  Past'
  <1>0. EggPast /\ ExportPast /\ ServerPast /\ EnvPast /\ Watch /\ Alters
    BY DEF Past, Next, Alters
  <1>1. altered' \subseteq Eggs
    <2>1. EggsInUse \cup EggsRead \subseteq Eggs \cup {None}
      BY <1>0 DEF ServerPast, ServerTypes, ServerRows, Slots, Id, EggsInUse, EggsRead
    <2> QED BY <1>0, <2>1 DEF Past, Alters
  <1>2. CASE EggStep(EggsInUse) /\ UNCHANGED rows
    <2>1. EggPast' /\ SpecsKept
      BY <1>0, <1>2, EggStepKeeps, EggStepSpecs
    <2>2. ExportPast'
      BY <1>0, <1>2, <2>1, EggStepExports
    <2>3. ServerPast'
      BY <1>0, <1>2, EggStepServers
    <2>4. UNCHANGED <<req, server, moved, byAdmin>>
      BY <1>2 DEF rows
    <2>5. ASSUME NEW q \in Requests PROVE Told(req[q])'
      <3>1. PICK x : x = req[q]
        OBVIOUS
      <3>2. Told(x)'
        BY <1>0, <2>1, <2>4, <3>1, ToldLater DEF EnvPast
      <3> QED BY <2>4, <3>1, <3>2 DEF Told, Obeys
    <2>6. ASSUME NEW s \in Servers PROVE Valid(s)'
      BY <1>0, <2>1, <2>4, ValidLater DEF EnvPast, Exists
    <2> QED BY <1>1, <2>1, <2>2, <2>3, <2>5, <2>6 DEF Past, EnvPast
  <1>3. CASE UNCHANGED eggRest /\ begun' \in 0 .. MaxBegun /\ ServerPast' /\ EnvPast'
    <2>1. UNCHANGED <<egg, evar, script, cfile, import, export, origin, edited, whole>>
      BY <1>3 DEF eggRest, catalogue
    <2>2. EggPast'
      BY <1>0, <1>3, <2>1, CatalogueSame
    <2>3. ExportPast'
      BY <1>0, <2>1, <2>2, ExportSame DEF EggPast
    <2> QED BY <1>1, <1>3, <2>2, <2>3 DEF Past
  <1>4. begun \in 0 .. MaxBegun /\ (Count => begun' \in 0 .. MaxBegun)
    BY <1>0 DEF EggPast, EggTypes, Count
  <1>5. ASSUME UNCHANGED eggRest PROVE SpecsKept
    BY <1>5 DEF SpecsKept, eggRest, catalogue
  <1>6. ASSUME NEW r \in Requests, Begin(r) PROVE Past'
    <2>1. UNCHANGED eggRest /\ begun' \in 0 .. MaxBegun
      <3>1. ASSUME NEW e, NEW own, NEW given, NEW image, CreateRead(r, e, own, given, image)
            PROVE  UNCHANGED eggRest /\ Count
        BY <3>1 DEF CreateRead, Enter, Ready
      <3>2. ASSUME NEW s, NEW body, NEW admin, UpdateRead(r, s, body, admin)
            PROVE  UNCHANGED eggRest /\ Count
        BY <3>2 DEF UpdateRead, Enter, Ready
      <3>3. ASSUME NEW s, NEW e, NEW image, NEW reset, ChangeRead(r, s, e, image, reset)
            PROVE  UNCHANGED eggRest /\ Count
        BY <3>3 DEF ChangeRead, Enter, Ready
      <3> QED BY <1>4, <1>6, <3>1, <3>2, <3>3 DEF Begin
    <2>2. ServerPast'
      BY <1>0, <1>6, CreateReadKeeps, UpdateReadKeeps, ChangeReadKeeps DEF Begin
    <2>3. EnvPast'
      BY <1>0, <1>5, <1>6, <2>1, BeginEnv
    <2> QED BY <1>3, <2>1, <2>2, <2>3
  <1>7. ASSUME NEW r \in Requests, Handler(r) PROVE Past'
    <2>1. UNCHANGED eggRest /\ begun' \in 0 .. MaxBegun
      BY <1>4, <1>7 DEF Handler, CreateInsert, UpdateCheck, UpdateWrite, ChangeLoad, ChangeWrite,
         Drop, eggVars
    <2>2. SpecsKept
      BY <1>5, <2>1
    <2>3. CASE Drop(r)
      <3>1. Finish(r) /\ UNCHANGED <<egg, server, applied, crowded, moved, byAdmin>>
        BY <2>3 DEF Drop, eggVars, eggRest, catalogue
      <3> QED BY <1>0, <1>3, <2>1, <2>2, <3>1, FinishKeeps, FinishEnv
    <2>4. CASE ~Drop(r)
      <3>1. ServerPast'
        BY <1>0, <1>7, <2>4, CreateInsertKeeps, UpdateCheckKeeps, UpdateWriteKeeps,
           ChangeLoadKeeps, ChangeWriteKeeps DEF Handler
      <3>2. EnvPast'
        BY <1>0, <1>7, <2>2, <2>4, CreateInsertEnv, UpdateCheckEnv, UpdateWriteEnv, ChangeEnv
           DEF Handler
      <3> QED BY <1>3, <2>1, <3>1, <3>2
    <2> QED BY <2>3, <2>4
  <1>8. ASSUME NEW s \in Servers,
               \/ delete_server(s) \/ \E i \in Images : update_docker_image(s, i)
        PROVE  Past'
    <2>1. UNCHANGED eggRest /\ begun' \in 0 .. MaxBegun /\ UNCHANGED <<req, moved, byAdmin>>
      BY <1>4, <1>8 DEF delete_server, update_docker_image
    <2>2. SpecsKept
      BY <1>5, <2>1
    <2>3. ServerPast'
      BY <1>0, <1>8, DeleteServerKeeps, UpdateImageKeeps
    <2>4. ASSUME NEW q \in Requests PROVE Told(req[q])'
      <3>1. PICK x : x = req[q]
        OBVIOUS
      <3>2. Told(x)'
        BY <1>0, <2>1, <2>2, <3>1, ToldLater DEF EnvPast
      <3> QED BY <2>1, <3>1, <3>2 DEF Told, Obeys
    <2>5. \A t \in Servers : /\ Exists(t)' => Exists(t)
                             /\ server'[t].egg = server[t].egg /\ server'[t].env = server[t].env
      BY <1>0, <1>8 DEF delete_server, update_docker_image, Exists, ServerPast, ServerTypes,
         ServerRows
    <2>6. ASSUME NEW t \in Servers PROVE Valid(t)'
      BY <1>0, <2>1, <2>2, <2>5, ValidLater DEF EnvPast
    <2> QED BY <1>3, <2>1, <2>3, <2>4, <2>6 DEF EnvPast
  <1> QED BY <1>2, <1>6, <1>7, <1>8 DEF Next, Step

LEMMA StutterPast ==
  ASSUME Past, UNCHANGED vars
  PROVE  Past'
  <1>1. UNCHANGED <<egg, evar, script, cfile, import, export, begun, origin, edited, whole, seen,
                    kept, server, req, applied, crowded, moved, byAdmin, altered>>
    BY DEF vars, eggVars, eggRest, catalogue, rows
  <1>2. EggPast'
    BY <1>1, CatalogueSame DEF Past, EggPast, EggTypes
  <1>3. ExportPast'
    BY <1>1 DEF Past, ExportPast, ExportHeld, ExportWhole, Exporting, Rows, VarsOf, FilesOf, Script
  <1>4. ServerTypes' /\ Rooted' /\ Alone' /\ NoLostUpdate' /\ altered' \subseteq Eggs
    BY <1>1 DEF Past, ServerPast, ServerTypes, Rooted, Alone, NoLostUpdate, Exists, Live, Busy
  <1>5. ASSUME NEW r \in Requests PROVE Placed(req[r])' /\ Fresh(req[r])' /\ Told(req[r])'
    <2>1. Placed(req[r]) /\ Fresh(req[r]) /\ Told(req[r])
      BY DEF Past, ServerPast, EnvPast
    <2>2. Placed(req[r])'
      BY <1>1, <2>1 DEF Placed
    <2>3. Fresh(req[r])'
      BY <1>1, <2>1 DEF Fresh, Holds, Exists
    <2>4. Told(req[r])'
      <3>1. PICK x : x = req[r]
        OBVIOUS
      <3>3. Told(x)'
        BY <1>1, <2>1, <3>1 DEF Told, Obeys, VarsOf, ValueOf
      <3> QED BY <1>1, <3>1, <3>3 DEF Told, Obeys
    <2> QED BY <2>2, <2>3, <2>4
  <1>6. ASSUME NEW s \in Servers PROVE Valid(s)'
    BY <1>1 DEF Past, EnvPast, Valid, Obeys, VarsOf, Exists, ValueOf
  <1> QED BY <1>2, <1>3, <1>4, <1>5, <1>6 DEF Past, ServerPast, EnvPast

-----------------------------------------------------------------------------
(* The theorems.                                                           *)

\* What egg, import, export and handlers keep of one another holds in every
\* state of eggs.rs, startup.rs, settings.rs and servers.rs together.
THEOREM StartupInvariant == Spec => []IInv
  <1>1. Init => Past
    BY InitPast
  <1>2. Past /\ [Next]_vars => Past'
    BY NextPast, StutterPast
  <1>3. Spec => []Past
    BY <1>1, <1>2, PTL DEF Spec
  <1> QED BY <1>3, PastIsIInv, PTL

\* Every variable of the model has the type of the code's, and no row of an
\* egg, nor a server, is left of an egg that delete_egg took away, whenever an
\* import, a form or a create_server writes it.
THEOREM EggsAreSound == Spec => []Sound
  <1>1. IInv => Sound
    BY DEF IInv
  <1> QED BY <1>1, StartupInvariant, PTL

\* import_egg, which is no transaction, leaves the document's first variables
\* wherever it stops, the script only after all of them, and all of it once it
\* has answered 201, for any document.
THEOREM ImportsGoInOrder == Spec => []ImportInOrder
  <1>1. IInv => ImportInOrder
    BY DEF IInv
  <1> QED BY <1>1, StartupInvariant, PTL

\* An export_egg_toml of four SELECTs holds all that the egg had throughout and
\* nothing it had at no moment, whatever is written between them.
THEOREM ExportsAreWhole == Spec => []ExportWhole
  <1>1. IInv => ExportWhole
    BY DEF IInv
  <1> QED BY <1>1, StartupInvariant, PTL

\* As long as no two handlers of a server overlap, none of update_startup and
\* change_egg loses what another wrote, though each writes back the whole
\* environment that it read.
THEOREM UpdatesAreKept == Spec => []NoLostUpdate
  <1>1. IInv => NoLostUpdate
    BY DEF IInv
  <1> QED BY <1>1, StartupInvariant, PTL

\* A server has a value, which the rules accept, of every variable of the egg
\* it was created from, and the default of what administrators alone may set,
\* as long as neither was changed; whatever create_server and update_startup
\* are sent.
THEOREM EnvironmentsObey == Spec => []EnvValid
  <1>1. IInv => EnvValid
    BY DEF IInv
  <1> QED BY <1>1, StartupInvariant, PTL

=============================================================================
