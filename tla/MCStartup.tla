----------------------------- MODULE MCStartup -----------------------------
(* Instances of StartupProperties for TLC. *)
EXTENDS StartupProperties, TLC

CONSTANTS e1, e2, x1, x2, x3, f1, s1, r1, r2, k1, k2, i1, t1,
          nothing, seven, five, word

Rule(kind, arg) == [kind |-> kind, arg |-> arg]

Fact(len, int, bool, matches) ==
    [len |-> len, int |-> int, bool |-> bool, matches |-> matches]

FourFacts == nothing :> Fact(0, {}, FALSE, {}) @@ seven :> Fact(1, {7}, FALSE, {"seven"})
             @@ five :> Fact(1, {5}, FALSE, {}) @@ word :> Fact(4, {}, TRUE, {"letters"})

\* Texts of rules, then a regular expression with a "|", and one with a "/",
\* of which parse_rules leaves the first part and an unknown rule.
required == <<"w">>
integer  == <<"w", "w">>
max8     == <<"w", "w", "w">>
nullable == <<"w", "w", "w", "w">>
letters  == <<"regex:/", "w", "|", "w", "/">>
dated    == <<"regex:/", "w", "/", "w", "w", "/">>
cut      == <<"regex:/", "w", "/">>

Meanings == required :> Rule("required", {}) @@ integer :> Rule("integer", {})
            @@ max8 :> Rule("max", {8}) @@ nullable :> Rule("nullable", {})
            @@ letters :> Rule("regex", {"letters"}) @@ dated :> Rule("regex", {"date"})
            @@ cut :> Rule("regex", {"seven"})

\* A number up to 8 for all to set, and words that administrators set.
Port == [key |-> k1, default |-> seven, editable |-> TRUE,
         rules |-> <<required, integer, max8>>]
Text == [key |-> k2, default |-> None, editable |-> FALSE,
         rules |-> <<letters, nullable>>]
Date == [key |-> k2, default |-> seven, editable |-> FALSE, rules |-> <<required, dated>>]

SomeSpecs == {Port, Text, Date}
SomeDocs  == {[vars |-> <<Port, Text>>, script |-> t1]}

SomeBodies == {NoEnv, k1 :> five @@ k2 :> None, k1 :> word @@ k2 :> None,
               k1 :> None @@ k2 :> word, k1 :> None @@ k2 :> seven}
SomeOwns   == {NoEnv, k1 :> word @@ k2 :> word}

Symmetry == Permutations(Requests) \cup Permutations(Vars)
=============================================================================
