------------------------------ MODULE EggVars ------------------------------
(***************************************************************************)
(* The rules of egg variables: crates/panel/src/egg_vars.rs.               *)
(*                                                                         *)
(* A rule string is a sequence over four symbols: "w" is any character     *)
(* without a meaning here, "|" and "/" are themselves, and "regex:/" is    *)
(* that text.                                                              *)
(***************************************************************************)
EXTENDS Integers, SequencesExt

CONSTANT Meaning   \* what the texts of rules mean; other texts mean nothing

Symbols == {"w", "|", "/", "regex:/"}
Slashes == {"/", "regex:/"}
Texts   == Seq(Symbols)

\* The first place of one of cs in s, or 0.
Find(s, cs) ==
    LET places == {i \in DOMAIN s : s[i] \in cs}
    IN  IF places = {} THEN 0 ELSE CHOOSE i \in places : \A j \in places : i <= j

From(s, i) == SubSeq(s, i, Len(s))

Found(x, rule, left) == [found |-> Append(x.found, rule), left |-> left]

\* A turn that knows no regular expressions.
TurnAtBars(x) ==
    LET s   == x.left
        end == Find(s, {"|"})
    IN  IF s = <<>> THEN x
        ELSE IF end = 0 THEN Found(x, s, <<>>)
        ELSE Found(x, SubSeq(s, 1, end - 1), From(s, end + 1))

\* One turn of parse_rules' loop.  A regular expression ends at the next "/":
\* what lies between may hold a "|", and a "|" after it is skipped.
Turn(x) ==
    LET s     == x.left
        regex == s[1] = "regex:/"
        end   == IF regex THEN Find(From(s, 2), Slashes) ELSE Find(s, {"|"})
        after == From(s, end + 2)
    IN  IF s = <<>> THEN x
        ELSE IF end = 0 THEN Found(x, s, <<>>)
        ELSE IF ~regex THEN Found(x, SubSeq(s, 1, end - 1), From(s, end + 1))
        ELSE Found(x, SubSeq(s, 1, end + 1),
                   IF after # <<>> /\ after[1] = "|" THEN From(after, 2) ELSE after)

\* Each turn takes a symbol or more.
Turns(rules) ==
    LET turns[n \in 0 .. Len(rules)] ==
            IF n = 0 THEN [found |-> <<>>, left |-> rules] ELSE Turn(turns[n - 1])
    IN  turns

parse_rules(rules) == Turns(rules)[Len(rules)].found

\* Rules as an egg's author writes them, joined by "|": the last n of them.
Ends(rs) ==
    LET ends[n \in 0 .. Len(rs)] ==
            IF n = 0 THEN <<>>
            ELSE rs[Len(rs) - n + 1] \o (IF n = 1 THEN <<>> ELSE <<"|">> \o ends[n - 1])
    IN  ends

Joined(rs) == Ends(rs)[Len(rs)]

\* Rules that parse_rules can tell apart: without a "|", or a regular
\* expression without a "/".  Nothing refuses others.
Plain(rule) == rule # <<>> /\ rule[1] # "regex:/" /\ \A i \in DOMAIN rule : rule[i] # "|"

Regex(rule) ==
    /\ Len(rule) > 1 /\ rule[1] = "regex:/" /\ rule[Len(rule)] = "/"
    /\ \A i \in 2 .. Len(rule) - 1 : rule[i] \notin Slashes

WellWritten(rs) == \A i \in DOMAIN rs : Plain(rs[i]) \/ Regex(rs[i])

-----------------------------------------------------------------------------
\* A value is known by its length, the integer it reads as (a set of one or
\* none), whether it is "true" or "false", and the patterns it matches.
Integral(v) == v.int # {}

Within(kind, n, bound) == IF kind = "max" THEN n <= bound ELSE n >= bound

\* A rule is known by its kind and its argument: a set of one number or
\* pattern, or of none where it cannot be read, which refuses every value.
Passes(rule, v, integer) ==
    CASE rule.kind = "integer" -> Integral(v)
      [] rule.kind = "boolean" -> v.bool
      [] rule.kind \in {"max", "min"} ->
            \E bound \in rule.arg :
                IF integer THEN \E i \in v.int : Within(rule.kind, i, bound)
                ELSE Within(rule.kind, v.len, bound)
      [] rule.kind = "regex" -> \E pattern \in rule.arg : pattern \in v.matches
      [] OTHER -> TRUE   \* required, nullable, string, and rules unknown

Has(parts, kind) == \E rule \in parts : rule.kind = kind

\* The rules are tried in turn and the first that fails is told: the verdict
\* is that of all of them.
Verdict(v, parts) ==
    IF v.len = 0
    THEN Has(parts, "nullable") \/ ~Has(parts, "required")
    ELSE \A rule \in parts : Passes(rule, v, Has(parts, "integer"))

RulesOf(texts) == {Meaning[t] : t \in ToSet(texts) \cap DOMAIN Meaning}

validate_var(v, rules) == Verdict(v, RulesOf(parse_rules(rules)))

=============================================================================
