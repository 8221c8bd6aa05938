------------------------- MODULE StartupProperties -------------------------
(* What eggs and the environments made of them are to keep.                *)
EXTENDS Startup

Envs == [Keys -> Values \cup {None}]
Id   == Eggs \cup {None}
Row  == {"unborn", "live", "deleted"}
All  == Vars \cup Files \cup Eggs \X Scripts

EggTypeOK ==
    /\ egg \in [Eggs -> Row]
    /\ evar \in [Vars -> [row : Row, egg : Id, spec : Specs \cup {None}]]
    /\ script \in [Eggs -> Scripts \cup {None}]
    /\ cfile \in [Files -> [row : Row, egg : Id]]
    /\ Importing => /\ import \in [egg : Eggs, doc : Docs, next : Nat \ {0}]
                    /\ import.next <= Len(import.doc.vars) + 1
    /\ export \in [pc : {"idle", "vars", "install", "files", "told"}, egg : Id, got : SUBSET All]
    /\ begun \in 0 .. MaxBegun
    /\ origin \in [Eggs -> Docs \cup {None}]
    /\ edited \subseteq Eggs /\ whole \subseteq Eggs /\ seen \subseteq All /\ kept \subseteq All

ServerRows == [row : Row, egg : Id, image : Images \cup {None}, env : Envs]
Slots      == [pc : {"idle", "insert", "check", "write", "reset", "merge", "replace", "fill"},
               srv : Servers \cup {None}, egg : Id, image : Images \cup {None},
               admin : BOOLEAN, env : Envs, delta : Envs]

ServerTypeOK ==
    /\ server \in [Servers -> ServerRows]
    /\ req \in [Requests -> Slots]
    /\ applied \in [Servers -> Envs]
    /\ UNION {crowded, moved, byAdmin} \subseteq Servers
    /\ altered \subseteq Eggs

TypeOK == EggTypeOK /\ ServerTypeOK

\* What the foreign keys promise: no variable, script, config file or server
\* of an egg that is not there, though an import still inserts while its egg
\* is deleted, and a server is inserted long after its egg was read.
References ==
    /\ \A x \in Vars : evar[x].row = "live" => Live(evar[x].egg)
    /\ \A f \in Files : cfile[f].row = "live" => Live(cfile[f].egg)
    /\ \A e \in Eggs : script[e] # None => Live(e)
    /\ \A s \in Servers : Exists(s) /\ server[s].egg # None => Live(server[s].egg)

Sound == TypeOK /\ References

-----------------------------------------------------------------------------
\* ImportInOrder of one egg.
InOrder(e) == Live(e) /\ origin[e] # None /\ e \notin edited =>
    LET d == origin[e]
        n == Cardinality(VarsOf(e))
        complete == n = Len(d.vars) /\ script[e] = d.script
    IN  /\ {evar[x].spec : x \in VarsOf(e)} = {d.vars[k] : k \in 1 .. n}
        /\ script[e] # None => complete
        /\ e \in whole => complete
        /\ import.egg = e => import.next = n + 1

\* Of an egg only its import has touched, the variables are the document's
\* first ones, the script is there only after all of them, and an import that
\* was answered 201 is complete.
ImportInOrder == \A e \in Eggs : InOrder(e)

\* An export holds every row the egg had from its first read to its last, and
\* none the egg never had meanwhile.
ExportWhole == export.pc = "told" => kept \subseteq export.got /\ export.got \subseteq seen

\* A server's environment is what its writers' changes make of it one after
\* the other, unless two of them overlapped and the later wrote back what it
\* had read before the earlier wrote.
NoLostUpdate == \A s \in Servers \ crowded :
    Exists(s) => server[s].env = applied[s]

\* Each variable of e has a value in env that the rules accept which
\* parse_rules finds in its text, and so all those its author joined if they
\* are well written; and the default if only an administrator may set it and
\* none has.  Of two rows of one key only one can be obeyed.
Obeys(env, e, adminWas) == \A x \in VarsOf(e) :
    LET spec == evar[x].spec
        v    == env[spec.key]
    IN  (\A y \in VarsOf(e) : evar[y].spec.key = spec.key => y = x) =>
        /\ v # None
        /\ Accepted(spec, v)
        /\ spec.rules # None /\ WellWritten(spec.rules) =>
              Verdict(Facts[v], RulesOf(spec.rules))
        /\ ~spec.editable /\ ~adminWas => v = ValueOf(spec, NoEnv)

\* EnvValid of one server.
Valid(s) == s \notin moved /\ Exists(s) /\ server[s].egg \notin altered \cup {None} =>
    Obeys(server[s].env, server[s].egg, s \in byAdmin)

\* While a server keeps the egg it was created from, and the egg its
\* variables, its environment obeys them.
EnvValid == \A s \in Servers : Valid(s)

-----------------------------------------------------------------------------
(* What makes them inductive.                                              *)

\* What is not born has no past, and a row that is there is of an egg.
Born ==
    /\ \A e \in Eggs : egg[e] = "unborn" => origin[e] = None /\ e \notin whole
    /\ \A x \in Vars : evar[x].row = "live" => evar[x].egg \in Eggs /\ evar[x].spec \in Specs
    /\ \A f \in Files : cfile[f].row = "live" => cfile[f].egg \in Eggs

\* An import in flight is of the document its egg was made of, and it has not
\* come to the script.
ImportHeld == Importing =>
    LET e == import.egg
    IN  /\ egg[e] # "unborn" /\ origin[e] = import.doc /\ e \notin whole
        /\ e \notin edited => script[e] = None

\* The install script of e, as a row.
Script(e) == {<<e, script[e]>>} \ {<<e, None>>}

\* What is kept and not yet read is of a table still to be read.
ExportHeld == Exporting =>
    LET e == export.egg
    IN  /\ e \in Eggs
        /\ kept \subseteq Rows(e) /\ Rows(e) \cup export.got \subseteq seen
        /\ export.pc = "install" => kept \subseteq export.got \cup Script(e) \cup FilesOf(e)
        /\ export.pc = "files" => kept \subseteq export.got \cup FilesOf(e)

\* A handler past its first read works on a server that was there, which
\* keeps the egg that was read unless change_egg was asked.
Placed(x) ==
    /\ x.pc = "insert" => x.srv = None
    /\ x.pc \notin {"idle", "insert"} =>
          x.srv \in Servers /\ x.egg \in Eggs /\ server[x.srv].row # "unborn"
    /\ x.pc \in {"reset", "merge", "replace", "fill"} => x.srv \in moved
    /\ x.pc \in {"check", "write"} /\ x.srv \notin moved => x.egg = server[x.srv].egg

AtWork == \A r \in Requests : Placed(req[r])

Alone == \A r, q \in Requests :
    Busy(r) /\ Busy(q) /\ req[r].srv = req[q].srv /\ req[r].srv \in Servers \ crowded => r = q

\* What the handler of an uncrowded server holds is still so.
Holds(x, now) ==
    /\ x.pc \in {"check", "reset", "merge"} => x.env = now
    /\ x.pc = "write" => x.env = Over(now, x.delta)
    /\ x.pc = "replace" => x.env = x.delta
    /\ x.pc = "fill" => x.env = Over(x.delta, now)

Fresh(x) == x.srv \in Servers \ crowded /\ Exists(x.srv) => Holds(x, server[x.srv].env)

UpToDate == \A r \in Requests : Fresh(req[r])

\* What will be written obeys as well.
Told(x) == x.egg \notin altered \cup {None} =>
    /\ x.pc = "insert" => Obeys(x.env, x.egg, FALSE)
    /\ x.pc = "check" /\ x.srv \notin moved => Obeys(x.env, x.egg, x.srv \in byAdmin)
    /\ x.pc = "write" /\ x.srv \notin moved =>
          Obeys(x.env, x.egg, x.srv \in byAdmin \/ x.admin)

EnvHeld == \A r \in Requests : Told(req[r])

IInv ==
    /\ Sound /\ Born /\ ImportHeld /\ ImportInOrder /\ ExportHeld /\ ExportWhole
    /\ AtWork /\ Alone /\ UpToDate /\ NoLostUpdate /\ EnvHeld /\ EnvValid

=============================================================================
