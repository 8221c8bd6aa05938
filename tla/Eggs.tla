-------------------------------- MODULE Eggs --------------------------------
(***************************************************************************)
(* Eggs, the templates servers are made from: the tables `eggs`,           *)
(* `egg_variables`, `egg_install_scripts` and `egg_config_files`, and the  *)
(* handlers of crates/panel/src/eggs.rs.                                   *)
(*                                                                         *)
(* Most handlers are one statement.  import_egg is one INSERT after        *)
(* another, without a transaction, and export_egg_toml four SELECTs, each  *)
(* at a moment of its own.                                                 *)
(***************************************************************************)
EXTENDS Naturals, FiniteSets, Sequences

CONSTANTS
    Eggs,        \* ids of eggs
    Vars,        \* ids of egg_variables
    Files,       \* ids of egg_config_files
    Parsers,     \* parsers that requests name
    Scripts,     \* install scripts
    Specs,       \* what requests and documents say of a variable:
                 \* [key, default, editable, rules], the
                 \* rules as the list their author joined, or None
    Docs,        \* documents to import: [vars, script]
    MaxBegun,    \* bound: requests over the whole behaviour
    None         \* nothing

\* Ids of the tables are told apart, and None is none of anything.
ASSUME EggConstantsOK ==
    /\ IsFiniteSet(Vars) /\ MaxBegun \in Nat
    /\ Vars \cap Files = {} /\ (Vars \cup Files) \cap (Eggs \X Scripts) = {}
    /\ \A d \in Docs : d.vars \in Seq(Specs) /\ d.script \in Scripts \cup {None}
    /\ None \notin Eggs \cup Scripts \cup Specs \cup Docs

VARIABLES
    egg,         \* rows of `eggs`
    evar,        \* `egg_variables`
    script,      \* `egg_install_scripts`; egg_id is UNIQUE
    cfile,       \* `egg_config_files`
    import,      \* the import_egg in flight
    export,      \* the export_egg_toml in flight or last answered
    begun,       \* how many requests there were
    origin,      \* history: the document an egg was imported from
    edited,      \* history: eggs changed by another handler than their import
    whole,       \* history: eggs whose import was answered 201
    seen, kept   \* history: rows the exported egg had at some moment, and at
                 \* every moment, of the export

catalogue == <<egg, evar, script, cfile>>
eggRest   == <<catalogue, import, export, origin, edited, whole>>
eggVars   == <<eggRest, begun>>

Unborn   == [row |-> "unborn", egg |-> None, spec |-> None]
NoFile   == [row |-> "unborn", egg |-> None]
NoImport == [egg |-> None, doc |-> None, next |-> 1]
NoExport == [pc |-> "idle", egg |-> None, got |-> {}]

VarsOf(e)  == {x \in Vars : evar[x].row = "live" /\ evar[x].egg = e}
FilesOf(e) == {f \in Files : cfile[f].row = "live" /\ cfile[f].egg = e}
\* All rows that hang on an egg.
Rows(e) == VarsOf(e) \cup FilesOf(e) \cup ({<<e, script[e]>>} \ {<<e, None>>})

Live(e) == egg[e] = "live"

EggInit ==
    /\ egg = [e \in Eggs |-> "unborn"]
    /\ evar = [x \in Vars |-> Unborn]
    /\ script = [e \in Eggs |-> None]
    /\ cfile = [f \in Files |-> NoFile]
    /\ import = NoImport
    /\ export = NoExport
    /\ begun = 0
    /\ origin = [e \in Eggs |-> None]
    /\ edited = {} /\ whole = {} /\ seen = {} /\ kept = {}

Count == begun < MaxBegun /\ begun' = begun + 1

-----------------------------------------------------------------------------
(* The handlers of one statement.                                          *)

create_egg(e) ==
    /\ Count
    /\ egg[e] = "unborn"
    /\ egg' = [egg EXCEPT ![e] = "live"]
    /\ UNCHANGED <<evar, script, cfile, import, export, origin, edited, whole>>

\* A deletion that servers.egg_id does not stop.
delete_used_egg(e, used) ==
    /\ Count
    /\ Live(e)
    /\ egg' = [egg EXCEPT ![e] = "deleted"]
    /\ evar' = [x \in Vars |-> IF x \in VarsOf(e)
                               THEN [evar[x] EXCEPT !.row = "deleted"] ELSE evar[x]]
    /\ cfile' = [f \in Files |-> IF f \in FilesOf(e)
                               THEN [cfile[f] EXCEPT !.row = "deleted"] ELSE cfile[f]]
    /\ script' = [script EXCEPT ![e] = None]
    /\ UNCHANGED <<import, export, origin, edited, whole>>

\* The cascades of the migration.  servers.egg_id, which has none, refuses
\* the deletion of an egg in use.
delete_egg(e, used) ==
    /\ Count
    /\ Live(e) /\ e \notin used
    /\ egg' = [egg EXCEPT ![e] = "deleted"]
    /\ evar' = [x \in Vars |-> IF x \in VarsOf(e)
                               THEN [evar[x] EXCEPT !.row = "deleted"] ELSE evar[x]]
    /\ cfile' = [f \in Files |-> IF f \in FilesOf(e)
                               THEN [cfile[f] EXCEPT !.row = "deleted"] ELSE cfile[f]]
    /\ script' = [script EXCEPT ![e] = None]
    /\ UNCHANGED <<import, export, origin, edited, whole>>

\* An INSERT into egg_variables.  Nothing keeps two rows of one egg from
\* naming the same environment variable.
AddVariable(e, spec) ==
    \E x \in Vars :
        /\ evar[x].row = "unborn"
        /\ evar' = [evar EXCEPT ![x] = [row |-> "live", egg |-> e, spec |-> spec]]

create_variable(e, spec) ==
    /\ Count
    /\ Live(e)
    /\ AddVariable(e, spec)
    /\ edited' = edited \cup {e}
    /\ UNCHANGED <<egg, script, cfile, import, export, origin, whole>>

\* WHERE id = $1 AND egg_id = $2.
delete_variable(e, x) ==
    /\ Count
    /\ x \in VarsOf(e)
    /\ evar' = [evar EXCEPT ![x].row = "deleted"]
    /\ edited' = edited \cup {e}
    /\ UNCHANGED <<egg, script, cfile, import, export, origin, whole>>

\* INSERT ... ON CONFLICT (egg_id) DO UPDATE.
upsert_install_script(e, t) ==
    /\ Count
    /\ Live(e)
    /\ script' = [script EXCEPT ![e] = t]
    /\ edited' = edited \cup {e}
    /\ UNCHANGED <<egg, evar, cfile, import, export, origin, whole>>

ValidParsers == {"properties", "json", "yaml", "ini", "xml"}

create_config_file(e, parser) ==
    /\ Count
    /\ Live(e) /\ parser \in ValidParsers
    /\ \E f \in Files :
          /\ cfile[f].row = "unborn"
          /\ cfile' = [cfile EXCEPT ![f] = [row |-> "live", egg |-> e]]
    /\ UNCHANGED <<egg, evar, script, import, export, origin, edited, whole>>

delete_config_file(e, f) ==
    /\ Count
    /\ f \in FilesOf(e)
    /\ cfile' = [cfile EXCEPT ![f].row = "deleted"]
    /\ UNCHANGED <<egg, evar, script, import, export, origin, edited, whole>>

-----------------------------------------------------------------------------
(* import_egg                                                              *)

ImportEgg(d) ==
    /\ import = NoImport /\ Count
    /\ \E e \in Eggs :
          /\ egg[e] = "unborn"
          /\ egg' = [egg EXCEPT ![e] = "live"]
          /\ import' = [egg |-> e, doc |-> d, next |-> 1]
          /\ origin' = [origin EXCEPT ![e] = d]
    /\ UNCHANGED <<evar, script, cfile, export, edited, whole>>

Importing == import # NoImport
VarsLeft  == import.next <= Len(import.doc.vars)

\* A loop that goes on when an INSERT fails.
ImportVarOrSkip ==
    /\ Importing /\ VarsLeft
    /\ \/ Live(import.egg) /\ AddVariable(import.egg, import.doc.vars[import.next])
       \/ UNCHANGED evar
    /\ import' = [import EXCEPT !.next = @ + 1]
    /\ UNCHANGED <<egg, script, cfile, export, begun, origin, edited, whole>>

\* One turn of the loop over the document's variables.
ImportVar ==
    /\ Importing /\ VarsLeft
    /\ Live(import.egg)
    /\ AddVariable(import.egg, import.doc.vars[import.next])
    /\ import' = [import EXCEPT !.next = @ + 1]
    /\ UNCHANGED <<egg, script, cfile, export, begun, origin, edited, whole>>

\* The install script, if the document has one, and the answer.
ImportScript ==
    LET e == import.egg
        t == import.doc.script
    IN  /\ Importing /\ ~VarsLeft
        /\ t # None => Live(e)
        /\ script' = IF t = None THEN script ELSE [script EXCEPT ![e] = t]
        /\ whole' = whole \cup {e}
        /\ import' = NoImport
        /\ UNCHANGED <<egg, evar, cfile, export, begun, origin, edited>>

\* A statement fails, as each does once the egg is deleted, or the client
\* goes away: the `?` leaves what was inserted.
ImportFails ==
    /\ Importing
    /\ import' = NoImport
    /\ UNCHANGED <<catalogue, export, begun, origin, edited, whole>>

-----------------------------------------------------------------------------
(* export_egg_toml                                                         *)

Exporting == export.pc \notin {"idle", "told"}

ExportEgg(e) ==
    /\ ~Exporting /\ Live(e) /\ Count
    /\ export' = [pc |-> "vars", egg |-> e, got |-> {}]
    /\ UNCHANGED <<catalogue, import, origin, edited, whole>>

\* An export that takes a table's rows without asking of which egg.
ExportAllVars ==
    /\ export.pc = "vars"
    /\ export' = [export EXCEPT !.pc = "install",
                                !.got = {x \in Vars : evar[x].row = "live"}]
    /\ UNCHANGED <<catalogue, import, begun, origin, edited, whole>>

ExportVars ==
    /\ export.pc = "vars"
    /\ export' = [export EXCEPT !.pc = "install", !.got = VarsOf(export.egg)]
    /\ UNCHANGED <<catalogue, import, begun, origin, edited, whole>>

ExportInstall ==
    LET e == export.egg
    IN  /\ export.pc = "install"
        /\ export' = [export EXCEPT !.pc = "files",
                          !.got = @ \cup ({<<e, script[e]>>} \ {<<e, None>>})]
        /\ UNCHANGED <<catalogue, import, begun, origin, edited, whole>>

\* The last rows; build_egg_toml writes all of them down.
ExportFiles ==
    /\ export.pc = "files"
    /\ export' = [export EXCEPT !.pc = "told", !.got = @ \cup FilesOf(export.egg)]
    /\ UNCHANGED <<catalogue, import, begun, origin, edited, whole>>

-----------------------------------------------------------------------------
Watch ==
    LET now == Rows(export.egg)'
    IN  /\ seen' = IF ~Exporting' THEN seen
                   ELSE IF ~Exporting THEN now ELSE seen \cup now
        /\ kept' = IF ~Exporting' THEN kept
                   ELSE IF ~Exporting THEN now ELSE kept \cap now

EggStep(used) ==
    \/ \E e \in Eggs :
          \/ create_egg(e) \/ delete_egg(e, used)
          \/ \E spec \in Specs : create_variable(e, spec)
          \/ \E x \in Vars : delete_variable(e, x)
          \/ \E t \in Scripts : upsert_install_script(e, t)
          \/ \E p \in Parsers : create_config_file(e, p)
          \/ \E f \in Files : delete_config_file(e, f)
          \/ ExportEgg(e)
    \/ \E d \in Docs : ImportEgg(d)
    \/ ImportVar \/ ImportScript \/ ImportFails
    \/ ExportVars \/ ExportInstall \/ ExportFiles

=============================================================================
