------------------------------- MODULE Pages -------------------------------
(***************************************************************************)
(* The lists a server's tabs in crates/frontend/src/pages show and the     *)
(* tables of the panel behind them: api/client.rs, the tabs, and, for a    *)
(* client that walks through the activity log page by page,                *)
(* crates/panel/src/activity.rs.  (The tables of the admin pages show no   *)
(* row: Table takes those there are when the page is mounted.)             *)
(*                                                                         *)
(* A page asks without waiting.  The panel handles requests in any order   *)
(* and the answers come back in any order; each is taken as it comes.      *)
(*   tab       backups, databases, schedules: reloaded after every change  *)
(*   files     the files of a directory: reloaded too                      *)
(*   tasks     the tasks of the schedule selected in the schedules tab     *)
(*   activity  no page of the console: a client of the three log routes    *)
(***************************************************************************)
EXTENDS Naturals, SequencesExt, FiniteSetsExt

CONSTANTS
    Keys, Root,  \* directories, schedules; where a page begins
    Kinds,       \* the kinds of page that are opened
    PerPage,     \* entries the activity log is read by
    MaxRows,     \* bound: rows ever inserted
    MaxSent      \* bound: for each page opened, one after the other, how many
                 \* requests there are by then, by the page's kind

ASSUME PageConstantsOK ==
    Root \in Keys /\ PerPage \in 1 .. 100 /\ MaxRows \in Nat /\ MaxSent \in Seq([Kinds -> Nat])

VARIABLES
    rows,        \* each key's rows, numbered as they were inserted
    top,         \* rows ever inserted
    page,        \* the page that is open
    req,         \* requests in flight, handled or not
    sent,        \* how many there were
    disturbed,   \* history: was an answer of this page overtaken, lost or an
                 \* error, did somebody else change the table, or was another
                 \* schedule selected while a task was being added?
    erased       \* history: was a row erased since the page was opened?

pageVars == <<rows, top, page, req, sent, disturbed, erased>>

\* `key` is what the page says it shows, `from` what the list was loaded for,
\* `start` (history) what was in the log when the walk began.
NoPage == [mount |-> 0, kind |-> "none", key |-> Root, from |-> Root, shown |-> <<>>,
           said |-> "nothing", walked |-> FALSE, start |-> {}]

PageInit ==
    /\ rows = [k \in Keys |-> {}] /\ top = 0
    /\ page = NoPage
    /\ req = {} /\ sent = 0
    /\ disturbed = FALSE /\ erased = FALSE

-----------------------------------------------------------------------------
\* The files tab spawns a task that will load.
AtFirst(kind, op) == IF kind = "files" /\ op = "load" THEN "spawned" ELSE "none"

\* `at` (history) orders the requests that were handled; `late` (history): was
\* this one's answer overtaken?
RequestOf(mount, kind, op, key, arg) ==
    [n |-> sent + 1, mount |-> mount, kind |-> kind, op |-> op, key |-> key, arg |-> arg,
     ans |-> AtFirst(kind, op), list |-> <<>>, at |-> 0, late |-> FALSE]

Request(op, key, arg) == RequestOf(page.mount, page.kind, op, key, arg)

MaySend == sent < MaxSent[page.mount][page.kind]

Ask(op, key, arg) ==
    /\ MaySend
    /\ sent' = sent + 1
    /\ req' = req \cup {Request(op, key, arg)}

\* A page is mounted: it takes no answers to the page before, and loads.
Open(kind) ==
    /\ page.mount < Len(MaxSent) /\ sent < MaxSent[page.mount + 1][kind]
    /\ page' = [NoPage EXCEPT !.mount = page.mount + 1, !.kind = kind,
                              !.start = rows[Root]]
    /\ sent' = sent + 1
    /\ req' = req \cup {RequestOf(page.mount + 1, kind, "load", Root, 1)}
    /\ disturbed' = FALSE /\ erased' = FALSE
    /\ UNCHANGED <<rows, top>>

Create ==
    /\ page.kind \in {"tab", "files", "tasks"}
    /\ Ask("create", page.key, 0)
    /\ UNCHANGED <<rows, top, page, disturbed, erased>>

Delete(id) ==
    /\ page.kind \in {"tab", "files"}
    /\ id \in ToSet(page.shown)
    /\ Ask("delete", page.key, id)
    /\ UNCHANGED <<rows, top, page, disturbed, erased>>

\* A task that is being added will have its schedule's tasks loaded.
Adding == \E r \in req : r.mount = page.mount /\ r.op = "create" /\ r.kind = "tasks"

\* A tab that names the directory before it has its files.
GoToAtOnce(key) ==
    /\ page.kind \in {"files", "tasks"} /\ key # page.key
    /\ Ask("load", key, 1)
    /\ page' = [page EXCEPT !.key = key]
    /\ disturbed' = (disturbed \/ Adding)
    /\ UNCHANGED <<rows, top, erased>>

\* A directory is entered, a schedule selected: the schedule is named at once,
\* the directory with its files.
GoTo(key) ==
    /\ page.kind \in {"files", "tasks"} /\ key # page.key
    /\ Ask("load", key, 1)
    /\ page' = IF page.kind = "tasks" THEN [page EXCEPT !.key = key] ELSE page
    /\ disturbed' = (disturbed \/ Adding)
    /\ UNCHANGED <<rows, top, erased>>

\* load_files: the task clears the message, then asks.
Begin(r) ==
    /\ r.ans = "spawned"
    /\ req' = (req \ {r}) \cup {[r EXCEPT !.ans = "none"]}
    /\ page' = IF r.mount = page.mount THEN [page EXCEPT !.said = "nothing"] ELSE page
    /\ UNCHANGED <<rows, top, sent, disturbed, erased>>

-----------------------------------------------------------------------------
(* The panel.                                                              *)

\* ids is numbered as inserted.  (SetToSortSeq(ids, >), without SortSeq.)
Newest(ids) == CHOOSE list \in [1 .. Cardinality(ids) -> ids] :
    \A i, j \in DOMAIN list : i < j => list[i] > list[j]

\* A reader who skips one page too few.
offset_from_zero(p) == p * PerPage

offset(p) == (p - 1) * PerPage

\* ORDER BY created_at DESC LIMIT per_page OFFSET offset.
PageOfLog(ids, p) ==
    SubSeq(Newest(ids), offset(p) + 1, Min({offset(p) + PerPage, Cardinality(ids)}))

\* (A table's own order matters for the log alone.)
List(r) == IF r.kind = "activity" THEN PageOfLog(rows[r.key], r.arg)
           ELSE Newest(rows[r.key])

\* Answers are JSON but for 204 No Content, which has no body.
Answer(r, ans, list) ==
    /\ req' = (req \ {r}) \cup
          {[r EXCEPT !.ans = ans, !.list = list, !.at = 1 + Max({q.at : q \in req})]}
    /\ disturbed' = (disturbed \/ (r.op # "load" /\ r.mount # page.mount))

Handle(r) ==
    /\ r.ans = "none"
    /\ \/ /\ r.op = "load"
          /\ Answer(r, "list", List(r))
          /\ UNCHANGED <<rows, top, erased>>
       \/ /\ r.op = "create" /\ top < MaxRows
          /\ rows' = [rows EXCEPT ![r.key] = @ \cup {top + 1}]
          /\ top' = top + 1
          /\ Answer(r, IF r.kind = "files" THEN "empty" ELSE "row", <<top + 1>>)
          /\ UNCHANGED erased
       \/ /\ r.op = "delete" /\ r.arg \in rows[r.key]
          /\ rows' = [rows EXCEPT ![r.key] = @ \ {r.arg}]
          /\ Answer(r, "empty", <<>>)
          /\ erased' = TRUE
          /\ UNCHANGED top
    /\ UNCHANGED <<page, sent>>

\* Not allowed, not there, the node does not answer.
Refuse(r) ==
    /\ r.ans = "none"
    /\ Answer(r, "error", <<>>)
    /\ UNCHANGED <<rows, top, page, sent, erased>>

\* The keys the page that is open may ask for.
Within == IF page.kind \in {"tab", "activity"} THEN {Root} ELSE Keys

\* Somebody else; for the log, the task log_activity spawns, and what ON
\* DELETE CASCADE erases with a server.
Other ==
    /\ \/ \E k \in Within : /\ top < MaxRows
                            /\ rows' = [rows EXCEPT ![k] = @ \cup {top + 1}]
                            /\ top' = top + 1 /\ UNCHANGED erased
       \/ \E k \in Within : \E id \in rows[k] :
             /\ rows' = [rows EXCEPT ![k] = @ \ {id}]
             /\ erased' = TRUE /\ UNCHANGED top
    /\ disturbed' = TRUE
    /\ UNCHANGED <<page, req, sent>>

-----------------------------------------------------------------------------
(* The answers.                                                            *)

\* ApiClient: get and post parse the body, whatever the status says; delete
\* looks at the status.  The files tab parses any JSON value.
Ok(r) ==
    \/ r.op = "load" /\ r.ans = "list"
    \/ r.op = "create" /\ r.ans = "row"
    \/ r.op = "delete" /\ r.kind # "files" /\ r.ans = "empty"
    \/ r.op # "load" /\ r.kind = "files" /\ r.ans = "error"

Walk(r) == [page EXCEPT !.shown = @ \o r.list, !.walked = Len(r.list) < PerPage]

\* Rows pushed one by one onto those that are shown.
LoadedBehind(r) ==
    CASE r.kind = "activity" -> Walk(r)
      [] r.kind = "files" -> [page EXCEPT !.shown = @ \o r.list, !.from = r.key, !.key = r.key]
      [] OTHER -> [page EXCEPT !.shown = @ \o r.list, !.from = r.key]

Loaded(r) ==
    CASE r.kind = "activity" -> Walk(r)
      [] r.kind = "files" -> [page EXCEPT !.shown = r.list, !.from = r.key, !.key = r.key]
      [] OTHER -> [page EXCEPT !.shown = r.list, !.from = r.key]

\* The message of the files tab; the wording of the others is left out.
Says(p, what) == IF p.kind = "files" THEN [p EXCEPT !.said = what] ELSE p

\* What a page does with an answer it takes for a success.
Taken(r) == IF r.op = "load" THEN Loaded(r) ELSE Says(page, "done")

\* A change is followed by a load, of the directory the page shows by then or
\* of the schedule the task was added to; a walk goes on to the next page.
Follow(r) ==
    CASE r.op # "load" /\ r.kind = "files" -> {Request("load", page.key, 1)}
      [] r.op # "load" /\ r.kind \in {"tab", "tasks"} -> {Request("load", r.key, 1)}
      [] r.op = "load" /\ r.kind = "activity" /\ Len(r.list) = PerPage ->
            {Request("load", r.key, r.arg + 1)}
      [] OTHER -> {}

\* Tasks of several schedules: what was asked for first must come first.
Overtakes(r, q) ==
    /\ q.mount = r.mount
    /\ q.at \in 1 .. r.at - 1 \/ (r.kind = "tasks" /\ q.n < r.n)

Others(r) == {[q EXCEPT !.late = @ \/ Overtakes(r, q)] : q \in req \ {r}}

Arrive(r) ==
    /\ r.ans \notin {"spawned", "none"}
    /\ IF r.mount # page.mount THEN req' = req \ {r} /\ UNCHANGED <<page, sent, disturbed>>
       ELSE /\ disturbed' = (disturbed \/ r.late \/ ~Ok(r))
            /\ IF Ok(r)
               THEN /\ page' = Taken(r)
                    /\ Follow(r) # {} => MaySend
                    /\ req' = Others(r) \cup Follow(r)
                    /\ sent' = sent + Cardinality(Follow(r))
               ELSE /\ page' = Says(page, "error")
                    /\ req' = Others(r)
                    /\ UNCHANGED sent
    /\ UNCHANGED <<rows, top, erased>>

\* The connection breaks, before or after the panel has handled the request.
Lose(r) ==
    /\ r.ans # "spawned"
    /\ req' = req \ {r}
    /\ page' = IF r.mount = page.mount THEN Says(page, "error") ELSE page
    /\ disturbed' = TRUE
    /\ UNCHANGED <<rows, top, sent, erased>>

Visitor ==
    \/ \E kind \in Kinds : Open(kind)
    \/ Create \/ (\E id \in 1 .. top : Delete(id)) \/ (\E key \in Keys : GoTo(key))

PageNext ==
    \/ Visitor \/ Other
    \/ \E r \in req : Begin(r) \/ Handle(r) \/ Refuse(r) \/ Arrive(r) \/ Lose(r)

PageSpec == PageInit /\ [][PageNext]_pageVars

=============================================================================
