--------------------------- MODULE PageProperties ---------------------------
(* What a list shows of the table behind it.                               *)
EXTENDS Pages

Ops == {"load", "create", "delete"}

PageRecs == [mount : Nat, kind : Kinds \cup {"none"}, key : Keys, from : Keys, shown : Seq(Nat),
             said : {"nothing", "done", "error"}, walked : BOOLEAN, start : SUBSET Nat]
Requests == [n : Nat, mount : Nat, kind : Kinds, op : Ops, key : Keys, arg : Nat,
             ans : {"spawned", "none", "list", "row", "empty", "error"}, list : Seq(Nat), at : Nat,
             late : BOOLEAN]

PageTypeOK ==
    /\ top \in 0 .. MaxRows /\ rows \in [Keys -> SUBSET (1 .. top)]
    /\ page \in PageRecs /\ ToSet(page.shown) \subseteq 1 .. top
    /\ req \subseteq Requests /\ IsFiniteSet(req)
    /\ sent \in Nat /\ disturbed \in BOOLEAN /\ erased \in BOOLEAN

Quiet == \A r \in req : r.mount # page.mount

\* A list that is reloaded after each change is the table, without a row twice,
\* once all is answered, if nobody else changed the table and no answer was an
\* error, lost or overtaken: an answer that is taken after one the panel gave
\* later leaves the older list on the screen.
QuietIsFresh ==
    page.kind \in {"tab", "tasks"} /\ Quiet /\ ~disturbed =>
        /\ ToSet(page.shown) = rows[page.key]
        /\ Len(page.shown) = Cardinality(rows[page.key])

\* The files tab names the directory its files came from, in whatever order
\* the answers come; load_tasks does not, so the tasks shown may be those of
\* another schedule, but only if an answer was overtaken, lost or an error, or
\* if a task was being added to the one when the other was selected.
ListOfItsKey ==
    /\ page.kind = "files" => page.from = page.key
    /\ page.kind = "tasks" /\ Quiet /\ ~disturbed => page.from = page.key

\* A client that reads the activity log page by page until a page is short
\* has read every entry that was there when it began, some twice perhaps,
\* unless entries were erased meanwhile: new ones only push the old ones on.
WalkMissesNone ==
    page.kind = "activity" /\ page.walked /\ ~erased => page.start \subseteq ToSet(page.shown)

\* When files_tab.rs says "File saved successfully", until the reload clears
\* the message, the file was saved.
SavedIsSaved == [][\A r \in req :
    /\ r.kind = "files" /\ r.op # "load" /\ r \notin req' /\ r.mount = page.mount
    /\ page'.said = "done" /\ page.said # "done"
        => r.ans = "empty"]_pageVars

-----------------------------------------------------------------------------
(* What makes them inductive.                                              *)

\* Requests are of a page that was opened, and no two were handled at once.
Numbered ==
    /\ \A r \in req :
          /\ r.n \in 1 .. sent /\ r.mount \in 1 .. page.mount
          /\ r.op = "delete" => r.arg \in 1 .. top
          /\ r.op = "load" => r.arg # 0
          /\ ToSet(r.list) \subseteq 1 .. top
          /\ r.at = 0 <=> r.ans \in {"spawned", "none"}
          /\ r.ans = "spawned" => r.kind = "files" /\ r.op = "load"
    /\ \A r, q \in req : r.at = q.at /\ r.at # 0 => r = q

\* The requests of the page that is open.
Own == {r \in req : r.mount = page.mount}

AsAsked(r) ==
    /\ r.kind = page.kind
    /\ r.kind \in {"tab", "activity"} => r.key = Root
    /\ r.kind = "activity" => r.op = "load"
    /\ r.op = "delete" => r.kind \in {"tab", "files"}
    /\ r.ans \in {"spawned", "none", "error", IF r.op = "load" THEN "list"
                                   ELSE IF r.op = "create" /\ r.kind # "files" THEN "row"
                                   ELSE "empty"}

OfThePage ==
    /\ page.kind # "none" => page.mount # 0
    /\ page.kind \in {"tab", "activity"} => page.key = Root
    /\ \A r \in Own : AsAsked(r)

\* Nothing has disturbed the page, and no answer in flight will.
Calm == ~disturbed /\ \A r \in Own : ~r.late /\ r.ans # "error"

\* r brings the table there is, or will.
Shows(r) == r.op = "load" /\ r.key = page.key
            /\ (r.ans = "none" \/ r.list = Newest(rows[page.key]))

\* What is shown once r has come will be replaced by q.
Replaces(q, r) ==
    \/ q.op # "load"
    \/ Shows(q) /\ IF q.kind = "tasks" THEN q.n > r.n ELSE q.ans = "none" \/ q.at > r.at

\* A list that is reloaded after each change is the table, or a change or a
\* load that shows it is under way; and no load that does not comes last.
Reloads == page.kind \in {"tab", "tasks"} /\ Calm =>
    /\ \A r \in Own : r.op # "load" => r.key = page.key
    /\ \/ page.from = page.key /\ page.shown = Newest(rows[page.key])
       \/ \E q \in Own : q.op # "load" \/ Shows(q)
    /\ \A r \in Own : r.op = "load" => Shows(r) \/ \E q \in Own : Replaces(q, r)

\* How many entries of the log are not older than x.
Rank(x) == Cardinality({y \in rows[Root] : y >= x})

\* An entry that was there when the walk began is read, or will be: new ones
\* only push it to a later page.
Ahead(r, x) ==
    \/ r.ans = "error" \/ x \in ToSet(page.shown)
    \/ r.ans = "none" /\ Rank(x) > offset(r.arg)
    \/ r.ans = "list" /\ x \in ToSet(r.list)
    \/ r.ans = "list" /\ Len(r.list) = PerPage /\ Rank(x) > offset(r.arg + 1)

Walks == page.kind = "activity" /\ ~erased =>
    /\ page.start \subseteq rows[Root]
    /\ page.walked => page.start \subseteq ToSet(page.shown)
    /\ \A r \in Own, x \in page.start : Ahead(r, x)

PageInv ==
    /\ PageTypeOK /\ Numbered /\ OfThePage /\ Reloads /\ Walks
    /\ page.kind = "files" => page.from = page.key

=============================================================================
