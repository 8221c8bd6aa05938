------------------------------ MODULE Startup ------------------------------
(***************************************************************************)
(* The environment of servers: servers.egg_id, image and env, and the      *)
(* handlers that write them: create_server (servers.rs), update_startup    *)
(* and update_docker_image (startup.rs), change_egg (settings.rs), with    *)
(* load_egg_env of egg_vars.rs.                                            *)
(*                                                                         *)
(* The environment is one column, a list of KEY=value.  A handler reads    *)
(* all of it, changes it in memory, and writes all of it back.             *)
(***************************************************************************)
EXTENDS Eggs, EggVars

CONSTANTS
    Servers,     \* ids of servers
    Keys,        \* names of environment variables
    Values,      \* values of environment variables
    Facts,       \* what the rules ask of each: [len, int, bool, matches]
    Empty,       \* the value of length 0
    Bodies,      \* what requests set: [Keys -> Values \cup {None}]
    Owns,        \* what a create_server sets beside its egg's variables
    Images,      \* docker images
    Requests     \* slots for handlers in flight

ASSUME ConstantsOK ==
    /\ \A spec \in Specs :
          /\ spec.key \in Keys /\ spec.default \in Values \cup {None}
          /\ spec.editable \in BOOLEAN /\ spec.rules \in Seq(Texts) \cup {None}
    /\ Empty \in Values /\ None \notin Values \cup Servers \cup Seq(Texts)
    /\ Bodies \cup Owns \subseteq [Keys -> Values \cup {None}]

VARIABLES
    server,      \* rows of `servers`
    req,         \* handlers in flight
    applied,     \* history: each server's environment, had every write been
                 \* made of what the write before left
    crowded,     \* history: servers two of whose handlers overlapped
    moved,       \* history: servers that change_egg was asked of
    byAdmin,     \* history: servers an administrator's update_startup wrote
    altered      \* history: eggs whose variables changed while a server or a
                 \* handler in flight had them

rows == <<server, req, applied, crowded, moved, byAdmin>>
vars == <<eggVars, rows, altered, seen, kept>>

NoEnv  == [k \in Keys |-> None]
NoRow  == [row |-> "unborn", egg |-> None, image |-> None, env |-> NoEnv]
Idle   == [pc |-> "idle", srv |-> None, egg |-> None, image |-> None,
           admin |-> FALSE, env |-> NoEnv, delta |-> NoEnv]

Exists(s) == server[s].row = "live"
Busy(r)   == req[r].pc # "idle"
EggsInUse == {server[s].egg : s \in {t \in Servers : Exists(t)}}
EggsRead  == {req[r].egg : r \in {q \in Requests : Busy(q)}}

\* What b sets, over a.
Over(a, b)  == [k \in Keys |-> IF b[k] # None THEN b[k] ELSE a[k]]

Init ==
    /\ EggInit
    /\ server = [s \in Servers |-> NoRow]
    /\ req = [r \in Requests |-> Idle]
    /\ applied = [s \in Servers |-> NoEnv]
    /\ crowded = {} /\ moved = {} /\ byAdmin = {} /\ altered = {}

-----------------------------------------------------------------------------
(* load_egg_env                                                            *)

ValueOf(spec, given) ==
    IF spec.editable /\ given[spec.key] # None THEN given[spec.key]
    ELSE IF spec.default # None THEN spec.default ELSE Empty

Accepted(spec, v) == spec.rules # None => validate_var(Facts[v], Joined(spec.rules))

\* validate_var refuses no variable of the egg.
EggEnvOk(e, given) ==
    \A x \in VarsOf(e) : Accepted(evar[x].spec, ValueOf(evar[x].spec, given))

\* The environments the variables make.  The SELECT has no order, and of two
\* rows of one key the last stands.
EggEnvs(e, given) ==
    LET value == [x \in VarsOf(e) |-> ValueOf(evar[x].spec, given)]
        of(k) == {x \in VarsOf(e) : evar[x].spec.key = k}
    IN  {env \in [Keys -> {None} \cup {value[x] : x \in VarsOf(e)}] : \A k \in Keys :
            IF of(k) = {} THEN env[k] = None ELSE \E x \in of(k) : env[k] = value[x]}

-----------------------------------------------------------------------------
Goto(r, pc) == req' = [req EXCEPT ![r].pc = pc]
Finish(r)   == req' = [req EXCEPT ![r] = Idle]

Others(r, s) == {q \in Requests \ {r} : Busy(q) /\ req[q].srv = s}

Ready(r) == ~Busy(r) /\ Count

Enter(r, slot) ==
    /\ req' = [req EXCEPT ![r] = slot]
    /\ crowded' = IF slot.srv # None /\ Others(r, slot.srv) # {}
                  THEN crowded \cup {slot.srv} ELSE crowded
    /\ UNCHANGED eggRest

\* create_server as far as load_egg_env.
CreateRead(r, e, own, given, image) ==
    /\ Ready(r)
    /\ e # None => EggEnvOk(e, given)
    /\ \E env \in (IF e = None THEN {NoEnv} ELSE EggEnvs(e, given)) :
          Enter(r, [Idle EXCEPT !.pc = "insert", !.egg = e, !.image = image,
                                !.env = Over(own, env)])
    /\ UNCHANGED <<server, applied, moved, byAdmin>>

\* The INSERT, refused when the egg is gone.
CreateInsert(r) ==
    LET x == req[r]
    IN  /\ x.pc = "insert"
        /\ IF x.egg # None => Live(x.egg)
           THEN \E s \in Servers :
                   /\ server[s].row = "unborn"
                   /\ server' = [server EXCEPT ![s] =
                         [row |-> "live", egg |-> x.egg, image |-> x.image, env |-> x.env]]
                   /\ applied' = [applied EXCEPT ![s] = x.env]
           ELSE UNCHANGED <<server, applied>>
        /\ Finish(r)
        /\ UNCHANGED <<eggVars, crowded, moved, byAdmin>>

\* update_startup: fetch_server, and an error for a server without an egg.
UpdateRead(r, s, body, admin) ==
    /\ Ready(r)
    /\ Exists(s) /\ server[s].egg # None
    /\ Enter(r, [Idle EXCEPT !.pc = "check", !.srv = s, !.egg = server[s].egg,
                             !.env = server[s].env, !.delta = body, !.admin = admin])
    /\ UNCHANGED <<server, applied, moved, byAdmin>>

\* What the loop over the egg's variables takes of the body.
Taken(e, body) ==
    [k \in Keys |-> IF \E x \in VarsOf(e) : evar[x].spec.key = k THEN body[k] ELSE None]

\* Every variable the body names must be editable, or the caller an
\* administrator, and its rules satisfied.
UpdateCheck(r) ==
    LET x == req[r]
        named == {y \in VarsOf(x.egg) : x.delta[evar[y].spec.key] # None}
        delta == Taken(x.egg, x.delta)
    IN  /\ x.pc = "check"
        /\ IF \A y \in named : /\ evar[y].spec.editable \/ x.admin
                               /\ Accepted(evar[y].spec, x.delta[evar[y].spec.key])
           THEN req' = [req EXCEPT ![r].pc = "write", ![r].delta = delta,
                                   ![r].env = Over(x.env, delta)]
           ELSE Finish(r)
        /\ UNCHANGED <<eggVars, server, applied, crowded, moved, byAdmin>>

\* An update that writes what it was sent and nothing else.
UpdateWriteDelta(r) ==
    LET x == req[r]
        s == x.srv
    IN  /\ x.pc = "write"
        /\ server' = [t \in Servers |-> IF t = s /\ Exists(t)
                         THEN [server[t] EXCEPT !.env = x.delta] ELSE server[t]]
        /\ applied' = [applied EXCEPT ![s] = Over(@, x.delta)]
        /\ byAdmin' = IF x.admin THEN byAdmin \cup {s} ELSE byAdmin
        /\ Finish(r)
        /\ UNCHANGED <<eggVars, crowded, moved>>

\* UPDATE servers SET env: the whole environment as read, changed.
UpdateWrite(r) ==
    LET x == req[r]
        s == x.srv
    IN  /\ x.pc = "write"
        /\ server' = [t \in Servers |-> IF t = s /\ Exists(t)
                         THEN [server[t] EXCEPT !.env = x.env] ELSE server[t]]
        /\ applied' = [applied EXCEPT ![s] = Over(@, x.delta)]
        /\ byAdmin' = IF x.admin THEN byAdmin \cup {s} ELSE byAdmin
        /\ Finish(r)
        /\ UNCHANGED <<eggVars, crowded, moved>>

-----------------------------------------------------------------------------
(* change_egg                                                              *)

ChangeRead(r, s, e, image, reset) ==
    /\ Ready(r)
    /\ Exists(s)
    /\ Enter(r, [Idle EXCEPT !.pc = IF reset THEN "reset" ELSE "merge", !.srv = s,
                             !.egg = e, !.image = image, !.env = server[s].env])
    /\ moved' = moved \cup {s}
    /\ UNCHANGED <<server, applied, byAdmin>>

\* `if let Ok`: an egg whose own defaults its rules refuse gives nothing, nor
\* does a SELECT that fails, and the handler goes on.
EggDefaults(e) == {NoEnv} \cup (IF EggEnvOk(e, NoEnv) THEN EggEnvs(e, NoEnv) ELSE {})

ChangeLoad(r) ==
    LET x == req[r]
    IN  /\ x.pc \in {"reset", "merge"}
        /\ \E d \in EggDefaults(x.egg) :
              req' = [req EXCEPT ![r].pc = IF x.pc = "reset" THEN "replace" ELSE "fill",
                                 ![r].delta = d,
                                 ![r].env = IF x.pc = "reset" THEN d ELSE Over(d, x.env)]
        /\ UNCHANGED <<eggVars, server, applied, crowded, moved, byAdmin>>

\* The foreign key refuses an egg that is gone.
ChangeWrite(r) ==
    LET x == req[r]
        s == x.srv
        ok == Exists(s) /\ Live(x.egg)
    IN  /\ x.pc \in {"replace", "fill"}
        /\ server' = IF ok THEN [server EXCEPT ![s] =
                           [@ EXCEPT !.egg = x.egg, !.image = x.image, !.env = x.env]]
                     ELSE server
        /\ applied' = IF ok THEN [applied EXCEPT ![s] =
                            IF x.pc = "replace" THEN x.delta ELSE Over(x.delta, @)]
                      ELSE applied
        /\ Finish(r)
        /\ UNCHANGED <<eggVars, crowded, moved, byAdmin>>

update_docker_image(s, image) ==
    /\ Exists(s) /\ Count
    /\ server' = [server EXCEPT ![s].image = image]
    /\ UNCHANGED <<eggRest, req, applied, crowded, moved, byAdmin>>

delete_server(s) ==
    /\ Exists(s) /\ Count
    /\ server' = [server EXCEPT ![s].row = "deleted"]
    /\ UNCHANGED <<eggRest, req, applied, crowded, moved, byAdmin>>

Drop(r) ==
    /\ Busy(r)
    /\ Finish(r)
    /\ UNCHANGED <<eggVars, server, applied, crowded, moved, byAdmin>>

Begin(r) ==
    \/ \E e \in Eggs \cup {None}, own \in Owns, given \in Bodies, i \in Images :
          CreateRead(r, e, own, given, i)
    \/ \E s \in Servers :
          \/ \E body \in Bodies, admin \in BOOLEAN : UpdateRead(r, s, body, admin)
          \/ \E e \in Eggs, i \in Images, reset \in BOOLEAN : ChangeRead(r, s, e, i, reset)

Handler(r) ==
    \/ CreateInsert(r)
    \/ UpdateCheck(r) \/ UpdateWrite(r)
    \/ ChangeLoad(r) \/ ChangeWrite(r)
    \/ Drop(r)

Step ==
    \/ EggStep(EggsInUse) /\ UNCHANGED rows
    \/ \E r \in Requests : Begin(r) \/ Handler(r)
    \/ \E s \in Servers : delete_server(s)
    \/ \E s \in Servers, i \in Images : update_docker_image(s, i)

Next ==
    /\ Step /\ Watch
    /\ altered' = altered \cup
          {e \in EggsInUse \cup EggsRead : e # None /\ VarsOf(e)' # VarsOf(e)}

Spec == Init /\ [][Next]_vars

=============================================================================
