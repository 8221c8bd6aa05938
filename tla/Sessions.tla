------------------------------ MODULE Sessions ------------------------------
(***************************************************************************)
(* Users, the tokens they are given and the pages that carry them: login,  *)
(* refresh, the extractors AuthUser and AdminUser and sftp_verify of       *)
(* crates/panel/src/auth.rs, users.rs, nodes.rs, and the browser's side in *)
(* crates/frontend/src (state.rs, the layouts, the login page).            *)
(*                                                                         *)
(* A token is a signed copy of what a users row said at login.  No request *)
(* reads the row again: a token is good until it expires, and a refresh    *)
(* copies its claims into a new one.  login and sftp_verify read a row,    *)
(* then spend a while on the password.  A user's id is never used twice.   *)
(* A page sends the token it was mounted with, or that of the part of it   *)
(* that was opened last.                                                   *)
(***************************************************************************)
EXTENDS Naturals, FiniteSets

CONSTANTS
    Users, Nodes, Servers,
    Seeds,       \* administrators put into the table by hand
    Tabs,        \* tabs of one browser
    AdminPages,  \* the pages under /admin
    Api,         \* a client that is no browser
    AccessTTL,   \* 900 s in the code
    RefreshTTL,  \* 604,800 s
    MaxClock,    \* bound: the time
    MaxPending,  \* bound: handlers in flight
    MaxIssued,   \* bound: tokens issued
    None         \* no token, no time, no owner

ASSUME ConstantsOK ==
    /\ AccessTTL \in Nat \ {0} /\ RefreshTTL \in Nat \ {0}
    /\ Seeds \subseteq Users
    /\ None \notin Users /\ None \notin Nat /\ None \notin Nodes
    /\ "users" \in AdminPages
    /\ AdminPages \cap {"closed", "login", "dashboard", "detail"} = {}

VARIABLES
    now,         \* seconds, as far as they are told apart
    users,       \* each id's row: its role, or none yet, or deleted
    nodes,       \* rows of the registry of nodes
    servers,     \* each server's row: owner and node
    pending,     \* logins and sftp checks that have read a row
    creating,    \* create_user handlers hashing the password
    tokens,      \* tokens issued
    store,       \* the browser's local storage
    tab,         \* each tab: its session, its page, the page's token, that of
                 \* the part opened last, and whether its layout sends it away
    wasRole,     \* history: the role each row was created with
    goneAt       \* history: when it was deleted

panel == <<users, nodes, servers, creating, wasRole, goneAt>>
web   == <<store, tab>>
vars  == <<now, users, nodes, servers, pending, creating, tokens, store, tab,
           wasRole, goneAt>>

ClientPages == {"dashboard", "detail"}

Closed == [session |-> None, page |-> "closed", tok |-> None, sub |-> None,
           turned |-> FALSE]

Room == Cardinality(pending) + Cardinality(creating) < MaxPending

Live(u) == users[u] \in {"user", "admin"}

Init ==
    /\ now = 1
    /\ users = [u \in Users |-> IF u \in Seeds THEN "admin" ELSE "never"]
    /\ wasRole = users
    /\ nodes = {}
    /\ servers = [s \in Servers |-> [owner |-> None, node |-> None]]
    /\ pending = {} /\ creating = {} /\ tokens = {}
    /\ goneAt = [u \in Users |-> None]
    /\ store = None
    /\ tab = [t \in Tabs |-> Closed]

-----------------------------------------------------------------------------
(* Pages.  One is mounted with the session's token, which is empty when    *)
(* there is no session; a layout looks at the session as it is mounted     *)
(* itself, not when one of its pages gives way to another.                 *)

Layout(page) ==
    IF page \in AdminPages THEN "admin"
    ELSE IF page \in ClientPages THEN "client" ELSE page

\* A layout that asks for a session, whoever's.
MayMountAny(layout, session) == layout = "login" \/ session # None

\* AdminLayout, ClientLayout; the login page has none.
MayMount(layout, session) ==
    \/ layout = "login"
    \/ layout = "client" /\ session # None
    \/ layout = "admin" /\ session # None /\ session.role = "admin"

\* What follows x.  A layout that refuses shows the page nonetheless, until
\* its navigate("/login") is carried out.
Mounted(x, page, session) ==
    [session |-> session, page |-> page, sub |-> None,
     tok |-> IF page = "login" THEN None ELSE session,
     turned |-> /\ Layout(page) # Layout(x.page)
                /\ ~MayMount(Layout(page), session)]

\* LoginPage's handler: set_auth, then the navigation.  A page that is open
\* already is not mounted again and keeps its token.
Shown(x, tok) ==
    LET home == IF tok.role = "admin" THEN "users" ELSE "dashboard"
    IN  IF x.page = home THEN [x EXCEPT !.session = tok] ELSE Mounted(x, home, tok)

-----------------------------------------------------------------------------
(* Tokens.                                                                 *)

\* A token keeps, as history, when the login read the row and when it ended.
encode_token(u, role, kind, ttl, read, login) ==
    [user |-> u, role |-> role, kind |-> kind, exp |-> now - 1 + ttl,
     read |-> read, login |-> login]

decode_token(t, kind) == t \in tokens /\ t.kind = kind /\ t.exp >= now

AuthUser(t)  == decode_token(t, "access")
AdminUser(t) == AuthUser(t) /\ t.role = "admin"

\* login: the row is found by its email; the password is hashed elsewhere.
LoginRead(client, u) ==
    /\ Room
    /\ Live(u)
    /\ client \in Tabs => tab[client].page = "login" /\ ~tab[client].turned
    /\ pending' = pending \cup {[what |-> "login", client |-> client, user |-> u,
                                 role |-> users[u], read |-> now, server |-> None]}
    /\ UNCHANGED <<now, panel, tokens, web>>

LoginDenied(p) ==
    /\ pending' = pending \ {p}
    /\ UNCHANGED <<now, panel, tokens, web>>

Session(p) == encode_token(p.user, p.role, "access", AccessTTL, p.read, now)

\* The password was right: two tokens.  In a tab the answer is taken whatever
\* page it shows by then.
LoginIssue(p) ==
    /\ p.what = "login"
    /\ pending' = pending \ {p}
    /\ tokens' = tokens \cup
          {Session(p), encode_token(p.user, p.role, "refresh", RefreshTTL, p.read, now)}
    /\ p.client \in Tabs => ~tab[p.client].turned
    /\ IF p.client \in Tabs /\ tab[p.client].page # "closed"
       THEN /\ store' = Session(p)
            /\ tab' = [tab EXCEPT ![p.client] = Shown(@, Session(p))]
       ELSE UNCHANGED web
    /\ UNCHANGED <<now, panel>>

\* A refresh that gives out a new refresh token too.
RefreshBoth(t) ==
    /\ decode_token(t, "refresh")
    /\ tokens' = tokens \cup
          {encode_token(t.user, t.role, "access", AccessTTL, t.read, t.login),
           encode_token(t.user, t.role, "refresh", RefreshTTL, t.read, t.login)}
    /\ UNCHANGED <<now, panel, pending, web>>

\* refresh: the claims are copied, no row is read.
Refresh(t) ==
    /\ decode_token(t, "refresh")
    /\ tokens' = tokens \cup
          {encode_token(t.user, t.role, "access", AccessTTL, t.read, t.login)}
    /\ UNCHANGED <<now, panel, pending, web>>

-----------------------------------------------------------------------------
(* The tables, changed by administrators.                                  *)

\* For an email that is not taken yet: the other requests fail, in InsertUser
\* or before it.
create_user(t, u, role) ==
    /\ AdminUser(t) /\ Room
    /\ users[u] = "never"
    /\ creating' = creating \cup {[user |-> u, role |-> role]}
    /\ UNCHANGED <<now, users, nodes, servers, wasRole, goneAt, pending, tokens, web>>

\* The insert fails when the email is taken.
InsertUser(c) ==
    /\ creating' = creating \ {c}
    /\ IF users[c.user] = "never"
       THEN /\ users' = [users EXCEPT ![c.user] = c.role]
            /\ wasRole' = [wasRole EXCEPT ![c.user] = c.role]
       ELSE UNCHANGED <<users, wasRole>>
    /\ UNCHANGED <<now, nodes, servers, goneAt, pending, tokens, web>>

\* servers.user_id without its ON DELETE RESTRICT.
DeleteUserAnyway(t, u) ==
    /\ AdminUser(t) /\ Live(u)
    /\ users' = [users EXCEPT ![u] = "gone"]
    /\ goneAt' = [goneAt EXCEPT ![u] = now]
    /\ UNCHANGED <<now, nodes, servers, creating, wasRole, pending, tokens, web>>

\* servers.user_id REFERENCES users ON DELETE RESTRICT.
delete_user(t, u) ==
    /\ AdminUser(t) /\ Live(u)
    /\ \A s \in Servers : servers[s].owner # u
    /\ users' = [users EXCEPT ![u] = "gone"]
    /\ goneAt' = [goneAt EXCEPT ![u] = now]
    /\ UNCHANGED <<now, nodes, servers, creating, wasRole, pending, tokens, web>>

create_node(t, n) ==
    /\ AdminUser(t) /\ n \notin nodes
    /\ nodes' = nodes \cup {n}
    /\ UNCHANGED <<now, users, servers, creating, wasRole, goneAt, pending, tokens, web>>

delete_node(t, n) ==
    /\ AdminUser(t) /\ n \in nodes
    /\ \A s \in Servers : servers[s].node # n
    /\ nodes' = nodes \ {n}
    /\ UNCHANGED <<now, users, servers, creating, wasRole, goneAt, pending, tokens, web>>

\* The row of create_server; the rest of it is module ServerLifecycle.
create_server(t, s, u, n) ==
    /\ AdminUser(t) /\ servers[s].owner = None
    /\ Live(u) /\ n \in nodes
    /\ servers' = [servers EXCEPT ![s] = [owner |-> u, node |-> n]]
    /\ UNCHANGED <<now, users, nodes, creating, wasRole, goneAt, pending, tokens, web>>

\* AuthUser, then check_server_access: the owner or an administrator.
delete_server(t, s) ==
    /\ AuthUser(t) /\ servers[s].owner # None
    /\ t.role = "admin" \/ t.user = servers[s].owner
    /\ servers' = [servers EXCEPT ![s] = [owner |-> None, node |-> None]]
    /\ UNCHANGED <<now, users, nodes, creating, wasRole, goneAt, pending, tokens, web>>

-----------------------------------------------------------------------------
(* sftp_verify, asked by any node of the registry.                         *)

SftpRead(u, s) ==
    /\ Room
    /\ nodes # {} /\ Live(u)
    /\ pending' = pending \cup {[what |-> "sftp", client |-> Api, user |-> u,
                                 role |-> users[u], read |-> now, server |-> s]}
    /\ UNCHANGED <<now, panel, tokens, web>>

\* The password was right: is the server there, and this user's?
SftpVerify(p) ==
    /\ p.what = "sftp"
    /\ servers[p.server].owner = p.user
    /\ pending' = pending \ {p}
    /\ UNCHANGED <<now, panel, tokens, web>>

-----------------------------------------------------------------------------
(* The browser.                                                            *)

\* A tab is loaded: SessionContext::new takes the stored session.  (Loading an
\* open one anew is Close, then this.)
Load(t, page) ==
    /\ tab[t].page = "closed"
    /\ tab' = [tab EXCEPT ![t] = Mounted(Closed, page, store)]
    /\ UNCHANGED <<now, panel, pending, tokens, store>>

Stays(t) == tab[t].page # "closed" /\ ~tab[t].turned

\* A link is followed, also after a logout.
Navigate(t, page) ==
    /\ Stays(t) /\ page # tab[t].page
    /\ tab' = [tab EXCEPT ![t] = Mounted(@, page, tab[t].session)]
    /\ UNCHANGED <<now, panel, pending, tokens, store>>

\* One of the tabs of ServerDetailPage, there once the server's row came.
OpenTab(t) ==
    /\ Stays(t) /\ tab[t].page = "detail" /\ tab[t].tok # None
    /\ tab' = [tab EXCEPT ![t].sub = tab[t].session]
    /\ UNCHANGED <<now, panel, pending, tokens, store>>

Redirect(t) ==
    /\ tab[t].turned
    /\ tab' = [tab EXCEPT ![t] = Mounted(@, "login", tab[t].session)]
    /\ UNCHANGED <<now, panel, pending, tokens, store>>

\* SessionContext::clear: the page stays, with the token it holds.
Logout(t) ==
    /\ Stays(t) /\ tab[t].session # None
    /\ store' = None
    /\ tab' = [tab EXCEPT ![t].session = None]
    /\ UNCHANGED <<now, panel, pending, tokens>>

Close(t) ==
    /\ tab[t].page # "closed"
    /\ tab' = [tab EXCEPT ![t] = Closed]
    /\ UNCHANGED <<now, panel, pending, tokens, store>>

Tick ==
    /\ now < MaxClock
    /\ now' = now + 1
    /\ UNCHANGED <<panel, pending, tokens, web>>

-----------------------------------------------------------------------------
Login ==
    /\ Cardinality(tokens) < MaxIssued
    /\ \/ \E c \in Tabs \cup {Api}, u \in Users : LoginRead(c, u)
       \/ \E p \in pending : LoginIssue(p)
       \/ \E t \in tokens : Refresh(t)

Manage == \E t \in tokens :
    \/ \E u \in Users : \/ \E role \in {"user", "admin"} : create_user(t, u, role)
                        \/ delete_user(t, u)
    \/ \E n \in Nodes : create_node(t, n) \/ delete_node(t, n)
    \/ \E s \in Servers : \/ \E u \in Users, n \in Nodes : create_server(t, s, u, n)
                          \/ delete_server(t, s)

Sftp ==
    \/ \E u \in Users, s \in Servers : SftpRead(u, s)
    \/ \E p \in pending : SftpVerify(p) \/ LoginDenied(p)

Browser == \E t \in Tabs :
    \/ \E page \in {"login"} \cup ClientPages \cup AdminPages :
          Load(t, page) \/ Navigate(t, page)
    \/ OpenTab(t) \/ Redirect(t) \/ Logout(t) \/ Close(t)

Next == Login \/ Manage \/ (\E c \in creating : InsertUser(c)) \/ Sftp \/ Browser \/ Tick

Spec == Init /\ [][Next]_vars

=============================================================================
