---------------------------- MODULE ConsoleProofs ----------------------------
(***************************************************************************)
(* Proofs of SessionProperties and PageProperties, for any users, tabs,    *)
(* lifetimes, tables and requests in flight.                               *)
(*                                                                         *)
(* IInv is inductive for Sessions.  Each of its actions either issues      *)
(* tokens, changes a table, adds or ends a handler, or changes what a      *)
(* browser keeps; a lemma per action says that all five parts of IInv      *)
(* survive it.                                                             *)
(*                                                                         *)
(* PageInv is inductive for Pages.  A lemma per action says what it does   *)
(* to the page and to its requests (OpenIs, ...), and one per action and   *)
(* part of PageInv that the part survives it: Basics, Reloads and Walks,   *)
(* in that order.                                                          *)
(***************************************************************************)
EXTENDS SessionProperties, PageProperties, FiniteSetTheorems, SequenceTheorems,
        WellFoundedInduction, TLAPS

USE ConstantsOK

LEMMA InitInv == Init => IInv
  <1> SUFFICES ASSUME Init PROVE IInv
    OBVIOUS
  <1>1. TypeOK
    BY DEF Init, TypeOK, Roles, TabStates, Pages, Closed
  <1>2. FamilyBound
    BY DEF Init, FamilyBound
  <1>3. ClaimsKept
    BY DEF Init, ClaimsKept
  <1>4. References
    BY DEF Init, References
  <1>5. Carried
    BY DEF Init, Carried, Fit, Suits, Given, Closed, ClientPages
  <1> QED BY <1>1, <1>2, <1>3, <1>4, <1>5 DEF IInv

-----------------------------------------------------------------------------
(* Tokens.                                                                 *)

\* What is asked of a token for the tables and the clock to bear it out.
Borne(t) ==
    /\ t \in Tokens
    /\ t.login <= now
    /\ t.kind = "refresh" => t.exp <= t.login + RefreshTTL - 1
    /\ t.kind = "access"  => t.exp <= t.login + RefreshTTL + AccessTTL - 2
                             \/ t.exp <= t.login + AccessTTL - 1
    /\ t.role = wasRole[t.user]
    /\ t.read <= now
    /\ goneAt[t.user] # None => t.read <= goneAt[t.user]

\* Issuing a token that is borne out disturbs nothing but the browser.
LEMMA Issued ==
  ASSUME IInv, UNCHANGED <<now, panel>>, tokens \subseteq tokens',
         \A t \in tokens' \ tokens : Borne(t), pending' \subseteq pending
  PROVE  /\ tokens' \subseteq Tokens
         /\ FamilyBound' /\ ClaimsKept' /\ References'
  <1> USE DEF IInv, panel
  <1>1. tokens' \subseteq Tokens
    BY DEF TypeOK, Borne
  <1>2. FamilyBound'
    BY DEF FamilyBound, Borne
  <1>3. ClaimsKept'
    BY DEF ClaimsKept, Borne
  <1>4. References'
    BY DEF References, Live
  <1> QED BY <1>1, <1>2, <1>3, <1>4

\* What a browser keeps stays good when nothing of it changes.
LEMMA CarriedStays ==
  ASSUME IInv, UNCHANGED web, tokens \subseteq tokens'
  PROVE  Carried'
  BY DEF IInv, Carried, Fit, Suits, Given, web

LEMMA FitStays ==
  ASSUME tokens \subseteq tokens'
  PROVE  \A x : Fit(x) => Fit(x)'
  BY DEF Fit, Suits, Given

\* A page mounted on what suits does so too: within a layout the session is the
\* one the layout let in, or none.
LEMMA MountedIs ==
  ASSUME NEW x, x \in TabStates, NEW place \in Pages, NEW session \in Tokens \cup {None},
         \/ x.session = session /\ x.page # "closed"
         \/ Layout(x.page) # Layout(place)
         \/ place \in AdminPages => session.role = "admin",
         x.page # "closed" => Suits(x) /\ ~x.turned
  PROVE  LET y == Mounted(x, place, session)
         IN  /\ y \in TabStates /\ Suits(y)
             /\ y.session = session /\ y.tok \in {session, None} /\ y.sub = None
  <1>1. PICK y : y = Mounted(x, place, session)
    OBVIOUS
  <1>2. /\ y \in TabStates /\ y.session = session /\ y.page = place /\ y.sub = None
        /\ y.tok = IF place = "login" THEN None ELSE session
        /\ y.turned = (Layout(x.page) # Layout(place) /\ ~MayMount(Layout(place), session))
    BY <1>1 DEF Mounted, TabStates
  <1>3. ASSUME place \in AdminPages, ~y.turned, session # None
        PROVE  session.role = "admin"
    <2>1. Layout(place) = "admin"
      BY <1>3 DEF Layout
    <2>2. CASE MayMount("admin", session)
      BY <2>2, <1>3 DEF MayMount
    <2>3. CASE Layout(x.page) = "admin"
      <3>1. x.page \in AdminPages
        BY <2>3 DEF Layout, ClientPages, TabStates, Pages
      <3> QED BY <1>3, <2>1, <2>3, <3>1 DEF Suits
    <2> QED BY <1>2, <1>3, <2>1, <2>2, <2>3
  <1>4. y.page = "detail" => y.tok = session
    BY <1>2
  <1>5. Suits(y)
    BY <1>2, <1>3, <1>4 DEF Suits
  <1> QED BY <1>1, <1>2, <1>5

\* Where a login leads suits the token it gave.
LEMMA ShownIs ==
  ASSUME NEW x, x \in TabStates, NEW tok \in Tokens, Suits(x), ~x.turned
  PROVE  LET y == Shown(x, tok)
         IN  /\ y \in TabStates /\ Suits(y) /\ y.session = tok
             /\ y.tok \in {x.tok, tok, None} /\ y.sub \in {x.sub, None}
  <1>1. PICK home : home = IF tok.role = "admin" THEN "users" ELSE "dashboard"
    OBVIOUS
  <1>2. /\ home \in Pages /\ home # "detail"
        /\ home \in AdminPages => tok.role = "admin"
    BY <1>1 DEF Pages, ClientPages
  <1>3. CASE x.page = home
    <2>1. PICK y : y = [x EXCEPT !.session = tok]
      OBVIOUS
    <2>2. /\ y \in TabStates /\ y.session = tok /\ y.page = home
          /\ y.tok = x.tok /\ y.sub = x.sub /\ y.turned = x.turned
      BY <1>3, <2>1 DEF TabStates
    <2>3. Suits(y)
      BY <1>2, <1>3, <2>2 DEF Suits
    <2> QED BY <1>1, <1>3, <2>1, <2>2, <2>3 DEF Shown
  <1>4. CASE x.page # home
    <2>1. PICK y : y = Mounted(x, home, tok)
      OBVIOUS
    <2>2. /\ y \in TabStates /\ Suits(y)
          /\ y.session = tok /\ y.tok \in {tok, None} /\ y.sub = None
      BY <1>2, <2>1, MountedIs
    <2>3. Shown(x, tok) = y
      BY <1>1, <1>4, <2>1 DEF Shown
    <2> QED BY <2>2, <2>3
  <1> QED BY <1>3, <1>4

LEMMA LoginIssueInv ==
  ASSUME IInv, NEW p \in pending, LoginIssue(p)
  PROVE  IInv'
  <1>a. PICK acc : acc = Session(p)
    OBVIOUS
  <1>b. PICK ref :
          ref = encode_token(p.user, p.role, "refresh", RefreshTTL, p.read, now)
    OBVIOUS
  <1>1. p \in Pending /\ p.user \in Users /\ p.role \in Roles /\ p.read \in Nat
        /\ now \in Nat \ {0}
    BY DEF IInv, TypeOK, Pending
  <1>2. p.role = wasRole[p.user] /\ p.read <= now
        /\ (goneAt[p.user] # None => p.read <= goneAt[p.user])
    BY DEF IInv, ClaimsKept
  <1>3. /\ acc \in Tokens /\ acc.user = p.user /\ acc.role = p.role
        /\ acc.kind = "access" /\ acc.read = p.read /\ acc.login = now
        /\ acc.exp = now - 1 + AccessTTL
    BY <1>a, <1>1 DEF Session, encode_token, Tokens
  <1>4. /\ ref \in Tokens /\ ref.user = p.user /\ ref.role = p.role
        /\ ref.kind = "refresh" /\ ref.read = p.read /\ ref.login = now
        /\ ref.exp = now - 1 + RefreshTTL
    BY <1>b, <1>1 DEF encode_token, Tokens
  <1>5. /\ tokens' = tokens \cup {acc, ref} /\ pending' = pending \ {p}
        /\ UNCHANGED <<now, panel>>
    BY <1>a, <1>b DEF LoginIssue
  <1>6. Borne(acc)
    BY <1>1, <1>2, <1>3 DEF Borne
  <1>7. Borne(ref)
    BY <1>1, <1>2, <1>4 DEF Borne
  <1>8. /\ tokens' \subseteq Tokens
        /\ FamilyBound' /\ ClaimsKept' /\ References'
    BY <1>5, <1>6, <1>7, Issued
  <1>9. CASE p.client \in Tabs /\ tab[p.client].page # "closed"
    <2>1. store' = acc /\ tab' = [tab EXCEPT ![p.client] = Shown(tab[p.client], acc)]
          /\ ~tab[p.client].turned
      BY <1>a, <1>9 DEF LoginIssue
    <2>2. PICK x : x = tab[p.client]
      OBVIOUS
    <2>3. x \in TabStates /\ Fit(x) /\ ~x.turned
      BY <1>9, <2>1, <2>2 DEF IInv, TypeOK, Carried
    <2>4. PICK y : y = Shown(x, acc)
      OBVIOUS
    <2>5. /\ y \in TabStates /\ Suits(y) /\ y.session = acc
          /\ y.tok \in {x.tok, acc, None} /\ y.sub \in {x.sub, None}
      BY <1>3, <2>3, <2>4, ShownIs DEF Fit
    <2>6. Given(acc)'
      BY <1>1, <1>3, <1>5 DEF Given
    <2>7. tokens \subseteq tokens'
      BY <1>5
    <2>8. \A t \in Tabs : Fit(tab[t])'
      <3>1. \A z : Fit(z) => Fit(z)'
        BY <2>7, FitStays
      <3>2. Fit(y)'
        BY <2>3, <2>5, <2>6, <3>1 DEF Fit, Given
      <3>3. \A t \in Tabs : tab'[t] = IF t = p.client THEN y ELSE tab[t]
        BY <2>1, <2>2, <2>4 DEF IInv, TypeOK
      <3> QED BY <3>1, <3>2, <3>3 DEF IInv, Carried
    <2>9. Carried'
      BY <2>1, <2>6, <2>8 DEF Carried, Given
    <2>10. TypeOK'
      BY <1>5, <1>8, <2>1, <2>2, <2>4, <2>5 DEF IInv, TypeOK, panel
    <2> QED BY <1>8, <2>9, <2>10 DEF IInv
  <1>10. CASE ~(p.client \in Tabs /\ tab[p.client].page # "closed")
    <2>1. UNCHANGED web
      BY <1>10 DEF LoginIssue
    <2>2. Carried'
      BY <2>1, <1>5, CarriedStays
    <2>3. TypeOK'
      BY <2>1, <1>5, <1>8 DEF IInv, TypeOK, panel, web
    <2> QED BY <1>8, <2>2, <2>3 DEF IInv
  <1> QED BY <1>9, <1>10

LEMMA RefreshInv ==
  ASSUME IInv, NEW t \in tokens, Refresh(t)
  PROVE  IInv'
  <1>a. PICK new :
          new = encode_token(t.user, t.role, "access", AccessTTL, t.read, t.login)
    OBVIOUS
  <1>1. t \in Tokens /\ t.user \in Users /\ t.role \in Roles /\ t.read \in Nat
        /\ t.login \in Nat /\ t.exp \in Nat /\ now \in Nat \ {0}
    BY DEF IInv, TypeOK, Tokens
  <1>2. t.kind = "refresh" /\ t.exp >= now /\ t.exp <= t.login + RefreshTTL - 1
        /\ t.login <= now
    BY DEF Refresh, decode_token, IInv, FamilyBound
  <1>3. t.role = wasRole[t.user] /\ t.read <= now
        /\ (goneAt[t.user] # None => t.read <= goneAt[t.user])
    BY DEF IInv, ClaimsKept
  <1>4. /\ new \in Tokens /\ new.user = t.user /\ new.role = t.role
        /\ new.kind = "access" /\ new.read = t.read /\ new.login = t.login
        /\ new.exp = now - 1 + AccessTTL
    BY <1>a, <1>1 DEF encode_token, Tokens
  <1>5. /\ tokens' = tokens \cup {new}
        /\ UNCHANGED <<now, panel, pending, web>>
    BY <1>a DEF Refresh
  <1>6. new.exp <= new.login + RefreshTTL + AccessTTL - 2
    BY <1>1, <1>2, <1>4
  <1>7. Borne(new)
    BY <1>1, <1>2, <1>3, <1>4, <1>6 DEF Borne
  <1>8. /\ tokens' \subseteq Tokens
        /\ FamilyBound' /\ ClaimsKept' /\ References'
    BY <1>5, <1>7, Issued
  <1>9. Carried'
    BY <1>5, CarriedStays
  <1>10. TypeOK'
    BY <1>5, <1>8 DEF IInv, TypeOK, panel, web
  <1> QED BY <1>8, <1>9, <1>10 DEF IInv

-----------------------------------------------------------------------------
(* Handlers that begin and end.                                            *)

LEMMA ReadInv ==
  ASSUME IInv, NEW p, pending' = pending \cup {p},
         p \in Pending, p.read = now, Live(p.user), p.role = users[p.user],
         p.what = "sftp" => p.server \in Servers,
         UNCHANGED <<now, panel, tokens, web>>
  PROVE  IInv'
  <1> USE DEF IInv, panel, web
  <1>1. TypeOK'
    BY DEF TypeOK
  <1>2. FamilyBound'
    BY DEF FamilyBound
  <1>3. p.role = wasRole[p.user] /\ goneAt[p.user] = None
    BY DEF ClaimsKept, Live, Pending
  <1>4. ClaimsKept'
    BY <1>3 DEF ClaimsKept, TypeOK, Live
  <1>5. References'
    BY DEF References, Live
  <1>6. Carried'
    BY CarriedStays
  <1> QED BY <1>1, <1>2, <1>4, <1>5, <1>6

LEMMA LoginReadInv ==
  ASSUME IInv, NEW c \in Tabs \cup {Api}, NEW u \in Users, LoginRead(c, u)
  PROVE  IInv'
  <1>1. PICK p : p = [what |-> "login", client |-> c, user |-> u,
                      role |-> users[u], read |-> now, server |-> None]
    OBVIOUS
  <1>2. Live(u) /\ now \in Nat
    BY DEF LoginRead, IInv, TypeOK
  <1>3. p \in Pending
    BY <1>1, <1>2 DEF Pending, Live, Roles
  <1> QED BY <1>1, <1>2, <1>3, ReadInv DEF LoginRead

LEMMA SftpReadInv ==
  ASSUME IInv, NEW u \in Users, NEW s \in Servers, SftpRead(u, s)
  PROVE  IInv'
  <1>1. PICK p : p = [what |-> "sftp", client |-> Api, user |-> u,
                      role |-> users[u], read |-> now, server |-> s]
    OBVIOUS
  <1>2. Live(u) /\ now \in Nat
    BY DEF SftpRead, IInv, TypeOK
  <1>3. p \in Pending
    BY <1>1, <1>2 DEF Pending, Live, Roles
  <1> QED BY <1>1, <1>2, <1>3, ReadInv DEF SftpRead

LEMMA DoneInv ==
  ASSUME IInv, pending' \subseteq pending, UNCHANGED <<now, panel, tokens, web>>
  PROVE  IInv'
  <1> USE DEF IInv, panel, web
  <1>1. TypeOK'
    BY DEF TypeOK
  <1>2. FamilyBound' /\ ClaimsKept' /\ References'
    BY Issued, <1>1 DEF TypeOK
  <1>3. Carried'
    BY CarriedStays
  <1> QED BY <1>1, <1>2, <1>3

-----------------------------------------------------------------------------
(* The tables.                                                             *)

LEMMA CreateUserInv ==
  ASSUME IInv, NEW t \in tokens, NEW u \in Users, NEW role \in Roles,
         create_user(t, u, role)
  PROVE  IInv'
  <1> USE DEF IInv
  <1>1. /\ creating' = creating \cup {[user |-> u, role |-> role]}
        /\ UNCHANGED <<now, users, nodes, servers, wasRole, goneAt, pending, tokens, web>>
    BY DEF create_user
  <1>2. TypeOK'
    BY <1>1 DEF TypeOK, web
  <1>3. FamilyBound' /\ ClaimsKept' /\ References'
    BY <1>1 DEF FamilyBound, ClaimsKept, References, Live
  <1>4. Carried'
    BY <1>1, CarriedStays
  <1> QED BY <1>2, <1>3, <1>4

\* A row is inserted under an id nothing speaks of yet: whatever names a user
\* names one whose row was there.
LEMMA InsertUserInv ==
  ASSUME IInv, NEW c \in creating, InsertUser(c)
  PROVE  IInv'
  <1> USE DEF IInv
  <1>1. c.user \in Users /\ c.role \in Roles
    BY DEF TypeOK
  <1>2. /\ creating' = creating \ {c}
        /\ UNCHANGED <<now, nodes, servers, goneAt, pending, tokens, web>>
    BY DEF InsertUser
  <1>3. CASE users[c.user] = "never"
    <2>1. /\ users' = [users EXCEPT ![c.user] = c.role]
          /\ wasRole' = [wasRole EXCEPT ![c.user] = c.role]
      BY <1>3 DEF InsertUser
    <2>2. TypeOK'
      BY <1>1, <1>2, <2>1 DEF TypeOK, Roles, web
    <2>3. FamilyBound'
      BY <1>2 DEF FamilyBound
    <2>4. wasRole[c.user] = "never"
      BY <1>1, <1>3 DEF ClaimsKept
    <2>5. \A x \in tokens \cup pending : x.user \in Users /\ x.role \in Roles
      BY DEF TypeOK, Tokens, Pending
    <2>6. \A x \in tokens \cup pending : x.user # c.user
      BY <2>4, <2>5 DEF ClaimsKept, Roles
    <2>7. \A u \in Users : users'[u] # "gone" => users'[u] = wasRole'[u]
      BY <1>1, <2>1 DEF ClaimsKept, TypeOK
    <2>8. \A u \in Users : users'[u] = "gone" <=> goneAt'[u] # None
      BY <1>1, <1>2, <1>3, <2>1 DEF ClaimsKept, TypeOK, Roles
    <2>9. ClaimsKept'
      BY <1>1, <1>2, <2>1, <2>5, <2>6, <2>7, <2>8 DEF ClaimsKept, TypeOK
    <2>10. \A s \in Servers : servers[s].owner # None => servers[s].owner # c.user
      BY <1>3 DEF References, Live
    <2>11. References'
      BY <1>1, <1>2, <2>1, <2>10 DEF References, Live, TypeOK
    <2>12. Carried'
      BY <1>2, CarriedStays
    <2> QED BY <2>2, <2>3, <2>9, <2>11, <2>12
  <1>4. CASE users[c.user] # "never"
    <2>1. UNCHANGED <<users, wasRole>>
      BY <1>4 DEF InsertUser
    <2>2. TypeOK'
      BY <1>2, <2>1 DEF TypeOK, web
    <2>3. FamilyBound' /\ ClaimsKept' /\ References'
      BY <1>2, <2>1 DEF FamilyBound, ClaimsKept, References, Live
    <2>4. Carried'
      BY <1>2, CarriedStays
    <2> QED BY <2>2, <2>3, <2>4
  <1> QED BY <1>3, <1>4

\* What has been read was read by now, and no server is his.
LEMMA DeleteUserInv ==
  ASSUME IInv, NEW t \in tokens, NEW u \in Users, delete_user(t, u)
  PROVE  IInv'
  <1> USE DEF IInv
  <1>1. /\ Live(u) /\ \A s \in Servers : servers[s].owner # u
        /\ users' = [users EXCEPT ![u] = "gone"]
        /\ goneAt' = [goneAt EXCEPT ![u] = now]
        /\ UNCHANGED <<now, nodes, servers, creating, wasRole, pending, tokens, web>>
    BY DEF delete_user
  <1>2. TypeOK'
    BY <1>1 DEF TypeOK, web
  <1>3. FamilyBound'
    BY <1>1 DEF FamilyBound
  <1>4. \A v \in Users : users'[v] # "gone" => users'[v] = wasRole'[v]
    BY <1>1 DEF ClaimsKept, TypeOK
  <1>5. \A v \in Users : users'[v] = "gone" <=> goneAt'[v] # None
    BY <1>1 DEF ClaimsKept, TypeOK
  <1>6. \A x \in tokens \cup pending : x.user \in Users
    BY DEF TypeOK, Tokens, Pending
  <1>7. ClaimsKept'
    BY <1>1, <1>4, <1>5, <1>6 DEF ClaimsKept, TypeOK
  <1>8. References'
    BY <1>1 DEF References, Live, TypeOK
  <1>9. Carried'
    BY <1>1, CarriedStays
  <1> QED BY <1>2, <1>3, <1>7, <1>8, <1>9

\* The registry of nodes and the rows of servers, which no token speaks of.
LEMMA RegistryInv ==
  ASSUME IInv, nodes' \subseteq Nodes,
         servers' \in [Servers -> [owner : Users \cup {None}, node : Nodes \cup {None}]],
         \A s \in Servers : servers'[s].owner # None =>
             Live(servers'[s].owner) /\ servers'[s].node \in nodes',
         UNCHANGED <<now, users, creating, wasRole, goneAt, pending, tokens, web>>
  PROVE  IInv'
  <1> USE DEF IInv
  <1>1. TypeOK'
    BY DEF TypeOK, web
  <1>2. FamilyBound' /\ ClaimsKept'
    BY DEF FamilyBound, ClaimsKept
  <1>3. References'
    BY DEF References, Live
  <1>4. Carried'
    BY CarriedStays
  <1> QED BY <1>1, <1>2, <1>3, <1>4

LEMMA NodeInv ==
  ASSUME IInv, NEW t \in tokens, NEW n \in Nodes,
         create_node(t, n) \/ delete_node(t, n)
  PROVE  IInv'
  <1>1. CASE create_node(t, n)
    BY <1>1, RegistryInv DEF create_node, IInv, TypeOK, References
  <1>2. CASE delete_node(t, n)
    BY <1>2, RegistryInv DEF delete_node, IInv, TypeOK, References
  <1> QED BY <1>1, <1>2

LEMMA CreateServerInv ==
  ASSUME IInv, NEW t \in tokens, NEW s \in Servers, NEW u \in Users, NEW n \in Nodes,
         create_server(t, s, u, n)
  PROVE  IInv'
  BY RegistryInv DEF create_server, IInv, TypeOK, References

LEMMA DeleteServerInv ==
  ASSUME IInv, NEW t \in tokens, NEW s \in Servers, delete_server(t, s)
  PROVE  IInv'
  BY RegistryInv DEF delete_server, IInv, TypeOK, References

-----------------------------------------------------------------------------
(* The browser.                                                            *)

\* A tab that comes to be fit.
LEMMA TabInv ==
  ASSUME IInv, NEW t \in Tabs, NEW x, tab' = [tab EXCEPT ![t] = x],
         x \in TabStates, Fit(x), Given(store'),
         UNCHANGED <<now, panel, pending, tokens>>
  PROVE  IInv'
  <1> USE DEF IInv, panel
  <1>1. TypeOK'
    BY DEF TypeOK
  <1>2. FamilyBound' /\ ClaimsKept' /\ References'
    BY DEF FamilyBound, ClaimsKept, References, Live
  <1>3. Given(store)'
    BY DEF Given
  <1>4. \A u \in Tabs : tab'[u] = IF u = t THEN x ELSE tab[u]
    BY DEF TypeOK
  <1>5. \A y : Fit(y) => Fit(y)'
    BY FitStays
  <1>6. Carried'
    BY <1>3, <1>4, <1>5 DEF Carried
  <1> QED BY <1>1, <1>2, <1>6

LEMMA TabIs ==
  ASSUME IInv, NEW t \in Tabs
  PROVE  /\ tab[t] \in TabStates /\ Fit(tab[t])
         /\ tab[t].session \in Tokens \cup {None} /\ Given(tab[t].session)
         /\ store \in Tokens \cup {None} /\ Given(store)
  BY DEF IInv, TypeOK, Carried, Fit, Suits, Given, TabStates

LEMMA ClosedIs == Closed \in TabStates /\ Fit(Closed) /\ Closed.page = "closed"
  BY DEF Closed, TabStates, Fit, Suits, Given

LEMMA LoadInv ==
  ASSUME IInv, NEW t \in Tabs, NEW place \in Pages, Load(t, place)
  PROVE  IInv'
  <1>1. Layout("closed") # Layout(place)
    BY DEF Layout, Pages, ClientPages
  <1>2. PICK x : x = Mounted(Closed, place, store)
    OBVIOUS
  <1>3. /\ x \in TabStates /\ Suits(x) /\ x.session = store
        /\ x.tok \in {store, None} /\ x.sub = None
    BY <1>1, <1>2, TabIs, ClosedIs, MountedIs
  <1>4. Fit(x)
    BY <1>3, TabIs DEF Fit, Given
  <1>5. Given(store') /\ tab' = [tab EXCEPT ![t] = x]
    BY <1>2, TabIs DEF Load, Given
  <1> QED BY <1>3, <1>4, <1>5, TabInv DEF Load

LEMMA NavigateInv ==
  ASSUME IInv, NEW t \in Tabs, NEW place \in Pages, Navigate(t, place)
  PROVE  IInv'
  <1>1. PICK x : x = Mounted(tab[t], place, tab[t].session)
    OBVIOUS
  <1>2. tab[t].page # "closed" /\ ~tab[t].turned
    BY DEF Navigate, Stays
  <1>3. /\ x \in TabStates /\ Suits(x) /\ x.session = tab[t].session
        /\ x.tok \in {tab[t].session, None} /\ x.sub = None
    BY <1>1, <1>2, TabIs, MountedIs DEF Fit
  <1>4. Fit(x)
    BY <1>3, TabIs DEF Fit, Given
  <1>5. Given(store') /\ tab' = [tab EXCEPT ![t] = x]
    BY <1>1, TabIs DEF Navigate, Given
  <1> QED BY <1>3, <1>4, <1>5, TabInv DEF Navigate

\* A page that is turned away is fit whatever it holds; the login page too.
LEMMA RedirectInv ==
  ASSUME IInv, NEW t \in Tabs, Redirect(t)
  PROVE  IInv'
  <1>1. PICK x : x = Mounted(tab[t], "login", tab[t].session)
    OBVIOUS
  <1>2. /\ x \in TabStates /\ x.session = tab[t].session /\ x.page = "login"
        /\ x.tok = None /\ x.sub = None
    BY <1>1, TabIs DEF Mounted, TabStates, Pages
  <1>3. Fit(x)
    BY <1>2, TabIs DEF Fit, Suits, Given
  <1>4. Given(store') /\ tab' = [tab EXCEPT ![t] = x]
    BY <1>1, TabIs DEF Redirect, Given
  <1> QED BY <1>2, <1>3, <1>4, TabInv DEF Redirect

LEMMA OpenTabInv ==
  ASSUME IInv, NEW t \in Tabs, OpenTab(t)
  PROVE  IInv'
  <1>1. PICK x : x = [tab[t] EXCEPT !.sub = tab[t].session]
    OBVIOUS
  <1>2. /\ x \in TabStates /\ x.sub = tab[t].session /\ x.session = tab[t].session
        /\ x.page = "detail" /\ x.tok = tab[t].tok /\ x.turned = tab[t].turned
    BY <1>1, TabIs DEF OpenTab, TabStates
  <1>3. Given(x.session) /\ Given(x.tok) /\ Given(x.sub)
    BY <1>2, TabIs DEF Fit
  <1>4. tab[t].session \in {tab[t].tok, None} /\ x.page \notin AdminPages
    BY <1>2, TabIs DEF OpenTab, Fit, Suits
  <1>5. Suits(x)
    BY <1>2, <1>4 DEF Suits
  <1>6. Given(store') /\ tab' = [tab EXCEPT ![t] = x]
    BY <1>1, TabIs DEF OpenTab, IInv, TypeOK, Given
  <1> QED BY <1>2, <1>3, <1>5, <1>6, TabInv DEF OpenTab, Fit

LEMMA LogoutInv ==
  ASSUME IInv, NEW t \in Tabs, Logout(t)
  PROVE  IInv'
  <1>1. PICK x : x = [tab[t] EXCEPT !.session = None]
    OBVIOUS
  <1>2. /\ x \in TabStates /\ x.session = None /\ x.page = tab[t].page
        /\ x.tok = tab[t].tok /\ x.sub = tab[t].sub /\ x.turned = tab[t].turned
    BY <1>1, TabIs DEF TabStates
  <1>3. Fit(x)
    BY <1>2, TabIs DEF Fit, Suits, Given
  <1>4. Given(store') /\ tab' = [tab EXCEPT ![t] = x]
    BY <1>1 DEF Logout, IInv, TypeOK, Given
  <1> QED BY <1>2, <1>3, <1>4, TabInv DEF Logout

LEMMA CloseInv ==
  ASSUME IInv, NEW t \in Tabs, Close(t)
  PROVE  IInv'
  <1>1. Given(store')
    BY TabIs DEF Close, Given
  <1> QED BY <1>1, ClosedIs, TabInv DEF Close

LEMMA TickInv == IInv /\ Tick => IInv'
  <1> SUFFICES ASSUME IInv, Tick PROVE IInv'
    OBVIOUS
  <1> USE DEF IInv, Tick, panel, web
  <1>1. TypeOK'
    BY DEF TypeOK
  <1>2. FamilyBound'
    BY DEF FamilyBound, TypeOK, Tokens
  <1>3. \A x \in tokens \cup pending : x.read \in Nat
    BY DEF TypeOK, Tokens, Pending
  <1>4. ClaimsKept'
    BY <1>3 DEF ClaimsKept, TypeOK
  <1>5. References'
    BY DEF References, Live
  <1>6. Carried'
    BY DEF Carried, Fit, Suits, Given
  <1> QED BY <1>1, <1>2, <1>4, <1>5, <1>6

-----------------------------------------------------------------------------
(* The theorems.                                                           *)

LEMMA InductiveStep == IInv /\ [Next]_vars => IInv'
  <1> SUFFICES ASSUME IInv, [Next]_vars PROVE IInv'
    OBVIOUS
  <1>1. CASE Login
    BY <1>1, LoginReadInv, LoginIssueInv, RefreshInv DEF Login
  <1>2. CASE Manage
    <2>1. PICK t \in tokens :
             \/ \E u \in Users : \/ \E role \in Roles : create_user(t, u, role)
                                 \/ delete_user(t, u)
             \/ \E n \in Nodes : create_node(t, n) \/ delete_node(t, n)
             \/ \E s \in Servers :
                   \/ \E u \in Users, n \in Nodes : create_server(t, s, u, n)
                   \/ delete_server(t, s)
      BY <1>2 DEF Manage, Roles
    <2> QED
      BY <2>1, CreateUserInv, DeleteUserInv, NodeInv, CreateServerInv, DeleteServerInv
  <1>3. CASE \E c \in creating : InsertUser(c)
    BY <1>3, InsertUserInv
  <1>4. CASE Sftp
    <2>1. CASE \E u \in Users, s \in Servers : SftpRead(u, s)
      BY <2>1, SftpReadInv
    <2>2. CASE \E p \in pending : SftpVerify(p) \/ LoginDenied(p)
      <3>1. PICK p \in pending : SftpVerify(p) \/ LoginDenied(p)
        BY <2>2
      <3>2. pending' \subseteq pending /\ UNCHANGED <<now, panel, tokens, web>>
        BY <3>1 DEF SftpVerify, LoginDenied
      <3> QED BY <3>2, DoneInv
    <2> QED BY <1>4, <2>1, <2>2 DEF Sftp
  <1>5. CASE Browser
    <2>1. PICK t \in Tabs :
             \/ \E place \in Pages : Load(t, place) \/ Navigate(t, place)
             \/ OpenTab(t) \/ Redirect(t) \/ Logout(t) \/ Close(t)
      BY <1>5 DEF Browser, Pages
    <2> QED BY <2>1, LoadInv, NavigateInv, OpenTabInv, RedirectInv, LogoutInv, CloseInv
  <1>6. CASE Tick
    BY <1>6, TickInv
  <1>7. CASE UNCHANGED vars
    <2>1. pending' \subseteq pending /\ UNCHANGED <<now, panel, tokens, web>>
      BY <1>7 DEF vars, panel, web
    <2> QED BY <2>1, DoneInv
  <1> QED BY <1>1, <1>2, <1>3, <1>4, <1>5, <1>6, <1>7 DEF Next

\* The inductive invariant: no login is worth anything after the two lifetimes
\* (FamilyBound), and the claims nobody reads again are what the row said
\* (ClaimsKept), whatever users are created and deleted meanwhile.
THEOREM SessionInvariance == Spec => []IInv
  BY InitInv, InductiveStep, PTL DEF Spec

\* Though a layout looks at the session once, an administrator's page that is
\* there to stay holds an administrator's token or none, and a server's page and
\* its tabs act for one session, whatever logins and logouts follow (state.rs,
\* the layouts and server_detail.rs of the frontend).
THEOREM PagesHoldTokens == Spec => []PageHoldsToken
  <1>1. IInv => PageHoldsToken
    BY DEF IInv, Carried, Fit, Suits, Given, PageHoldsToken
  <1> QED BY <1>1, SessionInvariance, PTL

\* sftp_verify lets in no user who is gone: while the password is hashed the
\* user may be deleted, but not while a server names him as its owner.
THEOREM SftpVerifiesTheLiving == Spec => SftpSound
  <1>1. ASSUME IInv, NEW p \in pending, SftpVerify(p)
        PROVE  Live(p.user)
    <2>1. p.server \in Servers /\ p.user \in Users /\ servers[p.server].owner = p.user
      BY <1>1 DEF SftpVerify, IInv, References, TypeOK, Pending
    <2> QED BY <1>1, <2>1 DEF IInv, References
  <1>2. IInv => [\A p \in pending : SftpVerify(p) => Live(p.user)]_vars
    BY <1>1
  <1> QED BY <1>2, SessionInvariance, PTL DEF SftpSound


-----------------------------------------------------------------------------
(* The lists of the pages.  First, finite sets of numbers.                 *)

HIDE ConstantsOK

LEMMA LeastNumber ==
  ASSUME NEW T, T \subseteq Nat, T # {}
  PROVE  \E x \in T : \A y \in T : x <= y
  <1> DEFINE Less == {ss \in Nat \X Nat : ss[1] < ss[2]}
  <1>1. IsWellFoundedOn(Less, Nat)
    BY NatLessThanWellFounded DEF OpToRel
  <1>2. PICK x \in T : \A y \in T : ~(<<y, x>> \in Less)
    BY <1>1, WFMin
  <1>3. \A y \in T : ~(y < x)
    BY <1>2
  <1> QED BY <1>3

\* A finite set of numbers has a greatest one.
LEMMA GreatestNumber ==
  ASSUME NEW T, T \subseteq Nat, T # {}, IsFiniteSet(T)
  PROVE  \E x \in T : \A y \in T : x >= y
  <1> DEFINE Bad == {n \in Nat : \E U \in SUBSET Nat :
                        /\ IsFiniteSet(U) /\ Cardinality(U) = n /\ U # {}
                        /\ ~ \E x \in U : \A y \in U : x >= y}
  <1>1. Bad = {}
    <2> SUFFICES ASSUME Bad # {} PROVE FALSE
      OBVIOUS
    <2>1. PICK n \in Bad : \A k \in Bad : n <= k
      BY LeastNumber
    <2>2. PICK U \in SUBSET Nat : /\ IsFiniteSet(U) /\ Cardinality(U) = n /\ U # {}
                                  /\ ~ \E x \in U : \A y \in U : x >= y
      BY <2>1
    <2>3. PICK u \in U : TRUE
      BY <2>2
    <2> DEFINE V == U \ {u}
    <2>4. IsFiniteSet(V) /\ Cardinality(V) = n - 1 /\ V \in SUBSET Nat /\ n \in Nat
      BY <2>1, <2>2, <2>3, FS_RemoveElement
    <2>5. Cardinality(V) \in Nat
      BY <2>4, FS_CardinalityType
    <2>6. n - 1 \notin Bad
      BY <2>1, <2>4, <2>5
    <2>7. V # {}
      <3> SUFFICES ASSUME V = {} PROVE FALSE
        OBVIOUS
      <3>1. \A y \in U : y = u
        OBVIOUS
      <3> QED BY <2>2, <2>3, <3>1
    <2>8. PICK x \in V : \A y \in V : x >= y
      BY <2>4, <2>5, <2>6, <2>7
    <2>9. u \in Nat /\ x \in Nat /\ x \in U /\ \A y \in U : y \in V \/ y = u
      BY <2>3, <2>8
    <2>10. CASE u >= x
      <3>1. \A y \in U : u >= y
        BY <2>2, <2>8, <2>9, <2>10
      <3> QED BY <2>2, <2>3, <3>1
    <2>11. CASE x >= u
      <3>1. \A y \in U : x >= y
        BY <2>8, <2>9, <2>11
      <3> QED BY <2>2, <2>9, <3>1
    <2> QED BY <2>9, <2>10, <2>11
  <1>2. Cardinality(T) \in Nat
    BY FS_CardinalityType
  <1> QED BY <1>1, <1>2

\* What Max picks.
LEMMA MaxIs ==
  ASSUME NEW T, T \subseteq Nat, T # {}, IsFiniteSet(T)
  PROVE  Max(T) \in T /\ \A y \in T : Max(T) >= y
  <1>1. \E x \in T : \A y \in T : x >= y
    BY GreatestNumber
  <1> QED BY <1>1 DEF Max

Falls(list, ids) == /\ list \in [1 .. Cardinality(ids) -> ids]
                    /\ \A i, j \in DOMAIN list : i < j => list[i] > list[j]

\* Every finite set of numbers can be listed from the greatest down.
LEMMA FallsExists ==
  ASSUME NEW ids, ids \subseteq Nat, IsFiniteSet(ids)
  PROVE  \E list : Falls(list, ids)
  <1> DEFINE Has(U) == \E list : Falls(list, U)
             Bad == {n \in Nat : \E U \in SUBSET Nat :
                        IsFiniteSet(U) /\ Cardinality(U) = n /\ ~Has(U)}
  <1> HIDE DEF Has
  <1>1. Bad = {}
    <2> SUFFICES ASSUME Bad # {} PROVE FALSE
      OBVIOUS
    <2>1. PICK n \in Bad : \A k \in Bad : n <= k
      BY LeastNumber
    <2>2. PICK U \in SUBSET Nat : IsFiniteSet(U) /\ Cardinality(U) = n /\ ~Has(U)
      BY <2>1
    <2>3. CASE U = {}
      <3> DEFINE list == [i \in 1 .. 0 |-> 0]
      <3>1. Cardinality(U) = 0
        BY <2>3, FS_EmptySet
      <3>2. list \in [1 .. 0 -> U] /\ DOMAIN list = {}
        OBVIOUS
      <3>3. Falls(list, U)
        BY <3>1, <3>2 DEF Falls
      <3> QED BY <2>2, <3>3 DEF Has
    <2>4. CASE U # {}
      <3>1. PICK u \in U : \A y \in U : u >= y
        BY <2>2, <2>4, GreatestNumber
      <3> DEFINE V == U \ {u}
      <3>2. IsFiniteSet(V) /\ Cardinality(V) = n - 1 /\ V \in SUBSET Nat /\ n \in Nat
        BY <2>1, <2>2, <3>1, FS_RemoveElement
      <3>3. Cardinality(V) \in Nat
        BY <3>2, FS_CardinalityType
      <3>4. n - 1 \notin Bad
        BY <2>1, <3>2, <3>3
      <3>5. PICK rest : Falls(rest, V)
        BY <3>2, <3>3, <3>4 DEF Has
      <3> DEFINE list == [i \in 1 .. n |-> IF i = 1 THEN u ELSE rest[i - 1]]
      <3>6. n \in Nat \ {0} /\ rest \in [1 .. n - 1 -> V]
        <4>1. rest \in [1 .. Cardinality(V) -> V]
          BY <3>5 DEF Falls
        <4>2. n - 1 \in Nat /\ n \in Nat
          BY <3>2, <3>3
        <4> HIDE DEF V
        <4> QED BY <4>1, <4>2, <3>2
      <3>7. \A i \in 1 .. n : i = 1 \/ (i - 1 \in 1 .. n - 1 /\ rest[i - 1] \in V)
        BY <3>6
      <3>8. list \in [1 .. n -> U]
        BY <3>1, <3>7
      <3>9. ASSUME NEW i \in 1 .. n, NEW j \in 1 .. n, i < j PROVE list[i] > list[j]
        <4>1. j # 1 /\ list[j] = rest[j - 1] /\ rest[j - 1] \in V
          BY <3>7, <3>9
        <4>2. CASE i = 1
          <5>1. u \in Nat /\ rest[j - 1] \in Nat /\ rest[j - 1] # u /\ u >= rest[j - 1]
            BY <3>1, <4>1
          <5> QED BY <4>1, <4>2, <5>1
        <4>3. CASE i # 1
          <5>1. i - 1 \in 1 .. n - 1 /\ j - 1 \in 1 .. n - 1 /\ i - 1 < j - 1
            BY <3>7, <3>9, <4>1, <4>3
          <5>2. rest[i - 1] > rest[j - 1]
            BY <5>1, <3>5, <3>6 DEF Falls
          <5> QED BY <4>1, <4>3, <5>2
        <4> QED BY <4>2, <4>3
      <3>10. DOMAIN list = 1 .. n
        OBVIOUS
      <3> HIDE DEF list
      <3>11. Falls(list, U)
        BY <2>2, <3>8, <3>9, <3>10 DEF Falls
      <3> QED BY <2>2, <3>11 DEF Has
    <2> QED BY <2>3, <2>4
  <1>2. Cardinality(ids) \in Nat
    BY FS_CardinalityType
  <1>3. Has(ids)
    BY <1>1, <1>2
  <1> QED BY <1>3 DEF Has

\* Newest lists each row once, the newest first.
LEMMA NewestIs ==
  ASSUME NEW ids, ids \subseteq Nat, IsFiniteSet(ids)
  PROVE  /\ Newest(ids) \in Seq(ids) /\ Len(Newest(ids)) = Cardinality(ids)
         /\ ToSet(Newest(ids)) = ids
         /\ \A i, j \in 1 .. Cardinality(ids) : i < j => Newest(ids)[i] > Newest(ids)[j]
  <1> DEFINE list == Newest(ids)
             n == Cardinality(ids)
  <1>0. n \in Nat
    BY FS_CardinalityType
  <1>1. PICK some : Falls(some, ids)
    BY FallsExists
  <1>2. Falls(list, ids)
    BY <1>1 DEF Falls, Newest
  <1> HIDE DEF list
  <1>3. list \in [1 .. n -> ids] /\ \A i, j \in 1 .. n : i < j => list[i] > list[j]
    BY <1>2 DEF Falls
  <1>4. list \in Seq(ids) /\ Len(list) = n
    BY <1>0, <1>3, SeqDef
  <1>5. ASSUME NEW i \in 1 .. n, NEW j \in 1 .. n, list[i] = list[j] PROVE i = j
    <2>1. list[i] \in Nat /\ list[j] \in Nat
      BY <1>3
    <2>2. ~(i < j) /\ ~(j < i)
      BY <1>3, <1>5, <2>1
    <2> QED BY <2>2, <1>0
  <1>6. list \in Injection(1 .. n, ids)
    BY <1>3, <1>5 DEF Injection, IsInjective
  <1>7. Cardinality(1 .. n) = n
    BY <1>0, FS_Interval
  <1>8. list \in Surjection(1 .. n, ids)
    BY <1>6, <1>7, FS_Injection
  <1>9. \A x \in ids : \E i \in 1 .. n : list[i] = x
    BY <1>8 DEF Surjection
  <1>10. ToSet(list) = ids
    BY <1>3, <1>9 DEF ToSet
  <1> QED BY <1>3, <1>4, <1>10 DEF list

LEMMA ConcatSet ==
  ASSUME NEW S, NEW s \in Seq(S), NEW t \in Seq(S)
  PROVE  s \o t \in Seq(S) /\ ToSet(s \o t) = ToSet(s) \cup ToSet(t)
  <1>1. /\ Len(s) \in Nat /\ DOMAIN s = 1 .. Len(s)
        /\ Len(t) \in Nat /\ DOMAIN t = 1 .. Len(t)
    BY LenProperties
  <1>2. /\ s \o t \in Seq(S) /\ Len(s \o t) = Len(s) + Len(t)
        /\ \A i \in 1 .. Len(s) + Len(t) :
              (s \o t)[i] = IF i <= Len(s) THEN s[i] ELSE t[i - Len(s)]
    BY ConcatProperties
  <1>3. DOMAIN (s \o t) = 1 .. Len(s) + Len(t)
    BY <1>2, LenProperties
  <1>4. ASSUME NEW i \in DOMAIN (s \o t) PROVE (s \o t)[i] \in ToSet(s) \cup ToSet(t)
    <2>1. CASE i <= Len(s)
      <3>1. i \in DOMAIN s /\ (s \o t)[i] = s[i]
        BY <1>1, <1>2, <1>3, <2>1
      <3> QED BY <3>1 DEF ToSet
    <2>2. CASE ~(i <= Len(s))
      <3>1. i - Len(s) \in DOMAIN t /\ (s \o t)[i] = t[i - Len(s)]
        BY <1>1, <1>2, <1>3, <2>2
      <3> QED BY <3>1 DEF ToSet
    <2> QED BY <2>1, <2>2
  <1>5. ASSUME NEW i \in DOMAIN s PROVE s[i] \in ToSet(s \o t)
    <2>1. i \in DOMAIN (s \o t) /\ (s \o t)[i] = s[i]
      BY <1>1, <1>2, <1>3
    <2> QED BY <2>1 DEF ToSet
  <1>6. ASSUME NEW i \in DOMAIN t PROVE t[i] \in ToSet(s \o t)
    <2>1. i + Len(s) \in DOMAIN (s \o t) /\ (s \o t)[i + Len(s)] = t[i]
      <3>1. /\ i + Len(s) \in 1 .. Len(s) + Len(t) /\ ~(i + Len(s) <= Len(s))
            /\ (i + Len(s)) - Len(s) = i
        BY <1>1
      <3> QED BY <3>1, <1>2, <1>3
    <2> QED BY <2>1 DEF ToSet
  <1>7. \A x \in ToSet(s \o t) : x \in ToSet(s) \cup ToSet(t)
    BY <1>4 DEF ToSet
  <1>8. \A x \in ToSet(s) \cup ToSet(t) : x \in ToSet(s \o t)
    BY <1>5, <1>6 DEF ToSet
  <1> QED BY <1>2, <1>7, <1>8

\* A row's place in the list from the newest on is its rank.
LEMMA RankIsPlace ==
  ASSUME NEW ids, ids \subseteq Nat, IsFiniteSet(ids), NEW k \in 1 .. Cardinality(ids)
  PROVE  Cardinality({y \in ids : y >= Newest(ids)[k]}) = k
  <1> DEFINE list == Newest(ids)
             n == Cardinality(ids)
             newer == {y \in ids : y >= list[k]}
             f == [i \in 1 .. k |-> list[i]]
  <1>1. /\ n \in Nat /\ list \in Seq(ids) /\ Len(list) = n /\ ToSet(list) = ids
        /\ \A i, j \in 1 .. n : i < j => list[i] > list[j]
    BY NewestIs, FS_CardinalityType
  <1>2. DOMAIN list = 1 .. n /\ \A i \in 1 .. n : list[i] \in ids /\ list[i] \in Nat
    BY <1>1, LenProperties, ElementOfSeq
  <1>3. k \in Nat /\ \A i \in 1 .. k : i \in 1 .. n /\ (i < k \/ i = k)
    BY <1>1
  <1> HIDE DEF list
  <1>4. \A i \in 1 .. k : list[i] \in newer
    BY <1>1, <1>2, <1>3
  <1>5. ASSUME NEW y \in newer PROVE \E i \in 1 .. k : list[i] = y
    <2>1. PICK i \in 1 .. n : list[i] = y
      BY <1>1, <1>2 DEF ToSet
    <2>2. ~(k < i)
      BY <1>1, <1>2, <2>1
    <2> QED BY <1>1, <2>1, <2>2
  <1> HIDE DEF newer
  <1>6. f \in [1 .. k -> newer]
    BY <1>4
  <1>7. \A y \in newer : \E i \in 1 .. k : f[i] = y
    BY <1>5
  <1>8. ASSUME NEW i \in 1 .. k, NEW j \in 1 .. k, f[i] = f[j] PROVE i = j
    <2>1. list[i] = list[j] /\ i \in 1 .. n /\ j \in 1 .. n
      BY <1>3, <1>8
    <2>2. ~(i < j) /\ ~(j < i)
      BY <2>1, <1>1, <1>2
    <2> QED BY <2>2, <1>3
  <1> HIDE DEF f
  <1>9. f \in Bijection(1 .. k, newer)
    <2>1. DOMAIN f = 1 .. k
      BY <1>6
    <2> QED BY <2>1, <1>6, <1>7, <1>8 DEF Bijection, Injection, Surjection, IsInjective
  <1>10. Cardinality(1 .. k) = k /\ IsFiniteSet(1 .. k)
    BY <1>3, FS_Interval
  <1>11. Cardinality(newer) = k
    BY <1>9, <1>10, FS_Bijection DEF ExistsBijection
  <1> QED BY <1>11 DEF newer, list

LEMMA Offsets ==
  ASSUME NEW p \in Nat \ {0}
  PROVE  offset(p) \in Nat /\ offset(p + 1) = offset(p) + PerPage /\ PerPage \in Nat \ {0}
         /\ offset(1) = 0
  <1>1. PerPage \in Nat \ {0}
    BY PageConstantsOK
  <1>2. p - 1 \in Nat /\ (p + 1) - 1 = (p - 1) + 1
    OBVIOUS
  <1>3. \A a, b \in Nat : a * b \in Nat /\ (a + 1) * b = a * b + b /\ (1 - 1) * b = 0
    OBVIOUS
  <1>4. offset(p) = (p - 1) * PerPage /\ offset(p + 1) = ((p + 1) - 1) * PerPage
        /\ offset(1) = (1 - 1) * PerPage
    BY DEF offset
  <1> QED BY <1>1, <1>2, <1>3, <1>4

\* What a page of the log has.
LEMMA PageOfLogIs ==
  ASSUME NEW ids, ids \subseteq Nat, IsFiniteSet(ids), NEW p \in Nat \ {0}
  PROVE  /\ PageOfLog(ids, p) \in Seq(ids)
         /\ \A x \in ids : LET rank == Cardinality({y \in ids : y >= x})
                           IN  rank > offset(p) =>
               \/ x \in ToSet(PageOfLog(ids, p))
               \/ Len(PageOfLog(ids, p)) = PerPage /\ rank > offset(p + 1)
  <1> DEFINE list == Newest(ids)
             n == Cardinality(ids)
             o == offset(p)
             e == Min({o + PerPage, n})
             part == PageOfLog(ids, p)
  <1>1. n \in Nat /\ list \in Seq(ids) /\ Len(list) = n /\ ToSet(list) = ids
    BY NewestIs, FS_CardinalityType
  <1>2. DOMAIN list = 1 .. n /\ \A i \in 1 .. n : list[i] \in ids
    BY <1>1, LenProperties, ElementOfSeq
  <1>3. o \in Nat /\ offset(p + 1) = o + PerPage /\ PerPage \in Nat \ {0}
    BY Offsets
  <1>4. part = SubSeq(list, o + 1, e)
    BY DEF PageOfLog
  <1> HIDE DEF list, n, o
  <1>5. e = IF o + PerPage <= n THEN o + PerPage ELSE n
    <2>1. \E x \in {o + PerPage, n} : \A y \in {o + PerPage, n} : x =< y
      BY <1>1, <1>3
    <2>2. e \in {o + PerPage, n} /\ \A y \in {o + PerPage, n} : e =< y
      BY <2>1 DEF Min
    <2> QED BY <2>2, <1>1, <1>3
  <1> HIDE DEF e, part
  <1>6. e \in Int /\ o + 1 \in Int /\ \A i \in o + 1 .. e : i \in 1 .. n
    BY <1>1, <1>3, <1>5
  <1>7. /\ part \in Seq(ids) /\ Len(part) = IF o + 1 <= e THEN e - (o + 1) + 1 ELSE 0
        /\ \A i \in 1 .. e - (o + 1) + 1 : part[i] = list[o + 1 + i - 1]
    BY <1>2, <1>4, <1>6, SubSeqProperties
  <1>8. DOMAIN part = 1 .. Len(part)
    BY <1>7, LenProperties
  <1>9. ASSUME NEW x \in ids, NEW rank, rank = Cardinality({y \in ids : y >= x}), rank > o
        PROVE  x \in ToSet(part) \/ (Len(part) = PerPage /\ rank > offset(p + 1))
    <2>1. PICK k \in 1 .. n : list[k] = x
      BY <1>1, <1>2 DEF ToSet
    <2>2. rank = k
      BY <2>1, <1>9, RankIsPlace DEF n, list
    <2>3. CASE k <= o + PerPage
      <3>1. o + 1 <= e /\ k <= e
        BY <1>1, <1>3, <1>5, <1>9, <2>2, <2>3
      <3>2. k - o \in 1 .. Len(part) /\ k - o \in 1 .. e - (o + 1) + 1 /\ o + 1 + (k - o) - 1 = k
        BY <1>3, <1>6, <1>7, <1>9, <2>2, <3>1
      <3>3. part[k - o] = x
        BY <1>7, <2>1, <3>2
      <3> QED BY <1>8, <3>2, <3>3 DEF ToSet
    <2>4. CASE ~(k <= o + PerPage)
      <3>1. e = o + PerPage /\ o + 1 <= e
        BY <1>1, <1>3, <1>5, <2>4
      <3> QED BY <1>1, <1>3, <1>7, <2>2, <2>4, <3>1
    <2> QED BY <2>3, <2>4
  <1> QED BY <1>7, <1>9 DEF part, o

-----------------------------------------------------------------------------
(* Requests.                                                               *)

Basics == PageTypeOK /\ Numbered /\ OfThePage

\* q is r but for what an answer or an arrival changes.
SameAsk(q, r) == /\ q.n = r.n /\ q.mount = r.mount /\ q.kind = r.kind /\ q.op = r.op
                 /\ q.key = r.key /\ q.arg = r.arg

Asked(q, op, key, arg) ==
    /\ q \in Requests
    /\ q.n = sent + 1 /\ q.mount = page.mount /\ q.kind = page.kind /\ q.op = op
    /\ q.key = key /\ q.arg = arg /\ q.ans = AtFirst(q.kind, op) /\ q.list = <<>> /\ q.at = 0
    /\ q.late = FALSE

LEMMA RequestIs ==
  ASSUME PageTypeOK, page.kind \in Kinds, NEW op \in Ops, NEW key \in Keys, NEW arg \in Nat
  PROVE  Asked(Request(op, key, arg), op, key, arg)
  <1>1. <<>> \in Seq(Nat) /\ page.mount \in Nat /\ sent + 1 \in Nat
    BY DEF PageTypeOK, PageRecs
  <1> QED BY <1>1 DEF Request, RequestOf, AtFirst, Requests, Asked

Replied(q, r, ans, list, at) ==
    /\ q \in Requests /\ SameAsk(q, r)
    /\ q.ans = ans /\ q.list = list /\ q.at = at /\ q.late = r.late

LEMMA AnsweredIs ==
  ASSUME NEW r \in Requests, NEW ans \in {"list", "row", "empty", "error"},
         NEW list \in Seq(Nat), NEW at \in Nat
  PROVE  Replied([r EXCEPT !.ans = ans, !.list = list, !.at = at], r, ans, list, at)
  BY DEF Requests, SameAsk, Replied

LEMMA LateIs ==
  ASSUME NEW r \in Requests, NEW late \in BOOLEAN
  PROVE  LET q == [r EXCEPT !.late = r.late \/ late]
         IN  /\ q \in Requests /\ SameAsk(q, r)
             /\ q.ans = r.ans /\ q.list = r.list /\ q.at = r.at
             /\ q.late = (r.late \/ late)
  BY DEF Requests, SameAsk

LEMMA SeqOfLarger ==
  ASSUME NEW S, NEW T, S \subseteq T, NEW s \in Seq(S)
  PROVE  s \in Seq(T)
  <1>1. Len(s) \in Nat /\ s \in [1 .. Len(s) -> S]
    BY LenProperties
  <1>2. s \in [1 .. Len(s) -> T]
    BY <1>1
  <1> QED BY <1>1, <1>2, SeqDef

\* The number an answer gets is above all.
LEMMA NextAt ==
  ASSUME PageTypeOK, NEW r \in req
  PROVE  LET at == 1 + Max({q.at : q \in req})
         IN  at \in Nat \ {0} /\ \A q \in req : q.at < at
  <1> DEFINE ats == {q.at : q \in req}
             f == [q \in req |-> q.at]
  <1>1. ats \subseteq Nat /\ ats # {}
    BY DEF PageTypeOK, Requests
  <1>2. f \in Surjection(req, ats)
    BY DEF Surjection
  <1>3. IsFiniteSet(ats)
    BY <1>2, FS_Surjection DEF PageTypeOK
  <1> HIDE DEF ats
  <1>4. Max(ats) \in ats /\ \A y \in ats : Max(ats) >= y
    BY <1>1, <1>3, MaxIs
  <1>5. \A q \in req : q.at \in ats
    BY DEF ats
  <1>6. Max(ats) \in Nat
    BY <1>1, <1>4
  <1>7. \A q \in req : q.at \in Nat /\ q.at <= Max(ats)
    BY <1>1, <1>4, <1>5, <1>6
  <1>8. 1 + Max(ats) \in Nat \ {0} /\ \A q \in req : q.at < 1 + Max(ats)
    BY <1>6, <1>7
  <1> QED BY <1>8 DEF ats

\* The table and the lists of it are of numbers up to top.
LEMMA TableIs ==
  ASSUME PageTypeOK, NEW k \in Keys
  PROVE  /\ rows[k] \subseteq 1 .. top /\ rows[k] \subseteq Nat /\ IsFiniteSet(rows[k])
         /\ Newest(rows[k]) \in Seq(Nat) /\ ToSet(Newest(rows[k])) = rows[k]
  <1>1. rows[k] \in SUBSET (1 .. top) /\ top \in Nat
    BY DEF PageTypeOK
  <1>2. IsFiniteSet(rows[k]) /\ rows[k] \subseteq Nat
    <2>1. IsFiniteSet(1 .. top) /\ 1 .. top \subseteq Nat
      BY <1>1, FS_Interval
    <2> QED BY <1>1, <2>1, FS_Subset
  <1>3. Newest(rows[k]) \in Seq(rows[k]) /\ ToSet(Newest(rows[k])) = rows[k]
    BY <1>2, NewestIs
  <1>4. Newest(rows[k]) \in Seq(Nat)
    BY <1>2, <1>3, SeqOfLarger
  <1> QED BY <1>1, <1>2, <1>3, <1>4

\* What a load is answered is of the table.
LEMMA ListIs ==
  ASSUME Basics, NEW r \in req, r.op = "load"
  PROVE  List(r) \in Seq(Nat) /\ ToSet(List(r)) \subseteq 1 .. top
  <1>1. r.key \in Keys /\ r.arg \in Nat \ {0}
    BY DEF Basics, PageTypeOK, Numbered, Requests
  <1>2. rows[r.key] \subseteq 1 .. top /\ rows[r.key] \subseteq Nat /\ IsFiniteSet(rows[r.key])
        /\ Newest(rows[r.key]) \in Seq(Nat) /\ ToSet(Newest(rows[r.key])) = rows[r.key]
    BY <1>1, TableIs DEF Basics
  <1>3. PageOfLog(rows[r.key], r.arg) \in Seq(rows[r.key])
    BY <1>1, <1>2, PageOfLogIs
  <1>4. ToSet(PageOfLog(rows[r.key], r.arg)) \subseteq rows[r.key]
    BY <1>3, LenProperties, ElementOfSeq DEF ToSet
  <1>5. PageOfLog(rows[r.key], r.arg) \in Seq(Nat)
    BY <1>2, <1>3, SeqOfLarger
  <1> QED BY <1>2, <1>4, <1>5 DEF List

-----------------------------------------------------------------------------
(* Types, and what requests are numbered and asked by.                     *)

\* q is r, overtaken perhaps.
Still(q, r) == SameAsk(q, r) /\ q.ans = r.ans /\ q.list = r.list /\ q.at = r.at

Fits(q, rowsNow, sentNow) ==
    /\ q.n \in 1 .. sentNow /\ q.mount \in 1 .. page.mount
    /\ q.op = "delete" => q.arg \in 1 .. rowsNow
    /\ q.op = "load" => q.arg # 0
    /\ ToSet(q.list) \subseteq 1 .. rowsNow
    /\ q.at = 0 <=> q.ans \in {"spawned", "none"}
    /\ q.ans = "spawned" => q.kind = "files" /\ q.op = "load"
    /\ q.mount = page.mount => AsAsked(q)

LEMMA MoveBasics ==
  ASSUME Basics,
         page' \in PageRecs, page'.mount = page.mount, page'.kind = page.kind,
         page.kind \in {"tab", "activity"} => page'.key = page.key,
         top' \in top .. MaxRows, ToSet(page'.shown) \subseteq 1 .. top',
         rows' \in [Keys -> SUBSET (1 .. top')],
         sent' \in Nat, sent <= sent', disturbed' \in BOOLEAN, erased' \in BOOLEAN,
         req' \subseteq Requests, IsFiniteSet(req'),
         \A q \in req' : Fits(q, top', sent') \/ \E r \in req : Still(q, r),
         \A q, r \in req' : q.at = r.at /\ q.at # 0 => q = r
  PROVE  Basics'
  <1>1. top \in Nat /\ top' \in Nat /\ top <= top' /\ top' \in 0 .. MaxRows /\ sent \in Nat
    BY PageConstantsOK DEF Basics, PageTypeOK
  <1>2. PageTypeOK'
    BY <1>1 DEF PageTypeOK
  <1>3. \A r \in req : r.mount = page.mount => AsAsked(r)
    BY DEF Basics, OfThePage, Own
  <1>4. ASSUME NEW q \in req', NEW r \in req, Still(q, r) PROVE Fits(q, top', sent')
    <2>1. /\ r.n \in 1 .. sent /\ r.mount \in 1 .. page.mount
          /\ r.op = "delete" => r.arg \in 1 .. top
          /\ r.op = "load" => r.arg # 0
          /\ ToSet(r.list) \subseteq 1 .. top
          /\ r.at = 0 <=> r.ans \in {"spawned", "none"}
          /\ r.ans = "spawned" => r.kind = "files" /\ r.op = "load"
      BY DEF Basics, Numbered
    <2>2. r.mount = page.mount => AsAsked(q)
      BY <1>3, <1>4 DEF AsAsked, Still, SameAsk
    <2>3. r.n \in 1 .. sent' /\ (\A x \in 1 .. top : x \in 1 .. top')
      BY <1>1, <2>1
    <2> QED BY <1>4, <2>1, <2>2, <2>3 DEF Still, SameAsk, Fits
  <1>5. \A q \in req' : Fits(q, top', sent')
    BY <1>4
  <1>6. Numbered'
    BY <1>5 DEF Numbered, Fits
  <1>7. ASSUME NEW q \in req', q.mount = page.mount PROVE AsAsked(q)'
    BY <1>5, <1>7 DEF Fits, AsAsked
  <1>8. OfThePage'
    BY <1>7 DEF OfThePage, Own, Basics
  <1> QED BY <1>2, <1>6, <1>8 DEF Basics

LEMMA StillSelf == \A r \in req : Still(r, r)
  BY DEF Still, SameAsk

\* A request is sent.
LEMMA AskBasics ==
  ASSUME Basics, NEW q \in Requests,
         q.n = sent + 1, q.mount = page.mount, q.ans = AtFirst(q.kind, q.op), q.at = 0,
         q.list = <<>>,
         q.op = "load" => q.arg # 0, q.op = "delete" => q.arg \in 1 .. top, AsAsked(q),
         page.kind # "none",
         page' \in PageRecs, page'.mount = page.mount, page'.kind = page.kind,
         page.kind \in {"tab", "activity"} => page'.key = page.key,
         page'.shown = page.shown,
         req' = req \cup {q}, sent' = sent + 1, disturbed' \in BOOLEAN,
         UNCHANGED <<rows, top, erased>>
  PROVE  Basics'
  <1>1. /\ sent \in Nat /\ top \in 0 .. MaxRows /\ top \in Nat /\ page.mount \in Nat
        /\ rows \in [Keys -> SUBSET (1 .. top)] /\ ToSet(page.shown) \subseteq 1 .. top
        /\ req \subseteq Requests /\ IsFiniteSet(req) /\ erased \in BOOLEAN
    BY DEF Basics, PageTypeOK, PageRecs
  <1>2. req' \subseteq Requests /\ IsFiniteSet(req')
    BY <1>1, FS_AddElement
  <1>3. page.mount # 0
    BY DEF Basics, OfThePage
  <1>4. Fits(q, top', sent')
    BY <1>1, <1>3 DEF Fits, ToSet, AtFirst
  <1>5. \A p \in req' : p = q \/ \E r \in req : Still(p, r)
    BY StillSelf
  <1>6. \A p, r \in req' : p.at = r.at /\ p.at # 0 => p = r
    BY DEF Basics, Numbered
  <1>7. top' \in top .. MaxRows
    BY <1>1, PageConstantsOK
  <1> QED BY <1>1, <1>2, <1>4, <1>5, <1>6, <1>7, MoveBasics

LEMMA CreateBasics == Basics /\ Create => Basics'
  <1> SUFFICES ASSUME Basics, Create PROVE Basics'
    OBVIOUS
  <1>1. page.kind \in {"tab", "files", "tasks"} /\ page.kind # "none"
    BY DEF Create
  <1>2. page.kind \in Kinds /\ page.key \in Keys /\ page \in PageRecs /\ PageTypeOK
    BY <1>1 DEF Basics, PageTypeOK, PageRecs
  <1>3. PICK q : q = Request("create", page.key, 0) /\ Asked(q, "create", page.key, 0)
    BY <1>2, RequestIs DEF Ops
  <1>4. AsAsked(q)
    <2>1. page.kind \in {"tab", "activity"} => page.key = Root
      BY DEF Basics, OfThePage
    <2> QED BY <1>1, <1>3, <2>1 DEF AsAsked, Asked, AtFirst
  <1>5. /\ req' = req \cup {q} /\ sent' = sent + 1
        /\ UNCHANGED <<rows, top, page, disturbed, erased>>
    BY <1>3 DEF Create, Ask
  <1>6. disturbed' \in BOOLEAN
    BY <1>2, <1>5 DEF PageTypeOK
  <1> QED BY <1>1, <1>2, <1>3, <1>4, <1>5, <1>6, AskBasics DEF Asked

LEMMA DeleteBasics ==
  ASSUME Basics, NEW id, Delete(id)
  PROVE  Basics'
  <1>1. page.kind \in {"tab", "files"} /\ page.kind # "none" /\ id \in ToSet(page.shown)
    BY DEF Delete
  <1>2. page.kind \in Kinds /\ page.key \in Keys /\ page \in PageRecs /\ PageTypeOK
        /\ id \in 1 .. top /\ id \in Nat
    BY <1>1 DEF Basics, PageTypeOK, PageRecs
  <1>3. PICK q : q = Request("delete", page.key, id) /\ Asked(q, "delete", page.key, id)
    BY <1>2, RequestIs DEF Ops
  <1>4. AsAsked(q)
    <2>1. page.kind \in {"tab", "activity"} => page.key = Root
      BY DEF Basics, OfThePage
    <2> QED BY <1>1, <1>3, <2>1 DEF AsAsked, Asked, AtFirst
  <1>5. /\ req' = req \cup {q} /\ sent' = sent + 1
        /\ UNCHANGED <<rows, top, page, disturbed, erased>>
    BY <1>3 DEF Delete, Ask
  <1>6. disturbed' \in BOOLEAN
    BY <1>2, <1>5 DEF PageTypeOK
  <1> QED BY <1>1, <1>2, <1>3, <1>4, <1>5, <1>6, AskBasics DEF Asked

\* What GoTo does to the page.
LEMMA GoToIs ==
  ASSUME Basics, NEW key \in Keys, GoTo(key)
  PROVE  /\ page.kind \in {"files", "tasks"} /\ page.kind \in Kinds
         /\ page' \in PageRecs /\ page'.mount = page.mount /\ page'.kind = page.kind
         /\ page'.shown = page.shown /\ page'.from = page.from
         /\ page'.key = IF page.kind = "tasks" THEN key ELSE page.key
         /\ sent' = sent + 1 /\ UNCHANGED <<rows, top, erased>>
         /\ disturbed' = (disturbed \/ Adding)
         /\ \E q : Asked(q, "load", key, 1) /\ req' = req \cup {q}
  <1>1. page.kind \in {"files", "tasks"} /\ page.kind \in Kinds /\ PageTypeOK /\ page \in PageRecs
    BY DEF GoTo, Basics, PageTypeOK, PageRecs
  <1>2. PICK old \in PageRecs : old = page
    BY <1>1
  <1>3. [old EXCEPT !.key = key] \in PageRecs
    BY DEF PageRecs
  <1>4. PICK new \in PageRecs :
            /\ new = [old EXCEPT !.key = key]
            /\ new.mount = old.mount /\ new.kind = old.kind /\ new.shown = old.shown
            /\ new.from = old.from /\ new.key = key
    BY <1>3 DEF PageRecs
  <1>5. page' = IF page.kind = "tasks" THEN new ELSE page
    BY <1>2, <1>4 DEF GoTo
  <1>6. /\ page' \in PageRecs /\ page'.mount = page.mount /\ page'.kind = page.kind
        /\ page'.shown = page.shown /\ page'.from = page.from
        /\ page'.key = IF page.kind = "tasks" THEN key ELSE page.key
    BY <1>1, <1>2, <1>4, <1>5
  <1>7. /\ req' = req \cup {Request("load", key, 1)} /\ sent' = sent + 1
        /\ UNCHANGED <<rows, top, erased>> /\ disturbed' = (disturbed \/ Adding)
    BY DEF GoTo, Ask
  <1>8. Asked(Request("load", key, 1), "load", key, 1)
    BY <1>1, RequestIs DEF Ops
  <1> QED BY <1>1, <1>6, <1>7, <1>8, Zenon

LEMMA GoToBasics ==
  ASSUME Basics, NEW key \in Keys, GoTo(key)
  PROVE  Basics'
  <1>1. PICK q : Asked(q, "load", key, 1) /\ req' = req \cup {q}
    BY GoToIs, Zenon
  <1>5. /\ page.kind \in {"files", "tasks"} /\ page.kind \in Kinds
        /\ page' \in PageRecs /\ page'.mount = page.mount /\ page'.kind = page.kind
        /\ page'.shown = page.shown /\ sent' = sent + 1 /\ UNCHANGED <<rows, top, erased>>
        /\ disturbed' = (disturbed \/ Adding)
    BY GoToIs, Zenon
  <1>2. AsAsked(q)
    BY <1>1, <1>5 DEF AsAsked, Asked, AtFirst
  <1>3. disturbed' \in BOOLEAN
    <2>1. (disturbed \/ Adding) \in BOOLEAN
      OBVIOUS
    <2> QED BY <1>5, <2>1, Zenon
  <1>4. page.kind # "none" /\ page.kind \notin {"tab", "activity"}
    BY <1>5
  <1> QED BY <1>1, <1>2, <1>3, <1>4, <1>5, AskBasics DEF Asked

\* What a page is when it opens.
LEMMA OpenIs ==
  ASSUME Basics, NEW kind \in Kinds, Open(kind)
  PROVE  /\ page' \in PageRecs /\ page'.mount = page.mount + 1 /\ page'.kind = kind
         /\ page'.key = Root /\ page'.from = Root /\ page'.shown = <<>> /\ page'.walked = FALSE
         /\ page'.start = rows[Root]
         /\ sent' = sent + 1 /\ disturbed' = FALSE /\ erased' = FALSE /\ UNCHANGED <<rows, top>>
         /\ \E q \in Requests :
               /\ q.n = sent + 1 /\ q.mount = page.mount + 1 /\ q.kind = kind /\ q.op = "load"
               /\ q.key = Root /\ q.arg = 1 /\ q.ans = AtFirst(kind, "load")
               /\ q.list = <<>> /\ q.at = 0 /\ q.late = FALSE
               /\ req' = req \cup {q}
  <1>1. /\ Root \in Keys /\ <<>> \in Seq(Nat) /\ page.mount + 1 \in Nat /\ sent + 1 \in Nat
        /\ rows[Root] \in SUBSET Nat
    BY PageConstantsOK, TableIs DEF Basics, PageTypeOK, PageRecs
  <1> DEFINE new == [NoPage EXCEPT !.mount = page.mount + 1, !.kind = kind, !.start = rows[Root]]
             q == RequestOf(page.mount + 1, kind, "load", Root, 1)
  <1>2. /\ new \in PageRecs /\ new.mount = page.mount + 1 /\ new.kind = kind
        /\ new.key = Root /\ new.from = Root /\ new.shown = <<>> /\ new.walked = FALSE
        /\ new.start = rows[Root]
    BY <1>1 DEF NoPage, PageRecs
  <1>3. /\ q \in Requests
        /\ q.n = sent + 1 /\ q.mount = page.mount + 1 /\ q.kind = kind /\ q.op = "load"
        /\ q.key = Root /\ q.arg = 1 /\ q.ans = AtFirst(kind, "load") /\ q.list = <<>>
        /\ q.at = 0 /\ q.late = FALSE
    BY <1>1 DEF RequestOf, AtFirst, Requests, Ops
  <1>4. /\ page' = new /\ req' = req \cup {q}
        /\ sent' = sent + 1 /\ disturbed' = FALSE /\ erased' = FALSE /\ UNCHANGED <<rows, top>>
    BY DEF Open
  <1> HIDE DEF new, q
  <1> QED BY <1>2, <1>3, <1>4

LEMMA OpenBasics ==
  ASSUME Basics, NEW kind \in Kinds, Open(kind)
  PROVE  Basics'
  <1>1. /\ page' \in PageRecs /\ page'.mount = page.mount + 1 /\ page'.kind = kind
        /\ page'.key = Root /\ page'.shown = <<>>
        /\ sent' = sent + 1 /\ disturbed' = FALSE /\ erased' = FALSE /\ UNCHANGED <<rows, top>>
    BY OpenIs, Zenon
  <1>2. PICK q \in Requests :
            /\ q.n = sent + 1 /\ q.mount = page.mount + 1 /\ q.kind = kind /\ q.op = "load"
            /\ q.key = Root /\ q.arg = 1 /\ q.ans = AtFirst(kind, "load")
            /\ q.list = <<>> /\ q.at = 0
            /\ req' = req \cup {q}
    BY OpenIs, Zenon
  <1>3. /\ sent \in Nat /\ top \in Nat /\ page.mount \in Nat
        /\ req \subseteq Requests /\ IsFiniteSet(req)
    BY DEF Basics, PageTypeOK, PageRecs
  <1>4. PageTypeOK'
    <2>1. req' \subseteq Requests /\ IsFiniteSet(req')
      BY <1>2, <1>3, FS_AddElement
    <2>2. ToSet(page'.shown) = {}
      BY <1>1 DEF ToSet
    <2>3. top' \in 0 .. MaxRows /\ rows' \in [Keys -> SUBSET (1 .. top')] /\ sent' \in Nat
      BY <1>1, <1>3 DEF Basics, PageTypeOK
    <2> QED BY <1>1, <2>1, <2>2, <2>3 DEF PageTypeOK
  <1>5. \A r \in req : /\ r.n \in 1 .. sent /\ r.mount \in 1 .. page.mount
                       /\ r.op = "delete" => r.arg \in 1 .. top
                       /\ r.op = "load" => r.arg # 0
                       /\ ToSet(r.list) \subseteq 1 .. top
                       /\ r.at = 0 <=> r.ans \in {"spawned", "none"}
                       /\ r.ans = "spawned" => r.kind = "files" /\ r.op = "load"
    BY DEF Basics, Numbered
  <1>6. Numbered'
    <2>1. \A r \in req : r.n \in 1 .. sent' /\ r.mount \in 1 .. page'.mount
      BY <1>1, <1>3, <1>5
    <2>2. q.n \in 1 .. sent' /\ q.mount \in 1 .. page'.mount /\ ToSet(q.list) = {}
      BY <1>1, <1>2, <1>3 DEF ToSet
    <2>3. \A r, p \in req' : r.at = p.at /\ r.at # 0 => r = p
      BY <1>2 DEF Basics, Numbered
    <2> QED BY <1>1, <1>2, <1>5, <2>1, <2>2, <2>3 DEF Numbered, AtFirst
  <1>7. Own' = {q}
    <2>1. \A r \in req : r.mount # page.mount + 1
      BY <1>3, <1>5
    <2> QED BY <1>1, <1>2, <2>1 DEF Own
  <1>8. OfThePage'
    <2>1. AsAsked(q)'
      BY <1>1, <1>2 DEF AsAsked, AtFirst
    <2>2. page'.mount # 0
      BY <1>1, <1>3
    <2> QED BY <1>1, <1>7, <2>1, <2>2 DEF OfThePage
  <1> QED BY <1>4, <1>6, <1>8 DEF Basics

\* The files tab begins to load.
LEMMA BeginIs ==
  ASSUME Basics, NEW r \in req, Begin(r)
  PROVE  /\ r.kind = "files" /\ r.op = "load" /\ r.ans = "spawned"
         /\ page' \in PageRecs /\ page'.mount = page.mount /\ page'.kind = page.kind
         /\ page'.key = page.key /\ page'.from = page.from /\ page'.shown = page.shown
         /\ r.mount # page.mount => page' = page
         /\ \E q \in Requests :
               /\ SameAsk(q, r) /\ q.ans = "none" /\ q.list = r.list /\ q.at = r.at
               /\ q.late = r.late /\ req' = (req \ {r}) \cup {q}
         /\ UNCHANGED <<rows, top, sent, disturbed, erased>>
  <1>1. r \in Requests /\ page \in PageRecs /\ r.ans = "spawned"
        /\ r.kind = "files" /\ r.op = "load"
    BY DEF Begin, Basics, PageTypeOK, Numbered
  <1> DEFINE q == [r EXCEPT !.ans = "none"]
             new == [page EXCEPT !.said = "nothing"]
  <1>2. /\ q \in Requests /\ SameAsk(q, r) /\ q.ans = "none" /\ q.list = r.list
        /\ q.at = r.at /\ q.late = r.late
    BY <1>1 DEF Requests, SameAsk
  <1>3. /\ new \in PageRecs /\ new.mount = page.mount /\ new.kind = page.kind
        /\ new.key = page.key /\ new.from = page.from /\ new.shown = page.shown
    BY <1>1 DEF PageRecs
  <1>4. /\ req' = (req \ {r}) \cup {q} /\ page' = IF r.mount = page.mount THEN new ELSE page
        /\ UNCHANGED <<rows, top, sent, disturbed, erased>>
    BY DEF Begin
  <1> HIDE DEF q, new
  <1> QED BY <1>1, <1>2, <1>3, <1>4

LEMMA BeginBasics ==
  ASSUME Basics, NEW r \in req, Begin(r)
  PROVE  Basics'
  <1>1. /\ page' \in PageRecs /\ page'.mount = page.mount /\ page'.kind = page.kind
        /\ page'.key = page.key /\ page'.shown = page.shown
        /\ r.kind = "files" /\ r.op = "load" /\ r.ans = "spawned"
        /\ UNCHANGED <<rows, top, sent, disturbed, erased>>
    BY BeginIs, Zenon
  <1>2. PICK q \in Requests :
            /\ SameAsk(q, r) /\ q.ans = "none" /\ q.list = r.list /\ q.at = r.at
            /\ req' = (req \ {r}) \cup {q}
    BY BeginIs, Zenon
  <1>3. /\ top \in 0 .. MaxRows /\ rows \in [Keys -> SUBSET (1 .. top)]
        /\ erased \in BOOLEAN /\ disturbed \in BOOLEAN /\ sent \in Nat
        /\ req \subseteq Requests /\ IsFiniteSet(req) /\ ToSet(page.shown) \subseteq 1 .. top
    BY DEF Basics, PageTypeOK
  <1>4. req' \subseteq Requests /\ IsFiniteSet(req')
    BY <1>2, <1>3, FS_AddElement, FS_RemoveElement
  <1>5. Fits(q, top', sent')
    <2>1. /\ r.n \in 1 .. sent /\ r.mount \in 1 .. page.mount /\ r.arg # 0
          /\ ToSet(r.list) \subseteq 1 .. top /\ r.at = 0
      BY <1>1 DEF Basics, Numbered
    <2>2. r.mount = page.mount => AsAsked(r)
      BY DEF Basics, OfThePage, Own
    <2> QED BY <1>1, <1>2, <2>1, <2>2 DEF Fits, AsAsked, SameAsk
  <1>6. \A p \in req' : Fits(p, top', sent') \/ \E o \in req : Still(p, o)
    BY <1>2, <1>5, StillSelf
  <1>7. \A p, o \in req' : p.at = o.at /\ p.at # 0 => p = o
    BY <1>2 DEF Basics, Numbered
  <1>8. top' \in top .. MaxRows /\ sent <= sent'
    BY <1>1, <1>3, PageConstantsOK
  <1> QED BY <1>1, <1>3, <1>4, <1>6, <1>7, <1>8, MoveBasics

-----------------------------------------------------------------------------
(* The panel answers.                                                      *)

\* r is answered, and is s now.
Swaps(r, s) ==
    /\ s \in Requests /\ SameAsk(s, r) /\ s.late = r.late
    /\ s.at # 0 /\ \A q \in req : q.at < s.at
    /\ req' = (req \ {r}) \cup {s}
    /\ disturbed' = (disturbed \/ (r.op # "load" /\ r.mount # page.mount))

LEMMA AnswerIs ==
  ASSUME Basics, NEW r \in req, NEW ans \in {"list", "row", "empty", "error"},
         NEW list \in Seq(Nat), Answer(r, ans, list)
  PROVE  \E s : Swaps(r, s) /\ s.ans = ans /\ s.list = list
  <1> DEFINE at == 1 + Max({q.at : q \in req})
             s == [r EXCEPT !.ans = ans, !.list = list, !.at = at]
  <1>1. at \in Nat \ {0} /\ \A q \in req : q.at < at
    BY NextAt DEF Basics
  <1>2. r \in Requests
    BY DEF Basics, PageTypeOK
  <1>3. req' = (req \ {r}) \cup {s}
    BY DEF Answer
  <1>4. disturbed' = (disturbed \/ (r.op # "load" /\ r.mount # page.mount))
    BY DEF Answer
  <1> HIDE DEF at
  <1>5. Replied(s, r, ans, list, at)
    BY <1>1, <1>2, AnsweredIs
  <1> HIDE DEF s
  <1>6. Swaps(r, s)
    BY <1>1, <1>3, <1>4, <1>5 DEF Replied, Swaps
  <1> QED BY <1>5, <1>6 DEF Replied

\* A request is answered, whatever the answer does to the table.
LEMMA AnswerBasics ==
  ASSUME Basics, NEW r \in req, NEW s, Swaps(r, s), s.ans \notin {"spawned", "none"},
         ToSet(s.list) \subseteq 1 .. top',
         s.ans \in {"error", IF r.op = "load" THEN "list"
                             ELSE IF r.op = "create" /\ r.kind # "files" THEN "row"
                             ELSE "empty"},
         top' \in top .. MaxRows, rows' \in [Keys -> SUBSET (1 .. top')],
         erased' \in BOOLEAN, UNCHANGED <<page, sent>>
  PROVE  Basics'
  <1>0. /\ s \in Requests /\ SameAsk(s, r) /\ s.at # 0 /\ \A q \in req : q.at < s.at
        /\ req' = (req \ {r}) \cup {s} /\ disturbed' \in BOOLEAN
    <2>1. (disturbed \/ (r.op # "load" /\ r.mount # page.mount)) \in BOOLEAN
      OBVIOUS
    <2> QED BY <2>1, Zenon DEF Swaps
  <1>1. /\ sent \in Nat /\ top \in Nat /\ page.mount \in Nat /\ page \in PageRecs
        /\ req \subseteq Requests /\ IsFiniteSet(req) /\ ToSet(page.shown) \subseteq 1 .. top
        /\ \A q \in req : q.at \in Nat
    BY DEF Basics, PageTypeOK, PageRecs, Requests
  <1>2. req' \subseteq Requests /\ IsFiniteSet(req')
    BY <1>0, <1>1, FS_AddElement, FS_RemoveElement
  <1>3. \A x \in 1 .. top : x \in 1 .. top'
    BY <1>1
  <1>4. Fits(s, top', sent')
    <2>1. /\ r.n \in 1 .. sent /\ r.mount \in 1 .. page.mount
          /\ r.op = "delete" => r.arg \in 1 .. top
          /\ r.op = "load" => r.arg # 0
      BY DEF Basics, Numbered
    <2>2. ASSUME r.mount = page.mount PROVE AsAsked(s)
      <3>1. AsAsked(r)
        BY <2>2 DEF Basics, OfThePage, Own
      <3> QED BY <1>0, <3>1 DEF AsAsked, SameAsk
    <2> QED BY <1>0, <1>3, <2>1, <2>2 DEF Fits, SameAsk
  <1>5. \A q \in req' : Fits(q, top', sent') \/ \E p \in req : Still(q, p)
    BY <1>0, <1>4, StillSelf
  <1>6. \A q, p \in req' : q.at = p.at /\ q.at # 0 => q = p
    <2>1. \A q \in req : q.at # s.at
      BY <1>0, <1>1
    <2>2. \A q, p \in req : q.at = p.at /\ q.at # 0 => q = p
      BY DEF Basics, Numbered
    <2> QED BY <1>0, <2>1, <2>2
  <1>7. ToSet(page'.shown) \subseteq 1 .. top' /\ sent' \in Nat /\ sent <= sent'
    BY <1>1, <1>3
  <1> QED BY <1>0, <1>1, <1>2, <1>5, <1>6, <1>7, MoveBasics

\* What Handle does, by what was asked.
Listed(r, s) == /\ r.op = "load" /\ s.ans = "list" /\ s.list = List(r)
                /\ UNCHANGED <<rows, top, erased>>
Inserted(r, s) == /\ r.op = "create" /\ top < MaxRows
                  /\ s.ans = (IF r.kind = "files" THEN "empty" ELSE "row")
                  /\ s.list = <<top + 1>>
                  /\ rows' = [rows EXCEPT ![r.key] = @ \cup {top + 1}]
                  /\ top' = top + 1 /\ UNCHANGED erased
Erased(r, s) == /\ r.op = "delete" /\ r.arg \in rows[r.key]
                /\ s.ans = "empty" /\ s.list = <<>>
                /\ rows' = [rows EXCEPT ![r.key] = @ \ {r.arg}]
                /\ erased' = TRUE /\ UNCHANGED top

LEMMA HandleIs ==
  ASSUME Basics, NEW r \in req, Handle(r)
  PROVE  /\ r.ans = "none" /\ UNCHANGED <<page, sent>>
         /\ \E s : Swaps(r, s) /\ (Listed(r, s) \/ Inserted(r, s) \/ Erased(r, s))
  <1>1. r.ans = "none" /\ UNCHANGED <<page, sent>>
    BY DEF Handle
  <1>2. CASE r.op = "load" /\ Answer(r, "list", List(r)) /\ UNCHANGED <<rows, top, erased>>
    <2>1. List(r) \in Seq(Nat)
      BY <1>2, ListIs
    <2>2. PICK s : Swaps(r, s) /\ s.ans = "list" /\ s.list = List(r)
      BY <1>2, <2>1, AnswerIs
    <2> QED BY <1>1, <1>2, <2>2 DEF Listed
  <1>3. CASE /\ r.op = "create" /\ top < MaxRows
             /\ rows' = [rows EXCEPT ![r.key] = @ \cup {top + 1}]
             /\ top' = top + 1
             /\ Answer(r, IF r.kind = "files" THEN "empty" ELSE "row", <<top + 1>>)
             /\ UNCHANGED erased
    <2> DEFINE ans == IF r.kind = "files" THEN "empty" ELSE "row"
    <2>1. <<top + 1>> \in Seq(Nat) /\ ans \in {"list", "row", "empty", "error"}
      BY DEF Basics, PageTypeOK
    <2>4. PICK list \in Seq(Nat) : list = <<top + 1>>
      BY <2>1
    <2>2. Answer(r, ans, list)
      BY <1>3, <2>4
    <2> HIDE DEF ans
    <2>3. PICK s : Swaps(r, s) /\ s.ans = ans /\ s.list = list
      BY <2>1, <2>2, AnswerIs
    <2> QED BY <1>1, <1>3, <2>3, <2>4 DEF Inserted, ans
  <1>4. CASE /\ r.op = "delete" /\ r.arg \in rows[r.key]
             /\ rows' = [rows EXCEPT ![r.key] = @ \ {r.arg}]
             /\ Answer(r, "empty", <<>>)
             /\ erased' = TRUE
             /\ UNCHANGED top
    <2>1. <<>> \in Seq(Nat) /\ "empty" \in {"list", "row", "empty", "error"}
      OBVIOUS
    <2>2. PICK list \in Seq(Nat) : list = <<>>
      BY <2>1
    <2>3. Answer(r, "empty", list)
      BY <1>4, <2>2
    <2>4. PICK s : Swaps(r, s) /\ s.ans = "empty" /\ s.list = list
      BY <2>1, <2>3, AnswerIs
    <2> QED BY <1>1, <1>4, <2>2, <2>4 DEF Erased
  <1> QED BY <1>2, <1>3, <1>4 DEF Handle

LEMMA HandleBasics ==
  ASSUME Basics, NEW r \in req, Handle(r)
  PROVE  Basics'
  <1>1. /\ top \in Nat /\ top \in 0 .. MaxRows /\ rows \in [Keys -> SUBSET (1 .. top)]
        /\ erased \in BOOLEAN /\ r.key \in Keys /\ MaxRows \in Nat
    BY PageConstantsOK DEF Basics, PageTypeOK, Requests
  <1>2. UNCHANGED <<page, sent>>
    BY HandleIs
  <1>3. PICK s : Swaps(r, s) /\ (Listed(r, s) \/ Inserted(r, s) \/ Erased(r, s))
    BY HandleIs, Zenon
  <1>4. s \in Requests
    BY <1>3 DEF Swaps
  <1>5. CASE Listed(r, s)
    <2>1. ToSet(s.list) \subseteq 1 .. top /\ UNCHANGED <<rows, top, erased>>
          /\ s.ans = "list" /\ r.op = "load"
      BY <1>5, ListIs DEF Listed
    <2>2. top' \in top .. MaxRows
      BY <1>1, <2>1
    <2> QED BY <1>1, <1>2, <1>3, <1>4, <2>1, <2>2, AnswerBasics
  <1>6. CASE Inserted(r, s)
    <2>1. top' \in top .. MaxRows /\ top' = top + 1 /\ erased' = erased
      BY <1>1, <1>6 DEF Inserted
    <2>2. rows' \in [Keys -> SUBSET (1 .. top')]
      <3>1. /\ \A x \in 1 .. top : x \in 1 .. top + 1
            /\ top + 1 \in 1 .. top + 1
        BY <1>1
      <3>2. rows' = [rows EXCEPT ![r.key] = @ \cup {top + 1}]
        BY <1>6 DEF Inserted
      <3> QED BY <1>1, <2>1, <3>1, <3>2
    <2>3. ToSet(s.list) \subseteq 1 .. top'
      BY <1>1, <1>6, <2>1 DEF ToSet, Inserted
    <2>4. s.ans = (IF r.kind = "files" THEN "empty" ELSE "row") /\ r.op = "create"
      BY <1>6 DEF Inserted
    <2> QED BY <1>1, <1>2, <1>3, <1>4, <2>1, <2>2, <2>3, <2>4, AnswerBasics
  <1>7. CASE Erased(r, s)
    <2>1. /\ rows' = [rows EXCEPT ![r.key] = @ \ {r.arg}] /\ erased' = TRUE /\ top' = top
          /\ s.ans = "empty" /\ r.op = "delete" /\ s.list = <<>>
      BY <1>7 DEF Erased
    <2>2. rows' \in [Keys -> SUBSET (1 .. top')] /\ top' \in top .. MaxRows
      BY <1>1, <2>1
    <2>3. ToSet(s.list) \subseteq 1 .. top'
      BY <2>1 DEF ToSet
    <2> QED BY <1>1, <1>2, <1>3, <1>4, <2>1, <2>2, <2>3, AnswerBasics
  <1> QED BY <1>3, <1>5, <1>6, <1>7

LEMMA RefuseIs ==
  ASSUME Basics, NEW r \in req, Refuse(r)
  PROVE  /\ r.ans = "none" /\ UNCHANGED <<rows, top, page, sent, erased>>
         /\ \E s : Swaps(r, s) /\ s.ans = "error" /\ s.list = <<>>
  <1>1. <<>> \in Seq(Nat) /\ "error" \in {"list", "row", "empty", "error"}
    OBVIOUS
  <1>2. PICK list \in Seq(Nat) : list = <<>>
    BY <1>1
  <1>3. Answer(r, "error", list)
    BY <1>2 DEF Refuse
  <1>4. \E s : Swaps(r, s) /\ s.ans = "error" /\ s.list = list
    BY <1>1, <1>3, AnswerIs
  <1> QED BY <1>2, <1>4 DEF Refuse

LEMMA RefuseBasics ==
  ASSUME Basics, NEW r \in req, Refuse(r)
  PROVE  Basics'
  <1>1. PICK s : Swaps(r, s) /\ s.ans = "error" /\ s.list = <<>>
    BY RefuseIs, Zenon
  <1>2. /\ top \in Nat /\ top \in 0 .. MaxRows /\ rows \in [Keys -> SUBSET (1 .. top)]
        /\ erased \in BOOLEAN /\ MaxRows \in Nat
    BY PageConstantsOK DEF Basics, PageTypeOK
  <1>3. UNCHANGED <<rows, top, page, sent, erased>>
    BY RefuseIs, Zenon
  <1>4. ToSet(s.list) \subseteq 1 .. top' /\ top' \in top .. MaxRows
    BY <1>1, <1>2, <1>3 DEF ToSet
  <1> QED BY <1>1, <1>2, <1>3, <1>4, AnswerBasics

LEMMA LoseBasics ==
  ASSUME Basics, NEW r \in req, req' = req \ {r},
         page' \in PageRecs, page'.mount = page.mount, page'.kind = page.kind,
         page'.key = page.key, page'.shown = page.shown,
         disturbed' \in BOOLEAN, UNCHANGED <<rows, top, sent, erased>>
  PROVE  Basics'
  <1>1. /\ top \in Nat /\ top \in 0 .. MaxRows /\ rows \in [Keys -> SUBSET (1 .. top)]
        /\ erased \in BOOLEAN /\ MaxRows \in Nat /\ sent \in Nat
        /\ req \subseteq Requests /\ IsFiniteSet(req) /\ ToSet(page.shown) \subseteq 1 .. top
    BY PageConstantsOK DEF Basics, PageTypeOK
  <1>2. req' \subseteq Requests /\ IsFiniteSet(req') /\ top' \in top .. MaxRows
        /\ sent' \in Nat /\ sent <= sent'
    BY <1>1, FS_RemoveElement
  <1>3. \A q \in req' : \E p \in req : Still(q, p)
    BY StillSelf
  <1>4. \A q, p \in req' : q.at = p.at /\ q.at # 0 => q = p
    BY DEF Basics, Numbered
  <1> QED BY <1>1, <1>2, <1>3, <1>4, MoveBasics

LEMMA OtherBasics == Basics /\ Other => Basics'
  <1> SUFFICES ASSUME Basics, Other PROVE Basics'
    OBVIOUS
  <1>1. /\ top \in Nat /\ top \in 0 .. MaxRows /\ rows \in [Keys -> SUBSET (1 .. top)]
        /\ erased \in BOOLEAN /\ MaxRows \in Nat /\ sent \in Nat /\ page \in PageRecs
        /\ req \subseteq Requests /\ IsFiniteSet(req) /\ ToSet(page.shown) \subseteq 1 .. top
    BY PageConstantsOK DEF Basics, PageTypeOK
  <1>2. disturbed' = TRUE /\ UNCHANGED <<page, req, sent>> /\ Within \subseteq Keys
    BY PageConstantsOK DEF Other, Within
  <1>3. top' \in top .. MaxRows /\ rows' \in [Keys -> SUBSET (1 .. top')] /\ erased' \in BOOLEAN
    <2>1. CASE \E k \in Within : /\ top < MaxRows
                                 /\ rows' = [rows EXCEPT ![k] = @ \cup {top + 1}]
                                 /\ top' = top + 1 /\ UNCHANGED erased
      <3>1. PICK k \in Within : /\ top < MaxRows
                                /\ rows' = [rows EXCEPT ![k] = @ \cup {top + 1}]
                                /\ top' = top + 1 /\ UNCHANGED erased
        BY <2>1
      <3>2. /\ \A x \in 1 .. top : x \in 1 .. top + 1
            /\ top + 1 \in 1 .. top + 1 /\ top + 1 \in top .. MaxRows
        BY <1>1, <3>1
      <3> QED BY <1>1, <1>2, <3>1, <3>2
    <2>2. CASE \E k \in Within : \E id \in rows[k] :
                  /\ rows' = [rows EXCEPT ![k] = @ \ {id}]
                  /\ erased' = TRUE /\ UNCHANGED top
      BY <1>1, <1>2, <2>2
    <2> QED BY <2>1, <2>2 DEF Other
  <1>4. ToSet(page'.shown) \subseteq 1 .. top'
    BY <1>1, <1>2, <1>3
  <1>5. \A q, p \in req' : q.at = p.at /\ q.at # 0 => q = p
    BY <1>2 DEF Basics, Numbered
  <1>6. \A q \in req' : \E p \in req : Still(q, p)
    BY <1>2, StillSelf
  <1> QED BY <1>1, <1>2, <1>3, <1>4, <1>5, <1>6, MoveBasics

-----------------------------------------------------------------------------
(* An answer arrives.                                                      *)

\* p is q, after the arrival of r.
Moved(p, q, r) == Still(p, q) /\ p.late = (q.late \/ Overtakes(r, q))

LEMMA OthersIs ==
  ASSUME Basics, NEW r \in req
  PROVE  /\ Others(r) \subseteq Requests /\ IsFiniteSet(Others(r))
         /\ \A q \in req \ {r} : \E p \in Others(r) : Moved(p, q, r)
         /\ \A p \in Others(r) : \E q \in req \ {r} : Moved(p, q, r)
         /\ \A p, o \in Others(r) : p.at = o.at /\ p.at # 0 => p = o
  <1> DEFINE f == [q \in req \ {r} |-> [q EXCEPT !.late = @ \/ Overtakes(r, q)]]
  <1>1. req \subseteq Requests /\ IsFiniteSet(req \ {r})
    BY FS_RemoveElement DEF Basics, PageTypeOK
  <1>2. ASSUME NEW q \in req \ {r}
        PROVE  f[q] \in Requests /\ Moved(f[q], q, r)
    <2>1. f[q] = [q EXCEPT !.late = q.late \/ Overtakes(r, q)]
      OBVIOUS
    <2>2. Overtakes(r, q) \in BOOLEAN /\ q \in Requests
      BY <1>1 DEF Overtakes
    <2> HIDE DEF f
    <2> QED BY <2>1, <2>2, LateIs DEF Moved, Still
  <1>3. Others(r) = {f[q] : q \in req \ {r}}
    BY DEF Others
  <1> HIDE DEF f
  <1>4. DOMAIN f = req \ {r}
    BY DEF f
  <1>5. f \in Surjection(req \ {r}, Others(r))
    <2>1. f = [q \in req \ {r} |-> f[q]]
      BY DEF f
    <2>2. f \in [req \ {r} -> Others(r)]
      BY <1>3, <2>1
    <2> QED BY <1>3, <2>2 DEF Surjection
  <1>6. IsFiniteSet(Others(r))
    BY <1>1, <1>5, FS_Surjection
  <1>7. ASSUME NEW p \in Others(r), NEW o \in Others(r), p.at = o.at, p.at # 0 PROVE p = o
    <2>1. PICK q \in req \ {r} : p = f[q]
      BY <1>3
    <2>2. PICK u \in req \ {r} : o = f[u]
      BY <1>3
    <2>3. p.at = q.at /\ o.at = u.at
      BY <1>2, <2>1, <2>2 DEF Moved, Still
    <2>4. q = u
      BY <1>7, <2>3 DEF Basics, Numbered
    <2> QED BY <2>1, <2>2, <2>4
  <1> QED BY <1>2, <1>3, <1>6, <1>7

SamePage(p, q) == /\ p.mount = q.mount /\ p.kind = q.kind /\ p.key = q.key /\ p.from = q.from
                  /\ p.shown = q.shown /\ p.walked = q.walked /\ p.start = q.start

LEMMA SaysIs ==
  ASSUME NEW p \in PageRecs, NEW what \in {"done", "error"}
  PROVE  Says(p, what) \in PageRecs /\ SamePage(Says(p, what), p)
  BY DEF Says, PageRecs, SamePage

\* What a page becomes with an answer it takes for a success.
Loads(p, r) ==
    IF r.kind = "activity"
    THEN /\ p.shown = page.shown \o r.list /\ p.walked = (Len(r.list) < PerPage)
         /\ p.key = page.key /\ p.from = page.from
    ELSE /\ p.shown = r.list /\ p.from = r.key
         /\ p.key = IF r.kind = "files" THEN r.key ELSE page.key

LEMMA TakenIs ==
  ASSUME Basics, NEW r \in req
  PROVE  /\ Taken(r) \in PageRecs /\ ToSet(Taken(r).shown) \subseteq 1 .. top
         /\ Taken(r).mount = page.mount /\ Taken(r).kind = page.kind
         /\ Taken(r).start = page.start
         /\ IF r.op = "load" THEN Loads(Taken(r), r) ELSE SamePage(Taken(r), page)
  <1>1. /\ page \in PageRecs /\ r \in Requests /\ ToSet(page.shown) \subseteq 1 .. top
        /\ ToSet(r.list) \subseteq 1 .. top
    BY DEF Basics, PageTypeOK, Numbered
  <1>2. PICK old \in PageRecs : old = page
    BY <1>1
  <1>3. old.shown \in Seq(Nat) /\ r.list \in Seq(Nat) /\ r.key \in Keys
    BY <1>1 DEF PageRecs, Requests
  <1>4. /\ old.shown \o r.list \in Seq(Nat)
        /\ ToSet(old.shown \o r.list) = ToSet(old.shown) \cup ToSet(r.list)
    BY <1>3, ConcatSet
  <1>5. CASE r.op = "load" /\ r.kind = "activity"
    <2> DEFINE new == [old EXCEPT !.shown = old.shown \o r.list, !.walked = Len(r.list) < PerPage]
    <2>1. Taken(r) = new
      BY <1>2, <1>5 DEF Taken, Loaded, Walk
    <2>2. (Len(r.list) < PerPage) \in BOOLEAN
      OBVIOUS
    <2>3. /\ new \in PageRecs /\ new.shown = old.shown \o r.list
          /\ new.walked = (Len(r.list) < PerPage)
          /\ new.mount = old.mount /\ new.kind = old.kind /\ new.start = old.start
          /\ new.key = old.key /\ new.from = old.from
      BY <1>4, <2>2 DEF PageRecs
    <2> HIDE DEF new
    <2> QED BY <1>1, <1>2, <1>4, <1>5, <2>1, <2>3 DEF Loads
  <1>6. CASE r.op = "load" /\ r.kind = "files"
    <2> DEFINE new == [old EXCEPT !.shown = r.list, !.from = r.key, !.key = r.key]
    <2>1. Taken(r) = new
      BY <1>2, <1>6 DEF Taken, Loaded
    <2>3. /\ new \in PageRecs /\ new.shown = r.list
          /\ new.mount = old.mount /\ new.kind = old.kind /\ new.start = old.start
          /\ new.key = r.key /\ new.from = r.key
      BY <1>3 DEF PageRecs
    <2> HIDE DEF new
    <2> QED BY <1>1, <1>2, <1>6, <2>1, <2>3 DEF Loads
  <1>7. CASE r.op = "load" /\ r.kind \notin {"activity", "files"}
    <2> DEFINE new == [old EXCEPT !.shown = r.list, !.from = r.key]
    <2>1. Taken(r) = new
      BY <1>2, <1>7 DEF Taken, Loaded
    <2>3. /\ new \in PageRecs /\ new.shown = r.list
          /\ new.mount = old.mount /\ new.kind = old.kind /\ new.start = old.start
          /\ new.key = old.key /\ new.from = r.key
      BY <1>3 DEF PageRecs
    <2> HIDE DEF new
    <2> QED BY <1>1, <1>2, <1>7, <2>1, <2>3 DEF Loads
  <1>8. CASE r.op # "load"
    <2>1. Taken(r) = Says(old, "done")
      BY <1>2, <1>8 DEF Taken
    <2>2. Says(old, "done") \in PageRecs /\ SamePage(Says(old, "done"), old)
      BY SaysIs
    <2> QED BY <1>1, <1>2, <1>8, <2>1, <2>2 DEF SamePage
  <1> QED BY <1>5, <1>6, <1>7, <1>8

\* What follows an answer that is taken for a success, if something does.
Follows(r) == \/ r.op # "load" /\ r.kind \in {"files", "tab", "tasks"}
              \/ r.op = "load" /\ r.kind = "activity" /\ Len(r.list) = PerPage
Sends(r, q) ==
    IF r.op = "load" THEN Asked(q, "load", r.key, r.arg + 1)
    ELSE IF r.kind = "files" THEN Asked(q, "load", page.key, 1)
    ELSE Asked(q, "load", r.key, 1)

LEMMA FollowIs ==
  ASSUME Basics, NEW r \in Own
  PROVE  IF Follows(r) THEN \E q : Sends(r, q) /\ Follow(r) = {q} ELSE Follow(r) = {}
  <1>1. r \in req /\ r.kind = page.kind
    BY DEF Own, Basics, OfThePage, AsAsked
  <1>2. /\ r.kind \in Kinds /\ r.key \in Keys /\ page.key \in Keys /\ r.arg + 1 \in Nat
        /\ "load" \in Ops /\ PageTypeOK
    BY <1>1 DEF Basics, PageTypeOK, Requests, PageRecs, Ops
  <1>3. /\ Asked(Request("load", r.key, 1), "load", r.key, 1)
        /\ Asked(Request("load", page.key, 1), "load", page.key, 1)
        /\ Asked(Request("load", r.key, r.arg + 1), "load", r.key, r.arg + 1)
    BY <1>1, <1>2, RequestIs
  <1>4. CASE r.op # "load" /\ r.kind = "files"
    <2>1. Follow(r) = {Request("load", page.key, 1)}
      BY <1>4 DEF Follow
    <2> QED BY <1>3, <1>4, <2>1 DEF Follows, Sends
  <1>5. CASE r.op # "load" /\ r.kind \in {"tab", "tasks"}
    <2>1. Follow(r) = {Request("load", r.key, 1)}
      BY <1>5 DEF Follow
    <2> QED BY <1>3, <1>5, <2>1 DEF Follows, Sends
  <1>6. CASE r.op = "load" /\ r.kind = "activity" /\ Len(r.list) = PerPage
    <2>1. Follow(r) = {Request("load", r.key, r.arg + 1)}
      BY <1>6 DEF Follow
    <2> QED BY <1>3, <1>6, <2>1 DEF Follows, Sends
  <1>7. CASE ~Follows(r)
    BY <1>7 DEF Follow, Follows
  <1> QED BY <1>4, <1>5, <1>6, <1>7 DEF Follows

\* The ways an answer is taken.
Took(r) == /\ r.mount = page.mount /\ Ok(r) /\ page' = Taken(r) /\ req' = Others(r)
           /\ ~Follows(r) /\ sent' = sent /\ disturbed' = (disturbed \/ r.late)
TookAnd(r, q) ==
           /\ r.mount = page.mount /\ Ok(r) /\ page' = Taken(r) /\ req' = Others(r) \cup {q}
           /\ Follows(r) /\ Sends(r, q)
           /\ sent' = sent + 1 /\ disturbed' = (disturbed \/ r.late)
Failed(r) == /\ r.mount = page.mount /\ ~Ok(r) /\ page' = Says(page, "error")
             /\ req' = Others(r) /\ sent' = sent /\ disturbed' = TRUE
Missed(r) == /\ r.mount # page.mount /\ req' = req \ {r}
             /\ UNCHANGED <<page, sent, disturbed>>

LEMMA ArriveIs ==
  ASSUME Basics, NEW r \in req, Arrive(r)
  PROVE  /\ r.ans \notin {"spawned", "none"} /\ UNCHANGED <<rows, top, erased>>
         /\ Took(r) \/ (\E q : TookAnd(r, q)) \/ Failed(r) \/ Missed(r)
  <1>1. r.ans \notin {"spawned", "none"} /\ UNCHANGED <<rows, top, erased>>
    BY DEF Arrive
  <1>2. CASE r.mount # page.mount
    BY <1>1, <1>2 DEF Arrive, Missed
  <1>3. CASE r.mount = page.mount /\ ~Ok(r)
    <2>1. (disturbed \/ r.late \/ ~Ok(r)) = TRUE
      BY <1>3
    <2>2. disturbed' = (disturbed \/ r.late \/ ~Ok(r))
      BY <1>3 DEF Arrive
    <2>3. page' = Says(page, "error") /\ req' = Others(r) /\ sent' = sent
      BY <1>3 DEF Arrive
    <2> QED BY <1>1, <1>3, <2>1, <2>2, <2>3 DEF Failed
  <1>4. CASE r.mount = page.mount /\ Ok(r)
    <2>1. r \in Own
      BY <1>4 DEF Own
    <2>2. (disturbed \/ r.late \/ ~Ok(r)) = (disturbed \/ r.late)
      BY <1>4
    <2>3. /\ page' = Taken(r) /\ req' = Others(r) \cup Follow(r)
          /\ sent' = sent + Cardinality(Follow(r))
          /\ disturbed' = (disturbed \/ r.late \/ ~Ok(r))
      BY <1>4 DEF Arrive
    <2>4. sent \in Nat
      BY DEF Basics, PageTypeOK
    <2>5. CASE Follows(r)
      <3>1. PICK q : Sends(r, q) /\ Follow(r) = {q}
        BY <2>1, <2>5, FollowIs
      <3>2. sent' = sent + 1
        BY <2>3, <3>1, FS_Singleton
      <3> QED BY <1>1, <1>4, <2>2, <2>3, <2>5, <3>1, <3>2 DEF TookAnd
    <2>6. CASE ~Follows(r)
      <3>1. Follow(r) = {}
        BY <2>1, <2>6, FollowIs
      <3>2. sent' = sent
        BY <2>3, <2>4, <3>1, FS_EmptySet
      <3>3. req' = Others(r)
        BY <2>3, <3>1
      <3> QED BY <1>1, <1>4, <2>2, <2>3, <2>6, <3>2, <3>3 DEF Took
    <2> QED BY <2>5, <2>6
  <1> QED BY <1>2, <1>3, <1>4

\* What a page is after an answer that is not for it, or not what it wants.
LEMMA SaidIs ==
  ASSUME Basics, page' = Says(page, "error") \/ page' = page
  PROVE  page' \in PageRecs /\ SamePage(page', page)
  <1>1. page \in PageRecs /\ SamePage(page, page) /\ "error" \in {"done", "error"}
    BY DEF Basics, PageTypeOK, SamePage
  <1> QED BY <1>1, SaysIs

LEMMA ArriveBasics ==
  ASSUME Basics, NEW r \in req, Arrive(r)
  PROVE  Basics'
  <1>1. /\ top \in Nat /\ top \in 0 .. MaxRows /\ rows \in [Keys -> SUBSET (1 .. top)]
        /\ erased \in BOOLEAN /\ disturbed \in BOOLEAN /\ MaxRows \in Nat /\ sent \in Nat
        /\ page \in PageRecs /\ page.mount \in Nat
        /\ req \subseteq Requests /\ IsFiniteSet(req) /\ ToSet(page.shown) \subseteq 1 .. top
    BY PageConstantsOK DEF Basics, PageTypeOK, PageRecs
  <1>2. UNCHANGED <<rows, top, erased>> /\ top' \in top .. MaxRows
    BY <1>1, ArriveIs
  <1>3. /\ Others(r) \subseteq Requests /\ IsFiniteSet(Others(r))
        /\ \A p \in Others(r) : \E q \in req \ {r} : Moved(p, q, r)
        /\ \A p, o \in Others(r) : p.at = o.at /\ p.at # 0 => p = o
    BY OthersIs
  <1>4. \A p \in Others(r) : \E q \in req : Still(p, q)
    BY <1>3 DEF Moved
  <1>5. r \in Requests /\ r.late \in BOOLEAN
    BY <1>1 DEF Requests
  <1>6. ASSUME r.mount = page.mount
        PROVE  /\ Taken(r) \in PageRecs /\ ToSet(Taken(r).shown) \subseteq 1 .. top
               /\ Taken(r).mount = page.mount /\ Taken(r).kind = page.kind
               /\ page.kind \in {"tab", "activity"} => Taken(r).key = page.key
    <2>1. AsAsked(r)
      BY <1>6 DEF Basics, OfThePage, Own
    <2>2. /\ Taken(r) \in PageRecs /\ ToSet(Taken(r).shown) \subseteq 1 .. top
          /\ Taken(r).mount = page.mount /\ Taken(r).kind = page.kind
          /\ IF r.op = "load" THEN Loads(Taken(r), r) ELSE SamePage(Taken(r), page)
      BY TakenIs
    <2>3. page.kind \in {"tab", "activity"} => Taken(r).key = page.key
      BY <2>1, <2>2 DEF Loads, SamePage, AsAsked
    <2> QED BY <2>2, <2>3
  <1>7. (disturbed \/ r.late) \in BOOLEAN
    OBVIOUS
  <1>8. CASE Took(r)
    <2>1. disturbed' \in BOOLEAN
      BY <1>7, <1>8, Zenon DEF Took
    <2>2. page' = Taken(r) /\ req' = Others(r) /\ sent' = sent /\ r.mount = page.mount
      BY <1>8 DEF Took
    <2>3. sent <= sent'
      BY <1>1, <2>2
    <2> QED BY <1>1, <1>2, <1>3, <1>4, <1>6, <2>1, <2>2, <2>3, MoveBasics
  <1>9. ASSUME NEW q, TookAnd(r, q) PROVE Basics'
    <2>1. disturbed' \in BOOLEAN
      BY <1>7, <1>9, Zenon DEF TookAnd
    <2>2. /\ page' = Taken(r) /\ req' = Others(r) \cup {q} /\ sent' = sent + 1
          /\ r.mount = page.mount /\ Sends(r, q) /\ Follows(r)
      BY <1>9 DEF TookAnd
    <2>3. sent' \in Nat /\ sent <= sent'
      BY <1>1, <2>2
    <2>4. AsAsked(r) /\ r \in Own /\ page.mount # 0 /\ r.arg \in Nat
      BY <1>5, <2>2 DEF Basics, OfThePage, Own, Numbered, Requests
    <2>5. \E key, arg : Asked(q, "load", key, arg) /\ arg # 0
                        /\ (page.kind \in {"tab", "activity"} => key = Root)
      <3>1. r.arg + 1 # 0
        BY <2>4
      <3>2. CASE r.op = "load"
        BY <2>2, <2>4, <3>1, <3>2 DEF Sends, AsAsked
      <3>3. CASE r.op # "load" /\ r.kind = "files"
        BY <2>2, <2>4, <3>3 DEF Sends, AsAsked
      <3>4. CASE r.op # "load" /\ r.kind # "files"
        BY <2>2, <2>4, <3>4 DEF Sends, AsAsked
      <3> QED BY <3>2, <3>3, <3>4
    <2>7. q \in Requests /\ q.at = 0 /\ q.mount = page.mount
      BY <2>5 DEF Asked
    <2>8. Fits(q, top', sent')
      <3>1. q.n \in 1 .. sent' /\ q.mount \in 1 .. page.mount
        BY <1>1, <2>2, <2>4, <2>5 DEF Asked
      <3>2. ToSet(q.list) \subseteq 1 .. top'
        BY <2>5 DEF Asked, ToSet
      <3>3. AsAsked(q)
        BY <2>5 DEF Asked, AsAsked, AtFirst
      <3>4. /\ q.op = "load" /\ q.arg # 0 /\ q.at = 0 /\ q.ans \in {"spawned", "none"}
            /\ q.ans = "spawned" => q.kind = "files"
        BY <2>5 DEF Asked, AtFirst
      <3> QED BY <3>1, <3>2, <3>3, <3>4 DEF Fits
    <2>9. req' \subseteq Requests /\ IsFiniteSet(req')
      BY <1>3, <2>2, <2>7, FS_AddElement
    <2>10. \A p \in req' : Fits(p, top', sent') \/ \E o \in req : Still(p, o)
      BY <1>4, <2>2, <2>8
    <2>11. \A p, o \in req' : p.at = o.at /\ p.at # 0 => p = o
      BY <1>3, <2>2, <2>7
    <2> QED BY <1>1, <1>2, <1>6, <2>1, <2>2, <2>3, <2>9, <2>10, <2>11, MoveBasics
  <1>10. CASE Failed(r)
    <2>1. /\ page' = Says(page, "error") /\ req' = Others(r) /\ sent' = sent
          /\ disturbed' \in BOOLEAN
      BY <1>10 DEF Failed
    <2>2. page' \in PageRecs /\ SamePage(page', page)
      BY <2>1, SaidIs
    <2>3. sent <= sent'
      BY <1>1, <2>1
    <2> QED BY <1>1, <1>2, <1>3, <1>4, <2>1, <2>2, <2>3, MoveBasics DEF SamePage
  <1>11. CASE Missed(r)
    BY <1>1, <1>2, <1>11, LoseBasics DEF Missed
  <1> QED BY <1>8, <1>9, <1>10, <1>11, ArriveIs

LEMMA LoseIs ==
  ASSUME Basics, NEW r \in req, Lose(r)
  PROVE  /\ page' \in PageRecs /\ SamePage(page', page) /\ req' = req \ {r}
         /\ disturbed' = TRUE /\ UNCHANGED <<rows, top, sent, erased>>
  <1>1. page' = Says(page, "error") \/ page' = page
    BY DEF Lose
  <1> QED BY <1>1, SaidIs DEF Lose

LEMMA LoseKeepsBasics ==
  ASSUME Basics, NEW r \in req, Lose(r)
  PROVE  Basics'
  BY LoseIs, LoseBasics DEF SamePage

LEMMA InitBasics == PageInit => Basics
  <1> SUFFICES ASSUME PageInit PROVE Basics
    OBVIOUS
  <1>1. /\ page.mount = 0 /\ page.kind = "none" /\ page.key = Root /\ page.shown = <<>>
        /\ top = 0 /\ req = {} /\ sent = 0 /\ disturbed = FALSE /\ erased = FALSE
        /\ rows = [k \in Keys |-> {}]
    BY DEF PageInit, NoPage
  <1>2. page \in PageRecs
    <2>1. Root \in Keys /\ <<>> \in Seq(Nat)
      BY PageConstantsOK
    <2> QED BY <2>1 DEF PageInit, NoPage, PageRecs
  <1>3. ToSet(page.shown) \subseteq 1 .. top /\ IsFiniteSet(req) /\ top \in 0 .. MaxRows
    BY <1>1, FS_EmptySet, PageConstantsOK DEF ToSet
  <1> QED BY <1>1, <1>2, <1>3 DEF Basics, PageTypeOK, Numbered, OfThePage, Own

-----------------------------------------------------------------------------
(* Lists that are reloaded: the tabs, and the tasks of a schedule.         *)

LEMMA OwnIs ==
  ASSUME Basics, NEW r \in Own
  PROVE  /\ r \in req /\ r.mount = page.mount /\ AsAsked(r) /\ r.kind = page.kind
         /\ r.n \in 1 .. sent /\ r.n \in Nat /\ r.at \in Nat /\ r.op \in Ops
         /\ r.at = 0 <=> r.ans \in {"spawned", "none"}
         /\ r.ans = "spawned" => r.kind = "files"
  BY DEF Own, Basics, PageTypeOK, Requests, Numbered, OfThePage, AsAsked

\* The requests of the page, after each action.
LEMMA OwnAsked ==
  ASSUME NEW q, req' = req \cup {q}, q.mount = page.mount, page'.mount = page.mount
  PROVE  Own' = Own \cup {q}
  BY DEF Own

LEMMA OwnSwapped ==
  ASSUME NEW r \in req, NEW s, Swaps(r, s), page' = page
  PROVE  Own' = IF r \in Own THEN (Own \ {r}) \cup {s} ELSE Own
  BY DEF Own, Swaps, SameAsk

LEMMA ReloadsStay ==
  ASSUME Reloads, Own' = Own, UNCHANGED <<rows, page>>, ~disturbed' => ~disturbed
  PROVE  Reloads'
  BY DEF Reloads, Calm, Shows, Replaces

\* A change is asked for.
LEMMA ReloadsAsked ==
  ASSUME Basics, Reloads, NEW q,
         \/ Asked(q, "create", page.key, 0)
         \/ \E id : Asked(q, "delete", page.key, id),
         req' = req \cup {q}, UNCHANGED <<rows, page, disturbed>>
  PROVE  Reloads'
  <1> SUFFICES ASSUME page.kind \in {"tab", "tasks"}, Calm' PROVE Reloads'
    BY DEF Reloads
  <1>1. /\ q.mount = page.mount /\ q.op # "load" /\ q.key = page.key
        /\ Own' = Own \cup {q}
    BY OwnAsked DEF Asked
  <1>2. Calm
    BY <1>1 DEF Calm
  <1>3. \A r \in Own : r.op # "load" => r.key = page.key
    BY <1>2 DEF Reloads
  <1>4. \A r \in Own' : Replaces(q, r)'
    BY <1>1 DEF Replaces
  <1> QED BY <1>1, <1>3, <1>4 DEF Reloads

LEMMA ReloadsGoTo ==
  ASSUME Basics, Reloads, NEW key \in Keys, GoTo(key)
  PROVE  Reloads'
  <1>1. PICK q : Asked(q, "load", key, 1) /\ req' = req \cup {q}
    BY GoToIs, Zenon
  <1>2. /\ page.kind \in {"files", "tasks"}
        /\ page'.mount = page.mount /\ page'.kind = page.kind
        /\ page'.key = IF page.kind = "tasks" THEN key ELSE page.key
        /\ disturbed' = (disturbed \/ Adding)
    BY GoToIs, Zenon
  <1> SUFFICES ASSUME page.kind = "tasks", Calm' PROVE Reloads'
    BY <1>2 DEF Reloads
  <1>3. /\ q.mount = page.mount /\ q.op = "load" /\ q.key = key /\ q.ans = "none"
        /\ q.n = sent + 1 /\ q.kind = "tasks" /\ Own' = Own \cup {q}
    BY <1>1, <1>2, OwnAsked DEF Asked, AtFirst
  <1>4. ~Adding
    BY <1>2 DEF Calm
  <1>5. \A r \in Own : r.op = "load" /\ r.n < sent + 1
    <2> SUFFICES ASSUME NEW r \in Own PROVE r.op = "load" /\ r.n < sent + 1
      OBVIOUS
    <2>1. /\ r \in req /\ r.mount = page.mount /\ AsAsked(r) /\ r.kind = page.kind
          /\ r.n \in 1 .. sent /\ r.op \in Ops
      BY OwnIs
    <2>2. r.op # "create" /\ r.op # "delete"
      BY <1>4, <2>1 DEF Adding, AsAsked
    <2>3. sent \in Nat
      BY DEF Basics, PageTypeOK
    <2> QED BY <2>1, <2>2, <2>3 DEF Ops
  <1>6. Shows(q)'
    BY <1>2, <1>3 DEF Shows
  <1>7. \A r \in Own : Replaces(q, r)'
    BY <1>3, <1>5, <1>6 DEF Replaces
  <1> QED BY <1>2, <1>3, <1>5, <1>6, <1>7 DEF Reloads

LEMMA ReloadsOpen ==
  ASSUME Basics, NEW kind \in Kinds, Open(kind)
  PROVE  /\ Reloads'
         /\ \E q : Own' = {q} /\ q.arg = 1 /\ q.ans = AtFirst(kind, "load")
  <1>1. page'.mount = page.mount + 1 /\ page'.key = Root /\ page'.kind = kind
    BY OpenIs, Zenon
  <1>2. PICK q \in Requests :
            /\ q.mount = page.mount + 1 /\ q.op = "load" /\ q.key = Root /\ q.arg = 1
            /\ q.ans = AtFirst(kind, "load") /\ req' = req \cup {q}
    BY OpenIs, Zenon
  <1>3. page.mount \in Nat /\ \A r \in req : r.mount \in 1 .. page.mount
    BY DEF Basics, PageTypeOK, PageRecs, Numbered
  <1>4. Own' = {q}
    <2>1. \A r \in req : r.mount # page.mount + 1
      BY <1>3
    <2> QED BY <1>1, <1>2, <2>1 DEF Own
  <1>5. kind # "files" => Shows(q)'
    BY <1>1, <1>2 DEF Shows, AtFirst
  <1> QED BY <1>1, <1>2, <1>4, <1>5 DEF Reloads

\* A request of another page is answered: a load, or the page is disturbed.
LEMMA AnsweredElsewhere ==
  ASSUME Basics, NEW r \in req, r.mount # page.mount, NEW s, Swaps(r, s), Calm', page' = page
  PROVE  r.op = "load" /\ Own' = Own /\ ~disturbed /\ ~disturbed'
  <1>1. Own' = Own
    BY OwnSwapped DEF Own
  <1>2. disturbed' = (disturbed \/ (r.op # "load" /\ r.mount # page.mount))
    BY DEF Swaps
  <1>3. ~disturbed'
    BY DEF Calm
  <1> QED BY <1>1, <1>2, <1>3

LEMMA ReloadsHandle ==
  ASSUME Basics, Reloads, NEW r \in req, Handle(r)
  PROVE  Reloads'
  <1>1. r.ans = "none" /\ page' = page
    BY HandleIs
  <1>2. PICK s : Swaps(r, s) /\ (Listed(r, s) \/ Inserted(r, s) \/ Erased(r, s))
    BY HandleIs, Zenon
  <1> SUFFICES ASSUME page.kind \in {"tab", "tasks"}, Calm' PROVE Reloads'
    BY <1>1 DEF Reloads
  <1>3. CASE r.mount # page.mount
    <2>1. r.op = "load" /\ Own' = Own /\ ~disturbed /\ ~disturbed'
      BY <1>1, <1>2, <1>3, AnsweredElsewhere
    <2>2. rows' = rows
      BY <1>2, <2>1 DEF Listed, Inserted, Erased
    <2> QED BY <1>1, <2>1, <2>2, ReloadsStay
  <1>4. CASE r.mount = page.mount
    <2>1. r \in Own /\ Own' = (Own \ {r}) \cup {s}
      BY <1>1, <1>2, <1>4, OwnSwapped DEF Own
    <2>2. /\ AsAsked(r) /\ r.kind = page.kind
          /\ s.n = r.n /\ s.op = r.op /\ s.key = r.key /\ s.kind = r.kind /\ s.late = r.late
          /\ (\A q \in req : q.at < s.at)
          /\ disturbed' = (disturbed \/ (r.op # "load" /\ r.mount # page.mount))
      BY <1>2, <2>1, OwnIs DEF Swaps, SameAsk
    <2>3. Calm
      BY <1>1, <2>1, <2>2 DEF Calm
    <2>4. \A q \in Own' : q.op # "load" => q.key = page.key
      BY <2>1, <2>2, <2>3 DEF Reloads
    <2>5. CASE r.op # "load"
      <3>1. \A q \in Own' : Replaces(s, q)'
        BY <2>2, <2>5 DEF Replaces
      <3> QED BY <1>1, <2>1, <2>2, <2>4, <2>5, <3>1 DEF Reloads
    <2>6. CASE r.op = "load"
      <3>1. rows' = rows /\ s.ans = "list" /\ s.list = Newest(rows[r.key])
        BY <1>2, <2>2, <2>6 DEF Listed, Inserted, Erased, List
      <3>2. r.key = page.key => Shows(s)' /\ Shows(r)
        BY <1>1, <2>2, <2>6, <3>1 DEF Shows
      <3>3. \A q \in Own \ {r} : Shows(q)' <=> Shows(q)
        BY <1>1, <3>1 DEF Shows
      <3>4. \/ page.from = page.key /\ page.shown = Newest(rows[page.key])
            \/ \E q \in Own' : q.op # "load" \/ Shows(q)'
        <4>1. CASE \E q \in Own : q.op # "load" \/ Shows(q)
          <5>1. PICK q \in Own : q.op # "load" \/ Shows(q)
            BY <4>1
          <5>2. CASE q = r
            BY <2>1, <2>6, <3>2, <5>1, <5>2 DEF Shows
          <5> QED BY <2>1, <3>3, <5>1, <5>2
        <4> QED BY <2>3, <4>1 DEF Reloads
      <3>5. ASSUME NEW q \in Own', q.op = "load", ~Shows(q)'
            PROVE  \E p \in Own' : Replaces(p, q)'
        <4>1. CASE q = s
          <5>1. ~Shows(r) /\ r.key # page.key
            BY <2>2, <2>6, <3>2, <3>5, <4>1 DEF Shows
          <5>2. PICK p \in Own : Replaces(p, r)
            BY <2>1, <2>3, <2>6, <5>1 DEF Reloads
          <5>3. page.kind = "tasks"
            BY <2>2, <5>1 DEF AsAsked, Basics, OfThePage
          <5>4. p # r /\ p \in Own' /\ p.kind = page.kind
            BY <2>1, <2>6, <5>1, <5>2, OwnIs DEF Replaces
          <5>5. Replaces(p, s)'
            BY <2>2, <3>3, <5>2, <5>3, <5>4 DEF Replaces
          <5> QED BY <4>1, <5>4, <5>5
        <4>2. CASE q # s
          <5>1. q \in Own /\ q # r /\ ~Shows(q)
            BY <2>1, <3>3, <3>5, <4>2
          <5>2. PICK p \in Own : Replaces(p, q)
            BY <2>3, <3>5, <5>1 DEF Reloads
          <5>3. CASE p = r
            <6>1. Shows(r) /\ r.key = page.key
              BY <2>6, <5>2, <5>3 DEF Replaces, Shows
            <6>2. Shows(s)'
              BY <3>2, <6>1
            <6>3. q \in req /\ q.at \in Nat /\ s.at > q.at
              <7>1. q \in req /\ q.at \in Nat
                BY <5>1, OwnIs
              <7>2. q.at < s.at /\ s.at \in Nat
                BY <1>2, <2>2, <7>1 DEF Swaps, Requests
              <7> QED BY <7>1, <7>2
            <6>4. Replaces(s, q)'
              BY <2>2, <2>6, <5>2, <5>3, <6>2, <6>3 DEF Replaces
            <6> QED BY <2>1, <6>4
          <5>4. CASE p # r
            <6>1. p \in Own' /\ p \in Own \ {r}
              BY <2>1, <5>4
            <6>2. Replaces(p, q)'
              BY <3>3, <5>2, <6>1 DEF Replaces
            <6> QED BY <6>1, <6>2
          <5> QED BY <5>3, <5>4
        <4> QED BY <4>1, <4>2
      <3> QED BY <1>1, <2>4, <3>1, <3>4, <3>5 DEF Reloads
    <2> QED BY <2>5, <2>6
  <1> QED BY <1>3, <1>4

LEMMA ReloadsRefuse ==
  ASSUME Basics, Reloads, NEW r \in req, Refuse(r)
  PROVE  Reloads'
  <1>1. UNCHANGED <<rows, page>>
    BY RefuseIs, Zenon
  <1>2. PICK s : Swaps(r, s) /\ s.ans = "error"
    BY RefuseIs, Zenon
  <1> SUFFICES ASSUME Calm' PROVE Reloads'
    BY DEF Reloads
  <1>3. r.mount # page.mount
    <2> SUFFICES ASSUME r.mount = page.mount PROVE FALSE
      OBVIOUS
    <2>1. s \in Own'
      BY <1>1, <1>2, OwnSwapped DEF Own
    <2> QED BY <1>2, <2>1 DEF Calm
  <1>4. Own' = Own /\ ~disturbed
    BY <1>1, <1>2, <1>3, AnsweredElsewhere
  <1> QED BY <1>1, <1>4, ReloadsStay

\* A change that is disturbed, and what an arrival leaves of a page that is not.
LEMMA NotCalm == disturbed' => Reloads'
  BY DEF Reloads, Calm

\* p is q, and q was not overtaken by r.
Waits(p, q, r) == Still(p, q) /\ ~Overtakes(r, q) /\ q.late = p.late

LEMMA CalmArrival ==
  ASSUME Basics, NEW r \in Own, NEW F, Ok(r), r.ans # "none", r.kind # "files",
         req' = Others(r) \cup F,
         disturbed' = (disturbed \/ r.late), page'.mount = page.mount, Calm'
  PROVE  /\ Calm
         /\ \A q \in Own \ {r} : \E p \in Own' : Waits(p, q, r)
         /\ \A p \in Own' : p \in F \/ \E q \in Own \ {r} : Waits(p, q, r)
  <1>0. r \in req
    BY DEF Own
  <1>1. ~disturbed /\ ~r.late
    BY DEF Calm
  <1>2. r.ans # "error"
    BY DEF Ok
  <1>3. ASSUME NEW p \in Own', NEW q \in req, Moved(p, q, r) PROVE Waits(p, q, r)
    <2>1. ~p.late /\ p.late = (q.late \/ Overtakes(r, q))
      BY <1>3 DEF Calm, Moved
    <2>2. q.late \in BOOLEAN /\ p.late \in BOOLEAN
      <3>1. Basics => q.late \in BOOLEAN
        BY DEF Basics, PageTypeOK, Requests
      <3>2. (q.late \/ Overtakes(r, q)) \in BOOLEAN
        OBVIOUS
      <3> QED BY <2>1, <3>1, <3>2, Zenon
    <2> QED BY <1>3, <2>1, <2>2 DEF Moved, Waits
  <1>4. ASSUME NEW q \in Own \ {r} PROVE \E p \in Own' : Waits(p, q, r)
    <2>1. q \in req \ {r} /\ q.mount = page.mount
      BY <1>4 DEF Own
    <2>2. PICK p \in Others(r) : Moved(p, q, r)
      BY <1>0, <2>1, OthersIs
    <2>3. p \in Own'
      BY <2>1, <2>2 DEF Own, Moved, Still, SameAsk
    <2> QED BY <1>3, <2>1, <2>2, <2>3
  <1>5. ASSUME NEW p \in Own', p \notin F PROVE \E q \in Own \ {r} : Waits(p, q, r)
    <2>1. p \in Others(r) /\ p.mount = page.mount
      BY <1>5 DEF Own
    <2>2. PICK q \in req \ {r} : Moved(p, q, r)
      BY <1>0, <2>1, OthersIs
    <2>3. q \in Own \ {r}
      BY <2>1, <2>2 DEF Own, Moved, Still, SameAsk
    <2> QED BY <1>3, <2>2, <2>3
  <1>6. Calm
    <2> SUFFICES ASSUME NEW q \in Own PROVE ~q.late /\ q.ans # "error"
      BY <1>1 DEF Calm
    <2>1. CASE q = r
      BY <1>1, <1>2, <2>1
    <2>2. CASE q # r
      <3>1. PICK p \in Own' : Waits(p, q, r)
        BY <1>4, <2>2
      <3> QED BY <3>1 DEF Calm, Waits, Still
    <2> QED BY <2>1, <2>2
  <1> QED BY <1>4, <1>5, <1>6

LEMMA WaitsShows ==
  ASSUME NEW p, NEW q, NEW r, Waits(p, q, r), page'.key = page.key, rows' = rows
  PROVE  Shows(p)' <=> Shows(q)
  BY DEF Waits, Still, SameAsk, Shows

LEMMA ReloadsArrive ==
  ASSUME Basics, Reloads, NEW r \in req, Arrive(r)
  PROVE  Reloads'
  <1>1. r.ans \notin {"spawned", "none"} /\ rows' = rows
    BY ArriveIs
  <1>2. CASE Missed(r)
    <2>1. UNCHANGED <<rows, page>> /\ disturbed' = disturbed /\ Own' = Own
      BY <1>1, <1>2 DEF Missed, Own
    <2> QED BY <2>1, ReloadsStay
  <1>3. CASE Failed(r)
    BY <1>3, NotCalm DEF Failed
  <1>4. ASSUME r.mount = page.mount, page' = Taken(r)
        PROVE  /\ page'.mount = page.mount /\ page'.kind = page.kind
               /\ r \in Own /\ AsAsked(r) /\ r.kind = page.kind
               /\ IF r.op = "load" THEN Loads(page', r) ELSE SamePage(page', page)
    <2>1. r \in Own
      BY <1>4 DEF Own
    <2> QED BY <1>4, <2>1, OwnIs, TakenIs
  <1>5. CASE Took(r)
    <2>1. /\ r.mount = page.mount /\ Ok(r) /\ page' = Taken(r) /\ req' = Others(r) \cup {}
          /\ ~Follows(r) /\ disturbed' = (disturbed \/ r.late)
      BY <1>5 DEF Took
    <2>2. /\ page'.mount = page.mount /\ page'.kind = page.kind
          /\ r \in Own /\ AsAsked(r) /\ r.kind = page.kind
          /\ IF r.op = "load" THEN Loads(page', r) ELSE SamePage(page', page)
      BY <1>4, <2>1
    <2> SUFFICES ASSUME page.kind \in {"tab", "tasks"}, Calm' PROVE Reloads'
      BY <2>2 DEF Reloads
    <2>0. PICK F : F = {}
      OBVIOUS
    <2>3. /\ Calm
          /\ \A q \in Own \ {r} : \E p \in Own' : Waits(p, q, r)
          /\ \A p \in Own' : p \in F \/ \E q \in Own \ {r} : Waits(p, q, r)
      BY <1>1, <2>0, <2>1, <2>2, CalmArrival
    <2>4. r.op = "load" /\ r.ans = "list"
      BY <2>1, <2>2 DEF Follows, Ok
    <2>5. page'.key = page.key /\ page'.shown = r.list /\ page'.from = r.key
      BY <2>2, <2>4 DEF Loads
    <2>30. \A p \in Own' : \E q \in Own \ {r} : Waits(p, q, r)
      BY <2>0, <2>3
    <2>6. \A q \in Own : r # q /\ (q.op # "load" \/ Shows(q)) =>
              \E p \in Own' : p.op # "load" \/ Shows(p)'
      BY <1>1, <2>3, <2>5, WaitsShows DEF Waits, Still, SameAsk
    <2>7. \/ page'.from = page'.key /\ page'.shown = Newest(rows'[page'.key])
          \/ \E p \in Own' : p.op # "load" \/ Shows(p)'
      <3>1. CASE Shows(r)
        BY <1>1, <2>4, <2>5, <3>1 DEF Shows
      <3>2. CASE ~Shows(r)
        <4>1. PICK q \in Own : Replaces(q, r)
          BY <2>2, <2>3, <2>4, <3>2 DEF Reloads
        <4> QED BY <2>4, <2>6, <3>2, <4>1 DEF Replaces
      <3> QED BY <3>1, <3>2
    <2>8. \A p \in Own' : p.op # "load" => p.key = page'.key
      BY <2>3, <2>30, <2>5 DEF Reloads, Waits, Still, SameAsk
    <2>9. ASSUME NEW p \in Own', p.op = "load", ~Shows(p)'
          PROVE  \E o \in Own' : Replaces(o, p)'
      <3>1. PICK u \in Own \ {r} : Waits(p, u, r)
        BY <2>30
      <3>2. u.op = "load" /\ ~Shows(u)
        BY <1>1, <2>5, <2>9, <3>1, WaitsShows DEF Waits, Still, SameAsk
      <3>3. PICK q \in Own : Replaces(q, u)
        BY <2>2, <2>3, <3>2 DEF Reloads
      <3>4. CASE q # r
        <4>1. PICK o \in Own' : Waits(o, q, r)
          BY <2>3, <3>4
        <4>2. Shows(o)' <=> Shows(q)
          BY <1>1, <2>5, <4>1, WaitsShows
        <4>3. Replaces(o, p)'
          BY <3>1, <3>3, <4>1, <4>2 DEF Replaces, Waits, Still, SameAsk
        <4> QED BY <4>3
      <3>5. CASE q = r
        <4>1. Shows(r) /\ (IF page.kind = "tasks" THEN r.n > u.n ELSE r.at > u.at)
          BY <1>1, <2>2, <2>4, <3>3, <3>5 DEF Replaces
        <4>2. ~Overtakes(r, u)
          BY <3>1 DEF Waits
        <4>3. /\ u.n \in Nat /\ u.at \in Nat /\ u.mount = page.mount /\ AsAsked(u)
              /\ (u.at = 0 <=> u.ans \in {"spawned", "none"})
          BY OwnIs
        <4>4. r.n \in Nat /\ r.at \in Nat
          BY <2>2, OwnIs
        <4>5. page.kind = "tab"
          BY <2>1, <2>2, <4>1, <4>2, <4>3, <4>4 DEF Overtakes
        <4>6. u.ans \notin {"spawned", "none"}
          BY <3>2, <4>3, <4>5, OwnIs DEF Shows, AsAsked, Basics, OfThePage
        <4>7. u.at \in 1 .. r.at - 1
          BY <4>1, <4>3, <4>4, <4>5, <4>6
        <4> QED BY <2>1, <4>2, <4>3, <4>7 DEF Overtakes
      <3> QED BY <3>4, <3>5
    <2> QED BY <2>7, <2>8, <2>9 DEF Reloads
  <1>6. ASSUME NEW q, TookAnd(r, q) PROVE Reloads'
    <2>1. /\ r.mount = page.mount /\ Ok(r) /\ page' = Taken(r) /\ req' = Others(r) \cup {q}
          /\ Follows(r) /\ Sends(r, q) /\ disturbed' = (disturbed \/ r.late)
      BY <1>6 DEF TookAnd
    <2>2. /\ page'.mount = page.mount /\ page'.kind = page.kind
          /\ r \in Own /\ AsAsked(r) /\ r.kind = page.kind
          /\ IF r.op = "load" THEN Loads(page', r) ELSE SamePage(page', page)
      BY <1>4, <2>1
    <2> SUFFICES ASSUME page.kind \in {"tab", "tasks"}, Calm' PROVE Reloads'
      BY <2>2 DEF Reloads
    <2>3. /\ Calm
          /\ \A p \in Own' : p \in {q} \/ \E u \in Own \ {r} : Waits(p, u, r)
      BY <1>1, <2>1, <2>2, CalmArrival
    <2>4. r.op # "load" /\ Asked(q, "load", r.key, 1)
      BY <2>1, <2>2 DEF Follows, Sends
    <2>5. page'.key = page.key /\ r.key = page.key
      BY <2>2, <2>3, <2>4 DEF SamePage, Reloads
    <2>6. q.op = "load" /\ q.ans = "none" /\ q.n = sent + 1 /\ q \in Own' /\ Shows(q)'
      <3>1. /\ q.op = "load" /\ q.ans = "none" /\ q.n = sent + 1 /\ q.mount = page.mount
            /\ q.key = r.key
        BY <2>4 DEF Asked, AtFirst
      <3> QED BY <2>1, <2>2, <2>5, <3>1 DEF Own, Shows
    <2>7. ASSUME NEW p \in Own', p # q
          PROVE  (p.op # "load" => p.key = page'.key) /\ Replaces(q, p)'
      <3>1. PICK u \in Own \ {r} : Waits(p, u, r)
        BY <2>3, <2>7
      <3>2. u.n \in 1 .. sent /\ sent \in Nat /\ p.n = u.n /\ p.op = u.op /\ p.key = u.key
        BY <3>1, OwnIs DEF Basics, PageTypeOK, Waits, Still, SameAsk
      <3>3. q.n > p.n
        BY <2>6, <3>2
      <3>4. Replaces(q, p)'
        BY <2>6, <3>3 DEF Replaces
      <3> QED BY <2>2, <2>3, <2>5, <3>2, <3>4 DEF Reloads
    <2> QED BY <2>6, <2>7 DEF Reloads
  <1> QED BY <1>2, <1>3, <1>5, <1>6, ArriveIs

-----------------------------------------------------------------------------
(* The log, read page by page.                                             *)

LEMMA RankGrows ==
  ASSUME PageTypeOK, PageTypeOK', rows[Root] \subseteq rows'[Root], NEW x
  PROVE  Rank(x) \in Nat /\ Rank(x)' \in Nat /\ Rank(x) <= Rank(x)'
  <1> DEFINE before == {y \in rows[Root] : y >= x}
             after == {y \in rows'[Root] : y >= x}
  <1>1. IsFiniteSet(rows[Root]) /\ IsFiniteSet(rows'[Root])
    <2>1. rows[Root] \in SUBSET (1 .. top) /\ top \in Nat
      BY PageConstantsOK DEF PageTypeOK
    <2>2. rows'[Root] \in SUBSET (1 .. top') /\ top' \in Nat
      BY PageConstantsOK DEF PageTypeOK
    <2>3. IsFiniteSet(1 .. top) /\ IsFiniteSet(1 .. top')
      BY <2>1, <2>2, FS_Interval
    <2> QED BY <2>1, <2>2, <2>3, FS_Subset
  <1>2. IsFiniteSet(before) /\ IsFiniteSet(after) /\ before \subseteq after
    BY <1>1, FS_Subset
  <1>3. /\ Cardinality(before) \in Nat /\ Cardinality(after) \in Nat
        /\ Cardinality(before) <= Cardinality(after)
    BY <1>2, FS_CardinalityType, FS_Subset
  <1> QED BY <1>3 DEF Rank

LEMMA AheadStays ==
  ASSUME Basics, Basics', rows[Root] \subseteq rows'[Root],
         ToSet(page.shown) \subseteq ToSet(page'.shown),
         NEW r \in req, NEW q, Still(q, r), NEW x, Ahead(r, x)
  PROVE  Ahead(q, x)'
  <1>1. Rank(x) \in Nat /\ Rank(x)' \in Nat /\ Rank(x) <= Rank(x)'
    BY RankGrows DEF Basics
  <1>2. q.ans = r.ans /\ q.list = r.list /\ q.arg = r.arg
    BY DEF Still, SameAsk
  <1>3. r.arg \in Nat
    BY DEF Basics, PageTypeOK, Requests
  <1>4. r.ans = "none" /\ Rank(x) > offset(r.arg) => Rank(x)' > offset(r.arg)
    <2>1. offset(r.arg) \in Int
      BY <1>3, PageConstantsOK DEF offset
    <2> QED BY <1>1, <2>1
  <1>5. Rank(x) > offset(r.arg + 1) => Rank(x)' > offset(r.arg + 1)
    <2>1. offset(r.arg + 1) \in Int
      BY <1>3, PageConstantsOK DEF offset
    <2> QED BY <1>1, <2>1
  <1> HIDE DEF Rank
  <1> QED BY <1>2, <1>4, <1>5 DEF Ahead

\* Nothing is erased, and what is shown goes on being shown.
LEMMA WalksStay ==
  ASSUME Basics, Basics', Walks, page'.kind = page.kind, page'.start = page.start,
         ToSet(page.shown) \subseteq ToSet(page'.shown), page'.walked = page.walked,
         ~erased' => ~erased /\ rows[Root] \subseteq rows'[Root],
         \A q \in Own' : q.ans = "error" \/ \E r \in Own : Still(q, r)
  PROVE  Walks'
  <1> SUFFICES ASSUME page.kind = "activity", ~erased' PROVE Walks'
    BY DEF Walks
  <1>1. rows[Root] \subseteq rows'[Root] /\ ~erased
    OBVIOUS
  <1>2. /\ page.start \subseteq rows[Root]
        /\ page.walked => page.start \subseteq ToSet(page.shown)
        /\ \A r \in Own, x \in page.start : Ahead(r, x)
    BY <1>1 DEF Walks
  <1>3. ASSUME NEW q \in Own', NEW x \in page.start PROVE Ahead(q, x)'
    <2>1. CASE q.ans = "error"
      BY <2>1 DEF Ahead
    <2>2. CASE q.ans # "error"
      <3>1. PICK r \in Own : Still(q, r)
        BY <2>2
      <3>2. r \in req /\ Ahead(r, x)
        BY <1>2, <3>1 DEF Own
      <3> QED BY <1>1, <3>1, <3>2, AheadStays
    <2> QED BY <2>1, <2>2
  <1> QED BY <1>1, <1>2, <1>3 DEF Walks

LEMMA WalksOpen ==
  ASSUME Basics, Basics', NEW kind \in Kinds, Open(kind)
  PROVE  Walks'
  <1>1. page'.start = rows[Root] /\ rows' = rows /\ page'.walked = FALSE
    BY OpenIs, Zenon
  <1> SUFFICES ASSUME kind = "activity" PROVE Walks'
    BY OpenIs, Zenon DEF Walks
  <1>2. PICK q : Own' = {q} /\ q.arg = 1 /\ q.ans = "none"
    BY ReloadsOpen DEF AtFirst
  <1>3. ASSUME NEW x \in rows[Root] PROVE Ahead(q, x)'
    <2>1. rows[Root] \subseteq Nat /\ IsFiniteSet(rows[Root]) /\ x \in Nat
      BY TableIs, PageConstantsOK DEF Basics
    <2> DEFINE newer == {y \in rows[Root] : y >= x}
    <2>2. IsFiniteSet(newer) /\ x \in newer
      BY <2>1, FS_Subset
    <2>3. Cardinality(newer) # 0 /\ Cardinality(newer) \in Nat
      BY <2>2, FS_EmptySet, FS_CardinalityType
    <2>4. Rank(x)' = Cardinality(newer)
      BY <1>1 DEF Rank
    <2>5. offset(1) = 0
      BY Offsets
    <2>6. Rank(x)' > offset(1)
      BY <2>3, <2>4, <2>5
    <2> HIDE DEF newer
    <2> QED BY <1>2, <2>6 DEF Ahead
  <1> QED BY <1>1, <1>2, <1>3 DEF Walks

LEMMA WalksHandle ==
  ASSUME Basics, Basics', Walks, NEW r \in req, Handle(r)
  PROVE  Walks'
  <1>1. r.ans = "none" /\ page' = page
    BY HandleIs
  <1>2. PICK s : Swaps(r, s) /\ (Listed(r, s) \/ Inserted(r, s) \/ Erased(r, s))
    BY HandleIs, Zenon
  <1>3. ~erased' => ~erased /\ rows[Root] \subseteq rows'[Root]
    <2>1. Root \in Keys /\ r.key \in Keys /\ rows \in [Keys -> SUBSET (1 .. top)]
      BY PageConstantsOK DEF Basics, PageTypeOK, Requests
    <2> QED BY <1>2, <2>1 DEF Listed, Inserted, Erased
  <1>4. CASE r \notin Own
    <2>1. Own' = Own
      BY <1>1, <1>2, <1>4, OwnSwapped
    <2>2. \A q \in Own' : \E p \in Own : Still(q, p)
      BY <2>1 DEF Still, SameAsk
    <2> QED BY <1>1, <1>3, <2>2, WalksStay
  <1>5. CASE r \in Own
    <2> SUFFICES ASSUME page.kind = "activity", ~erased' PROVE Walks'
      BY <1>1 DEF Walks
    <2>1. /\ Own' = (Own \ {r}) \cup {s} /\ r.op = "load" /\ r.key = Root
          /\ r.kind = "activity" /\ r.arg \in Nat \ {0}
      <3>1. AsAsked(r) /\ r.kind = page.kind /\ r \in req
        BY <1>5, OwnIs
      <3> QED BY <1>1, <1>2, <1>5, <3>1, OwnSwapped
              DEF AsAsked, Basics, PageTypeOK, Numbered, Requests
    <2>2. /\ s.ans = "list" /\ s.list = PageOfLog(rows[Root], r.arg) /\ s.arg = r.arg
          /\ UNCHANGED <<rows, erased>>
      BY <1>2, <2>1 DEF Listed, Inserted, Erased, List, Swaps, SameAsk
    <2>3. /\ page.start \subseteq rows[Root]
          /\ page.walked => page.start \subseteq ToSet(page.shown)
          /\ \A q \in Own, x \in page.start : Ahead(q, x)
      BY <1>3 DEF Walks
    <2>4. ASSUME NEW x \in page.start PROVE Ahead(s, x)'
      <3>1. Ahead(r, x) /\ x \in rows[Root]
        BY <1>5, <2>3
      <3>2. CASE x \in ToSet(page.shown)
        BY <1>1, <3>2 DEF Ahead
      <3>3. CASE x \notin ToSet(page.shown)
        <4>1. Rank(x) > offset(r.arg)
          BY <1>1, <3>1, <3>3 DEF Ahead
        <4>2. rows[Root] \subseteq Nat /\ IsFiniteSet(rows[Root])
          BY TableIs, PageConstantsOK DEF Basics
        <4>3. \/ x \in ToSet(PageOfLog(rows[Root], r.arg))
              \/ Len(PageOfLog(rows[Root], r.arg)) = PerPage /\ Rank(x) > offset(r.arg + 1)
          BY <2>1, <3>1, <4>1, <4>2, PageOfLogIs DEF Rank
        <4>4. Rank(x)' = Rank(x)
          BY <2>2 DEF Rank
        <4> HIDE DEF Rank
        <4> QED BY <2>2, <4>3, <4>4 DEF Ahead
      <3> QED BY <3>2, <3>3
    <2>5. ASSUME NEW q \in Own \ {r}, NEW x \in page.start PROVE Ahead(q, x)'
      <3>1. Ahead(q, x) /\ Rank(x)' = Rank(x)
        BY <2>2, <2>3 DEF Rank
      <3> HIDE DEF Rank
      <3> QED BY <1>1, <3>1 DEF Ahead
    <2> QED BY <1>1, <2>1, <2>2, <2>3, <2>4, <2>5 DEF Walks
  <1> QED BY <1>4, <1>5

LEMMA WalksRefuse ==
  ASSUME Basics, Basics', Walks, NEW r \in req, Refuse(r)
  PROVE  Walks'
  <1>1. UNCHANGED <<rows, page, erased>>
    BY RefuseIs, Zenon
  <1>2. PICK s : Swaps(r, s) /\ s.ans = "error"
    BY RefuseIs, Zenon
  <1>3. Own' = IF r \in Own THEN (Own \ {r}) \cup {s} ELSE Own
    BY <1>1, <1>2, OwnSwapped
  <1>4. \A q \in Own' : q.ans = "error" \/ \E p \in Own : Still(q, p)
    BY <1>2, <1>3 DEF Still, SameAsk
  <1> QED BY <1>1, <1>4, WalksStay

LEMMA WalksOther ==
  ASSUME Basics, Basics', Walks, Other
  PROVE  Walks'
  <1>1. UNCHANGED <<page, req>> /\ Within \subseteq Keys
    BY PageConstantsOK DEF Other, Within
  <1>2. ~erased' => ~erased /\ rows[Root] \subseteq rows'[Root]
    <2>1. Root \in Keys /\ rows \in [Keys -> SUBSET (1 .. top)]
      BY PageConstantsOK DEF Basics, PageTypeOK
    <2> QED BY <1>1, <2>1 DEF Other
  <1>3. \A q \in Own' : \E p \in Own : Still(q, p)
    BY <1>1 DEF Own, Still, SameAsk
  <1> QED BY <1>1, <1>2, <1>3, WalksStay

LEMMA WalksLose ==
  ASSUME Basics, Basics', Walks, NEW r \in req, Lose(r)
  PROVE  Walks'
  <1>1. /\ SamePage(page', page) /\ req' = req \ {r} /\ UNCHANGED <<rows, erased>>
    BY LoseIs
  <1>2. \A q \in Own' : \E p \in Own : Still(q, p)
    BY <1>1 DEF Own, Still, SameAsk, SamePage
  <1> QED BY <1>1, <1>2, WalksStay DEF SamePage

LEMMA WalksArrive ==
  ASSUME Basics, Basics', Walks, NEW r \in req, Arrive(r)
  PROVE  Walks'
  <1>1. UNCHANGED <<rows, erased>> /\ r.ans \notin {"spawned", "none"}
    BY ArriveIs
  <1>2. CASE Missed(r)
    <2>1. \A q \in Own' : \E p \in Own : Still(q, p)
      BY <1>2 DEF Missed, Own, Still, SameAsk
    <2> QED BY <1>1, <1>2, <2>1, WalksStay DEF Missed
  <1>3. ASSUME page'.mount = page.mount, NEW p \in Own', p \in Others(r)
        PROVE  \E q \in Own : q \in req /\ Still(p, q)
    <2>1. PICK q \in req \ {r} : Moved(p, q, r)
      BY <1>3, OthersIs
    <2> QED BY <1>3, <2>1 DEF Moved, Still, SameAsk, Own
  <1>4. CASE Failed(r)
    <2>1. SamePage(page', page)
      BY <1>4, SaidIs DEF Failed
    <2>2. \A q \in Own' : \E p \in Own : Still(q, p)
      <3>1. Own' \subseteq Others(r)
        BY <1>4 DEF Failed, Own
      <3> QED BY <1>3, <2>1, <3>1 DEF SamePage
    <2> QED BY <1>1, <2>1, <2>2, WalksStay DEF SamePage
  <1>5. ASSUME NEW F, r.mount = page.mount, Ok(r), page' = Taken(r), req' = Others(r) \cup F,
               page.kind = "activity", ~erased,
               \A x \in page.start : Ahead(r, x) /\ r.ans = "list" =>
                   (page'.walked => x \in ToSet(page'.shown)) /\ \A q \in F : Ahead(q, x)'
        PROVE  Walks'
    <2>1. /\ page'.mount = page.mount /\ page'.kind = page.kind /\ page'.start = page.start
          /\ r \in Own /\ AsAsked(r) /\ r.kind = page.kind
          /\ IF r.op = "load" THEN Loads(page', r) ELSE SamePage(page', page)
      <3>1. r \in Own
        BY <1>5 DEF Own
      <3> QED BY <1>5, <3>1, OwnIs, TakenIs
    <2>2. r.op = "load" /\ r.ans = "list"
      BY <1>5, <2>1 DEF AsAsked, Ok
    <2>3. page'.shown = page.shown \o r.list
      BY <1>5, <2>1, <2>2 DEF Loads
    <2>4. ToSet(page.shown) \subseteq ToSet(page'.shown)
      <3>1. page.shown \in Seq(Nat) /\ r.list \in Seq(Nat)
        BY DEF Basics, PageTypeOK, PageRecs, Requests
      <3> QED BY <2>3, <3>1, ConcatSet
    <2>5. /\ page.start \subseteq rows[Root]
          /\ \A q \in Own, x \in page.start : Ahead(q, x)
      BY <1>5 DEF Walks
    <2>6. ASSUME NEW x \in page.start
          PROVE  (page'.walked => x \in ToSet(page'.shown)) /\ \A q \in F : Ahead(q, x)'
      BY <1>5, <2>1, <2>2, <2>5
    <2>7. ASSUME NEW x \in page.start, NEW p \in Own' PROVE Ahead(p, x)'
      <3>1. CASE p \in F
        BY <2>6, <3>1
      <3>2. CASE p \notin F
        <4>1. p \in Others(r)
          BY <1>5, <3>2 DEF Own
        <4>2. PICK q \in Own : q \in req /\ Still(p, q)
          BY <1>3, <2>1, <4>1
        <4>3. Ahead(q, x)
          BY <2>5
        <4> QED BY <1>1, <2>4, <4>2, <4>3, AheadStays
      <3> QED BY <3>1, <3>2
    <2> QED BY <1>1, <2>1, <2>5, <2>6, <2>7 DEF Walks
  <1>6. CASE Took(r)
    <2> SUFFICES ASSUME page.kind = "activity", ~erased PROVE Walks'
      BY <1>1, <1>6, TakenIs DEF Took, Walks
    <2>1. /\ r.mount = page.mount /\ Ok(r) /\ page' = Taken(r) /\ req' = Others(r) \cup {}
          /\ ~Follows(r)
      BY <1>6 DEF Took
    <2>2. r.op = "load" /\ r.kind = "activity" /\ Len(r.list) # PerPage
      <3>1. r \in Own
        BY <2>1 DEF Own
      <3> QED BY <2>1, <3>1, OwnIs DEF AsAsked, Follows
    <2>3. page'.shown = page.shown \o r.list
      BY <2>1, <2>2, TakenIs DEF Loads
    <2>4. ASSUME NEW x \in page.start, Ahead(r, x), r.ans = "list"
          PROVE  x \in ToSet(page'.shown)
      <3>1. page.shown \in Seq(Nat) /\ r.list \in Seq(Nat)
        BY DEF Basics, PageTypeOK, PageRecs, Requests
      <3>2. ToSet(page'.shown) = ToSet(page.shown) \cup ToSet(r.list)
        BY <2>3, <3>1, ConcatSet
      <3> QED BY <2>2, <2>4, <3>2 DEF Ahead
    <2>5. PICK F : F = {}
      OBVIOUS
    <2>6. \A x \in page.start : Ahead(r, x) /\ r.ans = "list" =>
              (page'.walked => x \in ToSet(page'.shown)) /\ \A q \in F : Ahead(q, x)'
      BY <2>4, <2>5
    <2>7. req' = Others(r) \cup F
      BY <2>1, <2>5
    <2> QED BY <1>5, <2>1, <2>6, <2>7
  <1>7. ASSUME NEW q, TookAnd(r, q) PROVE Walks'
    <2> SUFFICES ASSUME page.kind = "activity", ~erased PROVE Walks'
      BY <1>1, <1>7, TakenIs DEF TookAnd, Walks
    <2>1. /\ r.mount = page.mount /\ Ok(r) /\ page' = Taken(r) /\ req' = Others(r) \cup {q}
          /\ Follows(r) /\ Sends(r, q)
      BY <1>7 DEF TookAnd
    <2>2. r.op = "load" /\ r.kind = "activity" /\ Len(r.list) = PerPage
      <3>1. r \in Own
        BY <2>1 DEF Own
      <3> QED BY <2>1, <3>1, OwnIs DEF AsAsked, Follows
    <2>3. page'.shown = page.shown \o r.list /\ page'.walked = (Len(r.list) < PerPage)
      BY <2>1, <2>2, TakenIs DEF Loads
    <2>4. ~page'.walked
      <3>1. ~(Len(r.list) < PerPage)
        BY <2>2, PageConstantsOK
      <3> QED BY <2>3, <3>1, Zenon
    <2>5. q.ans = "none" /\ q.arg = r.arg + 1
      BY <2>1, <2>2 DEF Sends, Asked, AtFirst
    <2>6. ASSUME NEW x \in page.start, Ahead(r, x), r.ans = "list"
          PROVE  Ahead(q, x)'
      <3>1. page.shown \in Seq(Nat) /\ r.list \in Seq(Nat)
        BY DEF Basics, PageTypeOK, PageRecs, Requests
      <3>2. ToSet(page'.shown) = ToSet(page.shown) \cup ToSet(r.list)
        BY <2>3, <3>1, ConcatSet
      <3>3. Rank(x)' = Rank(x)
        BY <1>1 DEF Rank
      <3>4. x \in ToSet(page'.shown) \/ Rank(x) > offset(r.arg + 1)
        BY <2>6, <3>2 DEF Ahead
      <3> HIDE DEF Rank
      <3> QED BY <2>5, <3>3, <3>4 DEF Ahead
    <2>7. PICK F : F = {q}
      OBVIOUS
    <2>8. \A x \in page.start : Ahead(r, x) /\ r.ans = "list" =>
              (page'.walked => x \in ToSet(page'.shown)) /\ \A p \in F : Ahead(p, x)'
      BY <2>4, <2>6, <2>7
    <2>9. req' = Others(r) \cup F
      BY <2>1, <2>7
    <2> QED BY <1>5, <2>1, <2>8, <2>9
  <1> QED BY <1>2, <1>4, <1>6, <1>7, ArriveIs

-----------------------------------------------------------------------------
(* Every step.                                                             *)

OfItsFiles == page.kind = "files" => page.from = page.key

LEMMA InvIs == PageInv <=> Basics /\ Reloads /\ Walks /\ OfItsFiles
  BY DEF PageInv, Basics, OfItsFiles

LEMMA PageInitInv == PageInit => PageInv
  <1> SUFFICES ASSUME PageInit PROVE PageInv
    OBVIOUS
  <1>1. page.kind = "none"
    BY DEF PageInit, NoPage
  <1> QED BY <1>1, InitBasics, InvIs DEF Reloads, Walks, OfItsFiles

LEMMA CreateInv == PageInv /\ Create => PageInv'
  <1> SUFFICES ASSUME PageInv, Create PROVE PageInv'
    OBVIOUS
  <1>1. Basics /\ Reloads /\ OfItsFiles /\ Basics'
    BY InvIs, CreateBasics
  <1>2. page.kind \in {"tab", "files", "tasks"}
    BY DEF Create
  <1>3. page.kind \in Kinds /\ page.key \in Keys /\ PageTypeOK
    BY <1>1, <1>2 DEF Basics, PageTypeOK, PageRecs
  <1>4. PICK q : q = Request("create", page.key, 0) /\ Asked(q, "create", page.key, 0)
    BY <1>3, RequestIs DEF Ops
  <1>5. req' = req \cup {q} /\ UNCHANGED <<rows, page, disturbed>>
    BY <1>4 DEF Create, Ask
  <1>6. Reloads'
    BY <1>1, <1>4, <1>5, ReloadsAsked
  <1>7. Walks' /\ OfItsFiles'
    BY <1>1, <1>2, <1>5 DEF Walks, OfItsFiles
  <1> QED BY <1>1, <1>6, <1>7 DEF PageInv, Basics, OfItsFiles

LEMMA DeleteInv ==
  ASSUME PageInv, NEW id, Delete(id)
  PROVE  PageInv'
  <1>1. Basics /\ Reloads /\ OfItsFiles /\ Basics'
    BY InvIs, DeleteBasics
  <1>2. page.kind \in {"tab", "files"} /\ id \in ToSet(page.shown)
    BY DEF Delete
  <1>3. page.kind \in Kinds /\ page.key \in Keys /\ PageTypeOK /\ id \in Nat
    BY <1>1, <1>2 DEF Basics, PageTypeOK, PageRecs
  <1>4. PICK q : q = Request("delete", page.key, id) /\ Asked(q, "delete", page.key, id)
    BY <1>3, RequestIs DEF Ops
  <1>5. req' = req \cup {q} /\ UNCHANGED <<rows, page, disturbed>>
    BY <1>4 DEF Delete, Ask
  <1>6. Reloads'
    BY <1>1, <1>2, <1>4, <1>5, ReloadsAsked
  <1>7. Walks' /\ OfItsFiles'
    BY <1>1, <1>2, <1>5 DEF Walks, OfItsFiles
  <1> QED BY <1>1, <1>6, <1>7 DEF PageInv, Basics, OfItsFiles

LEMMA GoToInv ==
  ASSUME PageInv, NEW key \in Keys, GoTo(key)
  PROVE  PageInv'
  <1>1. Basics /\ Reloads /\ OfItsFiles /\ Basics' /\ Reloads'
    BY InvIs, GoToBasics, ReloadsGoTo
  <1>2. /\ page.kind \in {"files", "tasks"} /\ page'.kind = page.kind /\ page'.from = page.from
        /\ page'.key = IF page.kind = "tasks" THEN key ELSE page.key
    BY <1>1, GoToIs, Zenon
  <1>3. Walks' /\ OfItsFiles'
    BY <1>1, <1>2 DEF Walks, OfItsFiles
  <1> QED BY <1>1, <1>3 DEF PageInv, Basics, OfItsFiles

LEMMA OpenInv ==
  ASSUME PageInv, NEW kind \in Kinds, Open(kind)
  PROVE  PageInv'
  <1>1. Basics /\ Basics' /\ Reloads'
    BY InvIs, OpenBasics, ReloadsOpen
  <1>2. page'.key = Root /\ page'.from = Root /\ Walks'
    BY <1>1, OpenIs, WalksOpen
  <1> QED BY <1>1, <1>2 DEF PageInv, Basics

LEMMA BeginInv ==
  ASSUME PageInv, NEW r \in req, Begin(r)
  PROVE  PageInv'
  <1>1. Basics /\ Reloads /\ Walks /\ OfItsFiles /\ Basics'
    BY InvIs, BeginBasics
  <1>2. /\ page'.mount = page.mount /\ page'.kind = page.kind /\ page'.key = page.key
        /\ page'.from = page.from /\ r.kind = "files"
        /\ r.mount # page.mount => page' = page
        /\ UNCHANGED <<rows, disturbed, erased>>
    BY <1>1, BeginIs, Zenon
  <1>3. PICK q : q.mount = r.mount /\ req' = (req \ {r}) \cup {q}
    BY <1>1, BeginIs, Zenon DEF SameAsk
  <1>4. OfItsFiles'
    BY <1>1, <1>2 DEF OfItsFiles
  <1>5. CASE r.mount = page.mount
    <2>1. page.kind = "files"
      BY <1>1, <1>2, <1>5, OwnIs DEF Own
    <2>2. Reloads' /\ Walks'
      BY <1>2, <2>1 DEF Reloads, Walks
    <2> QED BY <1>1, <1>4, <2>2 DEF PageInv, Basics, OfItsFiles
  <1>6. CASE r.mount # page.mount
    <2>1. Own' = Own /\ page' = page
      BY <1>2, <1>3, <1>6 DEF Own
    <2>2. Reloads'
      BY <1>1, <1>2, <2>1, ReloadsStay
    <2>3. \A p \in Own' : \E o \in Own : Still(p, o)
      BY <2>1 DEF Still, SameAsk
    <2>4. Walks'
      BY <1>1, <1>2, <2>1, <2>3, WalksStay
    <2> QED BY <1>1, <1>4, <2>2, <2>4 DEF PageInv, Basics, OfItsFiles
  <1> QED BY <1>5, <1>6

LEMMA HandleInv ==
  ASSUME PageInv, NEW r \in req, Handle(r)
  PROVE  PageInv'
  <1>1. Basics /\ Reloads /\ Walks /\ OfItsFiles
    BY InvIs
  <1>2. Basics' /\ Reloads' /\ page' = page
    BY <1>1, HandleBasics, ReloadsHandle, HandleIs
  <1>3. Walks' /\ OfItsFiles'
    BY <1>1, <1>2, WalksHandle DEF OfItsFiles
  <1> QED BY <1>2, <1>3 DEF PageInv, Basics, OfItsFiles

LEMMA RefuseInv ==
  ASSUME PageInv, NEW r \in req, Refuse(r)
  PROVE  PageInv'
  <1>1. Basics /\ Reloads /\ Walks /\ OfItsFiles
    BY InvIs
  <1>2. Basics' /\ Reloads' /\ page' = page
    BY <1>1, RefuseBasics, ReloadsRefuse DEF Refuse
  <1>3. Walks' /\ OfItsFiles'
    BY <1>1, <1>2, WalksRefuse DEF OfItsFiles
  <1> QED BY <1>2, <1>3 DEF PageInv, Basics, OfItsFiles

LEMMA OtherInv == PageInv /\ Other => PageInv'
  <1> SUFFICES ASSUME PageInv, Other PROVE PageInv'
    OBVIOUS
  <1>1. Basics /\ Walks /\ OfItsFiles /\ disturbed' = TRUE /\ page' = page
    BY InvIs DEF Other
  <1>2. Basics' /\ Reloads'
    BY <1>1, OtherBasics, NotCalm
  <1>3. Walks' /\ OfItsFiles'
    BY <1>1, <1>2, WalksOther DEF OfItsFiles
  <1> QED BY <1>2, <1>3 DEF PageInv, Basics, OfItsFiles

LEMMA LoseInv ==
  ASSUME PageInv, NEW r \in req, Lose(r)
  PROVE  PageInv'
  <1>1. Basics /\ Walks /\ OfItsFiles
    BY InvIs
  <1>2. Basics' /\ Reloads' /\ SamePage(page', page)
    BY <1>1, LoseKeepsBasics, LoseIs, NotCalm
  <1>3. Walks' /\ OfItsFiles'
    BY <1>1, <1>2, WalksLose DEF OfItsFiles, SamePage
  <1> QED BY <1>2, <1>3 DEF PageInv, Basics, OfItsFiles

LEMMA ArriveInv ==
  ASSUME PageInv, NEW r \in req, Arrive(r)
  PROVE  PageInv'
  <1>1. Basics /\ Reloads /\ Walks /\ OfItsFiles
    BY InvIs
  <1>2. Basics'
    BY <1>1, ArriveBasics
  <1>3. Reloads' /\ Walks'
    BY <1>1, <1>2, ReloadsArrive, WalksArrive
  <1>4. OfItsFiles'
    <2>1. CASE Missed(r) \/ Failed(r)
      <3>1. SamePage(page', page)
        BY <1>1, <2>1, SaidIs DEF Missed, Failed
      <3> QED BY <1>1, <3>1 DEF SamePage, OfItsFiles
    <2>2. CASE r.mount = page.mount /\ page' = Taken(r)
      <3>1. r \in Own
        BY <2>2 DEF Own
      <3>2. r.kind = page.kind
        BY <1>1, <3>1, OwnIs
      <3>3. /\ page'.kind = page.kind
            /\ IF r.op = "load" THEN Loads(page', r) ELSE SamePage(page', page)
        BY <1>1, <2>2, TakenIs
      <3> QED BY <1>1, <3>2, <3>3 DEF Loads, SamePage, OfItsFiles
    <2> QED BY <1>1, <2>1, <2>2, ArriveIs DEF Took, TookAnd
  <1> QED BY <1>2, <1>3, <1>4 DEF PageInv, Basics, OfItsFiles

LEMMA StayInv == PageInv /\ UNCHANGED pageVars => PageInv'
  <1> SUFFICES ASSUME PageInv, UNCHANGED pageVars PROVE PageInv'
    OBVIOUS
  <1>1. UNCHANGED <<rows, top, page, req, sent, disturbed, erased>> /\ Own' = Own
    BY DEF pageVars, Own
  <1>2. Basics /\ Reloads /\ Walks /\ OfItsFiles
    BY InvIs
  <1>3. PageTypeOK' /\ Numbered' /\ OfThePage'
    BY <1>1, <1>2 DEF Basics, PageTypeOK, Numbered, OfThePage, AsAsked
  <1>4. Reloads'
    BY <1>1, <1>2, ReloadsStay
  <1>5. \A q \in Own' : \E r \in Own : Still(q, r)
    BY <1>1 DEF Still, SameAsk
  <1>6. Walks' /\ OfItsFiles'
    BY <1>1, <1>2, <1>3, <1>5, WalksStay DEF OfItsFiles, Basics
  <1> QED BY <1>3, <1>4, <1>6 DEF PageInv, OfItsFiles

\* What is shown and what is in flight add up to the table behind the page, in
\* every order in which the panel answers and the answers come.
THEOREM PageInvariance == PageSpec => []PageInv
  <1>1. PageInv /\ [PageNext]_pageVars => PageInv'
    <2> SUFFICES ASSUME PageInv, [PageNext]_pageVars PROVE PageInv'
      OBVIOUS
    <2>1. CASE Visitor
      BY <2>1, OpenInv, CreateInv, DeleteInv, GoToInv DEF Visitor
    <2>2. CASE Other
      BY <2>2, OtherInv
    <2>3. CASE \E r \in req : Begin(r) \/ Handle(r) \/ Refuse(r) \/ Arrive(r) \/ Lose(r)
      BY <2>3, BeginInv, HandleInv, RefuseInv, ArriveInv, LoseInv
    <2>4. CASE UNCHANGED pageVars
      BY <2>4, StayInv
    <2> QED BY <2>1, <2>2, <2>3, <2>4 DEF PageNext
  <1> QED BY <1>1, PageInitInv, PTL DEF PageSpec

\* The list of a tab or of the tasks, reloaded after every change, is the
\* table, no row twice, once all is answered, if no answer was overtaken, lost
\* or an error and nobody else changed the table.
THEOREM QuietListsAreFresh == PageSpec => []QuietIsFresh
  <1>1. PageInv => QuietIsFresh
    <2> SUFFICES ASSUME PageInv, page.kind \in {"tab", "tasks"}, Quiet, ~disturbed
                 PROVE  /\ ToSet(page.shown) = rows[page.key]
                        /\ Len(page.shown) = Cardinality(rows[page.key])
      BY DEF QuietIsFresh
    <2>1. Basics /\ Reloads
      BY InvIs
    <2>2. Own = {} /\ Calm
      BY DEF Own, Quiet, Calm
    <2>3. page.shown = Newest(rows[page.key])
      BY <2>1, <2>2 DEF Reloads
    <2>4. page.key \in Keys
      BY <2>1 DEF Basics, PageTypeOK, PageRecs
    <2>5. rows[page.key] \subseteq Nat /\ IsFiniteSet(rows[page.key])
      BY <2>1, <2>4, TableIs DEF Basics
    <2> QED BY <2>3, <2>5, NewestIs
  <1> QED BY <1>1, PageInvariance, PTL

\* The files tab names the directory its files came from, in whatever order
\* the answers come; load_tasks does not, so the tasks shown may be of another
\* schedule than the one selected, but not once all is answered on a page that
\* nothing disturbed.
THEOREM ListsAreOfTheirKey == PageSpec => []ListOfItsKey
  <1>1. PageInv => ListOfItsKey
    <2> SUFFICES ASSUME PageInv PROVE ListOfItsKey
      OBVIOUS
    <2>1. Reloads /\ OfItsFiles
      BY InvIs
    <2>2. ASSUME page.kind = "tasks", Quiet, ~disturbed PROVE page.from = page.key
      <3>1. Own = {} /\ Calm
        BY <2>2 DEF Own, Quiet, Calm
      <3> QED BY <2>1, <2>2, <3>1 DEF Reloads
    <2> QED BY <2>1, <2>2 DEF ListOfItsKey, OfItsFiles
  <1> QED BY <1>1, PageInvariance, PTL

\* A client that reads the activity log until a page is short has read every
\* entry that was there when it began, whatever is logged meanwhile, unless
\* entries are erased.
THEOREM WalksMissNone == PageSpec => []WalkMissesNone
  <1>1. PageInv => WalkMissesNone
    BY InvIs DEF Walks, WalkMissesNone
  <1> QED BY <1>1, PageInvariance, PTL

=============================================================================
