------------------------- MODULE SessionProperties -------------------------
(* What a token is worth, and for how long.                                *)
EXTENDS Sessions

Roles  == {"user", "admin"}
Tokens == [user : Users, role : Roles, kind : {"access", "refresh"}, exp : Nat,
           read : Nat, login : Nat]
Pending == [what : {"login", "sftp"}, client : Tabs \cup {Api}, user : Users,
            role : Roles, read : Nat, server : Servers \cup {None}]
Pages == {"login"} \cup ClientPages \cup AdminPages
TabStates == [session : Tokens \cup {None}, tok : Tokens \cup {None},
              sub : Tokens \cup {None}, turned : BOOLEAN, page : {"closed"} \cup Pages]

TypeOK ==
    /\ now \in Nat \ {0}
    /\ users \in [Users -> Roles \cup {"never", "gone"}]
    /\ wasRole \in [Users -> Roles \cup {"never"}]
    /\ goneAt \in [Users -> Nat \cup {None}]
    /\ pending \subseteq Pending
    /\ creating \subseteq [user : Users, role : Roles]
    /\ tokens \subseteq Tokens
    /\ nodes \subseteq Nodes
    /\ servers \in [Servers -> [owner : Users \cup {None}, node : Nodes \cup {None}]]
    /\ tab \in [Tabs -> TabStates]

\* However often it is refreshed, a login is worth nothing once the two
\* lifetimes are over: only a refresh token of the login is refreshed, and
\* refreshing gives no refresh token.  (encode_token, decode_token, refresh)
FamilyBound == \A t \in tokens :
    /\ t.login <= now
    /\ t.kind = "refresh" => t.exp <= t.login + RefreshTTL - 1
    /\ t.kind = "access"  => t.exp <= t.login + RefreshTTL + AccessTTL - 2
                             \/ t.exp <= t.login + AccessTTL - 1

\* What a row says never changes while it is there, so a claim nobody checks
\* again is what the row said, and says; and a deleted user's tokens all stem
\* from a login that had read the row before.
ClaimsKept ==
    /\ \A u \in Users : users[u] # "gone" => users[u] = wasRole[u]
    /\ \A u \in Users : users[u] = "gone" <=> goneAt[u] # None
    /\ \A x \in tokens \cup pending :
          /\ x.role = wasRole[x.user]
          /\ x.read <= now
          /\ goneAt[x.user] # None => x.read <= goneAt[x.user]

\* The foreign keys of a server's row, and the server an sftp check names.
References ==
    /\ \A s \in Servers : servers[s].owner # None =>
          Live(servers[s].owner) /\ servers[s].node \in nodes
    /\ \A p \in pending : p.what = "sftp" => p.server \in Servers

\* What a browser keeps is a session a login gave.
Given(x) == x # None =>
    x \in tokens /\ x.kind = "access" /\ x.exp = x.login + AccessTTL - 1

\* A layout that let a tab in did so for the session that is still there, or
\* for one that is gone.
Suits(x) ==
    /\ x.page \in AdminPages /\ ~x.turned =>
          \A tok \in {x.session, x.tok} \ {None} : tok.role = "admin"
    /\ x.page = "detail" => x.session \in {x.tok, None}
    /\ x.sub # None => x.page = "detail" /\ x.sub = x.tok

Fit(x) == Given(x.session) /\ Given(x.tok) /\ Given(x.sub) /\ Suits(x)

Carried == Given(store) /\ \A t \in Tabs : Fit(tab[t])

\* The inductive invariant.
IInv == TypeOK /\ FamilyBound /\ ClaimsKept /\ References /\ Carried

\* A check of sftp_verify passes only for a user who is still there: the row
\* was read before the password was hashed, but a server keeps its owner's row.
SftpSound == [][\A p \in pending : SftpVerify(p) => Live(p.user)]_vars

\* A layout looks at the session once, its pages and their tabs take the token
\* at any time after that, and logins and logouts go on in this tab and the
\* others.  Nonetheless a page of an administrator that is there to stay holds
\* an administrator's token or none; the buttons of a server's page and its
\* tabs never act for two sessions; and all of it, as what is stored, is what a
\* login gave, good for AccessTTL and never refreshed.  A page mounted after a
\* logout holds none.
PageHoldsToken ==
    /\ \A t \in Tabs : tab[t].page \in AdminPages /\ ~tab[t].turned =>
          tab[t].tok = None \/ tab[t].tok.role = "admin"
    /\ \A t \in Tabs : tab[t].sub # None => tab[t].sub = tab[t].tok
    /\ \A x \in ({store} \cup UNION {{tab[t].tok, tab[t].sub} : t \in Tabs}) \ {None} :
          x \in tokens /\ x.kind = "access" /\ x.exp = x.login + AccessTTL - 1

=============================================================================
