--------------------------- MODULE AccessControl ---------------------------
(* Users, refresh tokens and access tokens.  Every call of a gateway
   is a transaction of its own, so a login or a refresh reads the user several
   times while an administrator edits, deactivates or deletes it, another client
   presents the same refresh token, or a logout deletes it.  An access token is
   never looked up again: its claim lasts until it expires.  The first superuser
   is made by whichever replica starts first.
   Users and refresh tokens are numbered in the order they are created, e-mail
   addresses from the one that is configured for the first superuser. *)
EXTENDS Naturals, FiniteSets

CONSTANTS
    Clients,
    Replicas,
    MaxMails,   \* bound: e-mail addresses
    MaxUsers,   \* bound: users ever created
    MaxTokens,  \* bound: refresh tokens ever stored
    MaxEdits    \* bound: edits of users by an administrator

ASSUME AccessAssumption ==
    /\ MaxMails \in Nat \ {0} /\ MaxUsers \in Nat /\ MaxTokens \in Nat /\ MaxEdits \in Nat
    /\ MaxUsers > MaxEdits  \* the bound never stops the startup's insert

Users == 1 .. MaxUsers
Tokens == 1 .. MaxTokens
Mails == 1 .. MaxMails
None == 0

InitialMail == 1  \* INITIAL_SUPERUSER_EMAIL

Claims == {"plain", "super"}

VARIABLES
    user,    \* [Users -> status]; a deleted user's id is not used again
    role,    \* [Users -> claim the users table would give]
    mail,    \* [Users -> e-mail of the row]
    token,   \* [Tokens -> state of the row of refresh_tokens]
    owner,   \* [Tokens -> user of the row]
    parent,  \* [Tokens -> the token it was rotated from, or None]
    access,  \* users with a superuser's access token; no other is told apart
    phase,   \* [Clients -> next step of its request]
    usr,     \* [Clients -> user of the request, or None]
    tok,     \* [Clients -> token presented, None for a login]
    addr,    \* [Clients -> e-mail presented, None for a refresh]
    proved,  \* [Clients -> user whose password was verified, or None]
    claim,   \* [Clients -> claim encoded so far]
    seen,    \* [Clients -> what became of its user since it began]
    boot,    \* [Replicas -> progress of the startup]
    edits    \* edits made

accessVars == <<user, role, mail, token, owner, parent, access, phase, usr, tok,
                addr, proved, claim, seen, boot, edits>>

users == <<user, role, mail>>
rows == <<token, owner, parent>>
request == <<phase, usr, tok, addr, proved, claim, seen>>

AccessTypeOK ==
    /\ user \in [Users -> {"none", "active", "inactive", "deleted"}]
    /\ role \in [Users -> Claims]
    /\ mail \in [Users -> Mails]
    /\ token \in [Tokens -> {"none", "valid", "expired", "used", "revoked", "swept"}]
    /\ owner \in [Tokens -> Users \cup {None}]
    /\ parent \in [Tokens -> Tokens \cup {None}]
    /\ access \subseteq Users
    /\ phase \in [Clients -> {"idle", "password", "active", "sweep", "claim", "store",
                              "load", "rotate", "answer"}]
    /\ usr \in [Clients -> Users \cup {None}]
    /\ tok \in [Clients -> Tokens \cup {None}]
    /\ addr \in [Clients -> Mails \cup {None}]
    /\ proved \in [Clients -> Users \cup {None}]
    /\ claim \in [Clients -> Claims]
    /\ seen \in [Clients -> SUBSET {"active", "super", "moved"}]
    /\ boot \in [Replicas -> {"down", "creating", "up", "failed"}]
    /\ edits \in Nat

AccessInit ==
    /\ user = [u \in Users |-> "none"]
    /\ role = [u \in Users |-> "plain"]
    /\ mail = [u \in Users |-> InitialMail]
    /\ token = [t \in Tokens |-> "none"]
    /\ owner = [t \in Tokens |-> None]
    /\ parent = [t \in Tokens |-> None]
    /\ access = {}
    /\ phase = [c \in Clients |-> "idle"]
    /\ usr = [c \in Clients |-> None]
    /\ tok = [c \in Clients |-> None]
    /\ addr = [c \in Clients |-> None]
    /\ proved = [c \in Clients |-> None]
    /\ claim = [c \in Clients |-> "plain"]
    /\ seen = [c \in Clients |-> {}]
    /\ boot = [r \in Replicas |-> "down"]
    /\ edits = 0

----------------------------------------------------------------------------
(* Rows                                                                    *)

Serving == \E r \in Replicas : boot[r] = "up"

Exists(u) == user[u] \in {"active", "inactive"}

Holders(m) == {u \in Users : Exists(u) /\ mail[u] = m}

Fresh(state, n) == state[n] = "none" /\ \A m \in 1 .. n - 1 : state[m] # "none"

\* What a request could have read of user u.
UserFacts(status, roles, u) ==
    (IF status[u] = "active" THEN {"active"} ELSE {}) \cup
    (IF roles[u] = "super" THEN {"super"} ELSE {})

\* A request in progress notices what becomes true of user u, and that its e-mail
\* is no longer its own.
Notice(u, status, roles, moved) ==
    seen' = [c \in Clients |->
                IF usr[c] = u
                THEN seen[c] \cup UserFacts(status, roles, u)
                             \cup (IF moved THEN {"moved"} ELSE {})
                ELSE seen[c]]

\* The e-mail is unique.
Insert(u, claimed, m) ==
    /\ Fresh(user, u)
    /\ Holders(m) = {}
    /\ mail' = [mail EXCEPT ![u] = m]
    /\ user' = [user EXCEPT ![u] = "active"]
    /\ role' = [role EXCEPT ![u] = claimed]

\* The row of a new refresh token; the foreign key needs the user's row.
StoreRow(n, u, old) ==
    /\ Fresh(token, n)
    /\ Exists(u)
    /\ owner' = [owner EXCEPT ![n] = u]
    /\ parent' = [parent EXCEPT ![n] = old]

----------------------------------------------------------------------------
(* Login: one transaction for each step                                    *)

Begin(c, step, u, t, m) ==
    /\ Serving
    /\ \E n \in Tokens : Fresh(token, n)  \* bound
    /\ phase[c] = "idle"
    /\ phase' = [phase EXCEPT ![c] = step]
    /\ usr' = [usr EXCEPT ![c] = u]
    /\ tok' = [tok EXCEPT ![c] = t]
    /\ addr' = [addr EXCEPT ![c] = m]
    /\ proved' = [proved EXCEPT ![c] = None]
    /\ claim' = [claim EXCEPT ![c] = "plain"]
    /\ seen' = [seen EXCEPT ![c] = UserFacts(user, role, u)]

Goto(c, step) ==
    /\ phase' = [phase EXCEPT ![c] = step]
    /\ UNCHANGED <<usr, tok, addr, proved, claim, seen>>

EndRequest(c) ==
    /\ phase' = [phase EXCEPT ![c] = "idle"]
    /\ usr' = [usr EXCEPT ![c] = None]
    /\ tok' = [tok EXCEPT ![c] = None]
    /\ addr' = [addr EXCEPT ![c] = None]
    /\ proved' = [proved EXCEPT ![c] = None]
    /\ claim' = [claim EXCEPT ![c] = "plain"]
    /\ seen' = [seen EXCEPT ![c] = {}]

\* get_user_id_by_email
Login(c, u) ==
    /\ Exists(u)
    /\ Begin(c, "password", u, None, mail[u])
    /\ UNCHANGED <<users, rows, access, boot, edits>>

\* get_hashed_password, by e-mail again: the password of the user who has it by
\* now.  It is the right one, or the login ends, as it does without a row.
VerifyPassword(c) ==
    /\ phase[c] = "password"
    /\ \/ \E u \in Holders(addr[c]) :
             /\ proved' = [proved EXCEPT ![c] = u]
             /\ phase' = [phase EXCEPT ![c] = "active"]
             /\ UNCHANGED <<usr, tok, addr, claim, seen>>
       \/ EndRequest(c)
    /\ UNCHANGED <<users, rows, access, boot, edits>>

\* Mutant: the user's status is read and not tested.
AnyUserActive(c) ==
    /\ phase[c] = "active"
    /\ Goto(c, IF tok[c] = None THEN "sweep" ELSE "load")
    /\ UNCHANGED <<users, rows, access, boot, edits>>

\* is_user_active, of a login and of a refresh
IsUserActive(c) ==
    /\ phase[c] = "active"
    /\ IF user[usr[c]] = "active"
       THEN Goto(c, IF tok[c] = None THEN "sweep" ELSE "load")
       ELSE EndRequest(c)
    /\ UNCHANGED <<users, rows, access, boot, edits>>

DeleteExpired(c) ==
    /\ phase[c] = "sweep"
    /\ token' = [t \in Tokens |-> IF token[t] = "expired" /\ owner[t] = usr[c]
                                  THEN "swept" ELSE token[t]]
    /\ Goto(c, "claim")
    /\ UNCHANGED <<users, owner, parent, access, boot, edits>>

\* is_superuser answers False for a user that is gone.
IsSuperuser(c) ==
    /\ phase[c] = "claim"
    /\ claim' = [claim EXCEPT ![c] = IF Exists(usr[c]) THEN role[usr[c]] ELSE "plain"]
    /\ phase' = [phase EXCEPT ![c] = "store"]
    /\ UNCHANGED <<users, rows, access, usr, tok, addr, proved, seen, boot, edits>>

Create(c) ==
    /\ phase[c] = "store"
    /\ \/ \E n \in Tokens :
             /\ StoreRow(n, usr[c], None)
             /\ token' = [token EXCEPT ![n] = "valid"]
             /\ Goto(c, "answer")
       \/ ~Exists(usr[c]) /\ EndRequest(c) /\ UNCHANGED rows
    /\ UNCHANGED <<users, access, boot, edits>>

----------------------------------------------------------------------------
(* Refresh and logout                                                      *)

\* get_by_hash: a row that is not expired, or 401
Refresh(c, t) ==
    /\ token[t] = "valid"
    /\ Begin(c, "active", owner[t], t, None)
    /\ UNCHANGED <<users, rows, access, boot, edits>>

GetUser(c) ==
    /\ phase[c] = "load"
    /\ IF Exists(usr[c])
       THEN /\ claim' = [claim EXCEPT ![c] = role[usr[c]]]
            /\ phase' = [phase EXCEPT ![c] = "rotate"]
            /\ UNCHANGED <<usr, tok, addr, proved, seen>>
       ELSE EndRequest(c)
    /\ UNCHANGED <<users, rows, access, boot, edits>>

\* Mutant: the result of the DELETE is not looked at.
RotateAlways(c) ==
    /\ phase[c] = "rotate"
    /\ \E n \in Tokens :
          /\ StoreRow(n, usr[c], tok[c])
          /\ token' = [token EXCEPT ![n] = "valid",
                           ![tok[c]] = IF @ = "valid" THEN "used" ELSE @]
    /\ Goto(c, "answer")
    /\ UNCHANGED <<users, access, boot, edits>>

\* DELETE ... RETURNING and INSERT in one transaction: the row that is gone, or
\* has expired, ends the refresh.
Rotate(c) ==
    /\ phase[c] = "rotate"
    /\ \/ /\ token[tok[c]] = "valid"
          /\ \E n \in Tokens :
                /\ StoreRow(n, usr[c], tok[c])
                /\ token' = [token EXCEPT ![n] = "valid", ![tok[c]] = "used"]
          /\ Goto(c, "answer")
       \/ token[tok[c]] # "valid" /\ EndRequest(c) /\ UNCHANGED rows
    /\ UNCHANGED <<users, access, boot, edits>>

\* Deletes the presented row if it is still there.
Logout(t) ==
    /\ Serving
    /\ token[t] \in {"valid", "expired"}
    /\ token' = [token EXCEPT ![t] = "revoked"]
    /\ UNCHANGED <<users, owner, parent, access, request, boot, edits>>

\* The response; one that is lost leaves its row behind.
ReturnTokens(c) ==
    /\ phase[c] = "answer"
    /\ \/ claim[c] = "super" /\ access' = access \cup {usr[c]}
       \/ UNCHANGED access
    /\ EndRequest(c)
    /\ UNCHANGED <<users, rows, boot, edits>>

----------------------------------------------------------------------------
(* Administration, with the claim of any access token still valid          *)

Edit == edits < MaxEdits /\ edits' = edits + 1

RequireSuperuser == Serving /\ access # {}

CreateUser(u, claimed, m) ==
    /\ RequireSuperuser
    /\ Insert(u, claimed, m)
    /\ Edit
    /\ UNCHANGED <<rows, access, request, boot>>

\* Refresh tokens stay.
PatchUser(u, status, claimed, m) ==
    /\ RequireSuperuser
    /\ Exists(u)
    /\ Holders(m) \subseteq {u}
    /\ <<user[u], role[u], mail[u]>> # <<status, claimed, m>>
    /\ user' = [user EXCEPT ![u] = status]
    /\ role' = [role EXCEPT ![u] = claimed]
    /\ mail' = [mail EXCEPT ![u] = m]
    /\ Notice(u, user', role', m # mail[u])
    /\ Edit
    /\ UNCHANGED <<rows, access, phase, usr, tok, addr, proved, claim, boot>>

\* The rows of the user's refresh tokens go with it.
DeleteUser(u) ==
    /\ RequireSuperuser
    /\ Exists(u)
    /\ user' = [user EXCEPT ![u] = "deleted"]
    /\ token' = [t \in Tokens |-> IF owner[t] = u /\ token[t] \in {"valid", "expired"}
                                  THEN "swept" ELSE token[t]]
    /\ Notice(u, user', role, TRUE)
    /\ Edit
    /\ UNCHANGED <<role, mail, owner, parent, access, phase, usr, tok, addr, proved, claim,
                   boot>>

ExpireAccess(u) ==
    /\ u \in access
    /\ access' = access \ {u}
    /\ UNCHANGED <<users, rows, request, boot, edits>>

ExpireToken(t) ==
    /\ token[t] = "valid"
    /\ token' = [token EXCEPT ![t] = "expired"]
    /\ UNCHANGED <<users, owner, parent, access, request, boot, edits>>

----------------------------------------------------------------------------
(* The first superuser                                                     *)

BootRead(r) ==
    /\ boot[r] = "down"
    /\ boot' = [boot EXCEPT ![r] = IF Holders(InitialMail) = {} THEN "creating" ELSE "up"]
    /\ UNCHANGED <<users, rows, access, request, edits>>

\* The email is unique: the replica that comes second raises, and its startup
\* fails.
BootCreate(r) ==
    /\ boot[r] = "creating"
    /\ \/ /\ \E u \in Users : Insert(u, "super", InitialMail)
          /\ boot' = [boot EXCEPT ![r] = "up"]
       \/ /\ Holders(InitialMail) # {}
          /\ boot' = [boot EXCEPT ![r] = "failed"]
          /\ UNCHANGED users
    /\ UNCHANGED <<rows, access, request, edits>>

\* The container's restart policy
Restart(r) ==
    /\ boot[r] = "failed"
    /\ boot' = [boot EXCEPT ![r] = "down"]
    /\ UNCHANGED <<users, rows, access, request, edits>>

----------------------------------------------------------------------------

ClientStep(c) ==
    \/ \E u \in Users : Login(c, u)
    \/ \E t \in Tokens : Refresh(c, t)
    \/ VerifyPassword(c) \/ IsUserActive(c) \/ DeleteExpired(c) \/ IsSuperuser(c)
    \/ Create(c)
    \/ GetUser(c) \/ Rotate(c) \/ ReturnTokens(c)

Administration ==
    \/ \E u \in Users, claimed \in Claims, m \in Mails : CreateUser(u, claimed, m)
    \/ \E u \in Users, status \in {"active", "inactive"}, claimed \in Claims, m \in Mails :
          PatchUser(u, status, claimed, m)
    \/ \E u \in Users : DeleteUser(u)

AccessNext ==
    \/ \E c \in Clients : ClientStep(c)
    \/ \E t \in Tokens : Logout(t) \/ ExpireToken(t)
    \/ Administration
    \/ \E u \in Users : ExpireAccess(u)
    \/ \E r \in Replicas : BootRead(r) \/ BootCreate(r) \/ Restart(r)

AccessSpec == AccessInit /\ [][AccessNext]_accessVars

----------------------------------------------------------------------------
(* Properties                                                              *)

\* A refresh token ends once: it is rotated to at most one other token, and a
\* token that a logout, a clean-up or a deletion took away has no successor,
\* however many clients present it at the same time (rotate).
TokensEndOnce ==
    \A a, b \in Tokens :
        parent[a] # None =>
            /\ token[parent[a]] = "used"
            /\ parent[b] = parent[a] => a = b

\* An answered login or refresh was justified at some time since the request
\* began, whatever was edited between its reads: the user was active, and was a
\* superuser if the token says so (login, refresh_access_token).  The password of
\* a login was the user's own, unless the user lost the e-mail between the two
\* reads by e-mail: then it may be that of the user who has it now.
AnswersJustified ==
    \A c \in Clients : phase[c] = "answer" =>
        /\ "active" \in seen[c]
        /\ claim[c] = "super" => "super" \in seen[c]
        /\ tok[c] = None => proved[c] = usr[c] \/ "moved" \in seen[c]

\* The initial superuser is created only while there is no user
\* (_ensure_initial_superuser).
CreatedOnlyWhenEmpty ==
    [][\A r \in Replicas : boot[r] = "creating" /\ boot'[r] = "up" =>
          \A u \in Users : ~Exists(u)]_accessVars

============================================================================
