------------------------------ MODULE Memberships ------------------------------
(* Who belongs to which organization, and the session Redis caches of each user.    *)
(* A request loads a user's memberships from Postgres when Redis has none and then  *)
(* caches them; whatever changes them writes Postgres first and deletes the key     *)
(* afterwards.  The calls are separate and no transaction spans both stores.        *)
EXTENDS Integers, FiniteSets

CONSTANTS
    Users, Orgs,
    Invitations,    \* ids of invitations
    Clients,        \* requests that may run at a time
    Founder, Home,  \* who owns which organization at the start
    Granted,        \* the roles that requests name
    PlanUsers,      \* user_count of every organization's plan
    MaxRows,        \* bound: memberships ever inserted
    MaxRequests,    \* bound: requests ever started
    MaxFailures,    \* bound: requests that fail on the way
    None

VARIABLES
    users,          \* the users that have an account
    org,            \* each organization: "none", "live", "renamed" or (soft) "deleted"
    rows,           \* user_organizations; nothing keeps a pair from having two rows
    inserted,       \* rows ever inserted, which numbers them
    cache,          \* Redis: the memberships cached for each user, or None
    invitation,     \* the row of each invitation, or None
    req,            \* the request of each client
    lapsed,         \* users whose session is out of date for a reason named below
    admitted,       \* memberships made through each invitation
    reused,         \* invitations that a login took while another one was about to
    requests, failures

vars == <<users, org, rows, inserted, cache, invitation, req, lapsed, admitted, reused,
          requests, failures>>
stores == <<users, org, rows, inserted, cache, invitation>>

User == 0
Owner == 2
Roles == User .. Owner

MembershipAssumption ==
    /\ None \notin Users \cup Orgs \cup Invitations
    /\ {PlanUsers, MaxRequests, MaxFailures} \subseteq Nat /\ MaxRows \in Nat \ {0}
    /\ Founder \in Users /\ Home \in Orgs /\ Granted \subseteq Roles

Rows == [id : 1 .. MaxRows, user : Users, org : Orgs, role : Roles]
Views == SUBSET [id : 1 .. MaxRows, org : Orgs, role : Roles, name : {"live", "renamed"}]
Idle == [op |-> "none", step |-> "idle", user |-> None, org |-> None, role |-> User,
         inv |-> None, view |-> {}, moved |-> FALSE]

TypeOK ==
    /\ users \subseteq Users
    /\ org \in [Orgs -> {"none", "live", "renamed", "deleted"}]
    /\ rows \subseteq Rows /\ inserted \in 0 .. MaxRows
    /\ \A u \in Users : cache[u] = None \/ cache[u] \in Views
    /\ \A i \in Invitations : invitation[i] = None \/
         invitation[i] \in [user : Users, org : Orgs, role : Roles, used : BOOLEAN]
    /\ \A c \in Clients : /\ req[c].step \in {"idle", "load", "check", "use", "account", "join",
                                              "invite", "write", "drop", "mark", "fill"}
                          /\ req[c].view \in Views
    /\ lapsed \subseteq Users /\ reused \subseteq Invitations
    /\ admitted \in [Invitations -> 0 .. MaxRows]
    /\ requests \in 0 .. MaxRequests /\ failures \in 0 .. MaxFailures

Init ==
    /\ users = {Founder} /\ inserted = 1
    /\ rows = {[id |-> 1, user |-> Founder, org |-> Home, role |-> Owner]}
    /\ org = [o \in Orgs |-> IF o = Home THEN "live" ELSE "none"]
    /\ cache = [u \in Users |-> IF u # Founder THEN None
                 ELSE {[id |-> 1, org |-> Home, role |-> Owner, name |-> "live"]}]
    /\ \E sent \in SUBSET Invitations, u \in Users \ {Founder}, role \in Granted :
         invitation = [i \in Invitations |-> IF i \notin sent THEN None
                        ELSE [user |-> u, org |-> Home, role |-> role, used |-> FALSE]]
    /\ req = [c \in Clients |-> Idle]
    /\ lapsed = {} /\ reused = {} /\ admitted = [i \in Invitations |-> 0]
    /\ requests = 0 /\ failures = 0

--------------------------------------------------------------------------------
Stands(o) == org[o] \in {"live", "renamed"}
Of(u, o) == {r \in rows : r.user = u /\ r.org = o}
MembersOf(o) == {r.user : r \in {s \in rows : s.org = o}}

\* get_user_by_id_query: the memberships of u in organizations that are not deleted.
View(u) == {[id |-> r.id, org |-> r.org, role |-> r.role, name |-> org[r.org]] :
            r \in {s \in rows : s.user = u /\ Stands(s.org)}}

\* The roles the session of u shows it to have in o.
SessionRoles(u, o) == IF cache[u] = None THEN {} ELSE {v.role : v \in {w \in cache[u] : w.org = o}}

Administers(u, o) == \E role \in SessionRoles(u, o) : role > User

\* A view that was loaded before the memberships of the users in U changed is old.
Aged(U) == [c \in Clients |-> [req[c] EXCEPT !.moved = @ \/ req[c].user \in U]]

Insert(u, o, role) ==
    /\ inserted < MaxRows
    /\ inserted' = inserted + 1
    /\ rows' = rows \cup {[id |-> inserted + 1, user |-> u, org |-> o, role |-> role]}

Begin(c, request) ==
    /\ requests < MaxRequests /\ requests' = requests + 1
    /\ req[c].step = "idle"
    /\ req' = [req EXCEPT ![c] = request]
Step(c, step) == req' = [req EXCEPT ![c].step = step]
Finish(c) == req' = [req EXCEPT ![c] = Idle]
Ghosts == UNCHANGED <<lapsed, admitted, reused, requests, failures>>

--------------------------------------------------------------------------------
(* The session of a request, and logging in. *)

\* Redis has nothing for this user: its memberships are about to be loaded.
GetUser(c) ==
    /\ \E u \in users : /\ cache[u] = None
                        /\ Begin(c, [Idle EXCEPT !.op = "session", !.step = "load", !.user = u])
    /\ UNCHANGED <<stores, lapsed, admitted, reused, failures>>

\* The provider calls back; the login names an organization and an invitation, or not.
Callback(c) ==
    /\ \E u \in Users, o \in Orgs \cup {None}, i \in Invitations \cup {None} :
         /\ o = None => i = None
         /\ Begin(c, [Idle EXCEPT !.op = "login", !.step = "load", !.user = u, !.org = o, !.inv = i])
    /\ UNCHANGED <<stores, lapsed, admitted, reused, failures>>

Load(c) ==
    /\ req[c].step = "load"
    /\ LET r == req[c]
           known == r.user \in users
           isNew == r.org # None /\ \A v \in View(r.user) : v.org # r.org
           next == IF r.op = "session" THEN "fill"
                   ELSE IF ~known THEN "account"
                   ELSE IF isNew /\ r.inv # None THEN "check" ELSE "fill"
       IN  req' = [req EXCEPT ![c].op = IF next = "account" THEN "signup" ELSE r.op,
                              ![c].step = next, ![c].view = View(r.user), ![c].moved = FALSE]
    /\ UNCHANGED stores /\ Ghosts

\* A new account in a new organization, or in the one it was sent to if there is room.
\* An organization is made, and stays, before the account is.
CreateAccount(c) ==
    /\ req[c].step = "account"
    /\ IF req[c].org = None
       THEN \E o \in Orgs :
              /\ org[o] = "none"
              /\ org' = [org EXCEPT ![o] = "live"]
              /\ req' = [req EXCEPT ![c].org = o, ![c].role = Owner, ![c].step = "join"]
       ELSE /\ IF Stands(req[c].org)
                  /\ Cardinality({r \in rows : r.org = req[c].org}) < PlanUsers
               THEN Step(c, IF req[c].inv = None THEN "join" ELSE "check")
               ELSE Finish(c)
            /\ UNCHANGED org
    /\ UNCHANGED <<users, rows, inserted, cache, invitation>> /\ Ghosts

\* Mutant: a used invitation is as good as a new one.
CheckInvitationAgain(c) ==
    /\ req[c].step = "check"
    /\ LET r == req[c]
           inv == invitation[r.inv]
           valid == inv # None /\ inv.user = r.user /\ inv.org = r.org
       IN  IF valid THEN req' = [req EXCEPT ![c].step = "use", ![c].role = inv.role]
                    ELSE Finish(c)
    /\ UNCHANGED stores /\ Ghosts

\* check_inv_valid reads the invitation, and marks it in a call of its own.
CheckInvitation(c) ==
    /\ req[c].step = "check"
    /\ LET r == req[c]
           inv == invitation[r.inv]
           valid == inv # None /\ inv.user = r.user /\ inv.org = r.org /\ ~inv.used
       IN  IF valid THEN req' = [req EXCEPT ![c].step = "use", ![c].role = inv.role]
                    ELSE Finish(c)
    /\ UNCHANGED stores /\ Ghosts

\* The update finds no row, and succeeds, when the invitation has been deleted since.
UseInvitation(c) ==
    /\ req[c].step = "use"
    /\ LET i == req[c].inv
       IN  /\ invitation' = IF invitation[i] = None THEN invitation
                            ELSE [invitation EXCEPT ![i].used = TRUE]
           /\ reused' = IF \E d \in Clients \ {c} : req[d].step = "use" /\ req[d].inv = i
                        THEN reused \cup {i} ELSE reused
    /\ Step(c, "join")
    /\ UNCHANGED <<users, org, rows, inserted, cache, lapsed, admitted, requests, failures>>

\* create_user_query makes account and membership in one transaction, which fails when
\* the account has appeared since; a member's request only adds a membership.
Join(c) ==
    /\ req[c].step = "join"
    /\ LET r == req[c]
           signup == r.op = "signup"
       IN  IF signup /\ r.user \in users
           THEN Finish(c) /\ UNCHANGED <<users, rows, inserted, admitted>>
           ELSE /\ Insert(r.user, r.org, r.role)
                /\ users' = users \cup {r.user}
                /\ req' = IF signup
                          THEN [Aged({r.user}) EXCEPT ![c].op = "login", ![c].step = "load"]
                          ELSE [Aged({r.user}) EXCEPT ![c].step = "drop"]
                /\ admitted' = IF r.inv = None THEN admitted
                               ELSE [admitted EXCEPT ![r.inv] = @ + 1]
    /\ UNCHANGED <<org, cache, invitation, lapsed, reused, requests, failures>>

\* The view is cached as it was loaded, also when a login has joined since.
Fill(c) ==
    /\ req[c].step = "fill"
    /\ LET r == req[c]
       IN  /\ cache' = [cache EXCEPT ![r.user] = r.view]
           /\ lapsed' = IF r.moved THEN lapsed \cup {r.user} ELSE lapsed \ {r.user}
    /\ Finish(c)
    /\ UNCHANGED <<users, org, rows, inserted, invitation, admitted, reused, requests, failures>>

--------------------------------------------------------------------------------
(* Changes made by a member, on the strength of what its session says. *)

CreateOrganization(c) ==
    /\ \E u \in users, o \in Orgs :
         /\ org[o] = "none"
         /\ org' = [org EXCEPT ![o] = "live"]
         /\ Begin(c, [Idle EXCEPT !.op = "create", !.step = "join", !.user = u, !.org = o,
                                  !.role = Owner])
    /\ UNCHANGED <<users, rows, inserted, cache, invitation, lapsed, admitted, reused, failures>>

\* add_existing_user_to_org looks for the account: somebody who has one is made a member, a
\* member already or not; anybody else gets an invitation.
PostInvitation(c) ==
    /\ \E caller \in users, u \in Users, o \in Orgs, role \in Granted :
         /\ u # caller /\ Stands(o)
         /\ \E any \in Orgs : Administers(caller, any)
         /\ \E mine \in SessionRoles(caller, o) : role <= mine
         /\ Begin(c, [Idle EXCEPT !.op = "add", !.step = IF u \in users THEN "join" ELSE "invite",
                                  !.user = u, !.org = o, !.role = role])
    /\ UNCHANGED <<stores, lapsed, admitted, reused, failures>>

\* Its error, of the INSERT or of the DEL, is taken for a user without an account.
AddFails(c) ==
    /\ req[c].op = "add" /\ req[c].step \in {"join", "drop"}
    /\ failures < MaxFailures /\ failures' = failures + 1
    /\ lapsed' = IF req[c].step = "drop" THEN lapsed \cup {req[c].user} ELSE lapsed
    /\ Step(c, "invite")
    /\ UNCHANGED <<stores, admitted, reused, requests>>

Invite(c) ==
    /\ req[c].step = "invite"
    /\ \E i \in Invitations :
         /\ invitation[i] = None /\ admitted[i] = 0 /\ \A d \in Clients : req[d].inv # i
         /\ invitation' = [invitation EXCEPT ![i] = [user |-> req[c].user, org |-> req[c].org,
                                                    role |-> req[c].role, used |-> FALSE]]
    /\ Finish(c)
    /\ UNCHANGED <<users, org, rows, inserted, cache>> /\ Ghosts

DeleteInvitation ==
    /\ requests < MaxRequests /\ requests' = requests + 1
    /\ \E i \in Invitations :
         /\ invitation[i] # None
         /\ \E caller \in users : Administers(caller, invitation[i].org)
         /\ invitation' = [invitation EXCEPT ![i] = None]
    /\ UNCHANGED <<users, org, rows, inserted, cache, req, lapsed, admitted, reused, failures>>

\* A role may be given by somebody who has it, to a member (or to oneself).
UpdateUser(c) ==
    /\ \E caller \in users, u \in users, o \in Orgs, role \in Granted :
         /\ \E mine \in SessionRoles(caller, o) : role <= mine /\ (mine > User \/ u = caller)
         /\ u # caller => Stands(o) /\ Of(u, o) # {}
         /\ Begin(c, [Idle EXCEPT !.op = "role", !.step = "write", !.user = u, !.org = o,
                                  !.role = role])
    /\ UNCHANGED <<stores, lapsed, admitted, reused, failures>>

\* The role of the member is compared with the caller's before the row is deleted.
RemoveUser(c) ==
    /\ \E caller \in users, u \in users, o \in Orgs :
         /\ Administers(caller, o)
         /\ \E mine \in SessionRoles(caller, o) : \E r \in Of(u, o) : r.role <= mine
         /\ Begin(c, [Idle EXCEPT !.op = "remove", !.step = "write", !.user = u, !.org = o])
    /\ UNCHANGED <<stores, lapsed, admitted, reused, failures>>

\* update_user_org_role_query and remove_user_from_org_query reach every row of the pair.
Write(c) ==
    /\ req[c].step = "write"
    /\ LET r == req[c]
           others == rows \ Of(r.user, r.org)
       IN  /\ rows' = IF r.op = "remove" THEN others
                      ELSE others \cup {[s EXCEPT !.role = r.role] : s \in Of(r.user, r.org)}
           /\ req' = [Aged({r.user}) EXCEPT ![c].step = "drop"]
    /\ UNCHANGED <<users, org, inserted, cache, invitation>> /\ Ghosts

\* Mutant: who becomes a member keeps the session.
DropUnlessAdded(c) ==
    /\ req[c].step = "drop" /\ req[c].op \in {"role", "remove", "add", "create", "login"}
    /\ cache' = IF req[c].op = "add" THEN cache ELSE [cache EXCEPT ![req[c].user] = None]
    /\ lapsed' = lapsed \ {req[c].user}
    /\ IF req[c].op = "login" THEN Step(c, "fill") ELSE Finish(c)
    /\ UNCHANGED <<users, org, rows, inserted, invitation, admitted, reused, requests, failures>>

\* The DEL that ends a change; a login goes on to cache what it had loaded.
Drop(c) ==
    /\ req[c].step = "drop" /\ req[c].op \in {"role", "remove", "add", "create", "login"}
    /\ cache' = [cache EXCEPT ![req[c].user] = None]
    /\ lapsed' = lapsed \ {req[c].user}
    /\ IF req[c].op = "login" THEN Step(c, "fill") ELSE Finish(c)
    /\ UNCHANGED <<users, org, rows, inserted, invitation, admitted, reused, requests, failures>>

\* A renamed organization: the name first, then the sessions of all its members.
UpdateOrganization(c) ==
    /\ \E caller \in users, o \in Orgs :
         /\ Owner \in SessionRoles(caller, o) /\ org[o] = "live"
         /\ org' = [org EXCEPT ![o] = "renamed"]
         /\ requests < MaxRequests /\ requests' = requests + 1
         /\ req[c].step = "idle"
         /\ req' = [Aged(MembersOf(o)) EXCEPT ![c] = [Idle EXCEPT !.op = "rename", !.step = "drop",
                                                                  !.org = o]]
    /\ UNCHANGED <<users, rows, inserted, cache, invitation, lapsed, admitted, reused, failures>>

DropAll(c) ==
    /\ req[c].step = "drop" /\ req[c].op = "rename"
    /\ cache' = [u \in Users |-> IF u \in MembersOf(req[c].org) THEN None ELSE cache[u]]
    /\ lapsed' = lapsed \ MembersOf(req[c].org)
    /\ Finish(c)
    /\ UNCHANGED <<users, org, rows, inserted, invitation, admitted, reused, requests, failures>>

\* A deleted one: the sessions first; the organization is marked after its datasets.
DeleteOrganization(c) ==
    /\ \E caller \in users, o \in Orgs :
         /\ Owner \in SessionRoles(caller, o)
         /\ Begin(c, [Idle EXCEPT !.op = "delete", !.step = "mark", !.org = o])
         /\ cache' = [u \in Users |-> IF u \in MembersOf(o) THEN None ELSE cache[u]]
         /\ lapsed' = lapsed \ MembersOf(o)
    /\ UNCHANGED <<users, org, rows, inserted, invitation, admitted, reused, failures>>

\* Sessions that were cached in between keep the organization.
MarkDeleted(c) ==
    /\ req[c].step = "mark"
    /\ LET members == MembersOf(req[c].org)
       IN  /\ org' = [org EXCEPT ![req[c].org] = "deleted"]
           /\ req' = [Aged(members) EXCEPT ![c] = Idle]
           /\ lapsed' = lapsed \cup {u \in members : cache[u] # None}
    /\ UNCHANGED <<users, rows, inserted, cache, invitation, admitted, reused, requests, failures>>

\* Postgres or Redis fails, or the server dies: a DEL that was due is not made up for.
RequestFails(c) ==
    /\ failures < MaxFailures /\ failures' = failures + 1
    /\ req[c].step # "idle"
    /\ lapsed' = IF req[c].step # "drop" THEN lapsed
                 ELSE lapsed \cup {u \in Users : u = req[c].user \/
                                     (req[c].op = "rename" /\ u \in MembersOf(req[c].org))}
    /\ Finish(c)
    /\ UNCHANGED <<stores, admitted, reused, requests>>

Next ==
    \/ DeleteInvitation
    \/ \E c \in Clients :
         \/ GetUser(c) \/ Callback(c) \/ Load(c) \/ CreateAccount(c)
         \/ CheckInvitation(c) \/ UseInvitation(c) \/ Join(c) \/ Fill(c)
         \/ CreateOrganization(c) \/ PostInvitation(c) \/ AddFails(c) \/ Invite(c)
         \/ UpdateUser(c) \/ RemoveUser(c)
         \/ Write(c) \/ Drop(c) \/ UpdateOrganization(c) \/ DropAll(c)
         \/ DeleteOrganization(c) \/ MarkDeleted(c) \/ RequestFails(c)

Spec == Init /\ [][Next]_vars

--------------------------------------------------------------------------------
(* A cached session shows the memberships Postgres has, except while a change is    *)
(* about to delete it, and except for the users in `lapsed`: those whose session    *)
(* was cached from a view older than a change (a slow request, or a login that      *)
(* itself joined through an invitation), who were cached while their organization   *)
(* was being deleted, or whose DEL failed.                                          *)
SessionsAreCurrent ==
    \A u \in Users \ lapsed :
        \/ cache[u] = None
        \/ cache[u] = View(u)
        \/ \E c \in Clients : req[c].step = "drop" /\
             (req[c].user = u \/ (req[c].op = "rename" /\ u \in MembersOf(req[c].org)))

(* An invitation makes one membership: not a second one when its user has been      *)
(* removed and follows the link again, only when two logins have read it together.  *)
InvitationAdmitsOnce ==
    \A i \in Invitations \ reused : admitted[i] <= 1
================================================================================
