--------------------------- MODULE MembershipsProofs ---------------------------
(***************************************************************************)
(* Proofs about Memberships for any number of users, organizations,        *)
(* invitations, requests and failures.                                     *)
(***************************************************************************)
EXTENDS Memberships, TLAPS

Steps == {"idle", "load", "check", "use", "account", "join", "invite", "write", "drop", "mark", "fill"}
Ops   == {"none", "session", "login", "signup", "create", "add", "role", "remove", "rename", "delete"}

Request == [op : Ops, step : Steps, user : Users \cup {None}, org : Orgs \cup {None}, role : Roles,
            inv : Invitations \cup {None}, view : Views, moved : BOOLEAN]

ShapeInv ==
  /\ req \in [Clients -> Request]
  /\ cache \in [Users -> Views \cup {None}]
  /\ invitation \in [Invitations -> [user : Users, org : Orgs, role : Roles, used : BOOLEAN] \cup {None}]
  /\ \A i \in Invitations : admitted[i] <= inserted

\* What a request may rely on at each of its steps: who it is for, that the
\* organization it joins was once made, and that what it is about to cache is
\* what Postgres has unless it knows that this has moved.
RequestAt(c) ==
  LET r == req[c] IN
  /\ r.step \in {"load", "check", "use", "account", "join", "invite", "write", "fill"} => r.user \in Users
  /\ r.step \in {"check", "use"} => r.inv \in Invitations
  /\ r.step = "account" => r.op = "signup" /\ (r.org = None => r.inv = None)
  /\ r.step \in {"load", "check", "use", "join", "write", "mark"} => (r.org = None => r.inv = None)
  /\ r.step \in {"use", "join", "invite"} => r.org \in Orgs /\ org[r.org] # "none"
  /\ r.step \in {"write", "mark"} => r.org \in Orgs
  /\ r.step = "load" /\ r.op = "session" => r.user \in users
  /\ r.step = "load" => r.op \in {"session", "login"}
  /\ r.step \in {"check", "use"} => r.op \in {"signup", "login"}
  /\ r.step = "join" => r.op \in {"signup", "login", "create", "add"}
  /\ r.step = "write" => r.op \in {"role", "remove"}
  /\ r.step = "drop" /\ r.op = "rename" => r.user = None /\ r.org \in Orgs
  /\ r.step = "drop" /\ r.op # "rename" => r.user \in Users
  /\ r.step = "drop" /\ r.op = "login" => r.user \in users /\ r.moved
  /\ r.step = "drop" /\ r.op = "add" => r.org \in Orgs /\ org[r.org] # "none"
  /\ r.step = "fill" => r.user \in users /\ \A u \in Users : u = r.user /\ ~r.moved => r.view = View(u)

RequestInv == \A c \in Clients : RequestAt(c)

\* Only users with an account have a session, and only organizations that
\* were made have members or invitations.
KnownInv ==
  /\ \A u \in Users : cache[u] # None => u \in users
  /\ \A r \in rows : org[r.org] # "none"
  /\ \A i \in Invitations : invitation[i] # None => org[invitation[i].org] # "none"

\* An invitation that admits somebody, or is about to, admits nobody else.
Joins(c, i) == req[c].step = "join" /\ req[c].inv = i
Uses(c, i)  == req[c].step = "use" /\ req[c].inv = i
Spent(i)    == invitation[i] = None \/ invitation[i].used

OnceAt(i) ==
  /\ admitted[i] <= 1
  /\ admitted[i] # 0 => Spent(i) /\ \A c \in Clients : ~Uses(c, i)
  /\ \A c \in Clients : Joins(c, i) =>
       /\ admitted[i] = 0 /\ Spent(i)
       /\ \A d \in Clients : ~Uses(d, i) /\ (Joins(d, i) => d = c)

OnceInv == \A i \in Invitations \ reused : OnceAt(i)

IInv == TypeOK /\ ShapeInv /\ RequestInv /\ KnownInv /\ OnceInv /\ SessionsAreCurrent

LEMMA ConstantTypes ==
  ASSUME MembershipAssumption
  PROVE  /\ None \notin Users /\ None \notin Orgs /\ None \notin Invitations
         /\ PlanUsers \in Nat /\ MaxRequests \in Nat /\ MaxFailures \in Nat
         /\ MaxRows \in Nat /\ MaxRows >= 1
         /\ Founder \in Users /\ Home \in Orgs /\ Granted \subseteq Roles
         /\ User \in Roles /\ Owner \in Roles
BY DEF MembershipAssumption, Roles, User, Owner

--------------------------------------------------------------------------------
(* How requests move.                                                       *)

\* The other requests are where they were; those for a user of U know that
\* the memberships of that user have moved.
Others(c, U) ==
  /\ req' \in [Clients -> Request]
  /\ \A d \in Clients : d # c =>
       /\ req'[d].op = req[d].op /\ req'[d].step = req[d].step /\ req'[d].user = req[d].user
       /\ req'[d].org = req[d].org /\ req'[d].role = req[d].role /\ req'[d].inv = req[d].inv
       /\ req'[d].view = req[d].view
       /\ req'[d].moved <=> req[d].moved \/ req[d].user \in U

LEMMA Replaces ==
  ASSUME ShapeInv, NEW c \in Clients, NEW k \in Request, req' = [req EXCEPT ![c] = k]
  PROVE  Others(c, {}) /\ req'[c] = k
<1>1. /\ req' \in [Clients -> Request] /\ req'[c] = k
      /\ \A d \in Clients : d # c => req'[d] = req[d]
  BY DEF ShapeInv
<1> QED
  BY <1>1 DEF Others

LEMMA IdleIsRequest == Idle \in Request /\ Idle.step = "idle"
BY DEF Idle, Request, Ops, Steps, Views, Roles, User, Owner

\* A request that begins.
LEMMA Begins ==
  ASSUME ShapeInv, NEW c \in Clients, NEW k \in Request, Begin(c, k)
  PROVE  Others(c, {}) /\ req'[c] = k /\ req[c].step = "idle"
BY Replaces DEF Begin

\* A request that goes on to its next step, or is over.
LEMMA GoesOn ==
  ASSUME ShapeInv, NEW c \in Clients, NEW step \in Steps, Step(c, step)
  PROVE  /\ Others(c, {})
         /\ req'[c].step = step
         /\ req'[c].op = req[c].op /\ req'[c].user = req[c].user /\ req'[c].org = req[c].org
         /\ req'[c].role = req[c].role /\ req'[c].inv = req[c].inv /\ req'[c].view = req[c].view
         /\ req'[c].moved = req[c].moved
<1> DEFINE k == [req[c] EXCEPT !.step = step]
<1>1. req[c] \in Request
  BY DEF ShapeInv
<1>2. /\ k \in Request /\ k.step = step
      /\ k.op = req[c].op /\ k.user = req[c].user /\ k.org = req[c].org /\ k.role = req[c].role
      /\ k.inv = req[c].inv /\ k.view = req[c].view /\ k.moved = req[c].moved
  BY <1>1 DEF Request
<1>3. req' = [req EXCEPT ![c] = k]
  BY DEF Step
<1> HIDE DEF k
<1> QED
  BY <1>2, <1>3, Replaces

LEMMA IsOver ==
  ASSUME ShapeInv, NEW c \in Clients, Finish(c)
  PROVE  Others(c, {}) /\ req'[c] = Idle
BY IdleIsRequest, Replaces DEF Finish

LEMMA Ages ==
  ASSUME ShapeInv, NEW c \in Clients, NEW U, NEW k \in Request, req' = [Aged(U) EXCEPT ![c] = k]
  PROVE  Others(c, U) /\ req'[c] = k
<1>1. \A d \in Clients : req[d] \in Request
  BY DEF ShapeInv
<1>2. ASSUME NEW d \in Clients
      PROVE /\ Aged(U)[d] \in Request
            /\ Aged(U)[d].op = req[d].op /\ Aged(U)[d].step = req[d].step
            /\ Aged(U)[d].user = req[d].user /\ Aged(U)[d].org = req[d].org
            /\ Aged(U)[d].role = req[d].role /\ Aged(U)[d].inv = req[d].inv
            /\ Aged(U)[d].view = req[d].view
            /\ Aged(U)[d].moved <=> req[d].moved \/ req[d].user \in U
  BY <1>1 DEF Aged, Request
<1>3. Aged(U) = [d \in Clients |-> Aged(U)[d]]
  BY DEF Aged
<1>4. /\ req' \in [Clients -> Request] /\ req'[c] = k
      /\ \A d \in Clients : d # c => req'[d] = Aged(U)[d]
  BY <1>2, <1>3
<1> QED
  BY <1>2, <1>4 DEF Others

\* The request that made the change ages itself when it is for one of U.
LEMMA AgesItself ==
  ASSUME ShapeInv, NEW c \in Clients, NEW U, NEW op \in Ops, NEW step \in Steps,
         req[c].user \in U,
         req' = [Aged(U) EXCEPT ![c].op = op, ![c].step = step]
  PROVE  /\ Others(c, U)
         /\ req'[c].op = op /\ req'[c].step = step /\ req'[c].moved
         /\ req'[c].user = req[c].user /\ req'[c].org = req[c].org /\ req'[c].inv = req[c].inv
<1> DEFINE k == [req[c] EXCEPT !.moved = TRUE, !.op = op, !.step = step]
<1>1. req[c] \in Request
  BY DEF ShapeInv
<1>2. Aged(U)[c] = [req[c] EXCEPT !.moved = TRUE]
  BY <1>1 DEF Aged, Request
<1>3. req' = [Aged(U) EXCEPT ![c] = k]
  BY <1>1, <1>2 DEF Aged, Request
<1>4. /\ k \in Request /\ k.op = op /\ k.step = step /\ k.moved
      /\ k.user = req[c].user /\ k.org = req[c].org /\ k.inv = req[c].inv
  BY <1>1 DEF Request
<1> HIDE DEF k
<1>5. k \in Request
  BY <1>4, Zenon
<1>6. Others(c, U) /\ req'[c] = k
  BY <1>3, <1>5, Ages
<1>7. req'[c].moved
  BY <1>4, <1>6, Zenon
<1> QED
  BY <1>4, <1>6, <1>7, Zenon

\* A request goes on under what the stores have become.
LEMMA OthersKept ==
  ASSUME RequestInv, NEW c \in Clients, NEW U, Others(c, U), users \subseteq users',
         \A o \in Orgs : org[o] # "none" => org'[o] # "none",
         \A u \in Users \ U : View(u)' = View(u)
  PROVE  \A d \in Clients : d # c => RequestAt(d)'
<1> SUFFICES ASSUME NEW d \in Clients, d # c PROVE RequestAt(d)'
  OBVIOUS
<1>1. RequestAt(d)
  BY DEF RequestInv
<1>2. /\ req'[d].op = req[d].op /\ req'[d].step = req[d].step /\ req'[d].user = req[d].user
      /\ req'[d].org = req[d].org /\ req'[d].role = req[d].role /\ req'[d].inv = req[d].inv
      /\ req'[d].view = req[d].view
      /\ req'[d].moved <=> req[d].moved \/ req[d].user \in U
  BY DEF Others
<1>3. \A u \in Users : req[d].step = "fill" /\ u = req'[d].user /\ ~req'[d].moved =>
                            req'[d].view = View(u)'
  <2> SUFFICES ASSUME NEW u \in Users, req[d].step = "fill", u = req'[d].user, ~req'[d].moved
               PROVE  req'[d].view = View(u)'
    OBVIOUS
  <2>1. View(u)' = View(u) /\ req[d].view = View(u)
    BY <1>1, <1>2 DEF RequestAt
  <2> QED
    BY <1>2, <2>1
<1> QED
  BY <1>1, <1>2, <1>3 DEF RequestAt

--------------------------------------------------------------------------------
(* What the memberships of a user are made of.                              *)

LEMMA ViewTypes ==
  ASSUME TypeOK, NEW u
  PROVE  View(u) \in Views
<1> SUFFICES ASSUME NEW r \in rows, Stands(r.org)
             PROVE  [id |-> r.id, org |-> r.org, role |-> r.role, name |-> org[r.org]] \in
                    [id : 1 .. MaxRows, org : Orgs, role : Roles, name : {"live", "renamed"}]
  BY DEF View, Views
<1>1. r \in Rows
  BY DEF TypeOK
<1> QED
  BY <1>1 DEF Rows, Stands

\* The view of a user stays when its rows and the names on them do.
LEMMA ViewKept ==
  ASSUME NEW u,
         \A r \in rows : r.user = u => r \in rows' /\ org'[r.org] = org[r.org],
         \A r \in rows' : r.user = u => r \in rows
  PROVE  View(u)' = View(u)
<1>1. \A v : v \in View(u)' <=> v \in View(u)
  <2>1. ASSUME NEW v, v \in View(u) PROVE v \in View(u)'
    <3>1. PICK r \in rows : /\ r.user = u /\ Stands(r.org)
                            /\ v = [id |-> r.id, org |-> r.org, role |-> r.role, name |-> org[r.org]]
      BY <2>1 DEF View
    <3>2. /\ r \in rows' /\ r.user = u /\ Stands(r.org)'
          /\ v = [id |-> r.id, org |-> r.org, role |-> r.role, name |-> org'[r.org]]
      BY <3>1 DEF Stands
    <3> QED
      BY <3>2 DEF View
  <2>2. ASSUME NEW v, v \in View(u)' PROVE v \in View(u)
    <3>1. PICK r \in rows' : /\ r.user = u /\ Stands(r.org)'
                             /\ v = [id |-> r.id, org |-> r.org, role |-> r.role, name |-> org'[r.org]]
      BY <2>2 DEF View
    <3>2. /\ r \in rows /\ r.user = u /\ Stands(r.org)
          /\ v = [id |-> r.id, org |-> r.org, role |-> r.role, name |-> org[r.org]]
      BY <3>1 DEF Stands
    <3> QED
      BY <3>2 DEF View
  <2> QED
    BY <2>1, <2>2
<1>2. (\A v : v \in View(u)' => v \in View(u)) /\ (\A v : v \in View(u) => v \in View(u)')
  BY <1>1
<1>3. View(u)' \subseteq View(u) /\ View(u) \subseteq View(u)'
  BY <1>2
<1> QED
  BY <1>3

\* A member stays one as long as one of its rows does.
LEMMA MemberKept ==
  ASSUME NEW u, \A r \in rows : r.user = u => \E s \in rows' : s.user = u /\ s.org = r.org
  PROVE  \A o : u \in MembersOf(o) => u \in MembersOf(o)'
BY DEF MembersOf

\* What a step of the request of c leaves to the others: accounts and
\* organizations stay, and only the memberships of U move.
Moved(c, U) ==
  /\ Others(c, U) /\ RequestAt(c)'
  /\ users \subseteq users'
  /\ \A o \in Orgs : org[o] # "none" => org'[o] # "none"
  /\ \A u \in Users \ U : View(u)' = View(u) /\ \A o : u \in MembersOf(o) => u \in MembersOf(o)'

LEMMA RequestsKept ==
  ASSUME RequestInv, NEW c \in Clients, NEW U, Moved(c, U)
  PROVE  RequestInv'
<1>1. \A d \in Clients : d # c => RequestAt(d)'
  BY OthersKept DEF Moved
<1>2. \A d \in Clients : RequestAt(d)'
  BY <1>1 DEF Moved
<1> QED
  BY <1>2 DEF RequestInv

\* A step that leaves the rows, and the organizations that were made.
LEMMA NothingMoved ==
  ASSUME KnownInv, TypeOK, NEW c \in Clients, Others(c, {}), RequestAt(c)', users' = users, rows' = rows,
         \A o \in Orgs : org[o] = "none" \/ org'[o] = org[o]
  PROVE  Moved(c, {})
<1>1. \A r \in rows : org'[r.org] = org[r.org]
  BY DEF KnownInv, TypeOK, Rows
<1>2. \A u \in Users : View(u)' = View(u)
  BY <1>1, ViewKept
<1>3. \A u \in Users : \A o : u \in MembersOf(o) => u \in MembersOf(o)'
  BY DEF MembersOf
<1> QED
  BY <1>2, <1>3 DEF Moved

--------------------------------------------------------------------------------
(* Each action: what it makes of its request, and what it moves.            *)

\* The request has nothing to do with an invitation now.
Plain(c) == \A i \in Invitations : ~Joins(c, i) /\ ~Uses(c, i)

\* A request that begins without touching what Postgres has of memberships.
LEMMA BeginsMoves ==
  ASSUME MembershipAssumption, IInv, NEW c \in Clients, NEW k \in Request, Begin(c, k),
         users' = users, rows' = rows, \A p \in Orgs : org[p] = "none" \/ org'[p] = org[p],
         \/ k.op = "session" /\ k.step = "load" /\ k.user \in users /\ k.inv = None
         \/ k.op = "login" /\ k.step = "load" /\ k.user \in Users /\ (k.org = None => k.inv = None)
         \/ /\ k.op \in {"create", "add"} /\ k.step \in {"join", "invite"} /\ k.inv = None
            /\ k.user \in Users /\ k.org \in Orgs /\ org'[k.org] # "none"
         \/ k.op \in {"role", "remove"} /\ k.step = "write" /\ k.user \in Users /\ k.org \in Orgs /\ k.inv = None
         \/ k.op = "delete" /\ k.step = "mark" /\ k.org \in Orgs /\ k.inv = None
  PROVE  /\ Moved(c, {}) /\ Plain(c)' /\ req[c].step = "idle" /\ req'[c].step = k.step
<1>1. Others(c, {}) /\ req'[c] = k /\ req[c].step = "idle"
  BY Begins DEF IInv
<1>2. users \subseteq Users
  BY DEF IInv, TypeOK
<1>3. RequestAt(c)'
  BY <1>1, <1>2, ConstantTypes DEF RequestAt
<1>4. Plain(c)'
  BY <1>1, ConstantTypes DEF Plain, Joins, Uses
<1>5. Moved(c, {})
  BY <1>1, <1>3, NothingMoved DEF IInv
<1> QED
  BY <1>1, <1>4, <1>5

\* A request whose session is not cached.
LEMMA GetUserMoves ==
  ASSUME MembershipAssumption, IInv, NEW c \in Clients, GetUser(c)
  PROVE  Moved(c, {}) /\ Plain(c)' /\ req[c].step = "idle" /\ req'[c].step = "load"
<1>1. PICK u \in users :
        Begin(c, [Idle EXCEPT !.op = "session", !.step = "load", !.user = u])
  BY DEF GetUser
<1> DEFINE k == [Idle EXCEPT !.op = "session", !.step = "load", !.user = u]
<1>2. u \in Users
  BY <1>1, ConstantTypes DEF IInv, TypeOK
<1>3. /\ k \in Request
      /\ k.op = "session" /\ k.step = "load" /\ k.user = u /\ k.inv = None
  BY <1>2, IdleIsRequest, ConstantTypes DEF Request, Idle, Ops, Steps
<1>4. Begin(c, k)
  BY <1>1
<1> HIDE DEF k
<1>5. users' = users /\ rows' = rows /\ org' = org
  BY DEF GetUser, stores
<1> QED
  BY <1>1, <1>2, <1>3, <1>4, <1>5, BeginsMoves

\* A login.
LEMMA CallbackMoves ==
  ASSUME MembershipAssumption, IInv, NEW c \in Clients, Callback(c)
  PROVE  Moved(c, {}) /\ Plain(c)' /\ req[c].step = "idle" /\ req'[c].step = "load"
<1>1. PICK u \in Users, o \in Orgs \cup {None}, i \in Invitations \cup {None} :
        /\ o = None => i = None
        /\ Begin(c, [Idle EXCEPT !.op = "login", !.step = "load", !.user = u, !.org = o, !.inv = i])
  BY DEF Callback
<1> DEFINE k == [Idle EXCEPT !.op = "login", !.step = "load", !.user = u, !.org = o, !.inv = i]
<1>2. u \in Users
  BY <1>1, ConstantTypes DEF IInv, TypeOK
<1>3. /\ k \in Request
      /\ k.op = "login" /\ k.step = "load" /\ k.user = u /\ k.org = o /\ k.inv = i
  BY <1>2, IdleIsRequest, ConstantTypes DEF Request, Idle, Ops, Steps
<1>4. Begin(c, k)
  BY <1>1
<1> HIDE DEF k
<1>5. users' = users /\ rows' = rows /\ org' = org
  BY DEF Callback, stores
<1> QED
  BY <1>1, <1>2, <1>3, <1>4, <1>5, BeginsMoves

\* The organization is new, so nobody was a member of it.
LEMMA CreateOrganizationMoves ==
  ASSUME MembershipAssumption, IInv, NEW c \in Clients, CreateOrganization(c)
  PROVE  Moved(c, {}) /\ Plain(c)' /\ req[c].step = "idle" /\ req'[c].step = "join"
<1>1. PICK u \in users, o \in Orgs :
        /\ org[o] = "none" /\ org' = [org EXCEPT ![o] = "live"]
        /\ Begin(c, [Idle EXCEPT !.op = "create", !.step = "join", !.user = u, !.org = o, !.role = Owner])
  BY DEF CreateOrganization
<1> DEFINE k == [Idle EXCEPT !.op = "create", !.step = "join", !.user = u, !.org = o, !.role = Owner]
<1>2. u \in Users /\ org'[o] # "none" /\ \A p \in Orgs : org[p] = "none" \/ org'[p] = org[p]
  BY <1>1, ConstantTypes DEF IInv, TypeOK
<1>3. /\ k \in Request
      /\ k.op = "create" /\ k.step = "join" /\ k.user = u /\ k.org = o /\ k.inv = None
  BY <1>2, IdleIsRequest, ConstantTypes DEF Request, Idle, Ops, Steps
<1>4. Begin(c, k)
  BY <1>1
<1> HIDE DEF k
<1>5. users' = users /\ rows' = rows
  BY DEF CreateOrganization
<1> QED
  BY <1>1, <1>2, <1>3, <1>4, <1>5, BeginsMoves

\* A change of role.
LEMMA UpdateUserMoves ==
  ASSUME MembershipAssumption, IInv, NEW c \in Clients, UpdateUser(c)
  PROVE  Moved(c, {}) /\ Plain(c)' /\ req[c].step = "idle" /\ req'[c].step = "write"
<1>1. PICK u \in users, o \in Orgs, role \in Granted :
        Begin(c, [Idle EXCEPT !.op = "role", !.step = "write", !.user = u, !.org = o, !.role = role])
  BY DEF UpdateUser
<1> DEFINE k == [Idle EXCEPT !.op = "role", !.step = "write", !.user = u, !.org = o, !.role = role]
<1>2. u \in Users /\ role \in Roles
  BY <1>1, ConstantTypes DEF IInv, TypeOK
<1>3. /\ k \in Request
      /\ k.op = "role" /\ k.step = "write" /\ k.user = u /\ k.org = o /\ k.inv = None
  BY <1>2, IdleIsRequest, ConstantTypes DEF Request, Idle, Ops, Steps
<1>4. Begin(c, k)
  BY <1>1
<1> HIDE DEF k
<1>5. users' = users /\ rows' = rows /\ org' = org
  BY DEF UpdateUser, stores
<1> QED
  BY <1>1, <1>2, <1>3, <1>4, <1>5, BeginsMoves

\* A member is removed.
LEMMA RemoveUserMoves ==
  ASSUME MembershipAssumption, IInv, NEW c \in Clients, RemoveUser(c)
  PROVE  Moved(c, {}) /\ Plain(c)' /\ req[c].step = "idle" /\ req'[c].step = "write"
<1>1. PICK u \in users, o \in Orgs :
        Begin(c, [Idle EXCEPT !.op = "remove", !.step = "write", !.user = u, !.org = o])
  BY DEF RemoveUser
<1> DEFINE k == [Idle EXCEPT !.op = "remove", !.step = "write", !.user = u, !.org = o]
<1>2. u \in Users
  BY <1>1, ConstantTypes DEF IInv, TypeOK
<1>3. /\ k \in Request
      /\ k.op = "remove" /\ k.step = "write" /\ k.user = u /\ k.org = o /\ k.inv = None
  BY <1>2, IdleIsRequest, ConstantTypes DEF Request, Idle, Ops, Steps
<1>4. Begin(c, k)
  BY <1>1
<1> HIDE DEF k
<1>5. users' = users /\ rows' = rows /\ org' = org
  BY DEF RemoveUser, stores
<1> QED
  BY <1>1, <1>2, <1>3, <1>4, <1>5, BeginsMoves

\* The sessions are dropped as the request begins; Postgres follows.
LEMMA DeleteOrganizationMoves ==
  ASSUME MembershipAssumption, IInv, NEW c \in Clients, DeleteOrganization(c)
  PROVE  Moved(c, {}) /\ Plain(c)' /\ req[c].step = "idle" /\ req'[c].step = "mark"
<1>1. PICK o \in Orgs :
        Begin(c, [Idle EXCEPT !.op = "delete", !.step = "mark", !.org = o])
  BY DEF DeleteOrganization
<1> DEFINE k == [Idle EXCEPT !.op = "delete", !.step = "mark", !.org = o]
<1>2. o \in Orgs
  BY <1>1, ConstantTypes DEF IInv, TypeOK
<1>3. /\ k \in Request
      /\ k.op = "delete" /\ k.step = "mark" /\ k.org = o /\ k.inv = None
  BY <1>2, IdleIsRequest, ConstantTypes DEF Request, Idle, Ops, Steps
<1>4. Begin(c, k)
  BY <1>1
<1> HIDE DEF k
<1>5. users' = users /\ rows' = rows /\ org' = org
  BY DEF DeleteOrganization
<1> QED
  BY <1>1, <1>2, <1>3, <1>4, <1>5, BeginsMoves

\* Nothing but the invitations moves, and no request does.
LEMMA NoRequestMoves ==
  ASSUME RequestInv, UNCHANGED <<req, users, org, rows>>
  PROVE  RequestInv'
<1>1. \A u \in Users : View(u)' = View(u)
  BY DEF View, Stands
<1> QED
  BY <1>1 DEF RequestInv, RequestAt

\* Somebody with an account is about to be added, anybody else to be invited.
LEMMA PostInvitationMoves ==
  ASSUME MembershipAssumption, IInv, NEW c \in Clients, PostInvitation(c)
  PROVE  Moved(c, {}) /\ Plain(c)' /\ req[c].step = "idle" /\ req'[c].step \in {"join", "invite"}
<1>1. PICK u \in Users, o \in Orgs, role \in Granted :
        /\ Stands(o)
        /\ Begin(c, [Idle EXCEPT !.op = "add", !.step = IF u \in users THEN "join" ELSE "invite",
                                 !.user = u, !.org = o, !.role = role])
  BY DEF PostInvitation
<1> DEFINE step == IF u \in users THEN "join" ELSE "invite"
           k == [Idle EXCEPT !.op = "add", !.step = step, !.user = u, !.org = o, !.role = role]
<1>2. role \in Roles /\ step \in {"join", "invite"}
  BY ConstantTypes
<1>3. Begin(c, k)
  BY <1>1
<1> HIDE DEF step
<1>4. /\ k \in Request
      /\ k.op = "add" /\ k.step = step /\ k.user = u /\ k.org = o /\ k.inv = None
  BY <1>2, IdleIsRequest, ConstantTypes DEF Request, Idle, Ops, Steps
<1> HIDE DEF k
<1>5. users' = users /\ rows' = rows /\ org' = org /\ org[o] # "none"
  BY <1>1 DEF PostInvitation, Stands, stores
<1> QED
  BY <1>2, <1>3, <1>4, <1>5, BeginsMoves

\* The memberships that a login or a session will cache, and what comes next.
LEMMA LoadMoves ==
  ASSUME MembershipAssumption, IInv, NEW c \in Clients, Load(c)
  PROVE  Moved(c, {}) /\ Plain(c)' /\ req[c].step = "load" /\ req'[c].step # "drop"
<1> DEFINE r == req[c]
           known == r.user \in users
           isNew == r.org # None /\ \A v \in View(r.user) : v.org # r.org
           next == IF r.op = "session" THEN "fill"
                   ELSE IF ~known THEN "account"
                   ELSE IF isNew /\ r.inv # None THEN "check" ELSE "fill"
           op == IF next = "account" THEN "signup" ELSE r.op
           k == [r EXCEPT !.op = op, !.step = next, !.view = View(r.user), !.moved = FALSE]
<1>1. r.step = "load" /\ req' = [req EXCEPT ![c].op = op, ![c].step = next, ![c].view = View(r.user), ![c].moved = FALSE]
  BY DEF Load
<1>2. r \in Request /\ RequestAt(c)
  BY DEF IInv, ShapeInv, RequestInv
<1>3. r.user \in Users /\ r.op \in {"session", "login"} /\ (r.org = None => r.inv = None)
      /\ (r.op = "session" => r.user \in users)
  BY <1>1, <1>2 DEF RequestAt
<1>4. /\ next \in {"fill", "account", "check"} /\ (next = "fill" => r.user \in users)
      /\ (next = "check" => r.inv # None /\ op = "login") /\ (next = "account" <=> op = "signup") /\ op \in Ops
  BY <1>3 DEF Ops
<1>5. View(r.user) \in Views
  BY ViewTypes DEF IInv
<1> HIDE DEF next, op
<1>6. req' = [req EXCEPT ![c] = k]
  BY <1>1, <1>2 DEF ShapeInv, IInv, Request
<1>7. /\ k \in Request
      /\ k.op = op /\ k.step = next /\ k.user = r.user /\ k.org = r.org /\ k.inv = r.inv /\ k.view = View(r.user)
  BY <1>2, <1>4, <1>5 DEF Request, Steps
<1> HIDE DEF k
<1>8. k \in Request
  BY <1>7, Zenon
<1>9. Others(c, {}) /\ req'[c] = k
  BY <1>6, <1>8, Replaces DEF IInv
<1>10. users' = users /\ rows' = rows /\ org' = org
  BY DEF Load, stores
<1>11. \A u \in Users : View(u)' = View(u)
  BY <1>10 DEF View, Stands
<1>12. r.inv \in Invitations \cup {None}
  BY <1>2 DEF Request
<1>13. RequestAt(c)'
  BY <1>3, <1>4, <1>7, <1>9, <1>10, <1>11, <1>12 DEF RequestAt
<1>14. Plain(c)'
  BY <1>4, <1>7, <1>9 DEF Plain, Joins, Uses
<1>15. Moved(c, {})
  BY <1>9, <1>10, <1>13, NothingMoved DEF IInv
<1> QED
  BY <1>1, <1>4, <1>7, <1>9, <1>14, <1>15

\* A request that is over asks nothing.
LEMMA FinishMoves ==
  ASSUME MembershipAssumption, IInv, NEW c \in Clients, Finish(c), UNCHANGED <<users, org, rows>>
  PROVE  Moved(c, {}) /\ Plain(c)' /\ req'[c].step = "idle"
<1>1. Others(c, {}) /\ req'[c] = Idle
  BY IsOver DEF IInv
<1>2. RequestAt(c)' /\ Plain(c)'
  BY <1>1, IdleIsRequest DEF RequestAt, Plain, Joins, Uses
<1> QED
  BY <1>1, <1>2, IdleIsRequest, NothingMoved DEF IInv

\* A failed membership goes on to an invitation.
LEMMA AddFailsMoves ==
  ASSUME MembershipAssumption, IInv, NEW c \in Clients, AddFails(c)
  PROVE  Moved(c, {}) /\ Plain(c)' /\ req[c].op = "add" /\ req'[c].step = "invite"
<1>1. /\ req[c] \in Request /\ RequestAt(c) /\ req[c].op = "add" /\ req[c].step \in {"join", "drop"}
      /\ Step(c, "invite") /\ UNCHANGED <<users, org, rows>>
  BY DEF IInv, ShapeInv, RequestInv, AddFails, stores
<1>2. req[c].user \in Users /\ req[c].org \in Orgs /\ org[req[c].org] # "none"
  BY <1>1 DEF RequestAt
<1>3. /\ Others(c, {}) /\ req'[c].step = "invite" /\ req'[c].user = req[c].user /\ req'[c].org = req[c].org
  <2>1. "invite" \in Steps
    BY DEF Steps
  <2> QED
    BY <1>1, <2>1, GoesOn DEF IInv
<1>4. RequestAt(c)'
  BY <1>1, <1>2, <1>3 DEF RequestAt
<1>5. Plain(c)'
  BY <1>3 DEF Plain, Joins, Uses
<1> QED
  BY <1>1, <1>3, <1>4, <1>5, NothingMoved DEF IInv

\* The invitation of a request: one that admitted nobody, and that nobody follows.
LEMMA InviteMoves ==
  ASSUME MembershipAssumption, IInv, NEW c \in Clients, Invite(c)
  PROVE  /\ Moved(c, {}) /\ Plain(c)' /\ req[c].step = "invite"
         /\ \E i \in Invitations, u \in Users, o \in Orgs, role \in Roles :
              /\ admitted[i] = 0 /\ (\A d \in Clients : req[d].inv # i) /\ org[o] # "none"
              /\ invitation' = [invitation EXCEPT ![i] = [user |-> u, org |-> o, role |-> role, used |-> FALSE]]
<1>1. req[c].step = "invite" /\ Finish(c) /\ UNCHANGED <<users, org, rows>>
  BY DEF Invite
<1>2. req[c].user \in Users /\ req[c].org \in Orgs /\ org[req[c].org] # "none" /\ req[c].role \in Roles
  BY <1>1 DEF IInv, ShapeInv, Request, RequestInv, RequestAt
<1>3. Moved(c, {}) /\ Plain(c)'
  BY <1>1, FinishMoves
<1>4. PICK i \in Invitations :
        /\ admitted[i] = 0 /\ \A d \in Clients : req[d].inv # i
        /\ invitation' = [invitation EXCEPT ![i] = [user |-> req[c].user, org |-> req[c].org,
                                                   role |-> req[c].role, used |-> FALSE]]
  BY DEF Invite
<1> QED
  BY <1>1, <1>2, <1>3, <1>4

\* A new account in its own organization, which it makes, or where it was sent.
LEMMA CreateAccountMoves ==
  ASSUME MembershipAssumption, IInv, NEW c \in Clients, CreateAccount(c)
  PROVE  Moved(c, {}) /\ Plain(c)' /\ req[c].step = "account" /\ req'[c].step # "drop"
<1>1. req[c] \in Request /\ RequestAt(c) /\ req[c].step = "account" /\ users' = users /\ rows' = rows
  BY DEF IInv, ShapeInv, RequestInv, CreateAccount
<1>2. /\ req[c].user \in Users /\ req[c].op = "signup" /\ (req[c].org = None => req[c].inv = None)
      /\ req[c].org \in Orgs \cup {None} /\ req[c].inv \in Invitations \cup {None}
  BY <1>1 DEF RequestAt, Request
<1>3. CASE req[c].org = None
  <2>1. PICK o \in Orgs :
          /\ org[o] = "none" /\ org' = [org EXCEPT ![o] = "live"]
          /\ req' = [req EXCEPT ![c].org = o, ![c].role = Owner, ![c].step = "join"]
    BY <1>3 DEF CreateAccount
  <2> DEFINE k == [req[c] EXCEPT !.org = o, !.role = Owner, !.step = "join"]
  <2>2. req' = [req EXCEPT ![c] = k]
    BY <1>1, <2>1 DEF ShapeInv, IInv, Request
  <2>3. /\ k \in Request
        /\ k.step = "join" /\ k.org = o /\ k.op = req[c].op /\ k.user = req[c].user /\ k.inv = req[c].inv
    BY <1>1, ConstantTypes DEF Request, Steps
  <2> HIDE DEF k
  <2>4. k \in Request
    BY <2>3, Zenon
  <2>5. Others(c, {}) /\ req'[c] = k
    BY <2>2, <2>4, Replaces DEF IInv
  <2>6. org'[o] # "none" /\ \A p \in Orgs : org[p] = "none" \/ org'[p] = org[p]
    BY <2>1 DEF IInv, TypeOK
  <2>7. RequestAt(c)'
    BY <1>2, <1>3, <2>3, <2>5, <2>6, ConstantTypes DEF RequestAt
  <2>8. Plain(c)'
    BY <1>2, <1>3, <2>3, <2>5, ConstantTypes DEF Plain, Joins, Uses
  <2> QED
    BY <1>1, <2>3, <2>5, <2>6, <2>7, <2>8, NothingMoved DEF IInv
<1>4. CASE req[c].org # None /\ Stands(req[c].org) /\ Step(c, IF req[c].inv = None THEN "join" ELSE "check")
  <2> DEFINE step == IF req[c].inv = None THEN "join" ELSE "check"
  <2>1. step \in Steps /\ Step(c, step)
    BY <1>4 DEF Steps
  <2>2. /\ Others(c, {}) /\ req'[c].step = step
        /\ req'[c].op = req[c].op /\ req'[c].user = req[c].user /\ req'[c].org = req[c].org
        /\ req'[c].inv = req[c].inv
    BY <2>1, GoesOn DEF IInv
  <2>3. org' = org
    BY <1>4 DEF CreateAccount
  <2>4. RequestAt(c)'
    BY <1>2, <1>4, <2>2, <2>3 DEF RequestAt, Stands
  <2>5. Plain(c)'
    BY <1>2, <2>2, ConstantTypes DEF Plain, Joins, Uses
  <2> QED
    BY <1>1, <2>2, <2>3, <2>4, <2>5, NothingMoved DEF IInv
<1>5. CASE req[c].org # None /\ Finish(c)
  <2>1. org' = org
    BY <1>5 DEF CreateAccount
  <2> QED
    BY <1>1, <1>5, <2>1, FinishMoves
<1>6. req[c].org # None =>
        (Stands(req[c].org) /\ Step(c, IF req[c].inv = None THEN "join" ELSE "check")) \/ Finish(c)
  BY DEF CreateAccount
<1> QED
  BY <1>3, <1>4, <1>5, <1>6

\* A login that finds its invitation valid is about to use it.
LEMMA CheckInvitationMoves ==
  ASSUME MembershipAssumption, IInv, NEW c \in Clients, CheckInvitation(c)
  PROVE  /\ Moved(c, {}) /\ req[c].step = "check" /\ req'[c].step # "drop"
         /\ \A i \in Invitations : ~Joins(c, i)'
         /\ \A i \in Invitations : Uses(c, i)' => invitation[i] # None /\ ~invitation[i].used
<1> DEFINE inv == invitation[req[c].inv]
<1>1. /\ req[c] \in Request /\ RequestAt(c) /\ req[c].step = "check"
      /\ users' = users /\ rows' = rows /\ org' = org
  BY DEF IInv, ShapeInv, RequestInv, CheckInvitation, stores
<1>2. req[c].user \in Users /\ req[c].inv \in Invitations /\ (req[c].org = None => req[c].inv = None)
  BY <1>1 DEF RequestAt
<1>3. CASE /\ inv # None /\ inv.user = req[c].user /\ inv.org = req[c].org /\ ~inv.used
           /\ req' = [req EXCEPT ![c].step = "use", ![c].role = inv.role]
  <2>1. inv \in [user : Users, org : Orgs, role : Roles, used : BOOLEAN]
    BY <1>2, <1>3 DEF IInv, ShapeInv
  <2>2. inv.role \in Roles /\ req[c].org \in Orgs /\ org[req[c].org] # "none"
    BY <1>2, <1>3, <2>1 DEF IInv, KnownInv
  <2> DEFINE k == [req[c] EXCEPT !.step = "use", !.role = inv.role]
  <2>3. req' = [req EXCEPT ![c] = k]
    BY <1>1, <1>3 DEF ShapeInv, IInv, Request
  <2>4. /\ k \in Request
        /\ k.step = "use" /\ k.op = req[c].op
        /\ k.org = req[c].org /\ k.user = req[c].user /\ k.inv = req[c].inv
    BY <1>1, <2>2 DEF Request, Steps
  <2> HIDE DEF k
  <2>5. k \in Request
    BY <2>4, Zenon
  <2>6. Others(c, {}) /\ req'[c] = k
    BY <2>3, <2>5, Replaces DEF IInv
  <2>7. RequestAt(c)'
    BY <1>1, <1>2, <2>2, <2>4, <2>6 DEF RequestAt
  <2>8. \A i \in Invitations : ~Joins(c, i)' /\ (Uses(c, i)' => i = req[c].inv)
    BY <2>4, <2>6 DEF Joins, Uses
  <2>9. Moved(c, {})
    BY <1>1, <2>6, <2>7, NothingMoved DEF IInv
  <2>10. ASSUME NEW i \in Invitations, Uses(c, i)' PROVE invitation[i] # None /\ ~invitation[i].used
    <3>1. i = req[c].inv
      BY <2>8, <2>10
    <3> QED
      BY <1>3, <3>1
  <2> QED
    BY <1>1, <2>4, <2>6, <2>8, <2>9, <2>10
<1>4. CASE Finish(c)
  BY <1>1, <1>4, FinishMoves DEF Plain
<1> QED
  BY <1>3, <1>4 DEF CheckInvitation

\* The login joins next, with the invitation used.
LEMMA UseInvitationMoves ==
  ASSUME MembershipAssumption, IInv, NEW c \in Clients, UseInvitation(c)
  PROVE  /\ Moved(c, {}) /\ req[c].step = "use" /\ req'[c].step = "join"
         /\ req'[c].inv = req[c].inv /\ req[c].inv \in Invitations
<1>1. /\ req[c] \in Request /\ RequestAt(c) /\ req[c].step = "use"
      /\ users' = users /\ rows' = rows /\ org' = org
  BY DEF IInv, ShapeInv, RequestInv, UseInvitation
<1>2. req[c].op \in Ops /\ Step(c, "join") /\ "join" \in Steps
  BY <1>1 DEF Request, UseInvitation, Steps
<1>3. /\ Others(c, {}) /\ req'[c].step = "join"
      /\ req'[c].op = req[c].op /\ req'[c].user = req[c].user /\ req'[c].org = req[c].org
      /\ req'[c].inv = req[c].inv
  BY <1>2, GoesOn DEF IInv
<1>4. RequestAt(c)'
  BY <1>1, <1>3 DEF RequestAt
<1> QED
  BY <1>1, <1>3, <1>4, NothingMoved DEF IInv, RequestAt

\* A change that has made itself known drops the session of its user next.
LEMMA AgesAndDrops ==
  ASSUME ShapeInv, NEW c \in Clients, NEW U, req[c].user \in U,
         req' = [Aged(U) EXCEPT ![c].step = "drop"]
  PROVE  /\ Others(c, U)
         /\ req'[c].step = "drop" /\ req'[c].moved
         /\ req'[c].op = req[c].op /\ req'[c].user = req[c].user /\ req'[c].org = req[c].org
<1> DEFINE k == [req[c] EXCEPT !.moved = TRUE, !.step = "drop"]
<1>1. req[c] \in Request
  BY DEF ShapeInv
<1>2. Aged(U)[c] = [req[c] EXCEPT !.moved = TRUE]
  BY <1>1 DEF Aged, Request
<1>3. req' = [Aged(U) EXCEPT ![c] = k]
  BY <1>1, <1>2 DEF Aged, Request
<1>4. /\ k \in Request /\ k.step = "drop" /\ k.moved
      /\ k.op = req[c].op /\ k.user = req[c].user /\ k.org = req[c].org
  BY <1>1 DEF Request, Steps
<1> HIDE DEF k
<1>5. k \in Request
  BY <1>4, Zenon
<1>6. Others(c, U) /\ req'[c] = k
  BY <1>3, <1>5, Ages
<1>7. req'[c].moved
  BY <1>4, <1>6, Zenon
<1> QED
  BY <1>4, <1>6, <1>7, Zenon

\* A new member: a signup looks at itself again, everything else drops the session.
LEMMA JoinMoves ==
  ASSUME MembershipAssumption, IInv, NEW c \in Clients, Join(c)
  PROVE  /\ req[c].step = "join" /\ req[c].user \in Users
         /\ \A i \in Invitations : ~Joins(c, i)' /\ ~Uses(c, i)'
         /\ \/ /\ Moved(c, {}) /\ req'[c].step = "idle" /\ UNCHANGED <<users, rows, inserted, admitted>>
            \/ /\ Moved(c, {req[c].user}) /\ Insert(req[c].user, req[c].org, req[c].role)
               /\ req[c].org \in Orgs /\ org[req[c].org] # "none" /\ req[c].role \in Roles
               /\ users' = users \cup {req[c].user}
               /\ admitted' = IF req[c].inv = None THEN admitted
                              ELSE [admitted EXCEPT ![req[c].inv] = @ + 1]
               /\ \/ req[c].user \notin users /\ req'[c].step # "drop"
                  \/ req'[c].step = "drop" /\ req'[c].user = req[c].user
<1>1. /\ req[c] \in Request /\ RequestAt(c) /\ req[c].step = "join" /\ org' = org
  BY DEF IInv, ShapeInv, RequestInv, Join
<1>2. /\ req[c].user \in Users /\ (req[c].org = None => req[c].inv = None)
      /\ req[c].org \in Orgs /\ org[req[c].org] # "none" /\ req[c].role \in Roles
      /\ req[c].op \in {"signup", "login", "create", "add"}
  BY <1>1 DEF RequestAt, Request
<1>3. CASE Finish(c) /\ UNCHANGED <<users, rows, inserted, admitted>>
  BY <1>1, <1>2, <1>3, FinishMoves DEF Plain
<1>4. CASE /\ Insert(req[c].user, req[c].org, req[c].role)
           /\ users' = users \cup {req[c].user}
           /\ ~(req[c].op = "signup" /\ req[c].user \in users)
           /\ req' = IF req[c].op = "signup"
                     THEN [Aged({req[c].user}) EXCEPT ![c].op = "login", ![c].step = "load"]
                     ELSE [Aged({req[c].user}) EXCEPT ![c].step = "drop"]
           /\ admitted' = IF req[c].inv = None THEN admitted
                          ELSE [admitted EXCEPT ![req[c].inv] = @ + 1]
  <2> DEFINE U == {req[c].user}
  <2>1. \A u \in Users \ U : View(u)' = View(u)
    BY <1>1, <1>4, ViewKept DEF Insert
  <2>2. \A u \in Users : \A o : u \in MembersOf(o) => u \in MembersOf(o)'
    BY <1>4 DEF Insert, MembersOf
  <2>3. CASE req[c].op = "signup"
    <3>1. "login" \in Ops /\ "load" \in Steps
      BY DEF Ops, Steps
    <3>2. /\ Others(c, U)
          /\ req'[c].op = "login" /\ req'[c].step = "load"
          /\ req'[c].user = req[c].user /\ req'[c].org = req[c].org /\ req'[c].inv = req[c].inv
      BY <1>4, <2>3, <3>1, AgesItself DEF IInv
    <3>3. RequestAt(c)'
      BY <1>2, <3>2 DEF RequestAt
    <3>4. Moved(c, U)
      BY <1>1, <1>4, <2>1, <2>2, <3>2, <3>3 DEF Moved
    <3> QED
      BY <1>1, <1>2, <1>4, <2>3, <3>2, <3>4 DEF Joins, Uses
  <2>4. CASE req[c].op # "signup"
    <3>1. /\ Others(c, U) /\ req'[c].step = "drop" /\ req'[c].moved
          /\ req'[c].op = req[c].op /\ req'[c].user = req[c].user /\ req'[c].org = req[c].org
      BY <1>4, <2>4, AgesAndDrops DEF IInv
    <3>2. /\ req'[c].step = "drop" /\ req'[c].op \in {"login", "create", "add"}
          /\ req'[c].user \in Users /\ req'[c].user \in users'
          /\ req'[c].org \in Orgs /\ org'[req'[c].org] # "none"
      BY <1>1, <1>2, <1>4, <2>4, <3>1
    <3>3. RequestAt(c)'
      BY <3>1, <3>2 DEF RequestAt
    <3>4. Moved(c, U)
      BY <1>1, <1>4, <2>1, <2>2, <3>1, <3>3 DEF Moved
    <3> QED
      BY <1>1, <1>2, <1>4, <2>4, <3>1, <3>4 DEF Joins, Uses
  <2> QED
    BY <2>3, <2>4
<1> QED
  BY <1>1, <1>3, <1>4 DEF Join

\* A role that changes, or a membership that goes.
LEMMA WriteMoves ==
  ASSUME MembershipAssumption, IInv, NEW c \in Clients, Write(c)
  PROVE  /\ Moved(c, {req[c].user}) /\ Plain(c)' /\ req[c].step = "write" /\ req[c].user \in Users
         /\ req'[c].step = "drop" /\ req'[c].user = req[c].user
         /\ rows' \subseteq Rows /\ \A r \in rows' : \E s \in rows : s.org = r.org
<1> DEFINE U == {req[c].user}
<1>1. /\ req[c] \in Request /\ RequestAt(c) /\ req[c].step = "write"
      /\ org' = org /\ users' = users /\ rows \subseteq Rows
      /\ req' = [Aged(U) EXCEPT ![c].step = "drop"]
  BY DEF IInv, ShapeInv, RequestInv, TypeOK, Write
<1>2. /\ req[c].user \in Users /\ req[c].op \in {"role", "remove"} /\ req[c].role \in Roles
  BY <1>1 DEF RequestAt, Request
<1>3. \A s \in rows : [s EXCEPT !.role = req[c].role] \in Rows
                      /\ [s EXCEPT !.role = req[c].role].org = s.org
                      /\ [s EXCEPT !.role = req[c].role].user = s.user
  BY <1>1, <1>2 DEF Rows
<1>4. /\ \A r \in rows' : r \in rows \/ \E s \in Of(req[c].user, req[c].org) : r = [s EXCEPT !.role = req[c].role]
      /\ \A r \in rows : r \notin Of(req[c].user, req[c].org) => r \in rows'
  BY DEF Write
<1>5. \A r \in rows' : r \in rows \/ (r \in Rows /\ \E s \in rows : r.org = s.org /\ r.user = req[c].user)
  <2> SUFFICES ASSUME NEW r \in rows', r \notin rows
               PROVE  r \in Rows /\ \E s \in rows : r.org = s.org /\ r.user = req[c].user
    OBVIOUS
  <2>1. PICK s \in Of(req[c].user, req[c].org) : r = [s EXCEPT !.role = req[c].role]
    BY <1>4
  <2>2. s \in rows /\ s.user = req[c].user
    BY <2>1 DEF Of
  <2>3. r \in Rows /\ r.org = s.org /\ r.user = s.user
    BY <1>3, <2>1, <2>2
  <2> QED
    BY <2>2, <2>3
<1>6. \A r \in rows : r.user # req[c].user => r \in rows'
  BY <1>4 DEF Of
<1>7. \A u \in Users \ U : View(u)' = View(u)
  BY <1>1, <1>5, <1>6, ViewKept
<1>8. \A u \in Users \ U : \A o : u \in MembersOf(o) => u \in MembersOf(o)'
  BY <1>6 DEF MembersOf
<1>9. /\ Others(c, U) /\ req'[c].step = "drop" /\ req'[c].op = req[c].op /\ req'[c].user = req[c].user
  BY <1>1, AgesAndDrops DEF IInv
<1>10. RequestAt(c)'
  BY <1>2, <1>9 DEF RequestAt
<1>11. Plain(c)'
  BY <1>9 DEF Plain, Joins, Uses
<1>12. Moved(c, U)
  BY <1>1, <1>7, <1>8, <1>9, <1>10 DEF Moved
<1>13. rows' \subseteq Rows /\ \A r \in rows' : \E s \in rows : s.org = r.org
  BY <1>1, <1>5
<1> QED
  BY <1>1, <1>2, <1>9, <1>11, <1>12, <1>13

\* The session is dropped; a login goes on to cache its view, which has moved.
LEMMA DropMoves ==
  ASSUME MembershipAssumption, IInv, NEW c \in Clients, Drop(c)
  PROVE  Moved(c, {}) /\ Plain(c)' /\ req[c].step = "drop" /\ req[c].op # "rename" /\ req'[c].step # "drop"
<1>1. /\ req[c] \in Request /\ RequestAt(c) /\ req[c].step = "drop" /\ req[c].op # "rename"
      /\ org' = org /\ users' = users /\ rows' = rows
  BY DEF IInv, ShapeInv, RequestInv, Drop
<1>2. CASE req[c].op = "login" /\ Step(c, "fill")
  <2>1. "fill" \in Steps
    BY DEF Steps
  <2>2. Others(c, {}) /\ req'[c].step = "fill" /\ req'[c].user = req[c].user /\ req'[c].moved = req[c].moved
    BY <1>2, <2>1, GoesOn DEF IInv
  <2>3. req[c].user \in users /\ req[c].moved
    BY <1>1, <1>2 DEF RequestAt
  <2>4. req'[c].moved
    BY <2>2, <2>3, Zenon
  <2>5. RequestAt(c)'
    BY <1>1, <2>2, <2>3, <2>4 DEF RequestAt
  <2>6. Plain(c)'
    BY <2>2 DEF Plain, Joins, Uses
  <2> QED
    BY <1>1, <2>2, <2>5, <2>6, NothingMoved DEF IInv
<1>3. CASE Finish(c)
  BY <1>1, <1>3, FinishMoves
<1> QED
  BY <1>2, <1>3 DEF Drop

\* Every member of a renamed organization has a session to drop.
LEMMA UpdateOrganizationMoves ==
  ASSUME MembershipAssumption, IInv, NEW c \in Clients, UpdateOrganization(c)
  PROVE  /\ Plain(c)' /\ req[c].step = "idle"
         /\ \E o \in Orgs : /\ Moved(c, MembersOf(o)) /\ org' = [org EXCEPT ![o] = "renamed"]
                            /\ req'[c].step = "drop" /\ req'[c].op = "rename" /\ req'[c].org = o
<1>1. PICK o \in Orgs :
        /\ org' = [org EXCEPT ![o] = "renamed"] /\ req[c].step = "idle"
        /\ req' = [Aged(MembersOf(o)) EXCEPT ![c] = [Idle EXCEPT !.op = "rename", !.step = "drop", !.org = o]]
  BY DEF UpdateOrganization
<1> DEFINE k == [Idle EXCEPT !.op = "rename", !.step = "drop", !.org = o]
           U == MembersOf(o)
<1>2. k \in Request /\ k.op = "rename" /\ k.step = "drop" /\ k.org = o /\ k.user = None
  BY IdleIsRequest DEF Request, Idle, Ops, Steps
<1>3. req' = [Aged(U) EXCEPT ![c] = k]
  BY <1>1
<1> HIDE DEF k
<1>4. k \in Request
  BY <1>2, Zenon
<1>5. Others(c, U) /\ req'[c] = k
  BY <1>3, <1>4, Ages DEF IInv
<1>6. users' = users /\ rows' = rows /\ (\A p \in Orgs \ {o} : org'[p] = org[p]) /\ org'[o] = "renamed"
  BY <1>1 DEF UpdateOrganization, IInv, TypeOK
<1>7. \A u \in Users \ U : \A r \in rows : r.user = u => org'[r.org] = org[r.org]
  BY <1>6 DEF MembersOf, IInv, TypeOK, Rows
<1>8. \A u \in Users \ U : View(u)' = View(u)
  BY <1>6, <1>7, ViewKept
<1>9. \A u \in Users : \A p : u \in MembersOf(p) => u \in MembersOf(p)'
  BY <1>6 DEF MembersOf
<1>10. RequestAt(c)' /\ Plain(c)'
  BY <1>2, <1>5 DEF RequestAt, Plain, Joins, Uses
<1>11. \A p \in Orgs : org[p] # "none" => org'[p] # "none"
  BY <1>6
<1>12. Moved(c, U)
  BY <1>5, <1>6, <1>8, <1>9, <1>10, <1>11 DEF Moved
<1> QED
  BY <1>1, <1>2, <1>5, <1>10, <1>12

\* An organization that is marked as deleted leaves the views of its members.
LEMMA MarkDeletedMoves ==
  ASSUME MembershipAssumption, IInv, NEW c \in Clients, MarkDeleted(c)
  PROVE  /\ Plain(c)' /\ req[c].step = "mark" /\ req'[c].step = "idle" /\ req[c].org \in Orgs
         /\ Moved(c, MembersOf(req[c].org))
<1> DEFINE o == req[c].org
           U == MembersOf(o)
<1>1. /\ RequestAt(c) /\ req[c].step = "mark" /\ req' = [Aged(U) EXCEPT ![c] = Idle]
      /\ org' = [org EXCEPT ![o] = "deleted"] /\ users' = users /\ rows' = rows
  BY DEF IInv, RequestInv, MarkDeleted
<1>2. o \in Orgs
  BY <1>1 DEF RequestAt
<1>3. Others(c, U) /\ req'[c] = Idle
  BY <1>1, IdleIsRequest, Ages DEF IInv
<1>4. (\A p \in Orgs \ {o} : org'[p] = org[p]) /\ org'[o] = "deleted"
  BY <1>1, <1>2 DEF IInv, TypeOK
<1>5. \A u \in Users \ U : \A r \in rows : r.user = u => org'[r.org] = org[r.org]
  BY <1>4 DEF MembersOf, IInv, TypeOK, Rows
<1>6. \A u \in Users \ U : View(u)' = View(u)
  BY <1>1, <1>5, ViewKept
<1>7. \A u \in Users : \A p : u \in MembersOf(p) => u \in MembersOf(p)'
  BY <1>1 DEF MembersOf
<1>8. RequestAt(c)' /\ Plain(c)'
  BY <1>3, IdleIsRequest DEF RequestAt, Plain, Joins, Uses
<1>9. \A p \in Orgs : org[p] # "none" => org'[p] # "none"
  BY <1>4
<1>10. Moved(c, U)
  BY <1>1, <1>3, <1>6, <1>7, <1>8, <1>9 DEF Moved
<1> QED
  BY <1>1, <1>2, <1>3, <1>8, <1>10, IdleIsRequest

--------------------------------------------------------------------------------
(* Sessions.                                                                *)

\* The change that this request makes is about to drop the session of u.
Drops(c, u) ==
  req[c].step = "drop" /\ (req[c].user = u \/ (req[c].op = "rename" /\ u \in MembersOf(req[c].org)))

\* A step keeps sessions current when whoever moved has none, is out of date for a
\* reason that is named, or is about to lose it; and when a drop that is over was made.
LEMMA SessionsKept ==
  ASSUME SessionsAreCurrent, NEW c \in Clients, NEW U, Moved(c, U),
         \A u \in Users : cache'[u] = None \/ (cache'[u] = cache[u] /\ (u \in lapsed => u \in lapsed')),
         \A u \in U \cap Users : u \in lapsed' \/ cache'[u] = None \/ Drops(c, u)',
         \A u \in Users : Drops(c, u) => cache'[u] = None \/ u \in lapsed'
  PROVE  SessionsAreCurrent'
<1> SUFFICES ASSUME NEW u \in Users, u \notin lapsed', cache'[u] # None
             PROVE  cache'[u] = View(u)' \/ \E d \in Clients : Drops(d, u)'
  BY DEF SessionsAreCurrent, Drops
<1>1. cache'[u] = cache[u] /\ u \notin lapsed /\ ~Drops(c, u)
  OBVIOUS
<1>2. CASE u \in U
  BY <1>2
<1>3. CASE u \notin U
  <2>1. View(u)' = View(u) /\ \A o : u \in MembersOf(o) => u \in MembersOf(o)'
    BY <1>3 DEF Moved
  <2>2. cache[u] = View(u) \/ \E d \in Clients : Drops(d, u)
    BY <1>1 DEF SessionsAreCurrent, Drops
  <2>3. ASSUME NEW d \in Clients, Drops(d, u) PROVE Drops(d, u)'
    <3>1. d # c
      BY <1>1, <2>3
    <3>2. req'[d].step = req[d].step /\ req'[d].user = req[d].user /\ req'[d].op = req[d].op
          /\ req'[d].org = req[d].org
      BY <3>1 DEF Moved, Others
    <3> QED
      BY <2>1, <2>3, <3>2 DEF Drops
  <2> QED
    BY <1>1, <2>1, <2>2, <2>3
<1> QED
  BY <1>2, <1>3

--------------------------------------------------------------------------------
(* What is stored has its type.                                             *)

StoresOK ==
  /\ users \subseteq Users
  /\ org \in [Orgs -> {"none", "live", "renamed", "deleted"}]
  /\ rows \subseteq Rows /\ inserted \in 0 .. MaxRows
  /\ cache \in [Users -> Views \cup {None}]
  /\ invitation \in [Invitations -> [user : Users, org : Orgs, role : Roles, used : BOOLEAN] \cup {None}]
  /\ lapsed \subseteq Users /\ reused \subseteq Invitations
  /\ admitted \in [Invitations -> 0 .. MaxRows] /\ \A i \in Invitations : admitted[i] <= inserted
  /\ requests \in 0 .. MaxRequests /\ failures \in 0 .. MaxFailures

LEMMA StoresAreTyped == TypeOK /\ ShapeInv => StoresOK
BY DEF TypeOK, ShapeInv, StoresOK

LEMMA NextTypes ==
  ASSUME StoresOK', req' \in [Clients -> Request]
  PROVE  TypeOK' /\ ShapeInv'
<1>1. \A c \in Clients : req'[c].step \in Steps /\ req'[c].view \in Views
  BY DEF Request
<1>2. \A u \in Users : cache'[u] = None \/ cache'[u] \in Views
  BY DEF StoresOK
<1>3. \A i \in Invitations : invitation'[i] = None \/
        invitation'[i] \in [user : Users, org : Orgs, role : Roles, used : BOOLEAN]
  BY DEF StoresOK
<1> QED
  BY <1>1, <1>2, <1>3 DEF TypeOK, ShapeInv, StoresOK, Steps

LEMMA StepStores ==
  ASSUME MembershipAssumption, IInv, Next
  PROVE  StoresOK'
<1> USE StoresAreTyped, ConstantTypes DEF IInv
<1>1. CASE DeleteInvitation
  BY <1>1 DEF StoresOK, DeleteInvitation
<1>2. ASSUME NEW c \in Clients, GetUser(c) \/ Callback(c) \/ PostInvitation(c)
                               \/ UpdateUser(c) \/ RemoveUser(c)
      PROVE  StoresOK'
  <2>1. UNCHANGED <<stores, lapsed, admitted, reused, failures>> /\ requests < MaxRequests /\ requests' = requests + 1
    BY <1>2 DEF GetUser, Callback, PostInvitation, UpdateUser, RemoveUser, Begin
  <2> QED
    BY <2>1 DEF StoresOK, stores
<1>3. ASSUME NEW c \in Clients, Load(c) \/ CheckInvitation(c)
      PROVE  StoresOK'
  <2>1. UNCHANGED <<stores, lapsed, admitted, reused, failures, requests>>
    BY <1>3 DEF Load, CheckInvitation, Ghosts
  <2> QED
    BY <2>1 DEF StoresOK, stores
<1>4. ASSUME NEW c \in Clients, CreateAccount(c)
      PROVE  StoresOK'
  <2>1. org' \in [Orgs -> {"none", "live", "renamed", "deleted"}]
    BY <1>4 DEF StoresOK, CreateAccount
  <2> QED
    BY <1>4, <2>1 DEF StoresOK, CreateAccount, Ghosts
<1>5. ASSUME NEW c \in Clients, UseInvitation(c)
      PROVE  StoresOK'
  <2>1. req[c].inv \in Invitations
    BY <1>5, UseInvitationMoves
  <2>2. \A i \in Invitations : invitation[i] # None =>
          [invitation[i] EXCEPT !.used = TRUE] \in [user : Users, org : Orgs, role : Roles, used : BOOLEAN]
    BY DEF StoresOK
  <2>3. invitation' \in [Invitations -> [user : Users, org : Orgs, role : Roles, used : BOOLEAN] \cup {None}]
    BY <1>5, <2>1, <2>2 DEF StoresOK, UseInvitation
  <2> QED
    BY <1>5, <2>1, <2>3 DEF StoresOK, UseInvitation
<1>6. ASSUME NEW c \in Clients, Join(c)
      PROVE  StoresOK'
  <2>1. UNCHANGED <<org, cache, invitation, lapsed, reused, requests, failures>>
    BY <1>6 DEF Join
  <2>2. CASE UNCHANGED <<users, rows, inserted, admitted>>
    BY <2>1, <2>2 DEF StoresOK
  <2>3. CASE /\ Insert(req[c].user, req[c].org, req[c].role)
             /\ req[c].user \in Users /\ req[c].org \in Orgs /\ req[c].role \in Roles
             /\ users' = users \cup {req[c].user}
             /\ admitted' = IF req[c].inv = None THEN admitted
                            ELSE [admitted EXCEPT ![req[c].inv] = @ + 1]
    <3>1. inserted < MaxRows /\ inserted' = inserted + 1
          /\ rows' = rows \cup {[id |-> inserted + 1, user |-> req[c].user, org |-> req[c].org, role |-> req[c].role]}
      BY <2>3 DEF Insert
    <3>2. inserted \in Nat /\ \A i \in Invitations : admitted[i] \in Nat /\ admitted[i] <= inserted
      BY DEF StoresOK
    <3>3. [id |-> inserted + 1, user |-> req[c].user, org |-> req[c].org, role |-> req[c].role] \in Rows
      BY <2>3, <3>1, <3>2 DEF Rows
    <3>4. \A i \in Invitations : admitted'[i] \in 0 .. inserted'
      BY <2>3, <3>1, <3>2 DEF StoresOK
    <3>5. admitted' \in [Invitations -> 0 .. MaxRows]
      <4>1. admitted' = [i \in Invitations |-> admitted'[i]]
        BY <2>3 DEF StoresOK
      <4> QED
        BY <3>1, <3>2, <3>4, <4>1
    <3> QED
      BY <2>1, <2>3, <3>1, <3>2, <3>3, <3>4, <3>5 DEF StoresOK
  <2> QED
    BY <1>6, <2>2, <2>3, JoinMoves
<1>7. ASSUME NEW c \in Clients, Fill(c)
      PROVE  StoresOK'
  <2>1. req[c].user \in Users /\ req[c].view \in Views
    BY <1>7 DEF Fill, RequestInv, RequestAt, StoresOK, ShapeInv, Request
  <2> QED
    BY <1>7, <2>1 DEF StoresOK, Fill
<1>8. ASSUME NEW c \in Clients, CreateOrganization(c)
      PROVE  StoresOK'
  BY <1>8 DEF StoresOK, CreateOrganization, Begin
<1>9. ASSUME NEW c \in Clients, Invite(c)
      PROVE  StoresOK'
  <2>1. UNCHANGED <<users, org, rows, inserted, cache, lapsed, admitted, reused, failures, requests>>
    BY <1>9 DEF Invite, Ghosts
  <2>2. \E i \in Invitations, u \in Users, o \in Orgs, role \in Roles :
          invitation' = [invitation EXCEPT ![i] = [user |-> u, org |-> o, role |-> role, used |-> FALSE]]
    BY <1>9, InviteMoves
  <2> QED
    BY <2>1, <2>2 DEF StoresOK
<1>10. ASSUME NEW c \in Clients, Write(c)
       PROVE  StoresOK'
  BY <1>10, WriteMoves DEF StoresOK, Write, Ghosts
<1>11. ASSUME NEW c \in Clients, Drop(c)
       PROVE  StoresOK'
  BY <1>11 DEF StoresOK, Drop
<1>12. ASSUME NEW c \in Clients, UpdateOrganization(c)
       PROVE  StoresOK'
  BY <1>12 DEF StoresOK, UpdateOrganization
<1>13. ASSUME NEW c \in Clients, DropAll(c)
       PROVE  StoresOK'
  BY <1>13 DEF StoresOK, DropAll
<1>14. ASSUME NEW c \in Clients, DeleteOrganization(c)
       PROVE  StoresOK'
  BY <1>14 DEF StoresOK, DeleteOrganization, Begin
<1>15. ASSUME NEW c \in Clients, MarkDeleted(c)
       PROVE  StoresOK'
  <2>1. MembersOf(req[c].org) \subseteq Users
    BY DEF StoresOK, MembersOf, Rows
  <2>2. /\ org' = [org EXCEPT ![req[c].org] = "deleted"]
        /\ lapsed' = lapsed \cup {u \in MembersOf(req[c].org) : cache[u] # None}
        /\ UNCHANGED <<users, rows, inserted, cache, invitation, admitted, reused, requests, failures>>
    BY <1>15 DEF MarkDeleted
  <2>3. lapsed' \subseteq Users /\ org' \in [Orgs -> {"none", "live", "renamed", "deleted"}]
    BY <2>1, <2>2 DEF StoresOK
  <2> QED
    BY <2>2, <2>3 DEF StoresOK
<1>16. ASSUME NEW c \in Clients, RequestFails(c)
       PROVE  StoresOK'
  BY <1>16 DEF StoresOK, RequestFails, stores
<1>17. ASSUME NEW c \in Clients, AddFails(c)
       PROVE  StoresOK'
  <2>1. req[c].step = "drop" => req[c].user \in Users
    BY <1>17 DEF AddFails, RequestInv, RequestAt
  <2> QED
    BY <1>17, <2>1 DEF StoresOK, AddFails, stores
<1> QED
  BY <1>1, <1>2, <1>3, <1>4, <1>5, <1>6, <1>7, <1>8, <1>9, <1>10, <1>11, <1>12, <1>13, <1>14, <1>15, <1>16, <1>17 DEF Next

--------------------------------------------------------------------------------
(* Requests.                                                                *)

\* What each request may rely on survives every step.
LEMMA StepRequests ==
  ASSUME MembershipAssumption, IInv, Next
  PROVE  RequestInv' /\ req' \in [Clients -> Request]
<1>1. ASSUME NEW c \in Clients, NEW U, Moved(c, U)
      PROVE  RequestInv' /\ req' \in [Clients -> Request]
  BY <1>1, RequestsKept DEF IInv, Moved, Others
<1>2. ASSUME UNCHANGED <<req, users, org, rows>>
      PROVE  RequestInv' /\ req' \in [Clients -> Request]
  BY <1>2, NoRequestMoves DEF IInv, ShapeInv
<1>3. CASE DeleteInvitation
  BY <1>2, <1>3 DEF DeleteInvitation
<1>4. ASSUME NEW c \in Clients, PostInvitation(c) \/ AddFails(c) \/ Invite(c)
      PROVE  RequestInv' /\ req' \in [Clients -> Request]
  BY <1>1, <1>4, PostInvitationMoves, AddFailsMoves, InviteMoves
<1>5. ASSUME NEW c \in Clients, GetUser(c) \/ Callback(c) \/ Load(c) \/ CreateAccount(c)
                               \/ CheckInvitation(c) \/ UseInvitation(c) \/ Drop(c)
                               \/ CreateOrganization(c) \/ UpdateUser(c) \/ RemoveUser(c) \/ DeleteOrganization(c)
      PROVE  RequestInv' /\ req' \in [Clients -> Request]
  <2>1. Moved(c, {})
    BY <1>5, GetUserMoves, CallbackMoves, LoadMoves, CreateAccountMoves, CheckInvitationMoves,
       UseInvitationMoves, DropMoves, CreateOrganizationMoves, UpdateUserMoves, RemoveUserMoves,
       DeleteOrganizationMoves
  <2> QED
    BY <1>1, <2>1
<1>6. ASSUME NEW c \in Clients, Join(c) \/ Write(c) \/ UpdateOrganization(c) \/ MarkDeleted(c)
      PROVE  RequestInv' /\ req' \in [Clients -> Request]
  BY <1>1, <1>6, JoinMoves, WriteMoves, UpdateOrganizationMoves, MarkDeletedMoves
<1>7. ASSUME NEW c \in Clients, Fill(c) \/ DropAll(c) \/ RequestFails(c)
      PROVE  RequestInv' /\ req' \in [Clients -> Request]
  <2>1. Finish(c) /\ UNCHANGED <<users, org, rows>>
    BY <1>7 DEF Fill, DropAll, RequestFails, stores
  <2> QED
    BY <1>1, <2>1, FinishMoves
<1> QED
  BY <1>3, <1>4, <1>5, <1>6, <1>7 DEF Next

\* No session, membership or invitation of a user or organization that was never made.
LEMMA StepKnown ==
  ASSUME MembershipAssumption, IInv, Next
  PROVE  KnownInv'
<1> DEFINE Made == \A o \in Orgs : org[o] # "none" => org'[o] # "none"
           Cached == \A u \in Users : cache'[u] # None => u \in users'
           Given == \A r \in rows' : r.org \in Orgs /\ org'[r.org] # "none"
           Sent == \A i \in Invitations : invitation'[i] # None => org'[invitation'[i].org] # "none"
<1>1. SUFFICES Cached /\ Given /\ Sent
  BY DEF KnownInv
<1>2. /\ \A u \in Users : cache[u] # None => u \in users
      /\ \A r \in rows : r.org \in Orgs /\ org[r.org] # "none"
      /\ \A i \in Invitations : invitation[i] # None =>
           invitation[i].org \in Orgs /\ org[invitation[i].org] # "none"
  BY DEF IInv, KnownInv, TypeOK, ShapeInv, Rows
<1>3. ASSUME Made, users \subseteq users', \A u \in Users : cache'[u] = cache[u] \/ cache'[u] = None,
             rows' = rows, invitation' = invitation
      PROVE  Cached /\ Given /\ Sent
  BY <1>2, <1>3
<1>4. CASE DeleteInvitation
  <2>1. \A i \in Invitations : invitation'[i] = None \/ invitation'[i] = invitation[i]
    BY <1>4 DEF DeleteInvitation, IInv, ShapeInv
  <2>2. UNCHANGED <<users, org, rows, cache>>
    BY <1>4 DEF DeleteInvitation
  <2> QED
    BY <1>2, <2>1, <2>2
<1>5. ASSUME NEW c \in Clients, Invite(c)
      PROVE  Cached /\ Given /\ Sent
  <2>1. UNCHANGED <<users, org, rows, cache>>
    BY <1>5 DEF Invite
  <2>2. PICK i \in Invitations, u \in Users, o \in Orgs, role \in Roles :
          /\ org[o] # "none"
          /\ invitation' = [invitation EXCEPT ![i] = [user |-> u, org |-> o, role |-> role, used |-> FALSE]]
    BY <1>5, InviteMoves
  <2>3. invitation'[i].org = o /\ \A j \in Invitations \ {i} : invitation'[j] = invitation[j]
    BY <2>2 DEF IInv, ShapeInv
  <2> QED
    BY <1>2, <2>1, <2>2, <2>3
<1>6. ASSUME NEW c \in Clients, UseInvitation(c)
      PROVE  Cached /\ Given /\ Sent
  <2>1. UNCHANGED <<users, org, rows, cache>>
    BY <1>6 DEF UseInvitation
  <2>2. \A i \in Invitations : /\ invitation'[i] # None => invitation[i] # None
                               /\ invitation'[i] # None => invitation'[i].org = invitation[i].org
    BY <1>6, UseInvitationMoves DEF UseInvitation, IInv, ShapeInv
  <2> QED
    BY <1>2, <2>1, <2>2
<1>7. ASSUME NEW c \in Clients, Join(c)
      PROVE  Cached /\ Given /\ Sent
  <2>1. UNCHANGED <<org, cache, invitation>>
    BY <1>7 DEF Join
  <2>2. CASE UNCHANGED <<users, rows>>
    BY <1>2, <2>1, <2>2
  <2>3. CASE /\ Insert(req[c].user, req[c].org, req[c].role) /\ users' = users \cup {req[c].user}
             /\ req[c].org \in Orgs /\ org[req[c].org] # "none"
    BY <1>2, <2>1, <2>3 DEF Insert
  <2> QED
    BY <1>7, <2>2, <2>3, JoinMoves
<1>8. ASSUME NEW c \in Clients, Fill(c)
      PROVE  Cached /\ Given /\ Sent
  <2>1. req[c].user \in users
    BY <1>8 DEF Fill, IInv, RequestInv, RequestAt
  <2> QED
    BY <1>2, <1>8, <2>1 DEF Fill, IInv, ShapeInv
<1>9. ASSUME NEW c \in Clients, Write(c)
      PROVE  Cached /\ Given /\ Sent
  <2>1. \A r \in rows' : \E s \in rows : s.org = r.org
    BY <1>9, WriteMoves
  <2>2. UNCHANGED <<users, org, cache, invitation>>
    BY <1>9 DEF Write
  <2> QED
    BY <1>2, <2>1, <2>2
<1>10. ASSUME NEW c \in Clients, GetUser(c) \/ Callback(c) \/ Load(c) \/ CheckInvitation(c)
                                \/ PostInvitation(c) \/ AddFails(c) \/ UpdateUser(c)
                                \/ RemoveUser(c) \/ RequestFails(c)
       PROVE  Cached /\ Given /\ Sent
  <2>1. UNCHANGED stores
    BY <1>10 DEF GetUser, Callback, Load, CheckInvitation, PostInvitation, AddFails, UpdateUser, RemoveUser,
                 RequestFails
  <2> QED
    BY <1>3, <2>1 DEF stores
<1>11. ASSUME NEW c \in Clients, CreateAccount(c) \/ CreateOrganization(c)
       PROVE  Cached /\ Given /\ Sent
  <2>1. Made
    BY <1>11, CreateAccountMoves, CreateOrganizationMoves DEF Moved
  <2>2. UNCHANGED <<users, rows, cache, invitation>>
    BY <1>11 DEF CreateAccount, CreateOrganization
  <2> QED
    BY <1>3, <2>1, <2>2
<1>12. ASSUME NEW c \in Clients, UpdateOrganization(c) \/ MarkDeleted(c)
       PROVE  Cached /\ Given /\ Sent
  <2>1. Made
    BY <1>12, UpdateOrganizationMoves, MarkDeletedMoves DEF Moved
  <2>2. UNCHANGED <<users, rows, cache, invitation>>
    BY <1>12 DEF UpdateOrganization, MarkDeleted
  <2> QED
    BY <1>3, <2>1, <2>2
<1>13. ASSUME NEW c \in Clients, Drop(c)
       PROVE  Cached /\ Given /\ Sent
  BY <1>3, <1>13 DEF Drop, IInv, ShapeInv
<1>14. ASSUME NEW c \in Clients, DropAll(c) \/ DeleteOrganization(c)
       PROVE  Cached /\ Given /\ Sent
  <2>1. \A u \in Users : cache'[u] = cache[u] \/ cache'[u] = None
    BY <1>14 DEF DropAll, DeleteOrganization
  <2> QED
    BY <1>3, <1>14, <2>1 DEF DropAll, DeleteOrganization
<1> QED
  BY <1>4, <1>5, <1>6, <1>7, <1>8, <1>9, <1>10, <1>11, <1>12, <1>13, <1>14 DEF Next

--------------------------------------------------------------------------------
(* Sessions and invitations, step by step.                                  *)

\* Whoever has a session sees what Postgres has, but for the named exceptions.
LEMMA StepSessions ==
  ASSUME MembershipAssumption, IInv, Next
  PROVE  SessionsAreCurrent'
<1> USE DEF IInv
<1>1. ASSUME UNCHANGED <<req, org, rows, cache, lapsed>>
      PROVE  SessionsAreCurrent'
  <2>1. \A u \in Users : View(u)' = View(u) /\ \A o : MembersOf(o)' = MembersOf(o)
    BY <1>1 DEF View, Stands, MembersOf
  <2> QED
    BY <1>1, <2>1 DEF SessionsAreCurrent
<1>2. CASE DeleteInvitation
  BY <1>1, <1>2 DEF DeleteInvitation
<1>3. ASSUME NEW c \in Clients, Moved(c, {}), req[c].step # "drop", UNCHANGED <<cache, lapsed>>
      PROVE  SessionsAreCurrent'
  BY <1>3, SessionsKept DEF Drops
<1>4. ASSUME NEW c \in Clients, AddFails(c)
      PROVE  SessionsAreCurrent'
  <2>1. Moved(c, {}) /\ req[c].op = "add" /\ cache' = cache
    BY <1>4, AddFailsMoves DEF AddFails, stores
  <2>2. lapsed \subseteq lapsed' /\ \A u \in Users : Drops(c, u) => u \in lapsed'
    BY <1>4, <2>1 DEF AddFails, Drops
  <2> QED
    BY <2>1, <2>2, SessionsKept
<1>5. ASSUME NEW c \in Clients, GetUser(c) \/ Callback(c) \/ Load(c) \/ CreateAccount(c)
                               \/ CheckInvitation(c) \/ UseInvitation(c) \/ CreateOrganization(c)
                               \/ PostInvitation(c) \/ Invite(c) \/ UpdateUser(c) \/ RemoveUser(c)
      PROVE  SessionsAreCurrent'
  <2>1. Moved(c, {}) /\ req[c].step # "drop"
    BY <1>5, GetUserMoves, CallbackMoves, LoadMoves, CreateAccountMoves, CheckInvitationMoves,
       UseInvitationMoves, CreateOrganizationMoves, PostInvitationMoves, InviteMoves, UpdateUserMoves,
       RemoveUserMoves
  <2>2. UNCHANGED <<cache, lapsed>>
    BY <1>5 DEF GetUser, Callback, Load, CreateAccount, CheckInvitation, UseInvitation,
                CreateOrganization, PostInvitation, Invite, UpdateUser, RemoveUser, stores, Ghosts
  <2> QED
    BY <1>3, <2>1, <2>2
<1>6. ASSUME NEW c \in Clients, Join(c)
      PROVE  SessionsAreCurrent'
  <2>1. UNCHANGED <<cache, lapsed>> /\ req[c].step # "drop"
    BY <1>6, JoinMoves DEF Join
  <2>2. CASE Moved(c, {})
    BY <1>3, <2>1, <2>2
  <2>3. CASE Moved(c, {req[c].user}) /\ req[c].user \notin users
    <3>1. \A u \in {req[c].user} \cap Users : cache'[u] = None
      BY <2>1, <2>3 DEF KnownInv
    <3> QED
      BY <2>1, <2>3, <3>1, SessionsKept DEF Drops
  <2>4. CASE Moved(c, {req[c].user}) /\ req'[c].step = "drop" /\ req'[c].user = req[c].user
    <3>1. \A u \in {req[c].user} \cap Users : Drops(c, u)'
      BY <2>4 DEF Drops
    <3> QED
      BY <2>1, <2>4, <3>1, SessionsKept DEF Drops
  <2> QED
    BY <1>6, <2>2, <2>3, <2>4, JoinMoves
<1>7. ASSUME NEW c \in Clients, Write(c)
      PROVE  SessionsAreCurrent'
  <2>1. UNCHANGED <<cache, lapsed>>
    BY <1>7 DEF Write, Ghosts
  <2>2. \A u \in {req[c].user} \cap Users : Drops(c, u)'
    BY <1>7, WriteMoves DEF Drops
  <2> QED
    BY <1>7, <2>1, <2>2, WriteMoves, SessionsKept DEF Drops
<1>8. ASSUME NEW c \in Clients, UpdateOrganization(c)
      PROVE  SessionsAreCurrent'
  <2>1. UNCHANGED <<cache, lapsed, rows>> /\ req[c].step # "drop"
    BY <1>8, UpdateOrganizationMoves DEF UpdateOrganization
  <2>2. PICK o \in Orgs : /\ Moved(c, MembersOf(o))
                          /\ req'[c].step = "drop" /\ req'[c].op = "rename" /\ req'[c].org = o
    BY <1>8, UpdateOrganizationMoves
  <2>3. \A u \in MembersOf(o) : Drops(c, u)'
    BY <2>1, <2>2 DEF Drops, MembersOf
  <2> QED
    BY <2>1, <2>2, <2>3, SessionsKept DEF Drops
<1>9. ASSUME NEW c \in Clients, MarkDeleted(c)
      PROVE  SessionsAreCurrent'
  <2> DEFINE U == MembersOf(req[c].org)
  <2>1. Moved(c, U) /\ req[c].step # "drop"
    BY <1>9, MarkDeletedMoves
  <2>2. cache' = cache /\ lapsed' = lapsed \cup {u \in U : cache[u] # None}
    BY <1>9 DEF MarkDeleted
  <2> HIDE DEF U
  <2>3. \A u \in U \cap Users : u \in lapsed' \/ cache'[u] = None
    BY <2>2
  <2> QED
    BY <2>1, <2>2, <2>3, SessionsKept DEF Drops
<1>10. ASSUME NEW c \in Clients, DeleteOrganization(c)
       PROVE  SessionsAreCurrent'
  <2>1. \A u \in Users : cache'[u] = None \/ (cache'[u] = cache[u] /\ (u \in lapsed => u \in lapsed'))
    BY <1>10 DEF DeleteOrganization
  <2>2. Moved(c, {}) /\ req[c].step # "drop"
    BY <1>10, DeleteOrganizationMoves
  <2> QED
    BY <2>1, <2>2, SessionsKept DEF Drops
<1>11. ASSUME NEW c \in Clients, Drop(c)
       PROVE  SessionsAreCurrent'
  <2>1. \A u \in Users : cache'[u] = None \/ (cache'[u] = cache[u] /\ (u \in lapsed => u \in lapsed'))
    BY <1>11 DEF Drop, ShapeInv
  <2>2. \A u \in Users : Drops(c, u) => cache'[u] = None
    BY <1>11, DropMoves DEF Drop, Drops, ShapeInv
  <2> QED
    BY <1>11, <2>1, <2>2, DropMoves, SessionsKept
<1>12. ASSUME NEW c \in Clients, DropAll(c)
       PROVE  SessionsAreCurrent'
  <2>1. req[c].step = "drop" /\ req[c].op = "rename" /\ Finish(c) /\ UNCHANGED <<users, org, rows>>
    BY <1>12 DEF DropAll
  <2>2. \A u \in Users : cache'[u] = None \/ (cache'[u] = cache[u] /\ (u \in lapsed => u \in lapsed'))
    BY <1>12 DEF DropAll
  <2>3. req[c].user \notin Users
    BY <2>1, ConstantTypes DEF RequestInv, RequestAt
  <2>4. \A u \in Users : Drops(c, u) => cache'[u] = None
    BY <1>12, <2>3 DEF DropAll, Drops
  <2> QED
    BY <2>1, <2>2, <2>4, FinishMoves, SessionsKept
<1>13. ASSUME NEW c \in Clients, RequestFails(c)
       PROVE  SessionsAreCurrent'
  <2>1. Finish(c) /\ UNCHANGED <<users, org, rows, cache>>
    BY <1>13 DEF RequestFails, stores
  <2>2. lapsed \subseteq lapsed' /\ \A u \in Users : Drops(c, u) => u \in lapsed'
    BY <1>13 DEF RequestFails, Drops
  <2> QED
    BY <2>1, <2>2, FinishMoves, SessionsKept
<1>14. ASSUME NEW c \in Clients, Fill(c)
       PROVE  SessionsAreCurrent'
  <2> DEFINE r == req[c]
  <2>1. /\ r.step = "fill" /\ cache' = [cache EXCEPT ![r.user] = r.view] /\ Finish(c)
        /\ UNCHANGED <<users, org, rows>>
    BY <1>14 DEF Fill
  <2>2. RequestAt(c) /\ r.user \in Users
    BY <2>1 DEF RequestInv, RequestAt, TypeOK
  <2>3. lapsed' = IF r.moved THEN lapsed \cup {r.user} ELSE lapsed \ {r.user}
    BY <1>14 DEF Fill
  <2>4. Others(c, {})
    BY <2>1, FinishMoves DEF Moved
  <2>5. \A u \in Users : View(u)' = View(u) /\ \A o : MembersOf(o)' = MembersOf(o)
    BY <2>1 DEF View, Stands, MembersOf
  <2> SUFFICES ASSUME NEW u \in Users, u \notin lapsed', cache'[u] # None
               PROVE  cache'[u] = View(u)' \/ \E d \in Clients : Drops(d, u)'
    BY DEF SessionsAreCurrent, Drops
  <2>6. CASE u = r.user
    <3>1. ~r.moved
      BY <2>3, <2>6
    <3>2. r.view = View(u) /\ cache'[u] = r.view
      BY <2>1, <2>2, <2>6, <3>1 DEF RequestAt, ShapeInv
    <3> QED
      BY <2>5, <3>2
  <2>7. CASE u # r.user
    <3>1. u \notin lapsed /\ cache'[u] = cache[u]
      BY <2>1, <2>3, <2>7 DEF ShapeInv
    <3>2. cache[u] = View(u) \/ \E d \in Clients : Drops(d, u)
      BY <3>1 DEF SessionsAreCurrent, Drops
    <3>3. ASSUME NEW d \in Clients, Drops(d, u) PROVE Drops(d, u)'
      <4>1. d # c
        BY <2>1, <3>3 DEF Drops
      <4> QED
        BY <2>4, <2>5, <3>3, <4>1 DEF Drops, Others
    <3> QED
      BY <2>5, <3>1, <3>2, <3>3
  <2> QED
    BY <2>6, <2>7
<1> QED
  BY <1>2, <1>4, <1>5, <1>6, <1>7, <1>8, <1>9, <1>10, <1>11, <1>12, <1>13, <1>14 DEF Next

\* A step that makes no membership through an invitation, keeps what is spent
\* spent, and begins to use only what is not.
LEMMA OnceKept ==
  ASSUME OnceInv, NEW c \in Clients, NEW U, Others(c, U), reused' = reused, admitted' = admitted,
         \A i \in Invitations : Spent(i) => Spent(i)',
         \A i \in Invitations : ~Joins(c, i)' /\ (Uses(c, i)' => ~Spent(i))
  PROVE  OnceInv'
<1> SUFFICES ASSUME NEW i \in Invitations, i \notin reused PROVE OnceAt(i)'
  BY DEF OnceInv
<1>1. OnceAt(i)
  BY DEF OnceInv
<1>2. \A d \in Clients : d # c => (Joins(d, i)' <=> Joins(d, i)) /\ (Uses(d, i)' <=> Uses(d, i))
  BY DEF Others, Joins, Uses
<1>3. admitted[i] # 0 => Spent(i)' /\ \A d \in Clients : ~Uses(d, i)'
  BY <1>1, <1>2 DEF OnceAt
<1>4. ASSUME NEW d \in Clients, Joins(d, i)'
      PROVE  admitted[i] = 0 /\ Spent(i)' /\ \A e \in Clients : ~Uses(e, i)' /\ (Joins(e, i)' => e = d)
  <2>1. d # c /\ Joins(d, i)
    BY <1>2, <1>4
  <2>2. admitted[i] = 0 /\ Spent(i) /\ \A e \in Clients : ~Uses(e, i) /\ (Joins(e, i) => e = d)
    BY <1>1, <2>1 DEF OnceAt
  <2> QED
    BY <1>2, <2>2
<1> QED
  BY <1>1, <1>3, <1>4 DEF OnceAt

\* An invitation makes one membership, unless two logins took it together.
LEMMA StepOnce ==
  ASSUME MembershipAssumption, IInv, Next
  PROVE  OnceInv'
<1> USE DEF IInv
<1>1. ASSUME NEW i \in Invitations, OnceAt(i), UNCHANGED <<req, admitted>>, Spent(i) => Spent(i)'
      PROVE  OnceAt(i)'
  BY <1>1 DEF OnceAt, Joins, Uses
<1>2. CASE DeleteInvitation
  <2>1. \A i \in Invitations : Spent(i) => Spent(i)'
    BY <1>2 DEF DeleteInvitation, Spent, ShapeInv
  <2>2. UNCHANGED <<req, admitted, reused>>
    BY <1>2 DEF DeleteInvitation
  <2> QED
    BY <1>1, <2>1, <2>2 DEF OnceInv
<1>3. ASSUME NEW c \in Clients, Moved(c, {}), Plain(c)', UNCHANGED <<reused, admitted, invitation>>
      PROVE  OnceInv'
  <2>1. Others(c, {})
    BY <1>3 DEF Moved
  <2>2. \A i \in Invitations : ~Joins(c, i)' /\ ~Uses(c, i)'
    BY <1>3 DEF Plain
  <2>3. \A i \in Invitations : Spent(i) => Spent(i)'
    BY <1>3 DEF Spent
  <2> QED
    BY <1>3, <2>1, <2>2, <2>3, OnceKept
<1>4. ASSUME NEW c \in Clients, Invite(c)
      PROVE  OnceInv'
  <2>1. UNCHANGED <<admitted, reused>> /\ Others(c, {}) /\ \A i \in Invitations : ~Joins(c, i)' /\ ~Uses(c, i)'
    BY <1>4, InviteMoves DEF Invite, Ghosts, Moved, Plain
  <2>2. PICK i \in Invitations :
          /\ admitted[i] = 0 /\ (\A d \in Clients : req[d].inv # i)
          /\ \E new : invitation' = [invitation EXCEPT ![i] = new]
    BY <1>4, InviteMoves
  <2>3. \A j \in Invitations \ {i} : Spent(j) => Spent(j)'
    BY <2>2 DEF Spent, ShapeInv
  <2>4. ASSUME NEW d \in Clients, NEW j \in Invitations
        PROVE  (Joins(d, j)' => Joins(d, j)) /\ (Uses(d, j)' => Uses(d, j))
    BY <2>1 DEF Others, Joins, Uses
  <2>5. admitted[i] = 0 /\ \A d \in Clients : ~Joins(d, i)'
    BY <2>2, <2>4 DEF Joins
  <2>6. ASSUME NEW j \in Invitations, OnceAt(j) PROVE OnceAt(j)'
    BY <2>1, <2>3, <2>4, <2>5, <2>6 DEF OnceAt
  <2> QED
    BY <2>1, <2>6 DEF OnceInv
<1>5. ASSUME NEW c \in Clients, GetUser(c) \/ Callback(c) \/ Load(c) \/ CreateAccount(c) \/ Drop(c)
                               \/ CreateOrganization(c) \/ PostInvitation(c) \/ AddFails(c)
                               \/ UpdateUser(c) \/ RemoveUser(c) \/ DeleteOrganization(c)
      PROVE  OnceInv'
  <2>1. Moved(c, {}) /\ Plain(c)'
    BY <1>5, GetUserMoves, CallbackMoves, LoadMoves, CreateAccountMoves, DropMoves,
       CreateOrganizationMoves, PostInvitationMoves, AddFailsMoves, UpdateUserMoves, RemoveUserMoves,
       DeleteOrganizationMoves
  <2>2. UNCHANGED <<reused, admitted, invitation>>
    BY <1>5 DEF GetUser, Callback, Load, CreateAccount, Drop, CreateOrganization, PostInvitation, AddFails,
                UpdateUser, RemoveUser, DeleteOrganization, stores, Ghosts
  <2> QED
    BY <1>3, <2>1, <2>2
<1>6. ASSUME NEW c \in Clients, Fill(c) \/ DropAll(c) \/ RequestFails(c)
      PROVE  OnceInv'
  <2>1. Finish(c) /\ UNCHANGED <<users, org, rows, reused, admitted, invitation>>
    BY <1>6 DEF Fill, DropAll, RequestFails, stores
  <2> QED
    BY <1>3, <2>1, FinishMoves
<1>7. ASSUME NEW c \in Clients, Write(c) \/ UpdateOrganization(c) \/ MarkDeleted(c)
      PROVE  OnceInv'
  <2>1. Plain(c)' /\ \E U : Moved(c, U)
    BY <1>7, WriteMoves, UpdateOrganizationMoves, MarkDeletedMoves
  <2>2. PICK U : Others(c, U)
    BY <2>1 DEF Moved
  <2>3. UNCHANGED <<reused, admitted, invitation>>
    BY <1>7 DEF Write, UpdateOrganization, MarkDeleted, Ghosts
  <2>4. \A i \in Invitations : ~Joins(c, i)' /\ ~Uses(c, i)'
    BY <2>1 DEF Plain
  <2>5. \A i \in Invitations : Spent(i) => Spent(i)'
    BY <2>3 DEF Spent
  <2> QED
    BY <2>2, <2>3, <2>4, <2>5, OnceKept
<1>8. ASSUME NEW c \in Clients, CheckInvitation(c)
      PROVE  OnceInv'
  <2>1. UNCHANGED <<reused, admitted, invitation>>
    BY <1>8 DEF CheckInvitation, stores, Ghosts
  <2>2. \A i \in Invitations : Spent(i) => Spent(i)'
    BY <2>1 DEF Spent
  <2>3. \A i \in Invitations : ~Joins(c, i)' /\ (Uses(c, i)' => ~Spent(i))
    BY <1>8, CheckInvitationMoves DEF Spent
  <2> QED
    BY <1>8, <2>1, <2>2, <2>3, CheckInvitationMoves, OnceKept DEF Moved
<1>9. ASSUME NEW c \in Clients, UseInvitation(c)
      PROVE  OnceInv'
  <2> DEFINE i0 == req[c].inv
  <2>1. /\ Others(c, {}) /\ req[c].step = "use" /\ req'[c].step = "join" /\ req'[c].inv = i0
        /\ i0 \in Invitations /\ admitted' = admitted
    BY <1>9, UseInvitationMoves DEF Moved, UseInvitation
  <2>2. /\ invitation' = IF invitation[i0] = None THEN invitation ELSE [invitation EXCEPT ![i0].used = TRUE]
        /\ reused' = IF \E d \in Clients \ {c} : Uses(d, i0) THEN reused \cup {i0} ELSE reused
    BY <1>9 DEF UseInvitation, Uses
  <2>3. Spent(i0)'
    BY <2>1, <2>2 DEF Spent, ShapeInv
  <2>4. \A i \in Invitations : Spent(i) => Spent(i)'
    BY <2>1, <2>2, <2>3 DEF Spent, ShapeInv
  <2>5. Uses(c, i0)
    BY <2>1 DEF Uses
  <2> SUFFICES ASSUME NEW i \in Invitations, i \notin reused' PROVE OnceAt(i)'
    BY DEF OnceInv
  <2>6. OnceAt(i)
    BY <2>2 DEF OnceInv
  <2>7. \A d \in Clients : d # c => (Joins(d, i)' <=> Joins(d, i)) /\ (Uses(d, i)' <=> Uses(d, i))
    BY <2>1 DEF Others, Joins, Uses
  <2>8. (Joins(c, i)' <=> i = i0) /\ ~Uses(c, i)'
    BY <2>1 DEF Joins, Uses
  <2>9. CASE i = i0
    <3>1. admitted[i] = 0 /\ \A d \in Clients : ~Joins(d, i)
      BY <2>5, <2>6, <2>9 DEF OnceAt
    <3>2. \A d \in Clients \ {c} : ~Uses(d, i)
      BY <2>2, <2>9
    <3>3. \A d \in Clients : ~Uses(d, i)' /\ (Joins(d, i)' => d = c)
      BY <2>7, <2>8, <3>1, <3>2
    <3> QED
      BY <2>1, <2>3, <2>9, <3>1, <3>3 DEF OnceAt
  <2>10. CASE i # i0
    <3>1. \A d \in Clients : (Joins(d, i)' => Joins(d, i)) /\ (Uses(d, i)' => Uses(d, i))
      BY <2>7, <2>8, <2>10
    <3> QED
      BY <2>1, <2>4, <2>6, <3>1 DEF OnceAt
  <2> QED
    BY <2>9, <2>10
<1>10. ASSUME NEW c \in Clients, Join(c)
       PROVE  OnceInv'
  <2> DEFINE i0 == req[c].inv
  <2>1. /\ req[c].step = "join" /\ (\A i \in Invitations : ~Joins(c, i)' /\ ~Uses(c, i)')
        /\ \E U : Others(c, U)
    BY <1>10, JoinMoves DEF Moved
  <2>2. /\ reused' = reused /\ invitation' = invitation
    BY <1>10 DEF Join
  <2>3. \A i \in Invitations : Spent(i) => Spent(i)'
    BY <2>2 DEF Spent
  <2>4. CASE admitted' = admitted
    BY <2>1, <2>2, <2>3, <2>4, OnceKept
  <2>5. CASE i0 # None /\ admitted' = [admitted EXCEPT ![i0] = @ + 1]
    <3>1. i0 \in Invitations
      BY <2>5 DEF ShapeInv, Request
    <3>2. Joins(c, i0)
      BY <2>1 DEF Joins
    <3> SUFFICES ASSUME NEW i \in Invitations, i \notin reused PROVE OnceAt(i)'
      BY <2>2 DEF OnceInv
    <3>3. OnceAt(i)
      BY DEF OnceInv
    <3>4. \A d \in Clients : (Joins(d, i)' => Joins(d, i) /\ d # c) /\ (Uses(d, i)' => Uses(d, i))
      BY <2>1 DEF Others, Joins, Uses
    <3>5. CASE i = i0
      <4>1. /\ admitted[i] = 0 /\ Spent(i)
            /\ \A d \in Clients : ~Uses(d, i) /\ (Joins(d, i) => d = c)
        BY <3>2, <3>3, <3>5 DEF OnceAt
      <4>2. admitted'[i] = 1
        BY <2>5, <3>1, <3>5, <4>1 DEF TypeOK
      <4>3. \A d \in Clients : ~Uses(d, i)' /\ ~Joins(d, i)'
        BY <3>4, <4>1
      <4> QED
        BY <2>3, <4>1, <4>2, <4>3 DEF OnceAt
    <3>6. CASE i # i0
      <4>1. admitted'[i] = admitted[i]
        BY <2>5, <3>1, <3>6 DEF TypeOK
      <4> QED
        BY <2>3, <3>3, <3>4, <4>1 DEF OnceAt
    <3> QED
      BY <3>5, <3>6
  <2> QED
    BY <1>10, <2>4, <2>5, JoinMoves
<1> QED
  BY <1>2, <1>4, <1>5, <1>6, <1>7, <1>8, <1>9, <1>10 DEF Next

--------------------------------------------------------------------------------

\* In the initial states nobody asks anything yet.
LEMMA InitInvariant ==
  ASSUME MembershipAssumption, Init
  PROVE  IInv
<1> USE ConstantTypes, IdleIsRequest DEF Init
<1>1. StoresOK
  <2>1. rows \subseteq Rows /\ inserted \in 0 .. MaxRows
    BY DEF Rows
  <2>2. cache \in [Users -> Views \cup {None}]
    <3>1. [id |-> 1, org |-> Home, role |-> Owner, name |-> "live"] \in
          [id : 1 .. MaxRows, org : Orgs, role : Roles, name : {"live", "renamed"}]
      OBVIOUS
    <3> QED
      BY <3>1 DEF Views
  <2>3. invitation \in [Invitations -> [user : Users, org : Orgs, role : Roles, used : BOOLEAN] \cup {None}]
    OBVIOUS
  <2>4. admitted \in [Invitations -> 0 .. MaxRows] /\ \A i \in Invitations : admitted[i] <= inserted
    OBVIOUS
  <2> QED
    <3>1. users \subseteq Users /\ org \in [Orgs -> {"none", "live", "renamed", "deleted"}]
      OBVIOUS
    <3>2. /\ lapsed \subseteq Users /\ reused \subseteq Invitations
          /\ requests \in 0 .. MaxRequests /\ failures \in 0 .. MaxFailures
      OBVIOUS
    <3> QED
      BY <2>1, <2>2, <2>3, <2>4, <3>1, <3>2, Zenon DEF StoresOK
<1>2. req \in [Clients -> Request] /\ \A c \in Clients : req[c] = Idle /\ req[c].step = "idle"
  OBVIOUS
<1>3. TypeOK /\ ShapeInv
  <2>1. \A c \in Clients : req[c].step \in Steps /\ req[c].view \in Views
    BY <1>2 DEF Request
  <2>2. \A u \in Users : cache[u] = None \/ cache[u] \in Views
    BY <1>1 DEF StoresOK
  <2>3. \A i \in Invitations : invitation[i] = None \/
          invitation[i] \in [user : Users, org : Orgs, role : Roles, used : BOOLEAN]
    BY <1>1 DEF StoresOK
  <2> QED
    BY <1>1, <1>2, <2>1, <2>2, <2>3 DEF TypeOK, ShapeInv, StoresOK, Steps
<1>4. RequestInv
  BY <1>2 DEF RequestInv, RequestAt
<1>5. KnownInv
  <2>1. \A u \in Users : cache[u] # None => u \in users
    OBVIOUS
  <2>2. \A r \in rows : org[r.org] # "none"
    OBVIOUS
  <2>3. \A i \in Invitations : invitation[i] # None => org[invitation[i].org] # "none"
    OBVIOUS
  <2> QED
    BY <2>1, <2>2, <2>3 DEF KnownInv
<1>6. OnceInv
  BY <1>2 DEF OnceInv, OnceAt, Joins, Uses
<1>7. SessionsAreCurrent
  <2> DEFINE r1 == [id |-> 1, user |-> Founder, org |-> Home, role |-> Owner]
             v1 == [id |-> r1.id, org |-> r1.org, role |-> r1.role, name |-> org[r1.org]]
  <2>1. View(Founder) = {[id |-> 1, org |-> Home, role |-> Owner, name |-> "live"]}
    <3>1. rows = {r1} /\ r1.user = Founder /\ r1.org = Home /\ org[Home] = "live"
      OBVIOUS
    <3>2. v1 = [id |-> 1, org |-> Home, role |-> Owner, name |-> "live"]
      BY <3>1
    <3>3. \A v : v \in View(Founder) <=> v = v1
      BY <3>1 DEF View, Stands
    <3> HIDE DEF v1, r1
    <3>4. View(Founder) = {v1}
      BY <3>3
    <3> QED
      BY <3>2, <3>4
  <2> HIDE DEF v1, r1
  <2> QED
    BY <2>1 DEF SessionsAreCurrent
<1> QED
  BY <1>3, <1>4, <1>5, <1>6, <1>7 DEF IInv

LEMMA StepInvariant ==
  ASSUME MembershipAssumption, IInv, [Next]_vars
  PROVE  IInv'
<1>1. CASE Next
  <2>1. TypeOK' /\ ShapeInv'
    BY <1>1, StepStores, StepRequests, NextTypes
  <2>2. RequestInv' /\ KnownInv' /\ OnceInv' /\ SessionsAreCurrent'
    BY <1>1, StepRequests, StepKnown, StepOnce, StepSessions
  <2> QED
    BY <2>1, <2>2 DEF IInv
<1>2. CASE UNCHANGED vars
  BY <1>2 DEF vars, IInv, TypeOK, ShapeInv, RequestInv, RequestAt, KnownInv, OnceInv, OnceAt, Joins,
              Uses, Spent, SessionsAreCurrent, View, Stands, MembersOf
<1> QED
  BY <1>1, <1>2

(* What a request relies on, what an invitation has done and what a session shows   *)
(* hold together in every reachable state, whatever the interleaving of the reads   *)
(* and writes of the handlers of user, organization and invitation requests.        *)
THEOREM InductiveInvariant == MembershipAssumption /\ Spec => []IInv
<1> SUFFICES ASSUME MembershipAssumption PROVE Spec => []IInv
  OBVIOUS
<1>1. Init => IInv
  BY InitInvariant
<1>2. IInv /\ [Next]_vars => IInv'
  BY StepInvariant
<1> QED
  BY <1>1, <1>2, PTL DEF Spec

(* Every variable has its type in every reachable state.                            *)
THEOREM TypeCorrect == MembershipAssumption /\ Spec => []TypeOK
<1> SUFFICES ASSUME MembershipAssumption PROVE Spec => []TypeOK
  OBVIOUS
<1>1. IInv => TypeOK
  BY DEF IInv
<1> QED
  BY <1>1, InductiveInvariant, PTL

(* The session that Redis has for a user shows the memberships that Postgres has,   *)
(* except for the users in `lapsed` and while a deletion of the key is due.         *)
THEOREM SessionsFollowPostgres == MembershipAssumption /\ Spec => []SessionsAreCurrent
<1> SUFFICES ASSUME MembershipAssumption PROVE Spec => []SessionsAreCurrent
  OBVIOUS
<1>1. IInv => SessionsAreCurrent
  BY DEF IInv
<1> QED
  BY <1>1, InductiveInvariant, PTL

(* An invitation makes one membership, unless two logins read it before either had  *)
(* marked it as used.                                                               *)
THEOREM InvitationsAdmitOnce == MembershipAssumption /\ Spec => []InvitationAdmitsOnce
<1> SUFFICES ASSUME MembershipAssumption PROVE Spec => []InvitationAdmitsOnce
  OBVIOUS
<1>1. IInv => InvitationAdmitsOnce
  BY DEF IInv, OnceInv, OnceAt, InvitationAdmitsOnce
<1> QED
  BY <1>1, InductiveInvariant, PTL
================================================================================
