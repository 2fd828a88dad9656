--------------------------- MODULE AdminSessions ---------------------------
(***************************************************************************)
(* The back office's users, roles and sessions: logging in, refreshing a   *)
(* pair of tokens, and what the guard makes of a token while users are     *)
(* frozen or deleted and roles change (admin UserService, RoleService,     *)
(* UserController and AuthGuard).                                          *)
(*                                                                         *)
(* One action is one segment between two awaits, as in TicketTrading.  The *)
(* permissions of a token are looked at through one of them, the one the   *)
(* modelled endpoints ask for; the others are independent of it.           *)
(* Passwords are not modelled: a wrong one is no step.  The users here are *)
(* those the back office lists; the super administrator whom seed.ts  *)
(* creates is not, passes every guard and may send any request at any time.*)
(***************************************************************************)
EXTENDS Naturals

CONSTANTS
    User, Role,   \* identifiers rows may get; none is used twice
    Name,         \* user names
    Slot,         \* requests that may be in flight together
    AccessLife, RefreshLife,  \* ticks the two tokens of a pair are valid for
    None,
    Faults        \* may a handler be cut short (exception or restart)?

ASSUME ConstantsAssumption ==
    /\ None \notin User \cup Role \cup Name
    /\ AccessLife \in Nat \ {0}
    /\ RefreshLife \in Nat
    /\ AccessLife <= RefreshLife
    /\ Faults \in BOOLEAN

VARIABLES
    users,     \* table User: its state, name and isFrozen
    roles,     \* table Role: none, or does it grant the permission?
    assigned,  \* table UserRole
    session,   \* the pair of tokens a client of a user holds
    calls,     \* the handler running in each slot
    lost,      \* ticks since a user last had the permission,
    lacked     \* and since one last lacked it (both up to RefreshLife)

table == <<users, roles, assigned>>
clock == <<lost, lacked>>
vars == <<users, roles, assigned, session, calls, lost, lacked>>

-----------------------------------------------------------------------------
(* Rows, tokens and handler records *)

UserRow ==
    [state : {"none", "row", "gone"}, name : Name \cup {None},
     frozen : BOOLEAN]

NoUser == [state |-> "none", name |-> None, frozen |-> FALSE]

\* What a token says of the permission; a login's has no apiPermissions.
Right == {"yes", "no", "absent"}

\* The access and the refresh token of a pair have one payload and one birth;
\* a pair whose refresh token has expired is none.  A user may have many
\* clients, which do not affect each other: one stands for each of them.
Pair == [right : Right, age : 0 .. RefreshLife]
NoPair == [right |-> "absent", age |-> RefreshLife]

Pc == {"idle", "login.sign", "refresh.read", "create.insert"}

CallRecord ==
    [pc : Pc, user : User \cup {None}, right : Right, name : Name \cup {None},
     roles : SUBSET Role]

Idle ==
    [pc |-> "idle", user |-> None, right |-> "absent", name |-> None,
     roles |-> {}]

Init ==
    /\ users = [u \in User |-> NoUser]
    /\ roles = [r \in Role |-> "none"]
    /\ assigned = {}
    /\ session = [u \in User |-> NoPair]
    /\ calls = [s \in Slot |-> Idle]
    /\ lost = [u \in User |-> RefreshLife]
    /\ lacked = [u \in User |-> 0]

-----------------------------------------------------------------------------
(* Helpers *)

Begin(s, call) ==
    /\ calls[s] = Idle
    /\ calls' = [calls EXCEPT ![s] = call]
Return(s) == calls' = [calls EXCEPT ![s] = Idle]

Exists(u) == users[u].state = "row"
NameTaken(n) == \E u \in User : Exists(u) /\ users[u].name = n
ExistingRoles == {r \in Role : roles[r] # "none"}

Alive(t) == t.age < RefreshLife

\* A pair is signed; the client takes it, or its answer is lost on the way.
Sign(u, right) ==
    \/ session' = [session EXCEPT ![u] = [right |-> right, age |-> 0]]
    \/ UNCHANGED session

\* getUserPermissions: the union over the user's roles.
Holds(u) == \E r \in Role : <<u, r>> \in assigned /\ roles[r] = "grants"

\* History: runs along with every step that changes the tables.
Watch ==
    /\ lost' = [u \in User |-> IF Holds(u)' THEN 0 ELSE lost[u]]
    /\ lacked' = [u \in User |-> IF Holds(u)' THEN lacked[u] ELSE 0]

\* AuthGuard.canActivate, for an endpoint that asks for the permission.
\* Mutant: it does not ask for an access token.
PassesWithAny(t) == t.right = "yes"

Passes(t) == t.age < AccessLife /\ t.right = "yes"
Forbidden(t) == t.age < AccessLife /\ t.right = "no"

-----------------------------------------------------------------------------
(* UserController.login and refresh *)

\* validateUser: the row with its roles; then the password is verified and
\* isFrozen tested, both of this snapshot.
LoginRead(s, u) ==
    /\ Exists(u)
    /\ ~users[u].frozen
    /\ Begin(s, [Idle EXCEPT !.pc = "login.sign", !.user = u])
    /\ UNCHANGED <<table, session, clock>>

\* The payload has menu and feature permissions but no apiPermissions.
LoginSign(s) ==
    LET u == calls[s].user
    IN  /\ calls[s].pc = "login.sign"
        /\ Sign(u, "absent")
        /\ Return(s)
        /\ UNCHANGED <<table, clock>>

\* Both the bearer token and the parameter are verified.
Refresh(s, u) ==
    /\ Alive(session[u])
    /\ Begin(s, [Idle EXCEPT !.pc = "refresh.read", !.user = u,
                             !.right = session[u].right])
    /\ UNCHANGED <<table, session, clock>>

\* Mutant: the payload is signed again as it is.
RefreshReadCopies(s) ==
    /\ calls[s].pc = "refresh.read"
    /\ Sign(calls[s].user, calls[s].right)
    /\ Return(s)
    /\ UNCHANGED <<table, clock>>

\* getJwtPayloadData reads the rights again; isFrozen is not looked at.
RefreshRead(s) ==
    LET u == calls[s].user
    IN  /\ calls[s].pc = "refresh.read"
        /\ \/ /\ Exists(u)
              /\ Sign(u, IF Holds(u) THEN "yes" ELSE "no")
           \/ /\ ~Exists(u)
              /\ UNCHANGED session
        /\ Return(s)
        /\ UNCHANGED <<table, clock>>

-----------------------------------------------------------------------------
(* UserService and RoleService: one statement each, but for create *)

\* Unique index on the name, foreign keys of UserRole.
\* Mutant: no unique index.
InsertableAnyway(n, rs) == rs \subseteq ExistingRoles

Insertable(n, rs) == ~NameTaken(n) /\ rs \subseteq ExistingRoles

\* Only create tests the name first.
CreateUser(s, n, rs) ==
    /\ ~NameTaken(n)
    /\ Begin(s, [Idle EXCEPT !.pc = "create.insert", !.name = n, !.roles = rs])
    /\ UNCHANGED <<table, session, clock>>

\* Mutant: no default for isFrozen.
NewUserNoDefault(n) == [state |-> "row", name |-> n, frozen |-> None]

NewUser(n) == [state |-> "row", name |-> n, frozen |-> FALSE]

\* After the password was hashed: the user and its roles, or an exception.
CreateInsert(s) ==
    LET call == calls[s]
    IN  /\ call.pc = "create.insert"
        /\ \/ /\ Insertable(call.name, call.roles)
              /\ \E u \in User :
                   /\ users[u].state = "none"
                   /\ users' = [users EXCEPT ![u] = NewUser(call.name)]
                   /\ assigned' = assigned \cup {u} \X call.roles
              /\ UNCHANGED roles
              /\ Watch
           \/ /\ ~Insertable(call.name, call.roles)
              /\ UNCHANGED <<table, clock>>
        /\ Return(s)
        /\ UNCHANGED session

\* A request that leaves isFrozen out has it FALSE, the default of the DTO.
UpdateUser(u, n, frozen, rs) ==
    /\ Exists(u)
    /\ \A v \in User \ {u} : Exists(v) => users[v].name # n
    /\ rs \subseteq ExistingRoles
    /\ users' = [users EXCEPT ![u].name = n, ![u].frozen = frozen]
    /\ assigned' = (assigned \ ({u} \X Role)) \cup {u} \X rs
    /\ UNCHANGED <<roles, session, calls>>
    /\ Watch

\* delete and deleteMany; UserRole cascades.
DeleteUsers(us) ==
    /\ us # {}
    /\ \A u \in us : Exists(u)
    /\ users' = [u \in User |-> IF u \in us THEN [NoUser EXCEPT !.state = "gone"]
                                ELSE users[u]]
    /\ assigned' = assigned \ (us \X Role)
    /\ UNCHANGED <<roles, session, calls>>
    /\ Watch

\* create and update of a role.
CreateRole(r, g) ==
    /\ roles[r] = "none"
    /\ roles' = [roles EXCEPT ![r] = g]
    /\ UNCHANGED <<users, assigned, session, calls>>
    /\ Watch

UpdateRole(r, g) ==
    /\ roles[r] # "none"
    /\ roles' = [roles EXCEPT ![r] = g]
    /\ UNCHANGED <<users, assigned, session, calls>>
    /\ Watch

\* delete and deleteMany; UserRole cascades.
DeleteRoles(rs) ==
    /\ rs # {}
    /\ rs \subseteq ExistingRoles
    /\ roles' = [r \in Role |-> IF r \in rs THEN "none" ELSE roles[r]]
    /\ assigned' = assigned \ (User \X rs)
    /\ UNCHANGED <<users, session, calls>>
    /\ Watch

-----------------------------------------------------------------------------

\* Time passes.
Later(n) == IF n < RefreshLife THEN n + 1 ELSE n

Tick ==
    /\ session' = [u \in User |->
         IF session[u].age + 1 < RefreshLife
         THEN [session[u] EXCEPT !.age = @ + 1] ELSE NoPair]
    /\ lost' = [u \in User |-> IF Holds(u) THEN 0 ELSE Later(lost[u])]
    /\ lacked' = [u \in User |-> IF Holds(u) THEN Later(lacked[u]) ELSE 0]
    /\ UNCHANGED <<table, calls>>

Proceed(s) == LoginSign(s) \/ RefreshRead(s) \/ CreateInsert(s)

\* A statement fails, or the process is restarted.
Abort(s) ==
    /\ Faults
    /\ calls[s] # Idle
    /\ Return(s)
    /\ UNCHANGED <<table, session, clock>>

Administer ==
    \/ \E u \in User, n \in Name, frozen \in BOOLEAN, rs \in SUBSET Role :
         UpdateUser(u, n, frozen, rs)
    \/ \E us \in SUBSET User : DeleteUsers(us)
    \/ \E r \in Role, g \in {"grants", "plain"} :
         CreateRole(r, g) \/ UpdateRole(r, g)
    \/ \E rs \in SUBSET Role : DeleteRoles(rs)

Next ==
    \/ \E s \in Slot :
         \/ \E u \in User : LoginRead(s, u) \/ Refresh(s, u)
         \/ \E n \in Name, rs \in SUBSET Role : CreateUser(s, n, rs)
         \/ Proceed(s)
         \/ Abort(s)
    \/ Administer
    \/ Tick

Spec == Init /\ [][Next]_vars

\* Handlers resume when their statement has answered, and time passes.
FairSpec == Spec /\ WF_vars(Tick) /\ \A s \in Slot : WF_vars(Proceed(s))

-----------------------------------------------------------------------------
(* Properties *)

\* Rows, tokens and handler records have their types.
TypeOK ==
    /\ users \in [User -> UserRow]
    /\ roles \in [Role -> {"none", "grants", "plain"}]
    /\ assigned \subseteq User \X Role
    /\ session \in [User -> Pair]
    /\ calls \in [Slot -> CallRecord]
    /\ lost \in [User -> 0 .. RefreshLife]
    /\ lacked \in [User -> 0 .. RefreshLife]

\* What the guard answers is what the user's roles said less than the life of
\* an access token ago, however roles change while tokens are refreshed: a
\* permission taken away is honoured no longer, one granted is missed no longer.
VerdictsAreRecent ==
    \A u \in User :
        /\ Passes(session[u]) => lost[u] < AccessLife
        /\ Forbidden(session[u]) => lacked[u] < AccessLife

\* No two users have one name: create tests it and inserts after an await, and
\* renaming does not test it at all.
UsernamesUnique ==
    \A u, v \in User :
        Exists(u) /\ Exists(v) /\ users[u].name = users[v].name => u = v

\* The sessions of a deleted user end: its tokens expire, and neither a refresh
\* nor a login under way gives it new ones for ever.
DeletedSessionsEnd ==
    \A u \in User :
        users[u].state = "gone" ~> [](~Alive(session[u]))

=============================================================================
